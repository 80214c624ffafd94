----------------------------- MODULE SpaceState -----------------------------
(***************************************************************************)
(* The on-chain state of one prediction market of the space-core program:  *)
(* the Market account, the four USDC vaults, every user's token accounts,  *)
(* the PendingOrder, MatchState and Position accounts and the escrow       *)
(* accounts of the orders.  Each Solana transaction is one atomic step;    *)
(* callers pass the accounts the client derives for them.  A market is of  *)
(* the per-outcome NO model (market.no_mint is the default key).           *)
(***************************************************************************)
EXTENDS SpaceMath, FiniteSets

CONSTANTS
    Users,              \* wallets
    NumOutcomes,        \* market.num_outcomes
    OrderIds,           \* the client-chosen order ids
    OrderKeys,          \* the <<user, order id>> pairs that are used
    EndDate,            \* market.end_date
    MaxTime, MaxSlot,   \* bounds on the two clocks
    MaxOrderAge,        \* MAX_ORDER_AGE_SECONDS
    ChallengePeriod,    \* CHALLENGE_PERIOD_SLOTS
    MaxGlobalOI,        \* config.max_global_oi
    InitialUsdc,        \* what each wallet holds when the market opens
    InitialCollateral,  \* collateral of initialize_market_vaults
    InitialLiquidity    \* what the operator put in the liquidity vault

ASSUME SpaceAssumption ==
    /\ Users # {}
    /\ NumOutcomes \in 2..10
    /\ OrderKeys \subseteq Users \X OrderIds
    /\ {EndDate, MaxTime, MaxSlot, MaxOrderAge, ChallengePeriod, MaxGlobalOI,
        InitialUsdc, InitialCollateral, InitialLiquidity} \subseteq Nat

VARIABLES
    usdc,           \* the users' USDC token accounts
    wallet,         \* the users' YES and NO token accounts
    vault,          \* the market's vaults: market, margin, liquidity, insurance
    market,         \* the Market account
    order,          \* the PendingOrder accounts
    orderEscrow,    \* the USDC escrow of each buy order
    shareEscrow,    \* the YES or NO escrow of each sell order
    matchState,     \* the MatchState accounts, by buy and sell order id
    position,       \* the Position accounts
    now, slot,      \* Clock: unix_timestamp and slot
    owed,           \* history: value of the trades whose seller half is open
    pendingFill,    \* history: shares each sell order sold in those trades
    netMinted       \* history: quote units minted minus quote units burned

tokens == <<usdc, wallet>>
escrows == <<orderEscrow, shareEscrow>>
book == <<order, matchState>>
clock == <<now, slot>>
history == <<owed, pendingFill, netMinted>>
vars == <<tokens, escrows, book, clock, history, vault, market, position>>

Outcomes == 0..(NumOutcomes - 1)
TokenTypes == {"YES", "NO"}
PositionTypes == {"Spot", "Leveraged"}

Owner(k) == k[1]
OrderId(k) == k[2]

(***************************************************************************)
(* The accounts.  `token_type' of an order is not a field of PendingOrder: *)
(* it says which escrow account, share_escrow or share_escrow_no, a sell   *)
(* order created.  A buy order names no token.                             *)
(***************************************************************************)
OrderStatus == {"Absent", "Open", "PartiallyFilled", "Filled", "Cancelled"}

PendingOrder ==
    [status : OrderStatus, side : {"Buy", "Sell"}, outcome_id : Outcomes,
     token_type : TokenTypes \cup {"None"}, order_type : {"Limit", "Market"},
     price : Nat, quantity : Nat, filled_quantity : Nat, margin : Nat,
     leverage : Nat, created_at : Nat, is_leveraged_close : BOOLEAN,
     borrowed_amount_to_repay : Nat, collateral_to_return : Nat]

AbsentOrder ==
    [status |-> "Absent", side |-> "Buy", outcome_id |-> 0, token_type |-> "None",
     order_type |-> "Limit", price |-> 0, quantity |-> 0, filled_quantity |-> 0,
     margin |-> 0, leverage |-> 1, created_at |-> 0, is_leveraged_close |-> FALSE,
     borrowed_amount_to_repay |-> 0, collateral_to_return |-> 0]

\* The flags executed, buy_executed and sell_executed move together:
\* "Validated" is none of them, "BuyExecuted" the second alone, "Executed" all.
MatchStage == {"Absent", "Validated", "BuyExecuted", "Executed"}

MatchState ==
    [stage : MatchStage, buy_order_user : Users, sell_order_user : Users,
     outcome_id : Outcomes, match_price : Nat, fill_quantity : Nat, trade_value : Nat,
     sell_is_maker : BOOLEAN]

AbsentMatch ==
    [stage |-> "Absent", buy_order_user |-> CHOOSE u \in Users : TRUE,
     sell_order_user |-> CHOOSE u \in Users : TRUE, outcome_id |-> 0,
     match_price |-> 0, fill_quantity |-> 0, trade_value |-> 0,
     sell_is_maker |-> FALSE]

Position ==
    [shares : Nat, avg_entry_price : Nat, leverage : Nat, collateral : Nat,
     borrowed_amount : Nat]

EmptyPosition ==
    [shares |-> 0, avg_entry_price |-> 0, leverage |-> 1, collateral |-> 0,
     borrowed_amount |-> 0]

MarketStatus == {"Active", "Resolving", "Disputed", "Finalized", "Invalid"}
NoOutcome == -1     \* None

Market ==
    [status : MarketStatus, resolved_outcome : Outcomes \cup {NoOutcome},
     resolve_slot : Nat, is_invalid : BOOLEAN, challenged : BOOLEAN,
     total_minted : Nat, total_leverage_provided : Nat,
     last_price : [Outcomes -> Nat]]

Vaults == [market : Nat, margin : Nat, liquidity : Nat, insurance : Nat]

TypeOK ==
    /\ usdc \in [Users -> Nat]
    /\ wallet \in [Users \X Outcomes \X TokenTypes -> Nat]
    /\ vault \in Vaults
    /\ market \in Market
    /\ order \in [OrderKeys -> PendingOrder]
    /\ orderEscrow \in [OrderKeys -> Nat]
    /\ shareEscrow \in [OrderKeys -> Nat]
    /\ matchState \in [OrderIds \X OrderIds -> MatchState]
    /\ position \in [Users \X Outcomes \X TokenTypes \X PositionTypes -> Position]
    /\ now \in Nat
    /\ slot \in Nat
    /\ owed \in Int
    /\ pendingFill \in [OrderKeys -> Int]
    /\ netMinted \in Int

\* The market as initialize_market_core and initialize_market_vaults leave it.
OpenMarket ==
    [status |-> "Active", resolved_outcome |-> NoOutcome, resolve_slot |-> 0,
     is_invalid |-> FALSE, challenged |-> FALSE, total_minted |-> 0,
     total_leverage_provided |-> 0, last_price |-> [o \in Outcomes |-> 5000]]

Init ==
    /\ usdc = [u \in Users |-> InitialUsdc]
    /\ wallet = [h \in Users \X Outcomes \X TokenTypes |-> 0]
    /\ vault = [market |-> InitialCollateral, margin |-> 0,
                liquidity |-> InitialLiquidity, insurance |-> 0]
    /\ market = OpenMarket
    /\ order = [k \in OrderKeys |-> AbsentOrder]
    /\ orderEscrow = [k \in OrderKeys |-> 0]
    /\ shareEscrow = [k \in OrderKeys |-> 0]
    /\ matchState = [m \in OrderIds \X OrderIds |-> AbsentMatch]
    /\ position = [p \in Users \X Outcomes \X TokenTypes \X PositionTypes |-> EmptyPosition]
    /\ now = 0
    /\ slot = 0
    /\ owed = 0
    /\ pendingFill = [k \in OrderKeys |-> 0]
    /\ netMinted = 0

\* Time passes; the bounds MaxTime and MaxSlot cap the two clocks.
Tick ==
    /\ \/ now < MaxTime /\ now' = now + 1 /\ UNCHANGED slot
       \/ slot < MaxSlot /\ slot' = slot + 1 /\ UNCHANGED now
    /\ UNCHANGED <<tokens, escrows, book, history, vault, market, position>>

\* The guard of every instruction that trades.
Trading == market.status = "Active" /\ now < EndDate

\* A PendingOrder that may still fill.
Live(k) == order[k].status \in {"Open", "PartiallyFilled"}
=============================================================================
