# A TLA+ model of the Space prediction market

Space is a prediction market on Solana. The Anchor program `space-core`
(`programs/space-core`) holds the money: complete sets of YES and NO shares, an
order book of on-chain orders with escrows, leverage lent from a liquidity
vault, resolution and redemption. A Node backend (`backend/`) keeps a row of
every order, finds matches in its tables and sends them to the program; it also
makes markets by itself, pays a faucet, awards points and pushes what happens
over WebSockets. A Next.js frontend (`frontend/`) builds the users'
transactions and shows what the backend says.

The project models the program in full, the order keeper composed with the
program, the services of the backend and the parts of the frontend that have
state of their own. TLC checks every module on small instances; TLAPS proves
36 theorems about them for every value of the constants, among them every safety
property that TLC checks. `PROJECT.json` lists
the components, the runs, the hazards, the findings and, for every definition,
the lines it is translated from.

## 1. Inventory

### The program (`programs/space-core/src`)

| part | state it keeps | operations |
|---|---|---|
| complete sets (`instructions/shares.rs`) | mints, market vault, `total_minted` | `mint_shares`, `burn_shares`, `convert_shares` |
| orders (`orders.rs`) | one PendingOrder account per (user, order id), a USDC escrow per buy, a YES or NO escrow per sell | `place_buy_order`, `place_{yes,no}_limit_sell_order`, `cancel_order`, `cancel_{,no_}sell_order` |
| matching (`matching.rs`) | one MatchState per (buy id, sell id) with two half flags | `validate_match`, `execute_{yes,no}_buyer_match`, `execute_seller_match` |
| positions (`positions.rs`) | one Position per (user, outcome, token, Spot/Leveraged) | `close_leveraged_position`, `close_position` |
| liquidation (`liquidation.rs`) | insurance vault | `liquidate_position` |
| resolution (`resolution.rs`) | market status, outcome, challenge | `resolve_oracle`, `challenge_resolution`, `finalize_market`, `mark_invalid`, `redeem_shares` |
| setup (`market.rs`, `config.rs`) | Market, Config, four vaults | initialisation, `add_market_outcome`, migration |
| arithmetic (`constants.rs`, `helpers.rs`) | none | fees, prices, scaling |

Instructions share the Market account, the vaults and the users' token
accounts. A trade is **three transactions**: a keeper validates a match, then
executes the buyer half (shares leave the sell order's escrow, money leaves the
buy order's escrow), then the seller half (the market vault pays the seller).
Each transaction is atomic; between two of them anybody may place, cancel,
match, mint, burn, close or resolve. That is where the program is hard: what
the first transaction checked is stale when the second runs, several matches of
one order are in flight, a half may have been executed when the other cannot
be, money of one trade lies in different vaults, and every amount is truncated
several times.

What makes it correct: no quote unit is created or lost; YES and NO supply are
equal and are what `total_minted` says; an order never sells more than it
escrowed nor pays more than it locked; the vaults can always pay the seller
halves and the burns; winning shares can be redeemed; a leveraged position
repays what it borrowed.

### The backend (`backend/src`)

`index.ts` connects the database and Redis, then starts the WebSocket server,
the order keeper, the liquidation monitor and executor and the auto-markets
(lines 154-269). Everything runs in one event loop; what interleaves is what
awaits.

| part | state | hard behaviour |
|---|---|---|
| order keeper and matching (`orderKeeperService.ts`, `orderMatchingService.ts`) | keys of executing matches in memory, Order rows, Position rows | three transactions and several writes with failures and crashes between; three service instances with a set of keys each; "already executed" answers |
| order book (`orderBookService.ts`) | none, it reads Order rows | which orders are paired, and at which price |
| order rows (`orderService.ts`, `routes/orders.ts`) | Order rows | a row is posted after its transaction; cancelling races filling |
| cached book (`orderBookCache.ts`) | memory and Redis entries per filter | a reader writes a stale book after an invalidation; pushes overtake answers |
| position rows (`positionService.ts`, two scripts, `routes/positions.ts`) | Position rows | six writers read, look at the chain and write, with no transaction |
| auto-markets (`autoMarketSchedulerService.ts`, `autoMarketKeeperService.ts`, `autoResolverService.ts`, `binancePriceService.ts`) | Market rows, price in memory, the chain | ticks and requests overlap; transactions land unseen; reconciliation on certain errors only |
| liquidations (`liquidationExecutorService.ts`, a script) | positions on chain | the same test in floating point and in integers |
| faucet (`faucetService.ts`) | FaucetClaim rows | check, pay, record; a failed record of a paid claim |
| points and referrals (`referralService.ts`) | SpacePoints and referral rows | read, add in memory, write; transactions for some of it |
| beta gate (`betaGate/`) | codes, challenges, counters in Redis | races of single Redis commands, counters that must expire |
| comments (`commentService.ts`) | comments, stars, reports, counters | counters beside rows; removal at a limit |
| competitions (`competitionService.ts`) | rows, snapshots, final board, cached board | a board is cached for ever by a reader that overlaps the end |
| notifications (`notificationService.ts`) | queue in memory, rows, cached count | duplicates, losses, a count kept in three places |
| sessions (`authService.ts`, `authMiddleware.ts`) | nonces, sessions | several requests and prompts, accounts switched between |
| sockets (`websocket/`) | connections, subscriptions, a counter per address | connect, close, error, sweep and restart in any order |
| markets (`marketService.ts`, `marketsListCache.ts`) | Market rows, cached list | admin pages tell the backend after the chain; a reader caches an old list |

### The frontend (`frontend/src`)

| part | state | hard behaviour |
|---|---|---|
| transactions (`hooks/useSpaceProgram.ts`) | none, the chain | several transactions for one button; queries that fail in between |
| trading panel, orders, positions (`components/`) | the order being placed or cancelled | place, confirm, post, match; cancel on chain, then delete |
| redemption (`RedeemPanel.tsx`) | redeeming flag, what it read | debts are collected with the first of several transactions |
| market pages (`pages/admin/`) | buttons | two transactions and a POST make a market |
| positions and orders shown (`PositionsContext.tsx`, `useUserOrdersWebSocket.ts`) | what is shown, requests in flight, timers | late answers, switched wallets |
| sign-in (`AuthContext.tsx`) | token, loading flag, refs | an effect that awaits while accounts change |
| badge and list (`useNotifications.ts`, `useNotificationsWebSocket.ts`) | list, count | optimistic changes, pushes and polls |
| socket (`websocketManager.ts` and its hooks) | one shared socket, subscriptions | reconnecting and resubscribing |
| book shown (`useOrderBookWebSocket.ts`) | one book | pushes for one filter, answers for another |

### How the parts interact

    page --transaction--> program <--transaction-- keeper, resolver, executor
    page --REST--> routes --> services --> tables, Redis, caches
    services --events--> WebSocket server --> manager --> hooks --> page

The tables are copies of the chain that are written after the fact, by several
writers, from what each read some time before; the caches are copies of the
tables; the pages hold copies of both. Most properties of the backend and of
the pages say in which direction a copy may be wrong.

## 2. The modules

    SpaceMath  <-  SpaceState  <-  Shares, Orders <- Positions, Matching, Resolution
                                     \________________  SpaceCore  ________________/
    SpaceCore  <-  SpaceLedger  <-  MCSpace
                   SpaceLedger  <-  SpaceClaims <- MCSpaceClaims
    SpaceCore, OrderBook, Settlement (INSTANCE)  <-  Keeper  <-  MCKeeper
    SpaceMath  <-  FillArithmetic, FeeCurve, Liquidator, MarketOrders (with OrderBook)
    FillArithmetic, FeeCurve, Liquidator, MarketOrders,
      TradingPage, Redemption, PositionRows, Portfolio               <-  MCTrading
    BetaGate, Faucet, Points, Comments, Competitions, AutoMarkets,
      Markets, Realtime                                              <-  MCServices
    Sessions, Notifications, AutoMarkets, Realtime, LiveBook         <-  MCPages
    SpaceCore, MathProofs  <-  BookProofs  <-  SpaceProofs
    SpaceProofs, SpaceLedger  <-  LedgerProofs
    OrderBook, MathProofs  <-  OrderBookProofs
    Keeper, OrderBookProofs, SpaceProofs  <-  KeeperProofs
    the modules of MCTrading, Markets, OrderBookProofs  <-  PageProofs
    the other modules of MCServices  <-  ServiceProofs

### On chain

| module | models |
|---|---|
| `SpaceMath` | constants, quote scaling, required margin, margin of a fill, buy and sell fee, liquidation test. `\div` is Rust's truncating division |
| `SpaceState` | all accounts of one market as variables; `TypeOK`, `Init`, the clock |
| `Shares` | mint and burn |
| `Orders` | the three placements, the three cancellations |
| `Matching` | the three steps of a match. The YES and NO buyer halves are one operator with the token as parameter: the two handlers differ only in the accounts they derive |
| `Positions` | leaving a position: through the book, against the vaults, by liquidation |
| `Resolution` | resolution, challenge, finalization, invalidation, redemption |
| `SpaceCore` | the composition: `BookSpec` (trading), `LifeSpec` (trading, resolution and redemption), `Spec` (everything) and the main invariants |
| `SpaceLedger` | the properties that add up accounts |
| `SpaceClaims` | statements of comments that the program does not keep |
| `FillArithmetic`, `FeeCurve` | the arithmetic on its own, over all ways to fill an order and all prices |

How the state corresponds to the accounts:

* `usdc[u]`, `wallet[<<u, o, t>>]`: the token accounts of a user; `vault`: the
  four vaults; `orderEscrow[k]`, `shareEscrow[k]`: the escrow token accounts of
  order `k = <<user, order id>>`. A share escrow belongs to the token in
  `order[k].token_type`, which is not a field of the account but says which of
  the two escrow addresses was created.
* `matchState[<<buy id, sell id>>]`: the seeds of the account are the two ids
  alone, the account is created with `init` and never closed, so the guard
  `stage = "Absent"` of `ValidateMatch` is the runtime's. Its three flags move
  together and are one `stage`.
* Three **history variables** are not in the program: `owed` (value of the
  trades whose seller half is open), `pendingFill` (their shares per sell
  order) and `netMinted`. They are there to state and prove the invariants
  without sums; `HistoryExact` and `SetsBalanced` check that they say what the
  accounts say.
* The clock is external: `Tick`.

Decisions that a reader should know:

* A market is of the per-outcome NO model (`market.no_mint` is the default
  key), the one `initialize_market_core` creates. There `convert_shares`
  rejects every call.
* Callers pass the accounts a client derives. Where a client has a choice that
  matters it is modelled: a sell order may be cancelled with the instruction of
  either token; `redeem_shares` sees the position accounts or not
  (`withPositions`), since the frontend passes them with the first redemption
  only (`frontend/src/hooks/useSpaceProgram.ts:2823-2925`).
* Not in the model, because no other state depends on it: fields that are only
  written (`fee_paid`, `margin_used`, `is_maker` of an order, `total_volume`,
  maker rewards, the list of price snapshots, `liquidation_price`, evidence,
  challenger), `config.paused`, which no instruction sets, and
  `position.is_open`, which none clears.
* The release profile has `overflow-checks = true`: an overflow or a negative
  subtraction aborts the transaction. The models therefore never wrap; a
  subtraction that could go negative would break `TypeOK`, which is proved.

### The order keeper

`Keeper` extends `SpaceCore` and `OrderBook`: the instructions of the program
are steps of the same specification, taken by users and by the passes of the
keeper. `rows` is the table of orders; `executing[i]` is the set of keys that
service instance `i` holds; `pass[w]` is one asynchronous run of the matching
code with its program counter `pc`, the match it looks at and the rows it read
(`seen`). A pass is set off by a posted order (`orderService` after
`createOrder`), or by a request (`POST /match`, the page after placing).

One step of a pass is the code from one `await` to the next: find matches
(`FindMatches`), look at each, take the key, read the accounts (`Inspect`),
send one of the three transactions (`Validate`, `Buyer`, `Seller`, or the
answer that it is rejected), read the rows again (`ReadRows`) and save them one
after the other (`SaveBuy`, `SaveSell`). Faults are counted up to `MaxFaults`:
a call fails, an account is not seen yet by the RPC node, a transaction lands
although its confirmation is not seen, or the process dies with its memory.

`Settlement` is the abstract specification: a match is absent, validated, half
executed, executed, in this order and once, and the tables are told of it at
most once, after both halves. `Keeper` implements it (`SettlesOnce`) with
`Pairs <- Matches` and `stage <- matchState[m].stage`; `records` counts how
often a fill was written.

### The other services and the pages

| module | models |
|---|---|
| `OrderBook` | what is paired and at what price, the displayed book, the best price, as operators over a sequence of rows |
| `MarketOrders` | market orders: the page's choice of price and quantity from the book it read, the row, the match, what the program says to it |
| `TradingPage` | placing (transaction, then POST), cancelling (reads, transaction, then DELETE) and closing, with reads that fail and answers that are lost; of the keeper the halves of the matches an order is in, which run before and after its cancellation, and the row it writes |
| `Redemption` | the buttons that turn shares into money: several transactions each, with queries before and between |
| `PositionRows` | the six writers of a trader's position rows, each as read, look at the chain, write |
| `Portfolio` | what a page shows of a wallet: fetches, their timers, requests, pushes, wallet switches |
| `Liquidator` | the executor's test of a position beside the program's, quarters taken one after the other, the displayed liquidation price |
| `LiveBook` | memory and Redis entries of a book, invalidation, forced refresh, broadcast, and the page |
| `AutoMarkets` | price feed, ticks, creation and seeding of markets, both polls of the resolver, reconciliation (a fetch that fails marks the row Invalid), what other admins and anybody do to the market, crashes |
| `Markets` | admin pages, the market's account, its row, the cached list and its readers |
| `BetaGate` | a code's life in Redis command by command; a command may fail, time out after it was applied, or be applied twice when the client sends it again |
| `Faucet`, `Points`, `Comments`, `Competitions` | one table or two each, query by query; what the code runs in a transaction is one step |
| `Notifications` | queue, rows, count cached for a second and served stale when its query fails, socket, list and badge |
| `Sessions` | nonces and sessions of the server, the effect and the buttons of one browser tab |
| `Realtime` | sockets of one address, their records, lists and counter, the sweep, the manager of the page |

Conventions that these modules share. A request, an effect or a timer is a
record whose `at` names the `await` where it stands; what it read before is kept in
it. A transaction of the database and a single Redis command or script are one
step. A failing call ends its handler as the `catch` does. Faults, switches and
calls are bounded by constants whose names begin with `Max`. What a property has
to leave out is a history variable that the code has no counterpart of
(`blurred`, `legacy`, `unfound`, `unread`, `alone`, `beside`, `endless`, `known`),
set where the code loses the information; each one is explained where it is
declared. Such an exception is part of what is claimed: `RowsFollowTrades` does
not catch one writer of a position's row overwriting another,
`CachedBoardIsFrozen` not a reader who overlaps an admin's call, and
`OneActivePerSeries` not two creations that overlap, because the code does not
prevent them (section 5).

## 3. What is checked

One unit of the on-chain models is 100 000 base units, so that the minimum
collateral of 1000 USDC is 10000 units (`FullMarket` scales once more; amounts
are multiples of 100 wherever truncation is not the subject, and
`FillArithmetic` is where it is). Deadlock is not an error in any run: bounds
exhaust orders, funds, faults and time.

`Trading`, `Services` and `Pages` each check several modules that share no
variable. A variable `focus`, chosen at the start, says which of them moves, so
that their state spaces add instead of multiplying; a module's behaviours are
all there, and every property is stated in the module it is about.

| run | specification and bounds | properties |
|---|---|---|
| `SpotTrading` | `BookSpec`; 2 users, 3 orders, 2 quantities, 2 prices | `SellCustody`, `SpotBacking`, `LiveBuyFunded`, `HistoryExact` |
| `LeverageTrading` | `BookSpec`; 2 users with 2 orders each, leverage 2, so that a position can be opened and closed through the book, and a pool of 6000 that two loans can exhaust | `Backing` |
| `MarketLife` | `LifeSpec`, spot; 2 users, 1 order each, both outcomes, challenge with a bond | `SetsBalanced`, `RedemptionCovered` |
| `FullMarket` | `Spec`; 1 order each, leverage 10, with `close_position` and liquidations | `TypeOK`, `UsdcConserved` |
| `Keeper` | `FairKeeperSpec`; a buy of 4 and a sell of 2, the sell's owner may cancel; one request beside the two placements, 2 service instances, 1 fault | `OnePassPerMatch`, `RowsFollowChain`, `SettlesOnce`, `SellerPaidUnlessFault` |
| `Trading` | orders up to 9 units at six limit prices, every split; marks in steps of 25 basis points; three positions with up to 10 times leverage; a book of 3 rows at 2 prices; 1 order of the page in up to 2 open matches, 3 faults; 2 outcomes, 3 buttons, 1 fault; 2 trades and 2 updates of rows, 1 fault; 2 wallets, 2 matches, 2 switches | `EscrowPaysFills`, `FeeShape`, `NotLiquidatableInProfit`, `ExecutorAgrees`, `LiquidationPriceTrue`, `BuySpendsItsAmount`, `QuotedAskIsTaken`, `CancelsAreReal`, `DebtsCollected`, `RowsFollowTrades`, `PositionsNeverRegress`, `LateOrdersDropped` |
| `Services` | one code for 2 wallets in 2 requests at a time; 2 faucet claims; 2 owners, 2 awards, 2 days; 1 comment, 2 readers, a limit of 2 reports for 20; 1 trader and 3 calls of the competition; 2 markets of one series; 2 admin tabs, 1 reader, 3 calls; 1 socket and 2 channels besides the header's; 1 fault each, a step of another admin on an auto-market being one of them | `TokenNamesRedeemer`, `LimitsWearOff`, `RecordKeepsADay`, `ReferralPointsExact`, `VotesAreWallets`, `CachedBoardIsFrozen`, `RowNeverAhead`, `OneActivePerSeries`, `ListingNeverAhead`, `ListedSocketsHeld` |
| `Pages` | `PagesSpec` (fair); 2 accounts, 2 switches and 1 job of the user at a time; 1 trade, 2 notices; 1 market, 2 resolvers, 2 faults; 2 sockets, 1 connection for 10 in the code, 2 reconnects for 10, 1 fault; 2 filters of the book, 1 change | `SignInEnds`, `BadgeSettles`, `AutoMarketsResolve`, `HeaderStaysLive`, `CacheSettles` |

Why the bounds are enough to be interesting:

* Two matches in flight on one order need one order on one side and two on the
  other (`SpotTrading`); cancellation between any two steps, a fill at a better
  price than the limit and partial fills all occur there. The shortest life of
  a leveraged position takes four orders (`LeverageTrading`).
* The races of the keeper are between two passes over one pair and a user: two
  placements and a request give three passes, on two instances, and the
  quantities leave the buy partly filled. One fault at any step is enough for
  every path of retry.
* The races of the services are between two requests over one row. Where a
  third party matters (a reader beside an admin, a second day, the script
  beside the keeper) it is there. Limits are lowered to what two requests
  reach.
* One order is enough for the page (`TradingPage`): what its cancellation meets
  are the halves of its own matches, and two of them may be open.
* With one job of the user at a time (`Sessions`) nobody signs out while a
  sign-in waits; effects, timers and replies overlap all the same. `SignInEnds`
  also holds with `MaxJobs = 2`, in a run of four minutes that is not kept here.
* `AdminSteps` of `AutoMarkets` resolves a market only when the service has
  made it (others could earlier: the creation would then fail, which
  `SeedingFails` covers) and counts as a fault, since nothing makes an admin act.
* Every action and every disjunct of every next-state relation fires in a
  passing run.

What the weaker ones say, so that nobody reads more into them:

* `RowsFollowChain` relates a row with a fill to an order with a fill, not the
  amounts, and says nothing of rows that stay behind.
* `CancelsAreReal` is about what the trader gets back, not about the status: a
  half that runs after the cancellation sets the order back to (Partially)Filled
  (`matching.rs:894`, `:1719`), and the keeper may write the row after the page
  has cancelled it, so "a cancelled row is of a dead order" is false.
* `RowNeverAhead` lets a row be behind the chain, and lets it say Invalid
  whatever the chain says. `AutoMarketsResolve` is satisfied by such a row too.
* `CacheSettles` holds by the two times to live, with or without `invalidate`;
  what a page shows meanwhile may be stale, and a page that is not told again
  keeps it.
* `ListingNeverAhead` allows an old list.
* `UsdcConserved` is about the sum of all accounts: a position that owes more than
  it holds after liquidations does not violate it.
* `SellCustody` counts shares stranded in an escrow; that their owner gets them
  back is not stated (section 5).
* `DebtsCollected` is about debts left behind, not about debts collected with
  shares that a later transaction then fails to redeem.

### Fairness

Safety is checked without fairness. Two specifications have some.

`FairKeeperSpec`: weak fairness of the next step of every pass, and of every
request. The event loop runs each continuation, and a call to the chain or the
database returns or fails; a failing call is a step too, and it is not fair:
nothing has to fail. Users owe nothing: they need not post, and they may
cancel. `SellerPaidUnlessFault` says that a match whose buyer half is executed
is finished unless a call fails.

`PagesSpec`: timers fire, calls are answered or fail, messages of an open
socket arrive, cache entries expire, trades keep coming on the price feed, time
passes. A user may leave a prompt of the wallet open for ever, and `SignInEnds`
excepts exactly that. Faults are bounded, as is the number of changes a user
makes: "in the end" is after the last one. The page's manager gives up after ten
failed reconnects, so there are fewer faults than attempts.

### Disagreements between the code and what is said of it

Each has a run in which TLC finds a behaviour of the model that violates the
property.

| run | property | what happens | said at |
|---|---|---|---|
| `PartialClose` | `CloseRepaysDebt` | a leveraged close filled in two halves repays 3/4 of its debt (`matching.rs:1671`) | `lib.rs:257` |
| `InvalidMarket` | `InvalidMarketRefunds` | the refund of an invalid market is unreachable (`resolution.rs:228`) | `resolution.rs:392` |
| `MarketSells` | `MarketSellsAtBuyersPrice` | a market sell that meets a market buy is executed at its own limit, one cent (`orderBookService.ts:243`) | `useSpaceProgram.ts:1107` |
| `SellerPaid` | `SellerPaid` | a backend that dies after the buyer half leaves the seller unpaid: another pass has set the buy's row to filled, and no later request finds the match (`orderMatchingService.ts:196`) | `orderKeeperService.ts:517`, `SPACE_PREDICTION_MARKET_DOCS.md:1175` |

`SellerPaid` is checked under `FairKeeperSpec` with a request that is repeated
for ever and a single crash: the counterexample ends in a loop of requests that
all find nothing.

## 4. What is proved

Every safety property and every action property of the passing runs is a
theorem, and so is the refinement of `Settlement`: for any set of users,
orders, prices, wallets, rows, tabs and service instances and for any bounds.
The assumptions are those that the modules name (`QuoteScaleAssumption`,
`SpaceAssumption`, `InputAssumption`, `LedgerAssumption`, `KeeperAssumption`,
`FillAssumption`, `FeeCurveAssumption`, `LiquidatorAssumption`,
`MarketOrdersAssumption`, `PortfolioAssumption`, `GateAssumption`,
`CommentAssumption`, `PointsAssumption`, `FaucetAssumption`,
`RealtimeAssumption`); they type the constants or say that a set is finite, and
TLC evaluates each of them in the runs. What a theorem supposes besides is in
its statement:

| theorem | states | for |
|---|---|---|
| **`SpaceProofs`** | | |
| `TypesKept`, `CustodyKept` | `TypeOK`, `SellCustody` | `Spec` |
| `BuysStayFunded` | `LiveBuyFunded` | `Spec`, in behaviours with `[]MatchesHaveValue` |
| `BackingKept` | `Backing` | `BookSpec` |
| `SpotBackingKept` | `SpotBacking` | `BookSpec` with `Leverages = {1}` |
| **`LedgerProofs`** | | |
| `UsdcKept`, `HistoryKept` | `UsdcConserved`, `HistoryExact` | `Spec` |
| `SetsKept` | `SetsBalanced` | `LifeSpec` |
| `RedemptionKept` | `RedemptionCovered` | `LifeSpec` with `Leverages = {1}` |
| `NobodyIsTurnedAway` | no redemption is refused for an empty vault | the same |
| **`KeeperProofs`** | | |
| `PassesExclude` | `OnePassPerMatch` | `KeeperSpec` |
| `MatchesSettle` | `SettlesOnce`, the refinement of `Settlement` | `KeeperSpec` |
| `RowsNeverAhead` | `RowsFollowChain` | `KeeperSpec` with `DistinctIds` |
| `KeeperKeepsCustody` | `SellCustody` and `Backing` | `KeeperSpec` |
| **`PageProofs`** | | |
| `PositionsGoOn`, `LateOrdersAreDropped` | `PositionsNeverRegress`, `LateOrdersDropped` | `PortfolioSpec` |
| `CancelsStayReal` | `CancelsAreReal` | `TradingSpec` |
| `ListingKept` | `ListingNeverAhead` | `MarketsSpec` |
| `DebtsTaken` | `DebtsCollected` | `RedemptionSpec` |
| `EscrowIsEnough` | `EscrowPaysFills` | `FillSpec` |
| `ProfitIsSafe`, `FeesInShape` | `NotLiquidatableInProfit`, `FeeShape` | `CurveSpec` |
| `ShownPriceIsTrue` | `LiquidationPriceTrue` | `LiquidatorSpec` |
| `ExecutorsAgree` | `ExecutorAgrees` | `LiquidatorSpec` with `QuoteScale = 1` |
| `BuysAreAffordable`, `AsksAreTaken` | `BuySpendsItsAmount`, `QuotedAskIsTaken` | `MarketOrdersSpec` |
| `RowsFollow` | `RowsFollowTrades` | `RowsSpec` |
| **`ServiceProofs`** | | |
| `TokensKept`, `LimitsEnd` | `TokenNamesRedeemer`, `LimitsWearOff` | `GateSpec` |
| `RowsNeverLead`, `SeriesTakeTurns` | `RowNeverAhead`, `OneActivePerSeries` | `AutoSpec` |
| `VotesCounted` | `VotesAreWallets` | `CommentSpec` |
| `ReferralsCounted` | `ReferralPointsExact` | `PointsSpec` |
| `RecordsKept` | `RecordKeepsADay` | `FaucetSpec` |
| `BoardsAgree` | `CachedBoardIsFrozen` | `CompetitionSpec` |
| `ListsKept` | `ListedSocketsHeld` | `RealtimeSpec` |

`MathProofs`, `BookProofs` and `OrderBookProofs` hold lemmas only.

**The hypotheses.** None of them can be dropped; TLC has a counterexample for
each.

* `[]MatchesHaveValue`: no match is of so little that its trade value is
  truncated to nothing. A buy order cancelled after such a match was validated
  has an empty escrow, but the buyer half needs no money and sets the order back
  to PartiallyFilled (section 5).
* `Leverages = {1}`: with leverage a buyer half may pay with the liquidity
  vault's money into the margin vault, and then the market vault alone does not
  cover what it owes.
* `BookSpec`, `LifeSpec`: `close_position` and `liquidate_position` pay from
  the market vault without a bound, and take shares out of circulation.
* `DistinctIds`: no two orders share an id. A MatchState is found by the two
  ids alone (`matching.rs`, seeds of `validate_match`), and the page takes the
  time of day in milliseconds (`useSpaceProgram.ts:2026`). When two users place
  at the same millisecond, a pass over the one's row finds the other's match
  with its buyer half executed, executes its seller half and records the fill in
  the wrong row. (That it found another user's match is seen and logged,
  `orderKeeperService.ts:582-622`, and the pass goes on.)
* `QuoteScale = 1`: the executor multiplies shares and prices as if it were.

**The program.** `TypeOK` says that balances, escrows and debts are natural
numbers, so it needs the subtractions to be covered. It is not inductive: the
buyer half takes shares from the escrow of the order its MatchState names, and a
seller half adds to that order's fill. `BookInv` therefore says, beside
`SellCustody`, that an absent order is untouched and a placed one has a positive
quantity (`OrdersReal`), and that a MatchState past "Absent" names two existing
orders of the right sides with its fill inside their history (`MatchesRefer`).
`SpaceInv == TypeOK /\ BookInv` is inductive: `BookProofs` has trading,
`SpaceProofs` the rest. `MathProofs` holds the arithmetic: a truncated
proportion never exceeds the whole, ratios stay within 10000 basis points, a fee
never exceeds the trade.

`Backing` follows because a buyer half moves exactly
`AvailableMargin + BorrowedAmount >= trade_value` into the two vaults while
`owed` grows by `trade_value`, and a seller half pays at most `trade_value`
(including the debt it forwards). With leverage 1 the program refuses a buyer
half that would borrow, so all of it lands in the market vault (`SpotBacking`):
a seller half cannot fail with `InsufficientVaultBalance`.

`LiveBuyFunded` needs `BuysFunded`, which also speaks of orders that are not
live: a filled one has nothing left to buy, and a cancelled one an empty escrow,
so that a match with a value cannot revive it. The step of a fill is a fact of
truncated proportions: the share of a part and the share of the rest are
together at most the share of the whole.

**The ledgers.** The provers have no induction over a finite set. `MathProofs`
proves what the sums need once, by the smallest counterexample
(`SumFunctionOnSet` over a set is shown to change by what one term changes,
since a smallest set for which it did not could be made smaller).
`UsdcConserved` then follows instruction by instruction from what each takes
and gives; `HistoryExact` from the effect of each half of a match on the history
variables; `SetsBalanced` from what each takes from and gives to the supply of
one token, for which `MatchOutcome` is needed: a match whose seller half is open
is about the outcome its sell order offers, so that the shares leave the escrow
of the outcome they arrive in. `RedemptionCovered` is the end of `SpotLife`:
SpotBacking until the resolution, then what is left to redeem falls with what is
paid. `NobodyIsTurnedAway` states it as users see it: a winning share that a
wallet holds is never refused.

**The keeper.** Two of the proofs look at no amounts: they follow the program
counters of the passes. `KeyInv` says that every pass inside `executeMatch`
holds the key of its match in its instance, which makes passes of an instance
exclude each other; a crash empties the sets and the passes together.
`RecordInv` says that a fill is recorded only of an executed match, and that the
passes that are about to record one are alone with it: they are the passes whose
own seller half landed, which the program accepts once. Any number of instances
is therefore safe for this property although their keys are separate. Every step
of the program is shown to advance at most one match by one stage or none
(`Onward`), whichever user or pass takes it.

The other two need what the passes remember. `TableInv` joins `SpaceInv`, the
rows and the passes: the matches of a queue name two rows and their ids
(`GoodPass`, from what `matchOrders` returns by the lemmas of
`OrderBookProofs`), what a pass has read of the rows are rows, a pass that is
recording knows its match executed, an executed match has filled both its orders
(`ChainFills`), and what was filled stays filled (`ChainGrows`). Every step of
the keeper is one of the program or none (`KeeperChain`), although a pass
may ask for a price and a size that no user chose: the lemmas on
`validate_match` hold for all. So the program keeps custody and backing under the
keeper, and a row that is saved is that of an order with a fill.

**The order book and market orders.** `OrderBookProofs` shows that a side of
the book can be sorted and that `matchOrders` gives every buy row with a partner
the best of them. `MarketInv` ties a trader's row to the ask that the price was
taken from, which rests or was taken by an earlier order.

**The pages.** `PositionsInv`: at most one fetch is in flight, and what it
brought is not older than what is shown. `OrdersInv`: a request that is not
cancelled is of the connected wallet. `TradingInv`: what an order
holds for what is left to fill, and what each handler may conclude of it where it
stands: one that is about to delete a row it could read has seen the escrow
emptied, and no half of a match fills it again. `MarketsInv`: every copy of a market
(row, cached list, reader, a tab about to tell the backend) is behind the
account, and the account only goes forward (`Grows`). `RedemptionInv`: what a
job has read, redeemed and yet to do, so that the first transaction takes the
debts. `RowsInv`: for each position the trades, the row and the updates in
flight account for each other, with the order in which updates of the same
position may have read it.

**The arithmetic.** `FillInv` keeps the margin used in proportion to what has
been filled, rounded down; the rest is inequalities of truncated divisions,
proved for every price and amount instead of every one of a grid. `CurveInv`
and `StakeInv` say where the numbers come from.

**The services.** `GateInv`: a request that has run the redemption script is
the one its code names. `LimitsInv`: a counter without an expiry belongs to a
request that stands between INCR and EXPIRE, or to one that was cut off there.
`AutoInv`: for each market what its creator, its row, the chain and both polls
may say of it, and who overlapped whom. `CommentInv`, `PointsInv`: counters equal
the number of rows but for what is inside a request. `FaucetInv`: a claim about
to pay has seen every payment that it has to. `BoardInv`: a reader that was alone
with an ended competition holds the frozen board. `MailInv`, `SocketInv`: what is
in the mail of a socket, and which handler has yet to run for a socket that
a list still holds.

### Only model-checked

* Liveness under fairness: `SellerPaidUnlessFault`, `SignInEnds`,
  `BadgeSettles`, `AutoMarketsResolve`, `HeaderStaysLive`, `CacheSettles`. The
  provers have no rule for fairness with quantified actions, nor `ENABLED`.
* The four disagreements of section 3, which are counterexamples.
* `LiveBook`, `Sessions` and `Notifications` have only liveness properties and
  no theorem.

## 5. What reading and modelling showed besides

Not findings with a run: either nothing in the repository states otherwise, or
the code is not reached as it is wired. Paths are of the repository.

**The program.**

* A half that runs after an order was cancelled sets its status back to
  (Partially)Filled (`matching.rs:894`, `:1719`), although it says at docs `:418`
  that a cancelled order stays so. Such an order counts as live and holds
  nothing (`CancelsAreReal`); the page's row of it says cancelled, until the
  keeper writes the fill over it.
* Selling the shares of a leveraged position with an ordinary sell order is
  refused only if the transaction names that position's account
  (`orders.rs:465-484`, `:791-809`). The model leaves the refusal out.
* `close_position` does not reload the margin vault between its transfers
  (`positions.rs:614-643`) and aborts when that vault is short; the model's step
  is then not enabled.
* A NO trade stores its price as the YES price of the outcome
  (`matching.rs:1732`, read at `positions.rs:352`).
* Complete sets bought with leverage may exceed what the market vault holds, so
  not all can be burnt (`matching.rs:665`; docs `:1163`, `:1183`).
* A buy order cancelled after validation opens a position that borrowed
  everything (`matching.rs:663`; docs `:1185`). A spot order cannot, unless the
  match is of so little that its value is truncated to nothing
  (`matching.rs:251-268`): then it borrows nothing and is live again with an empty
  escrow (`matching.rs:894-899`).
* A MatchState belongs to two order ids, whoever's they are, and ids are times of
  day in milliseconds: a second pair of orders with the ids of a first can never
  be matched, and its rows may be given the first one's fill (section 4).
* Orders last 100 years (`constants.rs:49`), not 24 hours; the minimum
  collateral is 1000 USDC, not 5 (docs `:1156`); the minimum margin is 10 %, not
  20 % (docs `:430`); a limit sell that meets a limit buy pays the taker fee
  (`matching.rs:257`).
* `calculate_liquidation_price` divides a margin rate in basis points twice: a
  stored liquidation price lies a few hundredths of a percent under the entry
  price and is not where `liquidate_position` accepts.
* Cancelling a sell order with the instruction of the other token strands its
  shares (`orders.rs:1070`). The page does so with a NO sell whose escrow it
  could not read.

**Keeper and book.**

* `index.ts` calls `startKeeper` before `initialize` has ended, so
  `startAutoExecution` and `cleanupStaleOrders` do not start. The periodic
  `matchAllMarkets` looks for orders by `Market.marketId` while rows carry the
  market's address, and finds none. Three `OrderMatchingService` instances exist,
  each with its own set of keys.
* A pair that the chain always rejects is proposed again at every pass and
  starves what is behind it (`orderBookService.ts:283`).
* The keeper records the size it computed, not the fill that the chain made.
* A client that posts no price gets a row whose price differs from its order's;
  a market buy's row may be paired with asks up to 5 % above its price on chain,
  which `validate_match` rejects.
* `invalidate` deletes one key of a book (`orderBookCache.ts:94`) while
  subscribers are answered from others; overlapping emitters may deliver in
  reverse; a late answer for another filter is shown.

**Positions, redemption, liquidation.**

* A row closed by the view, the cleanup or a sync while a close order is
  pending stays closed when that order is cancelled; a sync without a row makes a
  YES row even for NO shares.
* A sync whose fetch of the account fails closes the row and sets its shares to
  zero (`positionService.ts:704-741`).
* `scripts/cleanupClosedPositions.ts:161` closes rows whose account is at an
  older version's address.
* Several winning outcomes or a failing query leave shares unredeemed until
  the button is pressed again; `settleMarketPosition` looks at the first
  leveraged position only.
* Discovery of positions to liquidate is a TODO
  (`liquidationExecutorService.ts:271`) and the monitor's `checkAllPositions` is
  empty: nothing is ever queued, and a queued task would find itself "already in
  progress" (388 against 450-455). The executor reads the YES price for NO
  positions, ignores the quote scale and reports 5 % insurance where the
  program takes 10 %.

**Services.**

* Auto-markets: an account that cannot be read, for whatever reason, is taken
  for one that does not exist, and the row is marked Invalid for good
  (`autoMarketKeeperService.ts:484-495`, `autoResolverService.ts:109`, `:189`).
  Each poll takes ten markets, in no order: with more than ten that can never
  proceed, others could wait for ever (not modelled, `AutoMarketsResolve` has
  one market). `currentQuoteMint` is shared by overlapping creations
  (`routes/autoMarket.ts:61`); a failing creation leaves an orphan; a crash
  loses the recovery of liquidity; Disputed rows are never finalized by the
  service.
* Faucet: overlapping claims can both be paid (`routes/faucet.ts:49`).
  `isSessionValid` is not awaited in the routes of faucet, referrals and
  comments.
* Beta gate: a counter whose EXPIRE fails or times out, or whose INCR is not
  answered by 1 because the client sent it twice, never ends
  (`betaGate/service.ts:154`, `config/redis.ts:33-37`); a redeemed code whose
  script is not answered gives no token.
* Points: totals and daily caps are read, added and written, so stale awards
  overwrite each other. Only referral credits are exact (`ReferralPointsExact`).
* Comments: the removal at 20 reports compares a count read before, so it may
  come late.
* Competitions: a reader beside the finalization caches an old or empty board
  without expiry; one created as "ended" has no snapshot.
* Notifications: the queue is lost at a crash; after a wallet switch the list
  keeps the old wallet's notices.
* Sockets: the error and close handlers and the sweep may each decrement an
  address's counter (`connectionManager.ts:180-199`); messages that arrive
  before `attach` are lost and repaired by resubscribing; subscriptions of the
  manager are not reference counted.

**Pages.**

* Cancelling takes an account that is not found, by a node that lags behind, for
  an order that was settled, and deletes the row of a live one
  (`useSpaceProgram.ts:1452-1457`).
* A transaction that lands after the page gave up leaves an order on chain
  without a row.
* `handleFinalize`'s PATCH carries no outcome: after a lost PATCH of the
  resolution a row is Finalized without one and no redemption panel appears.
  PATCHes of two tabs out of order set a row back. The second transaction of a
  creation may fail and leave an orphan.
* A wallet switch during a fetch joins it and shows the old wallet's
  positions until the next; an answer by REST that is older than a push
  overwrites it.

## 6. Not modelled

* Users, X accounts, token metadata: queries and single-row writes.
* HTTP wiring, migrations and one-off scripts, except the two scripts that
  write position rows and the one that calls the liquidator.
* Layout, guides, charts, lists, bookmarks and `SpacePointsContext`: they show
  what the modelled hooks hold.
* Code that nothing calls: `messageBatcher`, `orderExecutionRelayer`,
  `revokeToken`, `useMatchedOrders`, `useAutoExecuteOrders`, the queue of the
  liquidation executor.
* Of the program: setup and migration beyond the state they leave, identities,
  signatures and account derivation (the accounts passed are the derived ones),
  rent and account sizes, legacy markets with a shared NO mint.
* Of the WebSocket server: a Redis that fails (its counter of connections is
  then skipped) and messages dropped by the rate limit.

## 7. What could be added

The liveness properties rest on TLC alone. `RowsFollowChain` says that a row is
never ahead of an order that has not been filled at all; by how much it may be
behind or ahead of a partly filled one is not stated, since the keeper records
the size that it computed and not the fill. The keeper's composition with the
pages (a cancellation by `TradingPage` against a pass of `Keeper`) is covered
from both sides but not in one specification.
