------------------------------ MODULE SpaceMath ------------------------------
(***************************************************************************)
(* The pure arithmetic of the space-core program: constants.rs,            *)
(* helpers.rs, and the share-to-quote formulas that the instruction        *)
(* handlers repeat.  All quantities are natural numbers; \div is the       *)
(* truncating integer division of Rust.  The release build of the program  *)
(* has overflow-checks on (Cargo.toml), so an overflow aborts a            *)
(* transaction and changes no state; the models stay far below 2^64.       *)
(***************************************************************************)
EXTENDS Integers

CONSTANT QuoteScale    \* quote_scale(market.quote_decimals): 1 for USDC, 1000 for SPACE

ASSUME QuoteScaleAssumption == QuoteScale \in Nat \ {0}

BASIS_POINTS == 10000
MAX_LEVERAGE == 10
INITIAL_MARGIN_BPS == 1000
MAINTENANCE_MARGIN_BPS == 1000
LIQUIDATION_PENALTY_BPS == 1000
LIQUIDATION_STEP_BPS == 2500
BUY_FEE_MAX_BPS == 200
BUY_FEE_MIN_BPS == 2
SELL_FEE_PEAK_BPS == 100
SELL_FEE_MIN_BPS == 2
SELL_FEE_SIGMA == 2500
MAKER_FEE_BPS == 0

Lesser(a, b) == IF a <= b THEN a ELSE b
Greater(a, b) == IF a >= b THEN a ELSE b
\* (A mutant: a plain subtraction.)
PlainSub(a, b) == a - b

SatSub(a, b) == IF a >= b THEN a - b ELSE 0      \* saturating_sub

(***************************************************************************)
(* Shares are 6-decimal units, prices are basis points, and the value of   *)
(* `shares' at `price' is in quote base units.                             *)
(***************************************************************************)
QuoteValue(shares, price) == ((shares * price) \div BASIS_POINTS) * QuoteScale

BpsOf(amount, bps) == (amount * bps) \div BASIS_POINTS

\* The two-step proportions of the position code: a ratio in basis points
\* first, the amount scaled by it second; both steps truncate.
RatioBps(part, whole) == IF part >= whole THEN BASIS_POINTS
                                          ELSE (part * BASIS_POINTS) \div whole

\* The margin place_buy_order demands for an order.
RequiredMargin(quantity, price, leverage) ==
    LET notional == QuoteValue(quantity, price)
    IN  Greater(notional \div leverage, BpsOf(notional, INITIAL_MARGIN_BPS))

\* (A mutant: divide before multiplying.)
MarginPerShare(fill, margin, quantity) == fill * (margin \div quantity)

\* The share of the order's margin that one fill may use.
MarginUsed(fill, margin, quantity) == (fill * margin) \div quantity

(***************************************************************************)
(* Fees, in basis points of the trade value.                               *)
(***************************************************************************)
BuyFee(probability_bps) ==
    LET pct == Lesser(probability_bps, BASIS_POINTS) \div 100
        alpha == Lesser((pct * 100 + 3 * pct * pct) \div 100, 100)
    IN  BUY_FEE_MIN_BPS
          + ((BUY_FEE_MAX_BPS - BUY_FEE_MIN_BPS) * (100 - alpha)) \div 100

\* (A mutant: a linear fee around 50 %, which is not symmetric.)
SellFeeLinear(probability_bps) ==
    LET p == Lesser(probability_bps, BASIS_POINTS)
    IN  SELL_FEE_MIN_BPS
          + ((SELL_FEE_PEAK_BPS - SELL_FEE_MIN_BPS) * (BASIS_POINTS - SatSub(p, 5000)))
               \div BASIS_POINTS

SellFee(probability_bps) ==
    LET p == Lesser(probability_bps, BASIS_POINTS)
        distance == IF p > 5000 THEN p - 5000 ELSE 5000 - p
        sigma2 == (SELL_FEE_SIGMA * SELL_FEE_SIGMA) \div 100
        x == Lesser(((distance * distance) \div sigma2) \div 200, 200)
        x2 == (x * x) \div 100
        cubic == ((x2 * x) \div 100) \div 600
        gaussian == IF x < 50 THEN SatSub(100, x) + x2 \div 200
                              ELSE SatSub(100, x) + SatSub(x2 \div 200, cubic)
    IN  SELL_FEE_MIN_BPS
          + ((SELL_FEE_PEAK_BPS - SELL_FEE_MIN_BPS) * Lesser(gaussian, 100)) \div 100

DynamicFee(price, side) == IF side = "Buy" THEN BuyFee(price) ELSE SellFee(price)

(***************************************************************************)
(* A position record is [shares, avg_entry_price, collateral, ...]; its    *)
(* equity at a price is collateral plus profit, never below zero.          *)
(***************************************************************************)
Equity(collateral, value, entryValue) == Greater(collateral + value - entryValue, 0)

\* (A mutant: liquidatable at the threshold too.)
LiquidatableAt(pos, price) ==
    LET value == QuoteValue(pos.shares, price)
    IN  Equity(pos.collateral, value, QuoteValue(pos.shares, pos.avg_entry_price))
          <= BpsOf(value, MAINTENANCE_MARGIN_BPS)

\* The test of liquidate_position.
Liquidatable(pos, price) ==
    LET value == QuoteValue(pos.shares, price)
    IN  Equity(pos.collateral, value, QuoteValue(pos.shares, pos.avg_entry_price))
          < BpsOf(value, MAINTENANCE_MARGIN_BPS)
=============================================================================
