------------------------------ MODULE FeeCurve ------------------------------
(***************************************************************************)
(* The dynamic fees over every price, and the test that liquidate_position *)
(* makes, over every mark of a position.                                   *)
(***************************************************************************)
EXTENDS SpaceMath

CONSTANTS Entries, Step     \* entry prices tried; distance between two marks

ASSUME FeeCurveAssumption == Entries \subseteq 1..BASIS_POINTS /\ Step \in Nat \ {0}

VARIABLES mark, entry, leverage     \* a market price and a position's terms

curve == <<mark, entry, leverage>>

CurveInit == mark = 0 /\ entry \in Entries /\ leverage \in 1..MAX_LEVERAGE

PriceMoves == mark + Step <= BASIS_POINTS /\ mark' = mark + Step /\ UNCHANGED <<entry, leverage>>

CurveSpec == CurveInit /\ [][PriceMoves]_curve

\* A position of 10000 shares as one fill at the limit price opens it.
Opened ==
    [shares |-> 10000, avg_entry_price |-> entry,
     collateral |-> RequiredMargin(10000, entry, leverage)]

-----------------------------------------------------------------------------
\* As an outcome gets likelier buying it gets cheaper, never dearer; selling is
\* dearest at 50 % and costs the same at equal distances from it; and no fee
\* leaves its configured range, so that a seller is paid at least 99 %.
FeeShape ==
    mark > 0 =>
        LET before == mark - Step
        IN  /\ BuyFee(mark) <= BuyFee(before)
            /\ {BuyFee(mark), BuyFee(before)} \subseteq BUY_FEE_MIN_BPS..BUY_FEE_MAX_BPS
            /\ SellFee(mark) = SellFee(BASIS_POINTS - mark)
            /\ mark <= 5000 => SellFee(before) <= SellFee(mark)
            /\ SellFee(mark) \in SELL_FEE_MIN_BPS..SELL_FEE_PEAK_BPS

\* The initial margin always meets the maintenance margin: no position, up to
\* the highest leverage, is liquidatable at the price it was opened at, nor when
\* the market has moved its way.
NotLiquidatableInProfit == mark >= entry => ~Liquidatable(Opened, mark)
=============================================================================
