----------------------------- MODULE MCTrading ------------------------------
(***************************************************************************)
(* What surrounds a trade off the chain, checked in one run: the rounding  *)
(* of orders and fees, market orders and the book they read, the           *)
(* liquidator, and the pages that place and cancel orders, show positions  *)
(* and redeem.  They share no variable, so a behaviour follows one of      *)
(* them, its focus, and the state spaces add instead of multiplying.       *)
(***************************************************************************)
EXTENDS FillArithmetic, FeeCurve, Liquidator, MarketOrders,
        TradingPage, Redemption, PositionRows, Portfolio

\* Positions at the highest leverage, at a price that does not divide evenly,
\* and nearly without leverage; marks around their thresholds.
SomeTerms == {<<1000, 5000, 10>>, <<1000, 7777, 5>>, <<1000, 3000, 2>>}
SomeMarks == {0, 1600, 1666, 1667, 1790, 3000, 4999, 5000, 6913, 6914, 10000}

VARIABLE focus

arithmetic == <<walk, curve, liquidator, marketorders>>
screens == <<tradingpage, redemption, positionrows, portfolio>>
trading == <<focus, arithmetic, screens>>

\* What is not followed begins in one of its states only.
MCInit ==
    /\ focus \in {"fills", "curve", "liquidator", "marketorders",
                  "tradingpage", "redemption", "positionrows", "portfolio"}
    /\ FillInit /\ (focus # "fills" => quantity = 1 /\ price = BASIS_POINTS)
    /\ CurveInit /\ (focus # "curve" => entry = BASIS_POINTS /\ leverage = 1)
    /\ LiquidatorInit
    /\ focus # "liquidator" => lastPrice = 0 /\ stake = Opening(CHOOSE t \in Terms : TRUE, "NO")
    /\ RedemptionInit
    /\ focus # "redemption" => held = {} /\ selling = {} /\ resolved.outcome = 0
    /\ PositionsInit /\ (focus # "positionrows" => legacy = {})
    /\ MarketOrdersInit /\ TradingInit /\ PortfolioInit

Followed(part) == focus = part /\ UNCHANGED focus

MCNext ==
    \/ Followed("fills") /\ Fill /\ UNCHANGED <<curve, liquidator, marketorders, screens>>
    \/ Followed("curve") /\ PriceMoves /\ UNCHANGED <<walk, liquidator, marketorders, screens>>
    \/ Followed("liquidator") /\ LiquidatorNext /\ UNCHANGED <<walk, curve, marketorders, screens>>
    \/ Followed("marketorders") /\ MarketOrdersNext /\ UNCHANGED <<walk, curve, liquidator, screens>>
    \/ Followed("tradingpage") /\ TradingNext
         /\ UNCHANGED <<arithmetic, redemption, positionrows, portfolio>>
    \/ Followed("redemption") /\ RedemptionNext
         /\ UNCHANGED <<arithmetic, tradingpage, positionrows, portfolio>>
    \/ Followed("positionrows") /\ PositionsNext
         /\ UNCHANGED <<arithmetic, tradingpage, redemption, portfolio>>
    \/ Followed("portfolio") /\ PortfolioNext
         /\ UNCHANGED <<arithmetic, tradingpage, redemption, positionrows>>

MCSpec == MCInit /\ [][MCNext]_trading
=============================================================================
