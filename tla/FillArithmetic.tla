--------------------------- MODULE FillArithmetic ---------------------------
(***************************************************************************)
(* The rounding of one buy order over its whole life: an order of some     *)
(* quantity and limit price is filled piece by piece, each piece at its    *)
(* own match price, as execute_*_buyer_match does.                         *)
(***************************************************************************)
EXTENDS SpaceMath

CONSTANTS MaxQuantity, LimitPrices

ASSUME FillAssumption ==
    /\ MaxQuantity \in Nat \ {0}
    /\ LimitPrices \subseteq 1..BASIS_POINTS

VARIABLES
    quantity, price,    \* the order
    filled,             \* filled_quantity
    used, cost,         \* margin_used and the trade values so far
    shortfall           \* the borrowed_amount of the last fill

walk == <<quantity, price, filled, used, cost, shortfall>>

Margin == RequiredMargin(quantity, price, 1)

FillInit ==
    /\ quantity \in 1..MaxQuantity
    /\ price \in LimitPrices
    /\ Margin > 0
    /\ filled = 0 /\ used = 0 /\ cost = 0 /\ shortfall = 0

Fill ==
    \E q \in 1..(quantity - filled), p \in LimitPrices :
        LET available == Lesser(Margin - used, MarginUsed(q, Margin, quantity))
            value == QuoteValue(q, p)
        IN
        /\ p <= price
        /\ filled' = filled + q
        /\ used' = used + available
        /\ cost' = cost + value
        /\ shortfall' = SatSub(value, available)
        /\ UNCHANGED <<quantity, price>>

FillSpec == FillInit /\ [][Fill]_walk

-----------------------------------------------------------------------------
\* However an order is split into fills, its escrow covers them: a spot fill at or
\* below the limit misses at most one step of the quote token's scale, which the
\* truncations of the margin, of its share and of the trade value never exceed
\* together (any miss makes the buyer half fail with InvalidSpotDebt), and what
\* is left pays for the rest of the order.
EscrowPaysFills ==
    /\ shortfall <= QuoteScale
    /\ used + MarginUsed(quantity - filled, Margin, quantity) <= Margin
=============================================================================
