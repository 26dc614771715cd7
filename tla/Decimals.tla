------------------------------ MODULE Decimals ------------------------------
(***************************************************************************)
(* The exchange's fixed-point money arithmetic (common/decimal.utils.ts).  *)
(*                                                                         *)
(* A DECIMAL(28,8) value v is modelled by the integer v * Scale, its       *)
(* number of smallest units.  The code rounds every product down to a      *)
(* whole unit and refuses a result beyond the column's largest value; sums *)
(* and differences of whole units are exact.                               *)
(***************************************************************************)
EXTENDS Integers

CONSTANTS
    Scale,          \* units in one BTC or one USD (10^8 in the code)
    DecimalMax      \* DECIMAL_MAX, in units

ASSUME DecimalsAssumption ==
    /\ Scale \in Nat \ {0}
    /\ DecimalMax \in Nat

\* The values a column of a wallet, an order or a trade can hold.
Money == 0..DecimalMax

\* multiplyScaled on nonnegative operands: the exact product, rounded down.
MultiplyScaled(left, right) == (left * right) \div Scale

\* assertPositiveOrderCost: the cost is at least one unit and fits the column.
IsPositiveOrderCost(amount, price) ==
    MultiplyScaled(amount, price) \in 1..DecimalMax

\* Mutant: release the fill's own rounded cost, not the difference of roundings.
BuyReservationDebitByFill(remaining, price, tradeAmount) ==
    MultiplyScaled(tradeAmount, price)

\* TradeSettlementService.buyReservationDebit: the part of a BUY order's
\* reservation that a fill of tradeAmount uses up, so that what stays
\* reserved is the rounded cost of what remains.
BuyReservationDebit(remaining, price, tradeAmount) ==
    MultiplyScaled(remaining, price)
        - MultiplyScaled(remaining - tradeAmount, price)
=============================================================================
