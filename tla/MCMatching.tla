----------------------------- MODULE MCMatching -----------------------------
(***************************************************************************)
(* Small instances of Matching, with what users read of it.  With Scale =  *)
(* 4 a quarter is the smallest unit, so that costs round (3 at price 3     *)
(* costs 2), one unit at price 2 or 3 is dust, and both fee rates keep     *)
(* something.                                                              *)
(***************************************************************************)
EXTENDS MarketReads, TLC

Buy(a, p) == [side |-> "BUY", amount |-> a, price |-> p]
Sell(a, p) == [side |-> "SELL", amount |-> a, price |-> p]

\* Resting orders that fill in part, better prices and rounding; and dust: to a
\* BUY of one unit a SELL at 2 is dust that stands in front of a SELL at 5,
\* which it can trade with.  With an order of each of three users, a taker sweeps
\* two makers, at its own price and at a better one.
CoreForms == {Buy(1, 5), Buy(4, 5), Sell(2, 2), Sell(2, 5)}

\* Enough proceeds to overflow a wallet that holds InitialUsd; a maker can be
\* filled, left with dust, or cancelled under the taker.
CapacityForms == {Buy(3, 5), Sell(3, 5), Sell(2, 3)}

UserSymmetry == Permutations(Users)
=============================================================================
