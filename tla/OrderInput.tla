----------------------------- MODULE OrderInput -----------------------------
(***************************************************************************)
(* An order form of the browser client: what the user types or takes from  *)
(* the book, what the form lets through, and what the server makes of it.  *)
(*                                                                         *)
(* A field's text is one of a few shapes and a value, counted in grains:   *)
(* Grain of them make a unit, so that a value that is no multiple of Grain *)
(* has more than eight decimal places.                                     *)
(***************************************************************************)
EXTENDS Decimals

CONSTANTS
    Grain,      \* grains in one unit
    MaxInput    \* bound: the largest value that a text has, in grains

ASSUME OrderInputAssumption ==
    /\ Grain \in Nat \ {0}
    /\ MaxInput \in Nat

VARIABLES
    amount,     \* the fields' texts
    price,
    mutation,   \* useMutation: idle, pending, success or error
    sent        \* the texts of the last request

vars == <<amount, price, mutation, sent>>

\* Digits, with decimal places or without; digits with a dot at the end; or
\* anything else that a decimal library does not read.
Shapes == {"empty", "decimal", "open", "other"}
Text == [shape : Shapes, value : 0..MaxInput]

Empty == [shape |-> "empty", value |-> 0]

Init ==
    /\ amount = Empty
    /\ price = Empty
    /\ mutation = "idle"
    /\ sent = <<Empty, Empty>>

-----------------------------------------------------------------------------
(* Decimals of both sides *)

Units(text) == text.value \div Grain
AtScale(text) == text.value % Grain = 0

\* sanitizeDecimalInput: digits and one dot are kept, and eight decimal places.
Sanitize(text) ==
    IF text.shape \in {"empty", "other"} THEN Empty
    ELSE [text EXCEPT !.value = Units(text) * Grain]

\* A field's checks in orderFormSchema.
ClientField(text) ==
    /\ text.shape = "decimal"
    /\ AtScale(text)
    /\ Units(text) \in 1..DecimalMax

\* Mutant: the cost is not checked against the column's largest value.
ClientAcceptsAnyCost(a, p) ==
    /\ ClientField(a) /\ ClientField(p)
    /\ MultiplyScaled(Units(a), Units(p)) > 0

\* orderFormSchema, with the check of the cost.
ClientAccepts(a, p) ==
    /\ ClientField(a) /\ ClientField(p)
    /\ MultiplyScaled(Units(a), Units(p)) > 0
    /\ MultiplyScaled(Units(a), Units(p)) <= DecimalMax

\* parsePositiveDecimalInput
ServerField(text) ==
    /\ text.shape \in {"decimal", "open"}
    /\ text.value > 0
    /\ AtScale(text)
    /\ Units(text) \in Money

\* createOrder's checks, before it looks at the wallet.
ServerAccepts(a, p) ==
    /\ ServerField(a) /\ ServerField(p)
    /\ IsPositiveOrderCost(Units(a), Units(p))

-----------------------------------------------------------------------------
(* The form *)

\* What a field can hold.
Field == {text \in [shape : Shapes, value : Nat] : AtScale(text)}

\* The fields are disabled while a request is pending.
TypeAmount(text) ==
    /\ mutation # "pending"
    /\ amount' = Sanitize(text)
    /\ UNCHANGED <<price, mutation, sent>>

TypePrice(text) ==
    /\ mutation # "pending"
    /\ price' = Sanitize(text)
    /\ UNCHANGED <<amount, mutation, sent>>

\* A row of the book is clicked: its price, and its amount, the sum of several
\* orders' amounts, which need not fit a column.  Nothing disables this.
SelectLevel(levelAmount, levelPrice) ==
    /\ amount' = [shape |-> "decimal", value |-> levelAmount * Grain]
    /\ price' = [shape |-> "decimal", value |-> levelPrice * Grain]
    /\ UNCHANGED <<mutation, sent>>

Submit ==
    /\ mutation # "pending"
    /\ ClientAccepts(amount, price)
    /\ mutation' = "pending"
    /\ sent' = <<amount, price>>
    /\ UNCHANGED <<amount, price>>

\* The order was created: the fields are emptied.
Succeed ==
    /\ mutation = "pending"
    /\ mutation' = "success"
    /\ amount' = Empty
    /\ price' = Empty
    /\ UNCHANGED sent

\* Refused, for want of funds for instance, or no answer.
Fail ==
    /\ mutation = "pending"
    /\ mutation' = "error"
    /\ UNCHANGED <<amount, price, sent>>

\* The alert's timer.
Dismiss ==
    /\ mutation \in {"success", "error"}
    /\ mutation' = "idle"
    /\ UNCHANGED <<amount, price, sent>>

Next ==
    \/ \E text \in Text : TypeAmount(text)
    \/ \E text \in Text : TypePrice(text)
    \/ \E a \in 0..(MaxInput \div Grain), p \in Money : SelectLevel(a, p)
    \/ Submit
    \/ Succeed
    \/ Fail
    \/ Dismiss

Spec == Init /\ [][Next]_vars

-----------------------------------------------------------------------------
(* Properties *)

\* The fields hold texts at the columns' scale, however they got there.
TypeOK ==
    /\ amount \in Field
    /\ price \in Field
    /\ mutation \in {"idle", "pending", "success", "error"}
    /\ sent \in Field \X Field

\* The two sides agree on decimals: whatever was typed, pasted or taken from
\* the book, an order that the form lets through is never refused by the server
\* as malformed, out of range, or of a cost that rounds to nothing or overflows
\* (orderFormSchema.ts and decimal-input.ts check each by its own code).
NeverMalformed ==
    mutation = "pending" => ServerAccepts(sent[1], sent[2])
=============================================================================
