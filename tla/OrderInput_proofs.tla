-------------------------- MODULE OrderInput_proofs --------------------------
(***************************************************************************)
(* Proofs about the order form: what it lets through, the server accepts,  *)
(* for every scale, every largest value and every text.                    *)
(***************************************************************************)
EXTENDS OrderInput, TLAPS

\* The units of a text are a natural number, and a text of one unit or more is
\* positive.
LEMMA UnitsOfText ==
    ASSUME NEW text \in [shape : Shapes, value : Nat]
    PROVE  /\ Units(text) \in Nat
           /\ Units(text) > 0 => text.value > 0
<1>1. text.value \in Nat /\ Grain \in Nat \ {0}
  BY OrderInputAssumption
<1>2. text.value \div Grain \in Nat
  BY <1>1
<1>3. text.value = 0 => text.value \div Grain = 0
  BY <1>1
<1>4. QED
  BY <1>1, <1>2, <1>3 DEF Units

\* A product of scaled naturals is a natural.
LEMMA ScaledProductIsNat ==
    ASSUME NEW l \in Nat, NEW r \in Nat
    PROVE  MultiplyScaled(l, r) \in Nat
<1>1. Scale \in Nat \ {0}
  BY DecimalsAssumption
<1>2. l * r \in Nat
  OBVIOUS
<1>3. QED
  BY <1>1, <1>2 DEF MultiplyScaled

\* A field that orderFormSchema accepts passes parsePositiveDecimalInput.
LEMMA ClientFieldSuffices ==
    ASSUME NEW text \in [shape : Shapes, value : Nat], ClientField(text)
    PROVE  ServerField(text)
<1>1. Units(text) \in Nat /\ Units(text) \in 1..DecimalMax
  BY UnitsOfText DEF ClientField
<1>2. DecimalMax \in Nat
  BY DecimalsAssumption
<1>3. text.value > 0
  BY <1>1, <1>2, UnitsOfText
<1>4. Units(text) \in Money
  BY <1>1, <1>2 DEF Money
<1>5. QED
  BY <1>3, <1>4 DEF ClientField, ServerField

\* The two sides' checks agree (orderFormSchema.ts against decimal-input.ts and
\* decimal.utils.ts): the client's imply the server's.
THEOREM ClientChecksSuffice ==
    ASSUME NEW a \in [shape : Shapes, value : Nat],
           NEW p \in [shape : Shapes, value : Nat],
           ClientAccepts(a, p)
    PROVE  ServerAccepts(a, p)
<1>1. ServerField(a) /\ ServerField(p)
  BY ClientFieldSuffices DEF ClientAccepts
<1>2. MultiplyScaled(Units(a), Units(p)) \in Nat
  BY UnitsOfText, ScaledProductIsNat
<1>3. MultiplyScaled(Units(a), Units(p)) \in 1..DecimalMax
  BY <1>2, DecimalsAssumption DEF ClientAccepts
<1>4. QED
  BY <1>1, <1>3 DEF ServerAccepts, IsPositiveOrderCost

-----------------------------------------------------------------------------
\* What the user types is brought to the columns' scale.
LEMMA SanitizedIsField ==
    ASSUME NEW text \in Text
    PROVE  Sanitize(text) \in Field
<1>1. Grain \in Nat \ {0} /\ MaxInput \in Nat
  BY OrderInputAssumption
<1>2. Empty \in Field
  <2>1. 0 % Grain = 0
    BY <1>1
  <2>2. QED
    BY <2>1 DEF Empty, Field, AtScale, Shapes
<1>3. ASSUME text.shape \notin {"empty", "other"}
      PROVE  Sanitize(text) \in Field
  <2>1. text.value \in Nat
    BY <1>1 DEF Text
  <2>2. Units(text) \in Nat
    BY <1>1, <2>1 DEF Units
  <2>3. Units(text) * Grain \in Nat
    BY <1>1, <2>2
  <2>4. (Units(text) * Grain) % Grain = 0
    BY <1>1, <2>2
  <2>5. Sanitize(text) = [text EXCEPT !.value = Units(text) * Grain]
    BY <1>3 DEF Sanitize
  <2>6. QED
    BY <2>3, <2>4, <2>5 DEF Text, Field, AtScale
<1>4. QED
  BY <1>2, <1>3 DEF Sanitize

\* A level's price and amount, as the server writes them, are at scale.
LEMMA LevelIsField ==
    ASSUME NEW units \in Nat
    PROVE  [shape |-> "decimal", value |-> units * Grain] \in Field
<1>1. Grain \in Nat \ {0}
  BY OrderInputAssumption
<1>2. units * Grain \in Nat /\ (units * Grain) % Grain = 0
  BY <1>1
<1>3. QED
  BY <1>2 DEF Field, AtScale, Shapes

\* The fields and the request hold texts at scale in every state.
THEOREM FieldsTypeCorrect == Spec => []TypeOK
<1>1. Init => TypeOK
  <2>1. Empty \in Field
    <3>1. 0 % Grain = 0
      BY OrderInputAssumption
    <3>2. QED
      BY <3>1 DEF Empty, Field, AtScale, Shapes
  <2>2. QED
    BY <2>1 DEF Init, TypeOK
<1>2. TypeOK /\ [Next]_vars => TypeOK'
  <2> SUFFICES ASSUME TypeOK, [Next]_vars PROVE TypeOK'
    OBVIOUS
  <2> USE DEF TypeOK
  <2>1. ASSUME NEW text \in Text, TypeAmount(text) PROVE TypeOK'
    BY <2>1, SanitizedIsField DEF TypeAmount
  <2>2. ASSUME NEW text \in Text, TypePrice(text) PROVE TypeOK'
    BY <2>2, SanitizedIsField DEF TypePrice
  <2>3. ASSUME NEW a \in 0..(MaxInput \div Grain), NEW p \in Money,
               SelectLevel(a, p)
        PROVE  TypeOK'
    <3>1. a \in Nat /\ p \in Nat
      BY OrderInputAssumption, DecimalsAssumption DEF Money
    <3>2. QED
      BY <2>3, <3>1, LevelIsField DEF SelectLevel
  <2>4. CASE Submit
    BY <2>4 DEF Submit
  <2>5. CASE Succeed
    <3>1. Empty \in Field
      <4>1. 0 % Grain = 0
        BY OrderInputAssumption
      <4>2. QED
        BY <4>1 DEF Empty, Field, AtScale, Shapes
    <3>2. QED
      BY <2>5, <3>1 DEF Succeed
  <2>6. CASE Fail
    BY <2>6 DEF Fail
  <2>7. CASE Dismiss
    BY <2>7 DEF Dismiss
  <2>8. CASE UNCHANGED vars
    BY <2>8 DEF vars
  <2>9. QED
    BY <2>1, <2>2, <2>3, <2>4, <2>5, <2>6, <2>7, <2>8 DEF Next
<1>3. QED
  BY <1>1, <1>2, PTL DEF Spec

\* No order that the form sends is malformed for the server.
THEOREM FormNeverMalformed == Spec => []NeverMalformed
<1>1. Init => NeverMalformed
  BY DEF Init, NeverMalformed
<1>2. TypeOK /\ NeverMalformed /\ [Next]_vars => NeverMalformed'
  <2> SUFFICES ASSUME TypeOK, NeverMalformed, [Next]_vars
               PROVE  NeverMalformed'
    OBVIOUS
  <2>1. ASSUME NEW text \in Text, TypeAmount(text) \/ TypePrice(text)
        PROVE  NeverMalformed'
    BY <2>1 DEF TypeAmount, TypePrice, NeverMalformed
  <2>2. ASSUME NEW a \in 0..(MaxInput \div Grain), NEW p \in Money,
               SelectLevel(a, p)
        PROVE  NeverMalformed'
    BY <2>2 DEF SelectLevel, NeverMalformed
  <2>3. CASE Submit
    <3>1. ServerAccepts(amount, price)
      BY <2>3, ClientChecksSuffice DEF Submit, TypeOK, Field
    <3>2. sent' = <<amount, price>>
      BY <2>3 DEF Submit
    <3>3. QED
      BY <3>1, <3>2 DEF NeverMalformed
  <2>4. CASE Succeed \/ Fail \/ Dismiss
    BY <2>4 DEF Succeed, Fail, Dismiss, NeverMalformed
  <2>5. CASE UNCHANGED vars
    BY <2>5 DEF vars, NeverMalformed
  <2>6. QED
    BY <2>1, <2>2, <2>3, <2>4, <2>5 DEF Next
<1>3. QED
  BY <1>1, <1>2, FieldsTypeCorrect, PTL DEF Spec
=============================================================================
