------------------------- MODULE ValidateJsonProofs -------------------------
(***************************************************************************)
(* Theorems about validate_json, for token streams of any length with any  *)
(* numbers of children.                                                    *)
(***************************************************************************)
EXTENDS ValidateJson, FiniteSetTheorems, TLAPS

(* What the walk knows of its counters; enough to say where it is.         *)
Counters ==
    /\ input \in Input
    /\ i \in Nat
    /\ pc \in {"parse", "outer", "root", "entry", "done"} \cup ListFields
    /\ list \in ListFields
    /\ pc = "outer" => i < r \/ i = 0
    /\ pc = "parse" => i = 0

IInv == Counters /\ InBounds /\ OnlyNothingIsAccepted

LEMMA LengthType == Counters => r \in Nat
BY DEF Counters, Input, r, tokens

LEMMA Step ==
    ASSUME IInv, [Next]_vars
    PROVE  IInv'
<1> USE LengthType DEF IInv, Counters, InBounds, OnlyNothingIsAccepted, r, tokens, ListFields
<1>1. CASE UNCHANGED vars
  BY <1>1 DEF vars
<1>2. CASE Parse
  BY <1>2 DEF Parse, Return, ParseErrors, Input
<1>3. CASE OuterLoop
  BY <1>3 DEF OuterLoop, Return, Beyond, Input
<1>4. CASE RootLoopEnds \/ ListEnds \/ EntryEnds
  BY <1>4 DEF RootLoopEnds, ListEnds, EntryEnds
<1>5. CASE Scalar
  BY <1>5 DEF Scalar, AtField, ValueMissing, ValueRejected, Return, Beyond
<1>6. CASE List
  BY <1>6 DEF List, AtField, Return, Beyond
<1>7. CASE UnknownField \/ UnknownEntryField
  BY <1>7 DEF UnknownField, UnknownEntryField, Return
<1>8. CASE Item
  BY <1>8 DEF Item, EnterEntry, Return, Beyond
<1>9. CASE Transaction
  BY <1>9 DEF Transaction, EnterEntry, Return, Beyond
<1>10. CASE EntryField
  BY <1>10 DEF EntryField, ValueMissing, ValueRejected, Return, Beyond
<1> QED
  BY <1>1, <1>2, <1>3, <1>4, <1>5, <1>6, <1>7, <1>8, <1>9, <1>10 DEF Next

LEMMA Invariant == Spec => []IInv
<1>1. Init => IInv
  BY InputsAssumption DEF Init, IInv, Counters, InBounds, OnlyNothingIsAccepted,
                          ListFields
<1> QED
  BY <1>1, Step, PTL DEF Spec

(* The walk never reads a token that the parser has not filled in.         *)
THEOREM ReadsParsedTokens == Spec => []InBounds
<1>1. IInv => InBounds
  BY DEF IInv
<1> QED
  BY <1>1, Invariant, PTL

(* validate_json returns 0 for a body without tokens and for no other.     *)
THEOREM AcceptsNoOrder == Spec => []OnlyNothingIsAccepted
<1>1. IInv => OnlyNothingIsAccepted
  BY DEF IInv
<1> QED
  BY <1>1, Invariant, PTL

-----------------------------------------------------------------------------
(* The types, and that no value is recorded unchecked.                     *)

(* An entry is filled in while it is the head of its list, and counted.    *)
HeadIsThere ==
    pc = "entry" => je[list] # <<>> /\ items > 0

Typed == TypeOK /\ HeadIsThere /\ InBounds

(* The tokens the walk looks at.                                           *)
LEMMA TokenAt ==
    ASSUME TypeOK, NEW j \in Nat, j < r
    PROVE  At(j) \in Token /\ r \in Nat
BY DEF TypeOK, Input, At, r, tokens

JeType == [scalar : [ScalarFields -> Nat], items : Entries("items"),
           transactions : Entries("transactions")]

(* Recording the token of a value of the order ...                         *)
LEMMA PutScalar ==
    ASSUME TypeOK, NEW f \in ScalarFields, NEW j \in Nat,
           je' = [je EXCEPT !.scalar[f] = j]
    PROVE  /\ je' \in [scalar : [ScalarFields -> Nat],
                       items : Entries("items"),
                       transactions : Entries("transactions")]
           /\ je'.scalar = [je.scalar EXCEPT ![f] = j]
           /\ \A l \in ListFields : je'[l] = je[l]
<1>1. /\ je \in [scalar : [ScalarFields -> Nat], items : Entries("items"),
                transactions : Entries("transactions")]
      /\ [je.scalar EXCEPT ![f] = j] \in [ScalarFields -> Nat]
  BY DEF TypeOK
<1>2. je' = [je EXCEPT !.scalar = [je.scalar EXCEPT ![f] = j]]
  OBVIOUS
<1>3. je' = [scalar |-> [je.scalar EXCEPT ![f] = j], items |-> je.items,
             transactions |-> je.transactions]
  BY <1>1, <1>2
<1> QED
  BY <1>1, <1>3 DEF ListFields

(* ... of a new entry at the head of a list ...                            *)
LEMMA PutHead ==
    ASSUME TypeOK, NEW l \in ListFields,
           je' = [je EXCEPT ![l] = <<EmptyEntry(l)>> \o @]
    PROVE  /\ je' \in [scalar : [ScalarFields -> Nat],
                       items : Entries("items"),
                       transactions : Entries("transactions")]
           /\ je'.scalar = je.scalar
           /\ je'[l] = <<EmptyEntry(l)>> \o je[l]
           /\ \A o \in ListFields \ {l} : je'[o] = je[o]
<1>1. je \in [scalar : [ScalarFields -> Nat], items : Entries("items"),
             transactions : Entries("transactions")]
  BY DEF TypeOK
<1>2. je[l] \in Entries(l)
  BY <1>1 DEF ListFields
<1>3. <<EmptyEntry(l)>> \o je[l] \in Entries(l)
  <2>1. <<EmptyEntry(l)>> \in Entries(l)
    BY DEF EmptyEntry, Entries
  <2> QED
    BY <1>2, <2>1 DEF Entries
<1>4. CASE l = "items"
  <2>1. je' = [scalar |-> je.scalar, items |-> <<EmptyEntry(l)>> \o je.items,
               transactions |-> je.transactions]
    BY <1>1, <1>4
  <2> QED
    BY <1>1, <1>3, <1>4, <2>1 DEF ListFields
<1>5. CASE l = "transactions"
  <2>1. je' = [scalar |-> je.scalar, items |-> je.items,
               transactions |-> <<EmptyEntry(l)>> \o je.transactions]
    BY <1>1, <1>5
  <2> QED
    BY <1>1, <1>3, <1>5, <2>1 DEF ListFields
<1> QED
  BY <1>4, <1>5 DEF ListFields

(* ... and of a value of the entry at the head.                            *)
EntryPut(l, f, j) ==
    /\ je'.scalar = je.scalar
    /\ je'[l] # <<>> /\ DOMAIN je'[l] = DOMAIN je[l]
    /\ je'[l][1][f] = j
    /\ \A g \in EntryFields[l] \ {f} : je'[l][1][g] = je[l][1][g]
    /\ \A n \in DOMAIN je[l] \ {1} : je'[l][n] = je[l][n]
    /\ \A o \in ListFields \ {l} : je'[o] = je[o]

LEMMA PutEntry ==
    ASSUME TypeOK, NEW l \in ListFields, je[l] # <<>>,
           NEW f \in EntryFields[l], NEW j \in Nat,
           je' = [je EXCEPT ![l][1][f] = j]
    PROVE  je' \in JeType /\ EntryPut(l, f, j)
<1>1. je \in [scalar : [ScalarFields -> Nat], items : Entries("items"),
             transactions : Entries("transactions")]
  BY DEF TypeOK
<1>2. je[l] \in Entries(l)
  BY <1>1 DEF ListFields
<1> DEFINE e == [je[l][1] EXCEPT ![f] = j]
           s == [je[l] EXCEPT ![1] = e]
<1>3. Len(je[l]) \in Nat /\ Len(je[l]) > 0 /\ 1 \in 1..Len(je[l])
  BY <1>2 DEF Entries
<1>4. e \in [EntryFields[l] -> Nat]
  <2>1. je[l][1] \in [EntryFields[l] -> Nat]
    BY <1>2, <1>3 DEF Entries
  <2> QED
    BY <2>1
<1>5. /\ s \in Entries(l) /\ s # <<>> /\ DOMAIN s = DOMAIN je[l] /\ s[1] = e
      /\ \A n \in DOMAIN je[l] \ {1} : s[n] = je[l][n]
  <2> HIDE DEF e
  <2> QED
    BY <1>2, <1>3, <1>4 DEF Entries
<1>6. je' = [je EXCEPT ![l] = s]
  OBVIOUS
<1> HIDE DEF s, e
<1>7. /\ je'[l] = s
      /\ je'.scalar = je.scalar
      /\ \A o \in ListFields \ {l} : je'[o] = je[o]
      /\ je' \in JeType
  <2>1. CASE l = "items"
    <3>1. je' = [scalar |-> je.scalar, items |-> s, transactions |-> je.transactions]
      BY <1>1, <1>6, <2>1
    <3>2. s \in Entries("items") /\ ListFields \ {l} = {"transactions"}
      BY <1>5, <2>1 DEF ListFields
    <3>3. je'[l] = s /\ je'.scalar = je.scalar /\ je'["transactions"] = je["transactions"]
      BY <1>1, <2>1, <3>1
    <3>4. /\ je.scalar \in [ScalarFields -> Nat]
          /\ je.items \in Entries("items")
          /\ je.transactions \in Entries("transactions")
      BY <1>1
    <3>5. je' \in JeType
      BY <3>1, <3>2, <3>4 DEF JeType
    <3> QED
      BY <3>2, <3>3, <3>5
  <2>2. CASE l = "transactions"
    <3>1. je' = [scalar |-> je.scalar, items |-> je.items, transactions |-> s]
      BY <1>1, <1>6, <2>2
    <3>2. s \in Entries("transactions") /\ ListFields \ {l} = {"items"}
      BY <1>5, <2>2 DEF ListFields
    <3>3. je'[l] = s /\ je'.scalar = je.scalar /\ je'["items"] = je["items"]
      BY <1>1, <2>2, <3>1
    <3>4. /\ je.scalar \in [ScalarFields -> Nat]
          /\ je.items \in Entries("items")
          /\ je.transactions \in Entries("transactions")
      BY <1>1
    <3>5. je' \in JeType
      BY <3>1, <3>2, <3>4 DEF JeType
    <3> QED
      BY <3>2, <3>3, <3>5
  <2> QED
    BY <2>1, <2>2 DEF ListFields
<1>8. /\ je'[l][1][f] = j
      /\ \A g \in EntryFields[l] \ {f} : je'[l][1][g] = je[l][1][g]
  <2>1. je'[l][1] = e
    BY <1>5, <1>7
  <2>2. je[l][1] \in [EntryFields[l] -> Nat]
    BY <1>2, <1>3 DEF Entries
  <2> QED
    BY <2>1, <2>2 DEF e
<1>9. je'[l] # <<>> /\ DOMAIN je'[l] = DOMAIN je[l]
  BY <1>5, <1>7
<1>10. \A n \in DOMAIN je[l] \ {1} : je'[l][n] = je[l][n]
  BY <1>5, <1>7
<1>11. je'.scalar = je.scalar
  BY <1>7, Zenon
<1>12. \A o \in ListFields \ {l} : je'[o] = je[o]
  BY <1>7, Zenon
<1>13. je' \in JeType
  BY <1>7
<1> QED
  BY <1>8, <1>9, <1>10, <1>11, <1>12, <1>13, Zenon DEF EntryPut

LEMMA NewHead ==
    ASSUME TypeOK, NEW l \in ListFields
    PROVE  <<EmptyEntry(l)>> \o je[l] # <<>>
<1>0. je[l] \in Entries(l)
  BY DEF TypeOK, ListFields
<1>1. <<EmptyEntry(l)>> \in Entries(l)
  BY DEF EmptyEntry, Entries
<1> QED
  BY <1>0, <1>1 DEF Entries

(* Every step keeps the types.                                             *)
LEMMA TypedStep ==
    ASSUME Typed, [Next]_vars
    PROVE  TypeOK' /\ HeadIsThere'
<1>1. /\ r \in Nat
      /\ \A j \in Nat : j < r => At(j).size \in Nat
  BY TokenAt DEF Typed, Token, TypeOK, Input, r, tokens
<1>2. CASE UNCHANGED vars
  BY <1>2 DEF vars, Typed, TypeOK, HeadIsThere
<1>3. CASE Parse
  BY <1>3 DEF Parse, Return, ParseErrors, Input, Typed, TypeOK, HeadIsThere
<1>4. CASE OuterLoop
  <2>1. CASE i < r /\ ~Beyond(i)
    <3>1. At(i).size \in Nat
      BY <1>1, <2>1 DEF Typed, TypeOK
    <3> QED
      BY <1>4, <2>1, <3>1 DEF OuterLoop, Return, Typed, TypeOK, HeadIsThere
  <2>2. CASE ~(i < r /\ ~Beyond(i))
    <3>1. pc' = "done" /\ ret' \in {"0"} \cup ParseErrors
      BY <1>1, <1>4, <2>2 DEF OuterLoop, Return, Typed, TypeOK, ParseErrors
    <3>2. UNCHANGED <<input, list, i, size, items, entries, je>>
      BY <1>1, <1>4, <2>2 DEF OuterLoop, Return, Typed, TypeOK
    <3> QED
      BY <3>1, <3>2 DEF Typed, TypeOK, HeadIsThere
  <2> QED
    BY <2>1, <2>2
<1>5. CASE RootLoopEnds \/ ListEnds
  BY <1>5 DEF RootLoopEnds, ListEnds, Typed, TypeOK, HeadIsThere
<1>6. CASE EntryEnds
  BY <1>6 DEF EntryEnds, Typed, TypeOK, HeadIsThere, ListFields
<1>7. CASE Scalar
  <2>1. CASE ValueMissing \/ ValueRejected(CheckedScalars)
    BY <1>7, <2>1 DEF ValueMissing, ValueRejected, Return, Typed, TypeOK,
                      HeadIsThere, ParseErrors
  <2>2. CASE je' = [je EXCEPT !.scalar[At(i).word] = i + 1]
    <3>1. /\ i \in Nat /\ i + 1 \in Nat /\ i + 2 \in Nat
          /\ At(i).word \in ScalarFields /\ pc = "root" /\ size - 1 \in Nat
      BY <1>7 DEF Scalar, AtField, Typed, TypeOK
    <3>2. je' \in JeType
      BY <2>2, <3>1, PutScalar DEF JeType, Typed
    <3> QED
      BY <1>7, <2>2, <3>1, <3>2 DEF Scalar, Return, ValueMissing, ValueRejected,
                                    Typed, TypeOK, HeadIsThere, ParseErrors, JeType
  <2> QED
    BY <1>7, <2>1, <2>2 DEF Scalar
<1>8. CASE List
  <2>1. CASE Beyond(i) \/ Beyond(i + 1)
    BY <1>8, <2>1 DEF List, Return, Typed, TypeOK, HeadIsThere, ParseErrors
  <2>2. CASE ~(Beyond(i) \/ Beyond(i + 1))
    <3>1. i + 1 \in Nat /\ i \in Nat /\ i < r
      BY <1>8 DEF List, AtField, Typed, TypeOK, InBounds
    <3>2. i + 1 < r
      BY <1>1, <2>2, <3>1 DEF Beyond
    <3>3. At(i + 1).size \in Nat /\ At(i).word \in ListFields
      BY <1>1, <1>8, <3>1, <3>2 DEF List, AtField
    <3>4. size - 1 \in Nat
      BY <1>8 DEF List, AtField, Typed, TypeOK
    <3>5. /\ items' = At(i + 1).size /\ i' = i + 2 /\ size' = size - 1
          /\ pc' = At(i).word /\ UNCHANGED <<list, entries, ret, input, je>>
      BY <1>8, <2>2 DEF List
    <3>6. pc' # "entry" /\ i' \in Nat
      BY <3>1, <3>3, <3>5 DEF ListFields
    <3> QED
      BY <3>3, <3>4, <3>5, <3>6 DEF Typed, TypeOK, HeadIsThere
  <2> QED
    BY <2>1, <2>2
<1>9. CASE UnknownField \/ UnknownEntryField
  BY <1>9 DEF UnknownField, UnknownEntryField, Return, Typed, TypeOK, HeadIsThere
<1>10. CASE Item
  <2>1. pc = "items" /\ je' = [je EXCEPT !["items"] = <<EmptyEntry("items")>> \o @]
    BY <1>10 DEF Item
  <2>2. je' \in JeType /\ je'["items"] # <<>>
    BY <2>1, PutHead, NewHead DEF JeType, Typed, ListFields
  <2>3. CASE Beyond(i)
    BY <1>10, <2>1, <2>2, <2>3 DEF Item, Return, Typed, TypeOK, HeadIsThere,
                                   ParseErrors, JeType
  <2>4. CASE ~Beyond(i)
    <3>1. At(i).size \in Nat /\ i + 1 \in Nat
      BY <1>1, <2>1, <2>4 DEF Beyond, Typed, InBounds, ListFields, TypeOK
    <3> QED
      BY <1>10, <2>1, <2>2, <2>4, <3>1 DEF Item, EnterEntry, Typed, TypeOK,
                                           HeadIsThere, JeType
  <2> QED
    BY <2>3, <2>4
<1>11. CASE Transaction
  <2>1. CASE Beyond(i)
    BY <1>11, <2>1 DEF Transaction, Return, Typed, TypeOK, HeadIsThere, ParseErrors
  <2>2. CASE ~Beyond(i)
    <3>1. /\ pc = "transactions"
          /\ je' = [je EXCEPT !["transactions"] = <<EmptyEntry("transactions")>> \o @]
      BY <1>11, <2>2 DEF Transaction
    <3>2. je' \in JeType /\ je'["transactions"] # <<>>
      BY <3>1, PutHead, NewHead DEF JeType, Typed, ListFields
    <3>3. At(i).size \in Nat /\ i + 1 \in Nat
      BY <1>1, <2>2, <3>1 DEF Beyond, Typed, InBounds, ListFields, TypeOK
    <3> QED
      BY <1>11, <2>2, <3>1, <3>2, <3>3 DEF Transaction, EnterEntry, Typed, TypeOK,
                                           HeadIsThere, JeType
  <2> QED
    BY <2>1, <2>2
<1>12. CASE EntryField
  <2>1. CASE ValueMissing \/ ValueRejected(CheckedEntryFields[list])
    BY <1>12, <2>1 DEF ValueMissing, ValueRejected, Return, Typed, TypeOK,
                       HeadIsThere, ParseErrors
  <2>2. CASE je' = [je EXCEPT ![list][1][At(i).word] = i + 1]
    <3>1. /\ i \in Nat /\ i + 1 \in Nat /\ i + 2 \in Nat
          /\ At(i).word \in EntryFields[list] /\ pc = "entry"
          /\ entries - 1 \in Nat /\ list \in ListFields
          /\ je[list] # <<>> /\ items > 0
      BY <1>12 DEF EntryField, Typed, TypeOK, HeadIsThere
    <3>2. je' \in JeType /\ je'[list] # <<>>
      BY <2>2, <3>1, PutEntry DEF EntryPut, Typed
    <3> QED
      BY <1>12, <2>2, <3>1, <3>2 DEF EntryField, Return, ValueMissing, ValueRejected,
                                     Typed, TypeOK, HeadIsThere, ParseErrors, JeType
  <2> QED
    BY <1>12, <2>1, <2>2 DEF EntryField
<1> QED
  BY <1>2, <1>3, <1>4, <1>5, <1>6, <1>7, <1>8, <1>9, <1>10, <1>11, <1>12 DEF Next

LEMMA TypedInvariant == Spec => []Typed
<1>1. Init => Typed
  <2> SUFFICES ASSUME Init PROVE Typed
    OBVIOUS
  <2>1. je \in JeType
    BY DEF Init, EmptyJsonEntry, JeType, Entries
  <2> QED
    BY <2>1, InputsAssumption
       DEF Init, Typed, TypeOK, HeadIsThere, InBounds, ListFields, JeType
<1>2. Typed /\ IInv' /\ [Next]_vars => Typed'
  BY TypedStep DEF Typed, IInv
<1> QED
  BY <1>1, <1>2, Invariant, PTL DEF Spec

(* Every number in the jsonEntry is the number of a token, or 0.           *)
THEOREM TypeCorrect == Spec => []TypeOK
<1>1. Typed => TypeOK
  BY DEF Typed
<1> QED
  BY <1>1, TypedInvariant, PTL

-----------------------------------------------------------------------------
(* What has been recorded under a field passes the check of the field.     *)
ScalarsChecked ==
    \A f \in CheckedScalars : je.scalar[f] # 0 => At(je.scalar[f]).valid

EntriesChecked(l) ==
    \A n \in DOMAIN je[l] : \A f \in CheckedEntryFields[l] :
        je[l][n][f] # 0 => At(je[l][n][f]).valid

AllChecked ==
    input.validate => ScalarsChecked /\ \A l \in ListFields : EntriesChecked(l)

LEMMA CheckedFields ==
    /\ CheckedScalars \subseteq ScalarFields
    /\ \A l \in ListFields : CheckedEntryFields[l] \subseteq EntryFields[l]
BY DEF CheckedScalars, ScalarFields, ListFields, CheckedEntryFields, EntryFields,
       CheckedTransactionFields, TransactionFields

(* A list that is left alone stays as good as it was.                      *)
LEMMA ListKept ==
    ASSUME NEW l \in ListFields, EntriesChecked(l), UNCHANGED input, je'[l] = je[l]
    PROVE  EntriesChecked(l)'
BY DEF EntriesChecked, At, tokens

LEMMA CheckedWhenHeadIsPut ==
    ASSUME TypeOK, AllChecked, UNCHANGED input, NEW l \in ListFields,
           je' = [je EXCEPT ![l] = <<EmptyEntry(l)>> \o @]
    PROVE  AllChecked'
<1> SUFFICES ASSUME input.validate PROVE AllChecked'
  BY DEF AllChecked
<1>1. ScalarsChecked /\ \A o \in ListFields : EntriesChecked(o)
  BY DEF AllChecked
<1>2. /\ je'.scalar = je.scalar
      /\ je'[l] = <<EmptyEntry(l)>> \o je[l]
      /\ \A o \in ListFields \ {l} : je'[o] = je[o]
  BY PutHead
<1>3. ScalarsChecked'
  BY <1>1, <1>2 DEF ScalarsChecked, At, tokens
<1>4. \A o \in ListFields \ {l} : EntriesChecked(o)'
  BY <1>1, <1>2, ListKept
<1>5. EntriesChecked(l)'
  <2> SUFFICES ASSUME NEW n \in DOMAIN je'[l], NEW f \in CheckedEntryFields[l],
                      je'[l][n][f] # 0
               PROVE  input.tokens[je'[l][n][f] + 1].valid
    BY DEF EntriesChecked, At, tokens
  <2>1. je[l] \in Entries(l) /\ <<EmptyEntry(l)>> \in Entries(l)
    BY DEF TypeOK, ListFields, EmptyEntry, Entries
  <2>2. n \in Nat /\ n >= 1 /\ n <= Len(je[l]) + 1 /\ Len(je[l]) \in Nat
    BY <1>2, <2>1 DEF Entries
  <2>3. n # 1
    <3>1. je'[l][1] = EmptyEntry(l)
      BY <1>2, <2>1 DEF Entries
    <3>2. f \in EntryFields[l]
      BY CheckedFields
    <3>3. EmptyEntry(l)[f] = 0
      BY <3>2 DEF EmptyEntry
    <3> QED
      BY <3>1, <3>3
  <2>4. n - 1 \in DOMAIN je[l] /\ je'[l][n] = je[l][n - 1]
    BY <1>2, <2>1, <2>2, <2>3 DEF Entries
  <2> QED
    BY <1>1, <2>4 DEF EntriesChecked, At, tokens
<1> QED
  BY <1>3, <1>4, <1>5 DEF AllChecked

LEMMA CheckedWhenScalarIsPut ==
    ASSUME TypeOK, AllChecked, UNCHANGED input, NEW f \in ScalarFields,
           NEW j \in Nat, je' = [je EXCEPT !.scalar[f] = j],
           input.validate /\ f \in CheckedScalars => At(j).valid
    PROVE  AllChecked'
<1> SUFFICES ASSUME input.validate PROVE AllChecked'
  BY DEF AllChecked
<1>1. ScalarsChecked /\ \A o \in ListFields : EntriesChecked(o)
  BY DEF AllChecked
<1>2. /\ je'.scalar = [je.scalar EXCEPT ![f] = j]
      /\ \A l \in ListFields : je'[l] = je[l]
  BY PutScalar
<1>3. je.scalar \in [ScalarFields -> Nat]
  BY DEF TypeOK
<1>4. ScalarsChecked'
  BY <1>1, <1>2, <1>3, CheckedFields DEF ScalarsChecked, At, tokens
<1>5. \A l \in ListFields : EntriesChecked(l)'
  BY <1>1, <1>2, ListKept
<1> QED
  BY <1>4, <1>5 DEF AllChecked

LEMMA CheckedWhenEntryIsPut ==
    ASSUME TypeOK, AllChecked, UNCHANGED input, NEW l \in ListFields,
           je[l] # <<>>, NEW f \in EntryFields[l],
           NEW j \in Nat, EntryPut(l, f, j),
           input.validate /\ f \in CheckedEntryFields[l] => At(j).valid
    PROVE  AllChecked'
<1> SUFFICES ASSUME input.validate PROVE AllChecked'
  BY DEF AllChecked
<1>1. ScalarsChecked /\ \A o \in ListFields : EntriesChecked(o)
  BY DEF AllChecked
<1>2. /\ je'.scalar = je.scalar
      /\ DOMAIN je'[l] = DOMAIN je[l]
      /\ je'[l][1][f] = j
      /\ \A g \in EntryFields[l] \ {f} : je'[l][1][g] = je[l][1][g]
      /\ \A n \in DOMAIN je[l] \ {1} : je'[l][n] = je[l][n]
      /\ \A o \in ListFields \ {l} : je'[o] = je[o]
  BY DEF EntryPut
<1>3. ScalarsChecked'
  BY <1>1, <1>2 DEF ScalarsChecked, At, tokens
<1>4. \A o \in ListFields \ {l} : EntriesChecked(o)'
  BY <1>1, <1>2, ListKept
<1>5. EntriesChecked(l)'
  <2> SUFFICES ASSUME NEW n \in DOMAIN je'[l], NEW g \in CheckedEntryFields[l],
                      je'[l][n][g] # 0
               PROVE  input.tokens[je'[l][n][g] + 1].valid
    BY DEF EntriesChecked, At, tokens
  <2>1. je[l] \in Entries(l) /\ g \in EntryFields[l]
    BY CheckedFields DEF TypeOK, ListFields
  <2>2. je[l][1] \in [EntryFields[l] -> Nat]
    BY <2>1 DEF Entries
  <2>3. CASE n # 1
    BY <1>1, <1>2, <2>3 DEF EntriesChecked, At, tokens
  <2>4. CASE n = 1 /\ g # f
    <3>1. je'[l][n][g] = je[l][1][g] /\ 1 \in DOMAIN je[l]
      BY <1>2, <2>1, <2>2, <2>4
    <3> QED
      BY <1>1, <3>1 DEF EntriesChecked, At, tokens
  <2>5. CASE n = 1 /\ g = f
    <3>1. je'[l][n][g] = j
      BY <1>2, <2>1, <2>2, <2>5
    <3> QED
      BY <2>5, <3>1 DEF At, tokens
  <2> QED
    BY <2>3, <2>4, <2>5
<1> QED
  BY <1>3, <1>4, <1>5 DEF AllChecked

LEMMA CheckedStep ==
    ASSUME Typed, AllChecked, [Next]_vars
    PROVE  AllChecked'
<1>1. CASE UNCHANGED <<input, je>>
  BY <1>1 DEF AllChecked, ScalarsChecked, EntriesChecked, At, tokens
<1>2. CASE Scalar /\ ~UNCHANGED je
  <2>1. /\ ValueAccepted(CheckedScalars) /\ UNCHANGED input
        /\ je' = [je EXCEPT !.scalar[At(i).word] = i + 1]
        /\ At(i).word \in ScalarFields
    BY <1>2 DEF Scalar, AtField, ValueMissing, ValueRejected
  <2>2. i + 1 \in Nat
    BY DEF Typed, TypeOK
  <2> QED
    BY <2>1, <2>2, CheckedWhenScalarIsPut DEF ValueAccepted, Typed
<1>3. CASE EntryField /\ ~UNCHANGED je
  <2>1. /\ ValueAccepted(CheckedEntryFields[list]) /\ UNCHANGED input
        /\ je' = [je EXCEPT ![list][1][At(i).word] = i + 1]
        /\ At(i).word \in EntryFields[list]
        /\ list \in ListFields /\ je[list] # <<>>
    BY <1>3 DEF EntryField, ValueMissing, ValueRejected, Typed, TypeOK, HeadIsThere
  <2>2. i + 1 \in Nat
    BY DEF Typed, TypeOK
  <2>3. EntryPut(list, At(i).word, i + 1)
    BY <2>1, <2>2, PutEntry DEF Typed
  <2> QED
    BY <2>1, <2>2, <2>3, CheckedWhenEntryIsPut DEF ValueAccepted, Typed
<1>4. CASE Item
  <2>1. UNCHANGED input /\ je' = [je EXCEPT !["items"] = <<EmptyEntry("items")>> \o @]
    BY <1>4 DEF Item
  <2> QED
    BY <2>1, CheckedWhenHeadIsPut DEF Typed, ListFields
<1>5. CASE Transaction /\ ~UNCHANGED je
  <2>1. /\ UNCHANGED input
        /\ je' = [je EXCEPT !["transactions"] = <<EmptyEntry("transactions")>> \o @]
    BY <1>5 DEF Transaction
  <2> QED
    BY <2>1, CheckedWhenHeadIsPut DEF Typed, ListFields
<1>6. /\ UNCHANGED vars => UNCHANGED <<input, je>>
      /\ Parse => UNCHANGED <<input, je>>
      /\ OuterLoop => UNCHANGED <<input, je>>
      /\ RootLoopEnds \/ ListEnds \/ EntryEnds => UNCHANGED <<input, je>>
      /\ List \/ UnknownField \/ UnknownEntryField => UNCHANGED <<input, je>>
      /\ Scalar \/ EntryField \/ Transaction => UNCHANGED input
  BY DEF vars, Parse, OuterLoop, RootLoopEnds, ListEnds, EntryEnds, List, UnknownField,
         UnknownEntryField, Scalar, EntryField, Transaction, ValueMissing, ValueRejected
<1> QED
  BY <1>1, <1>2, <1>3, <1>4, <1>5, <1>6 DEF Next

(* With validate set the jsonEntry holds no value that its check refuses,  *)
(* wherever in the body the walk stands, for any body.                     *)
THEOREM RecordsOnlyChecked == Spec => []RecordedIsChecked
<1>1. Init => AllChecked
  <2> SUFFICES ASSUME Init PROVE ScalarsChecked /\ \A l \in ListFields : EntriesChecked(l)
    BY DEF AllChecked
  <2>1. ScalarsChecked
    BY CheckedFields DEF Init, EmptyJsonEntry, ScalarsChecked
  <2>2. \A l \in ListFields : je[l] = <<>>
    BY DEF Init, EmptyJsonEntry, ListFields
  <2> QED
    BY <2>1, <2>2 DEF EntriesChecked
<1>2. AllChecked => RecordedIsChecked
  BY DEF AllChecked, RecordedIsChecked, ScalarsChecked, EntriesChecked
<1> QED
  BY <1>1, <1>2, CheckedStep, TypedInvariant, PTL DEF Spec

-----------------------------------------------------------------------------
(* The steps that are left, at most: five for every token not passed yet,  *)
(* and those the loops need to return into one another without moving on.  *)
Level ==
    CASE pc = "parse" -> 5
      [] pc = "entry" -> 4
      [] pc \in ListFields -> 3
      [] pc = "root" -> 2
      [] pc = "outer" -> 1
      [] pc = "done" -> 0

StepsLeft == IF pc = "done" THEN 0 ELSE 5 * (r - i) + Level

(* Every step of the walk leaves fewer steps, and there are never more     *)
(* than in the beginning.                                                  *)
WalkShortens == [][StepsLeft' < StepsLeft /\ StepsLeft \in 0..(5 * r + 5)]_vars

LEMMA LevelOf ==
    ASSUME Counters
    PROVE  /\ pc = "parse" => Level = 5
           /\ pc = "entry" => Level = 4
           /\ pc \in ListFields => Level = 3
           /\ pc = "root" => Level = 2
           /\ pc = "outer" => Level = 1
           /\ pc # "done" => Level \in 1..5
BY DEF Counters, Level, ListFields

(* A step ends the walk, or goes from a level to a lower one, or passes a  *)
(* token.                                                                  *)
LEMMA StepProgresses ==
    ASSUME IInv, Next
    PROVE  /\ pc # "done"
           /\ \/ pc' = "done"
              \/ /\ pc' # "done"
                 /\ i' = i
                 /\ \/ pc = "parse" /\ pc' = "outer"
                    \/ pc = "root" /\ pc' = "outer"
                    \/ pc \in ListFields /\ pc' = "root"
                    \/ pc = "entry" /\ pc' \in ListFields
              \/ /\ pc' # "done"
                 /\ i' \in Nat /\ i' > i
           /\ input' = input
<1> USE DEF IInv, Counters, ListFields
<1>1. CASE Parse
  BY <1>1 DEF Parse, Return
<1>2. CASE OuterLoop
  BY <1>2 DEF OuterLoop, Return
<1>3. CASE RootLoopEnds \/ ListEnds \/ EntryEnds
  BY <1>3 DEF RootLoopEnds, ListEnds, EntryEnds
<1>4. CASE Scalar
  BY <1>4 DEF Scalar, AtField, ValueMissing, ValueRejected, Return
<1>5. CASE List
  BY <1>5 DEF List, AtField, Return
<1>6. CASE UnknownField \/ UnknownEntryField
  BY <1>6 DEF UnknownField, UnknownEntryField, Return
<1>7. CASE Item \/ Transaction
  BY <1>7 DEF Item, Transaction, EnterEntry, Return
<1>8. CASE EntryField
  BY <1>8 DEF EntryField, ValueMissing, ValueRejected, Return
<1> QED
  BY <1>1, <1>2, <1>3, <1>4, <1>5, <1>6, <1>7, <1>8 DEF Next

(* While the walk goes on it is not behind the last token.                 *)
LEMMA StepsLeftBounded ==
    ASSUME IInv
    PROVE  /\ r \in Nat
           /\ pc # "done" => i \in 0..r
           /\ StepsLeft \in 0..(5 * r + 5)
           /\ pc # "done" => StepsLeft > 0
<1>1. r \in Nat
  BY LengthType DEF IInv
<1>2. pc # "done" => i \in 0..r
  BY <1>1 DEF IInv, Counters, InBounds
<1>3. CASE pc = "done"
  BY <1>1, <1>3 DEF StepsLeft
<1>4. CASE pc # "done"
  <2>1. Level \in 1..5
    BY <1>4, LevelOf DEF IInv
  <2> QED
    BY <1>1, <1>2, <1>4, <2>1 DEF StepsLeft
<1> QED
  BY <1>1, <1>2, <1>3, <1>4

(* No step of the walk can be one too many: whatever the tokens claim      *)
(* about their children, validate_json takes at most five steps for every  *)
(* token and five more.  This is the part of Terminates that can be said   *)
(* without fairness.                                                       *)
THEOREM WalkIsShort == Spec => WalkShortens
<1>1. ASSUME IInv, IInv', Next
      PROVE  StepsLeft' < StepsLeft /\ StepsLeft \in 0..(5 * r + 5)
  <2>1. /\ r \in Nat /\ r' = r
        /\ pc # "done"
        /\ i \in 0..r
        /\ StepsLeft \in 0..(5 * r + 5) /\ StepsLeft > 0
    BY <1>1, StepProgresses, StepsLeftBounded DEF r, tokens
  <2>2. StepsLeft = 5 * (r - i) + Level
    BY <2>1 DEF StepsLeft
  <2>3. Level \in 1..5
    BY <1>1, <2>1, LevelOf DEF IInv
  <2>4. pc' # "done" => Level' \in 1..5 /\ StepsLeft' = 5 * (r - i') + Level'
    <3>1. Counters'
      BY <1>1 DEF IInv
    <3>2. pc' # "done" => Level' \in 1..5
      BY <3>1 DEF Counters, Level, ListFields
    <3> QED
      BY <2>1, <3>2 DEF StepsLeft
  <2>5. CASE pc' = "done"
    BY <2>1, <2>5 DEF StepsLeft
  <2>6. CASE pc' # "done" /\ i' = i
    <3>1. Level' < Level
      <4>1. \/ pc = "parse" /\ pc' = "outer"
            \/ pc = "root" /\ pc' = "outer"
            \/ pc \in ListFields /\ pc' = "root"
            \/ pc = "entry" /\ pc' \in ListFields
        BY <1>1, <2>1, <2>6, StepProgresses
      <4> QED
        BY <4>1 DEF Level, ListFields
    <3> QED
      BY <2>1, <2>2, <2>3, <2>4, <2>6, <3>1
  <2>7. CASE pc' # "done" /\ i' \in Nat /\ i' > i
    BY <2>1, <2>2, <2>3, <2>4, <2>7
  <2> QED
    BY <1>1, <2>5, <2>6, <2>7, StepProgresses
<1>2. IInv /\ IInv' /\ [Next]_vars =>
         [StepsLeft' < StepsLeft /\ StepsLeft \in 0..(5 * r + 5)]_vars
  BY <1>1
<1> QED
  BY <1>2, Invariant, PTL DEF Spec, WalkShortens

-----------------------------------------------------------------------------
(* In a document the counters of the walk are right: what is left in the   *)
(* order, in the list and in the entry is what the roles of the tokens     *)
(* ahead say.                                                              *)
Ahead(c, ends, n) ==
    {k \in n..(r - 1) : Role(k) \in c /\ \A m \in n..k : Role(m) \notin ends}

Left(c, ends, n) == Cardinality(Ahead(c, ends, n))

FieldsLeft(n) == Left({"key"}, {"object"}, n)
HeadsLeft(n) == Left(ListFields, FieldEnds, n)
EntryKeysLeft(n) == Left({"entry_key"}, EntryEnd, n)

LEMMA AheadStep ==
    ASSUME r \in Nat, NEW c, NEW ends, NEW n \in Nat, n < r
    PROVE  /\ Left(c, ends, n) \in Nat
           /\ Role(n) \in ends => Left(c, ends, n) = 0
           /\ Role(n) \in c \ ends => Left(c, ends, n) = Left(c, ends, n + 1) + 1
           /\ Role(n) \notin c \cup ends => Left(c, ends, n) = Left(c, ends, n + 1)
           /\ Left(c, ends, n + 1) \in Nat
<1> DEFINE A == Ahead(c, ends, n)
           B == Ahead(c, ends, n + 1)
<1>1. IsFiniteSet(A) /\ IsFiniteSet(B)
  <2>1. A \subseteq n..(r - 1) /\ B \subseteq (n + 1)..(r - 1)
    BY DEF Ahead
  <2>2. IsFiniteSet(n..(r - 1)) /\ IsFiniteSet((n + 1)..(r - 1))
    BY FS_Interval
  <2> QED
    BY <2>1, <2>2, FS_Subset
<1>2. Cardinality(A) \in Nat /\ Cardinality(B) \in Nat
  BY <1>1, FS_CardinalityType
<1>3. CASE Role(n) \in ends
  <2>1. A = {}
    BY <1>3 DEF Ahead
  <2>2. Cardinality(A) = 0
    BY <2>1, FS_EmptySet
  <2> QED
    BY <1>2, <1>3, <2>2 DEF Left
<1>4. CASE Role(n) \in c \ ends
  <2>1. n \in A /\ n \notin B
    BY <1>4 DEF Ahead
  <2>2. \A k \in (n + 1)..(r - 1) :
          (\A m \in n..k : Role(m) \notin ends) <=> (\A m \in (n + 1)..k : Role(m) \notin ends)
    BY <1>4
  <2>3. \A k \in n..(r - 1) : k = n \/ k \in (n + 1)..(r - 1)
    OBVIOUS
  <2>4. (n + 1)..(r - 1) \subseteq n..(r - 1)
    OBVIOUS
  <2>5. A = B \cup {n}
    BY <2>1, <2>2, <2>3, <2>4 DEF Ahead
  <2>6. Cardinality(A) = Cardinality(B) + 1
    BY <1>1, <2>1, <2>5, FS_AddElement
  <2> QED
    BY <1>2, <1>4, <2>6 DEF Left
<1>5. CASE Role(n) \notin c \cup ends
  <2>1. n \notin A
    BY <1>5 DEF Ahead
  <2>2. \A k \in (n + 1)..(r - 1) :
          (\A m \in n..k : Role(m) \notin ends) <=> (\A m \in (n + 1)..k : Role(m) \notin ends)
    BY <1>5
  <2>3. \A k \in n..(r - 1) : k = n \/ k \in (n + 1)..(r - 1)
    OBVIOUS
  <2>4. (n + 1)..(r - 1) \subseteq n..(r - 1)
    OBVIOUS
  <2>5. A = B
    BY <2>1, <2>2, <2>3, <2>4 DEF Ahead
  <2> QED
    BY <1>2, <1>5, <2>5 DEF Left
<1> QED
  BY <1>3, <1>4, <1>5

(* The size of a container is what is left in it when the walk enters it.  *)
LEMMA SizeIsLeft ==
    ASSUME IsDocument, r \in Nat, NEW j \in 0..(r - 1)
    PROVE  /\ Role(j) = "object" => At(j).size = FieldsLeft(j + 1)
           /\ Role(j) = "array" => At(j).size = HeadsLeft(j + 1)
           /\ Role(j) \in ListFields => At(j).size = EntryKeysLeft(j + 1)
<1>1. ASSUME NEW c, NEW ends
      PROVE  Children(c, Span(j, ends, r)) = Left(c, ends, j + 1)
  <2>1. {k \in Span(j, ends, r) : Role(k) \in c} = Ahead(c, ends, j + 1)
    BY DEF Span, Ahead
  <2> QED
    BY <2>1 DEF Children, Left
<1>2. /\ Role(j) = "object" => At(j).size = Children({"key"}, Span(j, {"object"}, r))
      /\ Role(j) = "array" => At(j).size = Children(ListFields, Span(j, FieldEnds, r))
      /\ Role(j) \in ListFields => At(j).size = Children({"entry_key"}, Span(j, EntryEnd, r))
  BY DEF IsDocument, SizesMatch, EntryOf, ListFields
<1> QED
  BY <1>1, <1>2 DEF FieldsLeft, HeadsLeft, EntryKeysLeft

LEMMA WhatFollows ==
    ASSUME IsDocument, r \in Nat, NEW j \in 0..(r - 1)
    PROVE  /\ Role(j) = "key" =>
                /\ j + 1 < r
                /\ Role(j + 1) = IF At(j).word \in ListFields THEN "array" ELSE "value"
           /\ Role(j) = "entry_key" => j + 1 < r /\ Role(j + 1) = "entry_value"
           /\ Role(j) \in {"object", "value"} /\ j + 1 < r => Role(j + 1) \in FieldEnds
           /\ Role(j) = "array" /\ j + 1 < r => Role(j + 1) \in EntryEnd
           /\ Role(j) \in ListFields \cup {"entry_value"} /\ j + 1 < r =>
                Role(j + 1) \in EntryEnd \cup {"entry_key"}
BY DEF IsDocument, InOrder, MayFollow, ListFields

(* The walk is in the list of the array behind it ...                      *)
InList(l, n) ==
    \E a \in 1..(n - 1) :
        /\ Role(a) = "array" /\ At(a - 1).word = l
        /\ \A m \in (a + 1)..(n - 1) : Role(m) \notin FieldEnds

LEMMA HeadOfList ==
    ASSUME IsDocument, r \in Nat, NEW l, NEW n \in Nat, n < r, InList(l, n),
           Role(n) \in ListFields
    PROVE  Role(n) = l
<1>1. PICK a \in 1..(n - 1) :
        /\ Role(a) = "array" /\ At(a - 1).word = l
        /\ \A m \in (a + 1)..(n - 1) : Role(m) \notin FieldEnds
  BY DEF InList
<1>2. Role(n) \notin FieldEnds
  BY DEF FieldEnds, ListFields
<1>3. n \in Span(a, FieldEnds, r)
  BY <1>1, <1>2 DEF Span
<1>4. a \in 1..(r - 1)
  OBVIOUS
<1>5. \A j \in Span(a, FieldEnds, r) : Role(j) \in ListFields => Role(j) = At(a - 1).word
  BY <1>1, <1>4 DEF IsDocument, InOrder
<1> QED
  BY <1>1, <1>3, <1>5

LEMMA ListGoesOn ==
    ASSUME r \in Nat, NEW l, NEW n \in Nat, NEW k \in Nat, n < k, InList(l, n),
           \A m \in n..(k - 1) : Role(m) \notin FieldEnds
    PROVE  InList(l, k)
<1>1. PICK a \in 1..(n - 1) :
        /\ Role(a) = "array" /\ At(a - 1).word = l
        /\ \A m \in (a + 1)..(n - 1) : Role(m) \notin FieldEnds
  BY DEF InList
<1>2. \A m \in (a + 1)..(k - 1) : Role(m) \notin FieldEnds
  BY <1>1
<1> QED
  BY <1>1, <1>2 DEF InList

(* ... and in the entry of the last head behind it.                        *)
InEntry(l, n) ==
    \E h \in 0..(n - 1) :
        /\ Role(h) = l
        /\ \A m \in (h + 1)..(n - 1) : Role(m) \notin EntryEnd

-----------------------------------------------------------------------------
(* What is in je after n tokens is what the first n tokens say.            *)
ScalarsAre(s, n) ==
    \A f \in ScalarFields : s[f] = LastOf(Valued("value", f, 1..(n - 1)))

Rank(heads, p) == Cardinality({q \in heads : q >= p})

EntriesAre(es, l, heads, n) ==
    /\ Len(es) = Cardinality(heads)
    /\ \A p \in heads : es[Rank(heads, p)] = EntryMeaning(l, p, n)

LEMMA LastIs ==
    ASSUME NEW S \in SUBSET Nat, NEW x \in S, \A y \in S : y <= x
    PROVE  LastOf(S) = x
<1>1. x \in S /\ \A y \in S : x >= y
  OBVIOUS
<1>2. Max(S) \in S /\ \A y \in S : Max(S) >= y
  BY <1>1 DEF Max
<1>3. Max(S) <= x /\ x <= Max(S) /\ Max(S) \in Nat /\ x \in Nat
  BY <1>2
<1> QED
  BY <1>3 DEF LastOf

(* A token that is not a value says nothing about the order itself ...     *)
LEMMA ScalarsPass ==
    ASSUME NEW s, NEW n \in Nat, ScalarsAre(s, n), Role(n) # "value"
    PROVE  ScalarsAre(s, n + 1)
<1>1. ASSUME NEW f PROVE Valued("value", f, 1..n) = Valued("value", f, 1..(n - 1))
  BY DEF Valued
<1>2. (n + 1) - 1 = n
  OBVIOUS
<1> QED
  BY <1>1, <1>2 DEF ScalarsAre

(* ... and a value is the last one of its field.                           *)
LEMMA ScalarPut ==
    ASSUME NEW s \in [ScalarFields -> Nat], NEW n \in Nat, ScalarsAre(s, n),
           Role(n) # "value", Role(n + 1) = "value",
           NEW f \in ScalarFields, At(n).word = f
    PROVE  ScalarsAre([s EXCEPT ![f] = n + 1], n + 2)
<1>1. (n + 2) - 1 = n + 1 /\ (n + 1) - 1 = n
  OBVIOUS
<1>2. LastOf(Valued("value", f, 1..(n + 1))) = n + 1
  <2>1. n + 1 \in Valued("value", f, 1..(n + 1))
    BY <1>1 DEF Valued
  <2>2. Valued("value", f, 1..(n + 1)) \in SUBSET Nat
    BY DEF Valued
  <2>3. \A y \in Valued("value", f, 1..(n + 1)) : y <= n + 1
    BY DEF Valued
  <2> QED
    BY <2>1, <2>2, <2>3, LastIs
<1>3. ASSUME NEW g, g # f
      PROVE  Valued("value", g, 1..(n + 1)) = Valued("value", g, 1..(n - 1))
  <2>1. \A j \in 1..(n + 1) : j \in 1..(n - 1) \/ j = n \/ j = n + 1
    OBVIOUS
  <2>2. 1..(n - 1) \subseteq 1..(n + 1)
    OBVIOUS
  <2> QED
    BY <1>1, <1>3, <2>1, <2>2 DEF Valued
<1> QED
  BY <1>1, <1>2, <1>3 DEF ScalarsAre

(* A token says nothing about an entry if it is not a value of an entry,   *)
(* or if the entry has ended.                                              *)
HasEnded(p, n) == \E m \in (p + 1)..n : Role(m) \in EntryEnd

LEMMA EntryPass ==
    ASSUME NEW l, NEW n \in Nat, NEW p \in 0..(n - 1),
           Role(n) = "entry_value" => HasEnded(p, n)
    PROVE  EntryMeaning(l, p, n + 1) = EntryMeaning(l, p, n)
<1>1. (n + 1) - 1 = n
  OBVIOUS
<1>2. \A k \in (p + 1)..n : k \in (p + 1)..(n - 1) \/ k = n
  OBVIOUS
<1>3. (p + 1)..(n - 1) \subseteq (p + 1)..n
  OBVIOUS
<1>4. ASSUME NEW f
      PROVE  Valued("entry_value", f, EntryOf(p, n + 1))
                = Valued("entry_value", f, EntryOf(p, n))
  <2>1. CASE Role(n) # "entry_value"
    BY <1>1, <1>2, <1>3, <2>1 DEF Valued, EntryOf, Span
  <2>2. CASE HasEnded(p, n)
    <3>1. EntryOf(p, n + 1) = EntryOf(p, n)
      BY <1>1, <1>2, <1>3, <2>2 DEF EntryOf, Span, HasEnded
    <3> QED
      BY <3>1
  <2> QED
    BY <2>1, <2>2
<1> QED
  BY <1>4 DEF EntryMeaning

LEMMA EntriesPass ==
    ASSUME NEW es, NEW l \in ListFields, NEW n \in Nat,
           EntriesAre(es, l, Heads(l, n), n), Role(n) # l,
           Role(n) = "entry_value" => \A p \in Heads(l, n) : HasEnded(p, n)
    PROVE  EntriesAre(es, l, Heads(l, n + 1), n + 1)
<1>1. (n + 1) - 1 = n
  OBVIOUS
<1>2. Heads(l, n + 1) = Heads(l, n)
  BY <1>1 DEF Heads
<1>3. \A p \in Heads(l, n) : p \in 0..(n - 1)
  BY DEF Heads
<1>4. \A p \in Heads(l, n) : EntryMeaning(l, p, n + 1) = EntryMeaning(l, p, n)
  BY <1>3, EntryPass
<1> QED
  BY <1>2, <1>4 DEF EntriesAre

LEMMA Ranks ==
    ASSUME NEW l, NEW n \in Nat
    PROVE  /\ IsFiniteSet(Heads(l, n)) /\ Cardinality(Heads(l, n)) \in Nat
           /\ \A p \in Heads(l, n) :
                /\ IsFiniteSet({q \in Heads(l, n) : q >= p})
                /\ Rank(Heads(l, n), p) \in 1..Cardinality(Heads(l, n))
<1> DEFINE H == Heads(l, n)
<1>1. H \subseteq 0..(n - 1) /\ IsFiniteSet(0..(n - 1))
  BY FS_Interval DEF Heads
<1>2. IsFiniteSet(H) /\ Cardinality(H) \in Nat
  BY <1>1, FS_Subset, FS_CardinalityType
<1>3. ASSUME NEW p \in H
      PROVE  /\ IsFiniteSet({q \in H : q >= p})
             /\ Rank(H, p) \in 1..Cardinality(H)
  <2> DEFINE P == {q \in H : q >= p}
  <2>1. P \subseteq H /\ p \in P
    BY <1>1
  <2> HIDE DEF H, P
  <2>2. IsFiniteSet(P) /\ Cardinality(P) <= Cardinality(H)
    BY <1>2, <2>1, FS_Subset
  <2>3. Cardinality(P) \in Nat /\ Cardinality(P) # 0
    BY <2>1, <2>2, FS_CardinalityType, FS_EmptySet
  <2> QED
    BY <1>2, <2>2, <2>3 DEF Rank, P
<1> QED
  BY <1>2, <1>3

(* A new head is the first entry, and everything else moves on.            *)
LEMMA EntryBegins ==
    ASSUME NEW l \in ListFields, NEW es \in Entries(l), NEW n \in Nat,
           EntriesAre(es, l, Heads(l, n), n), Role(n) = l
    PROVE  EntriesAre(<<EmptyEntry(l)>> \o es, l, Heads(l, n + 1), n + 1)
<1> DEFINE H == Heads(l, n)
           G == Heads(l, n + 1)
           e == EmptyEntry(l)
<1>1. (n + 1) - 1 = n /\ H \subseteq 0..(n - 1)
  BY DEF Heads
<1>2. n \notin H /\ G = H \cup {n}
  BY <1>1 DEF Heads
<1>3. /\ IsFiniteSet(H) /\ Cardinality(H) \in Nat
      /\ \A p \in H : IsFiniteSet({q \in H : q >= p}) /\ Rank(H, p) \in 1..Cardinality(H)
  BY Ranks
<1>4. Cardinality(G) = Cardinality(H) + 1
  BY <1>2, <1>3, FS_AddElement
<1>5. Rank(G, n) = 1
  <2>1. {q \in G : q >= n} = {n}
    BY <1>1, <1>2
  <2> QED
    BY <2>1, FS_Singleton DEF Rank
<1>6. ASSUME NEW p \in H PROVE Rank(G, p) = Rank(H, p) + 1
  <2> DEFINE P == {q \in H : q >= p}
  <2>1. {q \in G : q >= p} = P \cup {n} /\ n \notin P
    BY <1>1, <1>2
  <2>2. IsFiniteSet(P)
    BY <1>3
  <2> HIDE DEF P
  <2>3. Cardinality(P \cup {n}) = Cardinality(P) + 1
    BY <2>1, <2>2, FS_AddElement
  <2> QED
    BY <2>1, <2>3 DEF Rank, P
<1>7. EntryMeaning(l, n, n + 1) = e
  <2>1. EntryOf(n, n + 1) = {}
    BY DEF EntryOf, Span
  <2>2. \A f : Valued("entry_value", f, EntryOf(n, n + 1)) = {}
    BY <2>1 DEF Valued
  <2> QED
    BY <2>2 DEF EntryMeaning, EmptyEntry, LastOf
<1>8. Role(n) # "entry_value"
  BY DEF ListFields
<1>9. \A p \in H : EntryMeaning(l, p, n + 1) = EntryMeaning(l, p, n)
  BY <1>1, <1>8, EntryPass
<1>10. /\ Len(es) = Cardinality(H)
       /\ \A p \in H : es[Rank(H, p)] = EntryMeaning(l, p, n)
  BY DEF EntriesAre
<1>11. <<e>> \in Entries(l)
  BY DEF EmptyEntry, Entries
<1> HIDE DEF H, G, e
<1>12. /\ Len(<<e>> \o es) = Len(es) + 1
       /\ (<<e>> \o es)[1] = e
       /\ \A k \in 1..Len(es) : (<<e>> \o es)[k + 1] = es[k]
  BY <1>11 DEF Entries
<1>13. \A p \in H : (<<e>> \o es)[Rank(G, p)] = EntryMeaning(l, p, n + 1)
  BY <1>3, <1>6, <1>9, <1>10, <1>12
<1> QED
  BY <1>2, <1>4, <1>5, <1>7, <1>10, <1>12, <1>13 DEF EntriesAre, G, e

(* A value of the last entry is the last one of its field.                 *)
Grown(fs, es, l, f, j) ==
    /\ DOMAIN fs = DOMAIN es
    /\ fs[1][f] = j
    /\ \A g \in EntryFields[l] \ {f} : fs[1][g] = es[1][g]
    /\ \A k \in DOMAIN es \ {1} : fs[k] = es[k]

LEMMA EntryGrows ==
    ASSUME NEW l \in ListFields, NEW es \in Entries(l), NEW fs \in Entries(l),
           NEW n \in Nat, EntriesAre(es, l, Heads(l, n), n), InEntry(l, n),
           Role(n) = "entry_key", Role(n + 1) = "entry_value",
           NEW f \in EntryFields[l], At(n).word = f,
           Grown(fs, es, l, f, n + 1)
    PROVE  EntriesAre(fs, l, Heads(l, n + 2), n + 2)
<1> DEFINE H == Heads(l, n)
<1>1. PICK h \in 0..(n - 1) :
        /\ Role(h) = l
        /\ \A m \in (h + 1)..(n - 1) : Role(m) \notin EntryEnd
  BY DEF InEntry
<1>2. /\ (n + 2) - 1 = n + 1 /\ (n + 1) - 1 = n /\ (n + 1) + 1 = n + 2
      /\ H \subseteq 0..(n - 1) /\ h \in Nat /\ h < n
  BY DEF Heads
<1>3. /\ l \in EntryEnd /\ l # "entry_key" /\ l # "entry_value"
      /\ "entry_key" \notin EntryEnd /\ "entry_value" \notin EntryEnd
  BY DEF EntryEnd, FieldEnds, ListFields
<1>4. Heads(l, n + 2) = H
  BY <1>2, <1>3 DEF Heads
<1>5. h \in H /\ \A q \in H : q <= h
  BY <1>1, <1>2, <1>3 DEF Heads
<1>6. /\ IsFiniteSet(H) /\ Cardinality(H) \in Nat
      /\ \A p \in H : IsFiniteSet({q \in H : q >= p}) /\ Rank(H, p) \in 1..Cardinality(H)
  BY Ranks
<1>7. Rank(H, h) = 1
  <2>1. {q \in H : q >= h} = {h}
    BY <1>2, <1>5
  <2> QED
    BY <2>1, FS_Singleton DEF Rank
<1>8. ASSUME NEW p \in H, p # h PROVE Rank(H, p) # 1 /\ p < h
  <2> DEFINE P == {q \in H : q >= p}
  <2>1. p < h /\ p \in P /\ h \in P
    BY <1>2, <1>5, <1>8
  <2>2. IsFiniteSet(P)
    BY <1>6
  <2> HIDE DEF P
  <2>3. Cardinality(P) # 1
    BY <1>8, <2>1, <2>2, FS_Singleton
  <2> QED
    BY <2>1, <2>3 DEF Rank, P
<1>9. /\ Len(es) = Cardinality(H)
      /\ \A p \in H : es[Rank(H, p)] = EntryMeaning(l, p, n)
  BY DEF EntriesAre
<1>10. Len(fs) = Len(es) /\ DOMAIN es = 1..Len(es) /\ Len(es) \in Nat
  BY DEF Entries, Grown
<1>11. ASSUME NEW p \in H, p # h
       PROVE  fs[Rank(H, p)] = EntryMeaning(l, p, n + 2)
  <2>1. p < h /\ p \in 0..(n - 1) /\ p \in 0..((n + 1) - 1)
    BY <1>2, <1>8, <1>11
  <2>2. HasEnded(p, n) /\ HasEnded(p, n + 1)
    BY <1>1, <1>2, <1>3, <2>1 DEF HasEnded
  <2>3. EntryMeaning(l, p, n + 1) = EntryMeaning(l, p, n)
    BY <1>2, <2>1, <2>2, EntryPass
  <2>4. EntryMeaning(l, p, (n + 1) + 1) = EntryMeaning(l, p, n + 1)
    BY <1>2, <2>1, <2>2, EntryPass
  <2>5. fs[Rank(H, p)] = es[Rank(H, p)]
    BY <1>6, <1>8, <1>9, <1>10, <1>11 DEF Grown
  <2> QED
    BY <1>2, <1>9, <2>3, <2>4, <2>5
<1>12. fs[1] = EntryMeaning(l, h, n + 2)
  <2>1. fs[1] \in [EntryFields[l] -> Nat] /\ es[1] = EntryMeaning(l, h, n)
    <3>1. Rank(H, h) \in 1..Cardinality(H) /\ es[Rank(H, h)] = EntryMeaning(l, h, n)
      BY <1>5, <1>6, <1>9
    <3> HIDE DEF H
    <3>2. 1 \in 1..Len(fs)
      BY <1>7, <1>9, <1>10, <3>1
    <3>3. fs[1] \in [EntryFields[l] -> Nat]
      BY <3>2 DEF Entries
    <3> QED
      BY <1>7, <3>1, <3>3
  <2>2. n \in EntryOf(h, n + 2) /\ n + 1 \in EntryOf(h, n + 2)
    BY <1>1, <1>2, <1>3 DEF EntryOf, Span
  <2>3. LastOf(Valued("entry_value", f, EntryOf(h, n + 2))) = n + 1
    <3> DEFINE S == Valued("entry_value", f, EntryOf(h, n + 2))
    <3>1. n + 1 \in S
      BY <1>2, <2>2 DEF Valued
    <3>2. S \in SUBSET Nat /\ \A y \in S : y <= n + 1
      BY <1>2 DEF Valued, EntryOf, Span
    <3> HIDE DEF S
    <3>3. LastOf(S) = n + 1
      BY <3>1, <3>2, LastIs
    <3> QED
      BY <3>3 DEF S
  <2>4. ASSUME NEW g \in EntryFields[l], g # f
        PROVE  fs[1][g] = LastOf(Valued("entry_value", g, EntryOf(h, n + 2)))
    <3>1. es[1][g] = LastOf(Valued("entry_value", g, EntryOf(h, n)))
      BY <2>1 DEF EntryMeaning
    <3>2. \A k \in (h + 1)..(n + 1) : k \in (h + 1)..(n - 1) \/ k = n \/ k = n + 1
      BY <1>2
    <3>3. (h + 1)..(n - 1) \subseteq (h + 1)..(n + 1)
      BY <1>2
    <3>4. Valued("entry_value", g, EntryOf(h, n + 2))
            = Valued("entry_value", g, EntryOf(h, n))
      BY <1>2, <1>3, <2>4, <3>2, <3>3 DEF Valued, EntryOf, Span
    <3> QED
      BY <2>4, <3>1, <3>4 DEF Grown
  <2>5. \A g \in EntryFields[l] :
          fs[1][g] = LastOf(Valued("entry_value", g, EntryOf(h, n + 2)))
    BY <2>3, <2>4 DEF Grown
  <2> QED
    BY <2>1, <2>5 DEF EntryMeaning
<1> HIDE DEF H
<1> QED
  BY <1>4, <1>7, <1>9, <1>10, <1>11, <1>12 DEF EntriesAre

-----------------------------------------------------------------------------
(* The walk over a document.  What is claimed of a step is claimed of the  *)
(* values the variables get, so that the document itself is not primed.    *)
PlacedAt(p, n, s, it, en, l) ==
    /\ p = "parse" => n = 0
    /\ p = "outer" => \/ n = 0 /\ r = 0
                      \/ n < r /\ Role(n) = "object"
    /\ p \in {"root", "entry"} \cup ListFields => n < r /\ s = FieldsLeft(n)
    /\ p = "root" => Role(n) \in FieldEnds
    /\ p \in ListFields =>
          it = HeadsLeft(n) /\ Role(n) \in EntryEnd /\ InList(p, n)
    /\ p = "entry" =>
          /\ it = HeadsLeft(n) + 1 /\ en = EntryKeysLeft(n)
          /\ Role(n) \in EntryEnd \cup {"entry_key"}
          /\ InList(l, n) /\ InEntry(l, n)

FoundAt(e, n) ==
    /\ ScalarsAre(e.scalar, n)
    /\ \A l \in ListFields : EntriesAre(e[l], l, Heads(l, n), n)

FoundInTheEnd(e) ==
    /\ ScalarsAre(e.scalar, r)
    /\ \A l \in ListFields : EntriesAre(e[l], l, Entered(l), r)

WellUnderway(p, n, s, it, en, l, e, code) ==
    IF p = "done" THEN code # "-2" => FoundInTheEnd(e)
    ELSE PlacedAt(p, n, s, it, en, l) /\ FoundAt(e, n)

OnCourse == WellUnderway(pc, i, size, items, entries, list, je, ret)

NextOnCourse ==
    WellUnderway(pc', i', size', items', entries', list', je', ret')

LEMMA DocumentStays ==
    ASSUME UNCHANGED input, NextOnCourse
    PROVE  OnCourse'
<1>1. ASSUME NEW p, NEW n, NEW s, NEW it, NEW en, NEW l
      PROVE  PlacedAt(p, n, s, it, en, l) = PlacedAt(p, n, s, it, en, l)'
  BY DEF PlacedAt, FieldsLeft, HeadsLeft, EntryKeysLeft, Left, Ahead, InList, InEntry,
         Role, At, r, tokens
<1>2. ASSUME NEW e, NEW n
      PROVE  FoundAt(e, n) = FoundAt(e, n)'
  BY DEF FoundAt, ScalarsAre, EntriesAre, Rank, EntryMeaning, Valued, EntryOf, Heads, Span,
         Role, At, r, tokens
<1>3. ASSUME NEW e
      PROVE  FoundInTheEnd(e) = FoundInTheEnd(e)'
  BY DEF FoundInTheEnd, ScalarsAre, EntriesAre, Rank, EntryMeaning, Valued, EntryOf,
         Heads, Entered, Span, Role, At, r, tokens
<1> QED
  BY <1>1, <1>2, <1>3 DEF OnCourse, NextOnCourse, WellUnderway

(* Tokens that are neither values nor heads say nothing.                   *)
LEMMA Pass ==
    ASSUME NEW e, NEW n \in Nat, FoundAt(e, n),
           Role(n) \notin {"value", "entry_value"} \cup ListFields
    PROVE  FoundAt(e, n + 1)
<1>1. ScalarsAre(e.scalar, n + 1)
  BY ScalarsPass DEF FoundAt
<1>2. \A l \in ListFields : Role(n) # l /\ Role(n) # "entry_value"
  OBVIOUS
<1>3. \A l \in ListFields : EntriesAre(e[l], l, Heads(l, n + 1), n + 1)
  BY <1>2, EntriesPass DEF FoundAt
<1> QED
  BY <1>1, <1>3 DEF FoundAt

LEMMA AtTheEnd ==
    ASSUME NEW e, r \in Nat, FoundAt(e, r), r > 0 => Role(r - 1) # "transactions"
    PROVE  FoundInTheEnd(e)
<1>1. \A l \in ListFields : Entered(l) = Heads(l, r)
  BY DEF Entered, Heads
<1> QED
  BY <1>1 DEF FoundAt, FoundInTheEnd

(* What a count of 0, or of more than 0, says of the token the walk is at. *)
LEMMA LeftInOrder ==
    ASSUME r \in Nat, NEW n \in Nat, n < r, Role(n) \in FieldEnds
    PROVE  /\ FieldsLeft(n) = 0 <=> Role(n) = "object"
           /\ FieldsLeft(n) > 0 => Role(n) = "key"
<1>1. /\ Role(n) = "object" => FieldsLeft(n) = 0
      /\ Role(n) = "key" => FieldsLeft(n) = FieldsLeft(n + 1) + 1
      /\ FieldsLeft(n + 1) \in Nat
  BY AheadStep DEF FieldsLeft
<1> QED
  BY <1>1 DEF FieldEnds

LEMMA LeftInList ==
    ASSUME r \in Nat, NEW n \in Nat, n < r, Role(n) \in EntryEnd
    PROVE  /\ HeadsLeft(n) = 0 => Role(n) \in FieldEnds
           /\ HeadsLeft(n) > 0 => Role(n) \in ListFields
           /\ Role(n) \in ListFields => HeadsLeft(n) = HeadsLeft(n + 1) + 1
<1>1. FieldEnds \cap ListFields = {}
  BY DEF FieldEnds, ListFields
<1>2. /\ Role(n) \in FieldEnds => HeadsLeft(n) = 0
      /\ Role(n) \in ListFields \ FieldEnds => HeadsLeft(n) = HeadsLeft(n + 1) + 1
      /\ HeadsLeft(n + 1) \in Nat
  BY AheadStep DEF HeadsLeft
<1> QED
  BY <1>1, <1>2 DEF EntryEnd

LEMMA LeftInEntry ==
    ASSUME r \in Nat, NEW n \in Nat, n < r, Role(n) \in EntryEnd \cup {"entry_key"}
    PROVE  /\ EntryKeysLeft(n) = 0 => Role(n) \in EntryEnd
           /\ EntryKeysLeft(n) > 0 => Role(n) = "entry_key"
           /\ Role(n) = "entry_key" => EntryKeysLeft(n) = EntryKeysLeft(n + 1) + 1
<1>1. "entry_key" \notin EntryEnd
  BY DEF EntryEnd, FieldEnds, ListFields
<1>2. /\ Role(n) \in EntryEnd => EntryKeysLeft(n) = 0
      /\ Role(n) = "entry_key" => EntryKeysLeft(n) = EntryKeysLeft(n + 1) + 1
      /\ EntryKeysLeft(n + 1) \in Nat
  BY <1>1, AheadStep DEF EntryKeysLeft
<1> QED
  BY <1>2

(* Counts that a token does not change.                                    *)
LEMMA NotCounted ==
    ASSUME r \in Nat, NEW n \in Nat, n < r
    PROVE  /\ Role(n) \notin FieldEnds => FieldsLeft(n) = FieldsLeft(n + 1)
           /\ Role(n) \notin EntryEnd => HeadsLeft(n) = HeadsLeft(n + 1)
           /\ Role(n) \notin EntryEnd \cup {"entry_key"} =>
                EntryKeysLeft(n) = EntryKeysLeft(n + 1)
           /\ Role(n) = "key" => FieldsLeft(n) = FieldsLeft(n + 1) + 1
<1>1. Role(n) \notin FieldEnds => FieldsLeft(n) = FieldsLeft(n + 1)
  BY AheadStep DEF FieldsLeft, FieldEnds
<1>2. Role(n) \notin EntryEnd => HeadsLeft(n) = HeadsLeft(n + 1)
  BY AheadStep DEF HeadsLeft, EntryEnd
<1>3. Role(n) \notin EntryEnd \cup {"entry_key"} =>
         EntryKeysLeft(n) = EntryKeysLeft(n + 1)
  BY AheadStep DEF EntryKeysLeft
<1>4. Role(n) = "key" => FieldsLeft(n) = FieldsLeft(n + 1) + 1
  BY AheadStep DEF FieldsLeft
<1> QED
  BY <1>1, <1>2, <1>3, <1>4

(* The places of the walk, case by case.                                   *)
LEMMA ParseOnCourse ==
    ASSUME IsDocument, Typed, r \in Nat, OnCourse, Parse
    PROVE  NextOnCourse
<1>1. pc = "parse" /\ pc' = "outer" /\ UNCHANGED <<list, i, size, items, entries, ret, je>>
  BY DEF Parse, IsDocument
<1>2. PlacedAt(pc, i, size, items, entries, list) /\ FoundAt(je, i)
  BY <1>1 DEF OnCourse, WellUnderway
<1>3. i = 0
  BY <1>1, <1>2 DEF PlacedAt
<1>4. r = 0 \/ (0 < r /\ Role(0) = "object")
  BY DEF IsDocument, InOrder
<1>5. PlacedAt("outer", i, size, items, entries, list)
  BY <1>3, <1>4 DEF PlacedAt, ListFields
<1> QED
  BY <1>1, <1>2, <1>5 DEF NextOnCourse, WellUnderway

LEMMA OuterLoopOnCourse ==
    ASSUME IsDocument, Typed, r \in Nat, OnCourse, OuterLoop
    PROVE  NextOnCourse
<1>1. pc = "outer" /\ je' = je /\ i \in Nat
  BY DEF OuterLoop, Typed, TypeOK
<1>2. PlacedAt(pc, i, size, items, entries, list) /\ FoundAt(je, i)
  BY <1>1 DEF OnCourse, WellUnderway
<1>3. (i = 0 /\ r = 0) \/ (i < r /\ Role(i) = "object")
  BY <1>1, <1>2 DEF PlacedAt
<1>4. CASE i = 0 /\ r = 0
  <2>1. pc' = "done"
    BY <1>1, <1>4 DEF OuterLoop, Return
  <2>2. FoundInTheEnd(je)
    BY <1>2, <1>4, AtTheEnd
  <2> QED
    BY <1>1, <2>1, <2>2 DEF NextOnCourse, WellUnderway
<1>5. CASE i < r /\ Role(i) = "object"
  <2>1. FoundAt(je, i + 1)
    BY <1>1, <1>2, <1>5, Pass DEF ListFields
  <2>2. CASE Beyond(i)
    <3>1. pc' = "done"
      BY <1>1, <1>5, <2>2 DEF OuterLoop, Return
    <3>2. r = i + 1 /\ r - 1 = i
      BY <1>1, <1>5, <2>2 DEF Beyond
    <3>3. FoundInTheEnd(je)
      BY <1>5, <2>1, <3>2, AtTheEnd
    <3> QED
      BY <1>1, <3>1, <3>3 DEF NextOnCourse, WellUnderway
  <2>3. CASE ~Beyond(i)
    <3>1. /\ pc' = "root" /\ i' = i + 1 /\ size' = At(i).size
          /\ UNCHANGED <<list, items, entries, ret>>
      BY <1>1, <1>5, <2>3 DEF OuterLoop
    <3>2. i + 1 < r /\ i \in 0..(r - 1)
      BY <1>1, <1>5, <2>3 DEF Beyond
    <3>3. At(i).size = FieldsLeft(i + 1) /\ Role(i + 1) \in FieldEnds
      BY <1>5, <3>2, SizeIsLeft, WhatFollows
    <3>4. PlacedAt("root", i + 1, At(i).size, items, entries, list)
      BY <3>2, <3>3 DEF PlacedAt, ListFields
    <3> QED
      BY <1>1, <2>1, <3>1, <3>4 DEF NextOnCourse, WellUnderway
  <2> QED
    BY <2>2, <2>3
<1> QED
  BY <1>3, <1>4, <1>5

(* In the loops the walk is at a token.                                    *)
LEMMA InLoop ==
    ASSUME Typed, OnCourse, pc \in {"root", "entry"} \cup ListFields
    PROVE  /\ i \in Nat /\ i < r
           /\ size = FieldsLeft(i)
           /\ PlacedAt(pc, i, size, items, entries, list)
           /\ FoundAt(je, i)
<1>1. pc # "done" /\ i \in Nat
  BY DEF ListFields, Typed, TypeOK
<1>2. PlacedAt(pc, i, size, items, entries, list) /\ FoundAt(je, i)
  BY <1>1 DEF OnCourse, WellUnderway
<1> QED
  BY <1>1, <1>2 DEF PlacedAt

LEMMA RootLoopEndsOnCourse ==
    ASSUME Typed, r \in Nat, OnCourse, RootLoopEnds
    PROVE  NextOnCourse
<1>1. /\ pc = "root" /\ size = 0 /\ pc' = "outer"
      /\ UNCHANGED <<list, i, size, items, entries, je, ret>>
  BY DEF RootLoopEnds
<1>2. /\ i \in Nat /\ i < r /\ size = FieldsLeft(i)
      /\ PlacedAt(pc, i, size, items, entries, list) /\ FoundAt(je, i)
  BY <1>1, InLoop
<1>3. Role(i) = "object"
  BY <1>1, <1>2, LeftInOrder DEF PlacedAt
<1>4. PlacedAt("outer", i, size, items, entries, list)
  BY <1>2, <1>3 DEF PlacedAt, ListFields
<1> QED
  BY <1>1, <1>2, <1>4 DEF NextOnCourse, WellUnderway

(* A field of the order: the token is a key, and something follows.        *)
LEMMA AtKey ==
    ASSUME IsDocument, Typed, r \in Nat, OnCourse, pc = "root", size > 0
    PROVE  /\ i \in Nat /\ i + 1 < r
           /\ FoundAt(je, i)
           /\ Role(i) = "key"
           /\ Role(i + 1) = IF At(i).word \in ListFields THEN "array" ELSE "value"
           /\ size = FieldsLeft(i + 2) + 1
<1>1. /\ i \in Nat /\ i < r /\ size = FieldsLeft(i)
      /\ PlacedAt(pc, i, size, items, entries, list) /\ FoundAt(je, i)
  BY InLoop
<1>2. Role(i) \in FieldEnds
  BY <1>1 DEF PlacedAt
<1>3. Role(i) = "key"
  BY <1>1, <1>2, LeftInOrder
<1>4. /\ i + 1 < r /\ i + 1 \in Nat /\ (i + 1) + 1 = i + 2
      /\ Role(i + 1) = IF At(i).word \in ListFields THEN "array" ELSE "value"
  BY <1>1, <1>3, WhatFollows
<1>5. FieldsLeft(i) = FieldsLeft(i + 1) + 1
  BY <1>1, <1>3, NotCounted
<1>6. FieldsLeft(i + 1) = FieldsLeft((i + 1) + 1)
  BY <1>4, NotCounted DEF FieldEnds
<1> QED
  BY <1>1, <1>3, <1>4, <1>5, <1>6

LEMMA ScalarOnCourse ==
    ASSUME IsDocument, Typed, r \in Nat, OnCourse, Scalar
    PROVE  NextOnCourse
<1>1. pc = "root" /\ size > 0 /\ At(i).word \in ScalarFields
  BY DEF Scalar, AtField
<1>2. /\ i \in Nat /\ i + 1 < r /\ FoundAt(je, i) /\ Role(i) = "key"
      /\ Role(i + 1) = "value"
      /\ size = FieldsLeft(i + 2) + 1
  BY <1>1, AtKey DEF ScalarFields, ListFields
<1>3. CASE ValueRejected(CheckedScalars)
  BY <1>3 DEF ValueRejected, Return, NextOnCourse, WellUnderway
<1>4. ~ValueMissing
  BY <1>2 DEF ValueMissing, Beyond
<1>5. CASE je' = [je EXCEPT !.scalar[At(i).word] = i + 1] /\ ~ValueRejected(CheckedScalars)
  <2> DEFINE f == At(i).word
  <2>1. /\ i + 1 \in Nat /\ (i + 1) + 1 = i + 2 /\ f \in ScalarFields
        /\ je.scalar \in [ScalarFields -> Nat]
    BY <1>1, <1>2 DEF Typed, TypeOK
  <2>2. /\ je'.scalar = [je.scalar EXCEPT ![f] = i + 1]
        /\ \A l \in ListFields : je'[l] = je[l]
    BY <1>5, <2>1, PutScalar DEF Typed
  <2>3. ScalarsAre(je'.scalar, i + 2)
    BY <1>2, <2>1, <2>2, ScalarPut DEF FoundAt
  <2>4. FoundAt(je, i + 1)
    BY <1>2, Pass DEF ListFields
  <2>5. \A l \in ListFields : EntriesAre(je[l], l, Heads(l, i + 2), i + 2)
    <3>1. \A l \in ListFields : Role(i + 1) # l /\ Role(i + 1) # "entry_value"
      BY <1>2 DEF ListFields
    <3>2. \A l \in ListFields :
            EntriesAre(je[l], l, Heads(l, (i + 1) + 1), (i + 1) + 1)
      BY <2>1, <2>4, <3>1, EntriesPass DEF FoundAt
    <3> QED
      BY <2>1, <3>2
  <2>6. FoundAt(je', i + 2)
    BY <2>2, <2>3, <2>5 DEF FoundAt
  <2>7. CASE Beyond(i + 1)
    <3>1. pc' = "done"
      BY <1>4, <1>5, <2>7 DEF Scalar, Return
    <3>2. r = i + 2 /\ r - 1 = i + 1
      BY <1>2, <2>7 DEF Beyond
    <3>3. FoundInTheEnd(je')
      BY <1>2, <2>6, <3>2, AtTheEnd
    <3> QED
      BY <3>1, <3>3 DEF NextOnCourse, WellUnderway
  <2>8. CASE ~Beyond(i + 1)
    <3>1. /\ pc' = "root" /\ i' = i + 2 /\ size' = size - 1
          /\ UNCHANGED <<list, items, entries, ret>>
      BY <1>1, <1>4, <1>5, <2>8 DEF Scalar
    <3>2. i + 2 < r /\ i + 1 \in 0..(r - 1)
      BY <1>2, <2>8 DEF Beyond
    <3>3. Role((i + 1) + 1) \in FieldEnds
      BY <1>2, <2>1, <3>2, WhatFollows
    <3>4. size - 1 = FieldsLeft(i + 2)
      <4>1. FieldsLeft(i + 2) \in Nat
        BY <1>2, <2>1, <3>2, AheadStep DEF FieldsLeft
      <4> QED
        BY <1>2, <4>1
    <3>5. PlacedAt("root", i + 2, size - 1, items, entries, list)
      BY <2>1, <3>2, <3>3, <3>4 DEF PlacedAt, ListFields
    <3> QED
      BY <2>6, <3>1, <3>5 DEF NextOnCourse, WellUnderway
  <2> QED
    BY <2>7, <2>8
<1> QED
  BY <1>3, <1>4, <1>5 DEF Scalar

LEMMA ListOnCourse ==
    ASSUME IsDocument, Typed, r \in Nat, OnCourse, List
    PROVE  NextOnCourse
<1>1. pc = "root" /\ size > 0 /\ At(i).word \in ListFields /\ je' = je
  BY DEF List, AtField
<1>2. /\ i \in Nat /\ i + 1 < r /\ FoundAt(je, i) /\ Role(i) = "key"
      /\ Role(i + 1) = "array"
      /\ size = FieldsLeft(i + 2) + 1
  BY <1>1, AtKey
<1>3. i + 1 \in Nat /\ (i + 1) + 1 = i + 2 /\ ~Beyond(i) /\ i + 1 \in 0..(r - 1)
  BY <1>2 DEF Beyond
<1>4. FoundAt(je, i + 1)
  BY <1>2, Pass DEF ListFields
<1>5. FoundAt(je, i + 2)
  <2>1. FoundAt(je, (i + 1) + 1)
    BY <1>2, <1>3, <1>4, Pass DEF ListFields
  <2> QED
    BY <1>3, <2>1
<1>6. CASE Beyond(i + 1)
  <2>1. pc' = "done"
    BY <1>6 DEF List, Return
  <2>2. r = i + 2 /\ r - 1 = i + 1
    BY <1>2, <1>6 DEF Beyond
  <2>3. FoundInTheEnd(je)
    BY <1>2, <1>5, <2>2, AtTheEnd
  <2> QED
    BY <1>1, <2>1, <2>3 DEF NextOnCourse, WellUnderway
<1>7. CASE ~Beyond(i + 1)
  <2>1. /\ pc' = At(i).word /\ i' = i + 2 /\ size' = size - 1
        /\ items' = At(i + 1).size
        /\ UNCHANGED <<list, entries, ret>>
    BY <1>3, <1>7 DEF List
  <2>2. i + 2 < r
    BY <1>2, <1>7 DEF Beyond
  <2>3. At(i + 1).size = HeadsLeft(i + 2) /\ Role(i + 2) \in EntryEnd
    BY <1>2, <1>3, <2>2, SizeIsLeft, WhatFollows
  <2>4. size - 1 = FieldsLeft(i + 2)
    <3>1. FieldsLeft(i + 2) \in Nat
      BY <1>2, <2>2, AheadStep DEF FieldsLeft
    <3> QED
      BY <1>2, <3>1
  <2>5. InList(At(i).word, i + 2)
    <3>1. i + 1 \in 1..((i + 2) - 1) /\ (i + 1) - 1 = i
      BY <1>2
    <3>2. \A m \in ((i + 1) + 1)..((i + 2) - 1) : FALSE
      BY <1>2
    <3> QED
      BY <1>2, <3>1, <3>2 DEF InList
  <2>6. At(i).word \notin {"parse", "outer", "root", "entry", "done"}
    BY <1>1 DEF ListFields
  <2>7. PlacedAt(At(i).word, i + 2, size - 1, At(i + 1).size, entries, list)
    BY <2>2, <2>3, <2>4, <2>5, <2>6 DEF PlacedAt
  <2> QED
    BY <1>1, <1>5, <2>1, <2>6, <2>7 DEF NextOnCourse, WellUnderway
<1> QED
  BY <1>6, <1>7

LEMMA ListEndsOnCourse ==
    ASSUME Typed, r \in Nat, OnCourse, ListEnds
    PROVE  NextOnCourse
<1>1. /\ pc \in ListFields /\ items = 0 /\ pc' = "root"
      /\ UNCHANGED <<list, i, size, items, entries, je, ret>>
  BY DEF ListEnds
<1>2. /\ i \in Nat /\ i < r /\ size = FieldsLeft(i)
      /\ PlacedAt(pc, i, size, items, entries, list) /\ FoundAt(je, i)
  BY <1>1, InLoop
<1>3. items = HeadsLeft(i) /\ Role(i) \in EntryEnd
  BY <1>1, <1>2 DEF PlacedAt
<1>4. Role(i) \in FieldEnds
  BY <1>1, <1>2, <1>3, LeftInList
<1>5. PlacedAt("root", i, size, items, entries, list)
  BY <1>2, <1>4 DEF PlacedAt, ListFields
<1> QED
  BY <1>1, <1>2, <1>5 DEF NextOnCourse, WellUnderway

(* The head of an entry, when one is left.                                 *)
LEMMA AtHead ==
    ASSUME IsDocument, Typed, r \in Nat, OnCourse, pc \in ListFields, items > 0
    PROVE  /\ i \in Nat /\ i < r /\ FoundAt(je, i)
           /\ Role(i) = pc
           /\ i + 1 < r =>
                PlacedAt("entry", i + 1, size, items, At(i).size, pc)
<1>1. /\ i \in Nat /\ i < r /\ size = FieldsLeft(i)
      /\ PlacedAt(pc, i, size, items, entries, list) /\ FoundAt(je, i)
  BY InLoop
<1>2. items = HeadsLeft(i) /\ Role(i) \in EntryEnd /\ InList(pc, i)
  BY <1>1 DEF PlacedAt
<1>3. Role(i) \in ListFields /\ HeadsLeft(i) = HeadsLeft(i + 1) + 1
  BY <1>1, <1>2, LeftInList
<1>4. Role(i) = pc
  BY <1>1, <1>2, <1>3, HeadOfList
<1>5. ASSUME i + 1 < r
      PROVE  PlacedAt("entry", i + 1, size, items, At(i).size, pc)
  <2>1. i \in 0..(r - 1) /\ i + 1 \in Nat /\ Role(i) \notin FieldEnds
    BY <1>1, <1>3 DEF ListFields, FieldEnds
  <2>2. At(i).size = EntryKeysLeft(i + 1) /\ Role(i + 1) \in EntryEnd \cup {"entry_key"}
    BY <1>3, <1>5, <2>1, SizeIsLeft, WhatFollows
  <2>3. size = FieldsLeft(i + 1)
    BY <1>1, <2>1, NotCounted
  <2>4. InList(pc, i + 1)
    BY <1>1, <1>2, <2>1, ListGoesOn
  <2>5. InEntry(pc, i + 1)
    BY <1>1, <1>4 DEF InEntry
  <2> QED
    BY <1>2, <1>3, <1>5, <2>2, <2>3, <2>4, <2>5 DEF PlacedAt, ListFields
<1> QED
  BY <1>1, <1>4, <1>5

(* A new entry is at the head of its list, and the other list stays.       *)
LEMMA FoundHead ==
    ASSUME Typed, NEW l \in ListFields, i \in Nat, FoundAt(je, i), Role(i) = l,
           je' = [je EXCEPT ![l] = <<EmptyEntry(l)>> \o @]
    PROVE  FoundAt(je', i + 1)
<1>1. /\ je'.scalar = je.scalar
      /\ je'[l] = <<EmptyEntry(l)>> \o je[l]
      /\ \A o \in ListFields \ {l} : je'[o] = je[o]
  BY PutHead DEF Typed
<1>2. ScalarsAre(je'.scalar, i + 1)
  BY <1>1, ScalarsPass DEF FoundAt, ListFields
<1>3. EntriesAre(je'[l], l, Heads(l, i + 1), i + 1)
  <2>1. je[l] \in Entries(l)
    BY DEF Typed, TypeOK, ListFields
  <2> QED
    BY <1>1, <2>1, EntryBegins DEF FoundAt
<1>4. \A o \in ListFields \ {l} : EntriesAre(je'[o], o, Heads(o, i + 1), i + 1)
  <2>1. \A o \in ListFields \ {l} : Role(i) # o /\ Role(i) # "entry_value"
    BY DEF ListFields
  <2> QED
    BY <1>1, <2>1, EntriesPass DEF FoundAt
<1> QED
  BY <1>2, <1>3, <1>4 DEF FoundAt

LEMMA ItemOnCourse ==
    ASSUME IsDocument, Typed, r \in Nat, OnCourse, Item
    PROVE  NextOnCourse
<1>1. /\ pc = "items" /\ pc \in ListFields /\ items > 0
      /\ je' = [je EXCEPT !["items"] = <<EmptyEntry("items")>> \o @]
  BY DEF Item, ListFields
<1>2. /\ i \in Nat /\ i < r /\ FoundAt(je, i) /\ Role(i) = pc
      /\ i + 1 < r => PlacedAt("entry", i + 1, size, items, At(i).size, pc)
  BY <1>1, AtHead
<1>3. FoundAt(je', i + 1)
  BY <1>1, <1>2, FoundHead
<1>4. CASE Beyond(i)
  <2>1. pc' = "done"
    BY <1>4 DEF Item, Return
  <2>2. r = i + 1 /\ r - 1 = i
    BY <1>2, <1>4 DEF Beyond
  <2>3. FoundInTheEnd(je')
    BY <1>1, <1>2, <1>3, <2>2, AtTheEnd
  <2> QED
    BY <2>1, <2>3 DEF NextOnCourse, WellUnderway
<1>5. CASE ~Beyond(i)
  <2>1. /\ pc' = "entry" /\ i' = i + 1 /\ entries' = At(i).size /\ list' = pc
        /\ UNCHANGED <<size, items, ret>>
    BY <1>5 DEF Item, EnterEntry
  <2>2. i + 1 < r
    BY <1>2, <1>5 DEF Beyond
  <2> QED
    BY <1>2, <1>3, <2>1, <2>2 DEF NextOnCourse, WellUnderway
<1> QED
  BY <1>4, <1>5

(* A transaction that is the last token gets no entry.                     *)
LEMMA TransactionOnCourse ==
    ASSUME IsDocument, Typed, r \in Nat, OnCourse, Transaction
    PROVE  NextOnCourse
<1>1. pc = "transactions" /\ pc \in ListFields /\ items > 0
  BY DEF Transaction, ListFields
<1>2. /\ i \in Nat /\ i < r /\ FoundAt(je, i) /\ Role(i) = pc
      /\ i + 1 < r => PlacedAt("entry", i + 1, size, items, At(i).size, pc)
  BY <1>1, AtHead
<1>3. CASE Beyond(i)
  <2>1. pc' = "done" /\ je' = je
    BY <1>3 DEF Transaction, Return
  <2>2. r = i + 1 /\ r - 1 = i
    BY <1>2, <1>3 DEF Beyond
  <2>3. ScalarsAre(je.scalar, r)
    BY <1>1, <1>2, <2>2, ScalarsPass DEF FoundAt
  <2>4. EntriesAre(je["items"], "items", Entered("items"), r)
    <3>1. EntriesAre(je["items"], "items", Heads("items", i + 1), i + 1)
      BY <1>1, <1>2, EntriesPass DEF FoundAt, ListFields
    <3> QED
      BY <2>2, <3>1 DEF Entered
  <2>5. EntriesAre(je["transactions"], "transactions", Entered("transactions"), r)
    <3> DEFINE H == Heads("transactions", i)
    <3>1. Entered("transactions") = H
      BY <1>2, <2>2 DEF Entered, Heads
    <3>2. \A p \in H : p \in 0..(i - 1)
      BY DEF Heads
    <3>3. \A p \in H : EntryMeaning("transactions", p, i + 1) = EntryMeaning("transactions", p, i)
      BY <1>1, <1>2, <3>2, EntryPass
    <3>4. EntriesAre(je["transactions"], "transactions", H, i)
      BY <1>2 DEF FoundAt, ListFields
    <3> HIDE DEF H
    <3> QED
      BY <2>2, <3>1, <3>3, <3>4 DEF EntriesAre
  <2>6. FoundInTheEnd(je)
    BY <2>3, <2>4, <2>5 DEF FoundInTheEnd, ListFields
  <2> QED
    BY <2>1, <2>6 DEF NextOnCourse, WellUnderway
<1>4. CASE ~Beyond(i)
  <2>1. /\ pc' = "entry" /\ i' = i + 1 /\ entries' = At(i).size /\ list' = pc
        /\ UNCHANGED <<size, items, ret>>
        /\ je' = [je EXCEPT !["transactions"] = <<EmptyEntry("transactions")>> \o @]
    BY <1>4 DEF Transaction, EnterEntry
  <2>2. i + 1 < r
    BY <1>2, <1>4 DEF Beyond
  <2>3. FoundAt(je', i + 1)
    BY <1>1, <1>2, <2>1, FoundHead
  <2> QED
    BY <1>2, <2>1, <2>2, <2>3 DEF NextOnCourse, WellUnderway
<1> QED
  BY <1>3, <1>4

LEMMA EntryGoesOn ==
    ASSUME NEW l, NEW n \in Nat, NEW k \in Nat, n < k, InEntry(l, n),
           \A m \in n..(k - 1) : Role(m) \notin EntryEnd
    PROVE  InEntry(l, k)
<1>1. PICK h \in 0..(n - 1) :
        /\ Role(h) = l
        /\ \A m \in (h + 1)..(n - 1) : Role(m) \notin EntryEnd
  BY DEF InEntry
<1>2. \A m \in (h + 1)..(k - 1) : Role(m) \notin EntryEnd
  BY <1>1
<1>3. h \in 0..(k - 1)
  OBVIOUS
<1> QED
  BY <1>1, <1>2, <1>3 DEF InEntry

(* The value of a field of the entry at the head.                          *)
LEMMA FoundEntryField ==
    ASSUME Typed, NEW l \in ListFields, i \in Nat, FoundAt(je, i), InEntry(l, i),
           Role(i) = "entry_key", Role(i + 1) = "entry_value",
           At(i).word \in EntryFields[l], je[l] # <<>>,
           je' = [je EXCEPT ![l][1][At(i).word] = i + 1]
    PROVE  FoundAt(je', i + 2)
<1> DEFINE f == At(i).word
<1>1. i + 1 \in Nat /\ (i + 1) + 1 = i + 2 /\ (i + 2) - 1 = i + 1 /\ (i + 1) - 1 = i
  OBVIOUS
<1>2. je' \in JeType /\ EntryPut(l, f, i + 1)
  BY <1>1, PutEntry DEF Typed
<1>3. je[l] \in Entries(l) /\ je'[l] \in Entries(l)
  BY <1>2 DEF Typed, TypeOK, ListFields, JeType
<1>4. Grown(je'[l], je[l], l, f, i + 1)
  BY <1>2 DEF EntryPut, Grown
<1>5. EntriesAre(je'[l], l, Heads(l, i + 2), i + 2)
  <2> HIDE DEF f
  <2>1. f \in EntryFields[l] /\ At(i).word = f
    BY DEF f
  <2> QED
    BY <1>3, <1>4, <2>1, EntryGrows DEF FoundAt
<1>6. ScalarsAre(je'.scalar, i + 2)
  <2>1. ScalarsAre(je.scalar, i + 1)
    BY ScalarsPass DEF FoundAt
  <2>2. ScalarsAre(je.scalar, (i + 1) + 1)
    BY <1>1, <2>1, ScalarsPass
  <2> QED
    BY <1>1, <1>2, <2>2 DEF EntryPut
<1>7. ASSUME NEW o \in ListFields \ {l}
      PROVE  EntriesAre(je'[o], o, Heads(o, i + 2), i + 2)
  <2>1. Role(i) # o /\ Role(i + 1) # o
    BY DEF ListFields
  <2>2. EntriesAre(je[o], o, Heads(o, i + 1), i + 1)
    BY <2>1, EntriesPass DEF FoundAt
  <2>3. \A p \in Heads(o, i + 1) : HasEnded(p, i + 1)
    <3> SUFFICES ASSUME NEW p \in Heads(o, i + 1) PROVE HasEnded(p, i + 1)
      OBVIOUS
    <3>1. PICK h \in 0..(i - 1) :
            /\ Role(h) = l
            /\ \A m \in (h + 1)..(i - 1) : Role(m) \notin EntryEnd
      BY DEF InEntry
    <3>2. l \in EntryEnd /\ o \in EntryEnd
      BY DEF EntryEnd
    <3>3. p \in 0..i /\ Role(p) = o /\ p # i /\ p # h
      BY <1>1, <2>1, <3>1 DEF Heads
    <3>4. p < h
      BY <3>1, <3>2, <3>3
    <3>5. h \in (p + 1)..(i + 1)
      BY <3>1, <3>3, <3>4
    <3> QED
      BY <3>1, <3>2, <3>5 DEF HasEnded
  <2>4. EntriesAre(je[o], o, Heads(o, (i + 1) + 1), (i + 1) + 1)
    BY <1>1, <2>1, <2>2, <2>3, EntriesPass
  <2>5. je'[o] = je[o]
    BY <1>2 DEF EntryPut
  <2> QED
    BY <1>1, <2>4, <2>5
<1> QED
  BY <1>5, <1>6, <1>7 DEF FoundAt

LEMMA EntryFieldOnCourse ==
    ASSUME IsDocument, Typed, r \in Nat, OnCourse, EntryField
    PROVE  NextOnCourse
<1>1. /\ pc = "entry" /\ entries > 0 /\ At(i).word \in EntryFields[list]
      /\ list \in ListFields /\ je[list] # <<>>
  BY DEF EntryField, Typed, TypeOK, HeadIsThere
<1>2. /\ i \in Nat /\ i < r /\ size = FieldsLeft(i)
      /\ PlacedAt(pc, i, size, items, entries, list) /\ FoundAt(je, i)
  BY <1>1, InLoop
<1>3. /\ items = HeadsLeft(i) + 1 /\ entries = EntryKeysLeft(i)
      /\ Role(i) \in EntryEnd \cup {"entry_key"}
      /\ InList(list, i) /\ InEntry(list, i)
  BY <1>1, <1>2 DEF PlacedAt
<1>4. Role(i) = "entry_key" /\ EntryKeysLeft(i) = EntryKeysLeft(i + 1) + 1
  BY <1>1, <1>2, <1>3, LeftInEntry
<1>5. i + 1 < r /\ Role(i + 1) = "entry_value" /\ i + 1 \in Nat /\ (i + 1) + 1 = i + 2
  BY <1>2, <1>4, WhatFollows
<1>6. CASE ValueRejected(CheckedEntryFields[list])
  BY <1>6 DEF ValueRejected, Return, NextOnCourse, WellUnderway
<1>7. ~ValueMissing
  BY <1>2, <1>5 DEF ValueMissing, Beyond
<1>8. CASE /\ je' = [je EXCEPT ![list][1][At(i).word] = i + 1]
           /\ ~ValueRejected(CheckedEntryFields[list])
  <2>1. FoundAt(je', i + 2)
    BY <1>1, <1>2, <1>3, <1>4, <1>5, <1>8, FoundEntryField
  <2>2. CASE Beyond(i + 1)
    <3>1. pc' = "done"
      BY <1>7, <1>8, <2>2 DEF EntryField, Return
    <3>2. r = i + 2 /\ r - 1 = i + 1
      BY <1>2, <1>5, <2>2 DEF Beyond
    <3>3. FoundInTheEnd(je')
      BY <1>5, <2>1, <3>2, AtTheEnd
    <3> QED
      BY <3>1, <3>3 DEF NextOnCourse, WellUnderway
  <2>3. CASE ~Beyond(i + 1)
    <3>1. /\ pc' = "entry" /\ i' = i + 2 /\ entries' = entries - 1
          /\ UNCHANGED <<list, size, items, ret>>
      BY <1>1, <1>7, <1>8, <2>3 DEF EntryField
    <3>2. i + 2 < r /\ i + 1 \in 0..(r - 1) /\ i + 2 \in Nat
      BY <1>2, <1>5, <2>3 DEF Beyond
    <3>3. Role(i + 2) \in EntryEnd \cup {"entry_key"}
      BY <1>5, <3>2, WhatFollows
    <3>4. /\ "entry_key" \notin EntryEnd /\ "entry_value" \notin EntryEnd
          /\ "entry_key" \notin FieldEnds /\ "entry_value" \notin FieldEnds
      BY DEF EntryEnd, FieldEnds, ListFields
    <3>5. FieldsLeft(i) = FieldsLeft(i + 1) /\ HeadsLeft(i) = HeadsLeft(i + 1)
      BY <1>2, <1>4, <3>4, NotCounted
    <3>6. /\ FieldsLeft(i + 1) = FieldsLeft(i + 2)
          /\ HeadsLeft(i + 1) = HeadsLeft(i + 2)
          /\ EntryKeysLeft(i + 1) = EntryKeysLeft(i + 2)
      BY <1>5, <3>4, NotCounted
    <3>7. \A m \in i..((i + 2) - 1) : Role(m) \notin EntryEnd /\ Role(m) \notin FieldEnds
      <4>1. \A m \in i..((i + 2) - 1) : m = i \/ m = i + 1
        BY <1>2
      <4> QED
        BY <1>4, <1>5, <3>4, <4>1
    <3>8. InList(list, i + 2)
      BY <1>2, <1>3, <3>2, <3>7, ListGoesOn
    <3>9. InEntry(list, i + 2)
      BY <1>2, <1>3, <3>2, <3>7, EntryGoesOn
    <3>10. entries - 1 = EntryKeysLeft(i + 2)
      <4>1. EntryKeysLeft(i + 2) \in Nat
        BY <1>5, <3>2, AheadStep DEF EntryKeysLeft
      <4> QED
        BY <1>3, <1>4, <3>6, <4>1
    <3>11. PlacedAt("entry", i + 2, size, items, entries - 1, list)
      BY <1>2, <1>3, <3>2, <3>3, <3>5, <3>6, <3>8, <3>9, <3>10 DEF PlacedAt, ListFields
    <3> QED
      BY <2>1, <3>1, <3>11 DEF NextOnCourse, WellUnderway
  <2> QED
    BY <2>2, <2>3
<1> QED
  BY <1>6, <1>7, <1>8 DEF EntryField

LEMMA EntryEndsOnCourse ==
    ASSUME Typed, r \in Nat, OnCourse, EntryEnds
    PROVE  NextOnCourse
<1>1. /\ pc = "entry" /\ entries = 0 /\ pc' = list /\ items' = items - 1
      /\ UNCHANGED <<list, i, size, entries, je, ret>>
      /\ list \in ListFields
  BY DEF EntryEnds, Typed, TypeOK
<1>2. /\ i \in Nat /\ i < r /\ size = FieldsLeft(i)
      /\ PlacedAt(pc, i, size, items, entries, list) /\ FoundAt(je, i)
  BY <1>1, InLoop
<1>3. /\ items = HeadsLeft(i) + 1 /\ entries = EntryKeysLeft(i)
      /\ Role(i) \in EntryEnd \cup {"entry_key"}
      /\ InList(list, i)
  BY <1>1, <1>2 DEF PlacedAt
<1>4. Role(i) \in EntryEnd
  BY <1>1, <1>2, <1>3, LeftInEntry
<1>5. items - 1 = HeadsLeft(i)
  <2>1. HeadsLeft(i) \in Nat
    BY <1>2, AheadStep DEF HeadsLeft
  <2> QED
    BY <1>3, <2>1
<1>6. list \notin {"parse", "outer", "root", "entry", "done"}
  BY <1>1 DEF ListFields
<1>7. PlacedAt(list, i, size, items - 1, entries, list)
  BY <1>2, <1>3, <1>4, <1>5, <1>6 DEF PlacedAt
<1> QED
  BY <1>1, <1>2, <1>6, <1>7 DEF NextOnCourse, WellUnderway

LEMMA StepOnCourse ==
    ASSUME Typed, IsDocument => OnCourse, [Next]_vars
    PROVE  (IsDocument => OnCourse)'
<1>1. r \in Nat
  BY DEF Typed, TypeOK, Input, r, tokens
<1>2. CASE UNCHANGED vars
  <2>1. UNCHANGED <<input, pc, i, size, items, entries, list, je, ret>>
    BY <1>2 DEF vars
  <2>2. IsDocument' = IsDocument
    BY <2>1 DEF IsDocument, InOrder, SizesMatch, Children, EntryOf, Span, Role, At, r, tokens
  <2>3. OnCourse => NextOnCourse
    BY <2>1 DEF OnCourse, NextOnCourse
  <2> QED
    BY <2>1, <2>2, <2>3, DocumentStays
<1>3. CASE Next
  <2>1. UNCHANGED input
    BY <1>3 DEF Next, Parse, OuterLoop, RootLoopEnds, Scalar, List, UnknownField,
                ListEnds, Item, Transaction, EntryField, UnknownEntryField,
                EntryEnds, ValueMissing, ValueRejected
  <2>2. IsDocument' = IsDocument
    BY <2>1 DEF IsDocument, InOrder, SizesMatch, Children, EntryOf, Span, Role, At, r, tokens
  <2>3. UnknownField \/ UnknownEntryField => NextOnCourse
    BY DEF UnknownField, UnknownEntryField, Return, NextOnCourse, WellUnderway
  <2>4. IsDocument => NextOnCourse
    BY <1>1, <1>3, <2>3, ParseOnCourse, OuterLoopOnCourse, RootLoopEndsOnCourse,
       ScalarOnCourse, ListOnCourse, ListEndsOnCourse, ItemOnCourse,
       TransactionOnCourse, EntryFieldOnCourse, EntryEndsOnCourse DEF Next
  <2> QED
    BY <2>1, <2>2, <2>4, DocumentStays
<1> QED
  BY <1>2, <1>3

LEMMA InitOnCourse == Init => OnCourse
<1> SUFFICES ASSUME Init PROVE OnCourse
  OBVIOUS
<1>1. pc = "parse" /\ i = 0 /\ je = EmptyJsonEntry
  BY DEF Init
<1>2. PlacedAt(pc, i, size, items, entries, list)
  BY <1>1 DEF PlacedAt, ListFields
<1>3. ScalarsAre(je.scalar, 0)
  <2>1. \A f : Valued("value", f, 1..(0 - 1)) = {}
    BY DEF Valued
  <2> QED
    BY <1>1, <2>1 DEF ScalarsAre, EmptyJsonEntry, LastOf
<1>4. \A l \in ListFields : EntriesAre(je[l], l, Heads(l, 0), 0)
  <2>1. \A l \in ListFields : je[l] = <<>> /\ Heads(l, 0) = {}
    BY <1>1 DEF EmptyJsonEntry, ListFields, Heads
  <2>2. Len(<<>>) = 0 /\ Cardinality({}) = 0
    BY FS_EmptySet
  <2> QED
    BY <2>1, <2>2 DEF EntriesAre
<1> QED
  BY <1>1, <1>2, <1>3, <1>4 DEF OnCourse, WellUnderway, FoundAt

(* Of a document of any size, with any number of orders, lists, entries    *)
(* and repeated fields, every value is found.                              *)
THEOREM FindsAll == Spec => []FindsEveryField
<1>1. (IsDocument => OnCourse) => FindsEveryField
  BY DEF OnCourse, WellUnderway, FoundInTheEnd, FindsEveryField, ScalarsAre, ScalarsFound,
         EntriesAre, EntriesFound, Rank
<1> QED
  BY <1>1, InitOnCourse, StepOnCourse, TypedInvariant, PTL DEF Spec

-----------------------------------------------------------------------------
(* What the walk objects to: it finds a fault when it is at it, and none   *)
(* is behind it.                                                           *)
KeyFault(j) == FaultAt(j, ScalarFields \cup ListFields, CheckedScalars)
EntryFault(l, j) == FaultAt(j, EntryFields[l], CheckedEntryFields[l])

LEMMA FaultBefore ==
    ASSUME NEW n \in Nat, ~Faulty(n),
           Role(n) = "key" => ~KeyFault(n),
           Role(n) = "entry_key" => \A l \in ListFields :
               InEntry(l, n) => ~EntryFault(l, n)
    PROVE  ~Faulty(n + 1)
<1>1. ASSUME NEW j \in 0..((n + 1) - 1), Role(j) = "key"
      PROVE  ~FaultAt(j, ScalarFields \cup ListFields, CheckedScalars)
  <2>1. j = n \/ j \in 0..(n - 1)
    OBVIOUS
  <2> QED
    BY <1>1, <2>1 DEF Faulty, KeyFault
<1>2. ASSUME NEW l \in ListFields, NEW p \in Heads(l, n + 1), NEW j \in EntryOf(p, n + 1),
             Role(j) = "entry_key"
      PROVE  ~FaultAt(j, EntryFields[l], CheckedEntryFields[l])
  <2>1. /\ p \in 0..n /\ Role(p) = l /\ j \in (p + 1)..n
        /\ \A m \in (p + 1)..j : Role(m) \notin EntryEnd
    BY DEF Heads, EntryOf, Span
  <2>2. p \in 0..(n - 1)
    BY <2>1
  <2>3. CASE j = n
    <3>1. InEntry(l, n)
      BY <2>1, <2>2, <2>3 DEF InEntry
    <3> QED
      BY <1>2, <2>3, <3>1 DEF EntryFault
  <2>4. CASE j # n
    <3>1. p \in Heads(l, n) /\ j \in EntryOf(p, n)
      BY <2>1, <2>2, <2>4 DEF Heads, EntryOf, Span
    <3> QED
      BY <1>2, <3>1 DEF Faulty
  <2> QED
    BY <2>3, <2>4
<1> QED
  BY <1>1, <1>2 DEF Faulty

LEMMA NoFaultBetween ==
    ASSUME NEW n \in Nat, ~Faulty(n), Role(n) \notin {"key", "entry_key"}
    PROVE  ~Faulty(n + 1)
BY FaultBefore

(* There is one entry around a token.                                      *)
LEMMA OneEntry ==
    ASSUME NEW n \in Nat, NEW l \in ListFields, NEW o \in ListFields,
           InEntry(l, n), InEntry(o, n)
    PROVE  l = o
<1>1. PICK h \in 0..(n - 1) : Role(h) = l /\ \A m \in (h + 1)..(n - 1) : Role(m) \notin EntryEnd
  BY DEF InEntry
<1>2. PICK k \in 0..(n - 1) : Role(k) = o /\ \A m \in (k + 1)..(n - 1) : Role(m) \notin EntryEnd
  BY DEF InEntry
<1>3. l \in EntryEnd /\ o \in EntryEnd
  BY DEF EntryEnd
<1>4. k \notin (h + 1)..(n - 1) /\ h \notin (k + 1)..(n - 1)
  BY <1>1, <1>2, <1>3
<1>5. h = k
  BY <1>4
<1> QED
  BY <1>1, <1>2, <1>5

LEMMA NoFaultInEntry ==
    ASSUME NEW n \in Nat, ~Faulty(n), Role(n) = "entry_key",
           NEW l \in ListFields, InEntry(l, n), ~EntryFault(l, n)
    PROVE  ~Faulty(n + 1)
<1>1. \A o \in ListFields : InEntry(o, n) => ~EntryFault(o, n)
  BY OneEntry
<1> QED
  BY <1>1, FaultBefore

LEMMA FaultInOrder ==
    ASSUME r \in Nat, NEW n \in Nat, n < r, Role(n) = "key", KeyFault(n)
    PROVE  Faulty(r)
BY DEF Faulty, KeyFault

LEMMA FaultInEntry ==
    ASSUME r \in Nat, NEW n \in Nat, n < r, Role(n) = "entry_key",
           NEW l \in ListFields, InEntry(l, n), EntryFault(l, n)
    PROVE  Faulty(r)
<1>1. PICK h \in 0..(n - 1) : Role(h) = l /\ \A m \in (h + 1)..(n - 1) : Role(m) \notin EntryEnd
  BY DEF InEntry
<1>2. "entry_key" \notin EntryEnd
  BY DEF EntryEnd, FieldEnds, ListFields
<1>3. \A m \in (h + 1)..n : Role(m) \notin EntryEnd
  BY <1>1, <1>2
<1>4. h \in Heads(l, r) /\ n \in EntryOf(h, r)
  BY <1>1, <1>3 DEF Heads, EntryOf, Span
<1> QED
  BY <1>4 DEF Faulty, EntryFault

NoFaultSoFar(p, n, code) ==
    IF p = "done" THEN code = "-2" <=> Faulty(r)
    ELSE code = "none" /\ ~Faulty(n)

FaultsKnown == NoFaultSoFar(pc, i, ret)
NextFaultsKnown == NoFaultSoFar(pc', i', ret')

(* The walk goes over a key without a fault and what it is the key of.     *)
LEMMA PastKey ==
    ASSUME IsDocument, Typed, r \in Nat, OnCourse, pc = "root", size > 0,
           ~Faulty(i), ~KeyFault(i)
    PROVE  ~Faulty(i + 2)
<1>1. /\ i \in Nat /\ Role(i) = "key"
      /\ Role(i + 1) = IF At(i).word \in ListFields THEN "array" ELSE "value"
  BY AtKey
<1>2. ~Faulty(i + 1)
  BY <1>1, FaultBefore
<1>3. i + 1 \in Nat /\ (i + 1) + 1 = i + 2
  BY <1>1
<1>4. Role(i + 1) \notin {"key", "entry_key"}
  BY <1>1
<1>5. ~Faulty((i + 1) + 1)
  BY <1>2, <1>3, <1>4, NoFaultBetween
<1> QED
  BY <1>3, <1>5

LEMMA AtEntryKey ==
    ASSUME IsDocument, Typed, r \in Nat, OnCourse, pc = "entry", entries > 0
    PROVE  /\ i \in Nat /\ i + 1 < r /\ list \in ListFields
           /\ Role(i) = "entry_key" /\ Role(i + 1) = "entry_value" /\ InEntry(list, i)
<1>1. /\ i \in Nat /\ i < r /\ list \in ListFields
      /\ PlacedAt(pc, i, size, items, entries, list)
  BY InLoop DEF Typed, TypeOK
<1>2. entries = EntryKeysLeft(i) /\ Role(i) \in EntryEnd \cup {"entry_key"} /\ InEntry(list, i)
  BY <1>1 DEF PlacedAt
<1>3. Role(i) = "entry_key"
  BY <1>1, <1>2, LeftInEntry
<1> QED
  BY <1>1, <1>2, <1>3, WhatFollows

LEMMA PastEntryKey ==
    ASSUME IsDocument, Typed, r \in Nat, OnCourse, pc = "entry", entries > 0,
           ~Faulty(i), ~EntryFault(list, i)
    PROVE  ~Faulty(i + 2)
<1>1. /\ i \in Nat /\ list \in ListFields /\ Role(i) = "entry_key"
      /\ Role(i + 1) = "entry_value" /\ InEntry(list, i)
  BY AtEntryKey
<1>2. ~Faulty(i + 1)
  BY <1>1, NoFaultInEntry
<1>3. i + 1 \in Nat /\ (i + 1) + 1 = i + 2
  BY <1>1
<1>4. ~Faulty((i + 1) + 1)
  BY <1>1, <1>2, <1>3, NoFaultBetween
<1> QED
  BY <1>3, <1>4

LEMMA ParseKnowsFaults ==
    ASSUME IsDocument, FaultsKnown, Parse
    PROVE  NextFaultsKnown
BY DEF Parse, IsDocument, FaultsKnown, NextFaultsKnown, NoFaultSoFar

LEMMA OuterLoopKnowsFaults ==
    ASSUME Typed, r \in Nat, OnCourse, FaultsKnown, OuterLoop
    PROVE  NextFaultsKnown
<1>1. pc = "outer" /\ i \in Nat /\ ret = "none" /\ ~Faulty(i)
  BY DEF OuterLoop, FaultsKnown, NoFaultSoFar, Typed, TypeOK
<1>2. (i = 0 /\ r = 0) \/ (i < r /\ Role(i) = "object")
  BY <1>1 DEF OnCourse, WellUnderway, PlacedAt
<1>3. CASE i = 0 /\ r = 0
  <2>1. pc' = "done" /\ ret' = "0"
    BY <1>3 DEF OuterLoop, Return
  <2> QED
    BY <1>1, <1>3, <2>1 DEF NextFaultsKnown, NoFaultSoFar
<1>4. CASE i < r /\ Role(i) = "object"
  <2>1. ~Faulty(i + 1) /\ ~(i >= r)
    BY <1>1, <1>4, NoFaultBetween
  <2>2. CASE Beyond(i)
    <3>1. r = i + 1
      BY <1>1, <1>4, <2>2 DEF Beyond
    <3>2. pc' = "done" /\ ret' = "JSMN_ERROR_INVAL"
      BY <2>1, <2>2 DEF OuterLoop, Return
    <3> QED
      BY <2>1, <3>1, <3>2 DEF NextFaultsKnown, NoFaultSoFar
  <2>3. CASE ~Beyond(i)
    <3>1. pc' = "root" /\ i' = i + 1 /\ ret' = ret
      BY <2>1, <2>3 DEF OuterLoop
    <3> QED
      BY <1>1, <2>1, <3>1 DEF NextFaultsKnown, NoFaultSoFar
  <2> QED
    BY <2>2, <2>3
<1> QED
  BY <1>2, <1>3, <1>4

LEMMA EndsKnowFaults ==
    ASSUME Typed, FaultsKnown, RootLoopEnds \/ ListEnds \/ EntryEnds
    PROVE  NextFaultsKnown
<1>1. pc # "done" /\ pc' # "done" /\ i' = i /\ ret' = ret
  BY DEF RootLoopEnds, ListEnds, EntryEnds, ListFields, Typed, TypeOK
<1> QED
  BY <1>1 DEF FaultsKnown, NextFaultsKnown, NoFaultSoFar

LEMMA ScalarKnowsFaults ==
    ASSUME IsDocument, Typed, r \in Nat, OnCourse, FaultsKnown, Scalar
    PROVE  NextFaultsKnown
<1>1. pc = "root" /\ size > 0 /\ At(i).word \in ScalarFields /\ ret = "none" /\ ~Faulty(i)
  BY DEF Scalar, AtField, FaultsKnown, NoFaultSoFar
<1>2. i \in Nat /\ i + 1 < r /\ Role(i) = "key"
  BY <1>1, AtKey
<1>3. CASE ValueRejected(CheckedScalars)
  <2>1. KeyFault(i) /\ pc' = "done" /\ ret' = "-2"
    BY <1>3 DEF ValueRejected, KeyFault, FaultAt, Return
  <2>2. Faulty(r)
    BY <1>2, <2>1, FaultInOrder
  <2> QED
    BY <2>1, <2>2 DEF NextFaultsKnown, NoFaultSoFar
<1>4. CASE ValueAccepted(CheckedScalars) /\ ~ValueRejected(CheckedScalars)
  <2>1. ~KeyFault(i)
    BY <1>1, <1>4 DEF ValueAccepted, KeyFault, FaultAt
  <2>2. ~Faulty(i + 2)
    BY <1>1, <2>1, PastKey
  <2>3. ~ValueMissing
    BY <1>2 DEF ValueMissing, Beyond
  <2>4. CASE Beyond(i + 1)
    <3>1. r = i + 2
      BY <1>2, <2>4 DEF Beyond
    <3>2. pc' = "done" /\ ret' = "JSMN_ERROR_INVAL"
      BY <1>4, <2>3, <2>4 DEF Scalar, Return
    <3> QED
      BY <2>2, <3>1, <3>2 DEF NextFaultsKnown, NoFaultSoFar
  <2>5. CASE ~Beyond(i + 1)
    <3>1. pc' = pc /\ i' = i + 2 /\ ret' = ret
      BY <1>4, <2>3, <2>5 DEF Scalar
    <3> QED
      BY <1>1, <2>2, <3>1 DEF NextFaultsKnown, NoFaultSoFar
  <2> QED
    BY <2>4, <2>5
<1>5. ~ValueMissing
  BY <1>2 DEF ValueMissing, Beyond
<1> QED
  BY <1>3, <1>4, <1>5 DEF Scalar

LEMMA ListKnowsFaults ==
    ASSUME IsDocument, Typed, r \in Nat, OnCourse, FaultsKnown, List
    PROVE  NextFaultsKnown
<1>1. pc = "root" /\ size > 0 /\ At(i).word \in ListFields /\ ret = "none" /\ ~Faulty(i)
  BY DEF List, AtField, FaultsKnown, NoFaultSoFar
<1>2. i \in Nat /\ i + 1 < r
  BY <1>1, AtKey
<1>3. ~KeyFault(i)
  BY <1>1 DEF KeyFault, FaultAt, CheckedScalars, ListFields
<1>4. ~Faulty(i + 2)
  BY <1>1, <1>3, PastKey
<1>5. ~Beyond(i)
  BY <1>2 DEF Beyond
<1>6. CASE Beyond(i + 1)
  <2>1. r = i + 2
    BY <1>2, <1>6 DEF Beyond
  <2>2. pc' = "done" /\ ret' = "JSMN_ERROR_INVAL"
    BY <1>6 DEF List, Return
  <2> QED
    BY <1>4, <2>1, <2>2 DEF NextFaultsKnown, NoFaultSoFar
<1>7. CASE ~Beyond(i + 1)
  <2>1. pc' \in ListFields /\ i' = i + 2 /\ ret' = ret
    BY <1>1, <1>5, <1>7 DEF List
  <2> QED
    BY <1>1, <1>4, <2>1 DEF NextFaultsKnown, NoFaultSoFar, ListFields
<1> QED
  BY <1>6, <1>7

LEMMA HeadKnowsFaults ==
    ASSUME IsDocument, Typed, r \in Nat, OnCourse, FaultsKnown, Item \/ Transaction
    PROVE  NextFaultsKnown
<1>1. pc \in ListFields /\ items > 0
  BY DEF Item, Transaction, ListFields
<1>2. ret = "none" /\ ~Faulty(i)
  BY <1>1 DEF FaultsKnown, NoFaultSoFar, ListFields
<1>3. i \in Nat /\ i < r /\ Role(i) \in ListFields
  BY <1>1, AtHead
<1>4. ~Faulty(i + 1)
  BY <1>2, <1>3, NoFaultBetween DEF ListFields
<1>5. CASE Beyond(i)
  <2>1. r = i + 1
    BY <1>3, <1>5 DEF Beyond
  <2>2. pc' = "done" /\ ret' = "JSMN_ERROR_INVAL"
    BY <1>5 DEF Item, Transaction, Return
  <2> QED
    BY <1>4, <2>1, <2>2 DEF NextFaultsKnown, NoFaultSoFar
<1>6. CASE ~Beyond(i)
  <2>1. pc' = "entry" /\ i' = i + 1 /\ ret' = ret
    BY <1>6 DEF Item, Transaction, EnterEntry
  <2> QED
    BY <1>2, <1>4, <2>1 DEF NextFaultsKnown, NoFaultSoFar
<1> QED
  BY <1>5, <1>6

LEMMA EntryFieldKnowsFaults ==
    ASSUME IsDocument, Typed, r \in Nat, OnCourse, FaultsKnown, EntryField
    PROVE  NextFaultsKnown
<1>1. /\ pc = "entry" /\ entries > 0 /\ At(i).word \in EntryFields[list]
      /\ ret = "none" /\ ~Faulty(i)
  BY DEF EntryField, FaultsKnown, NoFaultSoFar
<1>2. /\ i \in Nat /\ i + 1 < r /\ list \in ListFields /\ Role(i) = "entry_key"
      /\ InEntry(list, i)
  BY <1>1, AtEntryKey
<1>3. CASE ValueRejected(CheckedEntryFields[list])
  <2>1. EntryFault(list, i) /\ pc' = "done" /\ ret' = "-2"
    BY <1>3 DEF ValueRejected, EntryFault, FaultAt, Return
  <2>2. Faulty(r)
    BY <1>2, <2>1, FaultInEntry
  <2> QED
    BY <2>1, <2>2 DEF NextFaultsKnown, NoFaultSoFar
<1>4. ~ValueMissing
  BY <1>2 DEF ValueMissing, Beyond
<1>5. CASE ValueAccepted(CheckedEntryFields[list]) /\ ~ValueRejected(CheckedEntryFields[list])
  <2>1. ~EntryFault(list, i)
    BY <1>1, <1>5 DEF ValueAccepted, EntryFault, FaultAt
  <2>2. ~Faulty(i + 2)
    BY <1>1, <2>1, PastEntryKey
  <2>3. CASE Beyond(i + 1)
    <3>1. r = i + 2
      BY <1>2, <2>3 DEF Beyond
    <3>2. pc' = "done" /\ ret' = "JSMN_ERROR_INVAL"
      BY <1>4, <1>5, <2>3 DEF EntryField, Return
    <3> QED
      BY <2>2, <3>1, <3>2 DEF NextFaultsKnown, NoFaultSoFar
  <2>4. CASE ~Beyond(i + 1)
    <3>1. pc' = pc /\ i' = i + 2 /\ ret' = ret
      BY <1>4, <1>5, <2>4 DEF EntryField
    <3> QED
      BY <1>1, <2>2, <3>1 DEF NextFaultsKnown, NoFaultSoFar
  <2> QED
    BY <2>3, <2>4
<1> QED
  BY <1>3, <1>4, <1>5 DEF EntryField

LEMMA UnknownKnowsFaults ==
    ASSUME IsDocument, Typed, r \in Nat, OnCourse, UnknownField \/ UnknownEntryField
    PROVE  NextFaultsKnown
<1>1. pc' = "done" /\ ret' = "-2"
  BY DEF UnknownField, UnknownEntryField, Return
<1>2. CASE UnknownField
  <2>1. pc = "root" /\ size > 0 /\ KeyFault(i)
    BY <1>2 DEF UnknownField, KeyFault, FaultAt
  <2>2. i \in Nat /\ i < r /\ Role(i) = "key"
    BY <2>1, AtKey
  <2>3. Faulty(r)
    BY <2>1, <2>2, FaultInOrder
  <2> QED
    BY <1>1, <2>3 DEF NextFaultsKnown, NoFaultSoFar
<1>3. CASE UnknownEntryField
  <2>1. pc = "entry" /\ entries > 0 /\ EntryFault(list, i)
    BY <1>3 DEF UnknownEntryField, EntryFault, FaultAt
  <2>2. /\ i \in Nat /\ i < r /\ Role(i) = "entry_key" /\ list \in ListFields
        /\ InEntry(list, i)
    BY <2>1, AtEntryKey
  <2>3. Faulty(r)
    BY <2>1, <2>2, FaultInEntry
  <2> QED
    BY <1>1, <2>3 DEF NextFaultsKnown, NoFaultSoFar
<1> QED
  BY <1>2, <1>3

LEMMA StepKnowsFaults ==
    ASSUME Typed, IsDocument => OnCourse, IsDocument => FaultsKnown, [Next]_vars
    PROVE  (IsDocument => FaultsKnown)'
<1>1. r \in Nat
  BY DEF Typed, TypeOK, Input, r, tokens
<1>2. UNCHANGED input
  BY DEF vars, Next, Parse, OuterLoop, RootLoopEnds, Scalar, List, UnknownField,
         ListEnds, Item, Transaction, EntryField, UnknownEntryField,
         EntryEnds, ValueMissing, ValueRejected
<1>3. IsDocument' = IsDocument
  BY <1>2 DEF IsDocument, InOrder, SizesMatch, Children, EntryOf, Span, Role, At, r, tokens
<1>4. NextFaultsKnown => FaultsKnown'
  <2>1. \A n : Faulty(n)' = Faulty(n)
    BY <1>2 DEF Faulty, FaultAt, Heads, EntryOf, Span, Role, At, r, tokens
  <2>2. r' = r
    BY <1>2 DEF r, tokens
  <2>3. Faulty(r)' = Faulty(r)
    BY <1>2 DEF Faulty, FaultAt, Heads, EntryOf, Span, Role, At, r, tokens
  <2> QED
    BY <2>1, <2>3 DEF NextFaultsKnown, FaultsKnown, NoFaultSoFar
<1>5. ASSUME IsDocument PROVE NextFaultsKnown
  <2>1. CASE UNCHANGED vars
    BY <1>5, <2>1 DEF vars, FaultsKnown, NextFaultsKnown, NoFaultSoFar
  <2>2. CASE Next
    BY <1>1, <1>5, <2>2, ParseKnowsFaults, OuterLoopKnowsFaults, EndsKnowFaults,
       ScalarKnowsFaults, ListKnowsFaults, HeadKnowsFaults, EntryFieldKnowsFaults,
       UnknownKnowsFaults DEF Next
  <2> QED
    BY <2>1, <2>2
<1> QED
  BY <1>3, <1>4, <1>5

LEMMA InitKnowsFaults == Init => FaultsKnown
<1>1. ~Faulty(0)
  BY DEF Faulty, Heads
<1> QED
  BY <1>1 DEF Init, FaultsKnown, NoFaultSoFar

(* A document of any size is objected to exactly if it has a field that is *)
(* not known, or a value that is not accepted and is to be checked.        *)
THEOREM FindsFaults == Spec => []ObjectsToFaults
<1>1. (IsDocument => FaultsKnown) => ObjectsToFaults
  BY DEF FaultsKnown, NoFaultSoFar, ObjectsToFaults
<1> QED
  BY <1>1, InitOnCourse, StepOnCourse, InitKnowsFaults, StepKnowsFaults, TypedInvariant,
     PTL DEF Spec

(* What the walk makes of a document of any size: all that it says is in   *)
(* je, or it is objected to, for a fault that is there.                    *)
THEOREM ReadsOrder == Spec => []OrderIsRead
BY FindsAll, FindsFaults, PTL DEF OrderIsRead

=============================================================================
