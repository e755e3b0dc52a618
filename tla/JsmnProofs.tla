----------------------------- MODULE JsmnProofs -----------------------------
(***************************************************************************)
(* Theorems about the tokenizer, for texts and arrays of any length; and   *)
(* about what validate_json makes of the text of an order.                 *)
(***************************************************************************)
EXTENDS BodyReading, FiniteSetTheorems, SequenceTheorems, WellFoundedInduction, TLAPS

-----------------------------------------------------------------------------
(* The greatest element of a set of indexes.  That there is one follows    *)
(* from the well-foundedness of < on the natural numbers.                  *)

LEMMA LeastOf ==
    ASSUME NEW R, IsWellFoundedOn(R, Nat),
           \A x, y \in Nat : y < x => <<y, x>> \in R,
           NEW S \in SUBSET Nat, S # {}
    PROVE  \E x \in S : \A y \in S : x <= y
<1>1. \E x \in S : \A y \in S : <<y, x>> \notin R
  BY WFMin
<1>2. PICK x \in S : \A y \in S : <<y, x>> \notin R
  BY <1>1
<1>3. \A y \in S : x <= y
  <2> SUFFICES ASSUME NEW y \in S PROVE x <= y
    OBVIOUS
  <2>1. x \in Nat /\ y \in Nat /\ <<y, x>> \notin R
    BY <1>2
  <2>2. ~(y < x)
    BY <2>1
  <2> QED
    BY <2>1, <2>2
<1> QED
  BY <1>3

LEMMA LeastExists ==
    ASSUME NEW S \in SUBSET Nat, S # {}
    PROVE  \E x \in S : \A y \in S : x <= y
<1> DEFINE R == OpToRel(<, Nat)
<1>1. IsWellFoundedOn(R, Nat)
  BY NatLessThanWellFounded
<1>2. \A x, y \in Nat : y < x => <<y, x>> \in R
  BY DEF OpToRel
<1> HIDE DEF R
<1> QED
  BY <1>1, <1>2, LeastOf

LEMMA MaxOfIndexes ==
    ASSUME NEW n \in Nat, NEW S \in SUBSET (0..(n - 1)), S # {}
    PROVE  Max(S) \in S /\ \A y \in S : y <= Max(S)
<1> DEFINE T == {n - s : s \in S}
<1>1. T \in SUBSET Nat /\ T # {}
  <2>1. \A s \in S : n - s \in Nat
    OBVIOUS
  <2>2. PICK s \in S : TRUE
    OBVIOUS
  <2>3. n - s \in T
    BY <2>2
  <2> QED
    BY <2>1, <2>3
<1>2. PICK t \in T : \A u \in T : t <= u
  BY <1>1, LeastExists
<1>3. PICK x \in S : t = n - x
  BY <1>2
<1>4. \A y \in S : x >= y
  BY <1>2, <1>3
<1>5. Max(S) \in S /\ \A y \in S : Max(S) >= y
  BY <1>4 DEF Max
<1> QED
  BY <1>5

LEMMA LastOfIndexes ==
    ASSUME NEW n \in Nat, NEW S \in SUBSET (0..(n - 1))
    PROVE  LastOf(S) \in -1..(n - 1) /\ \A y \in S : y <= LastOf(S)
<1>1. CASE S = {}
  BY <1>1 DEF LastOf
<1>2. CASE S # {}
  <2>1. Max(S) \in S /\ \A y \in S : y <= Max(S)
    BY <1>2, MaxOfIndexes
  <2>2. LastOf(S) = Max(S)
    BY <1>2 DEF LastOf
  <2>3. Max(S) \in 0..(n - 1)
    BY <2>1
  <2> QED
    BY <2>1, <2>2, <2>3
<1> QED
  BY <1>1, <1>2

-----------------------------------------------------------------------------
(* What is known of the array at every moment: it holds as many tokens as  *)
(* were counted, and toksuper is not below what is open.                   *)
Counters ==
    /\ input \in Input
    /\ pos \in 0..Len(text)
    /\ tokens \in Seq(Token)
    /\ toknext <= input.limit
    /\ toksuper \in -1..(toknext - 1)
    /\ count = toknext
    /\ ret \in {"none", "ok", "JSMN_ERROR_NOMEM", "JSMN_ERROR_INVAL",
                "JSMN_ERROR_PART"}

IInv == Counters /\ NothingOpenAbove

LEMMA Lengths == Counters => toknext \in Nat /\ Len(text) \in Nat /\ pos \in Nat
BY DEF Counters, Input, toknext, text

LEMMA UnclosedIndexes ==
    ASSUME NEW ts \in Seq(Token)
    PROVE  Unclosed(ts) \in SUBSET (0..(Len(ts) - 1))
BY DEF Unclosed

(* A child more: the tokens stay tokens, and what is open stays open.      *)
LEMMA CountedTokens ==
    ASSUME Counters
    PROVE  /\ Counted(tokens) \in Seq(Token)
           /\ Len(Counted(tokens)) = toknext
           /\ \A k \in 1..toknext :
                 /\ Counted(tokens)[k].start = tokens[k].start
                 /\ Counted(tokens)[k].end = tokens[k].end
                 /\ Counted(tokens)[k].type = tokens[k].type
                 /\ Counted(tokens)[k].size = tokens[k].size +
                       (IF k = toksuper + 1 THEN 1 ELSE 0)
<1>0. \A k \in 1..toknext : tokens[k].size \in Nat
  <2>1. \A k \in 1..toknext : tokens[k] \in Token
    BY DEF Counters, toknext
  <2> QED
    BY <2>1 DEF Token
<1>1. CASE toksuper = -1
  BY <1>0, <1>1 DEF Counted, Counters, toknext
<1>2. CASE toksuper # -1
  <2>1. toksuper + 1 \in 1..toknext
    BY <1>2, Lengths DEF Counters
  <2>2. tokens[toksuper + 1] \in Token
    BY <2>1 DEF Counters, toknext
  <2>3. [tokens[toksuper + 1] EXCEPT !.size = @ + 1] \in Token
    BY <2>2 DEF Token
  <2>4. Counted(tokens) = [tokens EXCEPT ![toksuper + 1] =
                              [tokens[toksuper + 1] EXCEPT !.size = @ + 1]]
    BY <1>2 DEF Counted
  <2>5. LET t == tokens[toksuper + 1]
        IN  /\ [t EXCEPT !.size = @ + 1].start = t.start
            /\ [t EXCEPT !.size = @ + 1].end = t.end
            /\ [t EXCEPT !.size = @ + 1].type = t.type
            /\ [t EXCEPT !.size = @ + 1].size = t.size + 1
    BY <2>2 DEF Token
  <2> DEFINE i == toksuper + 1
             r == [tokens[i] EXCEPT !.size = @ + 1]
  <2>6. i \in 1..toknext /\ r \in Token /\ Counted(tokens) = [tokens EXCEPT ![i] = r]
    BY <2>1, <2>3, <2>4
  <2>7. /\ r.start = tokens[i].start /\ r.end = tokens[i].end
        /\ r.type = tokens[i].type /\ r.size = tokens[i].size + 1
    BY <2>5
  <2> HIDE DEF i, r
  <2>8. /\ Counted(tokens) \in Seq(Token) /\ Len(Counted(tokens)) = toknext
        /\ \A k \in 1..toknext : Counted(tokens)[k] = IF k = i THEN r ELSE tokens[k]
    BY <2>6 DEF Counters, toknext
  <2>9. \A k \in 1..toknext : Counted(tokens)[k].size = tokens[k].size +
                               (IF k = i THEN 1 ELSE 0)
    BY <1>0, <2>7, <2>8
  <2> QED
    BY <2>7, <2>8, <2>9 DEF i
<1> QED
  BY <1>1, <1>2

LEMMA AddedToken ==
    ASSUME Counters, NEW S, Reads(S),
           S \subseteq {"lbrace", "lbracket", "string", "primitive"},
           NEW end \in Nat \cup {-1}, NewToken(end)
    PROVE  /\ tokens' \in Seq(Token)
           /\ toknext' = toknext + 1
           /\ Unclosed(tokens') \subseteq Unclosed(tokens) \cup {toknext}
           /\ end # -1 => Unclosed(tokens') \subseteq Unclosed(tokens)
           /\ Unclosed(tokens) \subseteq Unclosed(tokens')
           /\ end = -1 => toknext \in Unclosed(tokens')
           /\ \A k \in 0..(toknext - 1) : tokens'[k + 1].type = At(k).type
           /\ tokens'[toknext + 1].type = TypeOf[Symbol]
           /\ \A k \in 0..(toknext - 1) :
                 tokens'[k + 1].size = At(k).size + (IF k = toksuper THEN 1 ELSE 0)
           /\ tokens'[toknext + 1].size = 0
           /\ \A k \in 0..(toknext - 1) :
                 tokens'[k + 1].start = At(k).start /\ tokens'[k + 1].end = At(k).end
           /\ tokens'[toknext + 1].start = pos /\ tokens'[toknext + 1].end = end
<1> DEFINE t == [type |-> TypeOf[Symbol], start |-> pos, end |-> end, size |-> 0]
           ts == Counted(tokens)
<1>0. toknext \in Nat /\ pos \in Nat
  BY Lengths
<1>1. t \in Token
  <2>1. Symbol \in {"lbrace", "lbracket", "string", "primitive"}
    BY DEF Reads, Symbol
  <2>2. TypeOf[Symbol] \in Types
    BY <2>1 DEF TypeOf, Types
  <2> QED
    BY <1>0, <2>2 DEF Token
<1>2. tokens' = Append(ts, t)
  BY DEF NewToken
<1>3. /\ ts \in Seq(Token) /\ Len(ts) = toknext
      /\ \A k \in 1..toknext : ts[k].end = tokens[k].end /\ ts[k].type = tokens[k].type
                                /\ ts[k].start = tokens[k].start
      /\ \A k \in 1..toknext : ts[k].size = tokens[k].size +
                                (IF k = toksuper + 1 THEN 1 ELSE 0)
  BY CountedTokens
<1>4. t.start = pos /\ t.end = end /\ t.type = TypeOf[Symbol] /\ t.size = 0
  OBVIOUS
<1> HIDE DEF t, ts
<1>5. tokens' \in Seq(Token) /\ Len(tokens') = toknext + 1
      /\ (\A k \in 1..toknext : tokens'[k] = ts[k]) /\ tokens'[toknext + 1] = t
  BY <1>0, <1>1, <1>2, <1>3, AppendProperties
<1>6. \A k \in 0..(toknext - 1) : tokens'[k + 1].end = tokens[k + 1].end
  BY <1>0, <1>3, <1>5
<1>7. \A k \in Unclosed(tokens') : k \in 0..toknext /\ tokens'[k + 1].end = -1
  BY <1>0, <1>5 DEF Unclosed
<1>8. \A k \in Unclosed(tokens') : k # toknext => k \in Unclosed(tokens)
  <2> SUFFICES ASSUME NEW k \in Unclosed(tokens'), k # toknext
               PROVE  k \in Unclosed(tokens)
    OBVIOUS
  <2>1. k \in 0..(toknext - 1) /\ tokens'[k + 1].end = -1
    BY <1>0, <1>7
  <2>2. tokens[k + 1].end = -1
    BY <1>6, <2>1
  <2> QED
    BY <2>1, <2>2 DEF Unclosed, toknext
<1>9. end # -1 => toknext \notin Unclosed(tokens')
  BY <1>4, <1>5, <1>7
<1>10. Unclosed(tokens) \subseteq Unclosed(tokens')
  <2> SUFFICES ASSUME NEW k \in Unclosed(tokens) PROVE k \in Unclosed(tokens')
    OBVIOUS
  <2>1. k \in 0..(toknext - 1) /\ tokens[k + 1].end = -1
    BY DEF Unclosed, toknext
  <2>2. k \in 0..(Len(tokens') - 1) /\ tokens'[k + 1].end = -1
    BY <1>0, <1>5, <1>6, <2>1
  <2> QED
    BY <2>2 DEF Unclosed
<1>11. end = -1 => toknext \in Unclosed(tokens')
  BY <1>0, <1>4, <1>5 DEF Unclosed
<1>12. \A k \in 0..(toknext - 1) : tokens'[k + 1].type = At(k).type
  BY <1>0, <1>3, <1>5 DEF At
<1>13. tokens'[toknext + 1].type = TypeOf[Symbol]
  BY <1>4, <1>5
<1>14. tokens'[toknext + 1].size = 0
  BY <1>4, <1>5
<1>15. ASSUME NEW k \in 0..(toknext - 1)
       PROVE  tokens'[k + 1].size = At(k).size + (IF k = toksuper THEN 1 ELSE 0)
  <2>1. k + 1 \in 1..toknext /\ toksuper \in Int
    BY <1>0 DEF Counters
  <2>2. k = toksuper <=> k + 1 = toksuper + 1
    BY <2>1
  <2> QED
    BY <1>3, <1>5, <2>1, <2>2 DEF At
<1>16. \A k \in 0..(toknext - 1) :
          tokens'[k + 1].start = At(k).start /\ tokens'[k + 1].end = At(k).end
  BY <1>0, <1>3, <1>5 DEF At
<1>17. tokens'[toknext + 1].start = pos /\ tokens'[toknext + 1].end = end
  BY <1>4, <1>5
<1> QED
  BY <1>5, <1>8, <1>9, <1>10, <1>11, <1>12, <1>13, <1>14, <1>15, <1>16, <1>17 DEF toknext

(* The other side of a new token: the counters move with it.               *)
LEMMA AddedCounters ==
    ASSUME Counters, NEW S, Reads(S),
           S \subseteq {"lbrace", "lbracket", "string", "primitive"},
           NEW end \in Nat \cup {-1}, NewToken(end),
           toksuper' \in -1..toknext
    PROVE  Counters'
<1>1. tokens' \in Seq(Token) /\ toknext' = toknext + 1
  BY AddedToken
<1>2. toknext \in Nat /\ pos \in Nat /\ Len(text) \in Nat /\ input.limit \in Nat
  BY Lengths DEF Counters, Input
<1>3. pos < Len(text) /\ toknext < input.limit /\ UNCHANGED <<input, ret>>
      /\ pos' = pos + 1 /\ count' = count + 1
  BY DEF Reads, NewToken
<1>4. Len(text)' = Len(text)
  BY <1>3 DEF text
<1>5. pos' \in 0..Len(text)'
  BY <1>2, <1>3, <1>4
<1>6. toknext' <= input'.limit
  BY <1>1, <1>2, <1>3
<1>7. toksuper' \in -1..(toknext' - 1)
  BY <1>1, <1>2
<1>8. count' = toknext'
  BY <1>1, <1>3 DEF Counters
<1> QED
  BY <1>1, <1>3, <1>5, <1>6, <1>7, <1>8 DEF Counters

(* A symbol that leaves the tokens alone.                                  *)
LEMMA Moved ==
    ASSUME Counters, NEW S, Reads(S), pos' = pos + 1,
           UNCHANGED <<input, tokens, count, ret>>,
           toksuper' \in -1..(toknext - 1),
           \A k \in Unclosed(tokens) : k <= toksuper'
    PROVE  IInv'
<1>1. toknext \in Nat /\ pos \in Nat /\ Len(text) \in Nat /\ pos < Len(text)
  BY Lengths DEF Reads
<1>2. Len(text)' = Len(text) /\ toknext' = toknext
  BY DEF text, toknext
<1>3. pos' \in 0..Len(text)'
  BY <1>1, <1>2
<1> QED
  BY <1>2, <1>3 DEF IInv, Counters, NothingOpenAbove

LEMMA Step ==
    ASSUME IInv, [Next]_vars
    PROVE  IInv'
<1>0. Counters /\ NothingOpenAbove /\ toknext \in Nat /\ pos \in Nat
      /\ Unclosed(tokens) \in SUBSET (0..(toknext - 1))
  BY Lengths, UnclosedIndexes DEF IInv, Counters, toknext
<1>1. CASE UNCHANGED vars
  BY <1>0, <1>1 DEF IInv, vars, Counters, NothingOpenAbove, toknext, text
<1>2. CASE Open
  <2>1. Reads({"lbrace", "lbracket"}) /\ NewToken(-1) /\ toksuper' = toknext
    BY <1>2 DEF Open
  <2>2. -1 \in Nat \cup {-1} /\ {"lbrace", "lbracket"} \subseteq {"lbrace", "lbracket", "string", "primitive"}
    OBVIOUS
  <2>3. Unclosed(tokens') \subseteq Unclosed(tokens) \cup {toknext}
    BY <1>0, <2>1, <2>2, AddedToken
  <2>4. toksuper' \in -1..toknext
    BY <1>0, <2>1
  <2>5. Counters'
    BY <1>0, <2>1, <2>2, <2>4, AddedCounters
  <2>6. NothingOpenAbove'
    BY <1>0, <2>1, <2>3 DEF NothingOpenAbove
  <2> QED
    BY <2>5, <2>6 DEF IInv
<1>3. CASE Value
  <2>1. Reads({"string", "primitive"}) /\ NewToken(pos + 1) /\ toksuper' = toksuper
    BY <1>3 DEF Value
  <2>2. pos + 1 \in Nat \cup {-1} /\ pos + 1 # -1
    BY <1>0
  <2>3. Unclosed(tokens') \subseteq Unclosed(tokens)
    BY <1>0, <2>1, <2>2, AddedToken
  <2>4. toksuper' \in -1..toknext
    BY <1>0, <2>1 DEF Counters
  <2>5. Counters'
    BY <1>0, <2>1, <2>2, <2>4, AddedCounters
  <2>6. NothingOpenAbove'
    BY <1>0, <2>1, <2>3 DEF NothingOpenAbove
  <2> QED
    BY <2>5, <2>6 DEF IInv
<1>4. CASE NoMemory \/ BadValue \/ End
  BY <1>0, <1>4 DEF NoMemory, BadValue, End, Return, IInv, Counters,
                    NothingOpenAbove, toknext, text
<1>5. CASE Close
  <2> DEFINE last == LastOf(Unclosed(tokens))
  <2>1. CASE last = -1 \/ At(last).type # TypeOf[Symbol]
    BY <1>0, <1>5, <2>1 DEF Close, Return, IInv, Counters, NothingOpenAbove,
                            toknext, text
  <2>2. CASE ~(last = -1 \/ At(last).type # TypeOf[Symbol])
    <3>1. /\ tokens' = [tokens EXCEPT ![last + 1].end = pos + 1]
          /\ toksuper' = LastOf(Unclosed(tokens'))
          /\ pos' = pos + 1
          /\ UNCHANGED <<input, count, ret>>
          /\ pos < Len(text)
      BY <1>5, <2>2 DEF Close, Reads
    <3>2. tokens' \in Seq(Token) /\ toknext' = toknext
      <4> HIDE DEF last
      <4>1. CASE last + 1 \in 1..toknext
        <5>1. tokens[last + 1] \in Token
          BY <4>1 , <1>0 DEF Counters, toknext
        <5>2. [tokens[last + 1] EXCEPT !.end = pos + 1] \in Token
          BY <1>0, <5>1 DEF Token
        <5> QED
          BY <1>0, <3>1, <4>1, <5>2 DEF Counters, toknext
      <4>2. CASE last + 1 \notin 1..toknext
        <5>1. tokens' = tokens
          BY <1>0, <3>1, <4>2 DEF Counters, toknext
        <5> QED
          BY <1>0, <5>1 DEF Counters, toknext
      <4> QED
        BY <4>1, <4>2
    <3>3. Unclosed(tokens') \in SUBSET (0..(toknext - 1))
      BY <3>2, UnclosedIndexes DEF toknext
    <3>4. toksuper' \in -1..(toknext - 1) /\ \A k \in Unclosed(tokens') : k <= toksuper'
      BY <1>0, <3>1, <3>3, LastOfIndexes
    <3>5. pos' \in 0..Len(text)'
      BY <1>0, <3>1, Lengths DEF text
    <3> QED
      BY <1>0, <3>1, <3>2, <3>4, <3>5 DEF IInv, Counters, NothingOpenAbove
  <2> QED
    BY <2>1, <2>2
<1>6. CASE Space
  <2>1. Reads({"space"}) /\ pos' = pos + 1 /\ UNCHANGED <<input, tokens, toksuper, count, ret>>
    BY <1>6 DEF Space
  <2> QED
    BY <1>0, <2>1, Moved DEF Counters, NothingOpenAbove
<1>7. CASE Colon
  <2>1. Reads({"colon"}) /\ pos' = pos + 1 /\ toksuper' = toknext - 1
        /\ UNCHANGED <<input, tokens, count, ret>>
    BY <1>7 DEF Colon
  <2>2. toksuper' \in -1..(toknext - 1) /\ \A k \in Unclosed(tokens) : k <= toksuper'
    BY <1>0, <2>1
  <2> QED
    BY <1>0, <2>1, <2>2, Moved
<1>8. CASE Comma
  <2>1. Reads({"comma"}) /\ pos' = pos + 1 /\ UNCHANGED <<input, tokens, count, ret>>
    BY <1>8 DEF Comma
  <2>2. \/ toksuper' = toksuper
        \/ toksuper' = Max(Unclosed(tokens)) /\ Unclosed(tokens) # {}
    BY <1>8 DEF Comma
  <2>3. toksuper' \in -1..(toknext - 1) /\ \A k \in Unclosed(tokens) : k <= toksuper'
    <3>1. CASE toksuper' = toksuper
      BY <1>0, <3>1 DEF Counters, NothingOpenAbove
    <3>2. CASE toksuper' = Max(Unclosed(tokens)) /\ Unclosed(tokens) # {}
      <4>1. Max(Unclosed(tokens)) \in Unclosed(tokens)
            /\ \A k \in Unclosed(tokens) : k <= Max(Unclosed(tokens))
        BY <1>0, <3>2, MaxOfIndexes
      <4> QED
        BY <1>0, <3>2, <4>1
    <3> QED
      BY <2>2, <3>1, <3>2
  <2> QED
    BY <1>0, <2>1, <2>3, Moved
<1> QED
  BY <1>1, <1>2, <1>3, <1>4, <1>5, <1>6, <1>7, <1>8 DEF Next

LEMMA Invariant == Spec => []IInv
<1>1. Init => IInv
  BY InputsAssumption DEF Init, IInv, Counters, NothingOpenAbove, Unclosed,
                          toknext, text, Input
<1> QED
  BY <1>1, Step, PTL DEF Spec

(* The tokenizer stays inside its array, also when it is full, and         *)
(* toksuper inside the part that is filled.                                *)
THEOREM StaysInArray == Spec => []TypeOK
<1>1. IInv => TypeOK
  BY Lengths DEF IInv, Counters, TypeOK
<1> QED
  BY <1>1, Invariant, PTL

(* While anything is open, toksuper is a token: the type case ',' may read *)
(* from before the array decides nothing.                                  *)
THEOREM SuperIsAbove == Spec => []NothingOpenAbove
<1>1. IInv => NothingOpenAbove
  BY DEF IInv
<1> QED
  BY <1>1, Invariant, PTL

(* jsmn_parse returns the number of tokens it filled, no more and no less: *)
(* it is the number of tokens validate_json then walks over.               *)
THEOREM ReturnsTokensFilled == Spec => []CountIsFilled
<1>1. IInv => CountIsFilled
  BY DEF IInv, Counters, CountIsFilled
<1> QED
  BY <1>1, Invariant, PTL

-----------------------------------------------------------------------------
(* The increasing enumeration of a set of indexes: it is determined by the *)
(* set, so that any enumeration that is carried along is the one Stack is  *)
(* read from.                                                              *)
Enumerates(s, n, S) ==
    /\ n \in Nat
    /\ s \in [1..n -> S]
    /\ \A x \in S : \E k \in 1..n : s[k] = x
    /\ Increasing(s)

LEMMA SameEnumeration ==
    ASSUME NEW S \in SUBSET Nat, NEW n, NEW s, NEW t,
           Enumerates(s, n, S), Enumerates(t, n, S)
    PROVE  s = t
<1> DEFINE D == {k \in 1..n : s[k] # t[k]}
<1>0. /\ n \in Nat /\ s \in [1..n -> S] /\ t \in [1..n -> S]
      /\ \A x \in S : \E k \in 1..n : s[k] = x
      /\ \A x \in S : \E k \in 1..n : t[k] = x
      /\ \A i, j \in 1..n : i < j => s[i] < s[j]
      /\ \A i, j \in 1..n : i < j => t[i] < t[j]
  BY DEF Enumerates, Increasing
<1> HIDE DEF D
<1>a. \A k \in 1..n : k \in Nat /\ s[k] \in Nat /\ t[k] \in Nat
  <2>1. \A k \in 1..n : s[k] \in S /\ t[k] \in S
    BY <1>0
  <2>2. \A x \in S : x \in Nat
    OBVIOUS
  <2>3. \A k \in 1..n : k \in Nat
    BY <1>0
  <2> QED
    BY <2>1, <2>2, <2>3
<1>1. ASSUME D # {} PROVE FALSE
  <2>1. D \in SUBSET Nat
    BY <1>0 DEF D
  <2>2. PICK k \in D : \A j \in D : k <= j
    BY <1>1, <2>1, LeastExists
  <2>3. /\ k \in 1..n /\ s[k] # t[k] /\ s[k] \in S /\ t[k] \in S
        /\ k \in Nat /\ s[k] \in Nat /\ t[k] \in Nat
    BY <1>0, <1>a, <2>2 DEF D
  <2>4. \A j \in 1..n : j < k => s[j] = t[j]
    <3> SUFFICES ASSUME NEW j \in 1..n, j < k, s[j] # t[j] PROVE FALSE
      OBVIOUS
    <3>1. j \in D /\ j \in Nat
      BY <1>a DEF D
    <3> QED
      BY <2>2, <2>3, <3>1
  <2>5. CASE s[k] < t[k]
    <3>1. PICK j \in 1..n : t[j] = s[k]
      BY <1>0, <2>3
    <3>2. j < k
      <4>1. j \in Nat /\ j # k
        BY <1>a, <2>3, <3>1
      <4>2. k < j => t[k] < t[j]
        BY <1>0, <2>3
      <4>3. ~(k < j)
        BY <2>3, <2>5, <3>1, <4>2
      <4> QED
        BY <2>3, <4>1, <4>3
    <3>3. s[j] = t[j] /\ s[j] < s[k]
      BY <1>0, <2>3, <2>4, <3>1, <3>2
    <3> QED
      BY <2>3, <3>1, <3>3
  <2>6. CASE t[k] < s[k]
    <3>1. PICK j \in 1..n : s[j] = t[k]
      BY <1>0, <2>3
    <3>2. j < k
      <4>1. j \in Nat /\ j # k
        BY <1>a, <2>3, <3>1
      <4>2. k < j => s[k] < s[j]
        BY <1>0, <2>3
      <4>3. ~(k < j)
        BY <2>3, <2>6, <3>1, <4>2
      <4> QED
        BY <2>3, <4>1, <4>3
    <3>3. s[j] = t[j] /\ t[j] < t[k]
      BY <1>0, <2>3, <2>4, <3>1, <3>2
    <3> QED
      BY <2>3, <3>1, <3>3
  <2> QED
    BY <2>3, <2>5, <2>6
<1>2. \A k \in 1..n : s[k] = t[k]
  BY <1>1 DEF D
<1> QED
  BY <1>0, <1>2

LEMMA EnumerationIs ==
    ASSUME NEW S \in SUBSET Nat, NEW n, NEW s, Enumerates(s, n, S)
    PROVE  Enumeration(S) = s
<1>1. /\ n \in Nat /\ s \in [1..n -> S]
      /\ \A x \in S : \E k \in 1..n : s[k] = x
      /\ \A i, j \in 1..n : i < j => s[i] < s[j]
  BY DEF Enumerates, Increasing
<1>2. IsInjective(s)
  <2> SUFFICES ASSUME NEW i \in 1..n, NEW j \in 1..n, s[i] = s[j] PROVE i = j
    BY <1>1 DEF IsInjective
  <2>0. s[i] \in S /\ s[j] \in S
    BY <1>1
  <2>1. i \in Nat /\ j \in Nat /\ s[i] \in Nat /\ s[j] \in Nat
    <3>1. \A x \in S : x \in Nat
      OBVIOUS
    <3>2. i \in Nat /\ j \in Nat
      BY <1>1
    <3> QED
      BY <2>0, <3>1, <3>2
  <2>2. ~(i < j) /\ ~(j < i)
    BY <1>1, <2>1
  <2> QED
    BY <2>1, <2>2
<1>3. s \in Bijection(1..n, S)
  BY <1>1, <1>2 DEF Bijection, Injection, Surjection
<1>4. Cardinality(S) = n
  BY <1>1, <1>3, FS_CountingElements DEF ExistsBijection
<1> DEFINE Q(u) == Range(u) = S /\ Increasing(u)
<1>5. \A u \in [1..n -> S] : Q(u) <=> Enumerates(u, n, S)
  BY <1>1 DEF Enumerates, Range
<1>6. Enumeration(S) = CHOOSE u \in [1..n -> S] : Q(u)
  BY <1>4 DEF Enumeration
<1>7. \E u \in [1..n -> S] : Q(u)
  BY <1>1, <1>5
<1> HIDE DEF Q
<1>8. Enumeration(S) \in [1..n -> S] /\ Q(Enumeration(S))
  BY <1>6, <1>7
<1>9. Enumerates(Enumeration(S), n, S)
  BY <1>5, <1>8
<1> QED
  BY <1>9, SameEnumeration

LEMMA EnumerationGrows ==
    ASSUME NEW S \in SUBSET Nat, NEW n, NEW s, Enumerates(s, n, S),
           NEW x \in Nat, \A y \in S : y < x
    PROVE  Enumerates([k \in 1..(n + 1) |-> IF k = n + 1 THEN x ELSE s[k]],
                      n + 1, S \cup {x})
<1> DEFINE u == [k \in 1..(n + 1) |-> IF k = n + 1 THEN x ELSE s[k]]
           U == S \cup {x}
<1>1. /\ n \in Nat /\ s \in [1..n -> S]
      /\ \A y \in S : \E k \in 1..n : s[k] = y
      /\ \A i, j \in 1..n : i < j => s[i] < s[j]
  BY DEF Enumerates, Increasing
<1>2. \A k \in 1..n : k \in 1..(n + 1) /\ u[k] = s[k] /\ u[k] \in S
  BY <1>1
<1>3. u[n + 1] = x /\ n + 1 \in 1..(n + 1) /\ n + 1 \in Nat
  BY <1>1
<1>4. \A k \in 1..(n + 1) : k \in 1..n \/ k = n + 1
  BY <1>1
<1>5. u \in [1..(n + 1) -> U]
  BY <1>1
<1> HIDE DEF u
<1>6. \A y \in U : \E k \in 1..(n + 1) : u[k] = y
  BY <1>1, <1>2, <1>3
<1>7. \A i, j \in 1..(n + 1) : i < j => u[i] < u[j]
  <2> SUFFICES ASSUME NEW i \in 1..(n + 1), NEW j \in 1..(n + 1), i < j
               PROVE  u[i] < u[j]
    OBVIOUS
  <2>1. i \in 1..n
    BY <1>1
  <2>2. CASE j \in 1..n
    BY <1>1, <1>2, <2>1, <2>2
  <2>3. CASE j = n + 1
    BY <1>2, <1>3, <2>1, <2>3
  <2> QED
    BY <1>4, <2>2, <2>3
<1> QED
  BY <1>3, <1>5, <1>6, <1>7 DEF Enumerates, Increasing, u

LEMMA EnumerationShrinks ==
    ASSUME NEW S \in SUBSET Nat, NEW n, NEW s, Enumerates(s, n, S),
           NEW x \in S, \A y \in S : y <= x
    PROVE  /\ n > 0 /\ n \in Nat /\ s[n] = x
           /\ Enumerates([k \in 1..(n - 1) |-> s[k]], n - 1, S \ {x})
<1> DEFINE u == [k \in 1..(n - 1) |-> s[k]]
           U == S \ {x}
<1>1. /\ n \in Nat /\ s \in [1..n -> S]
      /\ \A y \in S : \E k \in 1..n : s[k] = y
      /\ \A i, j \in 1..n : i < j => s[i] < s[j]
  BY DEF Enumerates, Increasing
<1>2. PICK m \in 1..n : s[m] = x
  BY <1>1
<1>3. m = n
  <2>1. m \in Nat /\ m <= n /\ m > 0
    BY <1>1
  <2>2. n \in 1..n
    BY <1>1, <2>1
  <2>3. s[n] \in S /\ s[n] \in Nat /\ x \in Nat /\ s[n] <= x
    BY <1>1, <2>2
  <2>4. m < n => s[m] < s[n]
    BY <1>1, <2>2
  <2> QED
    BY <1>1, <1>2, <2>1, <2>3, <2>4
<1>4. n > 0 /\ n - 1 \in Nat /\ s[n] = x
  BY <1>1, <1>2, <1>3
<1>5. \A k \in 1..(n - 1) : k \in 1..n /\ u[k] = s[k] /\ s[k] < s[n]
  BY <1>1, <1>4
<1>6. u \in [1..(n - 1) -> U]
  BY <1>1, <1>4, <1>5
<1> HIDE DEF u
<1>7. \A y \in U : \E k \in 1..(n - 1) : u[k] = y
  <2> SUFFICES ASSUME NEW y \in U PROVE \E k \in 1..(n - 1) : u[k] = y
    OBVIOUS
  <2>1. PICK k \in 1..n : s[k] = y
    BY <1>1
  <2>2. k # n
    BY <1>4, <2>1
  <2>3. k \in 1..(n - 1)
    BY <1>1, <2>1, <2>2
  <2> QED
    BY <1>5, <2>1, <2>3
<1>8. \A i, j \in 1..(n - 1) : i < j => u[i] < u[j]
  BY <1>1, <1>5
<1> QED
  BY <1>1, <1>4, <1>6, <1>7, <1>8 DEF Enumerates, Increasing, u

-----------------------------------------------------------------------------
(* Jsmn implements Brackets.                                               *)

LEMMA StackIs ==
    ASSUME NEW ts \in Seq(Token), NEW n, NEW s, Enumerates(s, n, Unclosed(ts))
    PROVE  StackOf(ts) = [k \in 1..n |-> SymbolOf(ts[s[k] + 1].type)]
<1>1. Unclosed(ts) \in SUBSET Nat
  <2>1. Unclosed(ts) \in SUBSET (0..(Len(ts) - 1))
    BY UnclosedIndexes
  <2> QED
    BY <2>1
<1>2. Enumeration(Unclosed(ts)) = s
  BY <1>1, EnumerationIs
<1>3. DOMAIN s = 1..n
  BY DEF Enumerates
<1> QED
  BY <1>2, <1>3 DEF StackOf

Listed(f, n) == f = [k \in 1..n |-> f[k]]

LEMMA AppendIs ==
    ASSUME NEW n \in Nat, NEW f, NEW g, NEW e,
           Listed(f, n), Listed(g, n + 1),
           \A k \in 1..n : g[k] = f[k], g[n + 1] = e
    PROVE  g = Append(f, e)
<1> DEFINE S == {f[k] : k \in 1..n} \cup {e}
           h == Append(f, e)
<1>1. \A k \in 1..n : f[k] \in S
  OBVIOUS
<1>2. e \in S
  OBVIOUS
<1> HIDE DEF S
<1>3. f \in [1..n -> S]
  BY <1>1 DEF Listed
<1>4. f \in Seq(S) /\ Len(f) = n
  <2>1. f \in Seq(S)
    BY <1>3, SeqDef
  <2>2. Len(f) \in Nat /\ 1..Len(f) = 1..n
    BY <1>3, <2>1, LenProperties
  <2> QED
    BY <2>1, <2>2
<1>5. /\ h \in Seq(S) /\ Len(h) = n + 1
      /\ \A k \in 1..n : h[k] = f[k]
      /\ h[n + 1] = e
  BY <1>2, <1>4, AppendProperties
<1> HIDE DEF h
<1>6. h = [k \in 1..(n + 1) |-> h[k]]
  BY <1>5
<1>7. \A k \in 1..(n + 1) : k \in 1..n \/ k = n + 1
  OBVIOUS
<1>8. \A k \in 1..(n + 1) : h[k] = g[k]
  BY <1>5, <1>7
<1>9. h = g
  BY <1>6, <1>8 DEF Listed
<1> QED
  BY <1>9 DEF h

LEMMA FrontIs ==
    ASSUME NEW n \in Nat, n > 0, NEW f, NEW g,
           Listed(f, n), Listed(g, n - 1),
           \A k \in 1..(n - 1) : g[k] = f[k]
    PROVE  g = SubSeq(f, 1, Len(f) - 1)
<1> DEFINE S == {f[k] : k \in 1..n}
           h == SubSeq(f, 1, n - 1)
<1>1. \A k \in 1..n : f[k] \in S
  OBVIOUS
<1> HIDE DEF S
<1>2. f \in [1..n -> S]
  BY <1>1 DEF Listed
<1>3. f \in Seq(S) /\ Len(f) = n
  BY <1>2
<1>4. h = [k \in 1..(n - 1) |-> f[k]]
  BY <1>3
<1>5. h = g
  BY <1>4 DEF Listed
<1> QED
  BY <1>3, <1>5

(* The type of an open token is that of a container.                       *)
OpenAreContainers == \A i \in Unclosed(tokens) : At(i).type \in Containers

Enumerable(ts) == \E n, s : Enumerates(s, n, Unclosed(ts))

SameTypes(ts, us, S) == \A i \in S : us[i + 1].type = ts[i + 1].type

LEMMA SameStack ==
    ASSUME NEW ts \in Seq(Token), NEW us \in Seq(Token), Enumerable(ts),
           Unclosed(us) = Unclosed(ts), SameTypes(ts, us, Unclosed(ts))
    PROVE  StackOf(us) = StackOf(ts) /\ Enumerable(us)
<1>1. PICK n, s : Enumerates(s, n, Unclosed(ts))
  BY DEF Enumerable
<1>2. \A k \in 1..n : s[k] \in Unclosed(ts)
  BY <1>1 DEF Enumerates
<1>3. /\ StackOf(ts) = [k \in 1..n |-> SymbolOf(ts[s[k] + 1].type)]
      /\ StackOf(us) = [k \in 1..n |-> SymbolOf(us[s[k] + 1].type)]
  BY <1>1, StackIs
<1>4. \A k \in 1..n : us[s[k] + 1].type = ts[s[k] + 1].type
  BY <1>2 DEF SameTypes
<1> QED
  BY <1>1, <1>3, <1>4 DEF Enumerable

LEMMA EmptyStack ==
    ASSUME NEW ts \in Seq(Token), Enumerable(ts)
    PROVE  StackOf(ts) = <<>> <=> Unclosed(ts) = {}
<1>1. PICK n, s : Enumerates(s, n, Unclosed(ts))
  BY DEF Enumerable
<1>2. /\ n \in Nat /\ s \in [1..n -> Unclosed(ts)]
      /\ \A x \in Unclosed(ts) : \E k \in 1..n : s[k] = x
  BY <1>1 DEF Enumerates
<1>3. StackOf(ts) = [k \in 1..n |-> SymbolOf(ts[s[k] + 1].type)]
  BY <1>1, StackIs
<1>4. Unclosed(ts) = {} <=> n = 0
  <2>1. n # 0 => 1 \in 1..n
    BY <1>2
  <2> QED
    BY <1>2, <2>1
<1>5. StackOf(ts) = <<>> <=> n = 0
  <2>1. Len(StackOf(ts)) = n
    BY <1>2, <1>3
  <2>2. n = 0 => StackOf(ts) = <<>>
    BY <1>3
  <2> QED
    BY <2>1, <2>2
<1> QED
  BY <1>4, <1>5

LEMMA PushedStack ==
    ASSUME NEW ts \in Seq(Token), NEW us \in Seq(Token), Enumerable(ts),
           NEW x \in Nat, \A y \in Unclosed(ts) : y < x,
           Unclosed(us) = Unclosed(ts) \cup {x}, SameTypes(ts, us, Unclosed(ts))
    PROVE  /\ StackOf(us) = Append(StackOf(ts), SymbolOf(us[x + 1].type))
           /\ Enumerable(us)
<1>1. PICK n, s : Enumerates(s, n, Unclosed(ts))
  BY DEF Enumerable
<1>2. \A k \in 1..n : s[k] \in Unclosed(ts)
  BY <1>1 DEF Enumerates
<1>3. n \in Nat
  BY <1>1 DEF Enumerates
<1> DEFINE u == [k \in 1..(n + 1) |-> IF k = n + 1 THEN x ELSE s[k]]
           e == SymbolOf(us[x + 1].type)
           f == [k \in 1..n |-> SymbolOf(ts[s[k] + 1].type)]
           g == [k \in 1..(n + 1) |-> SymbolOf(us[u[k] + 1].type)]
<1>4. Unclosed(ts) \in SUBSET Nat
  <2>1. Unclosed(ts) \in SUBSET (0..(Len(ts) - 1))
    BY UnclosedIndexes
  <2> QED
    BY <2>1
<1>5. Enumerates(u, n + 1, Unclosed(us))
  <2> DEFINE S == Unclosed(ts)
  <2>1. S \in SUBSET Nat /\ x \in Nat /\ (\A y \in S : y < x) /\ Enumerates(s, n, S)
    BY <1>1, <1>4
  <2>2. S \cup {x} = Unclosed(us)
    OBVIOUS
  <2> HIDE DEF S, e, f, g, u
  <2>3. Enumerates([k \in 1..(n + 1) |-> IF k = n + 1 THEN x ELSE s[k]],
                   n + 1, S \cup {x})
    BY <2>1, EnumerationGrows, ZenonT(30)
  <2>4. u = [k \in 1..(n + 1) |-> IF k = n + 1 THEN x ELSE s[k]]
    BY DEF u
  <2> QED
    BY <2>2, <2>3, <2>4
<1>6. StackOf(ts) = f /\ StackOf(us) = g
  <2>1. StackOf(ts) = f
    BY <1>1, StackIs
  <2> HIDE DEF u, f, e
  <2>2. StackOf(us) = g
    BY <1>5, StackIs
  <2> QED
    BY <2>1, <2>2
<1>7. \A k \in 1..n : us[s[k] + 1].type = ts[s[k] + 1].type
  BY <1>2 DEF SameTypes
<1>8. \A k \in 1..n : g[k] = f[k]
  BY <1>3, <1>7
<1>9. g[n + 1] = e
  BY <1>3
<1>10. Listed(f, n) /\ Listed(g, n + 1)
  BY DEF Listed
<1> HIDE DEF u, f, g, e
<1>11. g = Append(f, e)
  BY <1>3, <1>8, <1>9, <1>10, AppendIs
<1> QED
  BY <1>5, <1>6, <1>11 DEF Enumerable, e

LEMMA PoppedStack ==
    ASSUME NEW ts \in Seq(Token), NEW us \in Seq(Token), Enumerable(ts),
           NEW x \in Unclosed(ts), \A y \in Unclosed(ts) : y <= x,
           Unclosed(us) = Unclosed(ts) \ {x}, SameTypes(ts, us, Unclosed(ts))
    PROVE  /\ StackOf(us) = SubSeq(StackOf(ts), 1, Len(StackOf(ts)) - 1)
           /\ Enumerable(us)
<1>1. PICK n, s : Enumerates(s, n, Unclosed(ts))
  BY DEF Enumerable
<1>2. \A k \in 1..n : s[k] \in Unclosed(ts)
  BY <1>1 DEF Enumerates
<1> DEFINE u == [k \in 1..(n - 1) |-> s[k]]
           f == [k \in 1..n |-> SymbolOf(ts[s[k] + 1].type)]
           g == [k \in 1..(n - 1) |-> SymbolOf(us[u[k] + 1].type)]
<1>4. Unclosed(ts) \in SUBSET Nat
  <2>1. Unclosed(ts) \in SUBSET (0..(Len(ts) - 1))
    BY UnclosedIndexes
  <2> QED
    BY <2>1
<1>5. n \in Nat /\ n > 0 /\ Enumerates(u, n - 1, Unclosed(us))
  <2>1. /\ n > 0 /\ n \in Nat
        /\ Enumerates(u, n - 1, Unclosed(ts) \ {x})
    <3> DEFINE S == Unclosed(ts)
    <3>1. S \in SUBSET Nat /\ x \in S /\ (\A y \in S : y <= x) /\ Enumerates(s, n, S)
      BY <1>1, <1>4
    <3> HIDE DEF S, f, g, u
    <3>2. /\ n > 0 /\ n \in Nat
          /\ Enumerates([k \in 1..(n - 1) |-> s[k]], n - 1, S \ {x})
      BY <3>1, EnumerationShrinks, ZenonT(30)
    <3>3. u = [k \in 1..(n - 1) |-> s[k]]
      BY DEF u
    <3>4. n > 0 /\ n \in Nat /\ Enumerates(u, n - 1, S \ {x})
      BY <3>2, <3>3
    <3> QED
      BY <3>4 DEF S
  <2> QED
    BY <2>1
<1>6. StackOf(ts) = f /\ StackOf(us) = g
  <2>1. StackOf(ts) = f
    BY <1>1, StackIs
  <2> HIDE DEF u
  <2>2. StackOf(us) = g
    BY <1>5, StackIs
  <2> QED
    BY <2>1, <2>2
<1>7. \A k \in 1..n : us[s[k] + 1].type = ts[s[k] + 1].type
  BY <1>2 DEF SameTypes
<1>8. \A k \in 1..(n - 1) : g[k] = f[k]
  BY <1>5, <1>7
<1>9. Listed(f, n) /\ Listed(g, n - 1)
  BY DEF Listed
<1> HIDE DEF u, f, g
<1>10. g = SubSeq(f, 1, Len(f) - 1)
  BY <1>5, <1>8, <1>9, FrontIs
<1> QED
  BY <1>5, <1>6, <1>10 DEF Enumerable

LEMMA TopOfStack ==
    ASSUME NEW ts \in Seq(Token), Enumerable(ts),
           NEW x \in Unclosed(ts), \A y \in Unclosed(ts) : y <= x
    PROVE  /\ StackOf(ts) # <<>>
           /\ StackOf(ts)[Len(StackOf(ts))] = SymbolOf(ts[x + 1].type)
<1>1. PICK n, s : Enumerates(s, n, Unclosed(ts))
  BY DEF Enumerable
<1>2. Unclosed(ts) \in SUBSET Nat
  <2>1. Unclosed(ts) \in SUBSET (0..(Len(ts) - 1))
    BY UnclosedIndexes
  <2> QED
    BY <2>1
<1>3. n \in Nat /\ n > 0 /\ s[n] = x
  BY <1>1, <1>2, EnumerationShrinks
<1> DEFINE f == [k \in 1..n |-> SymbolOf(ts[s[k] + 1].type)]
<1>4. StackOf(ts) = f
  BY <1>1, StackIs
<1>5. Len(f) = n /\ f[n] = SymbolOf(ts[s[n] + 1].type)
  BY <1>3
<1>6. f # <<>>
  BY <1>3, <1>5
<1> QED
  BY <1>3, <1>4, <1>5, <1>6

Tracked ==
    /\ IInv
    /\ OpenAreContainers
    /\ Enumerable(tokens)

LEMMA TrackedInit == Init => Tracked /\ Matching!Init
<1> SUFFICES ASSUME Init PROVE Tracked /\ Matching!Init
  OBVIOUS
<1>1. tokens = <<>> /\ Unclosed(tokens) = {} /\ tokens \in Seq(Token)
  BY DEF Init, Unclosed
<1>2. Enumerates(<<>>, 0, {})
  BY DEF Enumerates, Increasing
<1>3. Enumerable(tokens)
  BY <1>1, <1>2 DEF Enumerable
<1>4. Stack = <<>>
  BY <1>1, <1>3, EmptyStack DEF Stack
<1>5. IInv
  BY InputsAssumption DEF Init, IInv, Counters, NothingOpenAbove, Unclosed,
                          toknext, text, Input
<1>6. input.text \in Seq(BracketSymbols!Symbol)
  BY InputsAssumption DEF Init, Input
<1> QED
  BY <1>1, <1>3, <1>4, <1>5, <1>6
     DEF Tracked, OpenAreContainers, Init, Matching!Init, BracketSymbols!Symbol,
         Matching!Symbol, BracketSymbols!Opening, BracketSymbols!Closing,
         BracketSymbols!Faulty, Matching!Opening, Matching!Closing,
         Matching!Faulty

LEMMA BracketTypes ==
    /\ \A s \in {"lbrace", "lbracket"} :
          TypeOf[s] \in Containers /\ SymbolOf(TypeOf[s]) = s
    /\ \A s \in {"rbrace", "rbracket"} : \A t \in Containers :
          SymbolOf(t) = Matching!Opener[s] <=> t = TypeOf[s]
BY DEF TypeOf, Containers, SymbolOf, Matching!Opener, Matching!Closing

(* A symbol whose token, if it has one, is closed.                         *)
LEMMA PassStep ==
    ASSUME Tracked, NEW S, Reads(S),
           S \subseteq {"string", "primitive", "space", "colon", "comma"},
           tokens' \in Seq(Token), Unclosed(tokens') = Unclosed(tokens),
           SameTypes(tokens, tokens', Unclosed(tokens)),
           pos' = pos + 1, UNCHANGED <<input, ret>>
    PROVE  /\ Matching!Pass
           /\ OpenAreContainers' /\ Enumerable(tokens')
<1>1. tokens \in Seq(Token) /\ Enumerable(tokens)
  BY DEF Tracked, IInv, Counters
<1>2. Stack' = Stack /\ Enumerable(tokens')
  BY <1>1, SameStack DEF Stack
<1>3. OpenAreContainers'
  BY DEF Tracked, OpenAreContainers, SameTypes, At
<1>4. Matching!Reading /\ Matching!Here \in S
  BY DEF Reads, Matching!Reading, Matching!Here, text
<1>5. Matching!Here \notin Matching!Opening \cup Matching!Closing \cup Matching!Faulty
  BY <1>4 DEF Matching!Opening, Matching!Closing, Matching!Faulty
<1> QED
  BY <1>2, <1>3, <1>4, <1>5 DEF Matching!Pass, Matching!Go

LEMMA OpenStep ==
    ASSUME Tracked, Open
    PROVE  Matching!Open /\ OpenAreContainers' /\ Enumerable(tokens')
<1>1. /\ tokens \in Seq(Token) /\ Enumerable(tokens) /\ Counters
      /\ toknext \in Nat /\ Unclosed(tokens) \in SUBSET (0..(toknext - 1))
      /\ OpenAreContainers
  BY Lengths, UnclosedIndexes DEF Tracked, IInv, Counters, toknext
<1>2. Reads({"lbrace", "lbracket"}) /\ NewToken(-1)
  BY DEF Open
<1>3. /\ tokens' \in Seq(Token)
      /\ Unclosed(tokens') = Unclosed(tokens) \cup {toknext}
      /\ \A k \in 0..(toknext - 1) : tokens'[k + 1].type = At(k).type
      /\ tokens'[toknext + 1].type = TypeOf[Symbol]
  <2>1. -1 \in Nat \cup {-1}
        /\ {"lbrace", "lbracket"} \subseteq {"lbrace", "lbracket", "string", "primitive"}
    OBVIOUS
  <2>2. /\ tokens' \in Seq(Token)
        /\ Unclosed(tokens') \subseteq Unclosed(tokens) \cup {toknext}
        /\ Unclosed(tokens) \subseteq Unclosed(tokens')
        /\ toknext \in Unclosed(tokens')
        /\ \A k \in 0..(toknext - 1) : tokens'[k + 1].type = At(k).type
        /\ tokens'[toknext + 1].type = TypeOf[Symbol]
    BY <1>1, <1>2, <2>1, AddedToken
  <2> QED
    BY <2>2
<1>4. Symbol \in {"lbrace", "lbracket"} /\ Matching!Here = Symbol
  BY <1>2 DEF Reads, Symbol, Matching!Here, text
<1>5. TypeOf[Symbol] \in Containers /\ SymbolOf(TypeOf[Symbol]) = Symbol
  BY <1>4, BracketTypes
<1>6. /\ StackOf(tokens') = Append(StackOf(tokens), SymbolOf(tokens'[toknext + 1].type))
      /\ Enumerable(tokens')
  <2>1. SameTypes(tokens, tokens', Unclosed(tokens))
    BY <1>1, <1>3 DEF SameTypes, At
  <2>2. \A y \in Unclosed(tokens) : y < toknext
    BY <1>1
  <2> QED
    BY <1>1, <1>3, <2>1, <2>2, PushedStack
<1>7. Stack' = Append(Stack, Symbol)
  BY <1>3, <1>5, <1>6 DEF Stack
<1>8. OpenAreContainers'
  <2> SUFFICES ASSUME NEW i \in Unclosed(tokens') PROVE tokens'[i + 1].type \in Containers
    BY DEF OpenAreContainers, At
  <2>1. CASE i \in Unclosed(tokens)
    BY <1>1, <1>3, <2>1 DEF OpenAreContainers
  <2>2. CASE i = toknext
    BY <1>3, <1>5, <2>2
  <2> QED
    BY <1>3, <2>1, <2>2
<1>9. Matching!Reading /\ pos' = pos + 1 /\ UNCHANGED <<input.text, ret>>
  BY <1>2 DEF Reads, NewToken, Matching!Reading, text
<1> QED
  BY <1>4, <1>6, <1>7, <1>8, <1>9 DEF Matching!Open, Matching!Go, Matching!Opening

LEMMA CloseStep ==
    ASSUME Tracked, Close
    PROVE  Matching!Close /\ OpenAreContainers' /\ Enumerable(tokens')
<1> DEFINE last == LastOf(Unclosed(tokens))
           U == Unclosed(tokens)
<1>1. /\ tokens \in Seq(Token) /\ Enumerable(tokens) /\ Counters
      /\ toknext \in Nat /\ U \in SUBSET (0..(toknext - 1))
      /\ OpenAreContainers /\ pos \in Nat
  BY Lengths, UnclosedIndexes DEF Tracked, IInv, Counters, toknext
<1>2. Reads({"rbrace", "rbracket"})
  BY DEF Close
<1>3. /\ Symbol \in {"rbrace", "rbracket"} /\ Matching!Here = Symbol
      /\ Matching!Reading /\ Matching!Here \in Matching!Closing
  BY <1>2 DEF Reads, Symbol, Matching!Here, Matching!Reading, Matching!Closing, text
<1>4. last = -1 <=> U = {}
  <2>1. U # {} => Max(U) \in U /\ Max(U) # -1
    <3> SUFFICES ASSUME U # {} PROVE Max(U) \in U /\ Max(U) # -1
      OBVIOUS
    <3> HIDE DEF U
    <3>1. Max(U) \in U
      BY <1>1, MaxOfIndexes
    <3> QED
      BY <1>1, <3>1
  <2> QED
    BY <2>1 DEF LastOf
<1>5. U # {} => last \in U /\ \A y \in U : y <= last
  <2> SUFFICES ASSUME U # {} PROVE last \in U /\ \A y \in U : y <= last
    OBVIOUS
  <2>1. last = Max(U)
    BY DEF LastOf
  <2> HIDE DEF U, last
  <2> QED
    BY <1>1, <2>1, MaxOfIndexes
<1>6. Matching!Matches <=> ~(last = -1 \/ At(last).type # TypeOf[Symbol])
  <2>1. CASE U = {}
    BY <1>1, <1>4, <2>1, EmptyStack DEF Matching!Matches, Stack
  <2>2. CASE U # {}
    <3>1. last \in U /\ (\A y \in U : y <= last) /\ last # -1
      BY <1>4, <1>5, <2>2
    <3>2. Stack # <<>> /\ Stack[Len(Stack)] = SymbolOf(At(last).type)
      BY <1>1, <3>1, TopOfStack DEF Stack, At
    <3>3. At(last).type \in Containers
      BY <1>1, <3>1 DEF OpenAreContainers
    <3>4. SymbolOf(At(last).type) = Matching!Opener[Symbol] <=> At(last).type = TypeOf[Symbol]
      BY <1>3, <3>3, BracketTypes
    <3> QED
      BY <1>3, <3>1, <3>2, <3>4 DEF Matching!Matches
  <2> QED
    BY <2>1, <2>2
<1>7. CASE last = -1 \/ At(last).type # TypeOf[Symbol]
  <2>1. ret' = "JSMN_ERROR_INVAL" /\ UNCHANGED <<input, pos, tokens, toksuper, count>>
    BY <1>7 DEF Close, Return
  <2>2. Stack' = Stack
    BY <2>1 DEF Stack
  <2>3. OpenAreContainers'
    BY <1>1, <2>1 DEF OpenAreContainers, At
  <2> QED
    BY <1>1, <1>3, <1>6, <1>7, <2>1, <2>2, <2>3 DEF Matching!Close, Matching!Verdict
<1>8. CASE ~(last = -1 \/ At(last).type # TypeOf[Symbol])
  <2>1. /\ tokens' = [tokens EXCEPT ![last + 1].end = pos + 1]
        /\ pos' = pos + 1 /\ UNCHANGED <<input, ret>>
    BY <1>8 DEF Close
  <2>2. last \in U /\ (\A y \in U : y <= last)
    BY <1>4, <1>5, <1>8
  <2> HIDE DEF last
  <2>3. last \in 0..(toknext - 1) /\ last + 1 \in 1..Len(tokens)
    BY <1>1, <2>2 DEF toknext
  <2>4. tokens[last + 1] \in Token
    BY <1>1, <2>3
  <2>5. LET t == [tokens[last + 1] EXCEPT !.end = pos + 1]
        IN  t \in Token /\ t.end = pos + 1 /\ t.type = tokens[last + 1].type
    <3> DEFINE r == tokens[last + 1]
               t == [r EXCEPT !.end = pos + 1]
    <3>1. r \in Token /\ pos + 1 \in Nat
      BY <1>1, <2>4
    <3> HIDE DEF r
    <3>2. t \in Token /\ t.end = pos + 1 /\ t.type = r.type
      BY <3>1 DEF Token
    <3> QED
      BY <3>2 DEF r
  <2>6. /\ tokens' \in Seq(Token) /\ Len(tokens') = Len(tokens)
        /\ \A k \in 1..Len(tokens) : tokens'[k].type = tokens[k].type
        /\ \A k \in 1..Len(tokens) : k # last + 1 => tokens'[k].end = tokens[k].end
        /\ tokens'[last + 1].end = pos + 1
    BY <1>1, <2>1, <2>3, <2>5
  <2>7. Unclosed(tokens') = U \ {last}
    <3>1. \A k \in 0..(Len(tokens) - 1) :
             tokens'[k + 1].end = -1 <=> (tokens[k + 1].end = -1 /\ k # last)
      <4> SUFFICES ASSUME NEW k \in 0..(Len(tokens) - 1)
                   PROVE  tokens'[k + 1].end = -1 <=> (tokens[k + 1].end = -1 /\ k # last)
        OBVIOUS
      <4>1. k + 1 \in 1..Len(tokens)
        BY <1>1 DEF toknext
      <4>2. CASE k = last
        BY <1>1, <2>6, <4>2
      <4>3. CASE k # last
        <5>1. k + 1 # last + 1
          BY <2>3, <4>3
        <5> QED
          BY <2>6, <4>1, <4>3, <5>1
      <4> QED
        BY <4>2, <4>3
    <3> QED
      BY <2>6, <3>1 DEF Unclosed
  <2>8. SameTypes(tokens, tokens', U)
    <3>1. \A k \in U : k + 1 \in 1..Len(tokens)
      BY <1>1 DEF toknext
    <3> QED
      BY <2>6, <3>1 DEF SameTypes
  <2>9. Stack' = SubSeq(Stack, 1, Len(Stack) - 1) /\ Enumerable(tokens')
    BY <1>1, <2>2, <2>6, <2>7, <2>8, PoppedStack DEF Stack
  <2>10. OpenAreContainers'
    BY <1>1, <2>7, <2>8 DEF OpenAreContainers, SameTypes, At
  <2>11. UNCHANGED <<input.text, ret>>
    BY <2>1
  <2> QED
    BY <1>3, <1>6, <1>8, <2>1, <2>9, <2>10, <2>11 DEF Matching!Close, Matching!Go
<1> QED
  BY <1>7, <1>8

LEMMA TrackedStep ==
    ASSUME Tracked, [Next]_vars
    PROVE  Tracked' /\ [Matching!Next]_(Matching!vars)
<1>0. /\ tokens \in Seq(Token) /\ Enumerable(tokens) /\ Counters
      /\ toknext \in Nat /\ Unclosed(tokens) \in SUBSET (0..(toknext - 1))
      /\ OpenAreContainers /\ pos \in Nat
  BY Lengths, UnclosedIndexes DEF Tracked, IInv, Counters, toknext
<1>1. IInv'
  BY Step DEF Tracked
<1>2. ASSUME UNCHANGED <<input, pos, tokens, ret>>
      PROVE  OpenAreContainers' /\ Enumerable(tokens') /\ UNCHANGED Matching!vars
  BY <1>0, <1>2 DEF OpenAreContainers, At, Matching!vars, Stack
<1>3. ASSUME UNCHANGED <<input, pos, tokens>>
      PROVE  /\ OpenAreContainers' /\ Enumerable(tokens')
             /\ UNCHANGED <<input.text, pos, Stack>>
  BY <1>0, <1>3 DEF OpenAreContainers, At, Stack
<1>4. CASE UNCHANGED vars
  <2>1. UNCHANGED <<input, pos, tokens, ret>>
    BY <1>4 DEF vars
  <2> QED
    BY <1>1, <1>2, <2>1 DEF Tracked
<1>5. CASE Open
  BY <1>1, <1>5, OpenStep DEF Tracked, Matching!Next
<1>6. CASE Value
  <2>1. Reads({"string", "primitive"}) /\ NewToken(pos + 1)
        /\ pos' = pos + 1 /\ UNCHANGED <<input, ret>>
    BY <1>6 DEF Value, NewToken
  <2>2. /\ pos + 1 \in Nat \cup {-1} /\ pos + 1 # -1
        /\ {"string", "primitive"} \subseteq {"lbrace", "lbracket", "string", "primitive"}
    BY <1>0
  <2>3. /\ tokens' \in Seq(Token)
        /\ Unclosed(tokens') \subseteq Unclosed(tokens)
        /\ Unclosed(tokens) \subseteq Unclosed(tokens')
        /\ \A k \in 0..(toknext - 1) : tokens'[k + 1].type = At(k).type
    BY <1>0, <2>1, <2>2, AddedToken
  <2>4. Unclosed(tokens') = Unclosed(tokens) /\ SameTypes(tokens, tokens', Unclosed(tokens))
    BY <1>0, <2>3 DEF SameTypes, At
  <2> QED
    BY <1>1, <2>1, <2>3, <2>4, PassStep DEF Tracked, Matching!Next
<1>7. CASE NoMemory
  <2>1. /\ Reads({"lbrace", "lbracket", "string", "primitive"})
        /\ ret' = "JSMN_ERROR_NOMEM" /\ UNCHANGED <<input, pos, tokens, toksuper, count>>
    BY <1>7 DEF NoMemory, Return
  <2>2. Matching!NoRoom
    BY <1>3, <2>1 DEF Matching!NoRoom, Matching!Reading, Matching!Here, Matching!Verdict,
                      Matching!Opening, Reads, text
  <2> QED
    BY <1>1, <1>3, <2>1, <2>2 DEF Tracked, Matching!Next
<1>8. CASE BadValue
  <2>1. UNCHANGED <<input, pos, tokens, toksuper, count>>
    BY <1>8 DEF BadValue, Return
  <2>2. \/ Reads({"bad_string", "bad_primitive"}) /\ ret' = "JSMN_ERROR_INVAL"
        \/ Reads({"open_string"}) /\ ret' = "JSMN_ERROR_PART"
    BY <1>8 DEF BadValue, Return
  <2>3. Matching!Fail
    BY <1>3, <2>1, <2>2 DEF Matching!Fail, Matching!Reading, Matching!Here, Matching!Verdict,
                            Matching!Faulty, Matching!Fault, Reads, text
  <2> QED
    BY <1>1, <1>3, <2>1, <2>3 DEF Tracked, Matching!Next
<1>9. CASE Close
  BY <1>1, <1>9, CloseStep DEF Tracked, Matching!Next
<1>10. CASE Space \/ Colon \/ Comma
  <2>1. PICK S \in {{"space"}, {"colon"}, {"comma"}} :
          /\ Reads(S) /\ pos' = pos + 1 /\ UNCHANGED <<input, tokens, ret>>
    BY <1>10 DEF Space, Colon, Comma
  <2>2. S \subseteq {"string", "primitive", "space", "colon", "comma"}
    BY <2>1
  <2>3. SameTypes(tokens, tokens', Unclosed(tokens))
    BY <2>1 DEF SameTypes
  <2> QED
    BY <1>0, <1>1, <2>1, <2>2, <2>3, PassStep DEF Tracked, Matching!Next
<1>11. CASE End
  <2>1. /\ ret = "none" /\ pos = Len(text)
        /\ ret' = IF Unclosed(tokens) = {} THEN "ok" ELSE "JSMN_ERROR_PART"
        /\ UNCHANGED <<input, pos, tokens, toksuper, count>>
    BY <1>11 DEF End, Return
  <2>2. Stack = <<>> <=> Unclosed(tokens) = {}
    BY <1>0, EmptyStack DEF Stack
  <2>3. Matching!Finish
    BY <1>3, <2>1, <2>2 DEF Matching!Finish, Matching!Verdict, text
  <2> QED
    BY <1>1, <1>3, <2>1, <2>3 DEF Tracked, Matching!Next
<1> QED
  BY <1>4, <1>5, <1>6, <1>7, <1>8, <1>9, <1>10, <1>11 DEF Next

(* For texts and arrays of any length, the tokenizer, which keeps no       *)
(* stack, gives the verdict of the stack of brackets, and its unclosed     *)
(* tokens are that stack at every moment.                                  *)
THEOREM ImplementsBrackets == Spec => MatchesBrackets
<1>1. Init => Tracked /\ Matching!Init
  BY TrackedInit
<1>2. Tracked /\ [Next]_vars => Tracked' /\ [Matching!Next]_(Matching!vars)
  BY TrackedStep
<1> QED
  BY <1>1, <1>2, PTL DEF Spec, MatchesBrackets, Matching!Spec

-----------------------------------------------------------------------------
(* The children that are claimed.                                          *)

AddsUp(f, ts) ==
    f = [k \in 0..Len(ts) |->
            IF k = Len(ts) THEN 0 ELSE ts[k + 1].size + f[k + 1]]

LEMMA SameSum ==
    ASSUME NEW ts \in Seq(Token), NEW f, NEW g, AddsUp(f, ts), AddsUp(g, ts)
    PROVE  f = g
<1> DEFINE n == Len(ts)
           D == {m \in 0..n : f[n - m] # g[n - m]}
<1>1. n \in Nat
  OBVIOUS
<1>2. /\ \A k \in 0..n : f[k] = IF k = n THEN 0 ELSE ts[k + 1].size + f[k + 1]
      /\ \A k \in 0..n : g[k] = IF k = n THEN 0 ELSE ts[k + 1].size + g[k + 1]
      /\ f = [k \in 0..n |-> f[k]] /\ g = [k \in 0..n |-> g[k]]
  BY DEF AddsUp
<1>3. D \in SUBSET Nat /\ \A m \in 0..n : f[n - m] # g[n - m] <=> m \in D
  BY <1>1
<1>4. \A m \in D : m \in 0..n
  OBVIOUS
<1> HIDE DEF n, D
<1>5. ASSUME D # {} PROVE FALSE
  <2>1. PICK m \in D : \A j \in D : m <= j
    BY <1>3, <1>5, LeastExists
  <2>2. m \in 0..n /\ f[n - m] # g[n - m] /\ n - m \in 0..n
    BY <1>1, <1>3, <1>4, <2>1
  <2>3. m # 0
    <3>1. n \in 0..n /\ n - 0 = n
      BY <1>1
    <3>2. f[n] = 0 /\ g[n] = 0
      BY <1>2, <3>1
    <3> QED
      BY <2>2, <3>1, <3>2
  <2>4. m - 1 \in 0..n /\ ~(m <= m - 1) /\ n - (m - 1) = (n - m) + 1 /\ n - m # n
    BY <1>1, <2>2, <2>3
  <2>5. f[(n - m) + 1] = g[(n - m) + 1]
    BY <1>3, <2>1, <2>4
  <2> QED
    BY <1>2, <2>2, <2>4, <2>5
<1>6. \A k \in 0..n : f[k] = g[k]
  <2> SUFFICES ASSUME NEW k \in 0..n, f[k] # g[k] PROVE FALSE
    OBVIOUS
  <2>1. n - k \in 0..n /\ n - (n - k) = k
    BY <1>1
  <2> QED
    BY <1>3, <1>5, <2>1
<1> QED
  BY <1>2, <1>6

LEMMA ClaimsIs ==
    ASSUME NEW ts \in Seq(Token), NEW f, AddsUp(f, ts)
    PROVE  Claims(ts) = f
<1>1. Claims(ts) = CHOOSE g : AddsUp(g, ts)
  BY DEF Claims, AddsUp
<1>2. AddsUp(Claims(ts), ts)
  BY <1>1
<1> QED
  BY <1>2, SameSum

(* Something adds the claims up, and they are backed.                      *)
Backs(f) ==
    /\ AddsUp(f, tokens)
    /\ f \in [0..toknext -> Nat]
    /\ \A k \in 0..(toknext - 1) : f[k] <= toknext - 1 - k

Backed == IInv /\ \E f : Backs(f)

LEMMA BackedAdded ==
    ASSUME Counters, NEW S, Reads(S),
           S \subseteq {"lbrace", "lbracket", "string", "primitive"},
           NEW end \in Nat \cup {-1}, NewToken(end),
           NEW f, Backs(f)
    PROVE  \E g : Backs(g)'
<1> DEFINE n == toknext
           s == toksuper
           g == [k \in 0..(n + 1) |-> IF k = n + 1 THEN 0
                                      ELSE IF k <= s THEN f[k] + 1 ELSE f[k]]
<1>1. n \in Nat /\ s \in -1..(n - 1)
  BY Lengths DEF Counters
<1>2. /\ toknext' = n + 1
      /\ \A k \in 0..(n - 1) :
            tokens'[k + 1].size = At(k).size + (IF k = s THEN 1 ELSE 0)
      /\ tokens'[n + 1].size = 0
  BY AddedToken
<1>3. /\ \A k \in 0..n : f[k] \in Nat
      /\ \A k \in 0..(n - 1) : f[k] <= n - 1 - k
      /\ \A k \in 0..n : f[k] = IF k = n THEN 0 ELSE At(k).size + f[k + 1]
  BY DEF Backs, AddsUp, At, toknext
<1>4. \A k \in 0..(n - 1) : At(k).size \in Nat
  <2>1. \A k \in 0..(n - 1) : k + 1 \in 1..n
    BY <1>1
  <2>2. \A k \in 1..n : tokens[k] \in Token
    BY DEF Counters, toknext
  <2> QED
    BY <2>1, <2>2 DEF At, Token
<1> HIDE DEF n, s
<1>5. \A k \in 0..(n + 1) : g[k] = IF k = n + 1 THEN 0
                                  ELSE IF k <= s THEN f[k] + 1 ELSE f[k]
  OBVIOUS
<1>6. \A k \in 0..(n + 1) : k = n + 1 \/ k = n \/ k \in 0..(n - 1)
  BY <1>1
<1>7. ASSUME NEW k \in 0..(n + 1)
      PROVE  g[k] = IF k = n + 1 THEN 0 ELSE tokens'[k + 1].size + g[k + 1]
  <2> HIDE DEF g
  <2>1. CASE k = n + 1
    BY <1>5, <2>1
  <2>2. CASE k = n
    <3>1. g[n] = 0 /\ g[n + 1] = 0
      BY <1>1, <1>3, <1>5
    <3> QED
      BY <1>1, <1>2, <2>2, <3>1
  <2>3. CASE k \in 0..(n - 1)
    <3>1. /\ k + 1 \in 0..n /\ k \in 0..n /\ k # n + 1 /\ k + 1 # n + 1
          /\ k + 1 \in 0..(n + 1) /\ k # n
      BY <1>1, <2>3
    <3>2. g[k] = IF k <= s THEN f[k] + 1 ELSE f[k]
      BY <1>5, <3>1
    <3>3. g[k + 1] = IF k + 1 <= s THEN f[k + 1] + 1 ELSE f[k + 1]
      BY <1>5, <3>1
    <3>4. f[k] = At(k).size + f[k + 1] /\ f[k + 1] \in Nat /\ At(k).size \in Nat
      BY <1>3, <1>4, <2>3, <3>1
    <3>5. tokens'[k + 1].size = At(k).size + (IF k = s THEN 1 ELSE 0)
      BY <1>2, <2>3
    <3> QED
      BY <1>1, <3>1, <3>2, <3>3, <3>4, <3>5
  <2> QED
    BY <1>6, <2>1, <2>2, <2>3
<1>8. g \in [0..(n + 1) -> Nat]
  BY <1>1, <1>3
<1>9. ASSUME NEW k \in 0..n PROVE g[k] <= n - k
  <2> HIDE DEF g
  <2>1. CASE k = n
    BY <1>1, <1>3, <1>5, <2>1
  <2>2. CASE k \in 0..(n - 1)
    <3>1. g[k] = (IF k <= s THEN f[k] + 1 ELSE f[k]) /\ f[k] \in Nat /\ f[k] <= n - 1 - k
      BY <1>1, <1>3, <1>5, <2>2
    <3> QED
      BY <1>1, <2>2, <3>1
  <2> QED
    BY <1>1, <2>1, <2>2
<1>10. g = [k \in 0..(n + 1) |-> g[k]]
  OBVIOUS
<1> HIDE DEF g
<1>11. AddsUp(g, tokens')
  BY <1>2, <1>7, <1>10 DEF AddsUp, toknext
<1>12. \A k \in 0..(toknext' - 1) : g[k] <= toknext' - 1 - k
  BY <1>1, <1>2, <1>9
<1>13. PICK h : h = g
  OBVIOUS
<1>14. Backs(h)'
  BY <1>2, <1>8, <1>11, <1>12, <1>13 DEF Backs, toknext
<1> QED
  BY <1>14

LEMMA BackedSame ==
    ASSUME Len(tokens') = Len(tokens),
           \A k \in 1..Len(tokens) : tokens'[k].size = tokens[k].size,
           Len(tokens) \in Nat, NEW f, Backs(f)
    PROVE  Backs(f)'
<1>1. AddsUp(f, tokens')
  <2>1. \A k \in 0..Len(tokens) : k # Len(tokens) => k + 1 \in 1..Len(tokens)
    OBVIOUS
  <2>2. \A k \in 0..Len(tokens) :
           (IF k = Len(tokens) THEN 0 ELSE tokens[k + 1].size + f[k + 1])
           = (IF k = Len(tokens) THEN 0 ELSE tokens'[k + 1].size + f[k + 1])
    BY <2>1
  <2> QED
    BY <2>2 DEF Backs, AddsUp
<1> QED
  BY <1>1 DEF Backs, toknext

LEMMA BackedStep ==
    ASSUME Backed, [Next]_vars
    PROVE  Backed'
<1>0. /\ tokens \in Seq(Token) /\ Counters /\ IInv
      /\ toknext \in Nat /\ pos \in Nat /\ Len(tokens) \in Nat
      /\ Unclosed(tokens) \in SUBSET (0..(toknext - 1))
  BY Lengths, UnclosedIndexes DEF Backed, IInv, Counters, toknext
<1>1. IInv'
  BY Step DEF Backed
<1>2. PICK f : Backs(f)
  BY DEF Backed
<1>3. ASSUME tokens' = tokens PROVE Backed'
  BY <1>0, <1>1, <1>2, <1>3, BackedSame DEF Backed
<1>4. CASE UNCHANGED vars
  BY <1>3, <1>4 DEF vars
<1>5. CASE Open
  <2>1. /\ Reads({"lbrace", "lbracket"}) /\ NewToken(-1) /\ -1 \in Nat \cup {-1}
        /\ {"lbrace", "lbracket"} \subseteq {"lbrace", "lbracket", "string", "primitive"}
    BY <1>5 DEF Open
  <2>2. \E g : Backs(g)'
    BY <1>0, <1>2, <2>1, BackedAdded
  <2> QED
    BY <1>1, <2>2 DEF Backed
<1>6. CASE Value
  <2>1. /\ Reads({"string", "primitive"}) /\ NewToken(pos + 1) /\ pos + 1 \in Nat \cup {-1}
        /\ {"string", "primitive"} \subseteq {"lbrace", "lbracket", "string", "primitive"}
    BY <1>0, <1>6 DEF Value
  <2>2. \E g : Backs(g)'
    BY <1>0, <1>2, <2>1, BackedAdded
  <2> QED
    BY <1>1, <2>2 DEF Backed
<1>7. CASE NoMemory \/ BadValue \/ End \/ Space \/ Colon \/ Comma
  <2>1. tokens' = tokens
    BY <1>7 DEF NoMemory, BadValue, End, Space, Colon, Comma, Return
  <2> QED
    BY <1>3, <2>1
<1>8. CASE Close
  <2> DEFINE i == LastOf(Unclosed(tokens)) + 1
  <2>1. tokens' = tokens \/ tokens' = [tokens EXCEPT ![i].end = pos + 1]
    BY <1>8 DEF Close, Return
  <2> HIDE DEF i
  <2>2. CASE tokens' = [tokens EXCEPT ![i].end = pos + 1]
    <3>1. DOMAIN tokens = 1..Len(tokens)
      BY <1>0
    <3>2. Len(tokens') = Len(tokens)
      <4>1. DOMAIN tokens' = DOMAIN tokens
        BY <2>2
      <4>2. tokens' \in Seq(Token)
        BY <1>1 DEF IInv, Counters
      <4>3. 1..Len(tokens') = 1..Len(tokens) /\ Len(tokens') \in Nat
        BY <3>1, <4>1, <4>2
      <4> QED
        BY <1>0, <4>3
    <3>3. \A k \in 1..Len(tokens) : tokens'[k].size = tokens[k].size
      <4> SUFFICES ASSUME NEW k \in 1..Len(tokens)
                   PROVE  tokens'[k].size = tokens[k].size
        OBVIOUS
      <4> DEFINE r == tokens[k]
      <4>1. r \in Token
        BY <1>0
      <4>2. tokens'[k] = IF k = i THEN [r EXCEPT !.end = pos + 1] ELSE r
        BY <2>2, <3>1
      <4> HIDE DEF r
      <4>3. [r EXCEPT !.end = pos + 1].size = r.size
        BY <4>1 DEF Token
      <4> QED
        BY <4>2, <4>3 DEF r
    <3>4. Backs(f)'
      BY <1>0, <1>2, <3>2, <3>3, BackedSame
    <3> QED
      BY <1>1, <3>4 DEF Backed
  <2> QED
    BY <1>3, <2>1, <2>2
<1> QED
  BY <1>4, <1>5, <1>6, <1>7, <1>8 DEF Next

(* The tokens never claim more children than there are tokens behind them: *)
(* what the walk over the tokens skips by their sizes is in the array.     *)
THEOREM BacksItsClaims == Spec => []ClaimsAreBacked
<1>1. Init => Backed
  <2> SUFFICES ASSUME Init PROVE Backed
    OBVIOUS
  <2>1. tokens = <<>> /\ IInv
    BY InputsAssumption DEF Init, IInv, Counters, NothingOpenAbove, Unclosed,
                            toknext, text, Input
  <2> DEFINE f == [k \in {0} |-> 0]
  <2>2. 0..0 = {0} /\ Len(<<>>) = 0
    OBVIOUS
  <2>3. Backs(f)
    BY <2>1, <2>2 DEF Backs, AddsUp, toknext
  <2> QED
    BY <2>1, <2>3 DEF Backed
<1>2. Backed => ClaimsAreBacked
  <2> SUFFICES ASSUME Backed PROVE ClaimsAreBacked
    OBVIOUS
  <2>1. PICK f : Backs(f)
    BY DEF Backed
  <2>2. tokens \in Seq(Token)
    BY DEF Backed, IInv, Counters
  <2>3. Claims(tokens) = f
    BY <2>1, <2>2, ClaimsIs DEF Backs
  <2> QED
    BY <2>1, <2>3 DEF Backs, ClaimsAreBacked
<1> QED
  BY <1>1, <1>2, BackedStep, PTL DEF Spec

-----------------------------------------------------------------------------
(* Documents: first what the layout of the nodes says of a place in the    *)
(* text, then what each symbol does to the tokens and to toksuper.         *)

(* The last place before p that is not white space.                        *)
LEMMA BeforeIs ==
    ASSUME NEW t, NEW p \in Nat
    PROVE  /\ Before(t, p) \in -1..(p - 1)
           /\ Before(t, p) # -1 => t[Before(t, p) + 1] # "space"
           /\ \A q \in 0..(p - 1) : t[q + 1] # "space" => q <= Before(t, p)
<1> DEFINE S == {q \in 0..(p - 1) : t[q + 1] # "space"}
<1>1. S \in SUBSET (0..(p - 1)) /\ Before(t, p) = LastOf(S)
  BY DEF Before
<1>2. \A q \in S : t[q + 1] # "space"
  OBVIOUS
<1>3. \A q \in 0..(p - 1) : t[q + 1] # "space" => q \in S
  OBVIOUS
<1> HIDE DEF S
<1>4. LastOf(S) \in -1..(p - 1) /\ \A q \in S : q <= LastOf(S)
  BY <1>1, LastOfIndexes
<1>5. LastOf(S) # -1 => LastOf(S) \in S
  BY <1>1, MaxOfIndexes DEF LastOf
<1> QED
  BY <1>1, <1>2, <1>3, <1>4, <1>5

LEMMA LastIs ==
    ASSUME NEW n \in Nat, NEW S \in SUBSET (0..(n - 1)), NEW x \in S, \A y \in S : y <= x
    PROVE  LastOf(S) = x
<1>1. Max(S) \in S /\ \A y \in S : y <= Max(S)
  BY MaxOfIndexes
<1>2. \A y \in S : y \in Int
  OBVIOUS
<1>3. Max(S) <= x /\ x <= Max(S) /\ Max(S) \in Int /\ x \in Int
  BY <1>1, <1>2
<1>4. S # {}
  OBVIOUS
<1> QED
  BY <1>3, <1>4 DEF LastOf

LEMMA BeforeNext ==
    ASSUME NEW t, NEW p \in Nat
    PROVE  /\ t[p + 1] = "space" => Before(t, p + 1) = Before(t, p)
           /\ t[p + 1] # "space" => Before(t, p + 1) = p
<1> DEFINE S(n) == {q \in 0..(n - 1) : t[q + 1] # "space"}
<1>1. ASSUME t[p + 1] = "space" PROVE S(p + 1) = S(p)
  <2>1. \A q : q \in 0..((p + 1) - 1) <=> q \in 0..(p - 1) \/ q = p
    OBVIOUS
  <2> QED
    BY <1>1, <2>1
<1>2. ASSUME t[p + 1] # "space" PROVE LastOf(S(p + 1)) = p
  <2>1. p \in S(p + 1)
    BY <1>2
  <2> DEFINE R == S(p + 1)
  <2>2. p + 1 \in Nat /\ R \in SUBSET (0..((p + 1) - 1)) /\ \A y \in R : y <= p
    OBVIOUS
  <2>3. p \in R
    BY <2>1
  <2> HIDE DEF R
  <2>4. LastOf(R) = p
    BY <2>2, <2>3, LastIs
  <2> QED
    BY <2>4 DEF R
<1> QED
  BY <1>1, <1>2 DEF Before

LEMMA PrecedingNext ==
    ASSUME NEW t, NEW p \in Nat
    PROVE  /\ t[p + 1] = "space" =>
                /\ Preceding(t, p + 1) = Preceding(t, p)
                /\ Before(t, p + 1) = Before(t, p)
           /\ t[p + 1] # "space" =>
                /\ Preceding(t, p + 1) = t[p + 1]
                /\ Before(t, p + 1) = p
<1>1. p # -1
  OBVIOUS
<1> QED
  BY <1>1, BeforeNext DEF Preceding

(* The types of the nodes.                                                 *)
LEMMA TypesOf ==
    /\ \A s \in {"lbrace", "lbracket", "rbrace", "rbracket"} : TypeOf[s] \in Containers
    /\ \A s \in Leaves : TypeOf[s] \notin Containers
    /\ \A s \in {"lbrace", "lbracket"} \cup Leaves : TypeOf[s] \in Types
BY DEF TypeOf, Containers, Leaves, Types

LEMMA NodeIs ==
    ASSUME NEW t, Len(t) \in Nat, NEW tree \in Seq(Token), LaidOut(t, tree),
           NEW k \in Nodes(tree)
    PROVE  LET x == tree[k + 1] IN
           /\ k \in Nat /\ k < Len(tree) /\ Len(tree) \in Nat
           /\ x \in Token
           /\ x.start \in Nat /\ x.end \in Nat
           /\ x.start < x.end /\ x.end <= Len(t)
           /\ t[x.start + 1] \in Beginning
           /\ x.type = TypeOf[t[x.start + 1]]
           /\ x.type \in Containers =>
                /\ x.start + 1 < x.end
                /\ t[x.start + 1] \in {"lbrace", "lbracket"}
                /\ t[x.end] \in {"rbrace", "rbracket"}
                /\ x.type = TypeOf[t[x.end]]
           /\ x.type \notin Containers =>
                /\ x.end = x.start + 1
                /\ t[x.start + 1] \in Leaves
<1> DEFINE x == tree[k + 1]
<1>1. Len(tree) \in Nat /\ k \in Nat /\ k < Len(tree) /\ k + 1 \in 1..Len(tree)
  BY DEF Nodes
<1>2. x \in Token
  BY <1>1
<1>3. x.start \in Nat /\ Spans(t, x)
  BY <1>2 DEF LaidOut, Token
<1> HIDE DEF x
<1>4. x.type \in Containers => t[x.start + 1] \in {"lbrace", "lbracket"}
  BY <1>3, TypesOf DEF Spans, Beginning
<1>5. x.type \notin Containers => t[x.start + 1] \in Leaves
  BY <1>3, TypesOf DEF Spans, Beginning
<1>6. CASE x.type \in Containers
  <2>1. /\ x.end \in (x.start + 2)..Len(t)
        /\ t[x.end] \in {"rbrace", "rbracket"} /\ x.type = TypeOf[t[x.end]]
        /\ t[x.start + 1] \in Beginning /\ x.type = TypeOf[t[x.start + 1]]
    BY <1>3, <1>6 DEF Spans
  <2>2. x.end \in Nat /\ x.start + 1 < x.end /\ x.start < x.end /\ x.end <= Len(t)
    BY <1>3, <2>1
  <2> QED
    BY <1>1, <1>2, <1>3, <1>4, <1>6, <2>1, <2>2 DEF x
<1>7. CASE x.type \notin Containers
  <2>1. /\ x.end = x.start + 1 /\ x.start < Len(t)
        /\ t[x.start + 1] \in Beginning /\ x.type = TypeOf[t[x.start + 1]]
    BY <1>3, <1>7 DEF Spans
  <2>2. x.end \in Nat /\ x.start < x.end /\ x.end <= Len(t)
    BY <1>3, <2>1
  <2> QED
    BY <1>1, <1>2, <1>3, <1>5, <1>7, <2>1, <2>2 DEF x
<1> QED
  BY <1>6, <1>7

LEMMA AroundIs ==
    ASSUME NEW tree \in Seq(Token), NEW p
    PROVE  /\ Enclosing(tree, p) \in SUBSET Nodes(tree)
           /\ Around(tree, p) = -1 <=> Enclosing(tree, p) = {}
           /\ Around(tree, p) # -1 =>
                /\ Around(tree, p) = Max(Enclosing(tree, p))
                /\ Around(tree, p) \in Enclosing(tree, p)
           /\ \A k \in Enclosing(tree, p) : k <= Around(tree, p)
<1>1. Enclosing(tree, p) \in SUBSET (0..(Len(tree) - 1)) /\ Len(tree) \in Nat
  BY DEF Enclosing, Nodes
<1>2. Enclosing(tree, p) # {} =>
        /\ Max(Enclosing(tree, p)) \in Enclosing(tree, p)
        /\ \A y \in Enclosing(tree, p) : y <= Max(Enclosing(tree, p))
  BY <1>1, MaxOfIndexes
<1> QED
  BY <1>1, <1>2 DEF Around, LastOf, Nodes

(* The first n nodes are those that begin before p.                        *)
Filled(n, tree, p) ==
    /\ n \in Nat /\ n <= Len(tree)
    /\ \A k \in Nodes(tree) : k < n <=> tree[k + 1].start < p

LEMMA NodeHere ==
    ASSUME NEW t, Len(t) \in Nat, NEW tree \in Seq(Token), LaidOut(t, tree),
           NEW p \in Nat, p < Len(t), NEW n, Filled(n, tree, p),
           t[p + 1] \in Beginning
    PROVE  n \in Nodes(tree) /\ tree[n + 1].start = p /\ Filled(n + 1, tree, p + 1)
<1>1. n \in Nat /\ n <= Len(tree) /\ Len(tree) \in Nat
  BY DEF Filled
<1>2. PICK j \in Nodes(tree) : tree[j + 1].start = p
  <2>1. p \in 0..(Len(t) - 1)
    OBVIOUS
  <2> QED
    BY <2>1 DEF LaidOut
<1>3. j \in Nat /\ j < Len(tree)
  BY <1>1 DEF Nodes
<1>4. ~(j < n)
  BY <1>2 DEF Filled
<1>5. n \in Nodes(tree)
  BY <1>1, <1>3, <1>4 DEF Nodes
<1>6. tree[n + 1].start \in Nat /\ ~(tree[n + 1].start < p)
  BY <1>1, <1>5, NodeIs DEF Filled
<1>7. j = n
  <2> SUFFICES ASSUME n < j PROVE FALSE
    BY <1>1, <1>3, <1>4
  <2>1. tree[n + 1].start < tree[j + 1].start
    BY <1>5 DEF LaidOut
  <2> QED
    BY <1>2, <1>6, <2>1
<1>8. ASSUME NEW k \in Nodes(tree)
      PROVE  k < n + 1 <=> tree[k + 1].start < p + 1
  <2>1. k \in Nat /\ tree[k + 1].start \in Nat
    BY NodeIs
  <2>2. k < n <=> tree[k + 1].start < p
    BY DEF Filled
  <2>3. n < k => tree[n + 1].start < tree[k + 1].start
    BY <1>5 DEF LaidOut
  <2>4. k = n => tree[k + 1].start = p
    BY <1>2, <1>7
  <2>5. k < n \/ k = n \/ n < k
    BY <1>1, <2>1
  <2> QED
    BY <1>1, <1>2, <1>7, <2>1, <2>2, <2>3, <2>4, <2>5
<1>9. n + 1 \in Nat /\ n + 1 <= Len(tree)
  BY <1>1, <1>3, <1>7
<1> QED
  BY <1>2, <1>5, <1>7, <1>8, <1>9 DEF Filled

LEMMA NoNodeHere ==
    ASSUME NEW t, Len(t) \in Nat, NEW tree \in Seq(Token), LaidOut(t, tree),
           NEW p \in Nat, NEW n, Filled(n, tree, p), t[p + 1] \notin Beginning
    PROVE  /\ \A k \in Nodes(tree) : tree[k + 1].start # p
           /\ Filled(n, tree, p + 1)
<1>1. ASSUME NEW k \in Nodes(tree)
      PROVE  tree[k + 1].start # p /\ (k < n <=> tree[k + 1].start < p + 1)
  <2>1. tree[k + 1].start \in Nat /\ t[tree[k + 1].start + 1] \in Beginning
    BY NodeIs
  <2>2. k < n <=> tree[k + 1].start < p
    BY DEF Filled
  <2> QED
    BY <2>1, <2>2
<1> QED
  BY <1>1 DEF Filled

(* The nodes that end with the symbol at p.                                *)
LEMMA EndsHere ==
    ASSUME NEW t, Len(t) \in Nat, NEW tree \in Seq(Token), LaidOut(t, tree),
           NEW p \in Nat, NEW k \in Nodes(tree), tree[k + 1].end = p + 1
    PROVE  IF t[p + 1] \in {"rbrace", "rbracket"}
           THEN tree[k + 1].type = TypeOf[t[p + 1]] /\ k \in Enclosing(tree, p)
           ELSE tree[k + 1].start = p /\ t[p + 1] \in Leaves
<1>1. tree[k + 1].start \in Nat /\ tree[k + 1].start < tree[k + 1].end
  BY NodeIs
<1>2. CASE tree[k + 1].type \in Containers
  <2>1. /\ tree[k + 1].start + 1 < p + 1 /\ t[p + 1] \in {"rbrace", "rbracket"}
        /\ tree[k + 1].type = TypeOf[t[p + 1]]
    BY <1>2, NodeIs
  <2>2. tree[k + 1].start < p /\ p < tree[k + 1].end
    BY <1>1, <2>1
  <2> QED
    BY <2>1, <2>2 DEF Enclosing
<1>3. CASE tree[k + 1].type \notin Containers
  <2>1. tree[k + 1].end = tree[k + 1].start + 1 /\ t[tree[k + 1].start + 1] \in Leaves
    BY <1>3, NodeIs
  <2>2. tree[k + 1].start = p
    BY <1>1, <2>1
  <2> QED
    BY <2>1, <2>2 DEF Leaves
<1> QED
  BY <1>2, <1>3

LEMMA ClosedHere ==
    ASSUME NEW t, Len(t) \in Nat, NEW tree \in Seq(Token), LaidOut(t, tree),
           NEW p \in Nat, p < Len(t), t[p + 1] \in {"rbrace", "rbracket"}
    PROVE  /\ Around(tree, p) \in Nodes(tree)
           /\ tree[Around(tree, p) + 1].end = p + 1
           /\ tree[Around(tree, p) + 1].type = TypeOf[t[p + 1]]
           /\ \A k \in Nodes(tree) : tree[k + 1].end = p + 1 => k = Around(tree, p)
<1>1. PICK j \in Nodes(tree) : tree[j + 1].end = p + 1
  <2>1. p \in 0..(Len(t) - 1)
    OBVIOUS
  <2> QED
    BY <2>1 DEF LaidOut
<1>2. ASSUME NEW k \in Nodes(tree), tree[k + 1].end = p + 1 PROVE k = Around(tree, p)
  <2>1. k \in Enclosing(tree, p)
    BY <1>2, EndsHere
  <2>2. /\ Around(tree, p) \in Enclosing(tree, p) /\ k <= Around(tree, p)
        /\ Around(tree, p) \in Nodes(tree)
    BY <2>1, AroundIs
  <2> DEFINE a == Around(tree, p)
  <2>3. a \in Nodes(tree) /\ tree[a + 1].start < p /\ p < tree[a + 1].end
    BY <2>2 DEF Enclosing
  <2>4. /\ k \in Nat /\ a \in Nat /\ k <= a
        /\ tree[a + 1].start \in Nat /\ tree[a + 1].end \in Nat
    BY <2>2, <2>3, NodeIs
  <2>5. ~(k < a)
    <3> SUFFICES ASSUME k < a PROVE FALSE
      OBVIOUS
    <3>1. tree[k + 1].end <= tree[a + 1].start \/ tree[a + 1].end < tree[k + 1].end
      BY <2>3 DEF LaidOut
    <3> HIDE DEF a
    <3> QED
      BY <1>2, <2>3, <2>4, <3>1
  <2> QED
    BY <2>4, <2>5
<1>3. tree[j + 1].type = TypeOf[t[p + 1]]
  BY <1>1, EndsHere
<1>4. j = Around(tree, p)
  BY <1>1, <1>2
<1> QED
  BY <1>1, <1>2, <1>3, <1>4

(* What is around the next place.                                          *)
LEMMA AroundStays ==
    ASSUME NEW t, Len(t) \in Nat, NEW tree \in Seq(Token), LaidOut(t, tree),
           NEW p \in Nat, t[p + 1] \notin {"lbrace", "lbracket", "rbrace", "rbracket"}
    PROVE  Enclosing(tree, p + 1) = Enclosing(tree, p)
<1> SUFFICES ASSUME NEW k \in Nodes(tree)
             PROVE  tree[k + 1].start < p + 1 /\ p + 1 < tree[k + 1].end <=>
                    tree[k + 1].start < p /\ p < tree[k + 1].end
  BY DEF Enclosing
<1>1. tree[k + 1].start \in Nat /\ tree[k + 1].end \in Nat
  BY NodeIs
<1>2. tree[k + 1].start = p => ~(p + 1 < tree[k + 1].end)
  <2> SUFFICES ASSUME tree[k + 1].start = p PROVE tree[k + 1].end = p + 1
    BY <1>1
  <2>1. tree[k + 1].type \notin Containers
    BY NodeIs
  <2> QED
    BY <2>1, NodeIs
<1>3. tree[k + 1].end = p + 1 => tree[k + 1].start = p
  BY EndsHere
<1> QED
  BY <1>1, <1>2, <1>3

LEMMA AroundOpened ==
    ASSUME NEW t, Len(t) \in Nat, NEW tree \in Seq(Token), LaidOut(t, tree),
           NEW p \in Nat, t[p + 1] \in {"lbrace", "lbracket"},
           NEW n \in Nodes(tree), tree[n + 1].start = p, Filled(n + 1, tree, p + 1)
    PROVE  Around(tree, p + 1) = n
<1>1. tree[n + 1].end \in Nat /\ n \in Nat /\ Len(tree) \in Nat
  BY NodeIs
<1>2. tree[n + 1].type \in Containers
  BY NodeIs DEF Leaves
<1>3. p + 1 < tree[n + 1].end
  BY <1>2, NodeIs
<1>4. n \in Enclosing(tree, p + 1)
  BY <1>3 DEF Enclosing
<1>5. \A k \in Enclosing(tree, p + 1) : k < n + 1 /\ k \in 0..(Len(tree) - 1)
  BY DEF Enclosing, Filled, Nodes
<1>6. \A k \in Enclosing(tree, p + 1) : k <= n
  BY <1>1, <1>5
<1>7. Enclosing(tree, p + 1) \in SUBSET (0..(Len(tree) - 1))
  BY <1>5
<1> QED
  BY <1>1, <1>4, <1>6, <1>7, LastIs DEF Around

(* A parent comes before its children.                                     *)
LEMMA ParentIs ==
    ASSUME NEW t, Len(t) \in Nat, NEW tree \in Seq(Token), LaidOut(t, tree),
           NEW k \in Nodes(tree)
    PROVE  Parent(t, tree, k) \in -1..(k - 1)
<1> DEFINE a == Around(tree, tree[k + 1].start)
<1>1. k \in Nat
  BY NodeIs
<1>2. a # -1 => a \in 0..(k - 1)
  <2> SUFFICES ASSUME a # -1 PROVE a \in 0..(k - 1)
    OBVIOUS
  <2>1. a \in Nodes(tree) /\ tree[a + 1].start < tree[k + 1].start
    BY AroundIs DEF Enclosing
  <2>2. a \in Nat /\ tree[a + 1].start \in Nat /\ tree[k + 1].start \in Nat
    BY <2>1, NodeIs
  <2>3. k < a => tree[k + 1].start < tree[a + 1].start
    BY <2>1 DEF LaidOut
  <2> HIDE DEF a
  <2>4. a # k /\ ~(k < a)
    BY <2>1, <2>2, <2>3
  <2> QED
    BY <1>1, <2>2, <2>4
<1>3. Parent(t, tree, k) = k - 1 \/ Parent(t, tree, k) = a
  BY DEF Parent
<1> HIDE DEF a
<1> QED
  BY <1>1, <1>2, <1>3

(* The children among the first n nodes.                                   *)
SizeSoFar(t, tree, n, k) == Cardinality({m \in 0..(n - 1) : Parent(t, tree, m) = k})

LEMMA SizeGrows ==
    ASSUME NEW t, NEW tree, NEW n \in Nat, NEW k
    PROVE  /\ SizeSoFar(t, tree, n, k) \in Nat
           /\ SizeSoFar(t, tree, n + 1, k) = SizeSoFar(t, tree, n, k) +
                 (IF Parent(t, tree, n) = k THEN 1 ELSE 0)
<1> DEFINE S(b) == {m \in 0..(b - 1) : Parent(t, tree, m) = k}
<1>1. \A m : m \in 0..((n + 1) - 1) <=> m \in 0..(n - 1) \/ m = n
  OBVIOUS
<1>2. n \notin S(n)
  OBVIOUS
<1>3. IsFiniteSet(S(n)) /\ Cardinality(S(n)) \in Nat
  <2>1. IsFiniteSet(0..(n - 1)) /\ S(n) \in SUBSET (0..(n - 1))
    BY FS_Interval
  <2> QED
    BY <2>1, FS_Subset, FS_CardinalityType
<1>4. CASE Parent(t, tree, n) = k
  <2>1. S(n + 1) = S(n) \cup {n}
    BY <1>1, <1>4
  <2> HIDE DEF S
  <2>2. Cardinality(S(n + 1)) = Cardinality(S(n)) + 1
    BY <1>2, <1>3, <2>1, FS_AddElement
  <2> QED
    BY <1>3, <1>4, <2>2 DEF S, SizeSoFar
<1>5. CASE Parent(t, tree, n) # k
  <2>1. S(n + 1) = S(n)
    BY <1>1, <1>5
  <2> QED
    BY <1>3, <1>5, <2>1 DEF SizeSoFar
<1> QED
  BY <1>4, <1>5

LEMMA NoChildYet ==
    ASSUME NEW t, Len(t) \in Nat, NEW tree \in Seq(Token), LaidOut(t, tree),
           NEW n \in Nodes(tree)
    PROVE  SizeSoFar(t, tree, n + 1, n) = 0
<1>1. n \in Nat /\ n < Len(tree) /\ Len(tree) \in Nat
  BY NodeIs
<1>2. \A m \in 0..((n + 1) - 1) : m \in Nodes(tree) /\ m <= n /\ m \in Nat
  BY <1>1 DEF Nodes
<1>3. \A m \in 0..((n + 1) - 1) : Parent(t, tree, m) \in -1..(m - 1)
  BY <1>2, ParentIs
<1>4. {m \in 0..((n + 1) - 1) : Parent(t, tree, m) = n} = {}
  BY <1>1, <1>2, <1>3
<1> QED
  BY <1>4, FS_EmptySet DEF SizeSoFar

(* The tokens are what the tree has before p.                              *)
SoFar(ts, t, tree, p) ==
    /\ Filled(Len(ts), tree, p)
    /\ \A k \in 0..(Len(ts) - 1) :
          /\ ts[k + 1].type = tree[k + 1].type
          /\ ts[k + 1].start = tree[k + 1].start
          /\ ts[k + 1].end = IF tree[k + 1].end <= p THEN tree[k + 1].end ELSE -1
          /\ ts[k + 1].size = SizeSoFar(t, tree, Len(ts), k)

LEMMA UnclosedIs ==
    ASSUME NEW t, Len(t) \in Nat, NEW tree \in Seq(Token), LaidOut(t, tree),
           NEW p \in Nat, NEW ts \in Seq(Token), SoFar(ts, t, tree, p)
    PROVE  Unclosed(ts) = Enclosing(tree, p)
<1>1. Filled(Len(ts), tree, p) /\ Len(ts) \in Nat /\ Len(tree) \in Nat
  BY DEF SoFar
<1>2. \A k : k \in 0..(Len(ts) - 1) <=> k \in Nodes(tree) /\ tree[k + 1].start < p
  <2>1. \A k : k \in 0..(Len(ts) - 1) => k \in Nodes(tree) /\ k < Len(ts)
    BY <1>1 DEF Filled, Nodes
  <2>2. \A k \in Nodes(tree) : k < Len(ts) => k \in 0..(Len(ts) - 1)
    BY <1>1 DEF Nodes
  <2>3. \A k \in Nodes(tree) : k < Len(ts) <=> tree[k + 1].start < p
    BY <1>1 DEF Filled
  <2> QED
    BY <2>1, <2>2, <2>3
<1>3. ASSUME NEW k \in Nodes(tree), k \in 0..(Len(ts) - 1)
      PROVE  ts[k + 1].end = -1 <=> p < tree[k + 1].end
  <2>1. tree[k + 1].end \in Nat
    BY NodeIs
  <2>2. ts[k + 1].end = IF tree[k + 1].end <= p THEN tree[k + 1].end ELSE -1
    BY <1>3 DEF SoFar
  <2> QED
    BY <2>1, <2>2
<1>4. \A k : k \in Unclosed(ts) <=> k \in Enclosing(tree, p)
  <2>1. \A k : k \in Unclosed(ts) <=> k \in 0..(Len(ts) - 1) /\ ts[k + 1].end = -1
    BY DEF Unclosed
  <2>2. \A k : k \in Enclosing(tree, p) <=>
            k \in Nodes(tree) /\ tree[k + 1].start < p /\ p < tree[k + 1].end
    BY DEF Enclosing
  <2> QED
    BY <1>2, <1>3, <2>1, <2>2
<1> QED
  BY <1>4

(* A token more.                                                           *)
LEMMA AddedSoFar ==
    ASSUME Counters, NEW S, Reads(S),
           S \subseteq {"lbrace", "lbracket", "string", "primitive"},
           NEW end \in Nat \cup {-1}, NewToken(end),
           NEW tree \in Seq(Token), LaidOut(text, tree), SoFar(tokens, text, tree, pos),
           toksuper = Parent(text, tree, toknext),
           end = IF tree[toknext + 1].end <= pos + 1 THEN tree[toknext + 1].end ELSE -1
    PROVE  SoFar(tokens', text, tree, pos + 1)
<1> DEFINE n == toknext
<1>1. /\ n \in Nat /\ pos \in Nat /\ Len(text) \in Nat /\ pos < Len(text)
      /\ Symbol \in S /\ Symbol = text[pos + 1]
  BY Lengths DEF Reads, Symbol
<1>2. Symbol \in Beginning
  BY <1>1 DEF Beginning, Leaves
<1>3. /\ Len(tokens') = n + 1
      /\ tokens'[n + 1].type = TypeOf[Symbol]
      /\ tokens'[n + 1].size = 0
      /\ tokens'[n + 1].start = pos /\ tokens'[n + 1].end = end
      /\ \A k \in 0..(n - 1) :
            /\ tokens'[k + 1].type = tokens[k + 1].type
            /\ tokens'[k + 1].size = tokens[k + 1].size + (IF k = toksuper THEN 1 ELSE 0)
            /\ tokens'[k + 1].start = tokens[k + 1].start
            /\ tokens'[k + 1].end = tokens[k + 1].end
  BY AddedToken DEF toknext, At
<1>4. Filled(n, tree, pos)
  BY DEF SoFar, toknext
<1>5. n \in Nodes(tree) /\ tree[n + 1].start = pos /\ Filled(n + 1, tree, pos + 1)
  BY <1>1, <1>2, <1>4, NodeHere
<1>6. tree[n + 1].type = TypeOf[Symbol]
  BY <1>1, <1>5, NodeIs
<1>7. SizeSoFar(text, tree, n + 1, n) = 0
  BY <1>1, <1>5, NoChildYet
<1>8. ASSUME NEW k \in 0..(n - 1)
      PROVE  /\ tokens'[k + 1].type = tree[k + 1].type
             /\ tokens'[k + 1].start = tree[k + 1].start
             /\ tokens'[k + 1].end =
                   IF tree[k + 1].end <= pos + 1 THEN tree[k + 1].end ELSE -1
             /\ tokens'[k + 1].size = SizeSoFar(text, tree, n + 1, k)
  <2>1. /\ tokens[k + 1].type = tree[k + 1].type
        /\ tokens[k + 1].start = tree[k + 1].start
        /\ tokens[k + 1].end = IF tree[k + 1].end <= pos THEN tree[k + 1].end ELSE -1
        /\ tokens[k + 1].size = SizeSoFar(text, tree, n, k)
    BY DEF SoFar, toknext
  <2>2. k \in Nodes(tree) /\ k < n
    BY <1>1, <1>4 DEF Filled, Nodes
  <2>3. tree[k + 1].end \in Nat /\ tree[k + 1].start < pos
    <3>1. tree[k + 1].end \in Nat
      BY <1>1, <2>2, NodeIs
    <3>2. tree[k + 1].start < pos
      BY <1>4, <2>2 DEF Filled
    <3> QED
      BY <3>1, <3>2
  <2>4. tree[k + 1].end # pos + 1
    <3> SUFFICES ASSUME tree[k + 1].end = pos + 1 PROVE FALSE
      OBVIOUS
    <3>1. text[pos + 1] \notin {"rbrace", "rbracket"}
      BY <1>1, <1>2 DEF Beginning, Leaves
    <3>2. tree[k + 1].start = pos
      <4> HIDE DEF n
      <4> QED
        BY <1>1, <2>2, <3>1, EndsHere
    <3> QED
      BY <1>1, <2>3, <3>2
  <2>5. SizeSoFar(text, tree, n + 1, k) =
           SizeSoFar(text, tree, n, k) + (IF toksuper = k THEN 1 ELSE 0)
    BY <1>1, SizeGrows
  <2>6. tree[k + 1].end <= pos + 1 <=> tree[k + 1].end <= pos
    BY <1>1, <2>3, <2>4
  <2> QED
    BY <1>3, <2>1, <2>5, <2>6
<1>9. \A k \in 0..((n + 1) - 1) : k \in 0..(n - 1) \/ k = n
  BY <1>1
<1> HIDE DEF n
<1>10. \A k \in 0..((n + 1) - 1) :
          /\ tokens'[k + 1].type = tree[k + 1].type
          /\ tokens'[k + 1].start = tree[k + 1].start
          /\ tokens'[k + 1].end =
                   IF tree[k + 1].end <= pos + 1 THEN tree[k + 1].end ELSE -1
          /\ tokens'[k + 1].size = SizeSoFar(text, tree, n + 1, k)
  <2>1. end = IF tree[n + 1].end <= pos + 1 THEN tree[n + 1].end ELSE -1
    BY DEF n
  <2> QED
    BY <1>3, <1>5, <1>6, <1>7, <1>8, <1>9, <2>1
<1> QED
  BY <1>3, <1>5, <1>10 DEF SoFar

(* The token of a closing bracket gets its end.                            *)
Finished(ts, k) == ts = [tokens EXCEPT ![k + 1].end = pos + 1]

LEMMA ClosedSoFar ==
    ASSUME Counters, NEW tree \in Seq(Token), LaidOut(text, tree),
           SoFar(tokens, text, tree, pos), pos < Len(text),
           text[pos + 1] \in {"rbrace", "rbracket"},
           NEW ts, Finished(ts, Around(tree, pos))
    PROVE  SoFar(ts, text, tree, pos + 1) /\ ts \in Seq(Token)
<1> DEFINE a == Around(tree, pos)
<1>1. /\ toknext \in Nat /\ toknext = Len(tokens)
      /\ pos \in Nat /\ Len(text) \in Nat /\ tokens \in Seq(Token)
  BY Lengths DEF toknext, Counters
<1>2. /\ a \in Nodes(tree) /\ tree[a + 1].end = pos + 1
      /\ \A k \in Nodes(tree) : tree[k + 1].end = pos + 1 => k = a
  BY <1>1, ClosedHere
<1>3. tree[a + 1].start \in Nat /\ tree[a + 1].start < pos
  <2>1. a # -1
    BY <1>2 DEF Nodes
  <2>2. a \in Enclosing(tree, pos)
    BY <2>1, AroundIs
  <2>3. tree[a + 1].start < pos
    BY <2>2 DEF Enclosing
  <2> HIDE DEF a
  <2>4. tree[a + 1].start \in Nat
    BY <1>1, <1>2, NodeIs
  <2> QED
    BY <2>3, <2>4
<1>4. Filled(toknext, tree, pos)
  BY DEF SoFar, toknext
<1>5. a \in 0..(toknext - 1)
  BY <1>1, <1>2, <1>3, <1>4 DEF Filled, Nodes
<1> HIDE DEF a
<1> DEFINE x == tokens[a + 1]
           y == [x EXCEPT !.end = pos + 1]
<1>6. ts = [tokens EXCEPT ![a + 1] = y]
  BY DEF a, Finished
<1>7. x \in Token /\ a + 1 \in 1..toknext /\ a \in Int
  BY <1>1, <1>5
<1>8. y \in Token /\ y.type = x.type /\ y.start = x.start /\ y.size = x.size /\ y.end = pos + 1
  <2>1. pos + 1 \in Nat \cup {-1}
    BY <1>1
  <2> HIDE DEF x
  <2> QED
    BY <1>7, <2>1 DEF Token
<1> HIDE DEF x, y
<1>9. /\ ts \in Seq(Token) /\ Len(ts) = toknext
      /\ \A k \in 1..toknext : ts[k] = IF k = a + 1 THEN y ELSE tokens[k]
  <2>1. tokens \in Seq(Token) /\ Len(tokens) = toknext /\ y \in Token /\ a + 1 \in 1..toknext
    BY <1>1, <1>7, <1>8
  <2> QED
    BY <1>6, <2>1
<1>10. ASSUME NEW k \in 0..(toknext - 1)
       PROVE  /\ ts[k + 1].type = tokens[k + 1].type
              /\ ts[k + 1].start = tokens[k + 1].start
              /\ ts[k + 1].size = tokens[k + 1].size
              /\ ts[k + 1].end = IF k = a THEN pos + 1 ELSE tokens[k + 1].end
  <2>1. k + 1 \in 1..toknext /\ (k + 1 = a + 1 <=> k = a)
    BY <1>1, <1>7
  <2>2. ts[k + 1] = IF k = a THEN y ELSE tokens[k + 1]
    BY <1>9, <2>1
  <2>3. CASE k = a
    <3>1. tokens[k + 1] = x /\ ts[k + 1] = y
      BY <2>2, <2>3 DEF x
    <3> QED
      BY <1>8, <2>3, <3>1
  <2>4. CASE k # a
    BY <2>2, <2>4
  <2> QED
    BY <2>3, <2>4
<1>11. text[pos + 1] \notin Beginning
  BY DEF Beginning, Leaves
<1>12. Filled(toknext, tree, pos + 1)
  BY <1>1, <1>4, <1>11, NoNodeHere
<1>13. ASSUME NEW k \in 0..(toknext - 1)
       PROVE  ts[k + 1].end = IF tree[k + 1].end <= pos + 1 THEN tree[k + 1].end ELSE -1
  <2>1. k \in Nodes(tree)
    BY <1>1, <1>4 DEF Filled, Nodes
  <2>2. tree[k + 1].end \in Nat
    BY <1>1, <2>1, NodeIs
  <2>3. tree[k + 1].end = pos + 1 <=> k = a
    BY <1>2, <2>1
  <2>4. tokens[k + 1].end = IF tree[k + 1].end <= pos THEN tree[k + 1].end ELSE -1
    BY DEF SoFar, toknext
  <2>5. ts[k + 1].end = IF k = a THEN pos + 1 ELSE tokens[k + 1].end
    BY <1>10
  <2> QED
    BY <1>1, <2>2, <2>3, <2>4, <2>5
<1>14. \A k \in 0..(toknext - 1) :
          /\ tokens[k + 1].type = tree[k + 1].type
          /\ tokens[k + 1].start = tree[k + 1].start
          /\ tokens[k + 1].size = SizeSoFar(text, tree, toknext, k)
  BY DEF SoFar, toknext
<1> QED
  BY <1>9, <1>10, <1>12, <1>13, <1>14 DEF SoFar

(* A separator and white space change nothing.                             *)
LEMMA PassedSoFar ==
    ASSUME NEW t, Len(t) \in Nat, NEW tree \in Seq(Token), LaidOut(t, tree),
           NEW p \in Nat, NEW ts \in Seq(Token), SoFar(ts, t, tree, p),
           t[p + 1] \in {"space", "colon", "comma"}
    PROVE  SoFar(ts, t, tree, p + 1)
<1>1. Filled(Len(ts), tree, p) /\ Len(ts) \in Nat /\ Len(tree) \in Nat
  BY DEF SoFar
<1>2. t[p + 1] \notin Beginning
  BY DEF Beginning, Leaves
<1>3. Filled(Len(ts), tree, p + 1)
  BY <1>1, <1>2, NoNodeHere
<1>4. ASSUME NEW k \in 0..(Len(ts) - 1)
      PROVE  tree[k + 1].end <= p + 1 <=> tree[k + 1].end <= p
  <2>1. k \in Nodes(tree)
    BY <1>1 DEF Filled, Nodes
  <2>2. tree[k + 1].end \in Nat
    BY <2>1, NodeIs
  <2>3. tree[k + 1].end # p + 1
    BY <2>1, EndsHere DEF Leaves
  <2> QED
    BY <2>2, <2>3
<1> QED
  BY <1>3, <1>4 DEF SoFar

(* Where toksuper is: at the key after a colon, and still there after the  *)
(* value if that is a leaf; otherwise at the innermost open container.     *)
AtKey(super, tree, p) ==
    super # -1 /\ tree[super + 1].type \notin Containers /\ Around(tree, p) # -1

SuperIs(super, n, t, tree, p) ==
    IF Preceding(t, p) = "colon" THEN super = n - 1 /\ AtKey(super, tree, p)
    ELSE IF Preceding(t, p) \in Leaves /\ Preceding(t, Before(t, p)) = "colon"
         THEN AtKey(super, tree, p)
         ELSE super = Around(tree, p)

(* What stands at p, said with the operators of the grammar.               *)
LEMMA StandsAt ==
    ASSUME NEW t, Len(t) \in Nat, NEW tree, WellFormed(t, tree),
           NEW p \in Nat, p < Len(t), t[p + 1] # "space"
    PROVE  IF Around(tree, p) = -1 THEN t[p + 1] \in Beginning
           ELSE InObject(t, p) \/ InArray(t, p)
<1>1. p \in 0..(Len(t) - 1)
  OBVIOUS
<1> QED
  BY <1>1 DEF WellFormed

(* A new token is a child of toksuper.                                     *)
LEMMA SuperIsParent ==
    ASSUME NEW t, Len(t) \in Nat, NEW tree, WellFormed(t, tree),
           NEW p \in Nat, p < Len(t), t[p + 1] \in Beginning,
           NEW n \in Nat, tree[n + 1].start = p,
           NEW super, SuperIs(super, n, t, tree, p)
    PROVE  super = Parent(t, tree, n)
<1>1. t[p + 1] # "space"
  BY DEF Beginning, Leaves
<1>2. CASE Preceding(t, p) = "colon"
  BY <1>2 DEF SuperIs, Parent
<1>3. CASE Preceding(t, p) # "colon"
  <2>1. ~(Preceding(t, p) \in Leaves /\ Around(tree, p) # -1)
    <3> SUFFICES ASSUME Preceding(t, p) \in Leaves, Around(tree, p) # -1
                 PROVE  FALSE
      OBVIOUS
    <3>1. InObject(t, p) \/ InArray(t, p)
      BY <1>1, StandsAt
    <3> QED
      BY <1>3, <3>1 DEF InObject, InArray, KeyBegins, Beginning, Leaves
  <2>2. super = Around(tree, p)
    BY <1>3, <2>1 DEF SuperIs, AtKey
  <2> QED
    BY <1>3, <2>2 DEF Parent
<1> QED
  BY <1>2, <1>3

LEMMA SuperOfLeaf ==
    ASSUME NEW t, Len(t) \in Nat, NEW tree \in Seq(Token), LaidOut(t, tree),
           NEW p \in Nat, t[p + 1] \in Leaves, NEW n \in Nat,
           NEW super, super = Parent(t, tree, n), tree[n + 1].start = p,
           SuperIs(super, n, t, tree, p)
    PROVE  SuperIs(super, n + 1, t, tree, p + 1)
<1>1. Preceding(t, p + 1) = t[p + 1] /\ Before(t, p + 1) = p
  BY PrecedingNext DEF Leaves
<1>2. Around(tree, p + 1) = Around(tree, p)
  BY AroundStays DEF Leaves, Around
<1>3. CASE Preceding(t, p) = "colon"
  BY <1>1, <1>2, <1>3 DEF SuperIs, AtKey, Leaves
<1>4. CASE Preceding(t, p) # "colon"
  BY <1>1, <1>2, <1>4 DEF SuperIs, Parent, Leaves
<1> QED
  BY <1>3, <1>4

(* After a bracket or a comma.                                             *)
LEMMA SuperInside ==
    ASSUME NEW t, NEW tree, NEW p \in Nat, NEW n,
           t[p + 1] \in {"lbrace", "lbracket", "rbrace", "rbracket", "comma"},
           NEW super, super = Around(tree, p + 1)
    PROVE  SuperIs(super, n, t, tree, p + 1)
<1>1. Preceding(t, p + 1) = t[p + 1]
  BY PrecedingNext
<1> QED
  BY <1>1 DEF SuperIs, Leaves

LEMMA SuperOverSpace ==
    ASSUME NEW t, Len(t) \in Nat, NEW tree \in Seq(Token), LaidOut(t, tree),
           NEW p \in Nat, t[p + 1] = "space", NEW n,
           NEW super, SuperIs(super, n, t, tree, p)
    PROVE  SuperIs(super, n, t, tree, p + 1)
<1>1. Preceding(t, p + 1) = Preceding(t, p) /\ Before(t, p + 1) = Before(t, p)
  BY PrecedingNext
<1>2. Around(tree, p + 1) = Around(tree, p)
  BY AroundStays DEF Around
<1> QED
  BY <1>1, <1>2 DEF SuperIs, AtKey

(* The latest token begins at the symbol before, if that is a leaf.        *)
LEMMA LatestNode ==
    ASSUME NEW t, Len(t) \in Nat, NEW tree \in Seq(Token), LaidOut(t, tree),
           NEW p \in Nat, p <= Len(t), NEW n, Filled(n, tree, p),
           Preceding(t, p) \in Leaves
    PROVE  /\ n - 1 \in Nodes(tree)
           /\ tree[(n - 1) + 1].start = Before(t, p)
<1> DEFINE q == Before(t, p)
<1>1. /\ q \in 0..(p - 1) /\ t[q + 1] = Preceding(t, p)
      /\ \A o \in 0..(p - 1) : t[o + 1] # "space" => o <= q
  BY BeforeIs DEF Preceding, Leaves
<1> HIDE DEF q
<1>2. q \in 0..(Len(t) - 1) /\ t[q + 1] \in Beginning
  BY <1>1 DEF Beginning
<1>3. PICK j \in Nodes(tree) : tree[j + 1].start = q
  BY <1>2 DEF LaidOut
<1>4. n \in Nat /\ n <= Len(tree) /\ Len(tree) \in Nat /\ j \in Nat /\ j < n
  <2>1. n \in Nat /\ n <= Len(tree) /\ (j < n <=> tree[j + 1].start < p)
    BY <1>3 DEF Filled
  <2>2. q < p
    BY <1>1
  <2>3. Len(tree) \in Nat
    OBVIOUS
  <2>4. j \in Nat
    BY <1>3, <2>3 DEF Nodes
  <2> QED
    BY <1>3, <2>1, <2>2, <2>3, <2>4
<1>5. n - 1 \in Nodes(tree)
  BY <1>4 DEF Nodes
<1>6. j = n - 1
  <2> DEFINE k == n - 1
  <2> SUFFICES ASSUME j < k PROVE FALSE
    BY <1>4
  <2>1. k \in Nodes(tree) /\ k < n
    BY <1>4, <1>5
  <2> HIDE DEF k
  <2>2. q < tree[k + 1].start
    BY <1>3, <2>1 DEF LaidOut
  <2>3. tree[k + 1].start < p
    BY <2>1 DEF Filled
  <2>4. tree[k + 1].start \in Nat /\ t[tree[k + 1].start + 1] \in Beginning
    BY <2>1, NodeIs
  <2>5. tree[k + 1].start <= q
    <3> DEFINE o == tree[k + 1].start
    <3>1. o \in 0..(p - 1) /\ t[o + 1] # "space"
      BY <2>3, <2>4 DEF Beginning, Leaves
    <3> HIDE DEF o
    <3>2. o <= q
      BY <1>1, <3>1
    <3> QED
      BY <3>2 DEF o
  <2> QED
    BY <1>1, <2>2, <2>4, <2>5
<1> QED
  BY <1>3, <1>5, <1>6 DEF q

LEMMA SuperAfterColon ==
    ASSUME NEW t, Len(t) \in Nat, NEW tree \in Seq(Token), LaidOut(t, tree),
           WellFormed(t, tree), NEW p \in Nat, p < Len(t), t[p + 1] = "colon",
           NEW n, Filled(n, tree, p)
    PROVE  SuperIs(n - 1, n, t, tree, p + 1)
<1>1. Around(tree, p) # -1 /\ (InObject(t, p) \/ InArray(t, p))
  BY StandsAt DEF Beginning, Leaves
<1>2. Preceding(t, p) = "string"
  BY <1>1 DEF InObject, InArray, Beginning, Leaves
<1>3. n - 1 \in Nodes(tree) /\ tree[(n - 1) + 1].start = Before(t, p)
  BY <1>2, LatestNode DEF Leaves
<1>4. t[Before(t, p) + 1] = "string"
  BY <1>2 DEF Preceding
<1>5. tree[(n - 1) + 1].type = TypeOf["string"]
  BY <1>3, <1>4, NodeIs
<1>6. tree[(n - 1) + 1].type \notin Containers
  BY <1>5, TypesOf DEF Leaves
<1>7. Preceding(t, p + 1) = "colon"
  BY PrecedingNext
<1>8. Around(tree, p + 1) = Around(tree, p)
  BY AroundStays DEF Around
<1>9. n - 1 # -1
  BY <1>3 DEF Nodes
<1> QED
  BY <1>1, <1>6, <1>7, <1>8, <1>9 DEF SuperIs, AtKey

(* On the way the tokens are those the tree has so far.                    *)
OnTree ==
    /\ SoFar(tokens, text, input.tree, pos)
    /\ SuperIs(toksuper, toknext, text, input.tree, pos)

Outcome ==
    IF Len(input.tree) <= input.limit
    THEN ret = "ok" /\ tokens = input.tree
    ELSE ret = "JSMN_ERROR_NOMEM"

FollowsTree ==
    IsDocument(text, input.tree) => IF ret = "none" THEN OnTree ELSE Outcome

(* Reading a document: the types, and what the grammar says.               *)
Reading(S) == Counters /\ IsDocument(text, input.tree) /\ OnTree /\ Reads(S)

NextOnTree ==
    /\ ret' = ret
    /\ SoFar(tokens', text, input.tree, pos')
    /\ SuperIs(toksuper', Len(tokens'), text, input.tree, pos')

LEMMA ReadingIs ==
    ASSUME NEW S, Reading(S)
    PROVE  /\ toknext \in Nat /\ toknext = Len(tokens) /\ tokens \in Seq(Token)
           /\ pos \in Nat /\ Len(text) \in Nat /\ pos < Len(text)
           /\ Symbol = text[pos + 1] /\ text[pos + 1] \in S
           /\ input.tree \in Seq(Token) /\ input.limit \in Nat
           /\ LaidOut(text, input.tree) /\ WellFormed(text, input.tree)
           /\ SoFar(tokens, text, input.tree, pos)
           /\ Filled(toknext, input.tree, pos)
           /\ SuperIs(toksuper, toknext, text, input.tree, pos)
           /\ Unclosed(tokens) = Enclosing(input.tree, pos)
<1>1. Counters /\ Reads(S)
  BY DEF Reading
<1>2. /\ toknext \in Nat /\ toknext = Len(tokens) /\ tokens \in Seq(Token)
      /\ pos \in Nat /\ Len(text) \in Nat /\ pos < Len(text)
      /\ Symbol = text[pos + 1] /\ text[pos + 1] \in S
      /\ input.tree \in Seq(Token) /\ input.limit \in Nat
  BY <1>1, Lengths DEF Counters, Input, Reads, Symbol, toknext
<1>3. /\ LaidOut(text, input.tree) /\ WellFormed(text, input.tree)
      /\ SoFar(tokens, text, input.tree, pos)
      /\ SuperIs(toksuper, toknext, text, input.tree, pos)
  BY DEF Reading, IsDocument, OnTree
<1>4. Filled(toknext, input.tree, pos)
  BY <1>2, <1>3 DEF SoFar
<1>5. Unclosed(tokens) = Enclosing(input.tree, pos)
  BY <1>2, <1>3, UnclosedIs
<1> QED
  BY <1>2, <1>3, <1>4, <1>5

LEMMA NextNode ==
    ASSUME NEW S, Reading(S), S \subseteq Beginning
    PROVE  /\ toknext \in Nodes(input.tree)
           /\ input.tree[toknext + 1].start = pos
           /\ Filled(toknext + 1, input.tree, pos + 1)
           /\ toksuper = Parent(text, input.tree, toknext)
<1>1. text[pos + 1] \in Beginning
  BY ReadingIs
<1>2. /\ toknext \in Nodes(input.tree) /\ input.tree[toknext + 1].start = pos
      /\ Filled(toknext + 1, input.tree, pos + 1)
  BY <1>1, ReadingIs, NodeHere
<1> QED
  BY <1>1, <1>2, ReadingIs, SuperIsParent

LEMMA OpenOnTree ==
    ASSUME Reading({"lbrace", "lbracket"}), Open
    PROVE  NextOnTree
<1> DEFINE S == {"lbrace", "lbracket"}
           tree == input.tree
<1>1. Counters /\ Reads(S) /\ NewToken(-1) /\ toksuper' = toknext
      /\ S \subseteq {"lbrace", "lbracket", "string", "primitive"}
      /\ S \subseteq Beginning /\ -1 \in Nat \cup {-1}
  BY DEF Reading, Open, Beginning
<1>2. /\ toknext \in Nodes(tree) /\ tree[toknext + 1].start = pos
      /\ Filled(toknext + 1, tree, pos + 1)
      /\ toksuper = Parent(text, tree, toknext)
  BY <1>1, NextNode
<1>3. /\ toknext \in Nat /\ pos \in Nat /\ Len(text) \in Nat /\ text[pos + 1] \in S
      /\ tree \in Seq(Token) /\ LaidOut(text, tree) /\ SoFar(tokens, text, tree, pos)
  BY ReadingIs
<1>4. tree[toknext + 1].end \in Nat /\ pos + 1 < tree[toknext + 1].end
  <2>1. tree[toknext + 1].type \in Containers
    BY <1>2, <1>3, NodeIs DEF Leaves
  <2> QED
    BY <1>2, <1>3, <2>1, NodeIs
<1> HIDE DEF tree
<1>5. -1 = IF tree[toknext + 1].end <= pos + 1 THEN tree[toknext + 1].end ELSE -1
  BY <1>3, <1>4
<1>6. SoFar(tokens', text, tree, pos + 1)
  BY <1>1, <1>2, <1>3, <1>5, AddedSoFar
<1>7. toksuper' = Around(tree, pos + 1)
  BY <1>1, <1>2, <1>3, AroundOpened
<1>8. SuperIs(toksuper', Len(tokens'), text, tree, pos + 1)
  <2>1. /\ text[pos + 1] \in {"lbrace", "lbracket", "rbrace", "rbracket", "comma"}
        /\ pos \in Nat
    BY <1>3
  <2> QED
    BY <1>7, <2>1, SuperInside
<1>9. pos' = pos + 1 /\ ret' = ret
  BY <1>1 DEF NewToken
<1> QED
  BY <1>6, <1>8, <1>9 DEF NextOnTree, tree

LEMMA ValueOnTree ==
    ASSUME Reading({"string", "primitive"}), Value
    PROVE  NextOnTree
<1> DEFINE S == {"string", "primitive"}
           tree == input.tree
<1>1. Counters /\ Reads(S) /\ NewToken(pos + 1) /\ toksuper' = toksuper
      /\ S \subseteq {"lbrace", "lbracket", "string", "primitive"}
      /\ S \subseteq Beginning /\ S \subseteq Leaves
  BY DEF Reading, Value, Beginning, Leaves
<1>2. /\ toknext \in Nodes(tree) /\ tree[toknext + 1].start = pos
      /\ Filled(toknext + 1, tree, pos + 1)
      /\ toksuper = Parent(text, tree, toknext)
  BY <1>1, NextNode
<1>3. /\ toknext \in Nat /\ pos \in Nat /\ Len(text) \in Nat
      /\ text[pos + 1] \in Leaves /\ text[pos + 1] \in S
      /\ tree \in Seq(Token) /\ LaidOut(text, tree) /\ SoFar(tokens, text, tree, pos)
      /\ SuperIs(toksuper, toknext, text, tree, pos)
  BY <1>1, ReadingIs
<1>4. tree[toknext + 1].end = pos + 1
  <2>1. tree[toknext + 1].type \notin Containers
    BY <1>2, <1>3, NodeIs DEF Leaves
  <2> QED
    BY <1>2, <1>3, <2>1, NodeIs
<1> HIDE DEF tree
<1>5. /\ pos + 1 = IF tree[toknext + 1].end <= pos + 1 THEN tree[toknext + 1].end ELSE -1
      /\ pos + 1 \in Nat \cup {-1}
  BY <1>3, <1>4
<1>6. SoFar(tokens', text, tree, pos + 1)
  BY <1>1, <1>2, <1>3, <1>5, AddedSoFar
<1>7. Len(tokens') = toknext + 1
  BY <1>1, <1>5, AddedToken DEF toknext
<1>8. SuperIs(toksuper, toknext + 1, text, tree, pos + 1)
  BY <1>2, <1>3, SuperOfLeaf
<1>9. pos' = pos + 1 /\ ret' = ret
  BY <1>1 DEF NewToken
<1> QED
  BY <1>1, <1>6, <1>7, <1>8, <1>9 DEF NextOnTree, tree

LEMMA CloseOnTree ==
    ASSUME Reading({"rbrace", "rbracket"}), Close
    PROVE  NextOnTree
<1> DEFINE tree == input.tree
           a == Around(tree, pos)
<1>1. /\ pos \in Nat /\ Len(text) \in Nat /\ pos < Len(text) /\ Symbol = text[pos + 1]
      /\ text[pos + 1] \in {"rbrace", "rbracket"}
      /\ tree \in Seq(Token) /\ LaidOut(text, tree) /\ SoFar(tokens, text, tree, pos)
      /\ Unclosed(tokens) = Enclosing(tree, pos)
      /\ Filled(toknext, tree, pos) /\ toknext = Len(tokens) /\ toknext \in Nat
      /\ Counters
  BY ReadingIs DEF Reading
<1>2. a = LastOf(Unclosed(tokens))
  BY <1>1 DEF Around
<1>3. a \in Nodes(tree) /\ tree[a + 1].type = TypeOf[Symbol]
  BY <1>1, ClosedHere
<1>4. a # -1
  BY <1>3 DEF Nodes
<1>5. At(a).type = tree[a + 1].type
  <2>1. a \in Enclosing(tree, pos)
    BY <1>4, AroundIs, <1>1
  <2>2. a \in 0..(Len(tokens) - 1)
    BY <1>1, <2>1 DEF Unclosed
  <2> QED
    BY <1>1, <2>2 DEF SoFar, At
<1>6. /\ Finished(tokens', a) /\ toksuper' = LastOf(Unclosed(tokens'))
      /\ pos' = pos + 1 /\ ret' = ret
  BY <1>2, <1>3, <1>4, <1>5 DEF Close, Finished
<1>7. SoFar(tokens', text, tree, pos + 1) /\ tokens' \in Seq(Token)
  BY <1>1, <1>6, ClosedSoFar
<1>8. Unclosed(tokens') = Enclosing(tree, pos + 1)
  BY <1>1, <1>7, UnclosedIs
<1>9. toksuper' = Around(tree, pos + 1)
  BY <1>6, <1>8 DEF Around
<1>10. SuperIs(toksuper', Len(tokens'), text, tree, pos + 1)
  <2>1. text[pos + 1] \in {"lbrace", "lbracket", "rbrace", "rbracket", "comma"}
    BY <1>1
  <2> HIDE DEF tree
  <2> QED
    BY <1>1, <1>9, <2>1, SuperInside
<1> QED
  BY <1>6, <1>7, <1>10 DEF NextOnTree

LEMMA CommaOnTree ==
    ASSUME Reading({"comma"}), Comma
    PROVE  NextOnTree
<1> DEFINE tree == input.tree
           a == Around(tree, pos)
<1>1. /\ pos \in Nat /\ Len(text) \in Nat /\ pos < Len(text)
      /\ text[pos + 1] = "comma" /\ tokens \in Seq(Token)
      /\ tree \in Seq(Token) /\ LaidOut(text, tree) /\ WellFormed(text, tree)
      /\ SoFar(tokens, text, tree, pos)
      /\ Unclosed(tokens) = Enclosing(tree, pos)
      /\ toknext = Len(tokens) /\ toknext \in Nat
      /\ SuperIs(toksuper, toknext, text, tree, pos)
      /\ Counters
  BY ReadingIs DEF Reading
<1>2. a # -1 /\ (InObject(text, pos) \/ InArray(text, pos))
  BY <1>1, StandsAt DEF Beginning, Leaves
<1>3. Preceding(text, pos) # "colon"
  BY <1>1, <1>2 DEF InObject, InArray, MemberEnds, Beginning, Ending, Leaves
<1>4. a \in Enclosing(tree, pos) /\ a = Max(Unclosed(tokens)) /\ Unclosed(tokens) # {}
      /\ a \in 0..(toknext - 1)
  BY <1>1, <1>2, AroundIs DEF Unclosed
<1>5. At(a).type \in Containers
  <2>1. a \in Nodes(tree) /\ tree[a + 1].start < pos /\ pos < tree[a + 1].end
    BY <1>4 DEF Enclosing
  <2>2. tree[a + 1].start \in Nat
    BY <1>1, <2>1, NodeIs
  <2>3. tree[a + 1].end # tree[a + 1].start + 1
    <3> HIDE DEF a, tree
    <3> QED
      BY <1>1, <2>1, <2>2
  <2>4. tree[a + 1].type \in Containers
    BY <1>1, <2>1, <2>3, NodeIs
  <2>5. At(a).type = tree[a + 1].type
    BY <1>1, <1>4 DEF SoFar, At
  <2> QED
    BY <2>4, <2>5
<1>6. toksuper' = a
  <2>1. CASE AtKey(toksuper, tree, pos)
    <3>1. toksuper \in 0..(toknext - 1)
      BY <1>1, <2>1 DEF AtKey, Counters
    <3>2. At(toksuper).type \notin Containers
      BY <1>1, <2>1, <3>1 DEF AtKey, SoFar, At
    <3>3. toksuper # -1
      BY <2>1 DEF AtKey
    <3> QED
      BY <1>4, <3>2, <3>3 DEF Comma
  <2>2. CASE toksuper = a
    BY <1>2, <1>5, <2>2 DEF Comma
  <2> QED
    BY <1>1, <1>3, <2>1, <2>2 DEF SuperIs
<1>7. pos' = pos + 1 /\ ret' = ret /\ tokens' = tokens
  BY DEF Comma
<1>8. Around(tree, pos + 1) = a
  BY <1>1, AroundStays DEF Around
<1>9. SoFar(tokens, text, tree, pos + 1)
  BY <1>1, PassedSoFar
<1>10. SuperIs(toksuper', Len(tokens'), text, tree, pos + 1)
  BY <1>1, <1>6, <1>8, SuperInside
<1> QED
  BY <1>7, <1>9, <1>10 DEF NextOnTree

LEMMA SpaceOnTree ==
    ASSUME Reading({"space"}), Space
    PROVE  NextOnTree
<1> DEFINE tree == input.tree
<1>1. /\ pos \in Nat /\ Len(text) \in Nat /\ pos < Len(text)
      /\ text[pos + 1] = "space" /\ tokens \in Seq(Token)
      /\ tree \in Seq(Token) /\ LaidOut(text, tree) /\ WellFormed(text, tree)
      /\ SoFar(tokens, text, tree, pos) /\ Filled(toknext, tree, pos)
      /\ toknext = Len(tokens)
      /\ SuperIs(toksuper, toknext, text, tree, pos)
  BY ReadingIs
<1>2. pos' = pos + 1 /\ ret' = ret /\ tokens' = tokens /\ toksuper' = toksuper
  BY DEF Space
<1>3. SoFar(tokens, text, tree, pos + 1)
  BY <1>1, PassedSoFar
<1>4. SuperIs(toksuper, toknext, text, tree, pos + 1)
  BY <1>1, SuperOverSpace
<1> QED
  BY <1>1, <1>2, <1>3, <1>4 DEF NextOnTree

LEMMA ColonOnTree ==
    ASSUME Reading({"colon"}), Colon
    PROVE  NextOnTree
<1> DEFINE tree == input.tree
<1>1. /\ pos \in Nat /\ Len(text) \in Nat /\ pos < Len(text)
      /\ text[pos + 1] = "colon" /\ tokens \in Seq(Token)
      /\ tree \in Seq(Token) /\ LaidOut(text, tree) /\ WellFormed(text, tree)
      /\ SoFar(tokens, text, tree, pos) /\ Filled(toknext, tree, pos)
      /\ toknext = Len(tokens)
      /\ SuperIs(toksuper, toknext, text, tree, pos)
  BY ReadingIs
<1>2. pos' = pos + 1 /\ ret' = ret /\ tokens' = tokens /\ toksuper' = toknext - 1
  BY DEF Colon
<1>3. SoFar(tokens, text, tree, pos + 1)
  BY <1>1, PassedSoFar
<1>4. SuperIs(toknext - 1, toknext, text, tree, pos + 1)
  BY <1>1, SuperAfterColon
<1> QED
  BY <1>1, <1>2, <1>3, <1>4 DEF NextOnTree

(* Nothing is wrong with a document, and only the room may not suffice.    *)
LEMMA NoRoomForTree ==
    ASSUME Reading({"lbrace", "lbracket", "string", "primitive"}), NoMemory
    PROVE  ret' = "JSMN_ERROR_NOMEM" /\ ~(Len(input.tree) <= input.limit)
<1>1. {"lbrace", "lbracket", "string", "primitive"} \subseteq Beginning
  BY DEF Beginning, Leaves
<1>2. toknext \in Nodes(input.tree)
  BY <1>1, NextNode
<1>3. toknext \in Nat /\ input.limit \in Nat /\ input.tree \in Seq(Token)
  BY ReadingIs
<1>4. toknext >= input.limit /\ ret' = "JSMN_ERROR_NOMEM"
  BY DEF NoMemory, Return
<1> QED
  BY <1>2, <1>3, <1>4 DEF Nodes

LEMMA NoBadValue ==
    ASSUME Reading({"bad_string", "bad_primitive", "open_string"})
    PROVE  FALSE
<1>1. /\ Len(text) \in Nat /\ pos \in Nat /\ pos < Len(text)
      /\ text[pos + 1] \in {"bad_string", "bad_primitive", "open_string"}
      /\ WellFormed(text, input.tree)
  BY ReadingIs
<1>2. text[pos + 1] # "space" /\ text[pos + 1] \notin Beginning
  BY <1>1 DEF Beginning, Leaves
<1>3. InObject(text, pos) \/ InArray(text, pos)
  BY <1>1, <1>2, StandsAt
<1> QED
  BY <1>1, <1>2, <1>3 DEF InObject, InArray

LEMMA TreeAtEnd ==
    ASSUME Counters, IsDocument(text, input.tree), OnTree, End
    PROVE  Outcome'
<1> DEFINE tree == input.tree
<1>1. /\ toknext \in Nat /\ toknext = Len(tokens) /\ tokens \in Seq(Token)
      /\ pos \in Nat /\ pos = Len(text) /\ toknext <= input.limit
      /\ tree \in Seq(Token) /\ input.limit \in Nat
  BY Lengths DEF End, Counters, Input, toknext
<1>2. LaidOut(text, tree) /\ SoFar(tokens, text, tree, pos) /\ Filled(toknext, tree, pos)
  BY <1>1 DEF IsDocument, OnTree, SoFar
<1>3. \A k \in Nodes(tree) : tree[k + 1].start < pos /\ tree[k + 1].end <= pos
  <2> SUFFICES ASSUME NEW k \in Nodes(tree)
               PROVE  tree[k + 1].start < pos /\ tree[k + 1].end <= pos
    OBVIOUS
  <2>1. /\ tree[k + 1].start \in Nat /\ tree[k + 1].end \in Nat
        /\ tree[k + 1].start < tree[k + 1].end /\ tree[k + 1].end <= Len(text)
    BY <1>1, <1>2, NodeIs
  <2> QED
    BY <1>1, <2>1
<1>4. toknext = Len(tree)
  <2>1. toknext <= Len(tree) /\ \A k \in Nodes(tree) : k < toknext
    BY <1>2, <1>3 DEF Filled
  <2> QED
    BY <1>1, <2>1 DEF Nodes
<1>5. \A k \in 0..(Len(tokens) - 1) : k \in Nodes(tree)
  BY <1>1, <1>4 DEF Nodes
<1>6. Unclosed(tokens) = {}
  <2>1. Unclosed(tokens) = Enclosing(tree, pos)
    BY <1>1, <1>2, UnclosedIs
  <2>2. \A k \in Nodes(tree) : ~(pos < tree[k + 1].end)
    <3> SUFFICES ASSUME NEW k \in Nodes(tree) PROVE ~(pos < tree[k + 1].end)
      OBVIOUS
    <3>1. tree[k + 1].end \in Nat
      BY <1>1, <1>2, NodeIs
    <3> QED
      BY <1>1, <1>3, <3>1
  <2> QED
    BY <2>1, <2>2 DEF Enclosing
<1>7. ASSUME NEW k \in 0..(Len(tokens) - 1) PROVE tokens[k + 1] = tree[k + 1]
  <2>1. k \in Nodes(tree) /\ k + 1 \in 1..Len(tokens)
    BY <1>1, <1>5
  <2>2. tokens[k + 1] \in Token /\ tree[k + 1] \in Token
    <3>1. tokens[k + 1] \in Token
      BY <1>1, <2>1
    <3>2. k + 1 \in 1..Len(tree)
      BY <1>1, <1>4, <2>1
    <3> HIDE DEF tree
    <3> QED
      BY <1>1, <3>1, <3>2
  <2>3. tree[k + 1].size = SizeSoFar(text, tree, Len(tokens), k)
    <3>1. Nodes(tree) = 0..(Len(tokens) - 1)
      BY <1>1, <1>4 DEF Nodes
    <3> QED
      BY <2>1, <3>1 DEF IsDocument, Children, SizeSoFar
  <2>4. /\ tokens[k + 1].type = tree[k + 1].type
        /\ tokens[k + 1].start = tree[k + 1].start
        /\ tokens[k + 1].end = tree[k + 1].end
        /\ tokens[k + 1].size = tree[k + 1].size
    BY <1>2, <1>3, <2>1, <2>3 DEF SoFar
  <2> QED
    BY <2>2, <2>4 DEF Token
<1>8. tokens = tree
  <2>1. \A i \in 1..Len(tokens) : tokens[i] = tree[i]
    <3> SUFFICES ASSUME NEW i \in 1..Len(tokens) PROVE tokens[i] = tree[i]
      OBVIOUS
    <3>1. i - 1 \in 0..(Len(tokens) - 1) /\ (i - 1) + 1 = i
      BY <1>1
    <3>2. tokens[(i - 1) + 1] = tree[(i - 1) + 1]
      BY <1>7, <3>1
    <3> QED
      BY <3>1, <3>2
  <2> HIDE DEF tree
  <2> QED
    BY <1>1, <1>4, <2>1, SeqEqual
<1>9. ret' = "ok" /\ tokens' = tokens /\ input' = input
  BY <1>6 DEF End, Return
<1> QED
  BY <1>1, <1>4, <1>8, <1>9 DEF Outcome

LEMMA TreeStep ==
    ASSUME IInv, FollowsTree, [Next]_vars
    PROVE  FollowsTree'
<1>0. Counters
  BY DEF IInv
<1>1. CASE UNCHANGED vars
  BY <1>1 DEF vars, FollowsTree, OnTree, Outcome, text, toknext
<1>2. CASE Next
  <2>1. UNCHANGED input
    BY <1>2 DEF Next, Open, Value, NoMemory, BadValue, Close, Space, Colon, Comma,
                End, NewToken, Return
  <2> SUFFICES ASSUME IsDocument(text, input.tree)
               PROVE  IF ret' = "none" THEN OnTree' ELSE Outcome'
    BY <2>1 DEF FollowsTree, text
  <2>2. ret = "none"
    BY <1>2 DEF Next, Open, Value, NoMemory, BadValue, Close, Space, Colon, Comma,
                End, Reads
  <2>3. OnTree
    BY <2>2 DEF FollowsTree
  <2>4. NextOnTree => IF ret' = "none" THEN OnTree' ELSE Outcome'
    BY <2>1, <2>2 DEF NextOnTree, OnTree, text, toknext
  <2>5. \A S : Reads(S) => Reading(S)
    BY <1>0, <2>3 DEF Reading
  <2>6. CASE Open
    BY <2>4, <2>5, <2>6, OpenOnTree DEF Open
  <2>7. CASE Value
    BY <2>4, <2>5, <2>7, ValueOnTree DEF Value
  <2>8. CASE Close
    BY <2>4, <2>5, <2>8, CloseOnTree DEF Close
  <2>9. CASE Space
    BY <2>4, <2>5, <2>9, SpaceOnTree DEF Space
  <2>10. CASE Colon
    BY <2>4, <2>5, <2>10, ColonOnTree DEF Colon
  <2>11. CASE Comma
    BY <2>4, <2>5, <2>11, CommaOnTree DEF Comma
  <2>12. CASE NoMemory
    <3>1. ret' = "JSMN_ERROR_NOMEM" /\ ~(Len(input.tree) <= input.limit)
      BY <2>5, <2>12, NoRoomForTree DEF NoMemory
    <3> QED
      BY <2>1, <3>1 DEF Outcome
  <2>13. CASE BadValue
    <3>1. \E S : Reads(S) /\ S \subseteq {"bad_string", "bad_primitive", "open_string"}
      BY <2>13 DEF BadValue
    <3>2. Reads({"bad_string", "bad_primitive", "open_string"})
      BY <3>1 DEF Reads
    <3> QED
      BY <2>5, <3>2, NoBadValue
  <2>14. CASE End
    <3>1. Outcome' /\ ret' # "none"
      BY <1>0, <2>3, <2>14, TreeAtEnd DEF End, Return
    <3> QED
      BY <3>1
  <2> QED
    BY <1>2, <2>6, <2>7, <2>8, <2>9, <2>10, <2>11, <2>12, <2>13, <2>14 DEF Next
<1> QED
  BY <1>1, <1>2

LEMMA TreeInit == Init => FollowsTree
<1> SUFFICES ASSUME Init, IsDocument(text, input.tree) PROVE OnTree
  BY DEF Init, FollowsTree
<1> DEFINE tree == input.tree
<1>1. /\ tokens = <<>> /\ pos = 0 /\ toksuper = -1 /\ tree \in Seq(Token)
      /\ Len(text) \in Nat /\ LaidOut(text, tree)
  BY InputsAssumption DEF Init, Input, IsDocument, text
<1>2. Len(tokens) = 0 /\ toknext = 0 /\ Len(tree) \in Nat
  BY <1>1 DEF toknext
<1>3. \A k \in Nodes(tree) :
         /\ k \in Nat /\ tree[k + 1].start \in Nat
         /\ ~(k < 0) /\ ~(tree[k + 1].start < 0)
  <2> SUFFICES ASSUME NEW k \in Nodes(tree)
               PROVE  k \in Nat /\ tree[k + 1].start \in Nat
    OBVIOUS
  <2> QED
    BY <1>1, NodeIs
<1>4. SoFar(tokens, text, tree, pos)
  BY <1>1, <1>2, <1>3 DEF SoFar, Filled
<1>5. Preceding(text, 0) = "none"
  BY BeforeIs DEF Preceding
<1>6. Around(tree, 0) = -1
  <2>1. Enclosing(tree, 0) = {}
    BY <1>3 DEF Enclosing
  <2> QED
    BY <2>1 DEF Around, LastOf
<1> QED
  BY <1>1, <1>4, <1>5, <1>6 DEF OnTree, SuperIs, Leaves

(* Of a document of any length and nesting, with white space anywhere, the *)
(* tokenizer gives the tree, or says that there is no room for it.         *)
THEOREM GivesTheTree == Spec => []TreeOfDocument
<1>1. IInv /\ FollowsTree => TreeOfDocument
  BY DEF FollowsTree, TreeOfDocument, Outcome
<1>2. Init => FollowsTree
  BY TreeInit
<1>3. IInv /\ FollowsTree /\ [Next]_vars => FollowsTree'
  BY TreeStep
<1>4. Spec => []IInv
  BY Invariant
<1> QED
  BY <1>1, <1>2, <1>3, <1>4, PTL DEF Spec

-----------------------------------------------------------------------------
(* Orders: the nodes around the nodes of a document.                       *)

(* The nodes that hold node k: those around the place where it begins.     *)
HoldersOf(tree, k) == Enclosing(tree, tree[k + 1].start)

LEMMA HoldersAre ==
    ASSUME NEW t, Len(t) \in Nat, NEW tree \in Seq(Token), LaidOut(t, tree),
           NEW k \in Nodes(tree), NEW j
    PROVE  j \in HoldersOf(tree, k) <=>
               j \in Nodes(tree) /\ j < k /\ tree[k + 1].start < tree[j + 1].end
<1> SUFFICES ASSUME j \in Nodes(tree)
             PROVE  tree[j + 1].start < tree[k + 1].start <=> j < k
  BY DEF HoldersOf, Enclosing
<1>1. j \in Nat /\ k \in Nat /\ tree[j + 1].start \in Nat /\ tree[k + 1].start \in Nat
  BY NodeIs
<1>2. j < k => tree[j + 1].start < tree[k + 1].start
  BY DEF LaidOut
<1>3. k < j => tree[k + 1].start < tree[j + 1].start
  BY DEF LaidOut
<1>4. j = k => tree[k + 1].start = tree[j + 1].start
  OBVIOUS
<1>5. j < k \/ j = k \/ k < j
  BY <1>1
<1> QED
  BY <1>1, <1>2, <1>3, <1>4, <1>5

LEMMA HoldersNested ==
    ASSUME NEW t, Len(t) \in Nat, NEW tree \in Seq(Token), LaidOut(t, tree),
           NEW k \in Nodes(tree), NEW j \in HoldersOf(tree, k),
           NEW m \in Nodes(tree), j < m, m <= k
    PROVE  j \in HoldersOf(tree, m)
<1>1. j \in Nodes(tree) /\ j < k /\ tree[k + 1].start < tree[j + 1].end
  BY HoldersAre
<1>2. /\ k \in Nat /\ m \in Nat /\ tree[j + 1].end \in Nat
      /\ tree[k + 1].start \in Nat /\ tree[m + 1].start \in Nat
  BY <1>1, NodeIs
<1>3. tree[m + 1].start <= tree[k + 1].start
  <2>1. m < k => tree[m + 1].start < tree[k + 1].start
    BY DEF LaidOut
  <2> QED
    BY <1>2, <2>1
<1>4. tree[m + 1].start < tree[j + 1].end
  BY <1>1, <1>2, <1>3
<1> QED
  BY <1>1, <1>4, HoldersAre

(* Over places without a bracket.                                          *)
LEMMA EnclosingAcross ==
    ASSUME NEW t, Len(t) \in Nat, NEW tree \in Seq(Token), LaidOut(t, tree),
           NEW p \in Nat, NEW q \in Nat, p <= q,
           \A o \in p..(q - 1) : t[o + 1] \notin {"lbrace", "lbracket", "rbrace", "rbracket"}
    PROVE  Enclosing(tree, q) = Enclosing(tree, p)
<1> SUFFICES ASSUME NEW k \in Nodes(tree)
             PROVE  tree[k + 1].start < q /\ q < tree[k + 1].end <=>
                    tree[k + 1].start < p /\ p < tree[k + 1].end
  BY DEF Enclosing
<1> DEFINE x == tree[k + 1]
<1>1. x.start \in Nat /\ x.end \in Nat /\ x.start < x.end
  BY NodeIs
<1>2. x.type \notin Containers => x.end = x.start + 1
  BY NodeIs
<1>3. x.type \in Containers =>
        /\ t[x.start + 1] \in {"lbrace", "lbracket"}
        /\ t[x.end] \in {"rbrace", "rbracket"}
  BY NodeIs
<1> HIDE DEF x
<1>4. ASSUME x.type \in Containers
      PROVE  x.start \notin p..(q - 1) /\ x.end - 1 \notin p..(q - 1)
  <2>1. x.start \notin p..(q - 1)
    BY <1>3, <1>4
  <2>2. t[(x.end - 1) + 1] \in {"rbrace", "rbracket"}
    BY <1>1, <1>3, <1>4
  <2>3. x.end - 1 \notin p..(q - 1)
    BY <2>2
  <2> QED
    BY <2>1, <2>3
<1>5. x.start < q /\ q < x.end <=> x.start < p /\ p < x.end
  <2>1. CASE x.type \in Containers
    BY <1>1, <1>4, <2>1
  <2>2. CASE x.type \notin Containers
    BY <1>1, <1>2, <2>2
  <2> QED
    BY <2>1, <2>2
<1> QED
  BY <1>5 DEF x

(* The nodes that begin before the place where node k begins.              *)
LEMMA FilledAt ==
    ASSUME NEW t, Len(t) \in Nat, NEW tree \in Seq(Token), LaidOut(t, tree),
           NEW k \in Nodes(tree), NEW p \in Nat, p <= tree[k + 1].start,
           \A o \in p..(tree[k + 1].start - 1) : t[o + 1] \notin Beginning
    PROVE  Filled(k, tree, p)
<1>1. k \in Nat /\ k <= Len(tree) /\ tree[k + 1].start \in Nat /\ Len(tree) \in Nat
  BY NodeIs
<1>2. ASSUME NEW j \in Nodes(tree)
      PROVE  j < k <=> tree[j + 1].start < p
  <2>1. /\ j \in Nat /\ tree[j + 1].start \in Nat
        /\ t[tree[j + 1].start + 1] \in Beginning
    BY NodeIs
  <2>2. tree[j + 1].start \notin p..(tree[k + 1].start - 1)
    BY <2>1
  <2>3. j < k => tree[j + 1].start < tree[k + 1].start
    BY DEF LaidOut
  <2>4. k < j => tree[k + 1].start < tree[j + 1].start
    BY DEF LaidOut
  <2>5. j < k \/ j = k \/ k < j
    BY <1>1, <2>1
  <2> DEFINE d == tree[j + 1].start
             s == tree[k + 1].start
  <2>6. d \in Nat /\ s \in Nat /\ (j = k => d = s) /\ (d < p \/ d >= s) /\ p <= s
    <3>1. d \in Nat /\ s \in Nat /\ (j = k => d = s) /\ p <= s /\ d \notin p..(s - 1)
      BY <1>1, <2>1, <2>2
    <3> HIDE DEF d, s
    <3> QED
      BY <3>1
  <2> HIDE DEF d, s
  <2>7. d < p <=> d < s
    BY <2>6
  <2>8. j < k <=> d < s
    BY <1>1, <2>1, <2>3, <2>4, <2>5, <2>6 DEF d, s
  <2> QED
    BY <2>7, <2>8 DEF d
<1> QED
  BY <1>1, <1>2 DEF Filled

LEMMA GapIs ==
    ASSUME NEW t, NEW p \in Nat, NEW b, b = Before(t, p), Preceding(t, p) # "none"
    PROVE  /\ b \in Nat /\ b < p /\ t[b + 1] = Preceding(t, p)
           /\ \A o \in (b + 1)..(p - 1) : t[o + 1] = "space"
<1>1. b # -1 /\ t[b + 1] = Preceding(t, p)
  BY DEF Preceding
<1>2. b \in -1..(p - 1) /\ \A o \in 0..(p - 1) : t[o + 1] # "space" => o <= b
  BY BeforeIs
<1> QED
  BY <1>1, <1>2

(* A value after a colon: the node before it is its key, a string.         *)
LEMMA ColonBefore ==
    ASSUME NEW t, Len(t) \in Nat, NEW tree \in Seq(Token), LaidOut(t, tree),
           WellFormed(t, tree), NEW k \in Nodes(tree),
           Preceding(t, tree[k + 1].start) = "colon"
    PROVE  /\ k - 1 \in Nodes(tree) /\ tree[(k - 1) + 1].type \notin Containers
           /\ HoldersOf(tree, k) = HoldersOf(tree, k - 1)
<1> DEFINE p == tree[k + 1].start
           c == Before(t, p)
           b == Before(t, c)
<1>1. p \in Nat /\ p < Len(t)
  <2>1. tree[k + 1].start < tree[k + 1].end /\ tree[k + 1].end <= Len(t)
        /\ tree[k + 1].start \in Nat /\ tree[k + 1].end \in Nat
    BY NodeIs
  <2> QED
    BY <2>1
<1>2. /\ c \in Nat /\ c < p /\ t[c + 1] = "colon"
      /\ \A o \in (c + 1)..(p - 1) : t[o + 1] = "space"
  <2> HIDE DEF p, c
  <2>1. Preceding(t, p) = "colon" /\ c = Before(t, p)
    BY DEF p, c
  <2> QED
    BY <1>1, <2>1, GapIs
<1> HIDE DEF c
<1>3. \A o \in c..(p - 1) : o = c \/ o \in (c + 1)..(p - 1)
  BY <1>1, <1>2
<1>4. Filled(k, tree, c)
  <2>1. \A o \in c..(p - 1) : t[o + 1] \notin Beginning
    BY <1>2, <1>3 DEF Beginning, Leaves
  <2>2. c <= p
    BY <1>1, <1>2
  <2> QED
    BY <1>1, <1>2, <2>1, <2>2, FilledAt
<1>5. Preceding(t, c) = "string"
  <2>1. c < Len(t)
    BY <1>1, <1>2
  <2>2. InObject(t, c) \/ InArray(t, c)
    BY <1>2, <2>1, StandsAt DEF Beginning, Leaves
  <2> QED
    BY <1>2, <2>2 DEF InObject, InArray, Beginning, Leaves
<1>6. /\ b \in Nat /\ b < c /\ t[b + 1] = "string"
      /\ \A o \in (b + 1)..(c - 1) : t[o + 1] = "space"
  BY <1>2, <1>5, GapIs
<1>7. k - 1 \in Nodes(tree) /\ tree[(k - 1) + 1].start = b
  <2>1. c <= Len(t) /\ Preceding(t, c) \in Leaves
    BY <1>1, <1>2, <1>5 DEF Leaves
  <2> QED
    BY <1>2, <1>4, <2>1, LatestNode
<1> HIDE DEF b
<1>8. tree[(k - 1) + 1].type \notin Containers
  BY <1>6, <1>7, NodeIs
<1>9. Enclosing(tree, p) = Enclosing(tree, b)
  <2>1. \A o \in b..(p - 1) : \/ o = b \/ o \in (b + 1)..(c - 1)
                              \/ o \in c..(p - 1)
    BY <1>1, <1>2, <1>6
  <2>2. \A o \in b..(p - 1) : t[o + 1] \in {"string", "space", "colon"}
    BY <1>2, <1>3, <1>6, <2>1
  <2>3. \A o \in b..(p - 1) :
            t[o + 1] \notin {"lbrace", "lbracket", "rbrace", "rbracket"}
    BY <2>2
  <2>4. b <= p
    BY <1>1, <1>2, <1>6
  <2> HIDE DEF p
  <2> QED
    BY <1>1, <1>6, <2>3, <2>4, EnclosingAcross
<1> QED
  BY <1>7, <1>8, <1>9 DEF HoldersOf

(* The parent of a node: none, the key before it, or the innermost of the  *)
(* nodes that hold it.                                                     *)
LEMMA ParentHolds ==
    ASSUME NEW t, Len(t) \in Nat, NEW tree \in Seq(Token), LaidOut(t, tree),
           WellFormed(t, tree), NEW k \in Nodes(tree),
           NEW u, u = Parent(t, tree, k)
    PROVE  \/ u = -1 /\ HoldersOf(tree, k) = {}
           \/ /\ u \in Nodes(tree) /\ u = k - 1 /\ tree[u + 1].type \notin Containers
              /\ HoldersOf(tree, k) = HoldersOf(tree, u)
           \/ /\ u \in Nodes(tree) /\ u \in HoldersOf(tree, k)
              /\ tree[u + 1].type \in Containers
              /\ u = Around(tree, tree[k + 1].start)
              /\ \A j \in HoldersOf(tree, k) : j = u \/ (j < u /\ j \in HoldersOf(tree, u))
<1> DEFINE a == Around(tree, tree[k + 1].start)
<1>1. CASE Preceding(t, tree[k + 1].start) = "colon"
  <2>1. u = k - 1
    BY <1>1 DEF Parent
  <2> QED
    BY <1>1, <2>1, ColonBefore
<1>2. CASE Preceding(t, tree[k + 1].start) # "colon"
  <2>1. u = a
    BY <1>2 DEF Parent
  <2>2. CASE a = -1
    BY <2>1, <2>2, AroundIs DEF HoldersOf
  <2>3. CASE a # -1
    <3>1. a \in HoldersOf(tree, k) /\ \A j \in HoldersOf(tree, k) : j <= a
      BY <2>3, AroundIs DEF HoldersOf
    <3> HIDE DEF a
    <3>2. a \in Nodes(tree) /\ a < k /\ tree[k + 1].start < tree[a + 1].end
      BY <3>1, HoldersAre
    <3>3. tree[a + 1].type \in Containers
      <4>1. tree[a + 1].start < tree[k + 1].start
        BY <3>2 DEF LaidOut
      <4>2. /\ tree[a + 1].start \in Nat /\ tree[a + 1].end \in Nat
            /\ tree[k + 1].start \in Nat
        BY <3>2, NodeIs
      <4>3. tree[a + 1].type \notin Containers => tree[a + 1].end = tree[a + 1].start + 1
        BY <3>2, NodeIs
      <4> QED
        BY <3>2, <4>1, <4>2, <4>3
    <3>4. ASSUME NEW j \in HoldersOf(tree, k) PROVE j = a \/ (j < a /\ j \in HoldersOf(tree, a))
      <4>1. j <= a /\ j \in Nodes(tree)
        BY <3>1, HoldersAre
      <4>2. j \in Nat /\ a \in Nat /\ k \in Nat
        BY <3>2, <4>1, NodeIs
      <4>3. a <= k
        BY <3>2, <4>2
      <4>4. j < a => j \in HoldersOf(tree, a)
        BY <3>2, <4>3, HoldersNested
      <4> QED
        BY <4>1, <4>2, <4>4
    <3> QED
      BY <2>1, <3>1, <3>2, <3>3, <3>4 DEF a
  <2> QED
    BY <2>2, <2>3
<1> QED
  BY <1>1, <1>2

(* From a place inside a node, the next symbol of the same node.           *)
LEMMA NextSymbol ==
    ASSUME NEW t, Len(t) \in Nat, NEW tree \in Seq(Token), LaidOut(t, tree),
           WellFormed(t, tree), NEW p \in Nat,
           t[p + 1] \notin {"space", "lbrace", "lbracket", "rbrace", "rbracket"},
           NEW a, a = Around(tree, p), a # -1, tree[a + 1].type = "OBJECT"
    PROVE  \E q \in Nat :
               /\ p < q /\ q < Len(t) /\ t[q + 1] # "space"
               /\ Preceding(t, q) = t[p + 1] /\ Before(t, q) = p
               /\ \A o \in (p + 1)..(q - 1) : t[o + 1] = "space"
               /\ Around(tree, q) = a /\ InObject(t, q)
<1> DEFINE e == tree[a + 1].end
<1>1. a \in Nodes(tree) /\ p < e
  BY AroundIs DEF Enclosing
<1>2. /\ e \in Nat /\ e <= Len(t) /\ t[e] \in {"rbrace", "rbracket"}
      /\ tree[a + 1].type \in Containers
  <2>1. tree[a + 1].type \in Containers
    BY DEF Containers
  <2> QED
    BY <1>1, <2>1, NodeIs
<1> HIDE DEF e
<1> DEFINE S == {o \in Nat : p < o /\ t[o + 1] # "space"}
<1>3. e - 1 \in S
  <2>1. e - 1 # p
    BY <1>1, <1>2
  <2>2. t[(e - 1) + 1] = t[e]
    BY <1>2
  <2> QED
    BY <1>1, <1>2, <2>1, <2>2
<1>4. PICK q \in S : \A o \in S : q <= o
  <2>1. S \in SUBSET Nat /\ S # {}
    BY <1>3
  <2> HIDE DEF S
  <2> QED
    BY <2>1, LeastExists
<1>5. q \in Nat /\ p < q /\ q <= e - 1 /\ q < Len(t) /\ t[q + 1] # "space"
  <2>1. q \in Nat /\ p < q /\ t[q + 1] # "space"
    OBVIOUS
  <2>2. q <= e - 1
    BY <1>3, <1>4
  <2> HIDE DEF S
  <2> QED
    BY <1>2, <2>1, <2>2
<1>6. \A o \in (p + 1)..(q - 1) : t[o + 1] = "space"
  <2> SUFFICES ASSUME NEW o \in (p + 1)..(q - 1), t[o + 1] # "space" PROVE FALSE
    OBVIOUS
  <2>1. o \in Nat /\ p < o /\ o < q
    BY <1>5
  <2>2. o \in S
    BY <2>1
  <2>3. q <= o
    BY <1>4, <2>2
  <2> HIDE DEF S
  <2> QED
    BY <1>5, <2>1, <2>3
<1>7. Before(t, q) = p
  <2>1. /\ Before(t, q) \in -1..(q - 1)
        /\ Before(t, q) # -1 => t[Before(t, q) + 1] # "space"
        /\ \A o \in 0..(q - 1) : t[o + 1] # "space" => o <= Before(t, q)
    BY <1>5, BeforeIs
  <2>2. p <= Before(t, q)
    BY <1>5, <2>1
  <2>3. Before(t, q) \notin (p + 1)..(q - 1)
    BY <1>6, <2>1, <2>2
  <2> QED
    BY <1>5, <2>1, <2>2, <2>3
<1>8. Preceding(t, q) = t[p + 1]
  BY <1>7 DEF Preceding
<1>9. Around(tree, q) = a
  <2>1. \A o \in p..(q - 1) : o = p \/ o \in (p + 1)..(q - 1)
    BY <1>5
  <2>2. \A o \in p..(q - 1) :
            t[o + 1] \notin {"lbrace", "lbracket", "rbrace", "rbracket"}
    BY <1>6, <2>1
  <2>3. Enclosing(tree, q) = Enclosing(tree, p)
    BY <1>5, <2>2, EnclosingAcross
  <2> QED
    BY <2>3 DEF Around
<1>10. InObject(t, q)
  <2>1. q \in 0..(Len(t) - 1)
    BY <1>5
  <2> QED
    BY <1>5, <1>9, <2>1 DEF WellFormed
<1> QED
  BY <1>5, <1>6, <1>7, <1>8, <1>9, <1>10

(* A key: a string where a key may stand in an object.  The next node is   *)
(* its value.                                                              *)
LEMMA KeyHasValue ==
    ASSUME NEW t, Len(t) \in Nat, NEW tree \in Seq(Token), LaidOut(t, tree),
           WellFormed(t, tree), NEW k \in Nodes(tree),
           NEW u, u = Parent(t, tree, k), u \in Nodes(tree), tree[u + 1].type = "OBJECT"
    PROVE  /\ tree[k + 1].type \notin Containers
           /\ k + 1 \in Nodes(tree) /\ Parent(t, tree, k + 1) = k
<1> DEFINE p == tree[k + 1].start
<1>1. /\ p \in Nat /\ p < Len(t) /\ k \in Nat /\ k < Len(tree) /\ Len(tree) \in Nat
      /\ t[p + 1] \in Beginning
  <2>1. /\ p \in Nat /\ tree[k + 1].end \in Nat
        /\ p < tree[k + 1].end /\ tree[k + 1].end <= Len(t)
    BY NodeIs
  <2>2. k \in Nat /\ k < Len(tree) /\ Len(tree) \in Nat /\ t[p + 1] \in Beginning
    BY NodeIs
  <2>3. p < Len(t)
    <3> HIDE DEF p
    <3> QED
      BY <2>1
  <2> QED
    BY <2>1, <2>2, <2>3
<1>2. u = Around(tree, p) /\ u # -1
  <2>1. tree[u + 1].type \in Containers
    BY DEF Containers
  <2>2. u \in Nat
    BY NodeIs
  <2>3. u # -1
    BY <2>2
  <2> HIDE DEF p
  <2>4. u = Around(tree, tree[k + 1].start)
    BY <2>1, <2>3, ParentHolds
  <2> QED
    BY <2>3, <2>4 DEF p
<1>3. Preceding(t, p) # "colon"
  <2>1. tree[u + 1].type \in Containers
    BY DEF Containers
  <2> SUFFICES ASSUME Preceding(t, p) = "colon" PROVE FALSE
    OBVIOUS
  <2>2. u = k - 1
    BY DEF Parent
  <2> QED
    BY <2>1, <2>2, ColonBefore
<1>4. t[p + 1] = "string" /\ KeyBegins(t, p)
  <2>1. p \in 0..(Len(t) - 1) /\ t[p + 1] # "space"
    BY <1>1 DEF Beginning, Leaves
  <2> HIDE DEF p
  <2>2. InObject(t, p)
    BY <1>2, <2>1 DEF WellFormed
  <2> QED
    BY <1>1, <1>3, <2>2 DEF InObject, Beginning, Leaves
<1>5. tree[k + 1].type \notin Containers
  BY <1>4, NodeIs
<1>6. PICK c \in Nat :
          /\ p < c /\ c < Len(t) /\ t[c + 1] # "space"
          /\ Preceding(t, c) = t[p + 1] /\ Before(t, c) = p
          /\ \A o \in (p + 1)..(c - 1) : t[o + 1] = "space"
          /\ Around(tree, c) = u /\ InObject(t, c)
  <2> HIDE DEF p
  <2>1. t[p + 1] \notin {"space", "lbrace", "lbracket", "rbrace", "rbracket"}
    BY <1>4
  <2> QED
    BY <1>1, <1>2, <2>1, NextSymbol
<1>7. t[c + 1] = "colon"
  <2>1. Preceding(t, c) = "string" /\ KeyBegins(t, Before(t, c))
    BY <1>4, <1>6
  <2>2. ~KeyBegins(t, c) /\ ~MemberEnds(t, c)
    BY <2>1 DEF KeyBegins, MemberEnds, Leaves
  <2> QED
    BY <1>6, <2>1, <2>2 DEF InObject
<1>8. PICK q \in Nat :
          /\ c < q /\ q < Len(t) /\ t[q + 1] # "space"
          /\ Preceding(t, q) = t[c + 1] /\ Before(t, q) = c
          /\ \A o \in (c + 1)..(q - 1) : t[o + 1] = "space"
          /\ Around(tree, q) = u /\ InObject(t, q)
  <2>1. t[c + 1] \notin {"space", "lbrace", "lbracket", "rbrace", "rbracket"}
    BY <1>7
  <2> QED
    BY <1>2, <1>6, <2>1, NextSymbol
<1>9. Preceding(t, q) = "colon" /\ t[q + 1] \in Beginning
  <2>1. Preceding(t, q) = "colon"
    BY <1>7, <1>8
  <2>2. ~KeyBegins(t, q) /\ ~MemberEnds(t, q)
    BY <2>1 DEF KeyBegins, MemberEnds, Leaves
  <2> QED
    BY <1>8, <2>1, <2>2 DEF InObject
<1>10. PICK m \in Nodes(tree) : tree[m + 1].start = q
  <2>1. q \in 0..(Len(t) - 1)
    BY <1>8
  <2> QED
    BY <1>9, <2>1 DEF LaidOut
<1>11. m = k + 1
  <2>1. \A o \in (p + 1)..(q - 1) : \/ o \in (p + 1)..(c - 1) \/ o = c
                                    \/ o \in (c + 1)..(q - 1)
    BY <1>1, <1>6, <1>8
  <2>2. \A o \in (p + 1)..(q - 1) : t[o + 1] \notin Beginning
    BY <1>6, <1>7, <1>8, <2>1 DEF Beginning, Leaves
  <2>3. p + 1 \in Nat /\ p + 1 <= q /\ m \in Nat /\ m < Len(tree)
    <3>1. m \in Nat /\ m < Len(tree)
      BY NodeIs
    <3> HIDE DEF p
    <3> QED
      BY <1>1, <1>6, <1>8, <3>1
  <2>4. Filled(m, tree, p + 1)
    BY <1>10, <2>2, <2>3, FilledAt
  <2>5. k < m
    BY <1>1, <2>4 DEF Filled
  <2>6. CASE k + 1 < m
    <3>1. k + 1 \in Nodes(tree)
      BY <1>1, <2>3, <2>6 DEF Nodes
    <3>2. tree[(k + 1) + 1].start < p + 1
      BY <2>4, <2>6, <3>1 DEF Filled
    <3>3. p < tree[(k + 1) + 1].start
      BY <1>1, <3>1 DEF LaidOut
    <3>4. tree[(k + 1) + 1].start \in Nat
      BY <3>1, NodeIs
    <3> QED
      BY <1>1, <3>2, <3>3, <3>4
  <2> QED
    BY <1>1, <2>3, <2>5, <2>6
<1>12. Parent(t, tree, k + 1) = (k + 1) - 1
  BY <1>9, <1>10, <1>11 DEF Parent
<1> QED
  BY <1>1, <1>5, <1>10, <1>11, <1>12

-----------------------------------------------------------------------------
(* The roles of the nodes of an order.                                     *)
OnOrder == IsOrder /\ input \in Input

Held(k) == HoldersOf(input.tree, k)

LEMMA OrderIs ==
    ASSUME OnOrder
    PROVE  /\ input.tree \in Seq(Token) /\ Len(text) \in Nat
           /\ LaidOut(text, input.tree) /\ WellFormed(text, input.tree)
<1>1. input.tree \in Seq(Token) /\ text \in Seq(BracketSymbols!Symbol)
  BY DEF OnOrder, Input, text
<1> QED
  BY <1>1 DEF OnOrder, IsOrder, IsDocument

LEMMA RoleIs ==
    ASSUME OnOrder, NEW k \in Nodes(input.tree), NEW u, u = Up(k)
    PROVE  \/ u = -1 /\ Role(k) = "object"
           \/ u \in Nodes(input.tree) /\ Role(u) = "object" /\ Role(k) = "key"
           \/ u \in Nodes(input.tree) /\ Role(u) = "key"
              /\ Role(k) = IF Word(u) \in ListFields THEN "array" ELSE "value"
           \/ u \in Nodes(input.tree) /\ Role(u) = "array"
              /\ Role(k) = IF Word(u - 1) = "items" THEN "items" ELSE "transactions"
           \/ u \in Nodes(input.tree) /\ Role(u) \in ListFields /\ Role(k) = "entry_key"
           \/ u \in Nodes(input.tree) /\ Role(u) = "entry_key" /\ Role(k) = "entry_value"
<1>1. u = -1 \/ u \in Nodes(input.tree)
  BY OrderIs, ParentHolds DEF Up
<1>2. (u = -1 \/ Role(u) \in HasParts) /\ Role(k) = RoleUnder(u)
  BY DEF OnOrder, IsOrder
<1>3. CASE u = -1
  BY <1>2, <1>3 DEF RoleUnder
<1>4. CASE u # -1
  <2>1. Role(u) \in {"object", "key", "array", "entry_key", "items", "transactions"}
    BY <1>2, <1>4 DEF HasParts, ListFields
  <2>2. CASE Role(u) = "object"
    BY <1>1, <1>2, <1>4, <2>2 DEF RoleUnder, ListFields
  <2>3. CASE Role(u) = "key"
    BY <1>1, <1>2, <1>4, <2>3 DEF RoleUnder, ListFields
  <2>4. CASE Role(u) = "array"
    BY <1>1, <1>2, <1>4, <2>4 DEF RoleUnder, ListFields
  <2>5. CASE Role(u) \in ListFields
    BY <1>1, <1>2, <1>4, <2>5 DEF RoleUnder, ListFields
  <2>6. CASE Role(u) = "entry_key"
    BY <1>1, <1>2, <1>4, <2>6 DEF RoleUnder, ListFields
  <2> QED
    BY <2>1, <2>2, <2>3, <2>4, <2>5, <2>6 DEF ListFields
<1> QED
  BY <1>3, <1>4

Roles == {"object", "key", "array", "value", "entry_key", "entry_value"} \cup ListFields

(* What a role says of the parent.                                         *)
LEMMA RolesOfParents ==
    ASSUME OnOrder, NEW k \in Nodes(input.tree)
    PROVE  /\ Role(k) \in Roles
           /\ Role(k) = "object" <=> Up(k) = -1
           /\ Up(k) # -1 => Up(k) \in Nodes(input.tree)
           /\ Role(k) = "key" <=> Up(k) # -1 /\ Role(Up(k)) = "object"
           /\ Role(k) \in {"array", "value"} <=> Up(k) # -1 /\ Role(Up(k)) = "key"
           /\ Role(k) = "array" => Word(Up(k)) \in ListFields
           /\ Role(k) = "value" => Word(Up(k)) \notin ListFields
           /\ Role(k) \in ListFields <=> Up(k) # -1 /\ Role(Up(k)) = "array"
           /\ Role(k) \in ListFields =>
                Role(k) = IF Word(Up(k) - 1) = "items" THEN "items" ELSE "transactions"
           /\ Role(k) = "entry_key" <=> Up(k) # -1 /\ Role(Up(k)) \in ListFields
           /\ Role(k) = "entry_value" <=> Up(k) # -1 /\ Role(Up(k)) = "entry_key"
<1>1. -1 \notin Nodes(input.tree)
  BY DEF Nodes
<1> QED
  BY <1>1, RoleIs DEF Roles, ListFields

(* The node of a key, of a value, of an entry, and of an order.            *)
LEMMA KeyIs ==
    ASSUME OnOrder, NEW k \in Nodes(input.tree), Role(k) \in {"key", "entry_key"}
    PROVE  /\ k + 1 \in Nodes(input.tree) /\ Up(k + 1) = k
           /\ input.tree[k + 1].type \notin Containers
           /\ Up(k) \in Nodes(input.tree) /\ Up(k) \in Held(k)
           /\ \A j \in Held(k) : j = Up(k) \/ (j < Up(k) /\ j \in Held(Up(k)))
<1>1. Up(k) # -1 /\ Up(k) \in Nodes(input.tree) /\ Role(Up(k)) \in {"object"} \cup ListFields
  BY RolesOfParents
<1>2. input.tree[Up(k) + 1].type = "OBJECT"
  BY <1>1 DEF OnOrder, IsOrder
<1>3. /\ k + 1 \in Nodes(input.tree) /\ Up(k + 1) = k
      /\ input.tree[k + 1].type \notin Containers
  BY <1>1, <1>2, OrderIs, KeyHasValue DEF Up
<1>4. input.tree[Up(k) + 1].type \in Containers
  BY <1>2 DEF Containers
<1>5. Up(k) \in Held(k) /\ \A j \in Held(k) : j = Up(k) \/ (j < Up(k) /\ j \in Held(Up(k)))
  BY <1>1, <1>4, OrderIs, ParentHolds DEF Up, Held
<1> QED
  BY <1>1, <1>3, <1>5

LEMMA ValueIs ==
    ASSUME OnOrder, NEW k \in Nodes(input.tree),
           Role(k) \in {"array", "value", "entry_value"}
    PROVE  /\ Up(k) = k - 1 /\ k - 1 \in Nodes(input.tree)
           /\ Role(k - 1) = IF Role(k) = "entry_value" THEN "entry_key" ELSE "key"
           /\ Held(k) = Held(k - 1)
<1>1. /\ Up(k) # -1 /\ Up(k) \in Nodes(input.tree)
      /\ Role(Up(k)) = IF Role(k) = "entry_value" THEN "entry_key" ELSE "key"
  BY RolesOfParents
<1>2. input.tree[Up(k) + 1].type \notin Containers
  BY <1>1, KeyIs
<1>3. Up(k) = k - 1 /\ Held(k) = Held(Up(k))
  BY <1>1, <1>2, OrderIs, ParentHolds DEF Up, Held
<1> QED
  BY <1>1, <1>3

LEMMA EntryIs ==
    ASSUME OnOrder, NEW k \in Nodes(input.tree), Role(k) \in ListFields
    PROVE  /\ Up(k) \in Nodes(input.tree) /\ Role(Up(k)) = "array" /\ Up(k) \in Held(k)
           /\ \A j \in Held(k) : j = Up(k) \/ (j < Up(k) /\ j \in Held(Up(k)))
<1>1. Up(k) # -1 /\ Up(k) \in Nodes(input.tree) /\ Role(Up(k)) = "array"
  BY RolesOfParents
<1>2. input.tree[Up(k) + 1].type \in Containers
  BY <1>1 DEF OnOrder, IsOrder, Containers
<1>3. Up(k) \in Held(k) /\ \A j \in Held(k) : j = Up(k) \/ (j < Up(k) /\ j \in Held(Up(k)))
  BY <1>1, <1>2, OrderIs, ParentHolds DEF Up, Held
<1> QED
  BY <1>1, <1>3

LEMMA ObjectIs ==
    ASSUME OnOrder, NEW k \in Nodes(input.tree), Role(k) = "object"
    PROVE  Held(k) = {}
<1>1. Up(k) = -1 /\ -1 \notin Nodes(input.tree)
  BY RolesOfParents DEF Nodes
<1> QED
  BY <1>1, OrderIs, ParentHolds DEF Up, Held

(* What an order, a list and an entry may be in.                           *)
Holding(role) ==
    CASE role = "object" -> {}
      [] role \in {"key", "array", "value"} -> {"object"}
      [] role \in ListFields -> {"object", "array"}
      [] role \in {"entry_key", "entry_value"} -> {"object", "array"} \cup ListFields

LEMMA HoldingIs ==
    /\ Holding("object") = {}
    /\ \A role \in {"key", "array", "value"} : Holding(role) = {"object"}
    /\ \A role \in ListFields : Holding(role) = {"object", "array"}
    /\ \A role \in {"entry_key", "entry_value"} :
          Holding(role) = {"object", "array"} \cup ListFields
BY DEF Holding, ListFields

LEMMA HeldRoles ==
    ASSUME OnOrder, NEW k \in Nodes(input.tree), NEW j \in Held(k)
    PROVE  Role(j) \in Holding(Role(k))
<1>1. \A m \in Nodes(input.tree) : Role(m) = "object" => Held(m) = {}
  BY ObjectIs
<1>2. ASSUME NEW m \in Nodes(input.tree), Role(m) = "key", NEW i \in Held(m)
      PROVE  Role(i) = "object"
  <2>1. Role(Up(m)) = "object" /\ Up(m) \in Nodes(input.tree)
    BY <1>2, RolesOfParents
  <2>2. i = Up(m) \/ i \in Held(Up(m))
    BY <1>2, KeyIs
  <2> QED
    BY <1>1, <2>1, <2>2
<1>3. ASSUME NEW m \in Nodes(input.tree), Role(m) \in {"array", "value"}, NEW i \in Held(m)
      PROVE  Role(i) = "object"
  <2>1. m - 1 \in Nodes(input.tree) /\ Role(m - 1) = "key" /\ Held(m) = Held(m - 1)
    BY <1>3, ValueIs
  <2> QED
    BY <1>2, <1>3, <2>1
<1>4. ASSUME NEW m \in Nodes(input.tree), Role(m) \in ListFields, NEW i \in Held(m)
      PROVE  Role(i) \in {"object", "array"}
  <2>1. Role(Up(m)) = "array" /\ Up(m) \in Nodes(input.tree)
    BY <1>4, EntryIs
  <2>2. i = Up(m) \/ i \in Held(Up(m))
    BY <1>4, EntryIs
  <2> QED
    BY <1>3, <2>1, <2>2
<1>5. ASSUME NEW m \in Nodes(input.tree), Role(m) = "entry_key", NEW i \in Held(m)
      PROVE  Role(i) \in {"object", "array"} \cup ListFields
  <2>1. Role(Up(m)) \in ListFields /\ Up(m) \in Nodes(input.tree)
    BY <1>5, RolesOfParents
  <2>2. i = Up(m) \/ i \in Held(Up(m))
    BY <1>5, KeyIs
  <2> QED
    BY <1>4, <2>1, <2>2
<1>6. ASSUME NEW m \in Nodes(input.tree), Role(m) = "entry_value", NEW i \in Held(m)
      PROVE  Role(i) \in {"object", "array"} \cup ListFields
  <2>1. m - 1 \in Nodes(input.tree) /\ Role(m - 1) = "entry_key" /\ Held(m) = Held(m - 1)
    BY <1>6, ValueIs
  <2> QED
    BY <1>5, <1>6, <2>1
<1>7. Role(k) \in Roles
  BY RolesOfParents
<1>8. CASE Role(k) = "object"
  BY <1>1, <1>8
<1>9. CASE Role(k) \in {"key", "array", "value"}
  BY <1>2, <1>3, <1>9, HoldingIs
<1>10. CASE Role(k) \in ListFields
  BY <1>4, <1>10, HoldingIs
<1>11. CASE Role(k) \in {"entry_key", "entry_value"}
  BY <1>5, <1>6, <1>11, HoldingIs
<1> QED
  BY <1>7, <1>8, <1>9, <1>10, <1>11 DEF Roles

LEMMA NextUp ==
    ASSUME OnOrder, NEW k \in Nodes(input.tree), k + 1 \in Nodes(input.tree)
    PROVE  Up(k + 1) = -1 \/ Up(k + 1) = k \/ Up(k + 1) \in Held(k)
<1>1. k \in Nat
  BY OrderIs, NodeIs
<1>2. Up(k + 1) = -1 \/ Up(k + 1) = (k + 1) - 1 \/ Up(k + 1) \in Held(k + 1)
  BY OrderIs, ParentHolds DEF Up, Held
<1>3. ASSUME NEW j \in Held(k + 1), j # k
      PROVE  j \in Held(k)
  <2>1. j \in Nodes(input.tree) /\ j < k + 1
    BY OrderIs, HoldersAre DEF Held
  <2>2. j \in Nat
    BY <2>1, OrderIs, NodeIs
  <2>3. j < k /\ k <= k + 1
    BY <1>1, <1>3, <2>1, <2>2
  <2> QED
    BY <2>3, OrderIs, HoldersNested DEF Held
<1> QED
  BY <1>1, <1>2, <1>3

-----------------------------------------------------------------------------
(* The children of a node are the nodes behind it that have a child's role *)
(* and come before the next that cannot be in it.                          *)
Reach(k, ends) ==
    {m \in (k + 1)..(Len(input.tree) - 1) : \A d \in (k + 1)..m : Role(d) \notin ends}

LEMMA ReachIs ==
    ASSUME OnOrder, NEW k \in Nodes(input.tree), NEW ends, NEW m
    PROVE  m \in Reach(k, ends) <=>
               /\ m \in Nodes(input.tree) /\ k < m
               /\ \A d \in Nodes(input.tree) : k < d /\ d <= m => Role(d) \notin ends
<1>1. k \in Nat /\ Len(input.tree) \in Nat
  BY OrderIs, NodeIs
<1>2. m \in (k + 1)..(Len(input.tree) - 1) <=> m \in Nodes(input.tree) /\ k < m
  BY <1>1 DEF Nodes
<1>3. ASSUME m \in Nodes(input.tree), NEW d
      PROVE  d \in (k + 1)..m <=> d \in Nodes(input.tree) /\ k < d /\ d <= m
  BY <1>1, <1>3 DEF Nodes
<1> QED
  BY <1>2, <1>3 DEF Reach

LEMMA ReachIsChildren ==
    ASSUME OnOrder, NEW P, NEW C, NEW D,
           \A m \in Nodes(input.tree) :
               Role(m) \in C <=> Up(m) # -1 /\ Role(Up(m)) \in P,
           \A m \in Nodes(input.tree) : Role(m) \in C => Up(m) \in Held(m),
           \A d \in Nodes(input.tree) : Role(d) \in D \cup P =>
               \A j \in Held(d) : Role(j) \notin P,
           \A j, m \in Nodes(input.tree) : Role(j) \in P /\ Role(m) \in P /\ j < m =>
               \E d \in Nodes(input.tree) : j < d /\ d <= m /\ Role(d) \in D,
           NEW k \in Nodes(input.tree), Role(k) \in P
    PROVE  {m \in Reach(k, D) : Role(m) \in C} = Children(text, input.tree, k)
<1>0. k \in Nat /\ Len(input.tree) \in Nat
  BY OrderIs, NodeIs
<1>1. ASSUME NEW m \in Reach(k, D), Role(m) \in C
      PROVE  Up(m) = k
  <2>1. /\ m \in Nodes(input.tree) /\ k < m
        /\ \A d \in Nodes(input.tree) : k < d /\ d <= m => Role(d) \notin D
    BY ReachIs
  <2>2. Up(m) \in Held(m) /\ Role(Up(m)) \in P
    BY <1>1, <2>1
  <2>3. Up(m) \in Nodes(input.tree) /\ Up(m) < m
    BY <2>1, <2>2, OrderIs, HoldersAre DEF Held
  <2>4. m \in Nat /\ Up(m) \in Nat
    BY <2>1, <2>3, OrderIs, NodeIs
  <2>5. CASE Up(m) < k
    <3>1. Up(m) \in Held(k)
      <4>1. k <= m
        BY <1>0, <2>1, <2>4
      <4> QED
        BY <2>1, <2>2, <2>5, <4>1, OrderIs, HoldersNested DEF Held
    <3> QED
      BY <2>2, <3>1
  <2>6. CASE k < Up(m)
    <3>1. PICK d \in Nodes(input.tree) : k < d /\ d <= Up(m) /\ Role(d) \in D
      BY <2>2, <2>3, <2>6
    <3>2. d \in Nat
      BY OrderIs, NodeIs
    <3>3. d <= m
      BY <2>3, <2>4, <3>1, <3>2
    <3> QED
      BY <2>1, <3>1, <3>3
  <2> QED
    BY <1>0, <2>4, <2>5, <2>6
<1>2. ASSUME NEW m \in Nodes(input.tree), Up(m) = k
      PROVE  m \in Reach(k, D) /\ Role(m) \in C
  <2>1. Role(m) \in C
    BY <1>0, <1>2
  <2>2. k \in Held(m)
    BY <1>2, <2>1
  <2>3. k < m
    BY <2>2, OrderIs, HoldersAre DEF Held
  <2>4. ASSUME NEW d \in Nodes(input.tree), k < d, d <= m
        PROVE  Role(d) \notin D
    <3>1. k \in Held(d)
      BY <2>2, <2>4, OrderIs, HoldersNested DEF Held
    <3> QED
      BY <3>1
  <2> QED
    BY <2>1, <2>3, <2>4, ReachIs
<1>3. \A m \in Reach(k, D) : m \in Nodes(input.tree)
  BY ReachIs
<1>4. \A m : m \in Children(text, input.tree, k) <=> m \in Nodes(input.tree) /\ Up(m) = k
  BY DEF Children, Up
<1> QED
  BY <1>1, <1>2, <1>3, <1>4

FieldEnds == {"object", "key"}
EntryEnd == FieldEnds \cup ListFields

LEMMA FieldsOfOrder ==
    ASSUME OnOrder, NEW k \in Nodes(input.tree), Role(k) = "object"
    PROVE  {m \in Reach(k, {"object"}) : Role(m) \in {"key"}} = Children(text, input.tree, k)
<1> DEFINE P == {"object"}
           C == {"key"}
           D == {"object"}
<1>1. \A m \in Nodes(input.tree) : Role(m) \in C <=> Up(m) # -1 /\ Role(Up(m)) \in P
  BY RolesOfParents
<1>2. \A m \in Nodes(input.tree) : Role(m) \in C => Up(m) \in Held(m)
  BY KeyIs
<1>3. \A d \in Nodes(input.tree) : Role(d) \in D \cup P =>
          \A j \in Held(d) : Role(j) \notin P
  BY ObjectIs
<1>4. \A j, m \in Nodes(input.tree) : Role(j) \in P /\ Role(m) \in P /\ j < m =>
          \E d \in Nodes(input.tree) : j < d /\ d <= m /\ Role(d) \in D
  <2>1. \A m \in Nodes(input.tree) : m \in Nat
    BY OrderIs, NodeIs
  <2>2. \A m \in Nodes(input.tree) : m <= m
    BY <2>1
  <2> QED
    BY <2>2
<1>5. Role(k) \in P
  OBVIOUS
<1> HIDE DEF P, C, D
<1>6. {m \in Reach(k, D) : Role(m) \in C} = Children(text, input.tree, k)
  BY <1>1, <1>2, <1>3, <1>4, <1>5, ReachIsChildren
<1> QED
  BY <1>6 DEF C, D

LEMMA EntriesOfList ==
    ASSUME OnOrder, NEW k \in Nodes(input.tree), Role(k) = "array"
    PROVE  {m \in Reach(k, FieldEnds) : Role(m) \in ListFields} = Children(text, input.tree, k)
<1> DEFINE P == {"array"}
           C == ListFields
           D == FieldEnds
<1>1. \A m \in Nodes(input.tree) : Role(m) \in C <=> Up(m) # -1 /\ Role(Up(m)) \in P
  BY RolesOfParents
<1>2. \A m \in Nodes(input.tree) : Role(m) \in C => Up(m) \in Held(m)
  BY EntryIs
<1>3. ASSUME NEW d \in Nodes(input.tree), Role(d) \in D \cup P, NEW j \in Held(d)
      PROVE  Role(j) \notin P
  <2>1. Role(j) \in Holding(Role(d))
    BY HeldRoles
  <2> QED
    BY <1>3, <2>1, HoldingIs DEF FieldEnds
<1>4. ASSUME NEW j \in Nodes(input.tree), NEW m \in Nodes(input.tree),
             Role(j) \in P, Role(m) \in P, j < m
      PROVE  \E d \in Nodes(input.tree) : j < d /\ d <= m /\ Role(d) \in D
  <2>1. m - 1 \in Nodes(input.tree) /\ Role(m - 1) = "key"
    BY <1>4, ValueIs
  <2>2. m \in Nat /\ j \in Nat
    BY OrderIs, NodeIs
  <2>3. j # m - 1
    BY <1>4, <2>1
  <2>4. j < m - 1 /\ m - 1 <= m
    BY <1>4, <2>2, <2>3
  <2> QED
    BY <2>1, <2>4 DEF FieldEnds
<1>5. Role(k) \in P
  OBVIOUS
<1> HIDE DEF P, C, D
<1>6. {m \in Reach(k, D) : Role(m) \in C} = Children(text, input.tree, k)
  BY <1>1, <1>2, <1>3, <1>4, <1>5, ReachIsChildren
<1> QED
  BY <1>6 DEF C, D

LEMMA FieldsOfEntry ==
    ASSUME OnOrder, NEW k \in Nodes(input.tree), Role(k) \in ListFields
    PROVE  {m \in Reach(k, EntryEnd) : Role(m) \in {"entry_key"}} = Children(text, input.tree, k)
<1> DEFINE P == ListFields
           C == {"entry_key"}
           D == EntryEnd
<1>1. \A m \in Nodes(input.tree) : Role(m) \in C <=> Up(m) # -1 /\ Role(Up(m)) \in P
  BY RolesOfParents
<1>2. \A m \in Nodes(input.tree) : Role(m) \in C => Up(m) \in Held(m)
  BY KeyIs
<1>3. ASSUME NEW d \in Nodes(input.tree), Role(d) \in D \cup P, NEW j \in Held(d)
      PROVE  Role(j) \notin P
  <2>1. Role(j) \in Holding(Role(d))
    BY HeldRoles
  <2> QED
    BY <1>3, <2>1, HoldingIs DEF FieldEnds, EntryEnd, ListFields
<1>4. ASSUME NEW j \in Nodes(input.tree), NEW m \in Nodes(input.tree),
             Role(j) \in P, Role(m) \in P, j < m
      PROVE  \E d \in Nodes(input.tree) : j < d /\ d <= m /\ Role(d) \in D
  <2>1. m \in Nat
    BY OrderIs, NodeIs
  <2>2. m <= m
    BY <2>1
  <2> QED
    BY <1>4, <2>2 DEF EntryEnd
<1>5. Role(k) \in P
  OBVIOUS
<1> HIDE DEF P, C, D
<1>6. {m \in Reach(k, D) : Role(m) \in C} = Children(text, input.tree, k)
  BY <1>1, <1>2, <1>3, <1>4, <1>5, ReachIsChildren
<1> QED
  BY <1>6 DEF C, D

-----------------------------------------------------------------------------
(* The walk over the tokens of an order for which there is room.  They are *)
(* known beforehand: those of its tree.                                    *)

Foreseen == [parse |-> "ok", tokens |-> Seen(input.tree), validate |-> validate]

W == INSTANCE ValidateJsonProofs
    WITH Inputs <- Walk!Input, input <- Foreseen, i <- at, size <- fields,
         items <- entries, entries <- entryFields, ret <- answer

LEMMA InputsOfWalk == W!InputsAssumption
BY DEF W!InputsAssumption, W!Input, Walk!Input, W!ParseErrors, Walk!ParseErrors, W!Token, Walk!Token

(* While the tokens found are those of the tree, a step of the walk is a   *)
(* step of the walk over those.                                            *)
AsForeseen == Parsed = Foreseen

LEMMA WalkStep ==
    ASSUME AsForeseen, AsForeseen', WalkOn
    PROVE  W!Next
<1>0. Parsed = Foreseen /\ Parsed' = Foreseen'
  BY DEF AsForeseen
<1>1. ASSUME Walk!Parse PROVE W!Parse
  BY <1>0, <1>1 DEF Walk!Parse, W!Parse, Walk!Return, W!Return,
     Walk!ParseErrors, W!ParseErrors
<1>2. ASSUME Walk!OuterLoop PROVE W!OuterLoop
  BY <1>0, <1>2 DEF Walk!OuterLoop, W!OuterLoop, Walk!Return, W!Return,
     Walk!Beyond, W!Beyond, Walk!r, W!r, Walk!tokens, W!tokens, Walk!At,
     W!At
<1>3. ASSUME Walk!RootLoopEnds PROVE W!RootLoopEnds
  BY <1>0, <1>3 DEF Walk!RootLoopEnds, W!RootLoopEnds
<1>4. ASSUME Walk!Scalar PROVE W!Scalar
  BY <1>0, <1>4 DEF Walk!Scalar, W!Scalar, Walk!Return, W!Return,
     Walk!AtField, W!AtField, Walk!ScalarFields, W!ScalarFields,
     Walk!ValueMissing, W!ValueMissing, Walk!ValueRejected, W!ValueRejected,
     Walk!ValueAccepted, W!ValueAccepted, Walk!CheckedScalars,
     W!CheckedScalars, Walk!At, W!At, Walk!Beyond, W!Beyond, Walk!r, W!r,
     Walk!tokens, W!tokens
<1>5. ASSUME Walk!List PROVE W!List
  BY <1>0, <1>5 DEF Walk!List, W!List, Walk!AtField, W!AtField,
     Walk!ListFields, W!ListFields, Walk!Return, W!Return, Walk!Beyond,
     W!Beyond, Walk!At, W!At, Walk!r, W!r, Walk!tokens, W!tokens
<1>6. ASSUME Walk!UnknownField PROVE W!UnknownField
  BY <1>0, <1>6 DEF Walk!UnknownField, W!UnknownField, Walk!At, W!At,
     Walk!tokens, W!tokens, Walk!ScalarFields, W!ScalarFields,
     Walk!ListFields, W!ListFields, Walk!Return, W!Return
<1>7. ASSUME Walk!ListEnds PROVE W!ListEnds
  BY <1>0, <1>7 DEF Walk!ListEnds, W!ListEnds, Walk!ListFields, W!ListFields
<1>8. ASSUME Walk!Item PROVE W!Item
  BY <1>0, <1>8 DEF Walk!Item, W!Item, Walk!EmptyEntry, W!EmptyEntry,
     Walk!EntryFields, W!EntryFields, Walk!ItemFields, W!ItemFields,
     Walk!TransactionFields, W!TransactionFields, Walk!EnterEntry,
     W!EnterEntry, Walk!Return, W!Return, Walk!Beyond, W!Beyond, Walk!At,
     W!At, Walk!r, W!r, Walk!tokens, W!tokens
<1>9. ASSUME Walk!Transaction PROVE W!Transaction
  BY <1>0, <1>9 DEF Walk!Transaction, W!Transaction, Walk!EmptyEntry,
     W!EmptyEntry, Walk!EntryFields, W!EntryFields, Walk!ItemFields,
     W!ItemFields, Walk!TransactionFields, W!TransactionFields,
     Walk!EnterEntry, W!EnterEntry, Walk!Return, W!Return, Walk!Beyond,
     W!Beyond, Walk!At, W!At, Walk!r, W!r, Walk!tokens, W!tokens
<1>10. ASSUME Walk!EntryField PROVE W!EntryField
  BY <1>0, <1>10 DEF Walk!EntryField, W!EntryField, Walk!EntryFields,
     W!EntryFields, Walk!ItemFields, W!ItemFields, Walk!TransactionFields,
     W!TransactionFields, Walk!CheckedEntryFields, W!CheckedEntryFields,
     Walk!CheckedTransactionFields, W!CheckedTransactionFields,
     Walk!ValueMissing, W!ValueMissing, Walk!ValueRejected, W!ValueRejected,
     Walk!ValueAccepted, W!ValueAccepted, Walk!Return, W!Return,
     Walk!Beyond, W!Beyond, Walk!At, W!At, Walk!r, W!r, Walk!tokens,
     W!tokens
<1>11. ASSUME Walk!UnknownEntryField PROVE W!UnknownEntryField
  BY <1>0, <1>11 DEF Walk!UnknownEntryField, W!UnknownEntryField,
     Walk!EntryFields, W!EntryFields, Walk!ItemFields, W!ItemFields,
     Walk!TransactionFields, W!TransactionFields, Walk!At, W!At,
     Walk!tokens, W!tokens, Walk!Return, W!Return
<1>12. ASSUME Walk!EntryEnds PROVE W!EntryEnds
  BY <1>0, <1>12 DEF Walk!EntryEnds, W!EntryEnds
<1> QED
  BY <1>1, <1>2, <1>3, <1>4, <1>5, <1>6, <1>7, <1>8, <1>9, <1>10, <1>11, <1>12 DEF WalkOn, Walk!Next, W!Next

-----------------------------------------------------------------------------
(* The tokens of an order are a document to the walk.                      *)
LEMMA SameCardinality == \A S : W!Cardinality(S) = Cardinality(S)
BY DEF W!Cardinality, Cardinality

LEMMA SameMax == \A S : W!Max(S) = Max(S)
BY DEF W!Max, Max

LEMMA TokensOf ==
    ASSUME OnOrder
    PROVE  /\ W!r = Len(input.tree) /\ W!r \in Nat /\ Nodes(input.tree) = 0..(W!r - 1)
           /\ \A j \in Nodes(input.tree) :
                 /\ W!Role(j) = Role(j) /\ W!At(j).word = Word(j)
                 /\ W!At(j).size = input.tree[j + 1].size
                 /\ W!At(j).valid = Valid(j)
<1>1. Len(input.tree) \in Nat /\ DOMAIN input.tree = 1..Len(input.tree)
  BY OrderIs
<1>2. W!tokens = Seen(input.tree)
  BY DEF W!tokens, Foreseen
<1>3. Seen(input.tree) = [n \in 1..Len(input.tree) |-> Seen(input.tree)[n]]
  BY <1>1 DEF Seen
<1>4. Len(Seen(input.tree)) = Len(input.tree)
  BY <1>1, <1>3
<1>5. ASSUME NEW j \in Nodes(input.tree)
      PROVE  /\ W!Role(j) = Role(j) /\ W!At(j).word = Word(j)
             /\ W!At(j).size = input.tree[j + 1].size
             /\ W!At(j).valid = Valid(j)
  <2>1. j + 1 \in DOMAIN input.tree
    BY <1>1 DEF Nodes
  <2> QED
    BY <1>2, <2>1 DEF W!Role, W!At, Role, Word, Valid, Seen
<1> QED
  BY <1>1, <1>2, <1>4, <1>5 DEF W!r, Nodes

LEMMA SpanIsReach ==
    ASSUME OnOrder, NEW k \in Nodes(input.tree), NEW ends
    PROVE  W!Span(k, ends, W!r) = Reach(k, ends)
<1>1. k \in Nat /\ Len(input.tree) \in Nat
  BY OrderIs, NodeIs
<1>2. \A m \in (k + 1)..(Len(input.tree) - 1) : \A d \in (k + 1)..m :
          d \in Nodes(input.tree)
  BY <1>1 DEF Nodes
<1>3. \A d \in Nodes(input.tree) : W!Role(d) = Role(d)
  BY TokensOf
<1>4. W!r = Len(input.tree)
  BY TokensOf
<1> QED
  BY <1>2, <1>3, <1>4 DEF W!Span, Reach

LEMMA SpanHasChildren ==
    ASSUME OnOrder, NEW k \in Nodes(input.tree), NEW ends, NEW C,
           {m \in Reach(k, ends) : Role(m) \in C} = Children(text, input.tree, k)
    PROVE  W!Children(C, W!Span(k, ends, W!r)) = W!At(k).size
<1>1. \A m \in Reach(k, ends) : m \in Nodes(input.tree)
  BY ReachIs
<1>2. \A m \in Reach(k, ends) : W!Role(m) = Role(m)
  BY <1>1, TokensOf
<1>3. {m \in Reach(k, ends) : W!Role(m) \in C} = Children(text, input.tree, k)
  BY <1>2
<1>4. input.tree[k + 1].size = Cardinality(Children(text, input.tree, k))
  BY DEF OnOrder, IsOrder, IsDocument
<1>5. W!Span(k, ends, W!r) = Reach(k, ends)
  BY SpanIsReach
<1>6. W!At(k).size = input.tree[k + 1].size
  BY TokensOf
<1>7. W!Children(C, Reach(k, ends)) = Cardinality({m \in Reach(k, ends) : W!Role(m) \in C})
  BY SameCardinality DEF W!Children
<1> QED
  BY <1>3, <1>4, <1>5, <1>6, <1>7

LEMMA SizesOfOrder == OnOrder => W!SizesMatch
<1> SUFFICES ASSUME OnOrder, NEW j \in Nodes(input.tree)
             PROVE  W!At(j).size =
                      CASE W!Role(j) = "object" -> W!Children({"key"}, W!Span(j, {"object"}, W!r))
                        [] W!Role(j) = "array" ->
                              W!Children(W!ListFields, W!Span(j, W!FieldEnds, W!r))
                        [] W!Role(j) \in W!ListFields ->
                              W!Children({"entry_key"}, W!EntryOf(j, W!r))
                        [] W!Role(j) \in {"key", "entry_key"} -> 1
                        [] OTHER -> 0
  BY TokensOf DEF W!SizesMatch
<1>0. W!Role(j) = Role(j) /\ Role(j) \in Roles /\ j \in Nat
  BY TokensOf, RolesOfParents, OrderIs, NodeIs
<1>1. W!ListFields = ListFields /\ W!FieldEnds = FieldEnds /\ W!EntryEnd = EntryEnd
  BY DEF W!ListFields, ListFields, W!FieldEnds, FieldEnds, W!EntryEnd, EntryEnd
<1>2. CASE Role(j) = "object"
  <2>1. W!Children({"key"}, W!Span(j, {"object"}, W!r)) = W!At(j).size
    BY <1>2, FieldsOfOrder, SpanHasChildren
  <2> QED
    BY <1>0, <1>1, <1>2, <2>1 DEF ListFields
<1>3. CASE Role(j) = "array"
  <2>1. W!Children(ListFields, W!Span(j, FieldEnds, W!r)) = W!At(j).size
    BY <1>3, EntriesOfList, SpanHasChildren
  <2> QED
    BY <1>0, <1>1, <1>3, <2>1 DEF ListFields
<1>4. CASE Role(j) \in ListFields
  <2>1. W!Children({"entry_key"}, W!Span(j, EntryEnd, W!r)) = W!At(j).size
    BY <1>4, FieldsOfEntry, SpanHasChildren
  <2> QED
    BY <1>0, <1>1, <1>4, <2>1 DEF W!EntryOf, ListFields
<1>5. input.tree[j + 1].size = Cardinality(Children(text, input.tree, j))
  BY DEF OnOrder, IsOrder, IsDocument
<1>6. W!At(j).size = input.tree[j + 1].size
  BY TokensOf
<1>7. CASE Role(j) \in {"key", "entry_key"}
  <2>1. j + 1 \in Nodes(input.tree) /\ Up(j + 1) = j
    BY <1>7, KeyIs
  <2>2. ASSUME NEW m \in Nodes(input.tree), Up(m) = j
        PROVE  m = j + 1
    <3>1. Role(m) \in {"array", "value", "entry_value"}
      BY <1>0, <1>7, <2>2, RolesOfParents
    <3>2. m - 1 = j /\ m \in Nat
      BY <2>2, <3>1, ValueIs, OrderIs, NodeIs
    <3> QED
      BY <1>0, <3>2
  <2>3. Children(text, input.tree, j) = {j + 1}
    BY <2>1, <2>2 DEF Children, Up
  <2>4. Cardinality({j + 1}) = 1
    BY FS_Singleton
  <2> QED
    BY <1>0, <1>1, <1>5, <1>6, <1>7, <2>3, <2>4 DEF ListFields
<1>8. CASE Role(j) \in {"value", "entry_value"}
  <2>1. ASSUME NEW m \in Nodes(input.tree), Up(m) = j
        PROVE  FALSE
    <3>1. Up(m) # -1 /\ Role(m) \in Roles
      BY <1>0, <2>1, RolesOfParents
    <3> QED
      BY <1>8, <2>1, <3>1, RolesOfParents DEF Roles, ListFields
  <2>2. Children(text, input.tree, j) = {}
    BY <2>1 DEF Children, Up
  <2> QED
    BY <1>0, <1>1, <1>5, <1>6, <1>8, <2>2, FS_EmptySet DEF ListFields
<1> QED
  BY <1>0, <1>2, <1>3, <1>4, <1>7, <1>8 DEF Roles

LEMMA FirstIsOrder ==
    ASSUME OnOrder, 0 \in Nodes(input.tree)
    PROVE  Role(0) = "object"
<1>1. ASSUME NEW u \in Nodes(input.tree)
      PROVE  u # 0 - 1 /\ ~(u < 0)
  BY OrderIs, NodeIs
<1>2. Up(0) \notin Held(0)
  BY <1>1, OrderIs, HoldersAre DEF Held
<1>3. Up(0) = -1
  BY <1>1, <1>2, OrderIs, ParentHolds DEF Up, Held
<1> QED
  BY <1>3, RolesOfParents

LEMMA FollowsInOrder ==
    ASSUME OnOrder, NEW j \in Nodes(input.tree)
    PROVE  /\ Role(j) = "key" =>
                /\ j + 1 \in Nodes(input.tree)
                /\ Role(j + 1) = IF Word(j) \in ListFields THEN "array" ELSE "value"
           /\ Role(j) = "entry_key" =>
                j + 1 \in Nodes(input.tree) /\ Role(j + 1) = "entry_value"
           /\ Role(j) \notin {"key", "entry_key"} /\ j + 1 \in Nodes(input.tree) =>
                Role(j + 1) \in W!MayFollow(Role(j))
<1>1. ASSUME Role(j) \in {"key", "entry_key"}
      PROVE  j + 1 \in Nodes(input.tree) /\ Up(j + 1) = j
  BY <1>1, KeyIs
<1>2. j # -1 /\ Role(j) \in Roles
  BY OrderIs, NodeIs, RolesOfParents
<1>3. CASE Role(j) = "key"
  <2>1. /\ Role(j + 1) \in {"array", "value"}
        /\ Role(j + 1) = "array" => Word(j) \in ListFields
        /\ Role(j + 1) = "value" => Word(j) \notin ListFields
    BY <1>1, <1>2, <1>3, RolesOfParents
  <2> QED
    BY <1>1, <1>3, <2>1
<1>4. CASE Role(j) = "entry_key"
  <2>1. Role(j + 1) = "entry_value"
    BY <1>1, <1>2, <1>4, RolesOfParents
  <2> QED
    BY <1>1, <1>4, <2>1
<1>5. ASSUME Role(j) \notin {"key", "entry_key"}, j + 1 \in Nodes(input.tree)
      PROVE  Role(j + 1) \in W!MayFollow(Role(j))
  <2> DEFINE role == Role(j)
             next == Role(j + 1)
  <2> SUFFICES next \in W!MayFollow(role)
    OBVIOUS
  <2>1. /\ next \in Roles
        /\ next \in ListFields => Up(j + 1) # -1 /\ Role(Up(j + 1)) = "array"
        /\ next = "entry_key" => Up(j + 1) # -1 /\ Role(Up(j + 1)) \in ListFields
        /\ next \in {"array", "value"} => Up(j + 1) # -1 /\ Role(Up(j + 1)) = "key"
        /\ next = "entry_value" => Up(j + 1) # -1 /\ Role(Up(j + 1)) = "entry_key"
        /\ next = "key" => Up(j + 1) # -1 /\ Role(Up(j + 1)) = "object"
    BY <1>5, RolesOfParents
  <2>2. Up(j + 1) # -1 => Role(Up(j + 1)) \in {role} \cup Holding(role)
    BY NextUp, HeldRoles, <1>5
  <2>3. role \in Roles \ {"key", "entry_key"}
    BY <1>2, <1>5
  <2>4. W!MayFollow(role) =
          CASE role \in {"object", "value"} -> FieldEnds
            [] role = "array" -> EntryEnd
            [] role \in ListFields \cup {"entry_value"} -> EntryEnd \cup {"entry_key"}
            [] OTHER -> {}
    BY DEF W!MayFollow, W!FieldEnds, W!EntryEnd, W!ListFields, FieldEnds, EntryEnd, ListFields
  <2> HIDE DEF role, next
  <2>5. CASE role = "object"
    <3>1. next \in {"object", "key"}
      BY <2>1, <2>2, <2>5, HoldingIs DEF Roles, ListFields
    <3> QED
      BY <2>4, <2>5, <3>1 DEF FieldEnds, ListFields
  <2>6. CASE role = "value"
    <3>1. next \in {"object", "key"}
      BY <2>1, <2>2, <2>6, HoldingIs DEF Roles, ListFields
    <3> QED
      BY <2>4, <2>6, <3>1 DEF FieldEnds, ListFields
  <2>7. CASE role = "array"
    <3>1. next \in {"object", "key"} \cup ListFields
      BY <2>1, <2>2, <2>7, HoldingIs DEF Roles, ListFields
    <3> QED
      BY <2>4, <2>7, <3>1 DEF FieldEnds, EntryEnd, ListFields
  <2>8. CASE role \in ListFields \cup {"entry_value"}
    <3>1. Holding(role) \cap {"key", "entry_key", "value", "entry_value"} = {}
      BY <2>8, HoldingIs DEF ListFields
    <3>2. next \in {"object", "key", "entry_key"} \cup ListFields
      BY <2>1, <2>2, <2>8, <3>1 DEF Roles, ListFields
    <3>3. W!MayFollow(role) = EntryEnd \cup {"entry_key"}
      BY <2>4, <2>8 DEF ListFields
    <3> QED
      BY <3>2, <3>3 DEF FieldEnds, EntryEnd
  <2> QED
    BY <2>3, <2>5, <2>6, <2>7, <2>8 DEF Roles
<1> QED
  BY <1>3, <1>4, <1>5

LEMMA ListsOfOrder ==
    ASSUME OnOrder, NEW a \in Nodes(input.tree), Role(a) = "array",
           NEW j \in Reach(a, FieldEnds), Role(j) \in ListFields
    PROVE  a - 1 \in Nodes(input.tree) /\ Role(j) = Word(a - 1)
<1>1. j \in Nodes(input.tree) /\ Up(j) = a
  BY EntriesOfList DEF Children, Up
<1>2. Role(j) = IF Word(a - 1) = "items" THEN "items" ELSE "transactions"
  BY <1>1, RolesOfParents
<1>3. Up(a) = a - 1 /\ a - 1 \in Nodes(input.tree) /\ Word(Up(a)) \in ListFields
  BY ValueIs, RolesOfParents
<1> QED
  BY <1>2, <1>3 DEF ListFields

LEMMA OrderIsInOrder == OnOrder => W!InOrder
<1> SUFFICES ASSUME OnOrder PROVE W!InOrder
  OBVIOUS
<1>0. /\ Nodes(input.tree) = 0..(W!r - 1) /\ W!r \in Nat
      /\ \A j \in Nodes(input.tree) : W!Role(j) = Role(j) /\ W!At(j).word = Word(j)
  BY TokensOf
<1>1. W!r > 0 => W!Role(0) = "object"
  BY <1>0, FirstIsOrder
<1>2. ASSUME NEW j \in 0..(W!r - 1)
      PROVE  CASE W!Role(j) = "key" ->
                    /\ j + 1 < W!r
                    /\ W!Role(j + 1) =
                          IF W!At(j).word \in W!ListFields THEN "array" ELSE "value"
               [] W!Role(j) = "entry_key" -> j + 1 < W!r /\ W!Role(j + 1) = "entry_value"
               [] OTHER -> j + 1 < W!r => W!Role(j + 1) \in W!MayFollow(W!Role(j))
  <2>1. j + 1 < W!r <=> j + 1 \in Nodes(input.tree)
    BY <1>0
  <2>2. j \in Nodes(input.tree) /\ W!Role(j) = Role(j) /\ W!At(j).word = Word(j)
    BY <1>0
  <2>3. j + 1 \in Nodes(input.tree) => W!Role(j + 1) = Role(j + 1)
    BY <1>0
  <2>4. /\ Role(j) = "key" =>
             /\ j + 1 \in Nodes(input.tree)
             /\ Role(j + 1) = IF Word(j) \in ListFields THEN "array" ELSE "value"
        /\ Role(j) = "entry_key" =>
             j + 1 \in Nodes(input.tree) /\ Role(j + 1) = "entry_value"
        /\ Role(j) \notin {"key", "entry_key"} /\ j + 1 \in Nodes(input.tree) =>
             Role(j + 1) \in W!MayFollow(Role(j))
    BY <2>2, FollowsInOrder
  <2>5. W!ListFields = ListFields
    BY DEF W!ListFields, ListFields
  <2> QED
    BY <2>1, <2>2, <2>3, <2>4, <2>5
<1>3. ASSUME NEW a \in 1..(W!r - 1), W!Role(a) = "array",
             NEW j \in W!Span(a, W!FieldEnds, W!r), W!Role(j) \in W!ListFields
      PROVE  W!Role(j) = W!At(a - 1).word
  <2>1. a \in Nodes(input.tree) /\ Role(a) = "array"
    BY <1>0, <1>3
  <2>2. W!FieldEnds = FieldEnds /\ W!ListFields = ListFields
    BY DEF W!FieldEnds, FieldEnds, W!ListFields, ListFields
  <2>3. j \in Reach(a, FieldEnds)
    BY <1>3, <2>1, <2>2, SpanIsReach
  <2>4. j \in Nodes(input.tree) /\ Role(j) \in ListFields
    BY <1>0, <1>3, <2>1, <2>2, <2>3, ReachIs
  <2>5. a - 1 \in Nodes(input.tree) /\ Role(j) = Word(a - 1)
    BY <2>1, <2>3, <2>4, ListsOfOrder
  <2> QED
    BY <1>0, <2>4, <2>5
<1> QED
  BY <1>1, <1>2, <1>3 DEF W!InOrder

LEMMA OrderIsDocument == OnOrder => W!IsDocument
BY OrderIsInOrder, SizesOfOrder DEF W!IsDocument, Foreseen

-----------------------------------------------------------------------------
(* What the walk finds in the tokens is what the order says.               *)
LEMMA ValuesFound ==
    ASSUME OnOrder, NEW f
    PROVE  W!Valued("value", f, 1..(W!r - 1)) = Values(f)
<1>0. /\ Nodes(input.tree) = 0..(W!r - 1) /\ W!r \in Nat
      /\ \A j \in Nodes(input.tree) : W!Role(j) = Role(j) /\ W!At(j).word = Word(j)
  BY TokensOf
<1>1. ASSUME NEW j \in Nodes(input.tree), Role(j) = "value"
      PROVE  j \in 1..(W!r - 1) /\ W!At(j - 1).word = Word(Up(j))
  <2>1. Up(j) = j - 1 /\ j - 1 \in Nodes(input.tree)
    BY <1>1, ValueIs
  <2> QED
    BY <1>0, <2>1
<1>2. \A j \in 1..(W!r - 1) : j \in Nodes(input.tree) /\ W!Role(j) = Role(j)
  BY <1>0
<1>3. \A j \in Nodes(input.tree) : W!Role(j) = Role(j)
  BY <1>0
<1> QED
  BY <1>1, <1>2, <1>3 DEF W!Valued, Values

LEMMA EntryValuesFound ==
    ASSUME OnOrder, NEW h \in Nodes(input.tree), Role(h) \in ListFields, NEW f
    PROVE  W!Valued("entry_value", f, W!EntryOf(h, W!r)) = EntryValues(h, f)
<1>0. /\ Nodes(input.tree) = 0..(W!r - 1) /\ W!r \in Nat
      /\ \A j \in Nodes(input.tree) : W!Role(j) = Role(j) /\ W!At(j).word = Word(j)
  BY TokensOf
<1>1. W!EntryOf(h, W!r) = Reach(h, EntryEnd)
  BY SpanIsReach DEF W!EntryOf, W!EntryEnd, W!FieldEnds, W!ListFields, EntryEnd, FieldEnds,
                     ListFields
<1>2. ASSUME NEW m \in Nodes(input.tree), Role(m) = "entry_value"
      PROVE  /\ Up(m) = m - 1 /\ m - 1 \in Nodes(input.tree) /\ Role(m - 1) = "entry_key"
             /\ W!At(m - 1).word = Word(Up(m))
             /\ m \in Reach(h, EntryEnd) <=> Up(Up(m)) = h
  <2>1. Up(m) = m - 1 /\ m - 1 \in Nodes(input.tree) /\ Role(m - 1) = "entry_key"
    BY <1>2, ValueIs
  <2>2. m \in Nat /\ h \in Nat /\ \A d \in Nodes(input.tree) : d \in Nat
    BY <1>0
  <2>3. h # m /\ h # m - 1
    BY <1>2, <2>1 DEF ListFields
  <2>4. Role(m) \notin EntryEnd
    BY <1>2 DEF EntryEnd, FieldEnds, ListFields
  <2>5. h < m <=> h < m - 1
    BY <2>2, <2>3
  <2>6. \A d \in Nodes(input.tree) : d <= m <=> d = m \/ d <= m - 1
    BY <2>2
  <2>7. m \in Reach(h, EntryEnd) <=> m - 1 \in Reach(h, EntryEnd)
    BY <2>1, <2>4, <2>5, <2>6, ReachIs
  <2>8. m - 1 \in Reach(h, EntryEnd) <=> Up(m - 1) = h
    BY <2>1, FieldsOfEntry DEF Children, Up
  <2> QED
    BY <1>0, <2>1, <2>7, <2>8
<1>3. \A m \in Reach(h, EntryEnd) : m \in Nodes(input.tree)
  BY ReachIs
<1>4. \A m : m \in W!Valued("entry_value", f, Reach(h, EntryEnd)) <=>
                m \in Reach(h, EntryEnd) /\ W!Role(m) = "entry_value" /\ W!At(m - 1).word = f
  BY DEF W!Valued
<1>5. \A m : m \in EntryValues(h, f) <=>
                /\ m \in Nodes(input.tree) /\ Role(m) = "entry_value"
                /\ Word(Up(m)) = f /\ Up(Up(m)) = h
  BY DEF EntryValues
<1>6. \A m : m \in W!Valued("entry_value", f, Reach(h, EntryEnd)) <=> m \in EntryValues(h, f)
  BY <1>0, <1>2, <1>3, <1>4, <1>5
<1>7. W!Valued("entry_value", f, Reach(h, EntryEnd)) = EntryValues(h, f)
  <2>1. \A m \in W!Valued("entry_value", f, Reach(h, EntryEnd)) : m \in EntryValues(h, f)
    BY <1>6
  <2>2. \A m \in EntryValues(h, f) : m \in W!Valued("entry_value", f, Reach(h, EntryEnd))
    BY <1>6
  <2> QED
    BY <2>1, <2>2 DEF W!Valued, EntryValues
<1> QED
  BY <1>1, <1>7

LEMMA EnteredIs ==
    ASSUME OnOrder, NEW l
    PROVE  W!Entered(l) = Allocated(l)
<1>0. /\ Nodes(input.tree) = 0..(W!r - 1) /\ W!r = Len(input.tree)
      /\ \A j \in Nodes(input.tree) : W!Role(j) = Role(j)
  BY TokensOf
<1>1. W!Heads(l, W!r) = EntriesOf(l)
  BY <1>0 DEF W!Heads, EntriesOf
<1> QED
  BY <1>0, <1>1 DEF W!Entered, Allocated

LEMMA LatestIs == \A S : W!LastOf(S) = Latest(S)
BY SameMax DEF W!LastOf, Latest

LEMMA FaultsAre ==
    ASSUME OnOrder
    PROVE  W!Faulty(W!r) <=> Faulty
<1>0. /\ Nodes(input.tree) = 0..(W!r - 1) /\ W!r \in Nat
      /\ \A j \in Nodes(input.tree) :
            /\ W!Role(j) = Role(j) /\ W!At(j).word = Word(j) /\ W!At(j).valid = Valid(j)
  BY TokensOf
<1>1. /\ W!ListFields = ListFields /\ W!ScalarFields = Walk!ScalarFields
      /\ W!EntryFields = Walk!EntryFields /\ W!CheckedScalars = Walk!CheckedScalars
      /\ W!CheckedEntryFields = Walk!CheckedEntryFields
  BY DEF W!ListFields, ListFields, W!ScalarFields, Walk!ScalarFields, W!EntryFields,
         Walk!EntryFields, W!ItemFields, Walk!ItemFields, W!TransactionFields,
         Walk!TransactionFields, W!CheckedScalars, Walk!CheckedScalars,
         W!CheckedEntryFields, Walk!CheckedEntryFields, W!CheckedTransactionFields,
         Walk!CheckedTransactionFields
<1>2. ASSUME NEW k \in Nodes(input.tree), Role(k) \in {"key", "entry_key"},
             NEW known, NEW checked
      PROVE  W!FaultAt(k, known, checked) <=> FaultAt(k, known, checked)
  <2>1. k + 1 \in Nodes(input.tree)
    BY <1>2, KeyIs
  <2>2. Foreseen.validate = validate
    BY DEF Foreseen
  <2> QED
    BY <1>0, <2>1, <2>2 DEF W!FaultAt, FaultAt
<1>3. ASSUME NEW l \in ListFields, NEW p, NEW k
      PROVE  /\ p \in W!Heads(l, W!r) /\ k \in W!EntryOf(p, W!r) /\ W!Role(k) = "entry_key" =>
                  k \in Nodes(input.tree) /\ Role(k) = "entry_key" /\ Role(Up(k)) = l
             /\ k \in Nodes(input.tree) /\ Role(k) = "entry_key" /\ Role(Up(k)) = l =>
                  Up(k) \in W!Heads(l, W!r) /\ k \in W!EntryOf(Up(k), W!r)
  <2>1. \A h \in Nodes(input.tree) : W!EntryOf(h, W!r) = Reach(h, EntryEnd)
    BY SpanIsReach DEF W!EntryOf, W!EntryEnd, W!FieldEnds, W!ListFields, EntryEnd,
                       FieldEnds, ListFields
  <2>2. \A h \in Nodes(input.tree) : Role(h) \in ListFields =>
            \A m : m \in Reach(h, EntryEnd) /\ Role(m) = "entry_key" <=>
                   m \in Nodes(input.tree) /\ Up(m) = h
    BY FieldsOfEntry DEF Children, Up
  <2>3. \A h : h \in W!Heads(l, W!r) <=> h \in Nodes(input.tree) /\ Role(h) = l
    BY <1>0 DEF W!Heads
  <2>4. \A h \in Nodes(input.tree) : \A m \in Reach(h, EntryEnd) : m \in Nodes(input.tree)
    BY ReachIs
  <2>5. ASSUME p \in W!Heads(l, W!r), k \in W!EntryOf(p, W!r), W!Role(k) = "entry_key"
        PROVE  k \in Nodes(input.tree) /\ Role(k) = "entry_key" /\ Role(Up(k)) = l
    <3>1. p \in Nodes(input.tree) /\ Role(p) = l /\ k \in Reach(p, EntryEnd)
      BY <2>1, <2>3, <2>5
    <3>2. k \in Nodes(input.tree) /\ Role(k) = "entry_key"
      BY <1>0, <2>4, <2>5, <3>1
    <3>3. Up(k) = p
      BY <2>2, <3>1, <3>2
    <3> QED
      BY <3>1, <3>2, <3>3
  <2>6. ASSUME k \in Nodes(input.tree), Role(k) = "entry_key", Role(Up(k)) = l
        PROVE  Up(k) \in W!Heads(l, W!r) /\ k \in W!EntryOf(Up(k), W!r)
    <3>1. Up(k) \in Nodes(input.tree)
      BY <2>6, KeyIs
    <3>2. k \in Reach(Up(k), EntryEnd)
      BY <2>2, <2>6, <3>1
    <3> QED
      BY <2>1, <2>3, <2>6, <3>1, <3>2
  <2> QED
    BY <2>5, <2>6
<1>4. ASSUME W!Faulty(W!r) PROVE Faulty
  <2>1. CASE \E j \in 0..(W!r - 1) :
                W!Role(j) = "key" /\
                W!FaultAt(j, W!ScalarFields \cup W!ListFields, W!CheckedScalars)
    <3>1. PICK j \in Nodes(input.tree) :
              Role(j) = "key" /\
              W!FaultAt(j, Walk!ScalarFields \cup ListFields, Walk!CheckedScalars)
      BY <1>0, <1>1, <2>1
    <3> QED
      BY <1>2, <3>1 DEF Faulty
  <2>2. CASE \E l \in W!ListFields : \E p \in W!Heads(l, W!r) : \E j \in W!EntryOf(p, W!r) :
                W!Role(j) = "entry_key" /\
                W!FaultAt(j, W!EntryFields[l], W!CheckedEntryFields[l])
    <3>1. PICK l \in ListFields : \E p \in W!Heads(l, W!r) : \E j \in W!EntryOf(p, W!r) :
              W!Role(j) = "entry_key" /\
              W!FaultAt(j, Walk!EntryFields[l], Walk!CheckedEntryFields[l])
      BY <1>1, <2>2
    <3>2. PICK j \in Nodes(input.tree) :
              /\ Role(j) = "entry_key" /\ Role(Up(j)) = l
              /\ W!FaultAt(j, Walk!EntryFields[l], Walk!CheckedEntryFields[l])
      BY <1>3, <3>1
    <3> QED
      BY <1>2, <3>2 DEF Faulty
  <2> QED
    BY <1>4, <2>1, <2>2 DEF W!Faulty
<1>5. ASSUME Faulty PROVE W!Faulty(W!r)
  <2>1. PICK k \in Nodes(input.tree) :
            \/ /\ Role(k) = "key"
               /\ FaultAt(k, Walk!ScalarFields \cup ListFields, Walk!CheckedScalars)
            \/ /\ Role(k) = "entry_key"
               /\ FaultAt(k, Walk!EntryFields[Role(Up(k))], Walk!CheckedEntryFields[Role(Up(k))])
    BY <1>5 DEF Faulty
  <2>2. CASE /\ Role(k) = "key"
             /\ FaultAt(k, Walk!ScalarFields \cup ListFields, Walk!CheckedScalars)
    <3>1. W!FaultAt(k, W!ScalarFields \cup W!ListFields, W!CheckedScalars)
      BY <1>1, <1>2, <2>2
    <3> QED
      BY <1>0, <2>2, <3>1 DEF W!Faulty
  <2>3. CASE /\ Role(k) = "entry_key"
             /\ FaultAt(k, Walk!EntryFields[Role(Up(k))], Walk!CheckedEntryFields[Role(Up(k))])
    <3> DEFINE l == Role(Up(k))
    <3>1. l \in ListFields
      BY <2>3, RolesOfParents
    <3>2. Up(k) \in W!Heads(l, W!r) /\ k \in W!EntryOf(Up(k), W!r)
      BY <1>3, <2>3, <3>1
    <3>3. W!FaultAt(k, W!EntryFields[l], W!CheckedEntryFields[l])
      BY <1>1, <1>2, <2>3
    <3>4. W!Role(k) = "entry_key"
      BY <1>0, <2>3
    <3> QED
      BY <1>1, <3>1, <3>2, <3>3, <3>4 DEF W!Faulty
  <2> QED
    BY <2>1, <2>2, <2>3
<1> QED
  BY <1>4, <1>5

LEMMA EverythingFound ==
    ASSUME OnOrder, W!FindsEveryField, pc = "done", answer # "-2"
    PROVE  /\ \A f \in Walk!ScalarFields : je.scalar[f] = Latest(Values(f))
           /\ \A l \in ListFields :
                 /\ Len(je[l]) = Cardinality(Allocated(l))
                 /\ \A h \in Allocated(l), f \in Walk!EntryFields[l] :
                       je[l][Cardinality({g \in Allocated(l) : g >= h})][f] =
                           Latest(EntryValues(h, f))
<1>1. /\ W!ScalarsFound(W!r)
      /\ \A l \in W!ListFields : W!EntriesFound(l, W!Entered(l), W!r)
  BY OrderIsDocument DEF W!FindsEveryField
<1>2. ASSUME NEW f \in Walk!ScalarFields
      PROVE  je.scalar[f] = Latest(Values(f))
  <2>1. je.scalar[f] = W!LastOf(W!Valued("value", f, 1..(W!r - 1)))
    BY <1>1 DEF W!ScalarsFound, W!ScalarFields, Walk!ScalarFields
  <2> QED
    BY <2>1, ValuesFound, LatestIs
<1>3. ASSUME NEW l \in ListFields
      PROVE  /\ Len(je[l]) = Cardinality(Allocated(l))
             /\ \A h \in Allocated(l), f \in Walk!EntryFields[l] :
                   je[l][Cardinality({g \in Allocated(l) : g >= h})][f] =
                       Latest(EntryValues(h, f))
  <2>1. W!EntriesFound(l, Allocated(l), W!r)
    BY <1>1, EnteredIs DEF W!ListFields, ListFields
  <2>2. /\ Len(je[l]) = Cardinality(Allocated(l))
        /\ \A p \in Allocated(l) :
              je[l][Cardinality({q \in Allocated(l) : q >= p})] = W!EntryMeaning(l, p, W!r)
    BY <2>1, SameCardinality DEF W!EntriesFound
  <2>3. W!EntryFields = Walk!EntryFields
    BY DEF W!EntryFields, Walk!EntryFields, W!ItemFields, Walk!ItemFields,
           W!TransactionFields, Walk!TransactionFields
  <2>4. ASSUME NEW h \in Allocated(l), NEW f \in Walk!EntryFields[l]
        PROVE  W!EntryMeaning(l, h, W!r)[f] = Latest(EntryValues(h, f))
    <3>1. h \in Nodes(input.tree) /\ Role(h) \in ListFields
      BY DEF Allocated, EntriesOf
    <3>2. W!EntryMeaning(l, h, W!r)[f] =
              W!LastOf(W!Valued("entry_value", f, W!EntryOf(h, W!r)))
      BY <2>3 DEF W!EntryMeaning
    <3> QED
      BY <3>1, <3>2, EntryValuesFound, LatestIs
  <2> QED
    BY <2>2, <2>4
<1> QED
  BY <1>2, <1>3

-----------------------------------------------------------------------------
(* jsmn_parse, then the walk.                                              *)
LEMMA InputStays == [BodyNext]_bodyVars => UNCHANGED <<input, lexemes, validate>>
<1>1. Next => UNCHANGED input
  BY DEF Next, Open, Value, NewToken, NoMemory, BadValue, Close, Space, Colon, Comma, End,
         Return
<1> QED
  BY <1>1 DEF BodyNext, Tokenize, WalkOn, bodyVars, vars

LEMMA OrderStays ==
    ASSUME UNCHANGED <<input, lexemes, validate>>
    PROVE  IsOrder' = IsOrder /\ Foreseen' = Foreseen
<1>1. input' = input /\ lexemes' = lexemes /\ validate' = validate
  OBVIOUS
<1>2. text' = text
  BY <1>1 DEF text
<1>3. \A k : Role(k)' = Role(k) /\ Word(k)' = Word(k) /\ Up(k)' = Up(k)
  BY <1>1, <1>2 DEF Role, Word, Up
<1>4. \A k : RoleUnder(k)' = RoleUnder(k)
  BY <1>3 DEF RoleUnder
<1>5. IsOrder' = IsOrder
  BY <1>1, <1>2, <1>3, <1>4 DEF IsOrder
<1>6. Foreseen' = Foreseen
  BY <1>1 DEF Foreseen, Seen
<1> QED
  BY <1>5, <1>6

LEMMA BodyIsText ==
    /\ BodySpec => Spec
    /\ BodySpec => [](input \in Input)
    /\ BodySpec => []TreeOfDocument
<1>1. BodyInit => Init
  BY DEF BodyInit
<1>2. [BodyNext]_bodyVars => [Next]_vars
  BY DEF BodyNext, Tokenize, WalkOn, bodyVars
<1>3. BodySpec => Spec
  BY <1>1, <1>2, PTL DEF BodySpec, Spec
<1>4. TypeOK => input \in Input
  BY DEF TypeOK
<1> QED
  BY <1>3, <1>4, StaysInArray, GivesTheTree, PTL

Roomy == Len(input.tree) <= input.limit

LEMMA RoomyStays ==
    ASSUME [BodyNext]_bodyVars
    PROVE  IsOrder' = IsOrder /\ Roomy' = Roomy
<1>1. UNCHANGED <<input, lexemes, validate>>
  BY InputStays
<1> QED
  BY <1>1, OrderStays DEF Roomy

LEMMA ForeseenIs ==
    ASSUME OnOrder, lexemes \in [DOMAIN text -> Lexeme], validate \in BOOLEAN
    PROVE  Foreseen \in Walk!Input
<1>1. /\ Len(input.tree) \in Nat /\ DOMAIN input.tree = 1..Len(input.tree)
      /\ DOMAIN text = 1..Len(text) /\ Len(text) \in Nat
  BY OrderIs DEF OnOrder, Input, text
<1>2. ASSUME NEW n \in 1..Len(input.tree)
      PROVE  Seen(input.tree)[n] \in Walk!Token
  <2>1. n - 1 \in Nodes(input.tree) /\ (n - 1) + 1 = n
    BY <1>1 DEF Nodes
  <2>2. input.tree[n].start \in Nat /\ input.tree[n].start < Len(text)
        /\ input.tree[n].size \in Nat
    <3>1. Spans(text, input.tree[n])
      BY <2>1, OrderIs DEF LaidOut
    <3>2. input.tree[n] \in Token
      BY <1>1, OrderIs
    <3> QED
      BY <3>1, <3>2 DEF Spans, Token
  <2>3. input.tree[n].start + 1 \in DOMAIN text
    BY <1>1, <2>2
  <2>4. lexemes[input.tree[n].start + 1] \in Lexeme
    BY <2>3
  <2>5. n \in DOMAIN input.tree
    BY <1>1
  <2> QED
    BY <2>2, <2>4, <2>5 DEF Seen, Lexeme, Walk!Token
<1>3. Seen(input.tree) = [n \in 1..Len(input.tree) |-> Seen(input.tree)[n]]
  BY <1>1 DEF Seen
<1>4. Seen(input.tree) \in [1..Len(input.tree) -> Walk!Token]
  BY <1>2, <1>3
<1>5. \A f, n : n \in Nat /\ f \in [1..n -> Walk!Token] => f \in Seq(Walk!Token)
  OBVIOUS
<1> QED
  BY <1>1, <1>4, <1>5 DEF Foreseen, Walk!Input

LEMMA WalkBegins ==
    ASSUME BodyInit, IsOrder
    PROVE  W!Init
<1>1. PICK b \in Bodies : input = b.input /\ lexemes = b.lexemes /\ validate = b.validate
  BY DEF BodyInit
<1>2. /\ input \in Input /\ lexemes \in [DOMAIN text -> Lexeme]
      /\ validate \in BOOLEAN
  <2>1. input \in Inputs
    BY DEF BodyInit, Init
  <2> QED
    BY <1>1, <2>1, BodiesAssumption, InputsAssumption DEF text
<1>3. Foreseen \in Walk!Input
  BY <1>2, ForeseenIs DEF OnOrder
<1>4. W!EmptyJsonEntry = Walk!EmptyJsonEntry
  BY DEF W!EmptyJsonEntry, Walk!EmptyJsonEntry, W!ScalarFields, Walk!ScalarFields
<1> QED
  BY <1>3, <1>4 DEF BodyInit, W!Init

LEMMA WalkGoesOn ==
    ASSUME IsOrder, Roomy, TreeOfDocument, TreeOfDocument', [BodyNext]_bodyVars
    PROVE  [W!Next]_(W!vars)
<1>1. UNCHANGED <<input, lexemes, validate>>
  BY InputStays
<1>2. IsOrder' /\ Roomy' /\ Foreseen' = Foreseen
  BY <1>1, RoomyStays, OrderStays
<1>3. CASE Tokenize \/ UNCHANGED bodyVars
  <2>1. UNCHANGED walk
    BY <1>3 DEF Tokenize, bodyVars
  <2> QED
    BY <1>2, <2>1 DEF walk, W!vars
<1>4. CASE WalkOn
  <2>1. ret # "none" /\ ret' # "none"
    BY <1>4 DEF WalkOn, vars
  <2>2. AsForeseen
    <3>1. ret = "ok" /\ tokens = input.tree
      BY <2>1 DEF TreeOfDocument, IsOrder, Roomy
    <3> QED
      BY <3>1 DEF AsForeseen, Parsed, Foreseen
  <2>3. AsForeseen'
    <3>1. IsDocument(text, input.tree)' /\ Roomy'
      BY <1>2 DEF IsOrder
    <3>2. ret' = "ok" /\ tokens' = input'.tree
      BY <2>1, <3>1 DEF TreeOfDocument, Roomy
    <3> QED
      BY <3>2 DEF AsForeseen, Parsed, Foreseen
  <2> QED
    BY <1>4, <2>2, <2>3, WalkStep
<1> QED
  BY <1>3, <1>4 DEF BodyNext

Refused ==
    (IsOrder /\ ~Roomy) =>
        /\ je = Walk!EmptyJsonEntry
        /\ pc = "parse" \/ (pc = "done" /\ answer = "JSMN_ERROR_NOMEM")

LEMMA RefusedStep ==
    ASSUME Refused, TreeOfDocument, [BodyNext]_bodyVars
    PROVE  Refused'
<1> SUFFICES ASSUME IsOrder, ~Roomy
             PROVE  /\ je' = Walk!EmptyJsonEntry
                    /\ pc' = "parse" \/ (pc' = "done" /\ answer' = "JSMN_ERROR_NOMEM")
  <2>1. Walk!EmptyJsonEntry' = Walk!EmptyJsonEntry
    BY DEF Walk!EmptyJsonEntry
  <2> QED
    BY <2>1, RoomyStays DEF Refused
<1>1. je = Walk!EmptyJsonEntry /\ (pc = "parse" \/ (pc = "done" /\ answer = "JSMN_ERROR_NOMEM"))
  BY DEF Refused
<1>2. CASE Tokenize \/ UNCHANGED bodyVars
  BY <1>1, <1>2 DEF Tokenize, bodyVars, walk
<1>3. CASE WalkOn
  <2>1. ret = "JSMN_ERROR_NOMEM"
    BY <1>3 DEF WalkOn, TreeOfDocument, IsOrder, Roomy
  <2>2. Parsed.parse = "JSMN_ERROR_NOMEM"
    BY <2>1 DEF Parsed
  <2>3. Walk!Next => Walk!Parse
    BY <1>1 DEF Walk!Next, Walk!OuterLoop, Walk!RootLoopEnds, Walk!Scalar, Walk!List,
        Walk!AtField, Walk!UnknownField, Walk!ListEnds, Walk!Item, Walk!Transaction,
        Walk!EntryField, Walk!UnknownEntryField, Walk!EntryEnds, Walk!ListFields
  <2> QED
    BY <1>1, <1>3, <2>2, <2>3 DEF WalkOn, Walk!Parse, Walk!Return
<1> QED
  BY <1>2, <1>3 DEF BodyNext

(* Of an order of any length validate_json finds every field, or it        *)
(* objects to a fault that is there, or says that the array is too short.  *)
THEOREM ReadsText == BodySpec => []FieldsOfText
<1> DEFINE Order == IsOrder /\ Roomy
<1>1. BodyInit => Refused
  BY DEF BodyInit, Refused
<1>2. [BodyNext]_bodyVars => (Order => Order') /\ (~Order => (~Order)')
  BY RoomyStays
<1>3. BodyInit /\ Order => W!Init
  BY WalkBegins
<1>4. Order /\ TreeOfDocument /\ TreeOfDocument' /\ [BodyNext]_bodyVars => [W!Next]_(W!vars)
  BY WalkGoesOn
<1>5. Refused /\ TreeOfDocument /\ [BodyNext]_bodyVars => Refused'
  BY RefusedStep
<1>6. W!Spec => []W!FindsEveryField /\ []W!ObjectsToFaults
  BY W!FindsAll, W!FindsFaults, InputsOfWalk
<1> DEFINE Read == W!FindsEveryField /\ W!ObjectsToFaults
<1>7. input \in Input /\ Refused /\ (Order => Read) => FieldsOfText
  <2> SUFFICES ASSUME input \in Input, Refused, Order => Read, pc = "done", IsOrder
               PROVE  FieldsOfText
    BY DEF FieldsOfText
  <2>1. Len(input.tree) \in Nat /\ input.limit \in Nat /\ OnOrder
    BY OrderIs DEF OnOrder, Input
  <2>2. CASE Roomy
    <3>1. ~(Len(input.tree) > input.limit)
      BY <2>1, <2>2 DEF Roomy
    <3>2. answer = "-2" <=> Faulty
      BY <2>1, <2>2, OrderIsDocument, FaultsAre DEF W!ObjectsToFaults
    <3>3. CASE Faulty
      BY <3>1, <3>2, <3>3 DEF FieldsOfText
    <3>4. CASE ~Faulty
      <4>1. W!FindsEveryField /\ answer # "-2"
        BY <2>2, <3>2, <3>4
      <4> QED
        BY <2>1, <3>1, <3>4, <4>1, EverythingFound DEF FieldsOfText
    <3> QED
      BY <3>3, <3>4
  <2>3. CASE ~Roomy
    <3>1. Len(input.tree) > input.limit
      BY <2>1, <2>3 DEF Roomy
    <3> QED
      BY <2>3, <3>1 DEF Refused, FieldsOfText
  <2> QED
    BY <2>2, <2>3
<1> HIDE DEF Order, Read
<1>8. BodySpec => []TreeOfDocument /\ [](input \in Input)
  BY BodyIsText, PTL
<1>9. BodySpec => []Refused
  BY <1>1, <1>5, <1>8, PTL DEF BodySpec
<1>10. BodySpec => [](Order => Read)
  <2>1. BodySpec => []Order \/ []~Order
    BY <1>2, PTL DEF BodySpec
  <2>2. BodySpec /\ []Order => W!Spec
    BY <1>3, <1>4, <1>8, PTL DEF BodySpec, W!Spec
  <2>3. W!Spec => []Read
    BY <1>6, PTL DEF Read
  <2> QED
    BY <2>1, <2>2, <2>3, PTL
<1> QED
  BY <1>7, <1>8, <1>9, <1>10, PTL

=============================================================================
