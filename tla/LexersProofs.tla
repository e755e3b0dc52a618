---------------------------- MODULE LexersProofs ----------------------------
(***************************************************************************)
(* Theorems about the lexers, for texts of any length.                     *)
(***************************************************************************)
EXTENDS Lexers, SequenceTheorems, WellFoundedInduction, TLAPS

-----------------------------------------------------------------------------
(* The tables: every rule matches at least one symbol and at most 36, and  *)
(* none the symbol that Peek gives at the end of the text.                 *)

GoodRule(rule) ==
    /\ Len(rule.pattern) \in 1..36
    /\ DOMAIN rule.pattern = 1..Len(rule.pattern)
    /\ \A k \in 1..Len(rule.pattern) : "NUL" \notin rule.pattern[k]
    /\ rule.answer \in 0..256

GoodTable(table) ==
    /\ Len(table) \in Nat
    /\ DOMAIN table = 1..Len(table)
    /\ \A k \in 1..Len(table) : GoodRule(table[k])

(* The words of the tables have one symbol, two or three.                  *)
LEMMA GoodWord1 ==
    ASSUME NEW a, a # "NUL", NEW answer \in 0..256
    PROVE  GoodRule(Word(<<a>>, answer))
<1> DEFINE p == <<{a}>>
           r == Word(<<a>>, answer)
<1>1. r.pattern = p /\ r.answer = answer
  BY DEF Word
<1>2. Len(p) = 1 /\ DOMAIN p = 1..1
  OBVIOUS
<1>3. p[1] = {a}
  OBVIOUS
<1> HIDE DEF p, r
<1>4. GoodRule(r)
  BY <1>1, <1>2, <1>3 DEF GoodRule
<1> QED
  BY <1>4 DEF r

LEMMA GoodWord2 ==
    ASSUME NEW a, NEW b, a # "NUL", b # "NUL", NEW answer \in 0..256
    PROVE  GoodRule(Word(<<a, b>>, answer))
<1> DEFINE p == <<{a}, {b}>>
           r == Word(<<a, b>>, answer)
<1>1. r.pattern = p /\ r.answer = answer
  BY DEF Word
<1>2. Len(p) = 2 /\ DOMAIN p = 1..2
  OBVIOUS
<1>3. p[1] = {a} /\ p[2] = {b}
  OBVIOUS
<1> HIDE DEF p, r
<1>4. GoodRule(r)
  BY <1>1, <1>2, <1>3 DEF GoodRule
<1> QED
  BY <1>4 DEF r

LEMMA GoodWord3 ==
    ASSUME NEW a, NEW b, NEW c, a # "NUL", b # "NUL", c # "NUL", NEW answer \in 0..256
    PROVE  GoodRule(Word(<<a, b, c>>, answer))
<1> DEFINE p == <<{a}, {b}, {c}>>
           r == Word(<<a, b, c>>, answer)
<1>1. r.pattern = p /\ r.answer = answer
  BY DEF Word
<1>2. Len(p) = 3 /\ DOMAIN p = 1..3
  OBVIOUS
<1>3. p[1] = {a} /\ p[2] = {b} /\ p[3] = {c}
  OBVIOUS
<1> HIDE DEF p, r
<1>4. GoodRule(r)
  BY <1>1, <1>2, <1>3 DEF GoodRule
<1> QED
  BY <1>4 DEF r

(* A pattern of n symbols over a set of classes.                           *)
Pattern(p, S, n) == p \in Seq(S) /\ Len(p) = n

LEMMA GoodTimes ==
    ASSUME NEW S, NEW class \in S, NEW n \in Nat
    PROVE  Pattern(Times(n, class), S, n)
BY DEF Times, Pattern

LEMMA GoodOne ==
    ASSUME NEW S, NEW class \in S
    PROVE  Pattern(<<class>>, S, 1)
BY DEF Pattern

LEMMA GoodConcat ==
    ASSUME NEW S, NEW p, NEW q, NEW m \in Nat, NEW n \in Nat,
           Pattern(p, S, m), Pattern(q, S, n)
    PROVE  Pattern(p \o q, S, m + n)
BY DEF Pattern

NoNul(S) == \A c \in S : "NUL" \notin c

LEMMA GoodPattern ==
    ASSUME NEW S, NoNul(S), NEW n \in 1..36,
           NEW rule, Pattern(rule.pattern, S, n), rule.answer \in 0..256
    PROVE  GoodRule(rule)
<1> DEFINE p == rule.pattern
<1>1. Pattern(p, S, n)
  OBVIOUS
<1> HIDE DEF p
<1>2. /\ Len(p) \in 1..36
      /\ DOMAIN p = 1..Len(p)
      /\ \A k \in 1..Len(p) : p[k] \in S
  BY <1>1 DEF Pattern
<1> QED
  BY <1>2 DEF GoodRule, p, NoNul

LEMMA MethodTable == GoodTable(MethodRules)
<1>1. /\ GoodRule(Word(<<"GET">>, 14))
      /\ GoodRule(Word(<<"P", "OST">>, 15))
      /\ GoodRule(Word(<<"P", "UT">>, 16))
      /\ GoodRule(Word(<<"DELETE">>, 17))
  BY GoodWord1, GoodWord2, GoodWord3
<1> QED
  BY <1>1 DEF MethodRules, GoodTable

LEMMA GetSubitemTable == GoodTable(GetSubitemRules)
<1>1. /\ GoodRule(Word(<<"items">>, 4))
      /\ GoodRule(Word(<<"transactions">>, 5))
  BY GoodWord1, GoodWord2, GoodWord3
<1> QED
  BY <1>1 DEF GetSubitemRules, GoodTable

LEMMA PutSubitemTable == GoodTable(PutSubitemRules)
<1>1. /\ GoodRule(Word(<<"transactions">>, 3))
  BY GoodWord1, GoodWord2, GoodWord3
<1> QED
  BY <1>1 DEF PutSubitemRules, GoodTable

LEMMA ItemTable == GoodTable(ItemRules)
<1>1. /\ GoodRule(Word(<<"sku">>, 11))
      /\ GoodRule(Word(<<"unit_price">>, 12))
      /\ GoodRule(Word(<<"quantity">>, 13))
  BY GoodWord1, GoodWord2, GoodWord3
<1> QED
  BY <1>1 DEF ItemRules, GoodTable

LEMMA TransactionTable == GoodTable(TransactionRules)
<1>1. /\ GoodRule(Word(<<"id">>, 14))
      /\ GoodRule(Word(<<"external_id">>, 15))
      /\ GoodRule(Word(<<"a", "mount">>, 16))
      /\ GoodRule(Word(<<"type">>, 17))
      /\ GoodRule(Word(<<"a", "uthorization_code">>, 18))
      /\ GoodRule(Word(<<"card_", "b", "rand">>, 19))
      /\ GoodRule(Word(<<"card_", "b", "in">>, 20))
      /\ GoodRule(Word(<<"card_", "last">>, 21))
  BY GoodWord1, GoodWord2, GoodWord3
<1> QED
  BY <1>1 DEF TransactionRules, GoodTable

LEMMA IdTable == GoodTable(IdRules)
<1>1. /\ GoodRule(Word(<<"i", "d">>, 1))
      /\ GoodRule(Word(<<"n", "umber">>, 2))
      /\ GoodRule(Word(<<"reference">>, 3))
      /\ GoodRule(Word(<<"status">>, 4))
      /\ GoodRule(Word(<<"created_at">>, 5))
      /\ GoodRule(Word(<<"updated_at">>, 6))
      /\ GoodRule(Word(<<"i", "tems">>, 7))
      /\ GoodRule(Word(<<"n", "otes">>, 8))
      /\ GoodRule(Word(<<"transactions">>, 9))
      /\ GoodRule(Word(<<"price">>, 10))
  BY GoodWord1, GoodWord2, GoodWord3
<1> QED
  BY <1>1 DEF IdRules, GoodTable

LEMMA StatusTable == GoodTable(StatusRules)
<1>1. /\ GoodRule(Word(<<"DRAFT">>, 1))
      /\ GoodRule(Word(<<"ENTERED">>, 4))
      /\ GoodRule(Word(<<"C", "ANCELED">>, 8))
      /\ GoodRule(Word(<<"PAID">>, 16))
      /\ GoodRule(Word(<<"APPROVED">>, 32))
      /\ GoodRule(Word(<<"RE", "JECTED">>, 64))
      /\ GoodRule(Word(<<"RE", "dash", "ENTERED">>, 128))
      /\ GoodRule(Word(<<"C", "LOSED">>, 256))
  BY GoodWord1, GoodWord2, GoodWord3
<1> QED
  BY <1>1 DEF StatusRules, GoodTable

LEMMA TypeTable == GoodTable(TypeRules)
<1>1. /\ GoodRule(Word(<<"PAYMENT">>, 1))
      /\ GoodRule(Word(<<"CANCEL">>, 4))
  BY GoodWord1, GoodWord2, GoodWord3
<1> QED
  BY <1>1 DEF TypeRules, GoodTable

LEMMA UuidPattern == Pattern(UuidRules[1].pattern, {Hex, {"dash"}}, 36)
<1> DEFINE S == {Hex, {"dash"}}
<1>1. Hex \in S /\ {"dash"} \in S
  OBVIOUS
<1> HIDE DEF S
<1>2. Pattern(Part1, S, 8) /\ Pattern(Part2, S, 4) /\ Pattern(Part3, S, 12)
      /\ Pattern(Dash, S, 1)
  BY <1>1, GoodTimes, GoodOne DEF Part1, Part2, Part3, Dash
<1>3. Pattern(Part1 \o Dash \o Part2 \o Dash \o Part2 \o Dash \o Part2 \o Dash \o Part3,
              S, 8 + 1 + 4 + 1 + 4 + 1 + 4 + 1 + 12)
  BY <1>2, GoodConcat
<1>4. 8 + 1 + 4 + 1 + 4 + 1 + 4 + 1 + 12 = 36
  OBVIOUS
<1> QED
  BY <1>3, <1>4 DEF UuidRules, S

LEMMA UuidTable == GoodTable(UuidRules)
<1> DEFINE S == {Hex, {"dash"}}
           r == UuidRules[1]
<1>1. NoNul(S)
  BY DEF Hex, NoNul
<1>2. r.answer = 36
  BY DEF UuidRules
<1>3. GoodRule(r)
  <2>1. Pattern(r.pattern, S, 36)
    BY UuidPattern
  <2>2. 36 \in 1..36 /\ r.answer \in 0..256
    BY <1>2
  <2> HIDE DEF S, r
  <2> QED
    BY <1>1, <2>1, <2>2, GoodPattern
<1>4. Len(UuidRules) = 1 /\ DOMAIN UuidRules = 1..1
  BY DEF UuidRules
<1> QED
  BY <1>3, <1>4 DEF GoodTable

LEMMA IntTable == GoodTable(IntRules)
<1>1. GoodRule(IntRules[1])
  <2>1. IntRules[1].pattern = <<{"zero"}, Digit>> /\ IntRules[1].answer = 0
    BY DEF IntRules
  <2>2. "NUL" \notin {"zero"} /\ "NUL" \notin Digit
    BY DEF Digit
  <2> QED
    BY <2>1, <2>2 DEF GoodRule
<1>2. GoodRule(IntRules[2])
  <2>1. IntRules[2].pattern = <<Digit>> /\ IntRules[2].answer = 1
    BY DEF IntRules
  <2>2. "NUL" \notin Digit
    BY DEF Digit
  <2> QED
    BY <2>1, <2>2 DEF GoodRule
<1>3. GoodRule(IntRules[3])
  <2>1. IntRules[3].pattern = <<AnyOf>> /\ IntRules[3].answer = 0
    BY DEF IntRules
  <2>2. "NUL" \notin AnyOf
    BY DEF Digit, AnyOf
  <2> QED
    BY <2>1, <2>2 DEF GoodRule
<1>4. Len(IntRules) = 3 /\ DOMAIN IntRules = 1..3
  BY DEF IntRules
<1> QED
  BY <1>1, <1>2, <1>3, <1>4 DEF GoodTable

LEMMA DatePatterns ==
    ASSUME NEW S,
           \A c \in {"digit", "dash", "colon", "dot", "T", "Z", "space"} : {c} \in S
    PROVE  Pattern(DateRules[1].pattern, S, 24) /\ Pattern(DateRules[2].pattern, S, 23)
<1>1. /\ Pattern(Two, S, 2) /\ Pattern(Times(4, {"digit"}), S, 4)
      /\ Pattern(Times(3, {"digit"}), S, 3) /\ Pattern(Dash, S, 1)
      /\ Pattern(<<{"colon"}>>, S, 1) /\ Pattern(<<{"dot"}>>, S, 1)
      /\ Pattern(<<{"T"}>>, S, 1) /\ Pattern(<<{"Z"}>>, S, 1)
      /\ Pattern(<<{"space"}>>, S, 1)
  <2>1. /\ {"digit"} \in S /\ {"dash"} \in S /\ {"colon"} \in S /\ {"dot"} \in S
        /\ {"T"} \in S /\ {"Z"} \in S /\ {"space"} \in S
    OBVIOUS
  <2> QED
    BY <2>1, GoodTimes, GoodOne DEF Two, Dash
<1>2. Pattern(Date, S, 4 + 1 + 2 + 1 + 2)
  BY <1>1, GoodConcat DEF Date
<1>3. Pattern(Time, S, 2 + 1 + 2 + 1 + 2)
  BY <1>1, GoodConcat DEF Time
<1>4. Pattern(DateEnd, S, 1 + 3)
  BY <1>1, GoodConcat DEF DateEnd
<1>5. 4 + 1 + 2 + 1 + 2 = 10 /\ 2 + 1 + 2 + 1 + 2 = 8 /\ 1 + 3 = 4
  OBVIOUS
<1>6. Pattern(Date, S, 10) /\ Pattern(Time, S, 8) /\ Pattern(DateEnd, S, 4)
  BY <1>2, <1>3, <1>4, <1>5
<1>7. /\ Pattern(Date \o <<{"T"}>> \o Time \o DateEnd \o <<{"Z"}>>, S, 10 + 1 + 8 + 4 + 1)
      /\ Pattern(Date \o <<{"space"}>> \o Time \o DateEnd, S, 10 + 1 + 8 + 4)
  BY <1>1, <1>6, GoodConcat
<1>8. 10 + 1 + 8 + 4 + 1 = 24 /\ 10 + 1 + 8 + 4 = 23
  OBVIOUS
<1> QED
  BY <1>7, <1>8 DEF DateRules

LEMMA DateTable == GoodTable(DateRules)
<1> DEFINE S == {{"digit"}, {"dash"}, {"colon"}, {"dot"}, {"T"}, {"Z"}, {"space"}}
<1>1. Pattern(DateRules[1].pattern, S, 24) /\ Pattern(DateRules[2].pattern, S, 23)
  <2>1. \A c \in {"digit", "dash", "colon", "dot", "T", "Z", "space"} : {c} \in S
    OBVIOUS
  <2> HIDE DEF S
  <2> QED
    BY <2>1, DatePatterns
<1>2. NoNul(S)
  BY DEF NoNul
<1>3. DateRules[1].answer = 1 /\ DateRules[2].answer = 1
  BY DEF DateRules
<1>4. GoodRule(DateRules[1]) /\ GoodRule(DateRules[2])
  <2> DEFINE r1 == DateRules[1]
             r2 == DateRules[2]
  <2>1. /\ Pattern(r1.pattern, S, 24) /\ r1.answer \in 0..256
        /\ Pattern(r2.pattern, S, 23) /\ r2.answer \in 0..256
    BY <1>1, <1>3
  <2>2. 24 \in 1..36 /\ 23 \in 1..36
    OBVIOUS
  <2> HIDE DEF S, r1, r2
  <2>3. GoodRule(r1)
    BY <1>2, <2>1, <2>2, GoodPattern
  <2>4. GoodRule(r2)
    BY <1>2, <2>1, <2>2, GoodPattern
  <2> QED
    BY <2>3, <2>4 DEF r1, r2
<1>5. Len(DateRules) = 2 /\ DOMAIN DateRules = 1..2
  BY DEF DateRules
<1> QED
  BY <1>4, <1>5 DEF GoodTable

LEMMA Tables == \A l \in DOMAIN Rules : GoodTable(Rules[l])
BY MethodTable, GetSubitemTable, PutSubitemTable, ItemTable, TransactionTable,
   IdTable, StatusTable, TypeTable, UuidTable, IntTable, DateTable DEF Rules

-----------------------------------------------------------------------------
(* The least and the greatest element of a set of natural numbers.         *)

LEMMA LeastOf ==
    ASSUME NEW R, IsWellFoundedOn(R, Nat),
           \A x, y \in Nat : y < x => <<y, x>> \in R,
           NEW S \in SUBSET Nat, S # {}
    PROVE  \E x \in S : \A y \in S : x <= y
<1>1. PICK x \in S : \A y \in S : <<y, x>> \notin R
  BY WFMin
<1>2. \A y \in S : ~(y < x)
  BY <1>1
<1> QED
  BY <1>2

LEMMA MinOfSet ==
    ASSUME NEW S \in SUBSET Nat, S # {}
    PROVE  Min(S) \in S /\ \A y \in S : Min(S) <= y
<1> DEFINE R == OpToRel(<, Nat)
<1>1. IsWellFoundedOn(R, Nat)
  BY NatLessThanWellFounded
<1>2. \A x, y \in Nat : y < x => <<y, x>> \in R
  BY DEF OpToRel
<1> HIDE DEF R
<1>3. \E x \in S : \A y \in S : x <= y
  BY <1>1, <1>2, LeastOf
<1> QED
  BY <1>3 DEF Min

LEMMA MaxIs ==
    ASSUME NEW S \in SUBSET Nat, NEW n \in S, \A y \in S : y <= n
    PROVE  Max(S) = n
<1>1. Max(S) \in S /\ \A y \in S : Max(S) >= y
  BY DEF Max
<1>2. Max(S) \in Nat /\ n \in Nat /\ Max(S) >= n /\ Max(S) <= n
  BY <1>1
<1> QED
  BY <1>2

LEMMA MinIs ==
    ASSUME NEW S \in SUBSET Nat, NEW n \in S, \A y \in S : n <= y
    PROVE  Min(S) = n
<1>1. Min(S) \in S /\ \A y \in S : Min(S) <= y
  BY DEF Min
<1>2. Min(S) \in Nat /\ n \in Nat /\ Min(S) >= n /\ Min(S) <= n
  BY <1>1
<1> QED
  BY <1>2

LEMMA MinOfTwo ==
    ASSUME NEW m \in Nat, NEW n \in Nat
    PROVE  Min({m, n}) = IF m <= n THEN m ELSE n
<1>1. CASE m <= n
  <2>1. {m, n} \in SUBSET Nat /\ m \in {m, n} /\ \A y \in {m, n} : m <= y
    BY <1>1
  <2> QED
    BY <1>1, <2>1, MinIs
<1>2. CASE ~(m <= n)
  <2>1. {m, n} \in SUBSET Nat /\ n \in {m, n} /\ \A y \in {m, n} : n <= y
    BY <1>2
  <2> QED
    BY <1>2, <2>1, MinIs
<1> QED
  BY <1>1, <1>2

-----------------------------------------------------------------------------
(* What the automaton knows after m symbols: which rules these m symbols   *)
(* are the beginning of a text of, and how much of the pattern they are.   *)

Sym(n) == call.memory[call.from + n]

Size(k) == Len(rules[k].pattern)

Until(m, k) == IF m <= Size(k) THEN m ELSE Size(k)

Partial(k, m) ==
    /\ m > Size(k) => rules[k].repeat
    /\ \A j \in 1..m : Sym(j) \in rules[k].pattern[Until(j, k)]

MatchedAt(m) == {k \in DOMAIN rules : Size(k) <= m /\ Partial(k, m)}

LiveIs(S, m) ==
    /\ \A q \in S : /\ q[1] \in DOMAIN rules
                    /\ q = <<q[1], Until(m, q[1])>>
                    /\ Partial(q[1], m)
    /\ \A k \in DOMAIN rules : Partial(k, m) => <<k, Until(m, k)>> \in S

(* The answer so far, after n of m symbols.                                *)
BestIs(n, m) ==
    /\ n \in 0..m
    /\ marker = call.from + n
    /\ n = 0 => accepted = 0
    /\ n > 0 => MatchedAt(n) # {} /\ accepted = Min(MatchedAt(n))
    /\ \A j \in (n + 1)..m : MatchedAt(j) = {}

TypedLive ==
    \A q \in live : /\ q = <<q[1], q[2]>>
                    /\ q[1] \in DOMAIN rules
                    /\ q[2] \in 0..Size(q[1])

Scanning(m) ==
    /\ m \in Nat
    /\ cursor = call.from + m
    /\ m > 0 => cursor <= call.limit
    /\ LiveIs(live, m)
    /\ \E n \in 0..m : BestIs(n, m)

Answered(n) ==
    /\ n \in 0..Len(Text)
    /\ cursor = call.from + n
    /\ BestIs(n, Len(Text))
    /\ id = IF n = 0 THEN 0 ELSE rules[accepted].answer

IInv ==
    /\ lexer \in DOMAIN Rules
    /\ call \in Calls[lexer]
    /\ TypedLive
    /\ IF id = -1 THEN \E m \in Nat : Scanning(m)
                  ELSE \E n \in Nat : Answered(n)

LEMMA CallFacts ==
    ASSUME lexer \in DOMAIN Rules, call \in Calls[lexer]
    PROVE  /\ call \in Call
           /\ call.from \in Nat /\ call.limit \in Nat
           /\ call.memory \in Seq(STRING)
           /\ Len(call.memory) \in Nat
           /\ call.limit <= Len(call.memory)
BY CallsAssumption DEF Call

LEMMA RuleFacts ==
    ASSUME lexer \in DOMAIN Rules
    PROVE  /\ Len(rules) \in Nat
           /\ DOMAIN rules = 1..Len(rules)
           /\ \A k \in DOMAIN rules : /\ Size(k) \in 1..36 /\ Size(k) \in Nat
                                      /\ rules[k].answer \in 0..256
                                      /\ \A j \in 1..Size(k) :
                                            "NUL" \notin rules[k].pattern[j]
<1>1. \A x \in 1..36 : x \in Nat
  OBVIOUS
<1>2. GoodTable(rules)
  BY Tables DEF rules
<1>3. \A k \in DOMAIN rules : GoodRule(rules[k])
  BY <1>2 DEF GoodTable
<1> QED
  BY <1>1, <1>2, <1>3 DEF GoodTable, GoodRule, Size

LEMMA TextFacts ==
    ASSUME lexer \in DOMAIN Rules, call \in Calls[lexer]
    PROVE  /\ Len(Text) = IF call.from < call.limit THEN call.limit - call.from ELSE 0
           /\ Len(Text) \in Nat
           /\ Text \in Seq(STRING)
           /\ \A j \in 1..Len(Text) : Text[j] = Sym(j)
<1> DEFINE a == call.from
           b == call.limit
           s == call.memory
<1>1. a \in Nat /\ b \in Nat /\ s \in Seq(STRING) /\ b <= Len(s) /\ Len(s) \in Nat
  BY CallFacts
<1>2. Text = SubSeq(s, a + 1, b) /\ \A n : Sym(n) = s[a + n]
  BY DEF Text, Sym
<1> HIDE DEF a, b, s
<1>3. a + 1 \in Int /\ b \in Int /\ \A i \in (a + 1)..b : s[i] \in STRING
  BY <1>1
<1>4. /\ Text \in Seq(STRING)
      /\ Len(Text) = IF a + 1 <= b THEN b - (a + 1) + 1 ELSE 0
      /\ \A i \in 1..b - (a + 1) + 1 : Text[i] = s[(a + 1) + i - 1]
  BY <1>2, <1>3, SubSeqProperties
<1>5. Len(Text) = IF a < b THEN b - a ELSE 0
  BY <1>1, <1>4
<1>6. \A j \in 1..Len(Text) : Text[j] = s[a + j]
  <2> TAKE j \in 1..Len(Text)
  <2>1. Text[j] = s[(a + 1) + j - 1]
    BY <1>1, <1>4, <1>5
  <2>2. (a + 1) + j - 1 = a + j
    BY <1>1, <1>4
  <2> QED
    BY <2>1, <2>2
<1>7. \A j \in 1..Len(Text) : Text[j] = Sym(j)
  BY <1>2, <1>6
<1>8. Len(Text) \in Nat
  BY <1>1, <1>5
<1> QED
  BY <1>4, <1>5, <1>7, <1>8 DEF a, b

(* What the automaton calls a match is one.                                *)
LEMMA MatchedIs ==
    ASSUME lexer \in DOMAIN Rules, call \in Calls[lexer], NEW n \in 1..Len(Text)
    PROVE  MatchedBy(n) = MatchedAt(n)
<1> DEFINE t == SubSeq(Text, 1, n)
<1>0. n \in Nat /\ Len(Text) \in Nat
  BY TextFacts
<1>1. Len(t) = n /\ \A j \in 1..n : t[j] = Sym(j)
  <2>1. Text \in Seq(STRING) /\ Len(Text) \in Nat /\ \A j \in 1..Len(Text) : Text[j] = Sym(j)
    BY TextFacts
  <2>2. Len(t) = n /\ \A j \in 1..n : t[j] = Text[j]
    BY <2>1
  <2> QED
    BY <2>1, <2>2
<1> HIDE DEF t
<1>2. ASSUME NEW k \in DOMAIN rules
      PROVE  Matches(rules[k], t) <=> Size(k) <= n /\ Partial(k, n)
  <2>1. Size(k) \in 1..36 /\ Size(k) \in Nat
    BY RuleFacts
  <2>2. \A j \in 1..n : Min({j, Size(k)}) = Until(j, k)
    <3> TAKE j \in 1..n
    <3>1. j \in Nat
      BY <1>0
    <3>2. Size(k) \in Nat
      BY <2>1
    <3> QED
      BY <3>1, <3>2, MinOfTwo DEF Until
  <2>3. Matches(rules[k], t) <=>
          /\ n >= Size(k)
          /\ n > Size(k) => rules[k].repeat
          /\ \A j \in 1..n : Sym(j) \in rules[k].pattern[Until(j, k)]
    BY <1>1, <2>2 DEF Matches, Size
  <2> QED
    BY <2>1, <2>3 DEF Partial
<1> QED
  BY <1>2 DEF MatchedBy, MatchedAt, t

-----------------------------------------------------------------------------
(* One symbol.                                                             *)

LEMMA PeekIs ==
    ASSUME lexer \in DOMAIN Rules, call \in Calls[lexer], NEW m \in Nat,
           cursor = call.from + m
    PROVE  IF cursor < call.limit THEN Peek = Sym(m + 1) ELSE Peek = "NUL"
<1>1. call.from \in Nat /\ call.limit \in Nat /\ call.limit <= Len(call.memory)
      /\ Len(call.memory) \in Nat
  BY CallFacts
<1>2. call.from + m + 1 = call.from + (m + 1)
  BY <1>1
<1>3. CASE cursor < call.limit
  <2>1. ~(cursor >= call.limit) /\ cursor < Len(call.memory)
    BY <1>1, <1>3
  <2> QED
    BY <1>2, <1>3, <2>1 DEF Peek, Memory, Sym
<1>4. CASE ~(cursor < call.limit)
  <2>1. cursor >= call.limit
    BY <1>1, <1>4
  <2> QED
    BY <1>4, <2>1 DEF Peek
<1> QED
  BY <1>3, <1>4

(* No rule goes on at the end of the text.                                 *)
LEMMA NulStops ==
    ASSUME lexer \in DOMAIN Rules, TypedLive
    PROVE  After("NUL") = {}
<1>1. \A q \in live : /\ Size(q[1]) \in 1..36
                     /\ q[2] \in 0..Size(q[1])
                     /\ \A j \in 1..Size(q[1]) : "NUL" \notin rules[q[1]].pattern[j]
  BY RuleFacts DEF TypedLive
<1>2. GoOn("NUL") = {}
  BY <1>1 DEF GoOn, Size
<1>3. StayOn("NUL") = {}
  <2> SUFFICES ASSUME NEW q \in StayOn("NUL") PROVE FALSE
    OBVIOUS
  <2>1. q \in live /\ q[2] = Size(q[1]) /\ "NUL" \in rules[q[1]].pattern[q[2]]
    BY DEF StayOn, Size
  <2>2. Size(q[1]) \in 1..Size(q[1])
    BY <1>1, <2>1
  <2> QED
    BY <1>1, <2>1, <2>2
<1> QED
  BY <1>2, <1>3 DEF After

LEMMA TypedAfter ==
    ASSUME lexer \in DOMAIN Rules, TypedLive, NEW c, NEW q \in After(c)
    PROVE  q = <<q[1], q[2]>> /\ q[1] \in DOMAIN rules /\ q[2] \in 0..Size(q[1])
<1>1. CASE q \in GoOn(c)
  <2>1. PICK p \in live : q = <<p[1], p[2] + 1>> /\ p[2] < Size(p[1])
    BY <1>1 DEF GoOn, Size
  <2>2. p[1] \in DOMAIN rules /\ p[2] \in 0..Size(p[1]) /\ Size(p[1]) \in 1..36
    BY RuleFacts DEF TypedLive
  <2> QED
    BY <2>1, <2>2
<1>2. CASE q \in StayOn(c)
  BY <1>2 DEF StayOn, TypedLive
<1> QED
  BY <1>1, <1>2 DEF After

LEMMA AfterIs ==
    ASSUME lexer \in DOMAIN Rules, NEW m \in Nat, LiveIs(live, m)
    PROVE  LiveIs(After(Sym(m + 1)), m + 1)
<1> DEFINE c == Sym(m + 1)
<1>0. \A k \in DOMAIN rules : Size(k) \in 1..36
  BY RuleFacts
<1>1. ASSUME NEW q \in After(c)
      PROVE  /\ q[1] \in DOMAIN rules
             /\ q = <<q[1], Until(m + 1, q[1])>>
             /\ Partial(q[1], m + 1)
  <2>1. CASE q \in GoOn(c)
    <3>1. PICK p \in live : /\ q = <<p[1], p[2] + 1>>
                            /\ p[2] < Size(p[1])
                            /\ c \in rules[p[1]].pattern[p[2] + 1]
      BY <2>1 DEF GoOn, Size
    <3>2. /\ p[1] \in DOMAIN rules /\ p = <<p[1], Until(m, p[1])>>
          /\ Partial(p[1], m) /\ Size(p[1]) \in 1..36
      BY <1>0 DEF LiveIs
    <3>3. p[2] = m /\ m < Size(p[1]) /\ Until(m + 1, p[1]) = m + 1
      BY <3>1, <3>2 DEF Until
    <3>4. Partial(p[1], m + 1)
      BY <3>1, <3>2, <3>3 DEF Partial
    <3> QED
      BY <3>1, <3>2, <3>3, <3>4
  <2>2. CASE q \in StayOn(c)
    <3>1. /\ q \in live /\ q[2] = Size(q[1]) /\ rules[q[1]].repeat
          /\ c \in rules[q[1]].pattern[q[2]]
      BY <2>2 DEF StayOn, Size
    <3>2. /\ q[1] \in DOMAIN rules /\ q = <<q[1], Until(m, q[1])>>
          /\ Partial(q[1], m) /\ Size(q[1]) \in 1..36
      BY <1>0, <3>1 DEF LiveIs
    <3>3. m >= Size(q[1]) /\ Until(m + 1, q[1]) = Size(q[1])
      BY <3>1, <3>2 DEF Until
    <3>4. Partial(q[1], m + 1)
      BY <3>1, <3>2, <3>3 DEF Partial
    <3> QED
      BY <3>1, <3>2, <3>3, <3>4
  <2> QED
    BY <2>1, <2>2 DEF After
<1>2. ASSUME NEW k \in DOMAIN rules, Partial(k, m + 1)
      PROVE  <<k, Until(m + 1, k)>> \in After(c)
  <2>0. Size(k) \in 1..36
    BY <1>0
  <2>1. Partial(k, m)
    BY <1>2, <2>0 DEF Partial
  <2> DEFINE p == <<k, Until(m, k)>>
  <2>2. p \in live /\ p[1] = k /\ p[2] = Until(m, k)
    BY <2>1 DEF LiveIs
  <2>3. c \in rules[k].pattern[Until(m + 1, k)]
    BY <1>2 DEF Partial
  <2>4. CASE m < Size(k)
    <3>1. Until(m, k) = m /\ Until(m + 1, k) = m + 1
      BY <2>0, <2>4 DEF Until
    <3>2. <<k, m + 1>> \in GoOn(c)
      <4> HIDE DEF p, c
      <4>1. p \in live /\ p[1] = k /\ p[2] = m /\ m < Len(rules[p[1]].pattern)
            /\ c \in rules[p[1]].pattern[p[2] + 1]
        BY <2>2, <2>3, <2>4, <3>1 DEF Size
      <4> QED
        BY <4>1 DEF GoOn
    <3> QED
      BY <3>1, <3>2 DEF After
  <2>5. CASE ~(m < Size(k))
    <3>1. Until(m, k) = Size(k) /\ Until(m + 1, k) = Size(k) /\ rules[k].repeat
      BY <1>2, <2>0, <2>5 DEF Until, Partial
    <3>2. p \in StayOn(c)
      <4> HIDE DEF p, c
      <4> QED
        BY <2>2, <2>3, <3>1 DEF StayOn, Size
    <3> QED
      BY <3>1, <3>2 DEF After
  <2> QED
    BY <2>4, <2>5
<1> QED
  BY <1>1, <1>2 DEF LiveIs

LEMMA CompleteIs ==
    ASSUME lexer \in DOMAIN Rules, NEW m \in Nat, NEW S, LiveIs(S, m)
    PROVE  Complete(S) = MatchedAt(m)
<1>0. \A k \in DOMAIN rules : Size(k) \in 1..36
  BY RuleFacts
<1>1. ASSUME NEW q \in S, q[2] >= Size(q[1])
      PROVE  q[1] \in MatchedAt(m)
  <2>1. q[1] \in DOMAIN rules /\ q = <<q[1], Until(m, q[1])>> /\ Partial(q[1], m)
    BY DEF LiveIs
  <2>2. Size(q[1]) <= m
    BY <1>0, <1>1, <2>1 DEF Until
  <2> QED
    BY <2>1, <2>2 DEF MatchedAt
<1>2. ASSUME NEW k \in MatchedAt(m)
      PROVE  <<k, Until(m, k)>> \in S /\ Until(m, k) >= Size(k)
  <2>1. k \in DOMAIN rules /\ Size(k) <= m /\ Partial(k, m)
    BY DEF MatchedAt
  <2> QED
    BY <1>0, <2>1 DEF LiveIs, Until
<1>3. Complete(S) \subseteq MatchedAt(m)
  BY <1>1 DEF Complete, Size
<1>4. MatchedAt(m) \subseteq Complete(S)
  <2> SUFFICES ASSUME NEW k \in MatchedAt(m) PROVE k \in Complete(S)
    OBVIOUS
  <2> DEFINE q == <<k, Until(m, k)>>
  <2>1. q \in S /\ q[1] = k /\ q[2] >= Size(k)
    BY <1>2
  <2> HIDE DEF q
  <2> QED
    BY <2>1 DEF Complete, Size
<1> QED
  BY <1>3, <1>4

(* When no rule goes on, no longer beginning of the text is matched.       *)
LEMMA NoFurther ==
    ASSUME lexer \in DOMAIN Rules, call \in Calls[lexer], NEW m \in Nat,
           cursor = call.from + m, LiveIs(live, m), After(Peek) = {}
    PROVE  \A j \in (m + 1)..Len(Text) : MatchedAt(j) = {}
<1> SUFFICES ASSUME NEW j \in (m + 1)..Len(Text), NEW k \in MatchedAt(j)
             PROVE  FALSE
  OBVIOUS
<1>1. /\ Len(Text) = IF call.from < call.limit THEN call.limit - call.from ELSE 0
      /\ call.from \in Nat /\ call.limit \in Nat
  BY TextFacts, CallFacts
<1>2. Peek = Sym(m + 1) /\ j \in Nat /\ j >= m + 1
  <2>1. cursor < call.limit /\ j \in Nat /\ j >= m + 1
    BY <1>1
  <2> QED
    BY <2>1, PeekIs
<1>3. LiveIs({}, m + 1)
  BY <1>2, AfterIs
<1>4. k \in DOMAIN rules /\ Partial(k, j) /\ Size(k) \in Nat
  BY RuleFacts DEF MatchedAt
<1>5. Partial(k, m + 1)
  <2>1. m + 1 > Size(k) => rules[k].repeat
    <3>1. m + 1 > Size(k) => j > Size(k)
      BY <1>2, <1>4
    <3>2. j > Size(k) => rules[k].repeat
      BY <1>4 DEF Partial
    <3> QED
      BY <3>1, <3>2
  <2>2. \A i \in 1..(m + 1) : i \in 1..j
    BY <1>2
  <2> QED
    BY <1>4, <2>1, <2>2 DEF Partial
<1> QED
  BY <1>3, <1>4, <1>5 DEF LiveIs

-----------------------------------------------------------------------------
(* The steps.                                                              *)

LEMMA InitInv == Init => IInv
<1> SUFFICES ASSUME Init PROVE IInv
  OBVIOUS
<1>1. /\ lexer \in DOMAIN Rules /\ call \in Calls[lexer] /\ id = -1
      /\ cursor = call.from /\ marker = call.from /\ accepted = 0
      /\ live = {<<k, 0>> : k \in DOMAIN rules}
  BY DEF Init
<1>2. call.from \in Nat /\ \A k \in DOMAIN rules : Size(k) \in Nat
  BY <1>1, CallFacts, RuleFacts
<1>3. TypedLive
  BY <1>1, <1>2 DEF TypedLive
<1>4. LiveIs(live, 0)
  BY <1>1, <1>2 DEF LiveIs, Until, Partial
<1>5. BestIs(0, 0)
  BY <1>1, <1>2 DEF BestIs
<1>6. Scanning(0)
  BY <1>1, <1>2, <1>4, <1>5 DEF Scanning
<1> QED
  BY <1>1, <1>3, <1>6 DEF IInv

(* What does not change with the lexer and its call.                       *)
LEMMA SameCall ==
    ASSUME lexer' = lexer, call' = call
    PROVE  /\ rules' = rules /\ Text' = Text
           /\ \A m : MatchedAt(m)' = MatchedAt(m)
           /\ \A S, m : LiveIs(S, m)' = LiveIs(S, m)
           /\ \A k : Size(k)' = Size(k)
BY DEF rules, Text, MatchedAt, LiveIs, Partial, Until, Size, Sym

LEMMA SkipInv ==
    ASSUME IInv, Skip
    PROVE  IInv'
<1>1. /\ lexer \in DOMAIN Rules /\ call \in Calls[lexer] /\ TypedLive /\ id = -1
      /\ After(Peek) # {} /\ cursor' = cursor + 1 /\ live' = After(Peek)
      /\ lexer' = lexer /\ call' = call /\ id' = id
  BY DEF IInv, Skip
<1>2. PICK m \in Nat : Scanning(m)
  BY <1>1 DEF IInv
<1>3. /\ cursor = call.from + m /\ LiveIs(live, m)
      /\ call.from \in Nat /\ call.limit \in Nat
  BY <1>1, <1>2, CallFacts DEF Scanning
<1>4. PICK n \in 0..m : BestIs(n, m)
  BY <1>2 DEF Scanning
<1>5. Peek # "NUL"
  BY <1>1, NulStops
<1>6. cursor < call.limit /\ Peek = Sym(m + 1)
  BY <1>1, <1>3, <1>5, PeekIs
<1>7. LiveIs(live', m + 1)
  BY <1>1, <1>3, <1>6, AfterIs
<1>8. Complete(live') = MatchedAt(m + 1)
  BY <1>1, <1>7, CompleteIs
<1>9. TypedLive'
  <2>1. \A q \in live' : q = <<q[1], q[2]>> /\ q[1] \in DOMAIN rules /\ q[2] \in 0..Size(q[1])
    BY <1>1, TypedAfter
  <2> QED
    BY <1>1, <2>1, SameCall DEF TypedLive
<1>10. \E j \in 0..(m + 1) : BestIs(j, m + 1)'
  <2>1. CASE MatchedAt(m + 1) = {}
    <3>1. marker' = marker /\ accepted' = accepted
      BY <1>8, <2>1 DEF Skip, Complete, rules
    <3>2. \A i \in (n + 1)..(m + 1) : MatchedAt(i) = {}
      <4>1. \A i \in (n + 1)..(m + 1) : i \in (n + 1)..m \/ i = m + 1
        OBVIOUS
      <4> QED
        BY <1>4, <2>1, <4>1 DEF BestIs
    <3>3. BestIs(n, m + 1)'
      <4>1. n \in 0..(m + 1)
        OBVIOUS
      <4> QED
        BY <1>1, <1>4, <3>1, <3>2, <4>1, SameCall DEF BestIs
    <3> QED
      BY <3>3
  <2>2. CASE MatchedAt(m + 1) # {}
    <3>1. marker' = cursor' /\ accepted' = Min(MatchedAt(m + 1))
      BY <1>8, <2>2 DEF Skip, Complete, rules
    <3>2. marker' = call.from + (m + 1)
      BY <1>1, <1>3, <3>1
    <3>3. BestIs(m + 1, m + 1)'
      BY <1>1, <2>2, <3>1, <3>2, SameCall DEF BestIs
    <3> QED
      BY <3>3
  <2> QED
    BY <2>1, <2>2
<1>11. Scanning(m + 1)'
  <2>1. cursor' = call.from + (m + 1) /\ cursor' <= call.limit
    BY <1>1, <1>3, <1>6
  <2> QED
    BY <1>1, <1>7, <1>10, <2>1, SameCall DEF Scanning
<1> QED
  BY <1>1, <1>9, <1>11 DEF IInv

LEMMA AnswerInv ==
    ASSUME IInv, Answer
    PROVE  IInv'
<1>1. /\ lexer \in DOMAIN Rules /\ call \in Calls[lexer] /\ TypedLive /\ id = -1
      /\ After(Peek) = {} /\ cursor' = marker
      /\ id' = IF accepted = 0 THEN 0 ELSE rules[accepted].answer
      /\ UNCHANGED <<lexer, call, live, marker, accepted>>
  BY DEF IInv, Answer
<1>2. PICK m \in Nat : Scanning(m)
  BY <1>1 DEF IInv
<1>3. /\ cursor = call.from + m /\ LiveIs(live, m)
      /\ call.from \in Nat /\ call.limit \in Nat
      /\ Len(Text) = IF call.from < call.limit THEN call.limit - call.from ELSE 0
      /\ m > 0 => cursor <= call.limit
  BY <1>1, <1>2, CallFacts, TextFacts DEF Scanning
<1>4. PICK n \in 0..m : BestIs(n, m)
  BY <1>2 DEF Scanning
<1>5. m <= Len(Text) /\ Len(Text) \in Nat
  BY <1>3
<1>6. \A j \in (m + 1)..Len(Text) : MatchedAt(j) = {}
  BY <1>1, <1>3, NoFurther
<1>7. BestIs(n, Len(Text))
  <2>1. n \in 0..Len(Text)
    BY <1>5
  <2>2. \A j \in (n + 1)..Len(Text) : j \in (n + 1)..m \/ j \in (m + 1)..Len(Text)
    BY <1>5
  <2> QED
    BY <1>4, <1>6, <2>1, <2>2 DEF BestIs
<1>8. n > 0 => accepted \in DOMAIN rules /\ accepted # 0
  <2> SUFFICES ASSUME n > 0 PROVE accepted \in DOMAIN rules /\ accepted # 0
    OBVIOUS
  <2>1. MatchedAt(n) # {} /\ accepted = Min(MatchedAt(n))
    BY <1>4 DEF BestIs
  <2>2. DOMAIN rules = 1..Len(rules) /\ Len(rules) \in Nat
    BY <1>1, RuleFacts
  <2>3. MatchedAt(n) \in SUBSET Nat /\ MatchedAt(n) \subseteq DOMAIN rules
    BY <2>2 DEF MatchedAt
  <2>4. accepted \in DOMAIN rules
    BY <2>1, <2>3, MinOfSet
  <2> QED
    BY <2>2, <2>4
<1>9. id' = IF n = 0 THEN 0 ELSE rules[accepted].answer
  BY <1>1, <1>4, <1>8 DEF BestIs
<1>10. id' # -1
  <2>1. CASE n = 0
    BY <1>9, <2>1
  <2>2. CASE n > 0
    <3>1. id' = rules[accepted].answer
      BY <1>9, <2>2
    <3>2. rules[accepted].answer \in 0..256
      BY <1>1, <1>8, <2>2, RuleFacts
    <3> QED
      BY <3>1, <3>2
  <2> QED
    BY <1>4, <2>1, <2>2
<1>11. BestIs(n, Len(Text))'
  BY <1>1, <1>7, SameCall DEF BestIs
<1>12. Answered(n)'
  <2>1. n \in 0..Len(Text) /\ cursor' = call.from + n
    BY <1>1, <1>7 DEF BestIs
  <2> QED
    BY <1>1, <1>9, <1>11, <2>1, SameCall DEF Answered
<1>13. TypedLive'
  BY <1>1, SameCall DEF TypedLive
<1> QED
  BY <1>1, <1>10, <1>12, <1>13 DEF IInv

LEMMA StutterInv ==
    ASSUME IInv, UNCHANGED vars
    PROVE  IInv'
<1>1. /\ lexer \in DOMAIN Rules /\ call \in Calls[lexer] /\ TypedLive
      /\ UNCHANGED <<lexer, call, cursor, live, marker, accepted, id>>
  BY DEF IInv, vars
<1>2. \A n, m : BestIs(n, m)' = BestIs(n, m)
  BY <1>1, SameCall DEF BestIs
<1>3. TypedLive'
  BY <1>1, SameCall DEF TypedLive
<1>4. CASE id = -1
  <2>1. PICK m \in Nat : Scanning(m)
    BY <1>4 DEF IInv
  <2>2. Scanning(m)'
    BY <1>1, <1>2, <2>1, SameCall DEF Scanning
  <2> QED
    BY <1>1, <1>3, <1>4, <2>2 DEF IInv
<1>5. CASE id # -1
  <2>1. PICK n \in Nat : Answered(n)
    BY <1>5 DEF IInv
  <2>2. Answered(n)'
    BY <1>1, <1>2, <2>1, SameCall DEF Answered
  <2> QED
    BY <1>1, <1>3, <1>5, <2>2 DEF IInv
<1> QED
  BY <1>4, <1>5

LEMMA Invariant == Spec => []IInv
<1>1. IInv /\ [Next]_vars => IInv'
  BY SkipInv, AnswerInv, StutterInv DEF Next
<1> QED
  BY <1>1, InitInv, PTL DEF Spec

-----------------------------------------------------------------------------
(* What the invariant says of the variables and of the answer.             *)

LEMMA BestFacts ==
    ASSUME lexer \in DOMAIN Rules, NEW m \in Nat, NEW n, BestIs(n, m)
    PROVE  /\ n \in 0..m /\ n \in Nat
           /\ accepted \in 0..Len(rules)
           /\ n > 0 => accepted \in MatchedAt(n) /\ accepted \in DOMAIN rules
<1>1. n \in 0..m /\ n \in Nat
  BY DEF BestIs
<1>2. DOMAIN rules = 1..Len(rules) /\ Len(rules) \in Nat
  BY RuleFacts
<1>3. CASE n = 0
  BY <1>1, <1>2, <1>3 DEF BestIs
<1>4. CASE n > 0
  <2>1. MatchedAt(n) # {} /\ accepted = Min(MatchedAt(n))
    BY <1>4 DEF BestIs
  <2>2. MatchedAt(n) \in SUBSET Nat /\ MatchedAt(n) \subseteq DOMAIN rules
    BY <1>2 DEF MatchedAt
  <2>3. accepted \in MatchedAt(n)
    BY <2>1, <2>2, MinOfSet
  <2> QED
    BY <1>1, <1>2, <1>4, <2>2, <2>3
<1> QED
  BY <1>1, <1>3, <1>4

(* The variables keep their types, and no rule is matched beyond its end,  *)
(* whatever text the generated functions are called with.                  *)
THEOREM TypeCorrect == Spec => []TypeOK
<1>1. IInv => TypeOK
  <2> SUFFICES ASSUME IInv PROVE TypeOK
    OBVIOUS
  <2>1. lexer \in DOMAIN Rules /\ call \in Calls[lexer] /\ TypedLive
    BY DEF IInv
  <2>2. call \in Call /\ call.from \in Nat
    BY <2>1, CallFacts
  <2>3. \A k \in DOMAIN rules : Size(k) \in 1..36
    BY <2>1, RuleFacts
  <2>4. \A q \in live : q \in {<<k, n>> : k \in DOMAIN rules, n \in 0..36}
    <3> TAKE q \in live
    <3>1. q = <<q[1], q[2]>> /\ q[1] \in DOMAIN rules /\ q[2] \in 0..Size(q[1])
      BY <2>1 DEF TypedLive
    <3>2. q[2] \in 0..36
      BY <2>3, <3>1
    <3> QED
      BY <3>1, <3>2
  <2>5. \A q \in live : q[2] <= Len(rules[q[1]].pattern)
    BY <2>1, <2>3 DEF TypedLive, Size
  <2>6. /\ cursor \in Nat /\ marker \in call.from..cursor
        /\ accepted \in 0..Len(rules) /\ id \in -1..256
    <3>1. CASE id = -1
      <4>1. PICK m \in Nat : Scanning(m)
        BY <3>1 DEF IInv
      <4>2. PICK n \in 0..m : BestIs(n, m)
        BY <4>1 DEF Scanning
      <4>3. cursor = call.from + m /\ marker = call.from + n
        BY <4>1, <4>2 DEF Scanning, BestIs
      <4>4. accepted \in 0..Len(rules)
        BY <2>1, <4>2, BestFacts
      <4> QED
        BY <2>2, <3>1, <4>3, <4>4
    <3>2. CASE id # -1
      <4>1. PICK n \in Nat : Answered(n)
        BY <3>2 DEF IInv
      <4>2. cursor = call.from + n /\ marker = call.from + n
        BY <4>1 DEF Answered, BestIs
      <4>3. Len(Text) \in Nat /\ BestIs(n, Len(Text))
        BY <2>1, <4>1, TextFacts DEF Answered
      <4>4. accepted \in 0..Len(rules) /\ (n > 0 => accepted \in DOMAIN rules)
        BY <2>1, <4>3, BestFacts
      <4>5. id = IF n = 0 THEN 0 ELSE rules[accepted].answer
        BY <4>1 DEF Answered
      <4>6. id \in 0..256
        <5>1. CASE n = 0
          BY <4>5, <5>1
        <5>2. CASE n # 0
          <6>1. n > 0 /\ id = rules[accepted].answer
            BY <4>5, <5>2
          <6>2. rules[accepted].answer \in 0..256
            BY <2>1, <4>4, <6>1, RuleFacts
          <6> QED
            BY <6>1, <6>2
        <5> QED
          BY <5>1, <5>2
      <4> QED
        BY <2>2, <4>2, <4>4, <4>6
    <3> QED
      BY <3>1, <3>2
  <2> QED
    BY <2>1, <2>2, <2>4, <2>5, <2>6 DEF TypeOK
<1> QED
  BY <1>1, Invariant, PTL

(* Nothing is read at or after the end of the text, whatever the text is   *)
(* and wherever the lexer begins, behind the end included.                 *)
THEOREM StaysBelowLimit == Spec => []ReadsBelowLimit
<1>1. IInv => ReadsBelowLimit
  <2> SUFFICES ASSUME IInv PROVE ReadsBelowLimit
    OBVIOUS
  <2>1. lexer \in DOMAIN Rules /\ call \in Calls[lexer]
    BY DEF IInv
  <2>2. call.from \in Nat /\ call.limit \in Nat
    BY <2>1, CallFacts
  <2>3. cursor \in Nat /\ (cursor <= call.from \/ cursor <= call.limit)
    <3>1. CASE id = -1
      <4>1. PICK m \in Nat : Scanning(m)
        BY <3>1 DEF IInv
      <4> QED
        BY <2>2, <4>1 DEF Scanning
    <3>2. CASE id # -1
      <4>1. PICK n \in Nat : Answered(n)
        BY <3>2 DEF IInv
      <4>2. cursor = call.from + n /\ n \in 0..Len(Text)
        BY <4>1 DEF Answered
      <4> QED
        BY <2>1, <2>2, <4>2, TextFacts
    <3> QED
      BY <3>1, <3>2
  <2>4. \E x \in {call.from, call.limit} : \A y \in {call.from, call.limit} : x >= y
    BY <2>2
  <2>5. /\ Max({call.from, call.limit}) \in {call.from, call.limit}
        /\ \A y \in {call.from, call.limit} : Max({call.from, call.limit}) >= y
    BY <2>4 DEF Max
  <2> QED
    BY <2>2, <2>3, <2>5 DEF ReadsBelowLimit
<1> QED
  BY <1>1, Invariant, PTL

(* A lexer answers for the longest beginning of its text that a rule       *)
(* matches, for the first of these rules, and leaves the cursor at its     *)
(* end, although the automaton has gone further and come back.             *)
THEOREM AnswersLongestMatch == Spec => []LongestMatch
<1>1. IInv => LongestMatch
  <2> SUFFICES ASSUME IInv, id # -1 PROVE LongestMatch
    BY DEF LongestMatch
  <2>1. lexer \in DOMAIN Rules /\ call \in Calls[lexer]
    BY DEF IInv
  <2>2. PICK n \in Nat : Answered(n)
    BY DEF IInv
  <2>3. /\ Len(Text) \in Nat /\ call.from \in Nat
        /\ \A j \in 1..Len(Text) : MatchedBy(j) = MatchedAt(j)
    BY <2>1, TextFacts, CallFacts, MatchedIs
  <2>4. /\ n \in 0..Len(Text) /\ cursor = call.from + n
        /\ id = IF n = 0 THEN 0 ELSE rules[accepted].answer
        /\ n > 0 => MatchedAt(n) # {} /\ accepted = Min(MatchedAt(n))
        /\ \A j \in (n + 1)..Len(Text) : MatchedAt(j) = {}
    BY <2>2 DEF Answered, BestIs
  <2> DEFINE lengths == {j \in 1..Len(Text) : MatchedBy(j) # {}}
  <2>5. \A j \in lengths : j \in Nat /\ j <= n
    <3> TAKE j \in lengths
    <3>1. j \in 1..Len(Text) /\ MatchedAt(j) # {}
      BY <2>3
    <3> QED
      BY <2>3, <2>4, <3>1
  <2>6. CASE n = 0
    <3>1. lengths = {}
      BY <2>5, <2>6
    <3>2. id = 0 /\ cursor = call.from
      BY <2>3, <2>4, <2>6
    <3> QED
      BY <3>1, <3>2 DEF LongestMatch
  <2>7. CASE n > 0
    <3>1. n \in 1..Len(Text)
      BY <2>3, <2>4, <2>7
    <3>2. MatchedBy(n) = MatchedAt(n)
      BY <2>3, <3>1
    <3>3. n \in lengths
      BY <2>4, <2>7, <3>1, <3>2
    <3> HIDE DEF lengths
    <3>4. Max(lengths) = n /\ lengths # {}
      <4>1. lengths \in SUBSET Nat
        BY <2>5
      <4> QED
        BY <2>5, <3>3, <4>1, MaxIs
    <3>5. id = rules[Min(MatchedBy(n))].answer /\ cursor = call.from + n
      BY <2>4, <2>7, <3>2
    <3> QED
      BY <3>4, <3>5 DEF LongestMatch, lengths
  <2> QED
    BY <2>4, <2>6, <2>7
<1> QED
  BY <1>1, Invariant, PTL

(* check_uuid answers with the number of characters it has read, 36, so    *)
(* that the url parsers that move their cursor by the answer move it       *)
(* behind the identifier.                                                  *)
THEOREM UuidIsWhole == Spec => []UuidIsItsLength
<1>1. IInv => UuidIsItsLength
  <2> SUFFICES ASSUME IInv, lexer = "check_uuid", id > 0
               PROVE  cursor = call.from + id
    BY DEF UuidIsItsLength
  <2>1. lexer \in DOMAIN Rules /\ call \in Calls[lexer]
    BY DEF IInv
  <2>2. PICK n \in Nat : Answered(n)
    BY DEF IInv
  <2>3. /\ n \in 0..Len(Text) /\ cursor = call.from + n
        /\ id = IF n = 0 THEN 0 ELSE rules[accepted].answer
        /\ BestIs(n, Len(Text)) /\ Len(Text) \in Nat
    BY <2>1, <2>2, TextFacts DEF Answered
  <2>4. n > 0 /\ accepted \in MatchedAt(n) /\ id = rules[accepted].answer
    BY <2>1, <2>3, BestFacts
  <2>5. rules = UuidRules
    BY DEF rules, Rules
  <2>6. DOMAIN rules = {1}
    BY <2>5 DEF UuidRules
  <2>7. accepted = 1
    BY <2>4, <2>6 DEF MatchedAt
  <2>8. Size(1) = 36
    BY <2>5, UuidPattern DEF Size, Pattern
  <2>9. ~UuidRules[1].repeat /\ UuidRules[1].answer = 36
    BY DEF UuidRules
  <2>10. n >= 36 /\ ~(n > 36)
    BY <2>4, <2>5, <2>7, <2>8, <2>9 DEF MatchedAt, Partial
  <2> QED
    BY <2>3, <2>4, <2>5, <2>7, <2>9, <2>10
<1> QED
  BY <1>1, Invariant, PTL

-----------------------------------------------------------------------------
(* The numerals.                                                           *)

LEMMA IntMatches ==
    ASSUME lexer = "check_int", NEW n \in Nat, n > 0
    PROVE  /\ DOMAIN rules = 1..3
           /\ 1 \in MatchedAt(n) <=> /\ n > 1 /\ Sym(1) = "zero"
                                    /\ \A j \in 2..n : Sym(j) \in Digit
           /\ 2 \in MatchedAt(n) <=> \A j \in 1..n : Sym(j) \in Digit
           /\ 3 \in MatchedAt(n) <=> \A j \in 1..n : Sym(j) \in AnyOf
<1>1. rules = IntRules
  BY DEF rules, Rules
<1>2. DOMAIN rules = 1..3
  BY <1>1 DEF IntRules
<1>3. /\ rules[1].repeat /\ rules[2].repeat /\ rules[3].repeat
  BY <1>1 DEF IntRules
<1>4. /\ Size(1) = 2 /\ Size(2) = 1 /\ Size(3) = 1
  BY <1>1 DEF IntRules, Size
<1>5. /\ rules[1].pattern[1] = {"zero"} /\ rules[1].pattern[2] = Digit
      /\ rules[2].pattern[1] = Digit /\ rules[3].pattern[1] = AnyOf
  BY <1>1 DEF IntRules
<1>6. 2 \in MatchedAt(n) <=> \A j \in 1..n : Sym(j) \in Digit
  <2>1. \A j \in 1..n : Until(j, 2) = 1
    BY <1>4 DEF Until
  <2>2. Partial(2, n) <=> \A j \in 1..n : Sym(j) \in Digit
    BY <1>3, <1>5, <2>1 DEF Partial
  <2> QED
    BY <1>2, <1>4, <2>2 DEF MatchedAt
<1>7. 3 \in MatchedAt(n) <=> \A j \in 1..n : Sym(j) \in AnyOf
  <2>1. \A j \in 1..n : Until(j, 3) = 1
    BY <1>4 DEF Until
  <2>2. Partial(3, n) <=> \A j \in 1..n : Sym(j) \in AnyOf
    BY <1>3, <1>5, <2>1 DEF Partial
  <2> QED
    BY <1>2, <1>4, <2>2 DEF MatchedAt
<1>8. 1 \in MatchedAt(n) <=> /\ n > 1 /\ Sym(1) = "zero"
                           /\ \A j \in 2..n : Sym(j) \in Digit
  <2>1. Until(1, 1) = 1 /\ \A j \in 2..n : Until(j, 1) = 2
    BY <1>4 DEF Until
  <2>2. \A j \in 1..n : j = 1 \/ j \in 2..n
    OBVIOUS
  <2>3. 1 \in 1..n /\ \A j \in 2..n : j \in 1..n
    OBVIOUS
  <2>4. Partial(1, n) <=> Sym(1) = "zero" /\ \A j \in 2..n : Sym(j) \in Digit
    BY <1>3, <1>5, <2>1, <2>2, <2>3 DEF Partial
  <2> QED
    BY <1>2, <1>4, <2>4 DEF MatchedAt
<1> QED
  BY <1>2, <1>6, <1>7, <1>8

LEMMA WordEndIs ==
    ASSUME lexer \in DOMAIN Rules, call \in Calls[lexer]
    PROVE  /\ WordEnd \in 0..Len(Text)
           /\ \A j \in 1..WordEnd : Text[j] \in AnyOf
           /\ WordEnd < Len(Text) => Text[WordEnd + 1] \notin AnyOf
<1> DEFINE stops == {j \in 1..Len(Text) : Text[j] \notin AnyOf}
<1>1. Len(Text) \in Nat
  BY TextFacts
<1>2. WordEnd = IF stops = {} THEN Len(Text) ELSE Min(stops) - 1
  BY DEF WordEnd
<1>3. CASE stops = {}
  BY <1>1, <1>2, <1>3
<1>4. CASE stops # {}
  <2>1. stops \in SUBSET Nat
    BY <1>1
  <2>2. \A j \in 1..Len(Text) : Text[j] \notin AnyOf => j \in stops
    OBVIOUS
  <2>3. \A j \in stops : j \in 1..Len(Text) /\ Text[j] \notin AnyOf
    OBVIOUS
  <2> HIDE DEF stops
  <2>4. Min(stops) \in stops /\ \A j \in stops : Min(stops) <= j
    BY <1>4, <2>1, MinOfSet
  <2>5. PICK s \in 1..Len(Text) : s = Min(stops)
    BY <2>3, <2>4
  <2>6. WordEnd = s - 1 /\ Text[s] \notin AnyOf /\ WordEnd + 1 = s
    BY <1>1, <1>2, <1>4, <2>3, <2>4, <2>5
  <2>7. \A j \in 1..WordEnd : j \in 1..Len(Text) /\ j < s
    BY <1>1, <2>5, <2>6
  <2>8. \A j \in 1..WordEnd : Text[j] \in AnyOf
    BY <1>1, <2>2, <2>4, <2>5, <2>7
  <2> QED
    BY <1>1, <2>5, <2>6, <2>8
<1> QED
  BY <1>3, <1>4

(* check_int accepts exactly the numerals without leading zeros: a longer  *)
(* word that only begins like one is not accepted.                         *)
THEOREM AcceptsNumerals == Spec => []IntIsNumeral
<1>1. IInv => IntIsNumeral
  <2> SUFFICES ASSUME IInv, lexer = "check_int", id # -1 PROVE IntIsNumeral
    BY DEF IntIsNumeral
  <2>1. lexer \in DOMAIN Rules /\ call \in Calls[lexer]
    BY DEF IInv
  <2>2. PICK n \in Nat : Answered(n)
    BY DEF IInv
  <2> DEFINE w == WordEnd
  <2>3. /\ n \in 0..Len(Text) /\ BestIs(n, Len(Text)) /\ Len(Text) \in Nat
        /\ id = IF n = 0 THEN 0 ELSE rules[accepted].answer
        /\ \A j \in 1..Len(Text) : Text[j] = Sym(j)
    BY <2>1, <2>2, TextFacts DEF Answered
  <2>4. /\ w \in 0..Len(Text)
        /\ \A j \in 1..w : Text[j] \in AnyOf
        /\ w < Len(Text) => Text[w + 1] \notin AnyOf
    BY <2>1, WordEndIs
  <2> HIDE DEF w
  <2>5. n <= w
    <3> SUFFICES ASSUME w < n PROVE FALSE
      BY <2>3, <2>4
    <3>1. n > 0 /\ w + 1 \in 1..n /\ Text[w + 1] \notin AnyOf /\ w + 1 \in 1..Len(Text)
      BY <2>3, <2>4
    <3>2. PICK k \in MatchedAt(n) : TRUE
      BY <2>1, <2>3, <3>1, BestFacts
    <3>3. k \in 1..3 /\ \A j \in 1..n : j = 1 \/ j \in 2..n
      BY <3>1, <3>2, IntMatches DEF MatchedAt
    <3>4. \A j \in 1..n : Sym(j) \in AnyOf
      <4>1. CASE k = 1
        BY <3>1, <3>2, <3>3, <4>1, IntMatches DEF AnyOf, Digit
      <4>2. CASE k = 2
        BY <3>1, <3>2, <4>2, IntMatches DEF AnyOf
      <4>3. CASE k = 3
        BY <3>1, <3>2, <4>3, IntMatches
      <4> QED
        BY <3>3, <4>1, <4>2, <4>3
    <3> QED
      BY <2>3, <3>1, <3>4
  <2>6. n >= w
    <3> SUFFICES ASSUME n < w PROVE FALSE
      BY <2>3, <2>4
    <3>1. w \in Nat /\ w > 0 /\ w \in (n + 1)..Len(Text)
          /\ \A j \in 1..w : j \in 1..Len(Text)
      BY <2>3, <2>4
    <3>2. 3 \in MatchedAt(w)
      BY <2>3, <2>4, <3>1, IntMatches
    <3> QED
      BY <2>3, <3>1, <3>2 DEF BestIs
  <2>7. n = w
    BY <2>3, <2>4, <2>5, <2>6
  <2>8. rules[1].answer = 0 /\ rules[2].answer = 1 /\ rules[3].answer = 0
    BY DEF rules, Rules, IntRules
  <2>9. CASE n = 0
    BY <2>3, <2>7, <2>9 DEF IntIsNumeral, w
  <2>10. CASE n > 0
    <3>1. accepted \in 1..3 /\ accepted = Min(MatchedAt(n)) /\ accepted \in MatchedAt(n)
      BY <2>1, <2>3, <2>10, BestFacts, IntMatches DEF BestIs
    <3>2. MatchedAt(n) \in SUBSET Nat /\ MatchedAt(n) \subseteq 1..3
      BY <2>10, IntMatches DEF MatchedAt
    <3>3. id = 1 <=> accepted = 2
      BY <2>3, <2>8, <2>10, <3>1
    <3>4. accepted = 2 <=> 2 \in MatchedAt(n) /\ 1 \notin MatchedAt(n)
      <4>1. \A k \in MatchedAt(n) : accepted <= k
        BY <3>1, <3>2, MinOfSet
      <4> QED
        BY <3>1, <3>2, <4>1
    <3>5. 1 \in 1..n /\ \A j \in 1..n : j \in 1..Len(Text)
      BY <2>3, <2>10
    <3>6. id = 1 <=> /\ \A j \in 1..n : Text[j] \in Digit
                     /\ Text[1] = "zero" => n = 1
      <4>1. 2 \in MatchedAt(n) <=> \A j \in 1..n : Text[j] \in Digit
        BY <2>3, <2>10, <3>5, IntMatches
      <4>2. ASSUME \A j \in 1..n : Text[j] \in Digit
            PROVE  1 \in MatchedAt(n) <=> n > 1 /\ Text[1] = "zero"
        <5>1. \A j \in 2..n : Sym(j) \in Digit
          BY <2>3, <3>5, <4>2
        <5> QED
          BY <2>3, <2>10, <3>5, <5>1, IntMatches
      <4> QED
        BY <2>10, <3>3, <3>4, <4>1, <4>2
    <3> QED
      BY <2>7, <2>10, <3>6 DEF IntIsNumeral, w
  <2> QED
    BY <2>3, <2>9, <2>10
<1> QED
  BY <1>1, Invariant, PTL

-----------------------------------------------------------------------------
(* The words.                                                              *)

Spells(rule, t) ==
    /\ Len(rule.pattern) = Len(t)
    /\ \A j \in 1..Len(t) : t[j] \in rule.pattern[j]

LEMMA SpellsItself1 ==
    ASSUME NEW a, NEW x
    PROVE  Spells(Word(<<a>>, x), <<a>>)
<1> DEFINE t == <<a>>
           p == <<{a}>>
<1>1. Word(t, x).pattern = p
  BY DEF Word
<1>2. Len(t) = 1 /\ Len(p) = 1 /\ t[1] \in p[1]
  OBVIOUS
<1> HIDE DEF t, p
<1>3. Spells(Word(t, x), t)
  BY <1>1, <1>2 DEF Spells
<1> QED
  BY <1>3 DEF t

LEMMA SpellsItself2 ==
    ASSUME NEW a, NEW b, NEW x
    PROVE  Spells(Word(<<a, b>>, x), <<a, b>>)
<1> DEFINE t == <<a, b>>
           p == <<{a}, {b}>>
<1>1. Word(t, x).pattern = p
  BY DEF Word
<1>2. Len(t) = 2 /\ Len(p) = 2 /\ t[1] \in p[1] /\ t[2] \in p[2]
  OBVIOUS
<1> HIDE DEF t, p
<1>3. Spells(Word(t, x), t)
  BY <1>1, <1>2 DEF Spells
<1> QED
  BY <1>3 DEF t

LEMMA SpellsItself3 ==
    ASSUME NEW a, NEW b, NEW c, NEW x
    PROVE  Spells(Word(<<a, b, c>>, x), <<a, b, c>>)
<1> DEFINE t == <<a, b, c>>
           p == <<{a}, {b}, {c}>>
<1>1. Word(t, x).pattern = p
  BY DEF Word
<1>2. /\ Len(t) = 3 /\ Len(p) = 3
      /\ t[1] \in p[1] /\ t[2] \in p[2] /\ t[3] \in p[3]
  OBVIOUS
<1> HIDE DEF t, p
<1>3. Spells(Word(t, x), t)
  BY <1>1, <1>2 DEF Spells
<1> QED
  BY <1>3 DEF t

(* What tells the words of one table apart.                                *)
Shape(rule, n, first, last, answer) ==
    /\ ~rule.repeat /\ rule.answer = answer
    /\ Len(rule.pattern) = n
    /\ rule.pattern[1] = {first} /\ rule.pattern[n] = {last}

LEMMA WordShape1 ==
    ASSUME NEW x, NEW a
    PROVE  Shape(Word(<<a>>, x), 1, a, a, x)
<1> DEFINE p == <<{a}>>
           w == Word(<<a>>, x)
<1>1. w.pattern = p /\ w.answer = x /\ ~w.repeat
  BY DEF Word
<1>2. Len(p) = 1 /\ p[1] = {a}
  OBVIOUS
<1> HIDE DEF p, w
<1>3. Shape(w, 1, a, a, x)
  BY <1>1, <1>2 DEF Shape
<1> QED
  BY <1>3 DEF w

LEMMA WordShape2 ==
    ASSUME NEW x, NEW a, NEW b
    PROVE  Shape(Word(<<a, b>>, x), 2, a, b, x)
<1> DEFINE p == <<{a}, {b}>>
           w == Word(<<a, b>>, x)
<1>1. w.pattern = p /\ w.answer = x /\ ~w.repeat
  BY DEF Word
<1>2. Len(p) = 2 /\ p[1] = {a} /\ p[2] = {b}
  OBVIOUS
<1> HIDE DEF p, w
<1>3. Shape(w, 2, a, b, x)
  BY <1>1, <1>2 DEF Shape
<1> QED
  BY <1>3 DEF w

LEMMA WordShape3 ==
    ASSUME NEW x, NEW a, NEW b, NEW c
    PROVE  Shape(Word(<<a, b, c>>, x), 3, a, c, x)
<1> DEFINE p == <<{a}, {b}, {c}>>
           w == Word(<<a, b, c>>, x)
<1>1. w.pattern = p /\ w.answer = x /\ ~w.repeat
  BY DEF Word
<1>2. Len(p) = 3 /\ p[1] = {a} /\ p[3] = {c}
  OBVIOUS
<1> HIDE DEF p, w
<1>3. Shape(w, 3, a, c, x)
  BY <1>1, <1>2 DEF Shape
<1> QED
  BY <1>3 DEF w

(* Word t has number x in a table of words.                                *)
Means(table, t, x) ==
    /\ Len(t) \in Nat \ {0}
    /\ \A k \in DOMAIN table : ~table[k].repeat
    /\ \E k \in DOMAIN table : Spells(table[k], t)
    /\ \A k \in DOMAIN table : Spells(table[k], t) => table[k].answer = x

Has(table, rule) == \E k \in DOMAIN table : table[k] = rule

(* Only words with number x look like this one.                            *)
Apart(table, n, first, last, x) ==
    \A k \in DOMAIN table :
        \E m, a, b, y : /\ Shape(table[k], m, a, b, y)
                        /\ m # n \/ a # first \/ b # last \/ y = x

LEMMA MeansByShape ==
    ASSUME NEW table, NEW t, NEW n \in Nat \ {0}, NEW first, NEW last, NEW x,
           Len(t) = n, t[1] = first, t[n] = last,
           NEW rule, Has(table, rule), Spells(rule, t),
           Apart(table, n, first, last, x)
    PROVE  Means(table, t, x)
<1>1. \A k \in DOMAIN table : Spells(table[k], t) => table[k].answer = x
  <2> SUFFICES ASSUME NEW k \in DOMAIN table, Spells(table[k], t)
               PROVE  table[k].answer = x
    OBVIOUS
  <2>1. /\ Len(table[k].pattern) = n
        /\ first \in table[k].pattern[1] /\ last \in table[k].pattern[n]
    BY DEF Spells
  <2>2. PICK m, a, b, y : /\ Shape(table[k], m, a, b, y)
                          /\ m # n \/ a # first \/ b # last \/ y = x
    BY DEF Apart
  <2>3. m = n /\ table[k].answer = y
    BY <2>1, <2>2 DEF Shape
  <2>4. table[k].pattern[1] = {a} /\ table[k].pattern[m] = {b}
    BY <2>2 DEF Shape
  <2> QED
    BY <2>1, <2>2, <2>3, <2>4
<1>2. \A k \in DOMAIN table : ~table[k].repeat
  BY DEF Apart, Shape
<1> QED
  BY <1>1, <1>2 DEF Means, Has

LEMMA Means1 ==
    ASSUME NEW table, NEW a, NEW x, Has(table, Word(<<a>>, x)),
           Apart(table, 1, a, a, x)
    PROVE  Means(table, <<a>>, x)
<1>1. Len(<<a>>) = 1 /\ <<a>>[1] = a /\ 1 \in Nat \ {0}
  OBVIOUS
<1> QED
  BY <1>1, SpellsItself1, MeansByShape

LEMMA Means2 ==
    ASSUME NEW table, NEW a, NEW b, NEW x, Has(table, Word(<<a, b>>, x)),
           Apart(table, 2, a, b, x)
    PROVE  Means(table, <<a, b>>, x)
<1>1. /\ Len(<<a, b>>) = 2 /\ <<a, b>>[1] = a /\ <<a, b>>[2] = b
      /\ 2 \in Nat \ {0}
  OBVIOUS
<1> QED
  BY <1>1, SpellsItself2, MeansByShape

LEMMA Means3 ==
    ASSUME NEW table, NEW a, NEW b, NEW c, NEW x, Has(table, Word(<<a, b, c>>, x)),
           Apart(table, 3, a, c, x)
    PROVE  Means(table, <<a, b, c>>, x)
<1>1. /\ Len(<<a, b, c>>) = 3 /\ <<a, b, c>>[1] = a /\ <<a, b, c>>[3] = c
      /\ 3 \in Nat \ {0}
  OBVIOUS
<1> QED
  BY <1>1, SpellsItself3, MeansByShape

LEMMA MethodHeader == \A w \in Header.parse_method : Means(MethodRules, w[1], w[2])
<1> DEFINE T == MethodRules
<1>1. DOMAIN T = 1..4
  BY DEF MethodRules
<1>2. /\ T[1] = Word(<<"GET">>, 14)
      /\ T[2] = Word(<<"P", "OST">>, 15)
      /\ T[3] = Word(<<"P", "UT">>, 16)
      /\ T[4] = Word(<<"DELETE">>, 17)
  BY DEF MethodRules
<1> HIDE DEF T
<1>3. /\ Shape(T[1], 1, "GET", "GET", 14)
      /\ Shape(T[2], 2, "P", "OST", 15)
      /\ Shape(T[3], 2, "P", "UT", 16)
      /\ Shape(T[4], 1, "DELETE", "DELETE", 17)
  BY <1>2, WordShape1, WordShape2, WordShape3
<1>4. /\ Has(T, Word(<<"GET">>, 14))
      /\ Has(T, Word(<<"P", "OST">>, 15))
      /\ Has(T, Word(<<"P", "UT">>, 16))
      /\ Has(T, Word(<<"DELETE">>, 17))
  BY <1>1, <1>2 DEF Has
<1>5. /\ Apart(T, 1, "GET", "GET", 14)
      /\ Apart(T, 2, "P", "OST", 15)
      /\ Apart(T, 2, "P", "UT", 16)
      /\ Apart(T, 1, "DELETE", "DELETE", 17)
  BY <1>1, <1>3 DEF Apart
<1>6. /\ Means(T, <<"GET">>, 14)
      /\ Means(T, <<"P", "OST">>, 15)
      /\ Means(T, <<"P", "UT">>, 16)
      /\ Means(T, <<"DELETE">>, 17)
  BY <1>4, <1>5, Means1, Means2, Means3
<1> QED
  BY <1>6 DEF Header, T

LEMMA GetSubitemHeader == \A w \in Header.check_get_subitem : Means(GetSubitemRules, w[1], w[2])
<1> DEFINE T == GetSubitemRules
<1>1. DOMAIN T = 1..2
  BY DEF GetSubitemRules
<1>2. /\ T[1] = Word(<<"items">>, 4)
      /\ T[2] = Word(<<"transactions">>, 5)
  BY DEF GetSubitemRules
<1> HIDE DEF T
<1>3. /\ Shape(T[1], 1, "items", "items", 4)
      /\ Shape(T[2], 1, "transactions", "transactions", 5)
  BY <1>2, WordShape1, WordShape2, WordShape3
<1>4. /\ Has(T, Word(<<"items">>, 4))
      /\ Has(T, Word(<<"transactions">>, 5))
  BY <1>1, <1>2 DEF Has
<1>5. /\ Apart(T, 1, "items", "items", 4)
      /\ Apart(T, 1, "transactions", "transactions", 5)
  BY <1>1, <1>3 DEF Apart
<1>6. /\ Means(T, <<"items">>, 4)
      /\ Means(T, <<"transactions">>, 5)
  BY <1>4, <1>5, Means1, Means2, Means3
<1> QED
  BY <1>6 DEF Header, T

LEMMA PutSubitemHeader == \A w \in Header.check_put_subitem : Means(PutSubitemRules, w[1], w[2])
<1> DEFINE T == PutSubitemRules
<1>1. DOMAIN T = 1..1
  BY DEF PutSubitemRules
<1>2. /\ T[1] = Word(<<"transactions">>, 3)
  BY DEF PutSubitemRules
<1> HIDE DEF T
<1>3. /\ Shape(T[1], 1, "transactions", "transactions", 3)
  BY <1>2, WordShape1, WordShape2, WordShape3
<1>4. /\ Has(T, Word(<<"transactions">>, 3))
  BY <1>1, <1>2 DEF Has
<1>5. /\ Apart(T, 1, "transactions", "transactions", 3)
  BY <1>1, <1>3 DEF Apart
<1>6. /\ Means(T, <<"transactions">>, 3)
  BY <1>4, <1>5, Means1, Means2, Means3
<1> QED
  BY <1>6 DEF Header, T

LEMMA IdHeader == \A w \in Header.parse_id : Means(IdRules, w[1], w[2])
<1> DEFINE T == IdRules
<1>1. DOMAIN T = 1..10
  BY DEF IdRules
<1>2. /\ T[1] = Word(<<"i", "d">>, 1)
      /\ T[2] = Word(<<"n", "umber">>, 2)
      /\ T[3] = Word(<<"reference">>, 3)
      /\ T[4] = Word(<<"status">>, 4)
      /\ T[5] = Word(<<"created_at">>, 5)
      /\ T[6] = Word(<<"updated_at">>, 6)
      /\ T[7] = Word(<<"i", "tems">>, 7)
      /\ T[8] = Word(<<"n", "otes">>, 8)
      /\ T[9] = Word(<<"transactions">>, 9)
      /\ T[10] = Word(<<"price">>, 10)
  BY DEF IdRules
<1> HIDE DEF T
<1>3. /\ Shape(T[1], 2, "i", "d", 1)
      /\ Shape(T[2], 2, "n", "umber", 2)
      /\ Shape(T[3], 1, "reference", "reference", 3)
      /\ Shape(T[4], 1, "status", "status", 4)
      /\ Shape(T[5], 1, "created_at", "created_at", 5)
      /\ Shape(T[6], 1, "updated_at", "updated_at", 6)
      /\ Shape(T[7], 2, "i", "tems", 7)
      /\ Shape(T[8], 2, "n", "otes", 8)
      /\ Shape(T[9], 1, "transactions", "transactions", 9)
      /\ Shape(T[10], 1, "price", "price", 10)
  BY <1>2, WordShape1, WordShape2, WordShape3
<1>4. /\ Has(T, Word(<<"i", "d">>, 1))
      /\ Has(T, Word(<<"n", "umber">>, 2))
      /\ Has(T, Word(<<"reference">>, 3))
      /\ Has(T, Word(<<"status">>, 4))
      /\ Has(T, Word(<<"created_at">>, 5))
      /\ Has(T, Word(<<"updated_at">>, 6))
      /\ Has(T, Word(<<"i", "tems">>, 7))
      /\ Has(T, Word(<<"n", "otes">>, 8))
      /\ Has(T, Word(<<"transactions">>, 9))
      /\ Has(T, Word(<<"price">>, 10))
  BY <1>1, <1>2 DEF Has
<1>5. /\ Apart(T, 2, "i", "d", 1)
      /\ Apart(T, 2, "n", "umber", 2)
      /\ Apart(T, 1, "reference", "reference", 3)
      /\ Apart(T, 1, "status", "status", 4)
      /\ Apart(T, 1, "created_at", "created_at", 5)
      /\ Apart(T, 1, "updated_at", "updated_at", 6)
      /\ Apart(T, 2, "i", "tems", 7)
      /\ Apart(T, 2, "n", "otes", 8)
      /\ Apart(T, 1, "transactions", "transactions", 9)
      /\ Apart(T, 1, "price", "price", 10)
  BY <1>1, <1>3 DEF Apart
<1>6. /\ Means(T, <<"i", "d">>, 1)
      /\ Means(T, <<"n", "umber">>, 2)
      /\ Means(T, <<"reference">>, 3)
      /\ Means(T, <<"status">>, 4)
      /\ Means(T, <<"created_at">>, 5)
      /\ Means(T, <<"updated_at">>, 6)
      /\ Means(T, <<"i", "tems">>, 7)
      /\ Means(T, <<"n", "otes">>, 8)
      /\ Means(T, <<"transactions">>, 9)
      /\ Means(T, <<"price">>, 10)
  BY <1>4, <1>5, Means1, Means2, Means3
<1> QED
  BY <1>6 DEF Header, T

LEMMA ItemHeader == \A w \in Header.parse_items : Means(ItemRules, w[1], w[2])
<1> DEFINE T == ItemRules
<1>1. DOMAIN T = 1..3
  BY DEF ItemRules
<1>2. /\ T[1] = Word(<<"sku">>, 11)
      /\ T[2] = Word(<<"unit_price">>, 12)
      /\ T[3] = Word(<<"quantity">>, 13)
  BY DEF ItemRules
<1> HIDE DEF T
<1>3. /\ Shape(T[1], 1, "sku", "sku", 11)
      /\ Shape(T[2], 1, "unit_price", "unit_price", 12)
      /\ Shape(T[3], 1, "quantity", "quantity", 13)
  BY <1>2, WordShape1, WordShape2, WordShape3
<1>4. /\ Has(T, Word(<<"sku">>, 11))
      /\ Has(T, Word(<<"unit_price">>, 12))
      /\ Has(T, Word(<<"quantity">>, 13))
  BY <1>1, <1>2 DEF Has
<1>5. /\ Apart(T, 1, "sku", "sku", 11)
      /\ Apart(T, 1, "unit_price", "unit_price", 12)
      /\ Apart(T, 1, "quantity", "quantity", 13)
  BY <1>1, <1>3 DEF Apart
<1>6. /\ Means(T, <<"sku">>, 11)
      /\ Means(T, <<"unit_price">>, 12)
      /\ Means(T, <<"quantity">>, 13)
  BY <1>4, <1>5, Means1, Means2, Means3
<1> QED
  BY <1>6 DEF Header, T

LEMMA TransactionHeader == \A w \in Header.parse_transactions : Means(TransactionRules, w[1], w[2])
<1> DEFINE T == TransactionRules
<1>1. DOMAIN T = 1..8
  BY DEF TransactionRules
<1>2. /\ T[1] = Word(<<"id">>, 14)
      /\ T[2] = Word(<<"external_id">>, 15)
      /\ T[3] = Word(<<"a", "mount">>, 16)
      /\ T[4] = Word(<<"type">>, 17)
      /\ T[5] = Word(<<"a", "uthorization_code">>, 18)
      /\ T[6] = Word(<<"card_", "b", "rand">>, 19)
      /\ T[7] = Word(<<"card_", "b", "in">>, 20)
      /\ T[8] = Word(<<"card_", "last">>, 21)
  BY DEF TransactionRules
<1> HIDE DEF T
<1>3. /\ Shape(T[1], 1, "id", "id", 14)
      /\ Shape(T[2], 1, "external_id", "external_id", 15)
      /\ Shape(T[3], 2, "a", "mount", 16)
      /\ Shape(T[4], 1, "type", "type", 17)
      /\ Shape(T[5], 2, "a", "uthorization_code", 18)
      /\ Shape(T[6], 3, "card_", "rand", 19)
      /\ Shape(T[7], 3, "card_", "in", 20)
      /\ Shape(T[8], 2, "card_", "last", 21)
  BY <1>2, WordShape1, WordShape2, WordShape3
<1>4. /\ Has(T, Word(<<"id">>, 14))
      /\ Has(T, Word(<<"external_id">>, 15))
      /\ Has(T, Word(<<"a", "mount">>, 16))
      /\ Has(T, Word(<<"type">>, 17))
      /\ Has(T, Word(<<"a", "uthorization_code">>, 18))
      /\ Has(T, Word(<<"card_", "b", "rand">>, 19))
      /\ Has(T, Word(<<"card_", "b", "in">>, 20))
      /\ Has(T, Word(<<"card_", "last">>, 21))
  BY <1>1, <1>2 DEF Has
<1>5. /\ Apart(T, 1, "id", "id", 14)
      /\ Apart(T, 1, "external_id", "external_id", 15)
      /\ Apart(T, 2, "a", "mount", 16)
      /\ Apart(T, 1, "type", "type", 17)
      /\ Apart(T, 2, "a", "uthorization_code", 18)
      /\ Apart(T, 3, "card_", "rand", 19)
      /\ Apart(T, 3, "card_", "in", 20)
      /\ Apart(T, 2, "card_", "last", 21)
  BY <1>1, <1>3 DEF Apart
<1>6. /\ Means(T, <<"id">>, 14)
      /\ Means(T, <<"external_id">>, 15)
      /\ Means(T, <<"a", "mount">>, 16)
      /\ Means(T, <<"type">>, 17)
      /\ Means(T, <<"a", "uthorization_code">>, 18)
      /\ Means(T, <<"card_", "b", "rand">>, 19)
      /\ Means(T, <<"card_", "b", "in">>, 20)
      /\ Means(T, <<"card_", "last">>, 21)
  BY <1>4, <1>5, Means1, Means2, Means3
<1> QED
  BY <1>6 DEF Header, T

LEMMA StatusHeader == \A w \in Header.check_status : Means(StatusRules, w[1], w[2])
<1> DEFINE T == StatusRules
<1>1. DOMAIN T = 1..8
  BY DEF StatusRules
<1>2. /\ T[1] = Word(<<"DRAFT">>, 1)
      /\ T[2] = Word(<<"ENTERED">>, 4)
      /\ T[3] = Word(<<"C", "ANCELED">>, 8)
      /\ T[4] = Word(<<"PAID">>, 16)
      /\ T[5] = Word(<<"APPROVED">>, 32)
      /\ T[6] = Word(<<"RE", "JECTED">>, 64)
      /\ T[7] = Word(<<"RE", "dash", "ENTERED">>, 128)
      /\ T[8] = Word(<<"C", "LOSED">>, 256)
  BY DEF StatusRules
<1> HIDE DEF T
<1>3. /\ Shape(T[1], 1, "DRAFT", "DRAFT", 1)
      /\ Shape(T[2], 1, "ENTERED", "ENTERED", 4)
      /\ Shape(T[3], 2, "C", "ANCELED", 8)
      /\ Shape(T[4], 1, "PAID", "PAID", 16)
      /\ Shape(T[5], 1, "APPROVED", "APPROVED", 32)
      /\ Shape(T[6], 2, "RE", "JECTED", 64)
      /\ Shape(T[7], 3, "RE", "ENTERED", 128)
      /\ Shape(T[8], 2, "C", "LOSED", 256)
  BY <1>2, WordShape1, WordShape2, WordShape3
<1>4. /\ Has(T, Word(<<"DRAFT">>, 1))
      /\ Has(T, Word(<<"ENTERED">>, 4))
      /\ Has(T, Word(<<"C", "ANCELED">>, 8))
      /\ Has(T, Word(<<"PAID">>, 16))
      /\ Has(T, Word(<<"APPROVED">>, 32))
      /\ Has(T, Word(<<"RE", "JECTED">>, 64))
      /\ Has(T, Word(<<"RE", "dash", "ENTERED">>, 128))
      /\ Has(T, Word(<<"C", "LOSED">>, 256))
  BY <1>1, <1>2 DEF Has
<1>5. /\ Apart(T, 1, "DRAFT", "DRAFT", 1)
      /\ Apart(T, 1, "ENTERED", "ENTERED", 4)
      /\ Apart(T, 2, "C", "ANCELED", 8)
      /\ Apart(T, 1, "PAID", "PAID", 16)
      /\ Apart(T, 1, "APPROVED", "APPROVED", 32)
      /\ Apart(T, 2, "RE", "JECTED", 64)
      /\ Apart(T, 3, "RE", "ENTERED", 128)
      /\ Apart(T, 2, "C", "LOSED", 256)
  BY <1>1, <1>3 DEF Apart
<1>6. /\ Means(T, <<"DRAFT">>, 1)
      /\ Means(T, <<"ENTERED">>, 4)
      /\ Means(T, <<"C", "ANCELED">>, 8)
      /\ Means(T, <<"PAID">>, 16)
      /\ Means(T, <<"APPROVED">>, 32)
      /\ Means(T, <<"RE", "JECTED">>, 64)
      /\ Means(T, <<"RE", "dash", "ENTERED">>, 128)
      /\ Means(T, <<"C", "LOSED">>, 256)
  BY <1>4, <1>5, Means1, Means2, Means3
<1> QED
  BY <1>6 DEF Header, T

LEMMA TypeHeader == \A w \in Header.check_type : Means(TypeRules, w[1], w[2])
<1> DEFINE T == TypeRules
<1>1. DOMAIN T = 1..2
  BY DEF TypeRules
<1>2. /\ T[1] = Word(<<"PAYMENT">>, 1)
      /\ T[2] = Word(<<"CANCEL">>, 4)
  BY DEF TypeRules
<1> HIDE DEF T
<1>3. /\ Shape(T[1], 1, "PAYMENT", "PAYMENT", 1)
      /\ Shape(T[2], 1, "CANCEL", "CANCEL", 4)
  BY <1>2, WordShape1, WordShape2, WordShape3
<1>4. /\ Has(T, Word(<<"PAYMENT">>, 1))
      /\ Has(T, Word(<<"CANCEL">>, 4))
  BY <1>1, <1>2 DEF Has
<1>5. /\ Apart(T, 1, "PAYMENT", "PAYMENT", 1)
      /\ Apart(T, 1, "CANCEL", "CANCEL", 4)
  BY <1>1, <1>3 DEF Apart
<1>6. /\ Means(T, <<"PAYMENT">>, 1)
      /\ Means(T, <<"CANCEL">>, 4)
  BY <1>4, <1>5, Means1, Means2, Means3
<1> QED
  BY <1>6 DEF Header, T

LEMMA Headers ==
    \A l \in DOMAIN Header : \A w \in Header[l] : Means(Rules[l], w[1], w[2])
<1>1. DOMAIN Header = {"parse_method", "check_get_subitem", "check_put_subitem", "parse_id", "parse_items", "parse_transactions", "check_status", "check_type"}
  BY DEF Header
<1>2. \A w \in Header["parse_method"] : Means(Rules["parse_method"], w[1], w[2])
  BY MethodHeader DEF Rules
<1>3. \A w \in Header["check_get_subitem"] : Means(Rules["check_get_subitem"], w[1], w[2])
  BY GetSubitemHeader DEF Rules
<1>4. \A w \in Header["check_put_subitem"] : Means(Rules["check_put_subitem"], w[1], w[2])
  BY PutSubitemHeader DEF Rules
<1>5. \A w \in Header["parse_id"] : Means(Rules["parse_id"], w[1], w[2])
  BY IdHeader DEF Rules
<1>6. \A w \in Header["parse_items"] : Means(Rules["parse_items"], w[1], w[2])
  BY ItemHeader DEF Rules
<1>7. \A w \in Header["parse_transactions"] : Means(Rules["parse_transactions"], w[1], w[2])
  BY TransactionHeader DEF Rules
<1>8. \A w \in Header["check_status"] : Means(Rules["check_status"], w[1], w[2])
  BY StatusHeader DEF Rules
<1>9. \A w \in Header["check_type"] : Means(Rules["check_type"], w[1], w[2])
  BY TypeHeader DEF Rules
<1> QED
  BY <1>1, <1>2, <1>3, <1>4, <1>5, <1>6, <1>7, <1>8, <1>9

(* A whole word gets the number request.h has for it, with which           *)
(* validate_json and handle_request go on, although the generated lexers   *)
(* share the beginnings of the words and may leave a word for another.     *)
THEOREM WordsGetTheirNumbers == Spec => []WordsAsInHeader
<1>1. IInv => WordsAsInHeader
  <2> SUFFICES ASSUME IInv, id # -1, lexer \in DOMAIN Header,
                      NEW w \in Header[lexer], Text = w[1]
               PROVE  id = w[2]
    BY DEF WordsAsInHeader
  <2>1. lexer \in DOMAIN Rules /\ call \in Calls[lexer]
    BY DEF IInv
  <2>2. Means(rules, Text, w[2])
    BY Headers DEF rules
  <2> DEFINE L == Len(Text)
  <2>3. L \in Nat /\ L > 0 /\ \A j \in 1..L : Text[j] = Sym(j)
    BY <2>1, <2>2, TextFacts DEF Means
  <2>4. \A k \in DOMAIN rules : Size(k) \in Nat /\ Size(k) = Len(rules[k].pattern)
    BY <2>1, RuleFacts DEF Size
  <2> HIDE DEF L
  <2>5. ASSUME NEW k \in DOMAIN rules
        PROVE  Spells(rules[k], Text) <=> k \in MatchedAt(L)
    <3>1. Size(k) <= L /\ (L > Size(k) => rules[k].repeat) <=> Size(k) = L
      BY <2>2, <2>3, <2>4 DEF Means
    <3>2. Size(k) = L => \A j \in 1..L : Until(j, k) = j
      BY <2>3 DEF Until
    <3>3. k \in MatchedAt(L) <=>
            /\ Size(k) = L
            /\ \A j \in 1..L : Sym(j) \in rules[k].pattern[j]
      BY <3>1, <3>2 DEF MatchedAt, Partial
    <3> QED
      BY <2>3, <2>4, <3>3 DEF Spells, L
  <2>6. PICK n \in Nat : Answered(n)
    BY DEF IInv
  <2>7. n \in 0..L /\ BestIs(n, L) /\ id = IF n = 0 THEN 0 ELSE rules[accepted].answer
    BY <2>6 DEF Answered, L
  <2>8. MatchedAt(L) # {}
    BY <2>2, <2>5 DEF Means
  <2>9. n = L
    <3>1. n < L => L \in (n + 1)..L
      BY <2>3, <2>7
    <3> QED
      BY <2>3, <2>7, <2>8, <3>1 DEF BestIs
  <2>10. accepted \in MatchedAt(L) /\ accepted \in DOMAIN rules
    BY <2>1, <2>3, <2>7, <2>9, BestFacts
  <2>11. rules[accepted].answer = w[2]
    BY <2>2, <2>5, <2>10 DEF Means
  <2> QED
    BY <2>3, <2>7, <2>9, <2>11
<1> QED
  BY <1>1, Invariant, PTL

(* The answers of the lexers are what their callers take them for.         *)
THEOREM AnswersAsMeant == Spec => []RulesAsMeant
BY AcceptsNumerals, UuidIsWhole, WordsGetTheirNumbers, PTL DEF RulesAsMeant

=============================================================================
