-------------------------- MODULE JsonBuilderProofs --------------------------
(***************************************************************************)
(* Theorems about JsonBuilder, for names, values and replies of any length *)
(* and a buffer of any size.                                               *)
(***************************************************************************)
EXTENDS JsonBuilder, SequenceTheorems, WellFoundedInduction, TLAPS

(* A buffer whose length is that of its text.                              *)
Exact(b) == b.json \in Seq(Byte) /\ b.jsonLen = Len(b.json)

(* b becomes d, at most n bytes longer.                                    *)
Grows(b, d, n) == Exact(d) /\ Len(d.json) <= Len(b.json) + n

LEMMA CharsType ==
    ASSUME NEW n \in Nat
    PROVE  Chars(n) \in Seq(Byte) /\ Len(Chars(n)) = n
BY DEF Chars, Byte

LEMMA QuotedType ==
    ASSUME NEW n \in Nat
    PROVE  Quoted(n) \in Seq(Byte) /\ Len(Quoted(n)) = n + 2
<1>1. <<"quote">> \in Seq(Byte) /\ Len(<<"quote">>) = 1
  BY DEF Byte
<1> QED
  BY <1>1, CharsType DEF Quoted

LEMMA ExactLength ==
    ASSUME NEW b, Exact(b)
    PROVE  Len(b.json) \in Nat
BY DEF Exact

LEMMA CatExact ==
    ASSUME NEW b, Exact(b), NEW s \in Seq(Byte), NEW n, n = Len(s)
    PROVE  /\ Exact(Cat(b, s, n))
           /\ Len(Cat(b, s, n).json) = Len(b.json) + n
           /\ Grows(b, Cat(b, s, n), n)
<1>1. /\ Cat(b, s, n).json \in Seq(Byte)
      /\ Len(Cat(b, s, n).json) = Len(b.json) + n
      /\ Cat(b, s, n).jsonLen = Len(b.json) + n
  BY DEF Exact, Cat
<1>2. Len(b.json) \in Nat /\ n \in Nat
  BY ExactLength
<1> QED
  BY <1>1, <1>2 DEF Exact, Grows

LEMMA GrowsTrans ==
    ASSUME NEW b, Exact(b), NEW d, NEW e, NEW m \in Nat, NEW n \in Nat,
           Grows(b, d, m), Grows(d, e, n)
    PROVE  Grows(b, e, m + n)
<1>1. Len(b.json) \in Nat /\ Len(d.json) \in Nat /\ Len(e.json) \in Nat
  BY ExactLength DEF Grows
<1>2. Exact(e) /\ Len(d.json) <= Len(b.json) + m /\ Len(e.json) <= Len(d.json) + n
  BY DEF Grows
<1>3. Len(e.json) <= Len(b.json) + (m + n)
  <2> DEFINE x == Len(b.json)
             y == Len(d.json)
             z == Len(e.json)
  <2>1. x \in Nat /\ y \in Nat /\ z \in Nat /\ y <= x + m /\ z <= y + n
    BY <1>1, <1>2
  <2> HIDE DEF x, y, z
  <2>2. z <= x + (m + n)
    BY <2>1
  <2> QED
    BY <2>2 DEF x, y, z
<1> QED
  BY <1>2, <1>3 DEF Grows

LEMMA CommaExact ==
    ASSUME NEW b, Exact(b)
    PROVE  Grows(b, Comma(b), 1)
<1>1. <<"comma">> \in Seq(Byte) /\ Len(<<"comma">>) = 1
  BY DEF Byte
<1>2. Grows(b, b, 1)
  BY ExactLength DEF Grows
<1>3. Grows(b, Cat(b, <<"comma">>, 1), 1)
  BY <1>1, CatExact
<1> QED
  BY <1>2, <1>3 DEF Comma

LEMMA AppendExact ==
    ASSUME NEW b, Exact(b), NEW name \in Nat, NEW value \in Nat
    PROVE  /\ Grows(b, appendJsonElementStr(b, name, value), name + value + 6)
           /\ Comma(b) = b =>
                Grows(b, appendJsonElementStr(b, name, value), name + value + 5)
<1> DEFINE s == Quoted(name) \o <<"colon">> \o Quoted(value)
<1>1. <<"colon">> \in Seq(Byte) /\ Len(<<"colon">>) = 1
  BY DEF Byte
<1>2. s \in Seq(Byte) /\ Len(s) = name + value + 5
  <2>1. /\ Quoted(name) \o <<"colon">> \in Seq(Byte)
        /\ Len(Quoted(name) \o <<"colon">>) = name + 3
    BY <1>1, QuotedType
  <2>2. Quoted(value) \in Seq(Byte) /\ Len(Quoted(value)) = value + 2
    BY QuotedType
  <2>3. s \in Seq(Byte) /\ Len(s) = (name + 3) + (value + 2)
    BY <2>1, <2>2
  <2> QED
    BY <2>3
<1>3. Grows(b, Comma(b), 1)
  BY CommaExact
<1> HIDE DEF s
<1>4. Grows(Comma(b), Cat(Comma(b), s, name + value + 5), name + value + 5)
  BY <1>2, <1>3, CatExact DEF Grows
<1>5. Grows(b, Cat(Comma(b), s, name + value + 5), 1 + (name + value + 5))
  BY <1>3, <1>4, GrowsTrans
<1>6. 1 + (name + value + 5) = name + value + 6
  OBVIOUS
<1>7. appendJsonElementStr(b, name, value) = Cat(Comma(b), s, name + value + 5)
  BY DEF appendJsonElementStr, s
<1> QED
  BY <1>4, <1>5, <1>6, <1>7

LEMMA OpenObjExact ==
    ASSUME NEW b, Exact(b)
    PROVE  /\ Grows(b, openJsonObj(b, "NULL"), 2)
           /\ Comma(openJsonObj(b, "NULL")) = openJsonObj(b, "NULL")
<1>1. <<"lbrace">> \in Seq(Byte) /\ Len(<<"lbrace">>) = 1
  BY DEF Byte
<1>2. Grows(b, Comma(b), 1)
  BY CommaExact
<1>3. Grows(Comma(b), Cat(Comma(b), <<"lbrace">>, 1), 1)
  BY <1>1, <1>2, CatExact DEF Grows
<1>4. Grows(b, Cat(Comma(b), <<"lbrace">>, 1), 1 + 1)
  BY <1>2, <1>3, GrowsTrans
<1>5. openJsonObj(b, "NULL") = Cat(Comma(b), <<"lbrace">>, 1)
  BY DEF openJsonObj
<1>6. Comma(Cat(Comma(b), <<"lbrace">>, 1)) = Cat(Comma(b), <<"lbrace">>, 1)
  <2> DEFINE s == Comma(b).json
  <2>1. s \in Seq(Byte) /\ Len(s) \in Nat /\ Comma(b).jsonLen = Len(s)
    BY <1>2 DEF Grows, Exact
  <2>2. (s \o <<"lbrace">>)[Len(s) + 1] = "lbrace"
    BY <1>1, <2>1
  <2> QED
    BY <2>1, <2>2 DEF Comma, Cat
<1> QED
  BY <1>4, <1>5, <1>6

LEMMA CloseExact ==
    ASSUME NEW b, Exact(b)
    PROVE  Grows(b, closeJsonObj(b), 1) /\ Grows(b, closeJsonArray(b), 1)
<1>1. /\ <<"rbrace">> \in Seq(Byte) /\ Len(<<"rbrace">>) = 1
      /\ <<"rbracket">> \in Seq(Byte) /\ Len(<<"rbracket">>) = 1
  BY DEF Byte
<1> QED
  BY <1>1, CatExact DEF closeJsonObj, closeJsonArray

LEMMA OpenArrayExact ==
    ASSUME NEW b, Exact(b), NEW n \in Nat
    PROVE  Grows(b, openJsonArray(b, n), n + 4)
<1> DEFINE s == Quoted(n) \o <<"colon", "lbracket">>
<1>1. <<"colon", "lbracket">> \in Seq(Byte) /\ Len(<<"colon", "lbracket">>) = 2
  BY DEF Byte
<1>2. s \in Seq(Byte) /\ Len(s) = n + 4
  BY <1>1, QuotedType
<1> HIDE DEF s
<1>3. openJsonArray(b, n) = Cat(b, s, n + 4)
  BY DEF openJsonArray, s
<1> QED
  BY <1>2, <1>3, CatExact

-----------------------------------------------------------------------------
(* How much of the text the listing so far accounts for, less what the     *)
(* batch and the entry under way will still take.                          *)

Owed == CASE pc = "keys"   -> 2
          [] pc = "fields" -> FieldMax * Len(fields) + 3
          [] OTHER         -> 0

Bound == BatchBytes * Len(listing) + EntryMax * keys

FieldsFit ==
    /\ \A i \in DOMAIN fields : FieldBytes(fields[i]) <= FieldMax
    /\ Len(fields) <= FieldsMax

IInv ==
    /\ TypeOK
    /\ LengthIsExact
    /\ FieldsFit
    /\ Len(text) + Owed <= Bound
    /\ pc \in {"keys", "fields"} => listing # <<>>

(* What Write leaves.                                                      *)
LEMMA WriteEffect ==
    ASSUME NEW b, NEW n \in Nat, Grows(Buffer, b, n), IInv,
           NEW next \in {"scan", "keys", "fields"}, Write(b, next)
    PROVE  /\ text' \in Seq(Byte) /\ jsonLen' = Len(text') /\ jsonLen' \in Nat
           /\ Len(text') <= Len(text) + n
           /\ pc' \in {next, "overrun"}
BY DEF Write, Grows, Exact, Buffer

LEMMA Constants ==
    /\ BatchBytes \in Nat /\ EntryMax \in Nat /\ FieldMax \in Nat
    /\ FieldsMax \in Nat /\ IdMax \in Nat /\ OrdersName \in Nat /\ IdName \in Nat
    /\ FieldMax * FieldsMax \in Nat
BY BuilderAssumption DEF BatchBytes, EntryMax

LEMMA Sizes == IInv =>
    /\ Len(text) \in Nat /\ Len(listing) \in Nat /\ keys \in Nat
    /\ Len(fields) \in Nat
    /\ BatchBytes * Len(listing) \in Nat /\ EntryMax * keys \in Nat
    /\ FieldMax * Len(fields) \in Nat
    /\ Bound \in Nat
    /\ Exact(Buffer)
<1> SUFFICES ASSUME IInv PROVE /\ Len(text) \in Nat /\ Len(listing) \in Nat
                               /\ keys \in Nat /\ Len(fields) \in Nat
                               /\ BatchBytes * Len(listing) \in Nat
                               /\ EntryMax * keys \in Nat
                               /\ FieldMax * Len(fields) \in Nat
                               /\ Bound \in Nat
                               /\ Exact(Buffer)
  OBVIOUS
<1>1. Len(text) \in Nat /\ Len(listing) \in Nat /\ keys \in Nat /\ Len(fields) \in Nat
  BY DEF IInv, TypeOK
<1>2. /\ BatchBytes * Len(listing) \in Nat /\ EntryMax * keys \in Nat
      /\ FieldMax * Len(fields) \in Nat
  BY <1>1, Constants
<1>3. Exact(Buffer)
  BY DEF IInv, TypeOK, LengthIsExact, Exact, Buffer
<1> QED
  BY <1>1, <1>2, <1>3 DEF Bound

LEMMA InitInv == Init => IInv
<1> SUFFICES ASSUME Init PROVE IInv
  OBVIOUS
<1>1. TypeOK /\ LengthIsExact /\ FieldsFit
  BY Constants DEF Init, TypeOK, LengthIsExact, FieldsFit
<1>2. Owed = 0 /\ Bound = 0
  BY Constants DEF Init, Owed, Bound
<1> QED
  BY <1>1, <1>2 DEF Init, IInv

LEMMA OpenBatchInv == IInv /\ OpenBatch => IInv'
<1> SUFFICES ASSUME IInv, OpenBatch PROVE IInv'
  OBVIOUS
<1> DEFINE o == openJsonObj(Buffer, "NULL")
           b == openJsonArray(o, OrdersName)
<1>1. Grows(Buffer, o, 2)
  BY Sizes, OpenObjExact
<1>2. Grows(o, b, OrdersName + 4)
  BY <1>1, Constants, OpenArrayExact DEF Grows
<1>3. Grows(Buffer, b, OrdersName + 6)
  <2>1. Grows(Buffer, b, 2 + (OrdersName + 4))
    BY <1>1, <1>2, Sizes, Constants, GrowsTrans
  <2>2. 2 + (OrdersName + 4) = OrdersName + 6
    BY Constants
  <2> QED
    BY <2>1, <2>2
<1>4. /\ text' \in Seq(Byte) /\ jsonLen' = Len(text') /\ jsonLen' \in Nat
      /\ Len(text') <= Len(text) + (OrdersName + 6)
      /\ pc' \in {"keys", "overrun"}
  BY <1>3, Constants, WriteEffect DEF OpenBatch
<1>5. /\ listing' \in Seq(Seq(Entry)) /\ Len(listing') = Len(listing) + 1
      /\ listing' # <<>>
  BY DEF OpenBatch, IInv, TypeOK
<1>6. UNCHANGED <<fields, keys>> /\ pc = "scan"
  BY DEF OpenBatch
<1>7. Bound' = Bound + BatchBytes
  BY <1>5, <1>6, Sizes, Constants DEF Bound
<1>8. Owed' <= 2 /\ Owed = 0 /\ Owed' \in Nat
  BY <1>4, <1>6 DEF Owed
<1>9. Len(text') + Owed' <= Bound'
  <2>1. Len(text) <= Bound /\ Len(text) \in Nat /\ Bound \in Nat
    BY <1>8, Sizes DEF IInv
  <2>2. Len(text') \in Nat /\ BatchBytes = OrdersName + 8
    BY <1>4 DEF BatchBytes
  <2> QED
    BY <1>4, <1>7, <1>8, <2>1, <2>2, Constants
<1> QED
  BY <1>4, <1>5, <1>6, <1>9 DEF IInv, TypeOK, LengthIsExact, FieldsFit

LEMMA Monotone ==
    ASSUME NEW a \in Nat, NEW b \in Nat, NEW c \in Nat, b <= c
    PROVE  a * b <= a * c
<1>1. PICK d \in Nat : c = b + d
  <2>1. c - b \in Nat /\ c = b + (c - b)
    OBVIOUS
  <2> QED
    BY <2>1
<1>2. a * c = a * b + a * d /\ a * b \in Nat /\ a * d \in Nat
  BY <1>1
<1> QED
  BY <1>2

LEMMA Successor ==
    ASSUME NEW a \in Nat, NEW b \in Nat
    PROVE  a * (b + 1) = a * b + a /\ a * b \in Nat
OBVIOUS

(* The sums an entry and a field are accounted with.                       *)
LEMMA EntrySum ==
    ASSUME NEW x \in Nat, NEW y \in Nat, NEW owed \in Nat, NEW bound \in Nat,
           NEW id \in Nat, NEW n \in Nat, NEW max \in Nat, NEW m \in Nat,
           y <= x + (id + n + 7), n <= max, owed <= m + 3, x + 2 <= bound
    PROVE  y + owed <= bound + (id + max + 8 + m)
OBVIOUS

LEMMA FieldSum ==
    ASSUME NEW x \in Nat, NEW y \in Nat, NEW owed \in Nat, NEW bound \in Nat,
           NEW f \in Nat, NEW p \in Nat, NEW q \in Nat,
           x + p + 3 <= bound, y <= x + f, p = q + f, owed \in {0, q + 3}
    PROVE  y + owed <= bound
OBVIOUS

LEMMA OpenEntryInv == IInv /\ OpenEntry => IInv'
<1> SUFFICES ASSUME IInv, OpenEntry PROVE IInv'
  OBVIOUS
<1> PICK n \in DOMAIN Replies : \E r \in Replies[n] :
      /\ Write(appendJsonElementStr(openJsonObj(Buffer, "NULL"), IdName, n), "fields")
      /\ fields' = r
      /\ listing' = [listing EXCEPT ![Len(listing)] = Append(@, [id |-> n, fields |-> r])]
  BY DEF OpenEntry
<1> PICK r \in Replies[n] :
      /\ Write(appendJsonElementStr(openJsonObj(Buffer, "NULL"), IdName, n), "fields")
      /\ fields' = r
      /\ listing' = [listing EXCEPT ![Len(listing)] = Append(@, [id |-> n, fields |-> r])]
  OBVIOUS
<1>0. pc = "keys" /\ keys' = keys + 1
  BY DEF OpenEntry
<1>1. n \in Nat /\ n <= IdMax /\ r \in Seq(Field) /\ Len(r) <= FieldsMax
      /\ \A i \in DOMAIN r : FieldBytes(r[i]) <= FieldMax
  BY BuilderAssumption
<1> DEFINE o == openJsonObj(Buffer, "NULL")
           b == appendJsonElementStr(o, IdName, n)
<1>2. Grows(Buffer, o, 2)
  BY Sizes, OpenObjExact
<1>3. Grows(o, b, IdName + n + 5)
  <2>1. Exact(o) /\ Comma(o) = o
    BY <1>2, Sizes, OpenObjExact DEF Grows
  <2> HIDE DEF o
  <2>2. IdName \in Nat /\ n \in Nat
    BY <1>1, Constants
  <2> QED
    BY <2>1, <2>2, AppendExact
<1>4. Grows(Buffer, b, IdName + n + 7)
  <2>1. Grows(Buffer, b, 2 + (IdName + n + 5))
    <3>1. IdName + n + 5 \in Nat /\ Exact(Buffer)
      <4>1. n \in Nat /\ IdName \in Nat /\ Exact(Buffer)
        BY <1>1, Sizes, Constants
      <4> QED
        BY <4>1
    <3> QED
      BY <1>2, <1>3, <3>1, GrowsTrans
  <2>2. 2 + (IdName + n + 5) = IdName + n + 7
    BY <1>1, Constants
  <2> QED
    BY <2>1, <2>2
<1>5. /\ text' \in Seq(Byte) /\ jsonLen' = Len(text') /\ jsonLen' \in Nat
      /\ Len(text') <= Len(text) + (IdName + n + 7)
      /\ pc' \in {"fields", "overrun"}
  BY <1>1, <1>4, Constants, WriteEffect
<1>6. listing' \in Seq(Seq(Entry)) /\ Len(listing') = Len(listing) /\ listing' # <<>>
  <2>1. listing \in Seq(Seq(Entry)) /\ listing # <<>>
    BY <1>0 DEF IInv, TypeOK
  <2>2. Len(listing) \in 1..Len(listing)
    BY <2>1
  <2>3. [id |-> n, fields |-> r] \in Entry
    BY <1>1 DEF Entry
  <2>4. Append(listing[Len(listing)], [id |-> n, fields |-> r]) \in Seq(Entry)
    BY <2>1, <2>2, <2>3
  <2>5. listing' = [listing EXCEPT ![Len(listing)] =
                       Append(listing[Len(listing)], [id |-> n, fields |-> r])]
    OBVIOUS
  <2> QED
    BY <2>1, <2>2, <2>4, <2>5, ExceptSeq
<1>7. Bound' = Bound + EntryMax
  <2>1. EntryMax * (keys + 1) = EntryMax * keys + EntryMax
    <3>1. EntryMax \in Nat /\ keys \in Nat
      BY Sizes, Constants
    <3> QED
      BY <3>1, Successor
  <2>2. Bound' = BatchBytes * Len(listing) + EntryMax * (keys + 1)
    BY <1>0, <1>6 DEF Bound, BatchBytes, EntryMax
  <2> QED
    BY <2>1, <2>2, Sizes, Constants DEF Bound
<1>8. Owed = 2 /\ Owed' <= FieldMax * FieldsMax + 3 /\ Owed' \in Nat
  <2>1. Len(r) \in Nat /\ FieldMax * Len(r) \in Nat
    BY <1>1, Constants
  <2>2. FieldMax * Len(r) <= FieldMax * FieldsMax
    BY <1>1, <2>1, Constants, Monotone
  <2>3. Owed' \in {0, FieldMax * Len(r) + 3}
    BY <1>5 DEF Owed
  <2>4. Owed = 2
    BY <1>0 DEF Owed
  <2> DEFINE L == FieldMax * Len(r)
             M == FieldMax * FieldsMax
  <2>5. L \in Nat /\ M \in Nat /\ L <= M /\ Owed' \in {0, L + 3}
    BY <2>1, <2>2, <2>3, Constants
  <2> HIDE DEF L, M
  <2>6. Owed' <= M + 3 /\ Owed' \in Nat
    BY <2>5
  <2> QED
    BY <2>4, <2>6 DEF M
<1>9. Len(text') + Owed' <= Bound'
  <2>1. Len(text) + 2 <= Bound /\ Len(text) \in Nat /\ Bound \in Nat
    BY <1>8, Sizes DEF IInv
  <2>2. EntryMax = IdName + IdMax + 8 + FieldMax * FieldsMax
    BY DEF EntryMax
  <2>3. Len(text') \in Nat
    BY <1>5
  <2> QED
    <3> DEFINE m == FieldMax * FieldsMax
    <3>1. m \in Nat /\ EntryMax = IdName + IdMax + 8 + m
      BY <2>2, Constants
    <3>2. Owed' <= m + 3 /\ Owed' \in Nat
      BY <1>8
    <3>3. n \in Nat /\ n <= IdMax /\ IdMax \in Nat /\ IdName \in Nat
      BY <1>1, Constants
    <3>4. Len(text') <= Len(text) + (IdName + n + 7)
      BY <1>5
    <3> HIDE DEF m
    <3>5. Len(text') + Owed' <= Bound + (IdName + IdMax + 8 + m)
      BY <2>1, <2>3, <3>1, <3>2, <3>3, <3>4, EntrySum
    <3> QED
      BY <1>7, <3>1, <3>5
<1> QED
  BY <1>0, <1>1, <1>5, <1>6, <1>9 DEF IInv, TypeOK, LengthIsExact, FieldsFit

LEMMA AppendFieldInv == IInv /\ AppendField => IInv'
<1> SUFFICES ASSUME IInv, AppendField PROVE IInv'
  OBVIOUS
<1> DEFINE f == Head(fields)
           b == appendJsonElementStr(Buffer, f.name, f.value)
<1>0. pc = "fields" /\ fields # <<>> /\ fields' = Tail(fields)
      /\ UNCHANGED <<listing, keys>>
  BY DEF AppendField
<1>1. fields \in Seq(Field) /\ f \in Field /\ f.name \in Nat /\ f.value \in Nat
      /\ f = fields[1] /\ 1 \in DOMAIN fields
  <2>1. fields \in Seq(Field) /\ Len(fields) \in Nat /\ Len(fields) # 0
    BY <1>0 DEF IInv, TypeOK
  <2>2. f = fields[1] /\ 1 \in DOMAIN fields /\ f \in Field
    BY <2>1
  <2> QED
    BY <2>1, <2>2 DEF Field
<1>2. Grows(Buffer, b, f.name + f.value + 6)
  BY <1>1, Sizes, AppendExact
<1>3. f.name + f.value + 6 <= FieldMax
  BY <1>1 DEF IInv, FieldsFit, FieldBytes
<1>4. /\ text' \in Seq(Byte) /\ jsonLen' = Len(text') /\ jsonLen' \in Nat
      /\ Len(text') <= Len(text) + (f.name + f.value + 6)
      /\ pc' \in {"fields", "overrun"}
  BY <1>1, <1>2, WriteEffect DEF AppendField
<1>5. /\ fields' \in Seq(Field) /\ Len(fields') = Len(fields) - 1
      /\ \A i \in DOMAIN fields' : fields'[i] = fields[i + 1] /\ i + 1 \in DOMAIN fields
  BY <1>0, <1>1
<1>6. FieldsFit'
  <2>1. \A i \in DOMAIN fields : FieldBytes(fields[i]) <= FieldMax
    BY DEF IInv, FieldsFit
  <2>2. \A i \in DOMAIN fields' : FieldBytes(fields'[i]) <= FieldMax
    BY <1>5, <2>1
  <2>3. Len(fields') <= FieldsMax
    <3>1. Len(fields) <= FieldsMax /\ Len(fields) \in Nat
      BY Sizes DEF IInv, FieldsFit
    <3> QED
      BY <1>5, <3>1, Constants
  <2> QED
    BY <2>2, <2>3 DEF FieldsFit, FieldBytes
<1>7. /\ FieldMax * Len(fields) = FieldMax * Len(fields') + FieldMax
      /\ FieldMax * Len(fields') \in Nat
  <2>1. FieldMax \in Nat /\ Len(fields') \in Nat /\ Len(fields) \in Nat
    BY <1>5, Sizes, Constants
  <2>2. Len(fields) = Len(fields') + 1
    BY <1>5, <2>1
  <2> QED
    BY <2>1, <2>2, Successor
<1>8. Owed = FieldMax * Len(fields) + 3 /\ Owed' \in {0, FieldMax * Len(fields') + 3}
  BY <1>0, <1>4 DEF Owed
<1>10. Bound' = Bound
  BY <1>0 DEF Bound
<1>11. Len(text') + Owed' <= Bound'
  <2>1. /\ Len(text) + FieldMax * Len(fields) + 3 <= Bound
        /\ Len(text) \in Nat /\ Bound \in Nat /\ FieldMax * Len(fields) \in Nat
    BY <1>8, Sizes DEF IInv
  <2>2. Len(text') \in Nat /\ Len(text') <= Len(text) + FieldMax
    BY <1>1, <1>3, <1>4, <2>1, Constants
  <2>3. Owed' \in Nat /\ FieldMax \in Nat
    BY <1>7, <1>8, Constants
  <2> DEFINE m == FieldMax * Len(fields)
             q == FieldMax * Len(fields')
  <2>4. /\ m \in Nat /\ q \in Nat /\ m = q + FieldMax
        /\ Owed' \in {0, q + 3} /\ Len(text) + m + 3 <= Bound
    BY <1>7, <1>8, <2>1
  <2> HIDE DEF m, q
  <2>5. Len(text') + Owed' <= Bound
    BY <2>1, <2>2, <2>3, <2>4, FieldSum
  <2> QED
    BY <1>10, <2>5
<1> QED
  BY <1>0, <1>4, <1>5, <1>6, <1>11 DEF IInv, TypeOK, LengthIsExact

LEMMA CloseEntryInv == IInv /\ CloseEntry => IInv'
<1> SUFFICES ASSUME IInv, CloseEntry PROVE IInv'
  OBVIOUS
<1>0. pc = "fields" /\ fields = <<>> /\ UNCHANGED <<fields, listing, keys>>
  BY DEF CloseEntry
<1>1. Grows(Buffer, closeJsonObj(Buffer), 1)
  BY Sizes, CloseExact
<1>2. /\ text' \in Seq(Byte) /\ jsonLen' = Len(text') /\ jsonLen' \in Nat
      /\ Len(text') <= Len(text) + 1
      /\ pc' \in {"keys", "overrun"}
  BY <1>1, WriteEffect DEF CloseEntry
<1>3. Owed = 3 /\ Owed' \in {0, 2}
  BY <1>0, <1>2, Constants DEF Owed
<1>4. Bound' = Bound
  BY <1>0 DEF Bound
<1>5. Len(text') + Owed' <= Bound'
  <2>1. Len(text) \in Nat /\ Len(text') \in Nat /\ Bound \in Nat
    BY <1>2, Sizes
  <2>2. Len(text) + Owed <= Bound
    BY DEF IInv
  <2> QED
    BY <1>2, <1>3, <1>4, <2>1, <2>2
<1> QED
  BY <1>0, <1>2, <1>5 DEF IInv, TypeOK, LengthIsExact, FieldsFit

LEMMA CloseBatchInv == IInv /\ CloseBatch => IInv'
<1> SUFFICES ASSUME IInv, CloseBatch PROVE IInv'
  OBVIOUS
<1>0. pc = "keys" /\ UNCHANGED <<fields, listing, keys>>
  BY DEF CloseBatch
<1> DEFINE a == closeJsonArray(Buffer)
<1>1. Grows(Buffer, a, 1) /\ Grows(a, closeJsonObj(a), 1)
  BY Sizes, CloseExact DEF Grows
<1>2. Grows(Buffer, closeJsonObj(a), 2)
  <2>1. Grows(Buffer, closeJsonObj(a), 1 + 1)
    BY <1>1, Sizes, GrowsTrans
  <2> QED
    BY <2>1
<1>3. /\ text' \in Seq(Byte) /\ jsonLen' = Len(text') /\ jsonLen' \in Nat
      /\ Len(text') <= Len(text) + 2
      /\ pc' \in {"scan", "overrun"}
  BY <1>2, WriteEffect DEF CloseBatch
<1>4. Owed = 2 /\ Owed' = 0
  BY <1>0, <1>3 DEF Owed
<1>5. Bound' = Bound
  BY <1>0 DEF Bound
<1>6. Len(text') + Owed' <= Bound'
  BY <1>3, <1>4, <1>5, Sizes DEF IInv
<1> QED
  BY <1>0, <1>3, <1>6 DEF IInv, TypeOK, LengthIsExact, FieldsFit

LEMMA StepInv == IInv /\ [Next]_vars => IInv'
<1> SUFFICES ASSUME IInv, [Next]_vars PROVE IInv'
  OBVIOUS
<1>1. CASE Begin
  <2>1. TypeOK' /\ LengthIsExact' /\ FieldsFit'
    BY <1>1 DEF Begin, IInv, TypeOK, LengthIsExact, FieldsFit
  <2>2. Owed' = 0 /\ Bound' = 0
    BY <1>1, Constants DEF Begin, Owed, Bound
  <2> QED
    BY <1>1, <2>1, <2>2 DEF Begin, IInv
<1>2. CASE Finish
  <2>1. Owed' = Owed /\ Bound' = Bound
    BY <1>2 DEF Finish, Owed, Bound
  <2> QED
    BY <1>2, <2>1 DEF Finish, IInv, TypeOK, LengthIsExact, FieldsFit
<1>3. CASE UNCHANGED vars
  BY <1>3 DEF vars, IInv, TypeOK, LengthIsExact, FieldsFit, Owed, Bound
<1> QED
  BY <1>1, <1>2, <1>3, OpenBatchInv, OpenEntryInv, AppendFieldInv,
     CloseEntryInv, CloseBatchInv DEF Next

LEMMA Invariant == Spec => []IInv
BY InitInv, StepInv, PTL DEF Spec

(* The variables of the builder keep their types.                          *)
THEOREM TypeCorrect == Spec => []TypeOK
<1>1. IInv => TypeOK
  BY DEF IInv
<1> QED
  BY <1>1, Invariant, PTL

(* Whatever is appended, in whatever order the handlers append it, jsonLen *)
(* is the length of the text.                                              *)
THEOREM LengthAddsUp == Spec => []LengthIsExact
<1>1. IInv => LengthIsExact
  BY DEF IInv
<1> QED
  BY <1>1, Invariant, PTL

(* The buffer ends where the text does not fit.                            *)
OverrunIsLong == pc = "overrun" => Len(text) >= Capacity

LEMMA OverrunStep ==
    ASSUME IInv, OverrunIsLong, [Next]_vars
    PROVE  OverrunIsLong'
<1> SUFFICES ASSUME pc' = "overrun" PROVE Len(text)' >= Capacity
  BY DEF OverrunIsLong
<1>1. Len(text)' \in Nat
  BY StepInv DEF IInv, TypeOK
<1>2. ASSUME NEW b, NEW next \in {"scan", "keys", "fields"}, Write(b, next)
      PROVE  Len(text)' >= Capacity
  BY <1>1, <1>2, BuilderAssumption DEF Write
<1>3. CASE UNCHANGED vars
  BY <1>3 DEF vars, OverrunIsLong
<1>4. CASE Begin \/ Finish
  BY <1>4 DEF Begin, Finish
<1>5. CASE OpenBatch
  BY <1>2, <1>5 DEF OpenBatch
<1>6. CASE OpenEntry
  BY <1>2, <1>6 DEF OpenEntry
<1>7. CASE AppendField
  BY <1>2, <1>7 DEF AppendField
<1>8. CASE CloseEntry \/ CloseBatch
  BY <1>2, <1>8 DEF CloseEntry, CloseBatch
<1> QED
  BY <1>3, <1>4, <1>5, <1>6, <1>7, <1>8 DEF Next

(* A listing of b batches and k keys fits the buffer when BatchBytes * b + *)
(* EntryMax * k is less than its size, whatever fields the keys have.      *)
THEOREM SmallListingsFit == Spec => []SmallListingFits
<1>1. Init => OverrunIsLong
  BY DEF Init, OverrunIsLong
<1>2. IInv /\ OverrunIsLong => SmallListingFits
  <2> SUFFICES ASSUME IInv, OverrunIsLong, pc = "overrun"
               PROVE  ~(Bound < Capacity)
    BY DEF SmallListingFits, Bound
  <2>1. Owed = 0
    BY DEF Owed
  <2> QED
    BY <2>1, Sizes, BuilderAssumption DEF IInv, OverrunIsLong, Bound
<1>3. IInv /\ OverrunIsLong /\ [Next]_vars => OverrunIsLong'
  BY OverrunStep
<1> QED
  BY <1>1, <1>2, <1>3, Invariant, PTL DEF Spec

-----------------------------------------------------------------------------
(* Induction as a least counterexample.                                    *)

LEMMA LeastOf ==
    ASSUME NEW R, IsWellFoundedOn(R, Nat),
           \A x, y \in Nat : y < x => <<y, x>> \in R,
           NEW S \in SUBSET Nat, S # {}
    PROVE  \E x \in S : \A y \in S : x <= y
<1>1. PICK x \in S : \A y \in S : <<y, x>> \notin R
  BY WFMin
<1>2. \A y \in S : x <= y
  <2> SUFFICES ASSUME NEW y \in S PROVE x <= y
    OBVIOUS
  <2>1. x \in Nat /\ y \in Nat /\ <<y, x>> \notin R
    BY <1>1
  <2> QED
    BY <2>1
<1> QED
  BY <1>2

LEMMA LeastExists ==
    ASSUME NEW S \in SUBSET Nat, S # {}
    PROVE  \E x \in S : \A y \in S : x <= y
<1> DEFINE R == OpToRel(<, Nat)
<1>1. IsWellFoundedOn(R, Nat)
  BY NatLessThanWellFounded
<1>2. \A x, y \in Nat : y < x => <<y, x>> \in R
  BY DEF OpToRel
<1> HIDE DEF R
<1> QED
  BY <1>1, <1>2, LeastOf

-----------------------------------------------------------------------------
(* Separated: what the recursive function in it returns, which is there    *)
(* for every sequence of parts.                                            *)

(* f joins the first parts up to the n-th.                                 *)
Joins(f, parts, n) ==
    f = [i \in 0..n |->
            CASE i = 0 -> <<>>
              [] i = 1 -> parts[1]
              [] OTHER -> f[i - 1] \o <<"comma">> \o parts[i]]

LEMMA JoinsValue ==
    ASSUME NEW parts, NEW n \in Nat, NEW f, Joins(f, parts, n)
    PROVE  /\ DOMAIN f = 0..n
           /\ f[0] = <<>>
           /\ n >= 1 => f[1] = parts[1]
           /\ \A i \in 2..n : f[i] = f[i - 1] \o <<"comma">> \o parts[i]
<1>1. /\ DOMAIN f = 0..n
      /\ \A i \in 0..n : f[i] = CASE i = 0 -> <<>>
                                  [] i = 1 -> parts[1]
                                  [] OTHER -> f[i - 1] \o <<"comma">> \o parts[i]
  BY DEF Joins
<1>2. f[0] = <<>> /\ (n >= 1 => f[1] = parts[1])
  BY <1>1
<1>3. ASSUME NEW i \in 2..n
      PROVE  f[i] = f[i - 1] \o <<"comma">> \o parts[i]
  <2>1. i \in 0..n /\ i # 0 /\ i # 1
    OBVIOUS
  <2> QED
    BY <1>1, <2>1
<1> QED
  BY <1>1, <1>2, <1>3

LEMMA JoinsNone ==
    ASSUME NEW parts, NEW n \in Nat, NEW f, Joins(f, parts, n)
    PROVE  f[0] = <<>>
BY JoinsValue

LEMMA JoinsFirst ==
    ASSUME NEW parts, NEW n \in Nat, n >= 1, NEW f, Joins(f, parts, n)
    PROVE  f[1] = parts[1]
<1>1. 1 \in 0..n /\ 1 # 0
  OBVIOUS
<1> QED
  BY <1>1 DEF Joins

LEMMA JoinsNext ==
    ASSUME NEW parts, NEW n \in Nat, NEW f, Joins(f, parts, n), NEW i \in 2..n
    PROVE  f[i] = f[i - 1] \o <<"comma">> \o parts[i]
<1>1. \A k \in 2..n : f[k] = f[k - 1] \o <<"comma">> \o parts[k]
  BY JoinsValue
<1> QED
  BY <1>1

(* Every beginning of the parts can be joined: one more part extends the   *)
(* function that joins those before it.                                    *)
LEMMA JoinsOneMore ==
    ASSUME NEW parts, NEW n \in Nat, NEW f, Joins(f, parts, n)
    PROVE  \E g : Joins(g, parts, n + 1)
<1> DEFINE g == [i \in 0..(n + 1) |->
                   CASE i = 0 -> <<>>
                     [] i = 1 -> parts[1]
                     [] OTHER -> f[i - 1] \o <<"comma">> \o parts[i]]
<1>1. DOMAIN g = 0..(n + 1)
  OBVIOUS
<1>2. \A i \in 0..n : g[i] = f[i]
  <2> SUFFICES ASSUME NEW i \in 0..n PROVE g[i] = f[i]
    OBVIOUS
  <2>1. i \in 0..(n + 1)
    OBVIOUS
  <2>2. g[i] = CASE i = 0 -> <<>>
                 [] i = 1 -> parts[1]
                 [] OTHER -> f[i - 1] \o <<"comma">> \o parts[i]
    BY <2>1
  <2> HIDE DEF g
  <2> QED
    BY <2>2 DEF Joins
<1>3. ASSUME NEW i \in 0..(n + 1), i # 0, i # 1
      PROVE  g[i] = g[i - 1] \o <<"comma">> \o parts[i]
  <2>1. i - 1 \in 0..n
    BY <1>3
  <2>2. g[i] = f[i - 1] \o <<"comma">> \o parts[i]
    BY <1>3
  <2> HIDE DEF g
  <2> QED
    BY <1>2, <2>1, <2>2
<1>4. g[0] = <<>> /\ g[1] = parts[1]
  OBVIOUS
<1>5. Joins(g, parts, n + 1)
  <2> DEFINE h == [i \in 0..(n + 1) |->
                     CASE i = 0 -> <<>>
                       [] i = 1 -> parts[1]
                       [] OTHER -> g[i - 1] \o <<"comma">> \o parts[i]]
  <2>1. ASSUME NEW i \in 0..(n + 1) PROVE g[i] = h[i]
    <3> HIDE DEF g
    <3>1. CASE i = 0
      BY <1>4, <3>1
    <3>2. CASE i = 1
      BY <1>4, <3>2
    <3>3. CASE i # 0 /\ i # 1
      BY <1>3, <3>3
    <3> QED
      BY <3>1, <3>2, <3>3
  <2>2. g = h
    BY <2>1
  <2> HIDE DEF g
  <2> QED
    BY <2>2 DEF Joins
<1> QED
  BY <1>5

LEMMA JoinsExists ==
    ASSUME NEW parts, NEW n \in Nat
    PROVE  \E f : Joins(f, parts, n)
<1> DEFINE S == {k \in Nat : ~\E f : Joins(f, parts, k)}
<1>1. SUFFICES ASSUME S # {} PROVE FALSE
  OBVIOUS
<1>2. PICK k \in S : \A j \in S : k <= j
  BY <1>1, LeastExists
<1>3. k # 0
  <2>1. Joins([i \in 0..0 |-> <<>>], parts, 0)
    BY DEF Joins
  <2> QED
    BY <2>1
<1>4. k - 1 \in Nat /\ (k - 1) + 1 = k /\ ~(k <= k - 1)
  BY <1>3
<1>5. PICK f : Joins(f, parts, k - 1)
  BY <1>2, <1>4
<1> QED
  BY <1>4, <1>5, JoinsOneMore

LEMMA JoinsAgree ==
    ASSUME NEW ps, NEW qs, NEW m \in Nat, NEW n \in Nat, m <= n,
           NEW f, NEW g, Joins(f, ps, m), Joins(g, qs, n),
           \A i \in 1..m : ps[i] = qs[i]
    PROVE  \A i \in 0..m : f[i] = g[i]
<1> DEFINE S == {k \in 0..m : f[k] # g[k]}
<1>1. SUFFICES ASSUME S # {} PROVE FALSE
  OBVIOUS
<1>2. S \in SUBSET Nat
  OBVIOUS
<1>3. PICK k \in S : \A j \in S : k <= j
  BY <1>1, <1>2, LeastExists
<1>4. k \in 0..m /\ f[k] # g[k] /\ k \in Nat /\ (k - 1 \in 0..m => f[k - 1] = g[k - 1])
  BY <1>3
<1> HIDE DEF S
<1>5. k # 0
  <2>1. f[0] = <<>>
    BY JoinsNone
  <2>2. g[0] = <<>>
    BY JoinsNone
  <2> QED
    BY <1>4, <2>1, <2>2
<1>6. k # 1
  <2> SUFFICES ASSUME k = 1 PROVE FALSE
    OBVIOUS
  <2>1. m >= 1 /\ n >= 1 /\ 1 \in 1..m
    BY <1>4
  <2>2. f[1] = ps[1]
    BY <2>1, JoinsFirst
  <2>3. g[1] = qs[1]
    BY <2>1, JoinsFirst
  <2> QED
    BY <1>4, <2>1, <2>2, <2>3
<1>7. k \in 2..m /\ k \in 2..n /\ k \in 1..m /\ k - 1 \in 0..m
  BY <1>4, <1>5, <1>6
<1>8. f[k] = f[k - 1] \o <<"comma">> \o ps[k]
  BY <1>7, JoinsNext
<1>9. g[k] = g[k - 1] \o <<"comma">> \o qs[k]
  BY <1>7, JoinsNext
<1> QED
  BY <1>4, <1>7, <1>8, <1>9

LEMMA SeparatedIs ==
    ASSUME NEW parts, Len(parts) \in Nat
    PROVE  \E f : Joins(f, parts, Len(parts)) /\ Separated(parts) = f[Len(parts)]
<1> DEFINE g == CHOOSE f : Joins(f, parts, Len(parts))
<1>1. Joins(g, parts, Len(parts))
  BY JoinsExists
<1>2. Separated(parts) = g[Len(parts)]
  BY DEF Separated, Joins
<1> QED
  BY <1>1, <1>2

Bytes == Seq(Byte)

(* The parts before one more, and the comma between them.                  *)
Before(parts) ==
    IF Len(parts) = 0 THEN <<>> ELSE Separated(parts) \o <<"comma">>

LEMMA SeparatedEmpty ==
    ASSUME NEW parts, Len(parts) = 0
    PROVE  Separated(parts) = <<>>
<1>1. PICK f : Joins(f, parts, 0) /\ Separated(parts) = f[0]
  BY SeparatedIs
<1>2. f[0] = <<>>
  BY <1>1, JoinsNone
<1> QED
  BY <1>1, <1>2

LEMMA OneByte ==
    ASSUME NEW x \in Byte
    PROVE  <<x>> \in Bytes /\ Len(<<x>>) = 1
BY DEF Bytes

LEMMA BytesConcat ==
    ASSUME NEW s \in Bytes, NEW t \in Bytes
    PROVE  s \o t \in Bytes
BY ConcatProperties DEF Bytes

LEMMA Assoc ==
    ASSUME NEW s \in Bytes, NEW t \in Bytes, NEW u \in Bytes
    PROVE  (s \o t) \o u = s \o (t \o u)
BY ConcatAssociative DEF Bytes

LEMMA CommaBytes == <<"comma">> \in Bytes
BY OneByte DEF Byte

LEMMA SeparatedType ==
    ASSUME NEW ps \in Seq(Bytes)
    PROVE  Separated(ps) \in Bytes
<1> DEFINE n == Len(ps)
<1>1. n \in Nat /\ \A i \in 1..n : ps[i] \in Bytes
  OBVIOUS
<1>2. PICK f : Joins(f, ps, n) /\ Separated(ps) = f[n]
  BY SeparatedIs
<1> HIDE DEF n
<1> DEFINE S == {k \in 0..n : f[k] \notin Bytes}
<1>3. S = {}
  <2> SUFFICES ASSUME S # {} PROVE FALSE
    OBVIOUS
  <2>1. S \in SUBSET Nat
    OBVIOUS
  <2>2. PICK k \in S : \A j \in S : k <= j
    BY <2>1, LeastExists
  <2>3. /\ k \in 0..n /\ f[k] \notin Bytes
        /\ k - 1 \in 0..n => f[k - 1] \in Bytes
    BY <1>1, <2>2
  <2> HIDE DEF S
  <2>4. k # 0
    <3>1. f[0] = <<>>
      BY <1>1, <1>2, JoinsNone
    <3>2. <<>> \in Bytes
      BY DEF Bytes
    <3> QED
      BY <2>3, <3>1, <3>2
  <2>5. k # 1
    BY <1>1, <1>2, <2>3, JoinsFirst
  <2>6. k \in 2..n /\ k - 1 \in 0..n /\ k \in 1..n
    BY <1>1, <2>3, <2>4, <2>5
  <2>7. f[k] = f[k - 1] \o <<"comma">> \o ps[k]
    BY <1>1, <1>2, <2>6, JoinsNext
  <2>8. f[k - 1] \in Bytes /\ ps[k] \in Bytes
    BY <1>1, <2>3, <2>6
  <2> QED
    BY <2>3, <2>7, <2>8, BytesConcat, CommaBytes
<1>4. n \in 0..n
  BY <1>1
<1> QED
  BY <1>2, <1>3, <1>4

LEMMA BeforeType ==
    ASSUME NEW ps \in Seq(Bytes)
    PROVE  Before(ps) \in Bytes
<1>1. <<>> \in Bytes
  BY DEF Bytes
<1> QED
  BY <1>1, SeparatedType, BytesConcat, CommaBytes DEF Before

(* One part more: what was before it, and the part.                        *)
LEMMA SeparatedOneMore ==
    ASSUME NEW ps \in Seq(Bytes), NEW p \in Bytes
    PROVE  Separated(Append(ps, p)) = Before(ps) \o p
<1> DEFINE n == Len(ps)
           qs == Append(ps, p)
<1>1. /\ n \in Nat /\ Len(qs) = n + 1 /\ qs[n + 1] = p
      /\ \A i \in 1..n : ps[i] = qs[i]
  OBVIOUS
<1>2. PICK f : Joins(f, ps, n) /\ Separated(ps) = f[n]
  BY SeparatedIs
<1>3. PICK g : Joins(g, qs, n + 1) /\ Separated(qs) = g[n + 1]
  <2>1. Len(qs) \in Nat
    BY <1>1
  <2> HIDE DEF qs
  <2> QED
    BY <1>1, <2>1, SeparatedIs
<1>a. Before(ps) = IF n = 0 THEN <<>> ELSE f[n] \o <<"comma">>
  BY <1>2 DEF Before
<1> HIDE DEF n, qs
<1>4. CASE n = 0
  <2>1. g[1] = qs[1]
    BY <1>3, <1>4, JoinsFirst
  <2>2. <<>> \o p = p
    BY ConcatEmptySeq DEF Bytes
  <2> QED
    BY <1>1, <1>3, <1>4, <1>a, <2>1, <2>2 DEF qs
<1>5. CASE n # 0
  <2>1. n + 1 \in Nat /\ n <= n + 1 /\ n \in 0..n /\ n + 1 \in 2..(n + 1)
    BY <1>1, <1>5
  <2>2. f[n] = g[n]
    BY <1>1, <1>2, <1>3, <2>1, JoinsAgree
  <2>3. g[n + 1] = g[(n + 1) - 1] \o <<"comma">> \o qs[n + 1]
    BY <1>3, <2>1, JoinsNext
  <2>4. (n + 1) - 1 = n
    BY <1>1
  <2> QED
    BY <1>1, <1>3, <1>5, <1>a, <2>2, <2>3, <2>4 DEF qs
<1> QED
  BY <1>4, <1>5

(* A comma goes before one more part when there is a part.                 *)
LEMMA BeforeIs ==
    ASSUME NEW ps \in Seq(Bytes)
    PROVE  /\ ps = <<>> => Before(ps) = <<>> /\ Separated(ps) = <<>>
           /\ ps # <<>> => Before(ps) = Separated(ps) \o <<"comma">>
<1>1. ps = <<>> <=> Len(ps) = 0
  OBVIOUS
<1> QED
  BY <1>1, SeparatedEmpty DEF Before

(* A sequence that is another and one element more.                        *)
LEMMA AppendOf ==
    ASSUME NEW S, NEW s \in Seq(S), NEW t \in Seq(S), Len(t) = Len(s) + 1,
           \A i \in 1..Len(s) : t[i] = s[i]
    PROVE  t = Append(s, t[Len(s) + 1])
<1>1. Len(s) \in Nat /\ t[Len(s) + 1] \in S
  OBVIOUS
<1> DEFINE u == Append(s, t[Len(s) + 1])
<1>2. /\ u \in Seq(S) /\ Len(u) = Len(s) + 1 /\ u[Len(s) + 1] = t[Len(s) + 1]
      /\ \A i \in 1..Len(s) : u[i] = s[i]
  BY <1>1
<1>3. \A i \in 1..Len(u) : u[i] = t[i]
  <2> SUFFICES ASSUME NEW i \in 1..Len(u) PROVE u[i] = t[i]
    OBVIOUS
  <2> HIDE DEF u
  <2>1. i \in 1..Len(s) \/ i = Len(s) + 1
    BY <1>1, <1>2
  <2> QED
    BY <1>2, <2>1
<1> HIDE DEF u
<1>4. u = t
  BY <1>2, <1>3
<1> QED
  BY <1>4 DEF u

-----------------------------------------------------------------------------
(* The printer: its parts, and what one more of them adds.                 *)

Elements(id, fs) ==
    <<Element(IdName, id)>> \o
        [i \in DOMAIN fs |-> Element(fs[i].name, fs[i].value)]

Entries(es) == [i \in DOMAIN es |-> PrintEntry(es[i])]

Batches(bs) == [i \in DOMAIN bs |-> PrintBatch(bs[i])]

LEMMA ElementType ==
    ASSUME NEW name \in Nat, NEW value \in Nat
    PROVE  Element(name, value) \in Bytes
<1>1. Quoted(name) \in Bytes /\ Quoted(value) \in Bytes
  BY QuotedType DEF Bytes
<1>2. <<"colon">> \in Bytes
  BY OneByte DEF Byte
<1> QED
  BY <1>1, <1>2, BytesConcat DEF Element

LEMMA Prepend ==
    ASSUME NEW S, NEW s \in Seq(S), NEW t \in Seq(S), Len(s) = 1
    PROVE  /\ s \o t \in Seq(S) /\ Len(s \o t) = Len(t) + 1
           /\ (s \o t)[1] = s[1]
           /\ \A i \in 1..Len(t) : (s \o t)[i + 1] = t[i]
<1>1. Len(t) \in Nat
  OBVIOUS
<1>2. /\ s \o t \in Seq(S) /\ Len(s \o t) = Len(t) + 1
      /\ \A j \in 1..(1 + Len(t)) : (s \o t)[j] = IF j <= 1 THEN s[j] ELSE t[j - 1]
  <2>1. /\ s \o t \in Seq(S) /\ Len(s \o t) = Len(s) + Len(t)
        /\ \A j \in 1..(Len(s) + Len(t)) :
              (s \o t)[j] = IF j <= Len(s) THEN s[j] ELSE t[j - Len(s)]
    BY ConcatProperties
  <2> QED
    BY <1>1, <2>1
<1>3. (s \o t)[1] = s[1]
  BY <1>1, <1>2
<1>4. ASSUME NEW i \in 1..Len(t) PROVE (s \o t)[i + 1] = t[i]
  <2>1. i + 1 \in 1..(1 + Len(t)) /\ ~(i + 1 <= 1) /\ (i + 1) - 1 = i
    BY <1>1
  <2> QED
    BY <1>2, <2>1
<1> QED
  BY <1>2, <1>3, <1>4

LEMMA ElementsType ==
    ASSUME NEW id \in Nat, NEW fs \in Seq(Field)
    PROVE  /\ Elements(id, fs) \in Seq(Bytes)
           /\ Elements(id, fs) # <<>>
           /\ Len(Elements(id, fs)) = Len(fs) + 1
           /\ Elements(id, fs)[1] = Element(IdName, id)
           /\ \A i \in 1..Len(fs) :
                 Elements(id, fs)[i + 1] = Element(fs[i].name, fs[i].value)
<1> DEFINE first == <<Element(IdName, id)>>
           rest == [i \in DOMAIN fs |-> Element(fs[i].name, fs[i].value)]
<1>1. first \in Seq(Bytes) /\ Len(first) = 1 /\ first[1] = Element(IdName, id)
  BY ElementType, Constants
<1>2. Len(fs) \in Nat /\ DOMAIN fs = 1..Len(fs)
  OBVIOUS
<1>3. \A i \in 1..Len(fs) : Element(fs[i].name, fs[i].value) \in Bytes
  <2> SUFFICES ASSUME NEW i \in 1..Len(fs)
               PROVE  Element(fs[i].name, fs[i].value) \in Bytes
    OBVIOUS
  <2>1. fs[i] \in Field
    OBVIOUS
  <2>2. fs[i].name \in Nat /\ fs[i].value \in Nat
    BY <2>1 DEF Field
  <2> QED
    BY <2>2, ElementType
<1>4. /\ rest \in Seq(Bytes) /\ Len(rest) = Len(fs)
      /\ \A i \in 1..Len(fs) : rest[i] = Element(fs[i].name, fs[i].value)
  BY <1>2, <1>3
<1>5. Elements(id, fs) = first \o rest
  BY DEF Elements
<1> HIDE DEF first, rest
<1>6. /\ first \o rest \in Seq(Bytes) /\ Len(first \o rest) = Len(fs) + 1
      /\ (first \o rest)[1] = first[1]
      /\ \A i \in 1..Len(fs) : (first \o rest)[i + 1] = rest[i]
  BY <1>1, <1>2, <1>4, Prepend
<1>7. first \o rest # <<>>
  BY <1>2, <1>6
<1> QED
  BY <1>1, <1>4, <1>5, <1>6, <1>7

LEMMA ElementsNone ==
    ASSUME NEW id \in Nat
    PROVE  Elements(id, <<>>) = Append(<<>>, Element(IdName, id))
<1>1. <<>> \in Seq(Field) /\ Len(<<>>) = 0
  OBVIOUS
<1> DEFINE a == Elements(id, <<>>)
<1>2. a \in Seq(Bytes) /\ Len(a) = Len(<<>>) + 1 /\ a[1] = Element(IdName, id)
  BY ONLY <1>1, ElementsType, id \in Nat
<1>3. a \in Seq(Bytes) /\ Len(a) = 1 /\ a[1] = Element(IdName, id)
  BY <1>1, <1>2
<1> HIDE DEF a
<1> QED
  BY <1>3 DEF a

LEMMA ElementsOneMore ==
    ASSUME NEW id \in Nat, NEW fs \in Seq(Field), NEW f \in Field
    PROVE  Elements(id, Append(fs, f)) =
              Append(Elements(id, fs), Element(f.name, f.value))
<1> DEFINE gs == Append(fs, f)
           n == Len(fs)
           a == Elements(id, fs)
           b == Elements(id, gs)
<1>1. /\ gs \in Seq(Field) /\ Len(gs) = n + 1 /\ n \in Nat /\ gs[n + 1] = f
      /\ \A i \in 1..n : gs[i] = fs[i]
  OBVIOUS
<1> HIDE DEF gs
<1>2. /\ a \in Seq(Bytes) /\ Len(a) = n + 1
      /\ a[1] = Element(IdName, id)
      /\ \A i \in 1..n : a[i + 1] = Element(fs[i].name, fs[i].value)
  BY ElementsType
<1>3. /\ b \in Seq(Bytes) /\ Len(b) = (n + 1) + 1
      /\ b[1] = Element(IdName, id)
      /\ \A i \in 1..(n + 1) : b[i + 1] = Element(gs[i].name, gs[i].value)
  <2>1. /\ b \in Seq(Bytes) /\ Len(b) = Len(gs) + 1
        /\ b[1] = Element(IdName, id)
        /\ \A i \in 1..Len(gs) : b[i + 1] = Element(gs[i].name, gs[i].value)
    BY <1>1, ElementsType
  <2> QED
    BY <1>1, <2>1
<1> HIDE DEF n, a, b
<1>4. \A i \in 1..(n + 1) : b[i] = a[i]
  <2> SUFFICES ASSUME NEW i \in 1..(n + 1), i # 1 PROVE b[i] = a[i]
    BY <1>2, <1>3
  <2>1. i - 1 \in 1..n /\ i - 1 \in 1..(n + 1) /\ (i - 1) + 1 = i
    BY <1>1
  <2>2. a[i] = Element(fs[i - 1].name, fs[i - 1].value)
    BY <1>2, <2>1
  <2>3. b[i] = Element(gs[i - 1].name, gs[i - 1].value)
    BY <1>3, <2>1
  <2> QED
    BY <1>1, <2>1, <2>2, <2>3
<1>5. b = Append(a, b[(n + 1) + 1])
  BY <1>2, <1>3, <1>4, AppendOf
<1>6. n + 1 \in 1..(n + 1)
  BY <1>1
<1>7. b[(n + 1) + 1] = Element(f.name, f.value)
  BY <1>1, <1>3, <1>6
<1> QED
  BY <1>5, <1>7 DEF a, b, gs

LEMMA BracketBytes ==
    /\ <<"lbrace">> \in Bytes /\ <<"rbrace">> \in Bytes
    /\ <<"lbracket">> \in Bytes /\ <<"rbracket">> \in Bytes
    /\ <<"colon">> \in Bytes
BY OneByte DEF Byte

LEMMA EntryType ==
    ASSUME NEW id \in Nat, NEW fs \in Seq(Field)
    PROVE  /\ PrintEntry([id |-> id, fields |-> fs]) \in Bytes
           /\ PrintEntry([id |-> id, fields |-> fs]) =
                 <<"lbrace">> \o Separated(Elements(id, fs)) \o <<"rbrace">>
<1>1. PrintEntry([id |-> id, fields |-> fs]) =
         <<"lbrace">> \o Separated(Elements(id, fs)) \o <<"rbrace">>
  BY DEF PrintEntry, Elements, Braces
<1>2. Separated(Elements(id, fs)) \in Bytes
  BY ElementsType, SeparatedType
<1>3. (<<"lbrace">> \o Separated(Elements(id, fs))) \o <<"rbrace">> \in Bytes
  <2>1. <<"lbrace">> \o Separated(Elements(id, fs)) \in Bytes
    BY <1>2, BracketBytes, BytesConcat
  <2> QED
    BY <2>1, BracketBytes, BytesConcat
<1> QED
  BY <1>1, <1>3

LEMMA EntriesType ==
    ASSUME NEW es \in Seq(Entry)
    PROVE  /\ Entries(es) \in Seq(Bytes)
           /\ Len(Entries(es)) = Len(es)
           /\ \A i \in 1..Len(es) : Entries(es)[i] = PrintEntry(es[i])
<1>1. Len(es) \in Nat /\ DOMAIN es = 1..Len(es)
  OBVIOUS
<1>2. \A i \in 1..Len(es) : PrintEntry(es[i]) \in Bytes
  <2> SUFFICES ASSUME NEW i \in 1..Len(es) PROVE PrintEntry(es[i]) \in Bytes
    OBVIOUS
  <2>1. es[i] \in Entry
    OBVIOUS
  <2>2. PICK id \in Nat, fs \in Seq(Field) : es[i] = [id |-> id, fields |-> fs]
    BY <2>1 DEF Entry
  <2> QED
    BY <2>2, EntryType
<1> QED
  BY <1>1, <1>2 DEF Entries

LEMMA EntriesOneMore ==
    ASSUME NEW es \in Seq(Entry), NEW e \in Entry
    PROVE  Entries(Append(es, e)) = Append(Entries(es), PrintEntry(e))
<1> DEFINE ds == Append(es, e)
           n == Len(es)
           a == Entries(es)
           b == Entries(ds)
<1>1. /\ ds \in Seq(Entry) /\ Len(ds) = n + 1 /\ n \in Nat /\ ds[n + 1] = e
      /\ \A i \in 1..n : ds[i] = es[i]
  OBVIOUS
<1> HIDE DEF ds
<1>2. /\ a \in Seq(Bytes) /\ Len(a) = n
      /\ \A i \in 1..n : a[i] = PrintEntry(es[i])
  BY EntriesType
<1>3. /\ b \in Seq(Bytes) /\ Len(b) = n + 1
      /\ \A i \in 1..(n + 1) : b[i] = PrintEntry(ds[i])
  BY <1>1, EntriesType
<1> HIDE DEF n, a, b
<1>4. \A i \in 1..n : b[i] = a[i] /\ i \in 1..(n + 1)
  BY <1>1, <1>2, <1>3
<1>5. b = Append(a, b[n + 1])
  BY <1>2, <1>3, <1>4, AppendOf
<1>6. n + 1 \in 1..(n + 1)
  BY <1>1
<1> QED
  BY <1>1, <1>3, <1>5, <1>6 DEF a, b, ds

(* The beginning of a batch, up to its first entry.                        *)
BatchHead == <<"lbrace">> \o (Quoted(OrdersName) \o <<"colon", "lbracket">>)

LEMMA BatchHeadType == BatchHead \in Bytes
<1>1. <<"colon", "lbracket">> \in Bytes
  BY DEF Bytes, Byte
<1>2. Quoted(OrdersName) \in Bytes
  BY QuotedType, Constants DEF Bytes
<1> QED
  BY <1>1, <1>2, BracketBytes, BytesConcat DEF BatchHead

LEMMA PrintBatchIs ==
    ASSUME NEW es \in Seq(Entry)
    PROVE  /\ PrintBatch(es) \in Bytes
           /\ PrintBatch(es) =
                 BatchHead \o ((Separated(Entries(es)) \o <<"rbracket">>) \o <<"rbrace">>)
<1> DEFINE q == Quoted(OrdersName)
           s == Separated(Entries(es))
<1>1. q \in Bytes /\ s \in Bytes
  BY QuotedType, Constants, EntriesType, SeparatedType DEF Bytes
<1>2. PrintBatch(es) =
         <<"lbrace">> \o ((q \o <<"colon">>) \o (<<"lbracket">> \o s \o <<"rbracket">>))
                      \o <<"rbrace">>
  BY DEF PrintBatch, Entries, Braces, Brackets
<1>3. BatchHead = <<"lbrace">> \o (q \o <<"colon", "lbracket">>)
  BY DEF BatchHead
<1>4. <<"colon", "lbracket">> = <<"colon">> \o <<"lbracket">>
  OBVIOUS
<1> DEFINE A == <<"lbrace">>
           C == <<"colon">>
           B == <<"lbracket">>
           D == <<"rbracket">>
           Z == <<"rbrace">>
<1>5. A \in Bytes /\ B \in Bytes /\ C \in Bytes /\ D \in Bytes /\ Z \in Bytes
  BY BracketBytes
<1>6. /\ PrintBatch(es) = (A \o ((q \o C) \o ((B \o s) \o D))) \o Z
      /\ BatchHead = A \o (q \o (C \o B))
  BY <1>2, <1>3, <1>4
<1> HIDE DEF q, s, A, B, C, D, Z
<1> DEFINE x == q \o C
           y == s \o D
           w == x \o B
<1>7. q \o (C \o B) = w
  <2>1. q \in Bytes /\ C \in Bytes /\ B \in Bytes
    BY <1>1, <1>5
  <2> QED
    BY <2>1, Assoc
<1>8. x \in Bytes /\ y \in Bytes
  BY <1>1, <1>5, BytesConcat
<1>9. (B \o s) \o D = B \o y
  <2>1. B \in Bytes /\ s \in Bytes /\ D \in Bytes
    BY <1>1, <1>5
  <2> QED
    BY <2>1, Assoc
<1>10. /\ PrintBatch(es) = (A \o (x \o (B \o y))) \o Z
       /\ BatchHead = A \o w
  BY <1>6, <1>7, <1>9
<1> HIDE DEF x, y
<1>11. x \o (B \o y) = w \o y /\ w \in Bytes
  <2>0. x \in Bytes /\ B \in Bytes /\ y \in Bytes
    BY <1>5, <1>8
  <2>1. (x \o B) \o y = x \o (B \o y)
    BY <2>0, Assoc
  <2>2. x \o B \in Bytes
    BY <1>5, <1>8, BytesConcat
  <2> QED
    BY <2>1, <2>2
<1> HIDE DEF w
<1>12. A \o (w \o y) = BatchHead \o y
  <2>0. A \in Bytes /\ w \in Bytes /\ y \in Bytes
    BY <1>5, <1>8, <1>11
  <2>1. (A \o w) \o y = A \o (w \o y)
    BY <2>0, Assoc
  <2> QED
    BY <1>10, <2>1
<1>13. (BatchHead \o y) \o Z = BatchHead \o (y \o Z)
  <2>1. BatchHead \in Bytes /\ y \in Bytes /\ Z \in Bytes
    BY <1>5, <1>8, BatchHeadType
  <2> QED
    BY <2>1, Assoc
<1>14. BatchHead \o (y \o Z) \in Bytes
  <2>1. y \o Z \in Bytes
    BY <1>5, <1>8, BytesConcat
  <2> QED
    BY <2>1, BatchHeadType, BytesConcat
<1> QED
  BY <1>10, <1>11, <1>12, <1>13, <1>14 DEF s, D, y, Z

LEMMA BatchesType ==
    ASSUME NEW bs \in Seq(Seq(Entry))
    PROVE  /\ Batches(bs) \in Seq(Bytes)
           /\ Len(Batches(bs)) = Len(bs)
           /\ \A i \in 1..Len(bs) : Batches(bs)[i] = PrintBatch(bs[i])
<1>1. Len(bs) \in Nat /\ DOMAIN bs = 1..Len(bs) /\ \A i \in 1..Len(bs) : bs[i] \in Seq(Entry)
  OBVIOUS
<1>2. \A i \in 1..Len(bs) : PrintBatch(bs[i]) \in Bytes
  BY <1>1, PrintBatchIs
<1> QED
  BY <1>1, <1>2 DEF Batches

LEMMA BatchesOneMore ==
    ASSUME NEW bs \in Seq(Seq(Entry)), NEW es \in Seq(Entry)
    PROVE  Batches(Append(bs, es)) = Append(Batches(bs), PrintBatch(es))
<1> DEFINE ds == Append(bs, es)
           n == Len(bs)
           a == Batches(bs)
           b == Batches(ds)
<1>1. /\ ds \in Seq(Seq(Entry)) /\ Len(ds) = n + 1 /\ n \in Nat /\ ds[n + 1] = es
      /\ \A i \in 1..n : ds[i] = bs[i]
  OBVIOUS
<1> HIDE DEF ds
<1>2. /\ a \in Seq(Bytes) /\ Len(a) = n
      /\ \A i \in 1..n : a[i] = PrintBatch(bs[i])
  BY BatchesType
<1>3. /\ b \in Seq(Bytes) /\ Len(b) = n + 1
      /\ \A i \in 1..(n + 1) : b[i] = PrintBatch(ds[i])
  BY <1>1, BatchesType
<1> HIDE DEF n, a, b
<1>4. \A i \in 1..n : b[i] = a[i] /\ i \in 1..(n + 1)
  BY <1>1, <1>2, <1>3
<1>5. b = Append(a, b[n + 1])
  BY <1>2, <1>3, <1>4, AppendOf
<1>6. n + 1 \in 1..(n + 1)
  BY <1>1
<1> QED
  BY <1>1, <1>3, <1>5, <1>6 DEF a, b, ds

-----------------------------------------------------------------------------
(* The text, seen as a listing printed in part.                            *)

EndsIn(t, x) == t # <<>> /\ t[Len(t)] = x

Opened(front) == Before(Batches(front)) \o BatchHead

(* The batches of front are printed, and of one more the entries es.       *)
InBatch(t, front, es) == t = Opened(front) \o Separated(Entries(es))

(* And of one entry more the id and the fields done.                       *)
InEntry(t, front, es, id, done) ==
    t = (Opened(front) \o (Before(Entries(es)) \o <<"lbrace">>))
           \o Separated(Elements(id, done))

(* What comma the next element gets is decided by the last byte, so this   *)
(* belongs to the invariant.                                               *)
Scanned ==
    /\ text = PrintListing(listing)
    /\ listing # <<>> => EndsIn(text, "rbrace")

BatchOpen ==
    \E front \in Seq(Seq(Entry)), es \in Seq(Entry) :
        /\ listing = Append(front, es)
        /\ InBatch(text, front, es)
        /\ EndsIn(text, IF es = <<>> THEN "lbracket" ELSE "rbrace")

(* The fields of the entry are those done and those to come.               *)
EntryOpen ==
    \E front \in Seq(Seq(Entry)), es \in Seq(Entry), id \in Nat, done \in Seq(Field) :
        /\ listing = Append(front, Append(es, [id |-> id, fields |-> done \o fields]))
        /\ InEntry(text, front, es, id, done)
        /\ EndsIn(text, "quote")

Printed ==
    /\ pc = "scan" => Scanned
    /\ pc = "keys" => BatchOpen
    /\ pc = "fields" => EntryOpen

LEMMA Ends ==
    ASSUME NEW s \in Bytes, NEW t \in Bytes, NEW x, EndsIn(t, x)
    PROVE  EndsIn(s \o t, x)
<1>1. /\ Len(s) \in Nat /\ Len(t) \in Nat /\ Len(t) # 0
      /\ s \in Seq(Byte) /\ t \in Seq(Byte) /\ t[Len(t)] = x
  BY DEF EndsIn, Bytes
<1>2. /\ Len(s \o t) = Len(s) + Len(t)
      /\ \A i \in 1..(Len(s) + Len(t)) :
            (s \o t)[i] = IF i <= Len(s) THEN s[i] ELSE t[i - Len(s)]
  BY <1>1, ConcatProperties
<1>3. /\ Len(s) + Len(t) \in 1..(Len(s) + Len(t)) /\ ~(Len(s) + Len(t) <= Len(s))
      /\ (Len(s) + Len(t)) - Len(s) = Len(t) /\ Len(s) + Len(t) # 0
  BY <1>1
<1>4. (s \o t)[Len(s \o t)] = x
  BY <1>1, <1>2, <1>3
<1>5. s \o t # <<>>
  BY <1>2, <1>3
<1> QED
  BY <1>4, <1>5 DEF EndsIn

LEMMA EndsInByte ==
    ASSUME NEW s \in Bytes, NEW x \in Byte
    PROVE  EndsIn(s \o <<x>>, x)
<1>1. EndsIn(<<x>>, x)
  BY DEF EndsIn
<1>2. <<x>> \in Bytes
  BY OneByte
<1> QED
  BY <1>1, <1>2, Ends

LEMMA EndsInQuote ==
    ASSUME NEW s \in Bytes, NEW name \in Nat, NEW value \in Nat
    PROVE  EndsIn(s \o Element(name, value), "quote")
<1> DEFINE a == Quoted(name) \o <<"colon">>
           b == <<"quote">> \o Chars(value)
           q == <<"quote">>
<1>1. q \in Bytes /\ Chars(value) \in Bytes /\ Quoted(name) \in Bytes /\ <<"colon">> \in Bytes
  BY OneByte, CharsType, QuotedType DEF Bytes, Byte
<1>2. a \in Bytes /\ b \in Bytes
  BY <1>1, BytesConcat
<1>3. Element(name, value) = a \o (b \o q)
  BY DEF Element, Quoted
<1>4. EndsIn(b \o q, "quote")
  BY <1>2, EndsInByte DEF Byte
<1> HIDE DEF a, b, q
<1>5. b \o q \in Bytes
  BY <1>1, <1>2, BytesConcat
<1> DEFINE c == b \o q
<1>6. c \in Bytes /\ EndsIn(c, "quote") /\ Element(name, value) = a \o c
  BY <1>3, <1>4, <1>5
<1> HIDE DEF c
<1>7. a \o c \in Bytes /\ EndsIn(a \o c, "quote")
  BY <1>2, <1>6, Ends, BytesConcat
<1> QED
  BY <1>6, <1>7, Ends

(* The comma is decided as if the code looked at the end of the text.      *)
LEMMA CommaIs ==
    ASSUME IInv
    PROVE  /\ text = <<>> => Comma(Buffer).json = text
           /\ \A x \in {"lbrace", "lbracket"} :
                 EndsIn(text, x) => Comma(Buffer).json = text
           /\ \A x \in {"rbrace", "quote"} :
                 EndsIn(text, x) => Comma(Buffer).json = text \o <<"comma">>
<1>1. /\ Buffer.json = text /\ Buffer.jsonLen = Len(text) /\ Len(text) \in Nat
      /\ text = <<>> <=> Len(text) = 0
  BY DEF IInv, TypeOK, LengthIsExact, Buffer
<1>2. text = <<>> => Comma(Buffer).json = text
  BY <1>1 DEF Comma
<1>3. ASSUME NEW x \in {"lbrace", "lbracket"}, EndsIn(text, x)
      PROVE  Comma(Buffer).json = text
  BY <1>1, <1>3 DEF Comma, EndsIn
<1>4. ASSUME NEW x \in {"rbrace", "quote"}, EndsIn(text, x)
      PROVE  Comma(Buffer).json = text \o <<"comma">>
  <2>1. Comma(Buffer) = Cat(Buffer, <<"comma">>, 1)
    BY <1>1, <1>4 DEF Comma, EndsIn
  <2> QED
    BY <1>1, <2>1 DEF Cat
<1> QED
  BY <1>2, <1>3, <1>4

(* What a batch, an entry and a field add to the text.                     *)
LEMMA Added ==
    ASSUME IInv
    PROVE  /\ openJsonArray(openJsonObj(Buffer, "NULL"), OrdersName).json =
                 (Comma(Buffer).json \o <<"lbrace">>)
                    \o (Quoted(OrdersName) \o <<"colon", "lbracket">>)
           /\ \A n \in Nat :
                 appendJsonElementStr(openJsonObj(Buffer, "NULL"), IdName, n).json =
                    (Comma(Buffer).json \o <<"lbrace">>) \o Element(IdName, n)
           /\ \A n, v \in Nat :
                 appendJsonElementStr(Buffer, n, v).json =
                    Comma(Buffer).json \o Element(n, v)
           /\ closeJsonObj(Buffer).json = text \o <<"rbrace">>
           /\ closeJsonObj(closeJsonArray(Buffer)).json =
                 (text \o <<"rbracket">>) \o <<"rbrace">>
           /\ Comma(Buffer).json \in Bytes
<1> DEFINE o == openJsonObj(Buffer, "NULL")
<1>1. Exact(Buffer)
  BY Sizes
<1>2. o.json = Comma(Buffer).json \o <<"lbrace">>
  BY DEF openJsonObj, Cat
<1>3. Comma(o) = o
  BY <1>1, OpenObjExact
<1>4. openJsonArray(o, OrdersName).json =
         o.json \o (Quoted(OrdersName) \o <<"colon", "lbracket">>)
  BY DEF openJsonArray, Cat
<1>5. ASSUME NEW n \in Nat
      PROVE  appendJsonElementStr(o, IdName, n).json = Comma(o).json \o Element(IdName, n)
  BY DEF appendJsonElementStr, Cat, Element
<1>6. ASSUME NEW n \in Nat, NEW v \in Nat
      PROVE  appendJsonElementStr(Buffer, n, v).json = Comma(Buffer).json \o Element(n, v)
  BY DEF appendJsonElementStr, Cat, Element
<1>7. closeJsonObj(Buffer).json = text \o <<"rbrace">>
  BY DEF closeJsonObj, Cat, Buffer
<1>8. closeJsonObj(closeJsonArray(Buffer)).json = (text \o <<"rbracket">>) \o <<"rbrace">>
  BY DEF closeJsonObj, closeJsonArray, Cat, Buffer
<1>9. Comma(Buffer).json \in Bytes
  BY <1>1, CommaExact DEF Grows, Exact, Bytes
<1> HIDE DEF o
<1> QED
  BY <1>2, <1>3, <1>4, <1>5, <1>6, <1>7, <1>8, <1>9 DEF o

LEMMA OpenedType ==
    ASSUME NEW front \in Seq(Seq(Entry))
    PROVE  Before(Batches(front)) \in Bytes /\ Opened(front) \in Bytes
<1>1. Before(Batches(front)) \in Bytes
  BY BatchesType, BeforeType
<1> QED
  BY <1>1, BatchHeadType, BytesConcat DEF Opened

LEMMA OpenBatchPrinted ==
    ASSUME IInv, Printed, OpenBatch
    PROVE  Printed'
<1>1. pc = "scan" /\ Scanned /\ listing \in Seq(Seq(Entry)) /\ listing' = Append(listing, <<>>)
  BY DEF OpenBatch, Printed, IInv, TypeOK
<1> DEFINE C == Comma(Buffer).json
           L == <<"lbrace">>
           Q == Quoted(OrdersName) \o <<"colon", "lbracket">>
<1>2. text' = (C \o L) \o Q /\ pc' \in {"keys", "overrun"}
  <2>1. /\ text' = openJsonArray(openJsonObj(Buffer, "NULL"), OrdersName).json
        /\ pc' \in {"keys", "overrun"}
    BY DEF OpenBatch, Write
  <2> QED
    BY <2>1, Added
<1>3. Q \in Bytes /\ EndsIn(Q, "lbracket") /\ L \in Bytes /\ C \in Bytes
  <2>1. Quoted(OrdersName) \in Bytes /\ <<"colon", "lbracket">> \in Bytes
    BY QuotedType, Constants DEF Bytes, Byte
  <2>2. EndsIn(<<"colon", "lbracket">>, "lbracket")
    BY DEF EndsIn
  <2> QED
    BY <2>1, <2>2, Ends, BytesConcat, BracketBytes, Added
<1>4. C = Before(Batches(listing))
  <2>1. Batches(listing) \in Seq(Bytes) /\ Len(Batches(listing)) = Len(listing)
    BY <1>1, BatchesType
  <2>2. text = Separated(Batches(listing))
    BY <1>1 DEF Scanned, PrintListing, Batches
  <2>3. CASE listing = <<>>
    <3>1. Batches(listing) = <<>>
      BY <2>1, <2>3
    <3>2. text = <<>> /\ Before(Batches(listing)) = <<>>
      BY <2>1, <2>2, <3>1, BeforeIs
    <3> QED
      BY <3>2, CommaIs
  <2>4. CASE listing # <<>>
    <3>1. Batches(listing) # <<>>
      BY <1>1, <2>1, <2>4
    <3>2. Before(Batches(listing)) = text \o <<"comma">>
      BY <2>1, <2>2, <3>1, BeforeIs
    <3>3. EndsIn(text, "rbrace")
      BY <1>1, <2>4 DEF Scanned
    <3> QED
      BY <3>2, <3>3, CommaIs
  <2> QED
    BY <2>3, <2>4
<1>5. BatchHead = L \o Q
  BY DEF BatchHead
<1> HIDE DEF C, L, Q
<1>6. (C \o L) \o Q = C \o (L \o Q)
  BY <1>3, Assoc
<1>7. text' = Opened(listing)
  BY <1>2, <1>4, <1>5, <1>6 DEF Opened
<1>8. Opened(listing) = Opened(listing) \o Separated(Entries(<<>>))
  <2>1. Len(Entries(<<>>)) = 0
    <3>1. <<>> \in Seq(Entry) /\ Len(<<>>) = 0
      OBVIOUS
    <3> QED
      BY <3>1, EntriesType
  <2>2. Separated(Entries(<<>>)) = <<>>
    BY <2>1, SeparatedEmpty
  <2>3. Opened(listing) \in Bytes
    BY <1>1, OpenedType
  <2> QED
    BY <2>2, <2>3, ConcatEmptySeq DEF Bytes
<1>9. EndsIn(text', "lbracket")
  <2>1. C \o L \in Bytes
    BY <1>3, BytesConcat
  <2> QED
    BY <1>2, <1>3, <2>1, Ends
<1>10. BatchOpen'
  <2>1. <<>> \in Seq(Entry)
    OBVIOUS
  <2>2. InBatch(text', listing, <<>>)
    BY <1>7, <1>8 DEF InBatch
  <2>3. PICK l \in Seq(Seq(Entry)) : l = listing
    BY <1>1
  <2>4. /\ listing' = Append(l, <<>>) /\ InBatch(text', l, <<>>)
        /\ EndsIn(text', IF <<>> = <<>> THEN "lbracket" ELSE "rbrace")
    BY <1>1, <1>9, <2>2, <2>3
  <2> QED
    BY <2>1, <2>3, <2>4 DEF BatchOpen
<1> QED
  BY <1>2, <1>10 DEF Printed

LEMMA OpenEntryPrinted ==
    ASSUME IInv, Printed, OpenEntry
    PROVE  Printed'
<1>1. pc = "keys" /\ listing \in Seq(Seq(Entry))
  BY DEF OpenEntry, IInv, TypeOK
<1>2. PICK front \in Seq(Seq(Entry)), es \in Seq(Entry) :
         /\ listing = Append(front, es)
         /\ InBatch(text, front, es)
         /\ EndsIn(text, IF es = <<>> THEN "lbracket" ELSE "rbrace")
  BY <1>1 DEF Printed, BatchOpen
<1>a. PICK n \in DOMAIN Replies : \E r \in Replies[n] :
         /\ Write(appendJsonElementStr(openJsonObj(Buffer, "NULL"), IdName, n), "fields")
         /\ fields' = r
         /\ listing' = [listing EXCEPT ![Len(listing)] =
                           Append(@, [id |-> n, fields |-> r])]
  BY DEF OpenEntry
<1>3. PICK r \in Replies[n] :
         /\ Write(appendJsonElementStr(openJsonObj(Buffer, "NULL"), IdName, n), "fields")
         /\ fields' = r
         /\ listing' = [listing EXCEPT ![Len(listing)] =
                           Append(@, [id |-> n, fields |-> r])]
  BY <1>a
<1>4. n \in Nat /\ r \in Seq(Field)
  BY BuilderAssumption
<1>5. listing' = Append(front, Append(es, [id |-> n, fields |-> <<>> \o fields']))
  <2> DEFINE e == [id |-> n, fields |-> r]
             new == Append(es, e)
  <2>1. e \in Entry /\ new \in Seq(Entry)
    BY <1>4 DEF Entry
  <2>2. <<>> \o fields' = r
    BY <1>3, <1>4, ConcatEmptySeq
  <2> HIDE DEF new
  <2>3. Len(listing) = Len(front) + 1 /\ listing[Len(listing)] = es /\ Len(front) \in Nat
    BY <1>2
  <2>4. listing' = [listing EXCEPT ![Len(listing)] = new]
    BY <1>3, <2>3 DEF new
  <2>5. listing' = Append(front, new)
    <3> DEFINE a == [listing EXCEPT ![Len(listing)] = new]
               b == Append(front, new)
    <3>1. /\ a \in Seq(Seq(Entry)) /\ Len(a) = Len(front) + 1
          /\ a[Len(front) + 1] = new
          /\ \A i \in 1..Len(front) : a[i] = front[i]
      <4>1. Len(listing) \in 1..Len(listing) /\ \A i \in 1..Len(front) : listing[i] = front[i]
        BY <1>2, <2>3
      <4>2. /\ a \in Seq(Seq(Entry)) /\ Len(a) = Len(listing)
            /\ \A i \in 1..Len(listing) :
                  a[i] = IF i = Len(listing) THEN new ELSE listing[i]
        BY <1>1, <2>1, <4>1, ExceptSeq
      <4> HIDE DEF a
      <4>3. \A i \in 1..Len(front) : i \in 1..Len(listing) /\ i # Len(listing)
        BY <2>3
      <4> QED
        BY <2>3, <4>1, <4>2, <4>3
    <3>2. a = Append(front, a[Len(front) + 1])
      <4> HIDE DEF a
      <4> QED
        BY <3>1, AppendOf
    <3> QED
      BY <2>4, <3>1, <3>2
  <2> QED
    BY <2>2, <2>5 DEF new
<1> DEFINE C == Comma(Buffer).json
           L == <<"lbrace">>
           E == Element(IdName, n)
           O == Opened(front)
           B == Before(Entries(es))
<1>6. text' = (C \o L) \o E /\ pc' \in {"fields", "overrun"}
  <2>1. /\ text' = appendJsonElementStr(openJsonObj(Buffer, "NULL"), IdName, n).json
        /\ pc' \in {"fields", "overrun"}
    BY <1>3 DEF Write
  <2> QED
    BY <1>4, <2>1, Added
<1>7. Entries(es) \in Seq(Bytes) /\ Len(Entries(es)) = Len(es)
  BY EntriesType
<1>8. C \in Bytes /\ L \in Bytes /\ E \in Bytes /\ O \in Bytes /\ B \in Bytes
  BY <1>4, <1>7, Added, BracketBytes, ElementType, OpenedType, BeforeType, Constants
<1>9. C = O \o B
  <2> DEFINE S == Separated(Entries(es))
             k == <<"comma">>
  <2>1. text = O \o S
    BY <1>2 DEF InBatch
  <2>2. CASE es = <<>>
    <3>1. Entries(es) = <<>>
      BY <1>7, <2>2
    <3>2. B = <<>> /\ S = <<>>
      BY <1>7, <3>1, BeforeIs
    <3>3. EndsIn(text, "lbracket")
      BY <1>2, <2>2
    <3> QED
      BY <2>1, <3>2, <3>3, CommaIs
  <2>3. CASE es # <<>>
    <3>1. Entries(es) # <<>>
      BY <1>7, <2>3
    <3>2. B = S \o k
      BY <1>7, <3>1, BeforeIs
    <3>3. EndsIn(text, "rbrace")
      BY <1>2, <2>3
    <3>4. C = text \o k
      BY <3>3, CommaIs
    <3>5. S \in Bytes /\ k \in Bytes
      BY <1>7, SeparatedType, CommaBytes
    <3> HIDE DEF C, O, B, S, k
    <3>6. (O \o S) \o k = O \o (S \o k)
      <4>1. O \in Bytes /\ S \in Bytes /\ k \in Bytes
        BY <1>8, <3>5
      <4> QED
        BY <4>1, Assoc
    <3> QED
      BY <2>1, <3>2, <3>4, <3>6
  <2> QED
    BY <2>2, <2>3
<1>10. E = Separated(Elements(n, <<>>))
  <2>1. <<>> \in Seq(Bytes)
    OBVIOUS
  <2>2. Elements(n, <<>>) = Append(<<>>, E)
    BY <1>4, ElementsNone
  <2>3. Separated(Append(<<>>, E)) = Before(<<>>) \o E
    <3> HIDE DEF E
    <3> QED
      BY <1>8, <2>1, SeparatedOneMore
  <2>4. Before(<<>>) = <<>>
    BY <2>1, BeforeIs
  <2>5. <<>> \o E = E
    BY <1>8, ConcatEmptySeq DEF Bytes
  <2> QED
    BY <2>2, <2>3, <2>4, <2>5
<1>11. EndsIn(text', "quote")
  <2>1. C \o L \in Bytes
    <3> HIDE DEF C, L
    <3> QED
      BY <1>8, BytesConcat
  <2> HIDE DEF C, L
  <2> QED
    BY <1>4, <1>6, <2>1, EndsInQuote, Constants
<1>12. InEntry(text', front, es, n, <<>>)
  <2>1. (O \o B) \o L = O \o (B \o L)
    <3>1. O \in Bytes /\ B \in Bytes /\ L \in Bytes
      BY <1>8
    <3> HIDE DEF O, B, L
    <3> QED
      BY <3>1, Assoc
  <2> QED
    BY <1>6, <1>9, <1>10, <2>1 DEF InEntry
<1>13. EntryOpen'
  <2>1. <<>> \in Seq(Field)
    OBVIOUS
  <2> QED
    BY <1>4, <1>5, <1>11, <1>12, <2>1 DEF EntryOpen
<1> QED
  BY <1>6, <1>13 DEF Printed

Fields == Seq(Field)

LEMMA AssocFields ==
    ASSUME NEW s \in Fields, NEW t \in Fields, NEW u \in Fields
    PROVE  (s \o t) \o u = s \o (t \o u)
BY ConcatAssociative DEF Fields

(* The head of gs moves to the end of fs.                                  *)
LEMMA FieldMoves ==
    ASSUME NEW fs \in Seq(Field), NEW gs \in Seq(Field), gs # <<>>
    PROVE  fs \o gs = Append(fs, Head(gs)) \o Tail(gs)
<1> DEFINE a == <<Head(gs)>>
           t == Tail(gs)
<1>1. Head(gs) \in Field /\ a \in Seq(Field) /\ t \in Seq(Field) /\ gs = a \o t
  OBVIOUS
<1>2. Append(fs, Head(gs)) = fs \o a
  BY <1>1, AppendIsConcat
<1> HIDE DEF a, t
<1>3. (fs \o a) \o t = fs \o (a \o t)
  <2>1. fs \in Fields /\ a \in Fields /\ t \in Fields
    BY <1>1 DEF Fields
  <2> QED
    BY <2>1, AssocFields
<1> QED
  BY <1>1, <1>2, <1>3 DEF t

LEMMA AppendFieldPrinted ==
    ASSUME IInv, Printed, AppendField
    PROVE  Printed'
<1>1. pc = "fields" /\ fields \in Seq(Field) /\ fields # <<>>
      /\ fields' = Tail(fields) /\ listing' = listing
  BY DEF AppendField, IInv, TypeOK
<1>2. PICK front \in Seq(Seq(Entry)), es \in Seq(Entry), id \in Nat, done \in Seq(Field) :
        /\ listing = Append(front, Append(es, [id |-> id, fields |-> done \o fields]))
        /\ InEntry(text, front, es, id, done)
        /\ EndsIn(text, "quote")
  BY <1>1 DEF Printed, EntryOpen
<1> DEFINE f == Head(fields)
           E == Element(f.name, f.value)
           P == Opened(front) \o (Before(Entries(es)) \o <<"lbrace">>)
           S == Separated(Elements(id, done))
           k == <<"comma">>
<1>3. f \in Field /\ f.name \in Nat /\ f.value \in Nat
  <2>1. f \in Field
    BY <1>1
  <2> QED
    BY <2>1 DEF Field
<1>4. text' = Comma(Buffer).json \o E /\ pc' \in {"fields", "overrun"}
  <2>1. /\ text' = appendJsonElementStr(Buffer, f.name, f.value).json
        /\ pc' \in {"fields", "overrun"}
    BY DEF AppendField, Write
  <2> QED
    BY <1>3, <2>1, Added
<1>5. Comma(Buffer).json = text \o k
  BY <1>2, CommaIs
<1>6. text = P \o S
  BY <1>2 DEF InEntry
<1>7. P \in Bytes /\ S \in Bytes /\ E \in Bytes /\ k \in Bytes
  <2>1. Before(Entries(es)) \in Bytes
    BY EntriesType, BeforeType
  <2>2. Before(Entries(es)) \o <<"lbrace">> \in Bytes
    BY <2>1, BracketBytes, BytesConcat
  <2>3. Opened(front) \in Bytes
    BY OpenedType
  <2>4. P \in Bytes
    BY <2>2, <2>3, BytesConcat
  <2>5. S \in Bytes
    BY ElementsType, SeparatedType
  <2>6. E \in Bytes
    BY <1>3, ElementType
  <2> QED
    BY <2>4, <2>5, <2>6, CommaBytes
<1>8. Separated(Elements(id, Append(done, f))) = (S \o k) \o E
  <2>1. Elements(id, done) \in Seq(Bytes) /\ Elements(id, done) # <<>>
    BY ElementsType
  <2>2. Elements(id, Append(done, f)) = Append(Elements(id, done), E)
    BY <1>3, ElementsOneMore
  <2>3. Separated(Append(Elements(id, done), E)) = Before(Elements(id, done)) \o E
    <3> HIDE DEF E
    <3> QED
      BY <1>7, <2>1, SeparatedOneMore
  <2>4. Before(Elements(id, done)) = S \o k
    BY <2>1, BeforeIs
  <2> QED
    BY <2>2, <2>3, <2>4
<1>9. done \o fields = Append(done, f) \o fields'
  BY <1>1, FieldMoves
<1>10. EndsIn(text', "quote")
  <2>1. text \o k \in Bytes
    <3> HIDE DEF P, S, k
    <3>1. text \in Bytes
      BY <1>6, <1>7, BytesConcat
    <3> QED
      BY <1>7, <3>1, BytesConcat
  <2> QED
    BY <1>3, <1>4, <1>5, <2>1, EndsInQuote
<1>11. InEntry(text', front, es, id, Append(done, f))
  <2> DEFINE r == (S \o k) \o E
  <2>1. text' = P \o r
    <3> HIDE DEF P, S, k, E
    <3>1. S \o k \in Bytes
      BY <1>7, BytesConcat
    <3>2. (P \o S) \o k = P \o (S \o k)
      <4>1. P \in Bytes /\ S \in Bytes /\ k \in Bytes
        BY <1>7
      <4> QED
        BY <4>1, Assoc
    <3> DEFINE x == S \o k
    <3>3. x \in Bytes /\ text' = (P \o x) \o E
      BY <1>4, <1>5, <1>6, <3>1, <3>2
    <3> HIDE DEF x
    <3>4. (P \o x) \o E = P \o (x \o E)
      <4>1. P \in Bytes /\ x \in Bytes /\ E \in Bytes
        BY <1>7, <3>3
      <4> QED
        BY <4>1, Assoc
    <3> QED
      BY <3>3, <3>4 DEF x
  <2> QED
    BY <1>8, <2>1 DEF InEntry
<1>12. EntryOpen'
  <2>1. Append(done, f) \in Seq(Field)
    BY <1>3
  <2> DEFINE d == Append(done, f)
  <2>2. /\ d \in Seq(Field) /\ InEntry(text', front, es, id, d) /\ EndsIn(text', "quote")
        /\ listing' = Append(front, Append(es, [id |-> id, fields |-> d \o fields']))
    BY <1>1, <1>2, <1>9, <1>10, <1>11, <2>1
  <2> HIDE DEF d
  <2>3. PICK c \in Seq(Field) : c = d
    BY <2>2
  <2>4. /\ InEntry(text', front, es, id, c)
        /\ listing' = Append(front, Append(es, [id |-> id, fields |-> c \o fields']))
    BY <2>2, <2>3
  <2> QED
    BY <2>2, <2>4 DEF EntryOpen
<1> QED
  BY <1>4, <1>12 DEF Printed

LEMMA CloseEntryPrinted ==
    ASSUME IInv, Printed, CloseEntry
    PROVE  Printed'
<1>1. pc = "fields" /\ fields = <<>> /\ listing' = listing
  BY DEF CloseEntry
<1>2. PICK front \in Seq(Seq(Entry)), es \in Seq(Entry), id \in Nat, done \in Seq(Field) :
        /\ listing = Append(front, Append(es, [id |-> id, fields |-> done \o fields]))
        /\ InEntry(text, front, es, id, done)
        /\ EndsIn(text, "quote")
  BY <1>1 DEF Printed, EntryOpen
<1> DEFINE e == [id |-> id, fields |-> done]
           S == Separated(Elements(id, done))
           O == Opened(front)
           B == Before(Entries(es))
           L == <<"lbrace">>
           R == <<"rbrace">>
<1>3. e \in Entry /\ done \o fields = done
  BY <1>1, ConcatEmptySeq DEF Entry
<1>4. text' = text \o R /\ pc' \in {"keys", "overrun"}
  <2>1. text' = closeJsonObj(Buffer).json /\ pc' \in {"keys", "overrun"}
    BY DEF CloseEntry, Write
  <2> QED
    BY <2>1, Added
<1>5. text = (O \o (B \o L)) \o S
  BY <1>2 DEF InEntry
<1>6. O \in Bytes /\ B \in Bytes /\ S \in Bytes /\ L \in Bytes /\ R \in Bytes
  <2>1. B \in Bytes
    BY EntriesType, BeforeType
  <2>2. S \in Bytes
    BY ElementsType, SeparatedType
  <2> QED
    BY <2>1, <2>2, OpenedType, BracketBytes
<1>7. PrintEntry(e) = (L \o S) \o R
  BY EntryType
<1>8. Separated(Entries(Append(es, e))) = B \o ((L \o S) \o R)
  <2>1. Entries(es) \in Seq(Bytes) /\ PrintEntry(e) \in Bytes
    BY EntriesType, EntryType
  <2>2. Entries(Append(es, e)) = Append(Entries(es), PrintEntry(e))
    BY <1>3, EntriesOneMore
  <2>3. Separated(Append(Entries(es), PrintEntry(e))) = B \o PrintEntry(e)
    BY <2>1, SeparatedOneMore
  <2> QED
    BY <1>7, <2>2, <2>3
<1>9. text' = O \o (B \o ((L \o S) \o R))
  <2> HIDE DEF O, B, L, S, R
  <2> DEFINE x == B \o L
             y == L \o S
  <2>1. x \in Bytes /\ y \in Bytes
    BY <1>6, BytesConcat
  <2>2. x \o S = B \o y
    <3>1. B \in Bytes /\ L \in Bytes /\ S \in Bytes
      BY <1>6
    <3> QED
      BY <3>1, Assoc
  <2>3. text' = ((O \o x) \o S) \o R
    BY <1>4, <1>5
  <2> HIDE DEF x, y
  <2>4. (O \o x) \o S = O \o (x \o S)
    <3>1. O \in Bytes /\ x \in Bytes /\ S \in Bytes
      BY <1>6, <2>1
    <3> QED
      BY <3>1, Assoc
  <2> DEFINE z == B \o y
  <2>5. z \in Bytes
    BY <1>6, <2>1, BytesConcat
  <2>6. text' = (O \o z) \o R
    BY <2>2, <2>3, <2>4
  <2>7. z \o R = B \o (y \o R)
    <3>1. B \in Bytes /\ y \in Bytes /\ R \in Bytes
      BY <1>6, <2>1
    <3> QED
      BY <3>1, Assoc
  <2> HIDE DEF z
  <2>8. (O \o z) \o R = O \o (z \o R)
    <3>1. O \in Bytes /\ z \in Bytes /\ R \in Bytes
      BY <1>6, <2>5
    <3> QED
      BY <3>1, Assoc
  <2> QED
    BY <2>6, <2>7, <2>8 DEF y
<1>10. EndsIn(text', "rbrace")
  <2>1. text \in Bytes
    BY DEF IInv, TypeOK, Bytes
  <2> QED
    BY <1>4, <2>1, EndsInByte DEF Byte
<1>11. BatchOpen'
  <2> DEFINE ds == Append(es, e)
  <2>1. ds \in Seq(Entry) /\ ds # <<>>
    BY <1>3, AppendProperties
  <2>2. InBatch(text', front, ds)
    BY <1>8, <1>9 DEF InBatch
  <2>3. listing' = Append(front, ds)
    BY <1>1, <1>2, <1>3
  <2> HIDE DEF ds
  <2>4. PICK c \in Seq(Entry) : c = ds
    BY <2>1
  <2>5. /\ listing' = Append(front, c) /\ InBatch(text', front, c)
        /\ EndsIn(text', IF c = <<>> THEN "lbracket" ELSE "rbrace")
    BY <1>10, <2>1, <2>2, <2>3, <2>4
  <2> QED
    BY <2>5 DEF BatchOpen
<1> QED
  BY <1>4, <1>11 DEF Printed

LEMMA CloseBatchPrinted ==
    ASSUME IInv, Printed, CloseBatch
    PROVE  Printed'
<1>1. pc = "keys" /\ listing' = listing
  BY DEF CloseBatch
<1>2. PICK front \in Seq(Seq(Entry)), es \in Seq(Entry) :
         /\ listing = Append(front, es)
         /\ InBatch(text, front, es)
         /\ EndsIn(text, IF es = <<>> THEN "lbracket" ELSE "rbrace")
  BY <1>1 DEF Printed, BatchOpen
<1> DEFINE S == Separated(Entries(es))
           B == Before(Batches(front))
           H == BatchHead
           D == <<"rbracket">>
           R == <<"rbrace">>
<1>3. text' = (text \o D) \o R /\ pc' \in {"scan", "overrun"}
  <2>1. /\ text' = closeJsonObj(closeJsonArray(Buffer)).json
        /\ pc' \in {"scan", "overrun"}
    BY DEF CloseBatch, Write
  <2> QED
    BY <2>1, Added
<1>4. text = (B \o H) \o S
  BY <1>2 DEF InBatch, Opened
<1>5. B \in Bytes /\ H \in Bytes /\ S \in Bytes /\ D \in Bytes /\ R \in Bytes
  <2>1. S \in Bytes
    BY EntriesType, SeparatedType
  <2> QED
    BY <2>1, OpenedType, BatchHeadType, BracketBytes
<1>6. PrintBatch(es) = H \o ((S \o D) \o R)
  BY PrintBatchIs
<1>7. PrintListing(listing) = B \o (H \o ((S \o D) \o R))
  <2>1. Batches(front) \in Seq(Bytes) /\ PrintBatch(es) \in Bytes
    BY BatchesType, PrintBatchIs
  <2>2. Batches(listing) = Append(Batches(front), PrintBatch(es))
    BY <1>2, BatchesOneMore
  <2>3. Separated(Append(Batches(front), PrintBatch(es))) = B \o PrintBatch(es)
    BY <2>1, SeparatedOneMore
  <2>4. PrintListing(listing) = Separated(Batches(listing))
    BY DEF PrintListing, Batches
  <2> QED
    BY <1>6, <2>2, <2>3, <2>4
<1>8. text' = B \o (H \o ((S \o D) \o R))
  <2> HIDE DEF B, H, S, D, R
  <2> DEFINE x == B \o H
             y == S \o D
  <2>1. x \in Bytes /\ y \in Bytes
    BY <1>5, BytesConcat
  <2>2. text' = ((x \o S) \o D) \o R
    BY <1>3, <1>4
  <2> HIDE DEF x
  <2>3. (x \o S) \o D = x \o y
    <3>1. x \in Bytes /\ S \in Bytes /\ D \in Bytes
      BY <1>5, <2>1
    <3> QED
      BY <3>1, Assoc
  <2> HIDE DEF y
  <2>4. (x \o y) \o R = x \o (y \o R)
    <3>1. x \in Bytes /\ y \in Bytes /\ R \in Bytes
      BY <1>5, <2>1
    <3> QED
      BY <3>1, Assoc
  <2> DEFINE z == y \o R
  <2>5. z \in Bytes
    BY <1>5, <2>1, BytesConcat
  <2>6. text' = x \o z
    BY <2>2, <2>3, <2>4
  <2> HIDE DEF z
  <2>7. (B \o H) \o z = B \o (H \o z)
    <3>1. B \in Bytes /\ H \in Bytes /\ z \in Bytes
      BY <1>5, <2>5
    <3> QED
      BY <3>1, Assoc
  <2> QED
    BY <2>6, <2>7 DEF x, y, z
<1>9. EndsIn(text', "rbrace")
  <2>1. text \o D \in Bytes
    <3>1. text \in Bytes
      BY DEF IInv, TypeOK, Bytes
    <3> QED
      BY <1>5, <3>1, BytesConcat
  <2> QED
    BY <1>3, <2>1, EndsInByte DEF Byte
<1>10. Scanned'
  <2>1. PrintListing(listing') = PrintListing(listing)
    BY <1>1
  <2>2. text' = PrintListing(listing')
    BY <1>7, <1>8, <2>1
  <2> QED
    BY <1>9, <2>2 DEF Scanned
<1> QED
  BY <1>3, <1>10 DEF Printed

LEMMA PrintNothing == PrintListing(<<>>) = <<>>
<1>1. Len([i \in DOMAIN <<>> |-> PrintBatch((<<>>)[i])]) = 0
  OBVIOUS
<1> QED
  BY <1>1, SeparatedEmpty DEF PrintListing

LEMMA PrintedStep ==
    ASSUME IInv, Printed, [Next]_vars
    PROVE  Printed'
<1>1. CASE Begin
  <2>1. pc' = "scan" /\ text' = <<>> /\ listing' = <<>>
    BY <1>1 DEF Begin
  <2>2. Scanned'
    BY <2>1, PrintNothing DEF Scanned
  <2> QED
    BY <2>1, <2>2 DEF Printed
<1>2. CASE Finish
  BY <1>2 DEF Finish, Printed
<1>3. CASE UNCHANGED vars
  BY <1>3 DEF vars, Printed, Scanned, BatchOpen, EntryOpen
<1> QED
  BY <1>1, <1>2, <1>3, OpenBatchPrinted, OpenEntryPrinted, AppendFieldPrinted,
     CloseEntryPrinted, CloseBatchPrinted DEF Next

(* The commas the functions put, each by a look at one byte, are those of  *)
(* a printer that knows the whole listing.                                 *)
THEOREM PrintsListing == Spec => []TextIsListing
<1>1. Init => Printed
  BY DEF Init, Printed
<1>2. IInv /\ Printed /\ [Next]_vars => Printed'
  BY PrintedStep
<1>3. Printed => TextIsListing
  BY DEF Printed, Scanned, TextIsListing
<1> QED
  BY <1>1, <1>2, <1>3, Invariant, PTL DEF Spec

=============================================================================
