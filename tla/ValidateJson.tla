---------------------------- MODULE ValidateJson ----------------------------
(***************************************************************************)
(* validate_json: one walk over the tokens jsmn found in the body of a     *)
(* POST or PUT.  It records in the jsonEntry je where the value of every   *)
(* field is, and checks the values if it is asked to.                      *)
(*                                                                         *)
(* A token is what the walk sees of it: the keyword its text starts with,  *)
(* the number of its children, and whether the check made on it passes.    *)
(* Positions are those of the C arrays: the first token is token 0.        *)
(***************************************************************************)
EXTENDS Integers, FiniteSetsExt, SequencesExt

CONSTANT Inputs      \* what validate_json may be called with

(* The keywords of parse_id, parse_items and parse_transactions, and the   *)
(* fields whose value is checked.                                          *)
ScalarFields == {"id", "number", "reference", "status", "created_at",
                 "updated_at", "notes", "price"}
ListFields == {"items", "transactions"}
ItemFields == {"sku", "unit_price", "quantity"}
TransactionFields == {"id", "external_id", "amount", "type",
                      "authorization_code", "card_brand", "card_bin",
                      "card_last"}

CheckedScalars == {"id", "status", "created_at", "updated_at", "price"}
CheckedTransactionFields == {"id", "amount"}

EntryFields == [items |-> ItemFields, transactions |-> TransactionFields]
CheckedEntryFields == [items |-> ItemFields,
                       transactions |-> CheckedTransactionFields]

(* What jsmn_parse returns when it does not return a number of tokens.     *)
ParseErrors == {"JSMN_ERROR_NOMEM", "JSMN_ERROR_INVAL", "JSMN_ERROR_PART"}

(* The role of a token in the document is not seen by the code; it is for  *)
(* saying what the walk should have found.                                 *)
Token == [word : STRING, size : Nat, valid : BOOLEAN, role : STRING]

Input == [parse : ParseErrors \cup {"ok"}, tokens : Seq(Token), validate : BOOLEAN]

ASSUME InputsAssumption == Inputs \subseteq Input

VARIABLES
    input,           \* the arguments, and the tokens found in them
    pc,              \* the loop the walk is in: "parse", "outer", "root", the
                     \* name of a list, "entry", or "done"
    list,            \* the list an entry belongs to
    i,               \* the current token
    size,            \* fields left in the object at the root
    items,           \* entries left in the list
    entries,         \* fields left in the entry
    je,              \* the result: the token of each value, 0 if there is none
    ret              \* the value returned

vars == <<input, pc, list, i, size, items, entries, je, ret>>

tokens == input.tokens
r == Len(tokens)
At(j) == tokens[j + 1]

EmptyEntry(l) == [f \in EntryFields[l] |-> 0]

(* memset(je, 0, sizeof(jsonEntry)), by the caller.                        *)
EmptyJsonEntry == [scalar |-> [f \in ScalarFields |-> 0],
                   items |-> <<>>, transactions |-> <<>>]

-----------------------------------------------------------------------------
Return(code) ==
    /\ pc' = "done"
    /\ ret' = code
    /\ UNCHANGED <<list, i, size, items, entries>>

(* Wrong variant: the last token may be stepped over.                      *)
BeyondByOne(j) == j + 1 > r

(* iNC(i) from token j: go on at the token after it, or return.            *)
Beyond(j) == j + 1 >= r

Parse ==
    /\ pc = "parse"
    /\ IF input.parse = "ok"
       THEN pc' = "outer" /\ UNCHANGED <<list, i, size, items, entries, ret>>
       ELSE Return(input.parse)
    /\ UNCHANGED <<input, je>>

(* Wrong variant: the end of the last object is the end of the order.      *)
OuterLoopOnce ==
    /\ pc = "outer"
    /\ IF i >= r \/ i > 0 THEN Return("0")
       ELSE IF Beyond(i) THEN Return("JSMN_ERROR_INVAL")
       ELSE /\ size' = At(i).size
            /\ i' = i + 1
            /\ pc' = "root"
            /\ UNCHANGED <<list, items, entries, ret>>
    /\ UNCHANGED <<input, je>>

(* Wrong variant: the walk does not step into the object.                  *)
OuterLoopStays ==
    /\ pc = "outer"
    /\ IF i >= r THEN Return("0")
       ELSE /\ size' = At(i).size
            /\ pc' = "root"
            /\ UNCHANGED <<list, i, items, entries, ret>>
    /\ UNCHANGED <<input, je>>

(* while (i < r): the token is taken for the object that holds an order.   *)
OuterLoop ==
    /\ pc = "outer"
    /\ IF i >= r THEN Return("0")
       ELSE IF Beyond(i) THEN Return("JSMN_ERROR_INVAL")
       ELSE /\ size' = At(i).size
            /\ i' = i + 1
            /\ pc' = "root"
            /\ UNCHANGED <<list, items, entries, ret>>
    /\ UNCHANGED <<input, je>>

RootLoopEnds ==
    /\ pc = "root"
    /\ size = 0
    /\ pc' = "outer"
    /\ UNCHANGED <<input, list, i, size, items, entries, je, ret>>

AtField(fields) == pc = "root" /\ size > 0 /\ At(i).word \in fields

(* The value of the field at token i is missing, is not accepted, or is    *)
(* recorded; in the last case the walk still returns at the last token.    *)
ValueMissing ==
    /\ Beyond(i)
    /\ Return("JSMN_ERROR_INVAL")
    /\ UNCHANGED <<input, je>>

ValueRejected(checked) ==
    /\ ~Beyond(i)
    /\ input.validate
    /\ At(i).word \in checked
    /\ ~At(i + 1).valid
    /\ Return("-2")
    /\ UNCHANGED <<input, je>>

(* Wrong variant: nothing is checked.                                      *)
AnyValueAccepted(checked) == ~Beyond(i)

ValueAccepted(checked) ==
    /\ ~Beyond(i)
    /\ input.validate /\ At(i).word \in checked => At(i + 1).valid

(* One of the eight fields of the order itself.                            *)
Scalar ==
    /\ AtField(ScalarFields)
    /\ \/ ValueMissing
       \/ ValueRejected(CheckedScalars)
       \/ /\ ValueAccepted(CheckedScalars)
          /\ je' = [je EXCEPT !.scalar[At(i).word] = i + 1]
          /\ IF Beyond(i + 1) THEN Return("JSMN_ERROR_INVAL")
             ELSE /\ i' = i + 2
                  /\ size' = size - 1
                  /\ UNCHANGED <<pc, list, items, entries, ret>>
          /\ UNCHANGED input

(* "items" or "transactions": over the key and the array.                  *)
List ==
    /\ AtField(ListFields)
    /\ IF Beyond(i) \/ Beyond(i + 1) THEN Return("JSMN_ERROR_INVAL")
       ELSE /\ items' = At(i + 1).size
            /\ i' = i + 2
            /\ size' = size - 1
            /\ pc' = At(i).word
            /\ UNCHANGED <<list, entries, ret>>
    /\ UNCHANGED <<input, je>>

UnknownField ==
    /\ pc = "root"
    /\ size > 0
    /\ At(i).word \notin ScalarFields \cup ListFields
    /\ Return("-2")
    /\ UNCHANGED <<input, je>>

ListEnds ==
    /\ pc \in ListFields
    /\ items = 0
    /\ pc' = "root"
    /\ UNCHANGED <<input, list, i, size, items, entries, je, ret>>

EnterEntry ==
    /\ entries' = At(i).size
    /\ i' = i + 1
    /\ list' = pc
    /\ pc' = "entry"
    /\ UNCHANGED <<size, items, ret>>

(* Wrong variants: the entry is put at the end of its list; the number of  *)
(* entries is not looked at.                                               *)
ItemUncounted ==
    /\ pc = "items"
    /\ je' = [je EXCEPT !.items = <<EmptyEntry("items")>> \o @]
    /\ IF Beyond(i) THEN Return("JSMN_ERROR_INVAL") ELSE EnterEntry
    /\ UNCHANGED input
ItemAtEnd ==
    /\ pc = "items"
    /\ items > 0
    /\ je' = [je EXCEPT !.items = Append(@, EmptyEntry("items"))]
    /\ IF Beyond(i) THEN Return("JSMN_ERROR_INVAL") ELSE EnterEntry
    /\ UNCHANGED input

(* Each entry becomes the head of its list.  An item is allocated before   *)
(* the walk moves on ...                                                   *)
Item ==
    /\ pc = "items"
    /\ items > 0
    /\ je' = [je EXCEPT !.items = <<EmptyEntry("items")>> \o @]
    /\ IF Beyond(i) THEN Return("JSMN_ERROR_INVAL") ELSE EnterEntry
    /\ UNCHANGED input

(* ... a transaction after it.                                             *)
Transaction ==
    /\ pc = "transactions"
    /\ items > 0
    /\ IF Beyond(i)
       THEN Return("JSMN_ERROR_INVAL") /\ UNCHANGED je
       ELSE /\ EnterEntry
            /\ je' = [je EXCEPT !.transactions =
                          <<EmptyEntry("transactions")>> \o @]
    /\ UNCHANGED input

(* One field of the entry, recorded at the head of the list.               *)
EntryField ==
    /\ pc = "entry"
    /\ entries > 0
    /\ At(i).word \in EntryFields[list]
    /\ \/ ValueMissing
       \/ ValueRejected(CheckedEntryFields[list])
       \/ /\ ValueAccepted(CheckedEntryFields[list])
          /\ je' = [je EXCEPT ![list][1][At(i).word] = i + 1]
          /\ IF Beyond(i + 1) THEN Return("JSMN_ERROR_INVAL")
             ELSE /\ i' = i + 2
                  /\ entries' = entries - 1
                  /\ UNCHANGED <<pc, list, size, items, ret>>
          /\ UNCHANGED input

UnknownEntryField ==
    /\ pc = "entry"
    /\ entries > 0
    /\ At(i).word \notin EntryFields[list]
    /\ Return("-2")
    /\ UNCHANGED <<input, je>>

EntryEnds ==
    /\ pc = "entry"
    /\ entries = 0
    /\ items' = items - 1
    /\ pc' = list
    /\ UNCHANGED <<input, list, i, size, entries, je, ret>>

-----------------------------------------------------------------------------
(* The locals items, entries and list are set before they are read.        *)
Init ==
    /\ input \in Inputs
    /\ pc = "parse"
    /\ list = "items"
    /\ i = 0
    /\ size = 0 /\ items = 0 /\ entries = 0
    /\ je = EmptyJsonEntry
    /\ ret = "none"

Next ==
    \/ Parse \/ OuterLoop \/ RootLoopEnds \/ Scalar \/ List \/ UnknownField
    \/ ListEnds \/ Item \/ Transaction
    \/ EntryField \/ UnknownEntryField \/ EntryEnds

Spec == Init /\ [][Next]_vars

(* A function that runs until it returns.                                  *)
FairSpec == Spec /\ WF_vars(Next)

-----------------------------------------------------------------------------
(* What a document is, and what it says.  The role of a token is its place *)
(* in an order document: an "object" is an order, its "key"s have a        *)
(* "value" or, those of the lists, an "array"; an entry of a list has the  *)
(* name of the list for its role, and its "entry_key"s an "entry_value".   *)

Role(j) == At(j).role

(* The tokens after j and before the next that ends what j began, among    *)
(* the first n.                                                            *)
Span(j, ends, n) ==
    {k \in (j + 1)..(n - 1) : \A m \in (j + 1)..k : Role(m) \notin ends}

FieldEnds == {"object", "key"}
EntryEnd == FieldEnds \cup ListFields
EntryOf(p, n) == Span(p, EntryEnd, n)

MayFollow(role) ==
    CASE role \in {"object", "value"} -> FieldEnds
      [] role = "array" -> EntryEnd
      [] role \in ListFields \cup {"entry_value"} -> EntryEnd \cup {"entry_key"}
      [] OTHER -> {}

InOrder ==
    /\ r > 0 => Role(0) = "object"
    /\ \A j \in 0..(r - 1) :
        CASE Role(j) = "key" ->
                /\ j + 1 < r
                /\ Role(j + 1) = IF At(j).word \in ListFields THEN "array" ELSE "value"
          [] Role(j) = "entry_key" -> j + 1 < r /\ Role(j + 1) = "entry_value"
          [] OTHER -> j + 1 < r => Role(j + 1) \in MayFollow(Role(j))
    /\ \A a \in 1..(r - 1) : Role(a) = "array" =>
        \A j \in Span(a, FieldEnds, r) :
            Role(j) \in ListFields => Role(j) = At(a - 1).word

(* The children of roles c among S.                                        *)
Children(c, S) == Cardinality({k \in S : Role(k) \in c})

SizesMatch ==
    \A j \in 0..(r - 1) : At(j).size =
        CASE Role(j) = "object" -> Children({"key"}, Span(j, {"object"}, r))
          [] Role(j) = "array" -> Children(ListFields, Span(j, FieldEnds, r))
          [] Role(j) \in ListFields -> Children({"entry_key"}, EntryOf(j, r))
          [] Role(j) \in {"key", "entry_key"} -> 1
          [] OTHER -> 0

IsDocument == input.parse = "ok" /\ InOrder /\ SizesMatch

LastOf(S) == IF S = {} THEN 0 ELSE Max(S)

Valued(role, f, S) == {j \in S : Role(j) = role /\ At(j - 1).word = f}

EntryMeaning(l, p, n) ==
    [f \in EntryFields[l] |-> LastOf(Valued("entry_value", f, EntryOf(p, n)))]

Heads(l, n) == {j \in 0..(n - 1) : Role(j) = l}

-----------------------------------------------------------------------------
(* Properties.                                                             *)

Entries(l) == Seq([EntryFields[l] -> Nat])

(* The variables keep their types, and je points at tokens.                *)
TypeOK ==
    /\ input \in Input
    /\ pc \in {"parse", "outer", "root", "entry", "done"} \cup ListFields
    /\ list \in ListFields
    /\ i \in Nat /\ size \in Nat /\ items \in Nat /\ entries \in Nat
    /\ je \in [scalar : [ScalarFields -> Nat],
               items : Entries("items"),
               transactions : Entries("transactions")]
    /\ ret \in {"none", "0", "-2"} \cup ParseErrors

(* Whatever jsmn made of the body, also of one that is not an order at     *)
(* all, the walk reads only tokens jsmn has filled in.                     *)
InBounds == pc \in {"root", "entry"} \cup ListFields => i < r

(* The code never says that a body is good: it returns 0 for no tokens     *)
(* only, because iNC returns at the last token also when all is well.      *)
OnlyNothingIsAccepted == ret = "0" => tokens = <<>>

(* Nevertheless everything a document says is in je when the walk returns  *)
(* without an objection: every value under its field, the last one if a    *)
(* field is repeated, every entry of a list, the last entry first.  Only a *)
(* transaction that is the last token, an empty one, gets no entry.        *)
ScalarsFound(n) ==
    \A f \in ScalarFields :
        je.scalar[f] = LastOf(Valued("value", f, 1..(n - 1)))

EntriesFound(l, heads, n) ==
    /\ Len(je[l]) = Cardinality(heads)
    /\ \A p \in heads :
          je[l][Cardinality({q \in heads : q >= p})] = EntryMeaning(l, p, n)

Entered(l) ==
    IF l = "transactions" THEN Heads(l, r) \ {r - 1} ELSE Heads(l, r)

FindsEveryField ==
    (pc = "done" /\ ret # "-2" /\ IsDocument) =>
        /\ ScalarsFound(r)
        /\ \A l \in ListFields : EntriesFound(l, Entered(l), r)

(* A field among the first n tokens that is not known where it stands, or  *)
(* whose value is not accepted.                                            *)
FaultAt(j, known, checked) ==
    \/ At(j).word \notin known
    \/ input.validate /\ At(j).word \in checked /\ ~At(j + 1).valid

Faulty(n) ==
    \/ \E j \in 0..(n - 1) :
          Role(j) = "key" /\ FaultAt(j, ScalarFields \cup ListFields, CheckedScalars)
    \/ \E l \in ListFields : \E p \in Heads(l, n) : \E j \in EntryOf(p, n) :
          Role(j) = "entry_key" /\ FaultAt(j, EntryFields[l], CheckedEntryFields[l])

(* The walk objects to a document exactly if there is a fault in it,       *)
(* wherever it is; it never comes to a wrong token and objects to that.    *)
ObjectsToFaults == (pc = "done" /\ IsDocument) => (ret = "-2" <=> Faulty(r))

(* A document is objected to for its faults only, and of one without a     *)
(* fault all that it says is in je.                                        *)
OrderIsRead == FindsEveryField /\ ObjectsToFaults

(* With validate set no value is recorded that its check does not accept.  *)
RecordedIsChecked == input.validate =>
    /\ \A f \in CheckedScalars :
          je.scalar[f] # 0 => At(je.scalar[f]).valid
    /\ \A l \in ListFields : \A n \in DOMAIN je[l] :
          \A f \in CheckedEntryFields[l] :
              je[l][n][f] # 0 => At(je[l][n][f]).valid

(* The walk ends, whatever the tokens claim about their children.          *)
Terminates == <>(pc = "done")

=============================================================================
