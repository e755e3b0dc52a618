----------------------------- MODULE JsonBuilder -----------------------------
(***************************************************************************)
(* The text of a listing: the functions that append JSON to the buffer of  *)
(* work(), and process_order_id, which calls them for every batch of keys  *)
(* of a SCAN.  The text is a sequence of bytes; of names and values it     *)
(* keeps the number of characters.                                         *)
(*                                                                         *)
(* The functions know the text only through jsonLen: strcat appends at the *)
(* end of the text whatever jsonLen is, but the place of a comma is        *)
(* decided by the byte before json[jsonLen].                               *)
(***************************************************************************)
EXTENDS Naturals, Sequences

CONSTANTS
    Capacity,        \* bytes of the buffer (91024)
    OrdersName,      \* length of the name of the array, "orders"
    IdName,          \* length of the name "id"
    Replies,         \* Replies[n]: what HGETALL may return for a key whose
                     \* name, less its prefix, has n characters
    IdMax,           \* the longest such name,
    FieldMax,        \* the most bytes a field takes in the text,
    FieldsMax,       \* and the most fields of a reply
    MaxBatches,      \* bounds of the model: the batches of a listing
    MaxKeys          \* and its keys

Field == [name : Nat, value : Nat]

(* "name":"value" and the comma before it.                                 *)
FieldBytes(f) == f.name + f.value + 6

ASSUME BuilderAssumption ==
    /\ Capacity \in Nat \ {0}
    /\ OrdersName \in Nat /\ IdName \in Nat
    /\ DOMAIN Replies \subseteq 0..IdMax
    /\ \A n \in DOMAIN Replies : \A r \in Replies[n] :
          /\ r \in Seq(Field)
          /\ Len(r) <= FieldsMax
          /\ \A i \in DOMAIN r : FieldBytes(r[i]) <= FieldMax
    /\ IdMax \in Nat /\ FieldMax \in Nat /\ FieldsMax \in Nat
    /\ MaxBatches \in Nat /\ MaxKeys \in Nat

VARIABLES
    pc,              \* "idle", "scan", "keys", "fields" or "overrun"
    text,            \* what the buffer holds up to its NUL
    jsonLen,         \* the length the code keeps
    fields,          \* fields of the HGETALL reply still to be appended
    listing,         \* history: batches, of entries of this request
    keys             \* history: number of entries of this request

vars == <<pc, text, jsonLen, fields, listing, keys>>

Byte == {"lbrace", "rbrace", "lbracket", "rbracket", "comma", "colon",
         "quote", "char"}

-----------------------------------------------------------------------------
(* The functions, on a buffer and the length that goes with it.            *)

Buffer == [json |-> text, jsonLen |-> jsonLen]

Chars(n) == [i \in 1..n |-> "char"]
Quoted(n) == <<"quote">> \o Chars(n) \o <<"quote">>

(* strcat, and the addition to jsonLen that follows.                       *)
Cat(b, s, n) == [json |-> b.json \o s, jsonLen |-> b.jsonLen + n]

(* Wrong variant: the beginning of an array is not looked for.             *)
CommaAfterBracket(b) ==
    IF b.jsonLen # 0 /\ b.json[b.jsonLen] # "lbrace"
    THEN Cat(b, <<"comma">>, 1)
    ELSE b

(* A comma, unless this is the first byte or follows an opening bracket.   *)
Comma(b) ==
    IF b.jsonLen # 0 /\ b.json[b.jsonLen] \notin {"lbrace", "lbracket"}
    THEN Cat(b, <<"comma">>, 1)
    ELSE b

(* Wrong variant: one of the quotes is not counted.                        *)
AppendUncounted(b, name, value) ==
    Cat(Comma(b), Quoted(name) \o <<"colon">> \o Quoted(value), name + value + 4)

appendJsonElementStr(b, name, value) ==
    Cat(Comma(b), Quoted(name) \o <<"colon">> \o Quoted(value), name + value + 5)

(* The name is NULL or its length.                                         *)
openJsonObj(b, objName) ==
    LET c == Comma(b)
        d == IF objName = "NULL" THEN c
             ELSE Cat(c, Quoted(objName) \o <<"colon">>, objName + 3)
    IN  Cat(d, <<"lbrace">>, 1)

closeJsonObj(b) == Cat(b, <<"rbrace">>, 1)

(* Alone in that it puts no comma.                                         *)
openJsonArray(b, arrayName) ==
    Cat(b, Quoted(arrayName) \o <<"colon", "lbracket">>, arrayName + 4)

closeJsonArray(b) == Cat(b, <<"rbracket">>, 1)

-----------------------------------------------------------------------------
(* The listing.                                                            *)

(* The text and its NUL are written whether there is room or not.  What    *)
(* lies behind the buffer is not ours, so the model ends there.            *)
Write(b, next) ==
    /\ text' = b.json
    /\ jsonLen' = b.jsonLen
    /\ pc' = IF Len(b.json) < Capacity THEN next ELSE "overrun"

(* work() empties the buffer, get_all and get_by_value begin at length 0.  *)
Begin ==
    /\ pc = "idle"
    /\ pc' = "scan"
    /\ text' = <<>> /\ jsonLen' = 0
    /\ listing' = <<>> /\ keys' = 0
    /\ UNCHANGED fields

(* process_order_id, before its loop: one call for each batch of SCAN.     *)
OpenBatch ==
    /\ pc = "scan"
    /\ Len(listing) < MaxBatches
    /\ Write(openJsonArray(openJsonObj(Buffer, "NULL"), OrdersName), "keys")
    /\ listing' = Append(listing, <<>>)
    /\ UNCHANGED <<fields, keys>>

(* One key: its object, its name, and HGETALL in get_by_id.                *)
OpenEntry ==
    /\ pc = "keys"
    /\ keys < MaxKeys
    /\ \E n \in DOMAIN Replies : \E r \in Replies[n] :
        /\ Write(appendJsonElementStr(openJsonObj(Buffer, "NULL"), IdName, n),
                 "fields")
        /\ fields' = r
        /\ listing' = [listing EXCEPT ![Len(listing)] =
                          Append(@, [id |-> n, fields |-> r])]
    /\ keys' = keys + 1

(* Wrong variant: the loop of get_by_id advances by one element, not by    *)
(* the pair of a name and its value.                                       *)
AppendTwice ==
    /\ pc = "fields"
    /\ fields # <<>>
    /\ LET f == Head(fields)
           b == appendJsonElementStr(Buffer, f.name, f.value)
       IN  Write(appendJsonElementStr(b, f.value, f.name), "fields")
    /\ fields' = Tail(fields)
    /\ UNCHANGED <<listing, keys>>

(* One pass of the loop of get_by_id.                                      *)
AppendField ==
    /\ pc = "fields"
    /\ fields # <<>>
    /\ Write(appendJsonElementStr(Buffer, Head(fields).name, Head(fields).value),
             "fields")
    /\ fields' = Tail(fields)
    /\ UNCHANGED <<listing, keys>>

CloseEntry ==
    /\ pc = "fields"
    /\ fields = <<>>
    /\ Write(closeJsonObj(Buffer), "keys")
    /\ UNCHANGED <<fields, listing, keys>>

CloseBatch ==
    /\ pc = "keys"
    /\ Write(closeJsonObj(closeJsonArray(Buffer)), "scan")
    /\ UNCHANGED <<fields, listing, keys>>

(* The cursor is 0 again; SCAN was called once at least.                   *)
Finish ==
    /\ pc = "scan"
    /\ listing # <<>>
    /\ pc' = "idle"
    /\ UNCHANGED <<text, jsonLen, fields, listing, keys>>

-----------------------------------------------------------------------------
Init ==
    /\ pc = "idle"
    /\ text = <<>> /\ jsonLen = 0
    /\ fields = <<>>
    /\ listing = <<>> /\ keys = 0

Next ==
    \/ Begin \/ OpenBatch \/ OpenEntry \/ AppendField
    \/ CloseEntry \/ CloseBatch \/ Finish

Spec == Init /\ [][Next]_vars

-----------------------------------------------------------------------------
(* Properties.                                                             *)

Entry == [id : Nat, fields : Seq(Field)]

(* The variables keep their types.                                         *)
TypeOK ==
    /\ pc \in {"idle", "scan", "keys", "fields", "overrun"}
    /\ text \in Seq(Byte)
    /\ jsonLen \in Nat
    /\ fields \in Seq(Field)
    /\ listing \in Seq(Seq(Entry))
    /\ keys \in Nat

(* The length the code adds up call by call is the length of the text, so  *)
(* that strcat finds the end of it at once and every comma is decided by   *)
(* the last byte.                                                          *)
LengthIsExact == jsonLen = Len(text)

(* A printer that knows the listing as a whole: elements are separated by  *)
(* commas, and that is all it has to know of commas.                       *)
Separated(parts) ==
    LET upTo[i \in 0..Len(parts)] ==
            CASE i = 0 -> <<>>
              [] i = 1 -> parts[1]
              [] OTHER -> upTo[i - 1] \o <<"comma">> \o parts[i]
    IN  upTo[Len(parts)]

Braces(s) == <<"lbrace">> \o s \o <<"rbrace">>
Brackets(s) == <<"lbracket">> \o s \o <<"rbracket">>
Element(name, value) == Quoted(name) \o <<"colon">> \o Quoted(value)

PrintEntry(e) ==
    Braces(Separated(<<Element(IdName, e.id)>> \o
        [i \in DOMAIN e.fields |-> Element(e.fields[i].name, e.fields[i].value)]))

PrintBatch(entries) ==
    Braces(Quoted(OrdersName) \o <<"colon">> \o
           Brackets(Separated([i \in DOMAIN entries |-> PrintEntry(entries[i])])))

PrintListing(batches) ==
    Separated([i \in DOMAIN batches |-> PrintBatch(batches[i])])

(* The commas, names and brackets of an answer are those of the listing it *)
(* stands for: one document for each batch, also for an empty one.         *)
TextIsListing == pc = "scan" => text = PrintListing(listing)

(* Bytes a batch takes without its entries, and an entry at most, commas   *)
(* included.                                                               *)
BatchBytes == OrdersName + 8
EntryMax == IdName + IdMax + 8 + FieldMax * FieldsMax

(* The buffer is overrun only by a listing that is too large for it: one   *)
(* of so few batches and keys always fits, whatever their fields.          *)
SmallListingFits ==
    BatchBytes * Len(listing) + EntryMax * keys < Capacity => pc # "overrun"

=============================================================================
