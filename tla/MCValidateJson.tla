--------------------------- MODULE MCValidateJson ---------------------------
(***************************************************************************)
(* The token streams validate_json is checked on: those jsmn makes of      *)
(* order documents, and any others, which is what it makes of other JSON.  *)
(***************************************************************************)
EXTENDS ValidateJson

CONSTANTS
    MaxFields,       \* fields of an order
    MaxEntries,      \* entries of a list
    MaxTokens        \* tokens of a stream that is not a document

Tok(w, n, v, role) == [word |-> w, size |-> n, valid |-> v, role |-> role]

(* A field name and its value; a name has its value for a child.           *)
Pair(f, v, key, value) == <<Tok(f, 1, TRUE, key), Tok("text", 0, v, value)>>

EntryTokens(l, e) ==
    <<Tok("object", Len(e), TRUE, l)>> \o
        FlattenSeq([n \in DOMAIN e |-> Pair(e[n][1], e[n][2], "entry_key", "entry_value")])

ListTokens(l, es) ==
    <<Tok(l, 1, TRUE, "key"), Tok("array", Len(es), TRUE, "array")>> \o
        FlattenSeq([n \in DOMAIN es |-> EntryTokens(l, es[n])])

ObjectTokens(fs) ==
    <<Tok("object", Len(fs), TRUE, "object")>> \o FlattenSeq(fs)

(* Entries: empty, good, with a bad value, with a repeated field, with a   *)
(* field that is not checked, with a field of the other list.              *)
ItemEntries ==
    {<<>>, <<<<"sku", TRUE>>>>, <<<<"sku", TRUE>>, <<"quantity", FALSE>>>>,
     <<<<"sku", FALSE>>, <<"sku", TRUE>>>>, <<<<"type", TRUE>>>>}
TransactionEntries ==
    {<<>>, <<<<"id", TRUE>>>>, <<<<"type", FALSE>>, <<"amount", FALSE>>>>}

Upto(S, n) == UNION {[1..m -> S] : m \in 0..n}

Fields ==
    {Pair("id", v, "key", "value") : v \in BOOLEAN} \cup
    {Pair("notes", FALSE, "key", "value")} \cup
    {ListTokens("items", es) : es \in Upto(ItemEntries, MaxEntries)} \cup
    {ListTokens("transactions", es) : es \in Upto(TransactionEntries, MaxEntries)}

(* One order, or two short ones in a row, perhaps with an empty one        *)
(* between them: jsmn accepts several roots.                               *)
Documents == UNION {
    {ObjectTokens(fs) : fs \in Upto(Fields, MaxFields)},
    {ObjectTokens(fs) \o between \o ObjectTokens(gs) :
        fs \in Upto(Fields, 1), gs \in Upto(Fields, 1),
        between \in {<<>>, ObjectTokens(<<>>)}}}

DocumentInputs == [parse : {"ok"}, tokens : Documents, validate : BOOLEAN]

StreamTokens ==
    {Tok(w, n, TRUE, "none") :
        w \in {"id", "items", "transactions", "text"}, n \in 0..2}

StreamInputs ==
    [parse : {"ok"}, tokens : Upto(StreamTokens, MaxTokens), validate : {FALSE}]

FailedInputs == [parse : ParseErrors, tokens : {<<>>}, validate : BOOLEAN]

AllInputs == DocumentInputs \cup StreamInputs \cup FailedInputs
=============================================================================
