---------------------------- MODULE BodyReading ----------------------------
(***************************************************************************)
(* validate_json from the text of a body to the jsonEntry: jsmn_parse      *)
(* fills the array of tokens (Jsmn), and the walk goes over what it has    *)
(* filled (ValidateJson).  The lexers are asked for the text of a token;   *)
(* their answers are given for every place of the text (Lexers).           *)
(***************************************************************************)
EXTENDS Jsmn

(* What stands at a place of the text: the keyword that begins there, and  *)
(* whether the check of the field it is the value of accepts it.  The role *)
(* is not seen by the code; it is what is meant there.                     *)
Lexeme == [word : STRING, valid : BOOLEAN, role : STRING]

CONSTANT Bodies      \* what validate_json may be called with

ASSUME BodiesAssumption ==
    /\ {b.input : b \in Bodies} = Inputs
    /\ \A b \in Bodies :
          b.lexemes \in [DOMAIN b.input.text -> Lexeme] /\ b.validate \in BOOLEAN

VARIABLES
    lexemes,         \* what the lexers say of each place
    validate,        \* an argument
    pc, list, at, fields, entries, entryFields, je, answer
                     \* the walk: pc, list, i, size, items, entries, je and
                     \* ret of ValidateJson

walk == <<pc, list, at, fields, entries, entryFields, je, answer>>
bodyVars == <<vars, lexemes, validate, walk>>

-----------------------------------------------------------------------------
(* A token is its place in the text and the number of its children: what   *)
(* the walk sees of it is what the lexers find from tokens[i].start on.    *)
Seen(ts) ==
    [n \in DOMAIN ts |->
        LET here == lexemes[ts[n].start + 1]
        IN  [word |-> here.word, size |-> ts[n].size,
             valid |-> here.valid, role |-> here.role]]

(* The tokens jsmn_parse has counted are those it has filled.              *)
Parsed == [parse |-> ret, tokens |-> Seen(tokens), validate |-> validate]

Walk == INSTANCE ValidateJson
    WITH Inputs <- {}, input <- Parsed, i <- at, size <- fields,
         items <- entries, entries <- entryFields, ret <- answer

(* jsmn_parse runs; then the walk does.                                    *)
Tokenize == Next /\ UNCHANGED <<lexemes, validate, walk>>

WalkOn ==
    /\ ret # "none"
    /\ UNCHANGED <<vars, lexemes, validate>>
    /\ Walk!Next

BodyInit ==
    /\ \E b \in Bodies :
          input = b.input /\ lexemes = b.lexemes /\ validate = b.validate
    /\ Init
    /\ pc = "parse"
    /\ list = "items"
    /\ at = 0 /\ fields = 0 /\ entries = 0 /\ entryFields = 0
    /\ je = Walk!EmptyJsonEntry
    /\ answer = "none"

BodyNext == Tokenize \/ WalkOn

BodySpec == BodyInit /\ [][BodyNext]_bodyVars

-----------------------------------------------------------------------------
(* What an order is: a document (see Jsmn) whose nodes have the place in   *)
(* it that is meant for them.                                              *)

ListFields == {"items", "transactions"}

Role(k) == lexemes[input.tree[k + 1].start + 1].role
Word(k) == lexemes[input.tree[k + 1].start + 1].word
Up(k) == Parent(text, input.tree, k)

(* What the children of a node are; a value has none.                      *)
RoleUnder(k) ==
    CASE k = -1 -> "object"
      [] k # -1 /\ Role(k) = "object" -> "key"
      [] k # -1 /\ Role(k) = "key" ->
            IF Word(k) \in ListFields THEN "array" ELSE "value"
      [] k # -1 /\ Role(k) = "array" ->
            IF Word(k - 1) = "items" THEN "items" ELSE "transactions"
      [] k # -1 /\ Role(k) \in ListFields -> "entry_key"
      [] k # -1 /\ Role(k) = "entry_key" -> "entry_value"

HasParts == {"object", "key", "array", "entry_key"} \cup ListFields

IsOrder ==
    /\ IsDocument(text, input.tree)
    /\ \A k \in Nodes(input.tree) :
          /\ Up(k) = -1 \/ Role(Up(k)) \in HasParts
          /\ Role(k) = RoleUnder(Up(k))
          /\ Role(k) \in {"object"} \cup ListFields => input.tree[k + 1].type = "OBJECT"
          /\ Role(k) = "array" => input.tree[k + 1].type = "ARRAY"

(* The values of a field of the order, the entries of a list, the values   *)
(* of a field of an entry.                                                 *)
Values(f) == {k \in Nodes(input.tree) : Role(k) = "value" /\ Word(Up(k)) = f}

EntriesOf(l) == {k \in Nodes(input.tree) : Role(k) = l}

EntryValues(h, f) ==
    {k \in Nodes(input.tree) :
        Role(k) = "entry_value" /\ Word(Up(k)) = f /\ Up(Up(k)) = h}

(* A transaction that is the last node, an empty one, gets no entry.       *)
Allocated(l) ==
    IF l = "transactions" THEN EntriesOf(l) \ {Len(input.tree) - 1} ELSE EntriesOf(l)

Latest(S) == IF S = {} THEN 0 ELSE Max(S)

Valid(k) == lexemes[input.tree[k + 1].start + 1].valid

(* A field that is not known where it stands, or whose value is not        *)
(* accepted, anywhere in the order.                                        *)
FaultAt(k, known, checked) ==
    \/ Word(k) \notin known
    \/ validate /\ Word(k) \in checked /\ ~Valid(k + 1)

Faulty ==
    \E k \in Nodes(input.tree) :
        \/ /\ Role(k) = "key"
           /\ FaultAt(k, Walk!ScalarFields \cup ListFields, Walk!CheckedScalars)
        \/ /\ Role(k) = "entry_key"
           /\ FaultAt(k, Walk!EntryFields[Role(Up(k))], Walk!CheckedEntryFields[Role(Up(k))])

-----------------------------------------------------------------------------
(* What validate_json makes of the text of an order.  One with more nodes  *)
(* than the array has tokens is refused, and nothing of it is recorded.    *)
(* One with a fault is objected to.  Of any other the jsonEntry says, for  *)
(* every field, where in the text its value is: the last one if the field  *)
(* is repeated; and of every entry of a list the same, the last entry      *)
(* first.                                                                  *)
FieldsOfText ==
    (pc = "done" /\ IsOrder) =>
        IF Len(input.tree) > input.limit
        THEN answer = "JSMN_ERROR_NOMEM" /\ je = Walk!EmptyJsonEntry
        ELSE IF Faulty
        THEN answer = "-2"
        ELSE /\ answer # "-2"
             /\ \A f \in Walk!ScalarFields : je.scalar[f] = Latest(Values(f))
             /\ \A l \in ListFields :
                   /\ Len(je[l]) = Cardinality(Allocated(l))
                   /\ \A h \in Allocated(l), f \in Walk!EntryFields[l] :
                         je[l][Cardinality({g \in Allocated(l) : g >= h})][f] =
                             Latest(EntryValues(h, f))

=============================================================================
