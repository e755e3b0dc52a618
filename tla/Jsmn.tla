-------------------------------- MODULE Jsmn --------------------------------
(***************************************************************************)
(* The JSON tokenizer, as this program builds it (no parent links, not     *)
(* strict).  It fills an array of tokens from the left and keeps one index *)
(* into it, toksuper: the token whose child the next token will be.  What  *)
(* is open it finds by looking back over the array.                        *)
(*                                                                         *)
(* The text is a sequence of symbols (see Brackets), so that a string or a *)
(* primitive is read in one step; start and end count symbols.             *)
(***************************************************************************)
EXTENDS Integers, FiniteSetsExt, SequencesExt

CONSTANT Inputs      \* what jsmn_parse may be called with

Types == {"PRIMITIVE", "OBJECT", "ARRAY", "STRING"}
Containers == {"OBJECT", "ARRAY"}
Token == [type : Types, start : Nat, end : Nat \cup {-1}, size : Nat]

TypeOf == [s \in {"lbrace", "rbrace", "lbracket", "rbracket", "string", "primitive"} |->
              CASE s \in {"lbrace", "rbrace"} -> "OBJECT"
                [] s \in {"lbracket", "rbracket"} -> "ARRAY"
                [] s = "string"     -> "STRING"
                [] s = "primitive"  -> "PRIMITIVE"]

VARIABLES
    input,           \* the text, the length of the array of tokens, and (not
                     \* seen by the code) the tree the text may have
    pos,             \* the next symbol
    tokens,          \* the tokens filled so far
    toksuper,        \* index of a token, or -1
    count,           \* tokens counted for the result
    ret              \* "none", "ok" (count is returned) or an error

vars == <<input, pos, tokens, toksuper, count, ret>>

BracketSymbols == INSTANCE Brackets
    WITH text <- input.text, stack <- <<>>, verdict <- ret

Input == [text : Seq(BracketSymbols!Symbol), limit : Nat, tree : Seq(Token)]

ASSUME InputsAssumption == Inputs \subseteq Input

text == input.text
toknext == Len(tokens)
At(i) == tokens[i + 1]

(* The tokens with a start and no end yet.                                 *)
Unclosed(ts) == {i \in 0..(Len(ts) - 1) : ts[i + 1].end = -1}

LastOf(S) == IF S = {} THEN -1 ELSE Max(S)

-----------------------------------------------------------------------------
Return(code) ==
    /\ ret' = code
    /\ UNCHANGED <<input, pos, tokens, toksuper, count>>

Reads(S) == ret = "none" /\ pos < Len(text) /\ text[pos + 1] \in S

Symbol == text[pos + 1]

(* jsmn_alloc_token and what the callers do with it: the token is the next *)
(* one of the array, and one more child of toksuper.                       *)
Counted(ts) == IF toksuper = -1 THEN ts
               ELSE [ts EXCEPT ![toksuper + 1].size = @ + 1]

(* Wrong variants, for the mutants of the runs: a limit off by one; a      *)
(* container that is not counted.                                          *)
NewTokenPastLimit(end) ==
    /\ toknext <= input.limit
    /\ tokens' = Append(Counted(tokens),
           [type |-> TypeOf[Symbol], start |-> pos, end |-> end, size |-> 0])
    /\ count' = count + 1
    /\ pos' = pos + 1
    /\ UNCHANGED <<input, ret>>

NewTokenUncounted(end) ==
    /\ toknext < input.limit
    /\ tokens' = Append(Counted(tokens),
           [type |-> TypeOf[Symbol], start |-> pos, end |-> end, size |-> 0])
    /\ count' = IF end = -1 THEN count ELSE count + 1
    /\ pos' = pos + 1
    /\ UNCHANGED <<input, ret>>

NewToken(end) ==
    /\ toknext < input.limit
    /\ tokens' = Append(Counted(tokens),
           [type |-> TypeOf[Symbol], start |-> pos, end |-> end, size |-> 0])
    /\ count' = count + 1
    /\ pos' = pos + 1
    /\ UNCHANGED <<input, ret>>

(* case '{': case '[':                                                     *)
Open ==
    /\ Reads({"lbrace", "lbracket"})
    /\ NewToken(-1)
    /\ toksuper' = toknext

(* A string, or the primitive any other character begins.                  *)
Value ==
    /\ Reads({"string", "primitive"})
    /\ NewToken(pos + 1)
    /\ UNCHANGED toksuper

NoMemory ==
    /\ Reads({"lbrace", "lbracket", "string", "primitive"})
    /\ toknext >= input.limit
    /\ Return("JSMN_ERROR_NOMEM")

(* An escape JSON does not have, or a character that is not printable; a   *)
(* string without an end.  Both are seen before a token is asked for.      *)
BadValue ==
    \/ Reads({"bad_string", "bad_primitive"}) /\ Return("JSMN_ERROR_INVAL")
    \/ Reads({"open_string"}) /\ Return("JSMN_ERROR_PART")

(* Wrong variants: toksuper is not set to the enclosing container; the two *)
(* kinds of bracket are not told apart.                                    *)
CloseToNothing ==
    /\ Reads({"rbrace", "rbracket"})
    /\ LET last == LastOf(Unclosed(tokens))
       IN  IF last = -1 \/ At(last).type # TypeOf[Symbol]
           THEN Return("JSMN_ERROR_INVAL")
           ELSE /\ tokens' = [tokens EXCEPT ![last + 1].end = pos + 1]
                /\ toksuper' = -1
                /\ pos' = pos + 1
                /\ UNCHANGED <<input, count, ret>>

CloseAny ==
    /\ Reads({"rbrace", "rbracket"})
    /\ LET last == LastOf(Unclosed(tokens))
       IN  IF last = -1
           THEN Return("JSMN_ERROR_INVAL")
           ELSE /\ tokens' = [tokens EXCEPT ![last + 1].end = pos + 1]
                /\ toksuper' = LastOf(Unclosed(tokens'))
                /\ pos' = pos + 1
                /\ UNCHANGED <<input, count, ret>>

(* case '}': case ']': the last unclosed token is looked for, and then the *)
(* last one before it.                                                     *)
Close ==
    /\ Reads({"rbrace", "rbracket"})
    /\ LET last == LastOf(Unclosed(tokens))
       IN  IF last = -1 \/ At(last).type # TypeOf[Symbol]
           THEN Return("JSMN_ERROR_INVAL")
           ELSE /\ tokens' = [tokens EXCEPT ![last + 1].end = pos + 1]
                /\ toksuper' = LastOf(Unclosed(tokens'))
                /\ pos' = pos + 1
                /\ UNCHANGED <<input, count, ret>>

Space ==
    /\ Reads({"space"})
    /\ pos' = pos + 1
    /\ UNCHANGED <<input, tokens, toksuper, count, ret>>

(* Wrong variant: the value is counted here, and again when it is read.    *)
ColonCounts ==
    /\ Reads({"colon"})
    /\ toksuper' = toknext - 1
    /\ tokens' = IF tokens = <<>> THEN tokens
                 ELSE [tokens EXCEPT ![toknext].size = @ + 1]
    /\ pos' = pos + 1
    /\ UNCHANGED <<input, count, ret>>

(* case ':': the key becomes the parent of its value.                      *)
Colon ==
    /\ Reads({"colon"})
    /\ toksuper' = toknext - 1
    /\ pos' = pos + 1
    /\ UNCHANGED <<input, tokens, count, ret>>

(* Wrong variant: the next key becomes a child of the latest one.          *)
CommaStays ==
    /\ Reads({"comma"})
    /\ pos' = pos + 1
    /\ UNCHANGED <<input, tokens, toksuper, count, ret>>

(* case ',': back from the key to its object.  With toksuper = -1 the type *)
(* is read from the memory before the array: it may be anything.           *)
Comma ==
    /\ Reads({"comma"})
    /\ \/ /\ toksuper # -1 => At(toksuper).type \in Containers
          /\ UNCHANGED toksuper
       \/ /\ toksuper # -1 => At(toksuper).type \notin Containers
          /\ toksuper' = IF Unclosed(tokens) = {} THEN toksuper
                         ELSE Max(Unclosed(tokens))
    /\ pos' = pos + 1
    /\ UNCHANGED <<input, tokens, count, ret>>

(* After the loop.                                                         *)
End ==
    /\ ret = "none"
    /\ pos = Len(text)
    /\ Return(IF Unclosed(tokens) = {} THEN "ok" ELSE "JSMN_ERROR_PART")

(* jsmn_init, then jsmn_parse.                                             *)
Init ==
    /\ input \in Inputs
    /\ pos = 0
    /\ tokens = <<>>
    /\ toksuper = -1
    /\ count = 0
    /\ ret = "none"

Next ==
    \/ Open \/ Value \/ NoMemory \/ BadValue \/ Close
    \/ Space \/ Colon \/ Comma \/ End

Spec == Init /\ [][Next]_vars

-----------------------------------------------------------------------------
(* Properties.                                                             *)

(* The variables keep their types; toksuper never leaves the filled part   *)
(* of the array.                                                           *)
TypeOK ==
    /\ input \in Input
    /\ pos \in 0..Len(text)
    /\ tokens \in Seq(Token)
    /\ toknext <= input.limit
    /\ toksuper \in -1..(toknext - 1)
    /\ count \in Nat
    /\ ret \in {"none", "ok", "JSMN_ERROR_NOMEM", "JSMN_ERROR_INVAL",
                "JSMN_ERROR_PART"}

(* What is open is never out of reach of toksuper: with toksuper = -1      *)
(* nothing is open, so that the type case ',' then reads from before the   *)
(* array decides nothing.                                                  *)
NothingOpenAbove == \A i \in Unclosed(tokens) : i <= toksuper

(* The number validate_json takes for the number of tokens is the number   *)
(* of tokens that are filled.                                              *)
CountIsFilled == ret = "ok" => count = toknext

(* The children the tokens from index k on claim to have.                  *)
Claims(ts) ==
    LET from[k \in 0..Len(ts)] ==
            IF k = Len(ts) THEN 0 ELSE ts[k + 1].size + from[k + 1]
    IN  from

(* From any token on, no more children are claimed than tokens follow.     *)
ClaimsAreBacked ==
    \A k \in 0..(toknext - 1) : Claims(tokens)[k] <= toknext - 1 - k

-----------------------------------------------------------------------------
(* What a document is, and its tree.  A document is a text t of JSON, one  *)
(* value or several in a row, with any white space; its tree lists the     *)
(* values and the keys in the order in which they begin.                   *)

Leaves == {"string", "primitive"}
Beginning == {"lbrace", "lbracket"} \cup Leaves
Ending == {"rbrace", "rbracket"} \cup Leaves

(* The last place before p that is not white space, and what stands there. *)
Before(t, p) == LastOf({q \in 0..(p - 1) : t[q + 1] # "space"})
Preceding(t, p) == IF Before(t, p) = -1 THEN "none" ELSE t[Before(t, p) + 1]

Nodes(tree) == 0..(Len(tree) - 1)

(* The nodes around place p; the innermost of them, which is the last one. *)
Enclosing(tree, p) ==
    {k \in Nodes(tree) : tree[k + 1].start < p /\ p < tree[k + 1].end}
Around(tree, p) == LastOf(Enclosing(tree, p))

(* Every node stands where the text has its symbols.                       *)
Spans(t, x) ==
    /\ x.start < Len(t)
    /\ t[x.start + 1] \in Beginning
    /\ x.type = TypeOf[t[x.start + 1]]
    /\ IF x.type \in Containers
       THEN /\ x.end \in (x.start + 2)..Len(t)
            /\ t[x.end] \in {"rbrace", "rbracket"}
            /\ x.type = TypeOf[t[x.end]]
       ELSE x.end = x.start + 1

(* The nodes are in order and nested, and there is one for every symbol    *)
(* that asks for one.                                                      *)
LaidOut(t, tree) ==
    /\ \A k \in Nodes(tree) : Spans(t, tree[k + 1])
    /\ \A j, k \in Nodes(tree) : j < k =>
          /\ tree[j + 1].start < tree[k + 1].start
          /\ tree[j + 1].end <= tree[k + 1].start \/ tree[k + 1].end < tree[j + 1].end
    /\ \A p \in 0..(Len(t) - 1) :
          /\ t[p + 1] \in Beginning => \E k \in Nodes(tree) : tree[k + 1].start = p
          /\ t[p + 1] \in {"rbrace", "rbracket"} =>
                \E k \in Nodes(tree) : tree[k + 1].end = p + 1

(* What may stand at p in an object, in an array, and outside of both.     *)
KeyBegins(t, p) == Preceding(t, p) \in {"lbrace", "comma"}

MemberEnds(t, p) ==
    \/ Preceding(t, p) \in {"rbrace", "rbracket"}
    \/ Preceding(t, p) \in Leaves /\ Preceding(t, Before(t, p)) = "colon"

InObject(t, p) ==
    \/ t[p + 1] = "string" /\ KeyBegins(t, p)
    \/ t[p + 1] = "colon" /\ Preceding(t, p) = "string" /\ KeyBegins(t, Before(t, p))
    \/ t[p + 1] \in Beginning /\ Preceding(t, p) = "colon"
    \/ t[p + 1] = "comma" /\ MemberEnds(t, p)
    \/ t[p + 1] = "rbrace" /\ (MemberEnds(t, p) \/ Preceding(t, p) = "lbrace")

InArray(t, p) ==
    \/ t[p + 1] \in Beginning /\ Preceding(t, p) \in {"lbracket", "comma"}
    \/ t[p + 1] = "comma" /\ Preceding(t, p) \in Ending
    \/ t[p + 1] = "rbracket" /\ Preceding(t, p) \in Ending \cup {"lbracket"}

WellFormed(t, tree) ==
    \A p \in 0..(Len(t) - 1) : t[p + 1] # "space" =>
        LET k == Around(tree, p)
        IN  IF k = -1 THEN t[p + 1] \in Beginning
            ELSE IF tree[k + 1].type = "OBJECT" THEN InObject(t, p) ELSE InArray(t, p)

(* A value after a colon is the child of its key, which is the node before *)
(* it; anything else is the child of the innermost node around it.         *)
Parent(t, tree, k) ==
    LET p == tree[k + 1].start
    IN  IF Preceding(t, p) = "colon" THEN k - 1 ELSE Around(tree, p)

Children(t, tree, k) == {m \in Nodes(tree) : Parent(t, tree, m) = k}

IsDocument(t, tree) ==
    /\ LaidOut(t, tree)
    /\ WellFormed(t, tree)
    /\ \A k \in Nodes(tree) : tree[k + 1].size = Cardinality(Children(t, tree, k))

(* A JSON document for which there is room gives the tokens of its tree:   *)
(* each with its type, its place and the number of its children.  If there *)
(* is no room the caller is told so; nothing else goes wrong.              *)
TreeOfDocument ==
    (ret # "none" /\ IsDocument(text, input.tree)) =>
        IF Len(input.tree) <= input.limit
        THEN ret = "ok" /\ tokens = input.tree
        ELSE ret = "JSMN_ERROR_NOMEM"

-----------------------------------------------------------------------------
(* For any text, the verdict is that of the stack, and the unclosed tokens *)
(* are the stack.                                                          *)
SymbolOf(t) == IF t = "OBJECT" THEN "lbrace" ELSE "lbracket"

Increasing(s) == \A i, j \in DOMAIN s : i < j => s[i] < s[j]

(* The elements of a set of indexes, the least one first.                  *)
Enumeration(S) ==
    CHOOSE s \in [1..Cardinality(S) -> S] : Range(s) = S /\ Increasing(s)

StackOf(ts) ==
    LET open == Enumeration(Unclosed(ts))
    IN  [n \in DOMAIN open |-> SymbolOf(ts[open[n] + 1].type)]

Stack == StackOf(tokens)

Matching == INSTANCE Brackets
    WITH text <- input.text, stack <- Stack, verdict <- ret
MatchesBrackets == Matching!Spec

=============================================================================
