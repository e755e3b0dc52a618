------------------------------ MODULE Brackets ------------------------------
(***************************************************************************)
(* What a tokenizer of JSON promises about the brackets of a text, told    *)
(* with the stack everybody has in mind: a closing bracket belongs to the  *)
(* latest opening one that is not closed, and they are of one kind.  The   *)
(* tokenizer of this program keeps no stack; Jsmn implements this one.     *)
(***************************************************************************)
EXTENDS Naturals, Sequences

(* A text as the tokenizer splits it: brackets, separators, white space,   *)
(* strings and primitives, and what is wrong with the last two.            *)
Opening == {"lbrace", "lbracket"}
Closing == {"rbrace", "rbracket"}
Faulty  == {"bad_string", "open_string", "bad_primitive"}
Symbol  == Opening \cup Closing \cup Faulty \cup
           {"colon", "comma", "space", "string", "primitive"}

Opener == [s \in Closing |-> IF s = "rbrace" THEN "lbrace" ELSE "lbracket"]
Fault  == [s \in Faulty |-> IF s = "open_string" THEN "JSMN_ERROR_PART"
                                                 ELSE "JSMN_ERROR_INVAL"]

VARIABLES
    text,            \* the text
    pos,             \* symbols read so far
    stack,           \* the opening brackets that are not closed
    verdict          \* "none" until the text is read, then "ok" or an error

vars == <<text, pos, stack, verdict>>

Reading == verdict = "none" /\ pos < Len(text)
Here == text[pos + 1]

Verdict(v) == verdict' = v /\ UNCHANGED <<text, pos, stack>>
Go(s) == stack' = s /\ pos' = pos + 1 /\ UNCHANGED <<text, verdict>>

Matches == stack # <<>> /\ stack[Len(stack)] = Opener[Here]

Open  == Reading /\ Here \in Opening /\ Go(Append(stack, Here))

Close ==
    /\ Reading
    /\ Here \in Closing
    /\ IF Matches THEN Go(SubSeq(stack, 1, Len(stack) - 1))
                  ELSE Verdict("JSMN_ERROR_INVAL")

Pass == Reading /\ Here \notin Opening \cup Closing \cup Faulty /\ Go(stack)

Fail == Reading /\ Here \in Faulty /\ Verdict(Fault[Here])

(* There may be no room left for the token of a bracket or a value.        *)
NoRoom ==
    /\ Reading
    /\ Here \in Opening \cup {"string", "primitive"}
    /\ Verdict("JSMN_ERROR_NOMEM")

Finish ==
    /\ verdict = "none"
    /\ pos = Len(text)
    /\ Verdict(IF stack = <<>> THEN "ok" ELSE "JSMN_ERROR_PART")

Init ==
    /\ text \in Seq(Symbol)
    /\ pos = 0
    /\ stack = <<>>
    /\ verdict = "none"

Next == Open \/ Close \/ Pass \/ Fail \/ NoRoom \/ Finish

Spec == Init /\ [][Next]_vars

=============================================================================
