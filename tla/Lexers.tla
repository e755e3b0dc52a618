------------------------------- MODULE Lexers -------------------------------
(***************************************************************************)
(* The lexers re2c generates: what parses methods and keys, and what       *)
(* checks identifiers, numbers, dates and enumerations.  A lexer is a list *)
(* of rules and answers for the longest beginning of the text that one of  *)
(* them matches, the first of them if there are several; no beginning is   *)
(* the rule "", which answers 0.                                           *)
(*                                                                         *)
(* A symbol is a class of characters that no rule tells apart, or a part   *)
(* of a keyword inside which the generated automaton does not branch;      *)
(* anything else is "other".  Letters stand for both cases (the generator  *)
(* is run with --case-insensitive).                                        *)
(***************************************************************************)
EXTENDS Integers, Sequences, FiniteSetsExt

CONSTANT Calls       \* what each lexer may be called with

-----------------------------------------------------------------------------
(* Rules: what is matched, whether its last symbol may be repeated, and    *)
(* the answer.                                                             *)
Word(parts, answer) ==
    [pattern |-> [n \in DOMAIN parts |-> {parts[n]}], repeat |-> FALSE,
     answer |-> answer]

Times(n, class) == [k \in 1..n |-> class]

MethodRules == <<
    Word(<<"GET">>, 14), Word(<<"P", "OST">>, 15), Word(<<"P", "UT">>, 16),
    Word(<<"DELETE">>, 17)>>

Hex  == {"digit", "a-f"}
Dash == <<{"dash"}>>

Part1 == Times(8, Hex)
Part2 == Times(4, Hex)

(* Wrong variant: the last part is as long as the first.                   *)
ShortPart3 == Times(8, Hex)

Part3 == Times(12, Hex)

UuidRules == <<
    [pattern |-> Part1 \o Dash \o Part2 \o Dash \o Part2 \o Dash \o Part2 \o
                 Dash \o Part3,
     repeat |-> FALSE, answer |-> 36]>>

GetSubitemRules == <<Word(<<"items">>, 4), Word(<<"transactions">>, 5)>>

PutSubitemRules == <<Word(<<"transactions">>, 3)>>

(* Wrong variant: two answers in the order of the alphabet.                *)
SwappedItemRules == <<
    Word(<<"sku">>, 11), Word(<<"unit_price">>, 13), Word(<<"quantity">>, 12)>>

ItemRules == <<
    Word(<<"sku">>, 11), Word(<<"unit_price">>, 12), Word(<<"quantity">>, 13)>>

TransactionRules == <<
    Word(<<"id">>, 14), Word(<<"external_id">>, 15),
    Word(<<"a", "mount">>, 16), Word(<<"type">>, 17),
    Word(<<"a", "uthorization_code">>, 18), Word(<<"card_", "b", "rand">>, 19),
    Word(<<"card_", "b", "in">>, 20), Word(<<"card_", "last">>, 21)>>

IdRules == <<
    Word(<<"i", "d">>, 1), Word(<<"n", "umber">>, 2), Word(<<"reference">>, 3),
    Word(<<"status">>, 4), Word(<<"created_at">>, 5), Word(<<"updated_at">>, 6),
    Word(<<"i", "tems">>, 7), Word(<<"n", "otes">>, 8),
    Word(<<"transactions">>, 9), Word(<<"price">>, 10)>>

StatusRules == <<
    Word(<<"DRAFT">>, 1), Word(<<"ENTERED">>, 4), Word(<<"C", "ANCELED">>, 8),
    Word(<<"PAID">>, 16), Word(<<"APPROVED">>, 32), Word(<<"RE", "JECTED">>, 64),
    Word(<<"RE", "dash", "ENTERED">>, 128), Word(<<"C", "LOSED">>, 256)>>

TypeRules == <<Word(<<"PAYMENT">>, 1), Word(<<"CANCEL">>, 4)>>

Digit == {"zero", "digit"}
AnyOf == Digit \cup {"letter or mark"}

(* Wrong variant: the rule of the numerals comes first.                    *)
IntRulesReordered == <<
    [pattern |-> <<Digit>>,           repeat |-> TRUE, answer |-> 1],
    [pattern |-> <<{"zero"}, Digit>>, repeat |-> TRUE, answer |-> 0],
    [pattern |-> <<AnyOf>>,           repeat |-> TRUE, answer |-> 0]>>

IntRules == <<
    [pattern |-> <<{"zero"}, Digit>>, repeat |-> TRUE, answer |-> 0],
    [pattern |-> <<Digit>>,           repeat |-> TRUE, answer |-> 1],
    [pattern |-> <<AnyOf>>,           repeat |-> TRUE, answer |-> 0]>>

Two  == Times(2, {"digit"})
Date == Times(4, {"digit"}) \o Dash \o Two \o Dash \o Two
Time == Two \o <<{"colon"}>> \o Two \o <<{"colon"}>> \o Two
DateEnd == <<{"dot"}>> \o Times(3, {"digit"})
DateRules == <<
    [pattern |-> Date \o <<{"T"}>> \o Time \o DateEnd \o <<{"Z"}>>,
     repeat |-> FALSE, answer |-> 1],
    [pattern |-> Date \o <<{"space"}>> \o Time \o DateEnd,
     repeat |-> FALSE, answer |-> 1]>>

Rules == [
    parse_method       |-> MethodRules,      check_uuid   |-> UuidRules,
    check_get_subitem  |-> GetSubitemRules,  parse_items  |-> ItemRules,
    check_put_subitem  |-> PutSubitemRules,  parse_id     |-> IdRules,
    parse_transactions |-> TransactionRules, check_status |-> StatusRules,
    check_type         |-> TypeRules,        check_int    |-> IntRules,
    check_date         |-> DateRules]

(* A call: the memory from the beginning of the text on, where the text    *)
(* ends in it, and where the lexer begins.  It may begin after the end:    *)
(* parse_put_url adds 13 to its cursor without looking.                    *)
Call == [memory : Seq(STRING), limit : Nat, from : Nat]

ASSUME CallsAssumption ==
    \A l \in DOMAIN Rules : \A c \in Calls[l] :
        c \in Call /\ c.limit <= Len(c.memory)

VARIABLES
    lexer,           \* the function called
    call,            \* its arguments
    cursor,          \* the next symbol
    live,            \* <<k, n>>: n symbols of rule k are matched
    marker,          \* the cursor after the latest match
    accepted,        \* the rule of that match, 0 for the rule ""
    id               \* the answer, -1 while there is none

vars == <<lexer, call, cursor, live, marker, accepted, id>>

rules == Rules[lexer]

Memory(n) == IF n < Len(call.memory) THEN call.memory[n + 1] ELSE "NUL"

(* Wrong variant: the end of the text is missed by who begins after it.    *)
PeekUntilEqual == IF cursor = call.limit THEN "NUL" ELSE Memory(cursor)

Peek == IF cursor >= call.limit THEN "NUL" ELSE Memory(cursor)

(* The rules that go on with symbol c.                                     *)
GoOn(c) ==
    {<<p[1], p[2] + 1>> : p \in {q \in live :
        /\ q[2] < Len(rules[q[1]].pattern)
        /\ c \in rules[q[1]].pattern[q[2] + 1]}}

(* Wrong variant: a repeated symbol counts as the next one.                *)
StayOnCounting(c) ==
    {<<p[1], p[2] + 1>> : p \in {q \in live :
        /\ q[2] = Len(rules[q[1]].pattern)
        /\ rules[q[1]].repeat
        /\ c \in rules[q[1]].pattern[q[2]]}}

StayOn(c) ==
    {q \in live :
        /\ q[2] = Len(rules[q[1]].pattern)
        /\ rules[q[1]].repeat
        /\ c \in rules[q[1]].pattern[q[2]]}

After(c) == GoOn(c) \cup StayOn(c)

Complete(states) == {q[1] : q \in {p \in states : p[2] >= Len(rules[p[1]].pattern)}}

-----------------------------------------------------------------------------
(* YYSKIP, and YYBACKUP when a rule is complete.                           *)
Skip ==
    /\ id = -1
    /\ After(Peek) # {}
    /\ cursor' = cursor + 1
    /\ live' = After(Peek)
    /\ IF Complete(live') = {}
       THEN UNCHANGED <<marker, accepted>>
       ELSE marker' = cursor' /\ accepted' = Min(Complete(live'))
    /\ UNCHANGED <<lexer, call, id>>

(* Wrong variant: the cursor is left where no rule goes on.                *)
AnswerWithoutRestore ==
    /\ id = -1
    /\ After(Peek) = {}
    /\ id' = IF accepted = 0 THEN 0 ELSE rules[accepted].answer
    /\ UNCHANGED <<lexer, call, cursor, live, marker, accepted>>

(* No rule goes on: YYRESTORE, and the action of the rule.                 *)
Answer ==
    /\ id = -1
    /\ After(Peek) = {}
    /\ cursor' = marker
    /\ id' = IF accepted = 0 THEN 0 ELSE rules[accepted].answer
    /\ UNCHANGED <<lexer, call, live, marker, accepted>>

Init ==
    /\ lexer \in DOMAIN Rules
    /\ call \in Calls[lexer]
    /\ cursor = call.from
    /\ live = {<<k, 0>> : k \in DOMAIN rules}
    /\ marker = call.from
    /\ accepted = 0
    /\ id = -1

Next == Skip \/ Answer

Spec == Init /\ [][Next]_vars

-----------------------------------------------------------------------------
(* Properties.                                                             *)

(* The variables keep their types: no rule is matched beyond its end.      *)
TypeOK ==
    /\ lexer \in DOMAIN Rules
    /\ call \in Call
    /\ cursor \in Nat
    /\ live \subseteq {<<k, n>> : k \in DOMAIN rules, n \in 0..36}
    /\ \A q \in live : q[2] <= Len(rules[q[1]].pattern)
    /\ marker \in call.from..cursor
    /\ accepted \in 0..Len(rules)
    /\ id \in -1..256

(* Nothing is read at or after the end of the text, also by a lexer that   *)
(* begins there.                                                           *)
ReadsBelowLimit == cursor <= Max({call.from, call.limit})

(* The text the lexer is given, as a sequence of its own.                  *)
Text == SubSeq(call.memory, call.from + 1, call.limit)

Matches(rule, t) ==
    /\ Len(t) >= Len(rule.pattern)
    /\ Len(t) > Len(rule.pattern) => rule.repeat
    /\ \A n \in 1..Len(t) : t[n] \in rule.pattern[Min({n, Len(rule.pattern)})]

MatchedBy(n) == {k \in DOMAIN rules : Matches(rules[k], SubSeq(Text, 1, n))}

(* The answer is that of the longest match, and the cursor is at its end:  *)
(* the automaton may go on after a match and come back to it.              *)
LongestMatch ==
    id # -1 =>
        LET lengths == {n \in 1..Len(Text) : MatchedBy(n) # {}}
        IN  IF lengths = {}
            THEN id = 0 /\ cursor = call.from
            ELSE /\ id = rules[Min(MatchedBy(Max(lengths)))].answer
                 /\ cursor = call.from + Max(lengths)

(* check_int accepts the numerals without leading zeros: the part of the   *)
(* text before the first character that is in no number and no word must   *)
(* be one.                                                                 *)
WordEnd == LET stops == {n \in 1..Len(Text) : Text[n] \notin AnyOf}
           IN  IF stops = {} THEN Len(Text) ELSE Min(stops) - 1

IntIsNumeral ==
    (lexer = "check_int" /\ id # -1) =>
        (id = 1 <=> /\ WordEnd > 0
                    /\ \A n \in 1..WordEnd : Text[n] \in Digit
                    /\ Text[1] = "zero" => WordEnd = 1)

(* check_uuid answers with the number of characters it has read: the url   *)
(* parsers move their cursor by it.                                        *)
UuidIsItsLength ==
    (lexer = "check_uuid" /\ id > 0) => cursor = call.from + id

(* The answers for whole words are the numbers request.h has for them,     *)
(* with which validate_json and handle_request go on.                      *)
Header == [
    parse_method |-> {<<<<"GET">>, 14>>, <<<<"P", "OST">>, 15>>,
                      <<<<"P", "UT">>, 16>>, <<<<"DELETE">>, 17>>},
    check_get_subitem |-> {<<<<"items">>, 4>>, <<<<"transactions">>, 5>>},
    check_put_subitem |-> {<<<<"transactions">>, 3>>},
    parse_id |-> {<<<<"i", "d">>, 1>>, <<<<"n", "umber">>, 2>>,
                  <<<<"reference">>, 3>>, <<<<"status">>, 4>>,
                  <<<<"created_at">>, 5>>, <<<<"updated_at">>, 6>>,
                  <<<<"i", "tems">>, 7>>, <<<<"n", "otes">>, 8>>,
                  <<<<"transactions">>, 9>>, <<<<"price">>, 10>>},
    parse_items |-> {<<<<"sku">>, 11>>, <<<<"unit_price">>, 12>>,
                     <<<<"quantity">>, 13>>},
    parse_transactions |->
        {<<<<"id">>, 14>>, <<<<"external_id">>, 15>>, <<<<"a", "mount">>, 16>>,
         <<<<"type">>, 17>>, <<<<"a", "uthorization_code">>, 18>>,
         <<<<"card_", "b", "rand">>, 19>>, <<<<"card_", "b", "in">>, 20>>,
         <<<<"card_", "last">>, 21>>},
    check_status |->
        {<<<<"DRAFT">>, 1>>, <<<<"ENTERED">>, 4>>, <<<<"C", "ANCELED">>, 8>>,
         <<<<"PAID">>, 16>>, <<<<"APPROVED">>, 32>>, <<<<"RE", "JECTED">>, 64>>,
         <<<<"RE", "dash", "ENTERED">>, 128>>, <<<<"C", "LOSED">>, 256>>},
    check_type |-> {<<<<"PAYMENT">>, 1>>, <<<<"CANCEL">>, 4>>}]

WordsAsInHeader ==
    (id # -1 /\ lexer \in DOMAIN Header) =>
        \A w \in Header[lexer] : Text = w[1] => id = w[2]

(* LongestMatch says that a lexer follows its rules; this, that the rules  *)
(* mean what their callers take the answers for: a numeral, the length of  *)
(* an identifier, a keyword.                                               *)
RulesAsMeant == IntIsNumeral /\ UuidIsItsLength /\ WordsAsInHeader

=============================================================================
