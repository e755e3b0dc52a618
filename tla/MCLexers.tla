------------------------------ MODULE MCLexers ------------------------------
(***************************************************************************)
(* Short texts over the symbols of each lexer, ended everywhere, and whole *)
(* identifiers and dates with one symbol wrong.                            *)
(***************************************************************************)
EXTENDS Lexers

CONSTANT MaxText     \* symbols of a short text

Symbols(l) ==
    LET table == Rules[l]
        classes(k) == LET p == table[k].pattern IN {p[n] : n \in DOMAIN p}
    IN  UNION UNION {classes(k) : k \in DOMAIN table} \cup {"other"}

CallOf(text, end, begin) ==
    [memory |-> text, limit |-> end, from |-> begin]

ShortCalls(l) ==
    {CallOf(t, n, 0) : t \in [1..MaxText -> Symbols(l)], n \in 0..MaxText}

(* A text that a rule matches, of the symbol `choice` where that may be.   *)
Instance(rule, choice) ==
    [n \in DOMAIN rule.pattern |->
        IF choice \in rule.pattern[n] THEN choice
        ELSE CHOOSE c \in rule.pattern[n] : TRUE]

Long(l) ==
    LET table == Rules[l]
    IN  {Instance(table[k], c) : k \in DOMAIN table, c \in {"digit", "a-f"}}

Spoiled(l, t) ==
    LET symbols == Symbols(l)
    IN  {[t EXCEPT ![n] = c] : n \in DOMAIN t, c \in symbols}

LongCalls(l) ==
    UNION {{CallOf(m, n, 0) : m \in Spoiled(l, t \o <<"digit">>),
                              n \in {Len(t) - 1, Len(t), Len(t) + 1}} : t \in Long(l)}

(* An identifier in the memory after the end of the text.                  *)
LateCalls(l) == {CallOf(<<"other">> \o t, 0, 1) : t \in Long(l)}

MCCalls == [l \in DOMAIN Rules |->
    IF l \in {"check_uuid", "check_date"} THEN LongCalls(l) \cup LateCalls(l)
                                          ELSE ShortCalls(l)]
=============================================================================
