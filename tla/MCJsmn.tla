------------------------------- MODULE MCJsmn -------------------------------
(***************************************************************************)
(* Every short text, and JSON documents with the tokens they should give.  *)
(***************************************************************************)
EXTENDS Jsmn

CONSTANTS
    MaxText,         \* symbols of an arbitrary text
    MaxSteering,     \* and of one with brackets, separators and strings only
    Depth,           \* nesting of a document
    Limits           \* lengths of the array of tokens

(* A primitive ends at white space, a separator or a closing bracket, and  *)
(* a string without an end ends with the text.                             *)
IsText(t) == \A n \in DOMAIN t :
    /\ t[n] = "primitive" /\ n < Len(t) =>
          t[n + 1] \in {"colon", "comma", "space", "rbrace", "rbracket"}
    /\ t[n] = "open_string" => n = Len(t)

(* Nothing is read behind a closing bracket for which there is no other.   *)
Some(t, n, symbols) == Cardinality({m \in 1..n : t[m] \in symbols})
IsRead(t) == \A n \in 1..(Len(t) - 1) :
    Some(t, n, {"rbrace", "rbracket"}) <= Some(t, n, {"lbrace", "lbracket"})

Texts(symbols, n) ==
    LET upto[k \in 0..n] ==
            IF k = 0 THEN {<<>>}
            ELSE {<<>>} \cup {Append(t, s) : t \in upto[k - 1], s \in symbols}
    IN  {t \in upto[n] : IsText(t) /\ IsRead(t)}

(* All symbols in short texts; in longer ones those that steer toksuper.   *)
Steering == {"lbrace", "rbrace", "lbracket", "rbracket", "colon", "comma", "string"}

AnyTexts == Texts(BracketSymbols!Symbol, MaxText) \cup Texts(Steering, MaxSteering)

(* A document: its text and its tokens, with places counted from its       *)
(* beginning.                                                              *)
Leaf(s) == [text |-> <<s>>,
            tree |-> <<[type |-> TypeOf[s], start |-> 0, end |-> 1, size |-> 0]>>]

Moved(tree, n) ==
    [k \in DOMAIN tree |-> [tree[k] EXCEPT !.start = @ + n, !.end = @ + n]]

After(d, e) == [text |-> d.text \o e.text,
                tree |-> d.tree \o Moved(e.tree, Len(d.text))]

Sep(s) == [text |-> <<s>>, tree |-> <<>>]

(* "key" : value                                                           *)
Member(v) ==
    LET m == After(After(Leaf("string"), Sep("colon")), v)
    IN  [m EXCEPT !.tree[1].size = 1]

(* Zero, one or two elements between brackets.                             *)
Enclosed(open, close, es) ==
    LET inside == CASE Len(es) = 0 -> Sep("space")
                    [] Len(es) = 1 -> es[1]
                    [] Len(es) = 2 -> After(After(es[1], Sep("comma")), es[2])
        n == Len(inside.text) + 2
    IN  [text |-> <<open>> \o inside.text \o <<close>>,
         tree |-> <<[type |-> TypeOf[open], start |-> 0, end |-> n,
                     size |-> Len(es)]>> \o Moved(inside.tree, 1)]

Upto2(S) == UNION {[1..n -> S] : n \in 0..2}

Documents[d \in 0..Depth] ==
    IF d = 0 THEN {Leaf("string"), Leaf("primitive")}
    ELSE LET inner == Documents[d - 1]
         IN  {Leaf("string"), Leaf("primitive")} \cup
             {Enclosed("lbracket", "rbracket", es) : es \in Upto2(inner)} \cup
             {Enclosed("lbrace", "rbrace", es) : es \in Upto2({Member(v) : v \in inner})}

(* White space after every symbol.                                         *)
Spread(d) ==
    [text |-> FlattenSeq([n \in DOMAIN d.text |-> <<d.text[n], "space">>]),
     tree |-> [k \in DOMAIN d.tree |->
                  [d.tree[k] EXCEPT !.start = 2 * @, !.end = 2 * @ - 1]]]

(* Several values in a row, too, and no value at all.                      *)
AllDocuments ==
    LET one == Documents[Depth] \cup
               {After(After(d, Sep("space")), e) : d \in Documents[1], e \in Documents[1]} \cup
               {[text |-> <<>>, tree |-> <<>>]}
    IN  one \cup {Spread(d) : d \in one}

(* They are documents: the trees built here are those of their texts.      *)
ASSUME DocumentsAssumption == \A d \in AllDocuments : IsDocument(d.text, d.tree)

(* Each with every length of the array; the longer texts with the greatest *)
(* only, in which there is room for all their tokens.                      *)
Texted == {[text |-> t, tree |-> <<>>] : t \in AnyTexts}
IsLong(d) == d.tree = <<>> /\ Len(d.text) > MaxText

MCInputs ==
    {[text |-> p[1].text, limit |-> p[2], tree |-> p[1].tree] :
        p \in {q \in (AllDocuments \cup Texted) \X Limits :
                  IsLong(q[1]) => q[2] = Max(Limits)}}
=============================================================================
