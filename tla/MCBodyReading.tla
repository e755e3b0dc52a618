--------------------------- MODULE MCBodyReading ---------------------------
(***************************************************************************)
(* Orders as they are sent: every symbol with what is meant by it.  Bodies *)
(* that are cut short are texts, too, but no orders; so is any other text, *)
(* and any document (MCJsmn).                                              *)
(***************************************************************************)
EXTENDS MCJsmn, BodyReading

CONSTANTS
    MaxFields,       \* fields of an order
    MaxEntries,      \* entries of a list
    OrderLimits      \* lengths of the array of tokens for orders

Mark(s, w, v, role) ==
    [symbol |-> s, lexeme |-> [word |-> w, valid |-> v, role |-> role]]

Sign(s) == <<Mark(s, "none", TRUE, "none")>>

Pair(f, v, key, value) ==
    <<Mark("string", f, TRUE, key)>> \o Sign("colon") \o
        <<Mark("primitive", "none", v, value)>>

Joined(parts) == FlattenSeq([n \in DOMAIN parts |->
    IF n = 1 THEN parts[n] ELSE Sign("comma") \o parts[n]])

Braced(role, members) ==
    <<Mark("lbrace", "none", TRUE, role)>> \o Joined(members) \o Sign("rbrace")

EntryText(l, e) ==
    Braced(l, [n \in DOMAIN e |-> Pair(e[n][1], e[n][2], "entry_key", "entry_value")])

ListText(l, es) ==
    <<Mark("string", l, TRUE, "key")>> \o Sign("colon") \o
        <<Mark("lbracket", "none", TRUE, "array")>> \o
        Joined([n \in DOMAIN es |-> EntryText(l, es[n])]) \o Sign("rbracket")

OrderText(fs) == Braced("object", fs)

(* Empty entries, good ones, with a bad value, with a repeated field, with *)
(* a field of the other list.                                              *)
ItemEntries == {<<>>, <<<<"sku", TRUE>>>>, <<<<"sku", FALSE>>, <<"sku", TRUE>>>>,
                <<<<"type", TRUE>>>>}
TransactionEntries == {<<>>, <<<<"type", FALSE>>, <<"amount", TRUE>>>>}

Upto(S, n) == UNION {[1..m -> S] : m \in 0..n}

(* Checked values, one that is not checked, a field that is not known.     *)
Members(n) ==
    {Pair("id", v, "key", "value") : v \in BOOLEAN} \cup
    {Pair("notes", FALSE, "key", "value"), Pair("none", TRUE, "key", "value")} \cup
    {ListText("items", es) : es \in Upto(ItemEntries, n)} \cup
    {ListText("transactions", es) : es \in Upto(TransactionEntries, n)}

(* White space after every symbol.                                         *)
Spaced(marks) == FlattenSeq([n \in DOMAIN marks |-> <<marks[n]>> \o Sign("space")])

(* Orders with one long list, or with several members; two orders in a     *)
(* row; an order with white space.                                         *)
Short == {OrderText(fs) : fs \in Upto(Members(1), 1)}
Orders ==
    {OrderText(<<m>>) : m \in Members(MaxEntries)} \cup
    {OrderText(fs) : fs \in Upto(Members(1), MaxFields)} \cup
    {m \o n : m \in Short, n \in Short} \cup
    {Spaced(m) : m \in Short}

Symbols(marks) == [n \in DOMAIN marks |-> marks[n].symbol]
Lexemes(marks) == [n \in DOMAIN marks |-> marks[n].lexeme]

(* The tree of a text with matching brackets: where each node begins and   *)
(* ends, and how many children it has.                                     *)
TreeOf(t) ==
    LET starts == SelectSeq([p \in 1..Len(t) |-> p], LAMBDA p : t[p] \in Beginning)
        closing(p) ==
            Min({q \in p..Len(t) :
                    LET inside == p..q
                    IN  Cardinality({o \in inside : t[o] \in {"lbrace", "lbracket"}}) =
                        Cardinality({o \in inside : t[o] \in {"rbrace", "rbracket"}})})
        bare == [n \in DOMAIN starts |->
                    [type |-> TypeOf[t[starts[n]]], start |-> starts[n] - 1,
                     end |-> closing(starts[n]), size |-> 0]]
    IN  [n \in DOMAIN bare |->
            [bare[n] EXCEPT !.size = Cardinality(Children(t, bare, n - 1))]]

OrderBodies == UNION {
    LET t == Symbols(m)
        tree == TreeOf(t)
    IN  {[input |-> [text |-> t, limit |-> n, tree |-> tree],
          lexemes |-> Lexemes(m), validate |-> v] : n \in OrderLimits, v \in BOOLEAN} :
    m \in Orders}

(* A body whose last symbols did not arrive.                               *)
CutBodies == UNION {
    {[input |-> [text |-> Symbols(SubSeq(m, 1, k)), limit |-> Max(OrderLimits), tree |-> <<>>],
      lexemes |-> Lexemes(SubSeq(m, 1, k)), validate |-> TRUE] : k \in 0..(Len(m) - 1)} :
    m \in Short}

(* Texts and documents in which nothing is meant.                          *)
OtherBodies ==
    {[input |-> t, lexemes |-> [n \in DOMAIN t.text |-> Sign("none")[1].lexeme],
      validate |-> TRUE] : t \in MCInputs}

MCBodies == OrderBodies \cup CutBodies \cup OtherBodies
BodyInputs == {b.input : b \in MCBodies}
=============================================================================
