---------------------------- MODULE MCJsonBuilder ----------------------------
(***************************************************************************)
(* The lengths are those of the program: the four fields post() stores, a  *)
(* uuid, and a uuid with .items or .transactions after it.                 *)
(***************************************************************************)
EXTENDS JsonBuilder

MCField(n, v) == [name |-> n, value |-> v]

(* status DRAFT, created_at, updated_at, price 1000.                       *)
OrderFields == <<MCField(6, 5), MCField(10, 14), MCField(10, 14), MCField(5, 4)>>

(* An order may be gone when it is read; the lists have no fields.         *)
MCReplies == [n \in {36, 42, 49} |-> IF n = 36 THEN {OrderFields, <<>>} ELSE {<<>>}]
=============================================================================
