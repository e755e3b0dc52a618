---------------------------- MODULE AtomicOrders ----------------------------
(***************************************************************************)
(* What the order store promises its clients, with Redis, connections and  *)
(* processes left out: an order enters the store in one indivisible step,  *)
(* at most once, and a DELETE empties the whole store in one step.         *)
(* OrderService implements this specification; OrderListing reads a store  *)
(* that changes by these steps only.                                       *)
(***************************************************************************)
CONSTANT Uuid        \* the identifiers gen_uuid may return

VARIABLES
    orders,          \* the orders a reader of the store can see
    everStored       \* history: every order that was ever stored

vars == <<orders, everStored>>

Init ==
    /\ orders = {}
    /\ everStored = {}

(* POST: a new order becomes visible, complete, under an unused identifier. *)
Store(u) ==
    /\ u \notin everStored
    /\ orders' = orders \cup {u}
    /\ everStored' = everStored \cup {u}

(* DELETE: FLUSHALL. *)
Clear ==
    /\ orders' = {}
    /\ UNCHANGED everStored

Next ==
    \/ \E u \in Uuid : Store(u)
    \/ Clear

Spec == Init /\ [][Next]_vars

=============================================================================
