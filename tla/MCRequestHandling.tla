-------------------------- MODULE MCRequestHandling --------------------------
EXTENDS RequestHandling

MCUrl(o, t, u, tail) == [orders |-> o, then |-> t, uuid |-> u, tail |-> tail]

(* /orders  /ordersx  /orders?..  /orders/  and the urls of one order.     *)
MCUrls ==
    {MCUrl(FALSE, "end", FALSE, "none"),
     MCUrl(TRUE, "end", FALSE, "none"),
     MCUrl(TRUE, "other", FALSE, "none"),
     MCUrl(TRUE, "question", FALSE, "other"),
     MCUrl(TRUE, "slash", FALSE, "none")} \cup
    {MCUrl(TRUE, t, TRUE, tail) :
        t \in {"slash", "other"}, tail \in {"none", "items", "transactions", "other"}}

(* An order without lists, two orders with entries, and text that is not   *)
(* JSON.                                                                   *)
MCBodies ==
    {[parse |-> "ok", valid |-> TRUE, entries |-> 0],
     [parse |-> "ok", valid |-> TRUE, entries |-> 2],
     [parse |-> "ok", valid |-> FALSE, entries |-> 1],
     [parse |-> "JSMN_ERROR_PART", valid |-> FALSE, entries |-> 0]}
=============================================================================
