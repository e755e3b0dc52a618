---------------------------- MODULE OrderListing ----------------------------
(***************************************************************************)
(* GET /orders and GET /orders?...: one process walks the keys of the      *)
(* store with SCAN and reads each of them with HGETALL, one round trip at  *)
(* a time, while other processes store and flush orders.  The store moves  *)
(* by the steps of AtomicOrders, which OrderService implements.            *)
(*                                                                         *)
(* get_all and get_by_value differ in two things: how they read the cursor *)
(* of a SCAN reply, and what they do when there is no reply.               *)
(***************************************************************************)
EXTENDS Naturals, FiniteSetsExt

CONSTANTS
    Uuid,
    Places,          \* number of slots of the server's largest key table
    PlaceOf,         \* PlaceOf[k]: where SCAN meets key k, in 0..Places-1
    CursorOf,        \* CursorOf[i]: the cursor that names place i
    Sizes,           \* the sizes the server's key table may have
    Count,           \* keys after which a SCAN reply ends (Redis: 10)
    Routes,          \* the handlers under study
    Breakable,       \* those whose connection may break during the listing
    Refusable        \* commands the server may answer with an error reply

Keys == {"hash", "items", "transactions"}
Key == [id : Uuid, part : Keys]

Place == 0..(Places - 1)

ASSUME ListingAssumption ==
    /\ Places \in Nat \ {0} /\ Places - 1 <= 2147483647
    /\ PlaceOf \in [Key -> Place]
    /\ CursorOf \in [Place -> Place]
    /\ CursorOf[0] = 0
    /\ \A i, j \in Place : CursorOf[i] = CursorOf[j] => i = j
    /\ Sizes \subseteq {n \in 1..Places : Places % n = 0}
    /\ Sizes # {}
    /\ Count \in Nat \ {0}
    /\ Routes \subseteq {"get_all", "get_by_value"}
    /\ Breakable \subseteq Routes
    /\ Refusable \subseteq {"SCAN", "HGETALL"}

VARIABLES
    orders, everStored,  \* the store, see AtomicOrders
    size,            \* number of slots of the server's key table
    route,           \* the handler that runs
    pc,              \* "scan", "keys", "done" or "crashed"
    cursor,          \* the local variable: argument of the next SCAN
    batch,           \* keys of the current SCAN reply still to be read
    listed,          \* what the answer holds so far, a set of entries
    open,            \* the connection is usable
    stayed,          \* history: the keys that existed all along
    overtaken        \* history: the keys a DELETE removed after a SCAN had
                     \* found them and before an HGETALL read them

store   == <<orders, everStored, size>>
history == <<stayed, overtaken>>
vars == <<store, route, pc, cursor, batch, listed, open, history>>

Store == INSTANCE AtomicOrders

-----------------------------------------------------------------------------
(* Redis SCAN (external).  Redis increments the cursor with its bits       *)
(* reversed, so that a table of any size is walked along the same line of  *)
(* places: in a table of n slots, a slot covers Places \div n of them.     *)

KeysOf(os) == {k \in Key : k.id \in os}

Width == Places \div size

(* The place a cursor names.                                               *)
PlaceNamed(c) == CHOOSE j \in Place : CursorOf[j] = c

(* The walk starts at the beginning of the slot the cursor falls into ...  *)
Start(c) == Width * (PlaceNamed(c) \div Width)

Between(i, j) == {k \in KeysOf(orders) : i <= PlaceOf[k] /\ PlaceOf[k] < j}

(* ... and ends with the first slot after which the reply is large enough, *)
(* has cost enough, or the table is done.                                  *)
End(c) ==
    Min({j \in (Start(c) + 1)..Places :
            /\ j % Width = 0
            /\ \/ Cardinality(Between(Start(c), j)) >= Count
               \/ (j - Start(c)) \div Width > 10 * Count
               \/ j = Places})

CursorAfter(j) == IF j = Places THEN 0 ELSE CursorOf[j]

-----------------------------------------------------------------------------
(* The handlers.                                                           *)

(* reply->element[0]->str[0] - '0': the first decimal digit.               *)
LeadingDigit[c \in Place] ==
    IF c < 10 THEN c ELSE LeadingDigit[c \div 10]

(* Wrong variant: the digit is not converted to its value.                 *)
DigitAsChar(c) == c + 48

(* What the code takes for the cursor: get_all uses atoi, which gives the  *)
(* number if it fits an int; tables here have no more places than that.    *)
CursorRead(c) == IF route = "get_all" THEN c ELSE LeadingDigit[c]

(* Wrong variant: the cursor is taken from the first reply only.           *)
ScanFirstCursor ==
    /\ pc = "scan"
    /\ open
    /\ batch' = Between(Start(cursor), End(cursor))
    /\ cursor' = IF cursor = 0 THEN CursorRead(CursorAfter(End(cursor))) ELSE cursor
    /\ pc' = "keys"
    /\ UNCHANGED <<store, route, listed, open, history>>

(* SCAN and its reply.                                                     *)
Scan ==
    /\ pc = "scan"
    /\ open
    /\ batch' = Between(Start(cursor), End(cursor))
    /\ cursor' = CursorRead(CursorAfter(End(cursor)))
    /\ pc' = "keys"
    /\ UNCHANGED <<store, route, listed, open, history>>

(* SCAN on a broken connection.  get_all reads the NULL reply and is gone; *)
(* get_by_value skips it and tries again with the same cursor, unless that *)
(* cursor is 0 (again: reading the batch is what changes it).              *)
ScanBroken ==
    /\ pc = "scan"
    /\ ~open
    /\ pc' = CASE route = "get_all" -> "crashed"
               [] route = "get_by_value" /\ cursor = 0 -> "done"
               [] OTHER -> "scan"
    /\ UNCHANGED <<store, route, cursor, batch, listed, open, history>>

(* SCAN answered with an error: the reply has no elements, and the code    *)
(* reads the first of them.                                                *)
ScanRefused ==
    /\ pc = "scan"
    /\ open
    /\ "SCAN" \in Refusable
    /\ pc' = "crashed"
    /\ UNCHANGED <<store, route, cursor, batch, listed, open, history>>

(* Wrong variant: HGETALL is sent the name as it is printed, without its   *)
(* prefix.                                                                 *)
NameRead(k) == [id |-> k.id, part |-> "no prefix"]

(* The key that is read with HGETALL for key k of the batch.               *)
KeyRead(k) == k

(* HGETALL: the fields of a hash that exists; an empty reply for a key     *)
(* that is gone, an error for the two lists.  Without fields the reply has *)
(* no elements, and the code does not tell one such reply from another.    *)
ReplyTo(k) ==
    IF k \notin KeysOf(orders) THEN "empty"
    ELSE IF k.part = "hash" THEN "fields" ELSE "wrong type"

(* One key of the batch becomes one element of the array: its name, less   *)
(* the "order:" prefix, and what the reply has.  The server orders the     *)
(* batch.                                                                  *)
ListKey ==
    /\ pc = "keys"
    /\ open
    /\ \E k \in batch :
        /\ batch' = batch \ {k}
        /\ listed' = listed \cup {[key |-> k, reply |-> ReplyTo(KeyRead(k))]}
    /\ UNCHANGED <<store, route, pc, cursor, open, history>>

(* HGETALL refused by the server: no elements, so no fields.               *)
ListKeyRefused ==
    /\ pc = "keys"
    /\ open
    /\ "HGETALL" \in Refusable
    /\ \E k \in batch :
        /\ batch' = batch \ {k}
        /\ listed' = listed \cup {[key |-> k, reply |-> "refused"]}
    /\ UNCHANGED <<store, route, pc, cursor, open, history>>

(* HGETALL on a broken connection: the NULL reply is read by both.         *)
ListKeyBroken ==
    /\ pc = "keys"
    /\ ~open
    /\ batch # {}
    /\ pc' = "crashed"
    /\ UNCHANGED <<store, route, cursor, batch, listed, open, history>>

(* Wrong variants: the loop runs once; the loop never ends.                *)
OneBatch ==
    /\ pc = "keys"
    /\ batch = {}
    /\ pc' = "done"
    /\ UNCHANGED <<store, route, cursor, batch, listed, open, history>>
EndlessBatches ==
    /\ pc = "keys"
    /\ batch = {}
    /\ pc' = "scan"
    /\ UNCHANGED <<store, route, cursor, batch, listed, open, history>>

(* The batch is done: the loop ends when the cursor is 0.                  *)
EndBatch ==
    /\ pc = "keys"
    /\ batch = {}
    /\ pc' = IF cursor = 0 THEN "done" ELSE "scan"
    /\ UNCHANGED <<store, route, cursor, batch, listed, open, history>>

(* Meanwhile the others store and flush orders, the server resizes its     *)
(* table, and the connection breaks.                                       *)
OthersStore ==
    /\ \E u \in Uuid : Store!Store(u)
    /\ UNCHANGED <<size, route, pc, cursor, batch, listed, open, history>>

OthersClear ==
    /\ Store!Clear
    /\ stayed' = {}
    /\ overtaken' = overtaken \cup batch
    /\ UNCHANGED <<size, route, pc, cursor, batch, listed, open>>

Resize ==
    /\ \E n \in Sizes \ {size} : size' = n
    /\ UNCHANGED <<orders, everStored, route, pc, cursor, batch, listed,
                   open, history>>

Break ==
    /\ route \in Breakable
    /\ open
    /\ open' = FALSE
    /\ UNCHANGED <<store, route, pc, cursor, batch, listed, history>>

-----------------------------------------------------------------------------
(* The listing begins in any state of the store.                           *)
Init ==
    /\ orders \in SUBSET Uuid
    /\ everStored = orders
    /\ size \in Sizes
    /\ route \in Routes
    /\ pc = "scan"
    /\ cursor = 0
    /\ batch = {}
    /\ listed = {}
    /\ open = TRUE
    /\ stayed = KeysOf(orders)
    /\ overtaken = {}

Handler ==
    \/ Scan \/ ScanBroken \/ ScanRefused
    \/ ListKey \/ ListKeyBroken \/ ListKeyRefused
    \/ EndBatch

Next == Handler \/ OthersStore \/ OthersClear \/ Resize \/ Break

Spec == Init /\ [][Next]_vars

(* The handler is a loop that never waits for anything but Redis.          *)
FairSpec == Spec /\ WF_vars(Handler)

-----------------------------------------------------------------------------
(* Properties.                                                             *)

Replies == {"fields", "empty", "wrong type", "refused"}
Entry == [key : Key, reply : Replies]

(* The variables keep their types; in particular the cursor the code sends *)
(* is one the server knows.                                                *)
TypeOK ==
    /\ orders \subseteq Uuid /\ everStored \subseteq Uuid
    /\ size \in Sizes
    /\ route \in Routes
    /\ pc \in {"scan", "keys", "done", "crashed"}
    /\ cursor \in Place
    /\ batch \subseteq Key
    /\ listed \subseteq Entry
    /\ open \in BOOLEAN
    /\ stayed \subseteq Key /\ overtaken \subseteq Key

(* An answer that is complete lists every order that was in the store from *)
(* the first SCAN to the last, whatever was stored meanwhile.              *)
CompleteListing ==
    (pc = "done" /\ open) => stayed \subseteq {e.key : e \in listed}

(* An order is listed without its fields only when the server refused the  *)
(* HGETALL that read it, or when a DELETE ran between the SCAN that found  *)
(* this very order and that HGETALL; the order is then gone for good.      *)
(* What happened to other orders, or before, is no excuse.                 *)
NoTornOrder ==
    \A e \in listed :
        e.key.part = "hash" /\ e.reply \notin {"fields", "refused"} =>
            e.key \in overtaken /\ e.key.id \notin orders

(* No step of the handler is in vain.  Each SCAN gets past the place its   *)
(* cursor names, or to the end, however the table is resized between any   *)
(* two of them; each HGETALL leaves fewer keys of the batch; and the loop  *)
(* goes round again only with a cursor that is not 0.                      *)
GetsOn ==
    \/ /\ pc = "scan" /\ pc' = "keys"
       /\ cursor' = 0 \/ PlaceNamed(cursor) < PlaceNamed(cursor')
    \/ /\ pc = "keys" /\ pc' = "keys" /\ cursor' = cursor
       /\ batch' \subseteq batch /\ batch' # batch
    \/ pc = "keys" /\ pc' = "scan" /\ cursor' = cursor /\ cursor # 0
    \/ pc' \in {"done", "crashed"}

ListingGetsOn == [][Handler => GetsOn]_vars

(* A listing returns, or ends with the process.                            *)
ListingEnds == <>(pc \in {"done", "crashed"})

=============================================================================
