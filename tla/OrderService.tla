---------------------------- MODULE OrderService ----------------------------
(***************************************************************************)
(* The write path of the service: processes that loaded the addon, each    *)
(* with one blocking hiredis connection (the global `c` of neurose.cpp),   *)
(* serve POST and DELETE requests against one Redis server.                *)
(*                                                                         *)
(* A request runs to completion before the process takes the next one      *)
(* (node calls work() synchronously), but every redisCommand is a round    *)
(* trip during which the other processes, the server and the network move. *)
(* So post() is a sequence of steps, one per round trip.  The code never   *)
(* branches on what a reply says; a connection that breaks makes           *)
(* redisCommand return NULL, and dereferencing it ends the process.        *)
(*                                                                         *)
(* The Redis server is modelled from the commands the code sends: a        *)
(* session per connection with the MULTI queue, applied at EXEC.           *)
(***************************************************************************)
EXTENDS Naturals, Sequences

CONSTANTS
    Process,         \* process identities; one is never reused after a crash
    Uuid,            \* what gen_uuid may return; bounds the number of POSTs
    NoUuid,          \* uuid_str of a process that has not posted yet
    Refusable        \* commands the server may answer with an error reply
                     \* without executing them (out of memory, busy, ...)

(* The commands the code sends on the write path. *)
Writes == {"HMSET", "RPUSH_ITEMS", "RPUSH_TRANSACTIONS"}
Op == Writes \cup {"MULTI", "EXEC", "FLUSHALL"}

ASSUME ServiceAssumption ==
    /\ NoUuid \notin Uuid
    /\ Refusable \subseteq Op

(* The three Redis keys of an order:                                       *)
(* order:<id>, order:<id>.items and order:<id>.transactions.               *)
Keys == {"hash", "items", "transactions"}

VARIABLES
    pc,              \* pc[p]: "down", "idle", "crashed", or the command
                     \* whose reply the process waits for
    id,              \* id[p]: uuid_str of the latest POST of p
    open,            \* open[p]: the connection of p is usable
    request,         \* request[p]: command sent and not yet executed
    reply,           \* reply[p]: a reply is waiting to be read
    session,         \* session[p]: the server's view of the connection
    db,              \* db[u]: the keys that exist for order u
    used,            \* history: identifiers gen_uuid has returned
    acked,           \* history: orders whose POST returned 0
    everStored,      \* history: orders that had a key in the store
    bare             \* history: orders whose MULTI was refused

clientVars == <<pc, id, used, acked>>
storeVars  == <<db, everStored, bare>>
serverVars == <<session, storeVars>>
vars == <<clientVars, open, request, reply, serverVars>>

-----------------------------------------------------------------------------
(* The Redis server (external).                                            *)

NewSession    == [multi |-> FALSE, dirty |-> FALSE, queue |-> <<>>]
DoomedSession == [multi |-> TRUE, dirty |-> TRUE, queue |-> <<>>]

KeyOf == [HMSET |-> "hash",
          RPUSH_ITEMS |-> "items",
          RPUSH_TRANSACTIONS |-> "transactions"]

(* The store d after the commands of q, in order.  A write creates its key *)
(* and keeps it unless a FLUSHALL follows.                                 *)
Applied(d, q) ==
    LET Flush(j) == q[j].op = "FLUSHALL"
        Kept(i)  == \A j \in DOMAIN q : j > i => ~Flush(j)
        Written(u) == {k \in Keys : \E i \in DOMAIN q :
                          /\ q[i].op \in Writes
                          /\ q[i].id = u
                          /\ k = KeyOf[q[i].op]
                          /\ Kept(i)}
    IN  [u \in Uuid |->
            IF \E j \in DOMAIN q : Flush(j)
            THEN Written(u)
            ELSE d[u] \cup Written(u)]

Command(p) == [op |-> request[p], id |-> id[p]]

(* The server takes the request of p off the connection and answers it.    *)
Answer(p) ==
    /\ request[p] # "none"
    /\ request' = [request EXCEPT ![p] = "none"]
    /\ reply' = [reply EXCEPT ![p] = TRUE]
    /\ UNCHANGED <<clientVars, open>>

Execute(q) ==
    /\ db' = Applied(db, q)
    /\ everStored' = everStored \cup {u \in Uuid : db'[u] # {}}
    /\ UNCHANGED bare

ServeMulti(p) ==
    /\ request[p] = "MULTI"
    /\ Answer(p)
    /\ session' = [session EXCEPT ![p].multi = TRUE]  \* nested: error, same
    /\ UNCHANGED storeVars

ServeExec(p) ==
    /\ request[p] = "EXEC"
    /\ Answer(p)
    /\ session' = [session EXCEPT ![p] = NewSession]
    /\ IF session[p].dirty                            \* EXECABORT
       THEN UNCHANGED storeVars
       ELSE Execute(session[p].queue)                 \* empty if no MULTI

(* Inside MULTI a command is queued.  The queue of a doomed transaction is *)
(* never looked at again, so it is not recorded.                           *)
ServeQueued(p) ==
    /\ request[p] \in Writes \cup {"FLUSHALL"}
    /\ session[p].multi
    /\ Answer(p)
    /\ session' = IF session[p].dirty
                  THEN session
                  ELSE [session EXCEPT ![p].queue = Append(@, Command(p))]
    /\ UNCHANGED storeVars

(* Outside MULTI it is executed at once.                                   *)
ServeNow(p) ==
    /\ request[p] \in Writes \cup {"FLUSHALL"}
    /\ ~session[p].multi
    /\ Answer(p)
    /\ Execute(<<Command(p)>>)
    /\ UNCHANGED session

(* The server answers with an error; inside MULTI that dooms the EXEC.     *)
(* After a MULTI that is refused the commands of the order are executed as *)
(* they come.                                                              *)
Refuse(p) ==
    /\ request[p] \in Refusable
    /\ Answer(p)
    /\ session' = IF session[p].multi
                  THEN [session EXCEPT ![p] = DoomedSession]
                  ELSE session
    /\ bare' = IF request[p] = "MULTI" /\ ~session[p].multi
               THEN bare \cup {id[p]}
               ELSE bare
    /\ UNCHANGED <<db, everStored>>

Serve(p) ==
    \/ ServeMulti(p) \/ ServeExec(p)
    \/ ServeQueued(p) \/ ServeNow(p)
    \/ Refuse(p)

(* The connection breaks: the server forgets the session and what it had   *)
(* not read; a reply already received stays readable.                      *)
Break(p) ==
    /\ open[p]
    /\ open' = [open EXCEPT ![p] = FALSE]
    /\ request' = [request EXCEPT ![p] = "none"]
    /\ session' = [session EXCEPT ![p] = NewSession]
    /\ UNCHANGED <<clientVars, reply, storeVars>>

-----------------------------------------------------------------------------
(* The processes.                                                          *)

(* Deliberately wrong variants of the definitions below, which the runs    *)
(* must tell from the code: EXEC sent too soon, a DISCARD after EXEC, no   *)
(* MULTI at all.                                                           *)
ExecTooSoon == [MULTI |-> "HMSET",
                HMSET |-> "RPUSH_ITEMS",
                RPUSH_ITEMS |-> "EXEC"]
DiscardAfterExec == [MULTI |-> "HMSET",
                     HMSET |-> "RPUSH_ITEMS",
                     RPUSH_ITEMS |-> "RPUSH_TRANSACTIONS",
                     RPUSH_TRANSACTIONS |-> "EXEC",
                     EXEC |-> "DISCARD"]
NoTransaction == "HMSET"

(* The order in which post() sends its commands, each after the reply to   *)
(* the one before it.                                                      *)
CommandAfter == [MULTI |-> "HMSET",
                 HMSET |-> "RPUSH_ITEMS",
                 RPUSH_ITEMS |-> "RPUSH_TRANSACTIONS",
                 RPUSH_TRANSACTIONS |-> "EXEC"]

FirstCommand == "MULTI"

(* redisCommand up to the blocking read.  On a broken connection nothing   *)
(* is sent and no reply will come (see ReplyLost).                         *)
Send(p, op) ==
    /\ pc' = [pc EXCEPT ![p] = op]
    /\ request' = [request EXCEPT ![p] = IF open[p] THEN op ELSE "none"]

(* connect_redis, successful.  It takes a new connection even if there is  *)
(* one; the old one is leaked and nothing is ever sent on it again.        *)
Connect(p) ==
    /\ pc[p] \in {"down", "idle"}
    /\ pc' = [pc EXCEPT ![p] = "idle"]
    /\ open' = [open EXCEPT ![p] = TRUE]
    /\ session' = [session EXCEPT ![p] = NewSession]
    /\ UNCHANGED <<id, request, reply, used, acked, storeVars>>

(* disconnect_redis: the server drops the session with the connection.     *)
Disconnect(p) ==
    /\ pc[p] = "idle"
    /\ pc' = [pc EXCEPT ![p] = "down"]
    /\ open' = [open EXCEPT ![p] = FALSE]
    /\ session' = [session EXCEPT ![p] = NewSession]
    /\ UNCHANGED <<id, request, reply, used, acked, storeVars>>

(* Wrong variant: an identifier that was handed out before may come back.  *)
PostAnyUuid(p) ==
    /\ pc[p] = "idle"
    /\ \E u \in Uuid :
        /\ id' = [id EXCEPT ![p] = u]
        /\ used' = used \cup {u}
    /\ Send(p, FirstCommand)
    /\ UNCHANGED <<open, reply, acked, serverVars>>

(* POST with a body analise_json accepts: gen_uuid, then the first command *)
(* of post().  uuid_generate_time_safe returns an unused identifier.       *)
Post(p) ==
    /\ pc[p] = "idle"
    /\ \E u \in Uuid \ used :
        /\ id' = [id EXCEPT ![p] = u]
        /\ used' = used \cup {u}
    /\ Send(p, FirstCommand)
    /\ UNCHANGED <<open, reply, acked, serverVars>>

(* DELETE, whatever the URL: delete_all.                                   *)
Delete(p) ==
    /\ pc[p] = "idle"
    /\ Send(p, "FLUSHALL")
    /\ UNCHANGED <<id, used, acked, open, reply, serverVars>>

(* The process reads a reply, prints it, frees it and sends the next       *)
(* command, without looking whether the reply is an error.                 *)
Continue(p) ==
    /\ pc[p] \in DOMAIN CommandAfter
    /\ reply[p]
    /\ reply' = [reply EXCEPT ![p] = FALSE]
    /\ Send(p, CommandAfter[pc[p]])
    /\ UNCHANGED <<id, used, acked, open, serverVars>>

(* Wrong variant: a POST returns when its last write is answered.          *)
FinishBeforeExec(p) ==
    /\ pc[p] \in {"RPUSH_TRANSACTIONS", "EXEC", "FLUSHALL"}
    /\ reply[p]
    /\ reply' = [reply EXCEPT ![p] = FALSE]
    /\ pc' = [pc EXCEPT ![p] = "idle"]
    /\ acked' = IF pc[p] = "FLUSHALL" THEN acked ELSE acked \cup {id[p]}
    /\ UNCHANGED <<id, used, open, request, serverVars>>

(* The reply to the last command of a request: handle_request returns 0.   *)
Finish(p) ==
    /\ pc[p] \in {"EXEC", "FLUSHALL"}
    /\ reply[p]
    /\ reply' = [reply EXCEPT ![p] = FALSE]
    /\ pc' = [pc EXCEPT ![p] = "idle"]
    /\ acked' = IF pc[p] = "EXEC" THEN acked \cup {id[p]} ELSE acked
    /\ UNCHANGED <<id, used, open, request, serverVars>>

(* Wrong variant: the command is tried again as long as there is no reply, *)
(* as get_by_value does with SCAN.                                         *)
RetryForever(p) ==
    /\ pc[p] \in Op
    /\ ~open[p]
    /\ ~reply[p]
    /\ UNCHANGED vars

(* redisCommand returned NULL and reply->str is read: the process is gone. *)
ReplyLost(p) ==
    /\ pc[p] \in Op
    /\ ~open[p]
    /\ ~reply[p]
    /\ pc' = [pc EXCEPT ![p] = "crashed"]
    /\ UNCHANGED <<id, used, acked, open, request, reply, serverVars>>

(* work() without a connection: redisCommand(NULL, ...).                   *)
CallUnconnected(p) ==
    /\ pc[p] = "down"
    /\ pc' = [pc EXCEPT ![p] = "crashed"]
    /\ UNCHANGED <<id, used, acked, open, request, reply, serverVars>>

(* The process dies for a reason of its own.  What it had sent is still on *)
(* the connection: the server may execute it before it notices (Break).    *)
Crash(p) ==
    /\ pc[p] # "crashed"
    /\ pc' = [pc EXCEPT ![p] = "crashed"]
    /\ UNCHANGED <<id, used, acked, open, request, reply, serverVars>>

-----------------------------------------------------------------------------
Init ==
    /\ pc = [p \in Process |-> "down"]
    /\ id = [p \in Process |-> NoUuid]
    /\ open = [p \in Process |-> FALSE]
    /\ request = [p \in Process |-> "none"]
    /\ reply = [p \in Process |-> FALSE]
    /\ session = [p \in Process |-> NewSession]
    /\ db = [u \in Uuid |-> {}]
    /\ used = {}
    /\ acked = {}
    /\ everStored = {}
    /\ bare = {}

Step(p) ==
    \/ Connect(p) \/ Disconnect(p)
    \/ Post(p) \/ Delete(p)
    \/ Continue(p) \/ Finish(p)
    \/ ReplyLost(p) \/ CallUnconnected(p) \/ Crash(p)

Next == \E p \in Process : Step(p) \/ Serve(p) \/ Break(p)

Spec == Init /\ [][Next]_vars

(* Redis answers what it was sent and a process that can go on does: both  *)
(* run whenever they have work.  Nobody is obliged to call, to crash or to *)
(* break a connection.                                                     *)
Fairness == \A p \in Process :
    /\ WF_vars(Serve(p))
    /\ WF_vars(Continue(p) \/ Finish(p) \/ ReplyLost(p))

FairSpec == Spec /\ Fairness

-----------------------------------------------------------------------------
(* Properties.                                                             *)

Session == [multi : BOOLEAN, dirty : BOOLEAN,
            queue : Seq([op : Op, id : Uuid \cup {NoUuid}])]

(* The variables keep their types.                                         *)
TypeOK ==
    /\ pc \in [Process -> {"down", "idle", "crashed"} \cup Op]
    /\ id \in [Process -> Uuid \cup {NoUuid}]
    /\ open \in [Process -> BOOLEAN]
    /\ request \in [Process -> Op \cup {"none"}]
    /\ reply \in [Process -> BOOLEAN]
    /\ session \in [Process -> Session]
    /\ db \in [Uuid -> SUBSET Keys]
    /\ used \subseteq Uuid
    /\ acked \subseteq Uuid \cup {NoUuid}
    /\ everStored \subseteq Uuid
    /\ bare \subseteq Uuid \cup {NoUuid}

(* Nobody ever sees part of an order: its hash, its items and its          *)
(* transactions exist together or not at all, whatever process, connection *)
(* or command fails between the commands of post(), and whatever other     *)
(* processes post or flush meanwhile.  The exception is an order whose own *)
(* MULTI was refused, which post() does not notice.                        *)
AllOrNothing == \A u \in Uuid \ bare : db[u] \in {{}, Keys}

(* A POST that returned 0 did reach the store (it may have been flushed    *)
(* since).                                                                 *)
AckedWasStored == acked \subseteq everStored

(* A connection that serves no request is not inside a transaction, so the *)
(* next request of the process is executed and not queued.                 *)
IdleSessionClean == \A p \in Process :
    pc[p] = "idle" => session[p] = NewSession

(* The commands of the POST of order u that the server has queued when     *)
(* command op is next, and its session then, if it refused none of them.   *)
QueueBefore(op, u) ==
    LET H == [op |-> "HMSET", id |-> u]
        I == [op |-> "RPUSH_ITEMS", id |-> u]
        T == [op |-> "RPUSH_TRANSACTIONS", id |-> u]
    IN  CASE op = "RPUSH_ITEMS"        -> <<H>>
          [] op = "RPUSH_TRANSACTIONS" -> <<H, I>>
          [] op = "EXEC"               -> <<H, I, T>>
          [] OTHER                     -> <<>>

SessionBefore(op, u) ==
    [multi |-> op \in Writes \cup {"EXEC"},
     dirty |-> FALSE,
     queue |-> QueueBefore(op, u)]

(* The command of p the server has to execute next, of those p has sent or *)
(* will send for the request it serves.                                    *)
NextToServe(p) ==
    IF request[p] # "none" THEN request[p]
    ELSE IF reply[p] /\ pc[p] \in DOMAIN CommandAfter THEN CommandAfter[pc[p]]
    ELSE "none"

(* The process and the server never disagree about where in the            *)
(* transaction they are: on an open connection the server has queued what  *)
(* the process has got a reply for, all of it for the order being posted,  *)
(* or it has doomed the transaction, or has refused to begin one.          *)
SessionInStep == \A p \in Process :
    open[p] /\ ~session[p].dirty /\ (pc[p] = "crashed" => request[p] # "none")
        => session[p] = IF id[p] \in bare THEN NewSession
                        ELSE SessionBefore(NextToServe(p), id[p])

(* The store moves as AtomicOrders says: whole orders, each stored once.   *)
(* Orders whose MULTI was refused are outside of it, and do not disturb    *)
(* the others.                                                             *)
Orders == INSTANCE AtomicOrders
    WITH orders <- {u \in Uuid \ bare : db[u] = Keys},
         everStored <- everStored \ bare
StoreIsAtomic == Orders!Spec

(* A request ends, with an answer or with the end of its process.          *)
RequestsEnd == \A p \in Process :
    pc[p] \in Op ~> pc[p] \in {"idle", "crashed"}

=============================================================================
