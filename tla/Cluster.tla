------------------------------- MODULE Cluster -------------------------------
(***************************************************************************)
(* run_server.js: a master forks workers and counts the requests they say  *)
(* they have handled; a worker that dies is replaced.  No worker ever      *)
(* calls connect_redis, so that a request which reaches the store ends its *)
(* worker (NoReply in RequestHandling), and the body every request is      *)
(* given stops after its first line, so that a POST or PUT may end it too  *)
(* (ClearJson there).  The others are answered.                            *)
(*                                                                         *)
(* A callback runs to its end before the next one of its process, but the  *)
(* processes run side by side, and a worker may be killed at any point.    *)
(***************************************************************************)
EXTENDS Naturals, FiniteSets

CONSTANTS
    Original,        \* the workers of the first loop, one per CPU
    Spare,           \* identities of replacements; bounds the deaths
    Request,         \* the requests; bounds their number
    Fatal            \* those from which addon.work does not return

Worker == Original \cup Spare

ASSUME ClusterAssumption ==
    /\ Original \cap Spare = {}
    /\ IsFiniteSet(Original) /\ IsFiniteSet(Spare) /\ IsFiniteSet(Request)
    /\ Fatal \subseteq Request

VARIABLES
    restarts,        \* node emits the event 'death'
    live,            \* workers that run
    dying,           \* workers that died, which the master does not know yet
    forked,          \* workers that were ever forked
    phase,           \* phase[r]: what has become of request r
    by,              \* by[r]: the worker that got it
    numReqs,         \* requests counted in the present interval
    numReqsTotal     \* and before it

workers  == <<live, dying, forked>>
requests == <<phase, by>>
counters == <<numReqs, numReqsTotal>>
vars == <<restarts, workers, requests, counters>>

(* "answered": response.end was called; "notified": process.send too, the  *)
(* message is under way; "counted": the master has added it; "unheard": it *)
(* arrived where nobody listens; "lost": it will not arrive; "dropped":    *)
(* the worker died and nobody was answered.                                *)
Phase == {"new", "answered", "notified", "counted", "unheard", "lost", "dropped"}

-----------------------------------------------------------------------------
(* The workers: the callback of 'end'.                                     *)

Idle(w) == w \in live /\ \A r \in Request : phase[r] = "answered" => by[r] # w

(* addon.work returns, and the response goes out.                          *)
Answer(w, r) ==
    /\ Idle(w)
    /\ phase[r] = "new" /\ r \notin Fatal
    /\ phase' = [phase EXCEPT ![r] = "answered"]
    /\ by' = [by EXCEPT ![r] = w]
    /\ UNCHANGED <<restarts, workers, counters>>

(* process.send.                                                           *)
Notify(r) ==
    /\ phase[r] = "answered"
    /\ phase' = [phase EXCEPT ![r] = "notified"]
    /\ UNCHANGED <<restarts, workers, by, counters>>

(* A worker ends.  The bound leaves a spare for every death.               *)
Dies(w) ==
    /\ w \in live
    /\ Cardinality(forked \ live) < Cardinality(Spare)
    /\ live' = live \ {w}
    /\ dying' = dying \cup {w}
    /\ UNCHANGED <<restarts, forked, counters>>

(* addon.work does not return.                                             *)
DieServing(w, r) ==
    /\ Idle(w)
    /\ phase[r] = "new" /\ r \in Fatal
    /\ Dies(w)
    /\ phase' = [phase EXCEPT ![r] = "dropped"]
    /\ by' = [by EXCEPT ![r] = w]

(* The worker is killed, perhaps between response.end and process.send.    *)
Kill(w) ==
    /\ Dies(w)
    /\ phase' = [r \in Request |->
           IF by[r] = w /\ phase[r] = "answered" THEN "lost" ELSE phase[r]]
    /\ UNCHANGED by

(* A message on the channel of a worker that died may not be read.         *)
LoseMessage(r) ==
    /\ phase[r] = "notified" /\ by[r] \notin live
    /\ phase' = [phase EXCEPT ![r] = "lost"]
    /\ UNCHANGED <<restarts, workers, by, counters>>

-----------------------------------------------------------------------------
(* The master.                                                             *)

(* Only the loop that forks the first workers installs the listener.       *)
Heard(w) == w \in Original

(* Wrong variant: the listener is installed again at every interval, and   *)
(* counts a message twice.                                                 *)
DeliverTwice(r) ==
    /\ phase[r] = "notified"
    /\ IF Heard(by[r])
       THEN /\ phase' = [phase EXCEPT ![r] = "counted"]
            /\ numReqs' = numReqs + 2
       ELSE /\ phase' = [phase EXCEPT ![r] = "unheard"]
            /\ UNCHANGED numReqs
    /\ UNCHANGED <<restarts, workers, by, numReqsTotal>>

(* The listener of 'message'.                                              *)
Deliver(r) ==
    /\ phase[r] = "notified"
    /\ IF Heard(by[r])
       THEN /\ phase' = [phase EXCEPT ![r] = "counted"]
            /\ numReqs' = numReqs + 1
       ELSE /\ phase' = [phase EXCEPT ![r] = "unheard"]
            /\ UNCHANGED numReqs
    /\ UNCHANGED <<restarts, workers, by, numReqsTotal>>

(* Wrong variant: the death is logged and that is all.                     *)
NoticeOnly(w) ==
    /\ w \in dying
    /\ dying' = dying \ {w}
    /\ UNCHANGED <<restarts, live, forked, requests, counters>>

(* cluster.on('death'): a fork, if node has that event.  The versions the  *)
(* script cites do; later ones call it 'exit', for which nobody listens.   *)
NoticeDeath(w) ==
    /\ w \in dying
    /\ dying' = dying \ {w}
    /\ IF restarts
       THEN \E s \in Spare \ forked :
                live' = live \cup {s} /\ forked' = forked \cup {s}
       ELSE UNCHANGED <<live, forked>>
    /\ UNCHANGED <<restarts, requests, counters>>

(* Wrong variant: the counters are printed, and neither is changed.        *)
IntervalPrints == UNCHANGED vars

(* handleInterval, every five seconds.                                     *)
Interval ==
    /\ numReqsTotal' = numReqsTotal + numReqs
    /\ numReqs' = 0
    /\ UNCHANGED <<restarts, workers, requests>>

-----------------------------------------------------------------------------
Init ==
    /\ restarts \in BOOLEAN
    /\ live = Original /\ dying = {} /\ forked = Original
    /\ phase = [r \in Request |-> "new"]
    /\ by \in {[r \in Request |-> w] : w \in Original}
    /\ numReqs = 0 /\ numReqsTotal = 0

Next ==
    \/ \E w \in Worker, r \in Request : Answer(w, r) \/ DieServing(w, r)
    \/ \E r \in Request : Notify(r) \/ LoseMessage(r) \/ Deliver(r)
    \/ \E w \in Worker : Kill(w) \/ NoticeDeath(w)
    \/ Interval

Spec == Init /\ [][Next]_vars

(* A callback that has begun ends, unless its process is killed; node      *)
(* hands over messages and deaths, and the timer fires.                    *)
Fairness ==
    /\ \A r \in Request : WF_vars(Notify(r)) /\ WF_vars(Deliver(r))
    /\ \A w \in Worker : WF_vars(NoticeDeath(w))
    /\ WF_vars(Interval)

FairSpec == Spec /\ Fairness

-----------------------------------------------------------------------------
(* Properties.                                                             *)

(* The variables keep their types, and only live workers are at work.      *)
TypeOK ==
    /\ restarts \in BOOLEAN
    /\ live \subseteq forked /\ dying \subseteq forked /\ forked \subseteq Worker
    /\ live \cap dying = {}
    /\ phase \in [Request -> Phase]
    /\ by \in [Request -> Worker]
    /\ \A r \in Request : phase[r] = "answered" => by[r] \in live
    /\ numReqs \in Nat /\ numReqsTotal \in Nat

Counted == {r \in Request : phase[r] = "counted"}

(* The two counters together are the number of requests the master was     *)
(* told of, at any moment between two callbacks: none is counted twice, or *)
(* dropped between one interval and the next.                              *)
CountsAddUp == numReqsTotal + numReqs = Cardinality(Counted)

(* A worker that has died is replaced once, as long as node tells: there   *)
(* are as many workers as at first, running or about to be replaced.       *)
WorkersAccounted ==
    restarts => Cardinality(live) + Cardinality(dying) = Cardinality(Original)

(* The number of workers recovers from every death, if node emits 'death'. *)
WorkersReturn == restarts ~> Cardinality(live) = Cardinality(Original)

(* Once an original worker has sent its message, the request ends up in    *)
(* the total, or the message is lost with its worker.                      *)
NotificationsTallied == \A r \in Request :
    phase[r] = "notified" /\ Heard(by[r]) ~>
        \/ phase[r] = "lost"
        \/ phase[r] = "counted" /\ numReqs = 0

=============================================================================
