---------------------------- MODULE ClusterProofs ----------------------------
(***************************************************************************)
(* Proofs about Cluster, for any workers and requests.                     *)
(*                                                                         *)
(* Both theorems count: CountsAddUp the requests the master has heard of,  *)
(* WorkersAccounted the workers that run or wait to be replaced.  A step   *)
(* changes each of these sets by one element at most, and TypeOK says that *)
(* it is really there, or really is not.                                   *)
(***************************************************************************)
EXTENDS Cluster, FiniteSetTheorems, TLAPS

LEMMA Finite ==
    /\ \A S \in SUBSET Worker : IsFiniteSet(S)
    /\ \A S \in SUBSET Request : IsFiniteSet(S)
<1>1. IsFiniteSet(Worker)
  BY ClusterAssumption, FS_Union DEF Worker
<1> QED
  BY <1>1, ClusterAssumption, FS_Subset

-----------------------------------------------------------------------------
(* The types.                                                              *)

LEMMA TypeInit == Init => TypeOK
<1> SUFFICES ASSUME Init PROVE TypeOK
  OBVIOUS
<1>1. phase \in [Request -> Phase] /\ by \in [Request -> Worker]
  BY DEF Init, Phase, Worker
<1> QED
  BY <1>1 DEF Init, TypeOK, Worker

LEMMA DiesTyped ==
    ASSUME TypeOK, NEW w \in Worker, Dies(w),
           phase' \in [Request -> Phase], by' \in [Request -> Worker],
           \A r \in Request :
               phase'[r] = "answered" => phase[r] = "answered" /\ by'[r] = by[r] /\ by[r] # w
    PROVE  TypeOK'
BY DEF TypeOK, Dies, counters

LEMMA TypeStep == TypeOK /\ [Next]_vars => TypeOK'
<1> SUFFICES ASSUME TypeOK, [Next]_vars PROVE TypeOK'
  OBVIOUS
<1> USE DEF workers, requests, counters
<1>1. ASSUME NEW w \in Worker, NEW r \in Request, Answer(w, r)
      PROVE  TypeOK'
  BY <1>1 DEF TypeOK, Answer, Idle, Phase
<1>2. ASSUME NEW w \in Worker, NEW r \in Request, DieServing(w, r)
      PROVE  TypeOK'
  <2>1. phase' \in [Request -> Phase] /\ by' \in [Request -> Worker]
    BY <1>2 DEF TypeOK, DieServing, Phase
  <2>2. \A q \in Request : phase'[q] = "answered" =>
            phase[q] = "answered" /\ by'[q] = by[q] /\ by[q] # w
    BY <1>2 DEF TypeOK, DieServing, Idle
  <2> QED
    BY <1>2, <2>1, <2>2, DiesTyped DEF DieServing
<1>3. ASSUME NEW r \in Request, Notify(r) PROVE TypeOK'
  BY <1>3 DEF TypeOK, Notify, Phase
<1>4. ASSUME NEW r \in Request, LoseMessage(r) PROVE TypeOK'
  BY <1>4 DEF TypeOK, LoseMessage, Phase
<1>5. ASSUME NEW r \in Request, Deliver(r) PROVE TypeOK'
  <2>1. phase' \in [Request -> Phase]
    BY <1>5 DEF TypeOK, Deliver, Phase
  <2>2. numReqs' \in Nat
    BY <1>5 DEF TypeOK, Deliver
  <2>3. \A q \in Request : phase'[q] = "answered" => phase[q] = "answered"
    BY <1>5 DEF TypeOK, Deliver
  <2> QED
    BY <1>5, <2>1, <2>2, <2>3 DEF TypeOK, Deliver
<1>6. ASSUME NEW w \in Worker, Kill(w) PROVE TypeOK'
  <2>1. phase' \in [Request -> Phase]
    BY <1>6 DEF TypeOK, Kill, Phase
  <2>2. \A q \in Request : phase'[q] = "answered" =>
            phase[q] = "answered" /\ by'[q] = by[q] /\ by[q] # w
    BY <1>6 DEF TypeOK, Kill
  <2> QED
    BY <1>6, <2>1, <2>2, DiesTyped DEF Kill, TypeOK
<1>7. ASSUME NEW w \in Worker, NoticeDeath(w) PROVE TypeOK'
  BY <1>7 DEF TypeOK, NoticeDeath, Worker
<1>8. ASSUME Interval PROVE TypeOK'
  BY <1>8 DEF TypeOK, Interval
<1>9. ASSUME UNCHANGED vars PROVE TypeOK'
  BY <1>9 DEF TypeOK, vars
<1> QED
  BY <1>1, <1>2, <1>3, <1>4, <1>5, <1>6, <1>7, <1>8, <1>9 DEF Next

-----------------------------------------------------------------------------
(* The counters.                                                           *)

LEMMA CountInit == Init => CountsAddUp
<1> SUFFICES ASSUME Init PROVE CountsAddUp
  OBVIOUS
<1>1. Counted = {}
  BY DEF Init, Counted
<1> QED
  BY <1>1, FS_EmptySet DEF Init, CountsAddUp

(* Whatever leaves the set of counted requests and the sum alone.          *)
LEMMA CountKept ==
    ASSUME TypeOK, CountsAddUp, numReqsTotal' + numReqs' = numReqsTotal + numReqs,
           \A r \in Request : phase'[r] = "counted" <=> phase[r] = "counted"
    PROVE  CountsAddUp'
<1>1. Counted' = Counted
  BY DEF Counted
<1> QED
  BY <1>1 DEF CountsAddUp

LEMMA DeliverCounts ==
    ASSUME TypeOK, CountsAddUp, NEW r \in Request, Deliver(r)
    PROVE  CountsAddUp'
<1> USE DEF workers, requests, counters
<1>1. CASE Heard(by[r])
  <2>1. Counted' = Counted \cup {r} /\ r \notin Counted
    BY <1>1 DEF Counted, Deliver, TypeOK
  <2>2. IsFiniteSet(Counted)
    BY Finite DEF Counted
  <2>3. Cardinality(Counted') = Cardinality(Counted) + 1
    BY <2>1, <2>2, FS_AddElement
  <2>4. Cardinality(Counted) \in Nat
    BY <2>2, FS_CardinalityType
  <2>5. numReqs' = numReqs + 1 /\ numReqsTotal' = numReqsTotal
    BY <1>1 DEF Deliver
  <2> QED
    BY <2>3, <2>4, <2>5 DEF CountsAddUp, TypeOK
<1>2. CASE ~Heard(by[r])
  <2>1. \A q \in Request : phase'[q] = "counted" <=> phase[q] = "counted"
    BY <1>2 DEF Deliver, TypeOK
  <2>2. numReqs' = numReqs /\ numReqsTotal' = numReqsTotal
    BY <1>2 DEF Deliver
  <2> QED
    BY <2>1, <2>2, CountKept
<1> QED
  BY <1>1, <1>2

LEMMA CountStep == TypeOK /\ CountsAddUp /\ [Next]_vars => CountsAddUp'
<1> SUFFICES ASSUME TypeOK, CountsAddUp, [Next]_vars PROVE CountsAddUp'
  OBVIOUS
<1> USE DEF workers, requests, counters
<1>1. ASSUME NEW w \in Worker, NEW r \in Request, Answer(w, r) \/ DieServing(w, r)
      PROVE  CountsAddUp'
  <2>1. \A q \in Request : phase'[q] = "counted" <=> phase[q] = "counted"
    BY <1>1 DEF Answer, DieServing, TypeOK
  <2> QED
    BY <1>1, <2>1, CountKept DEF Answer, DieServing, Dies
<1>2. ASSUME NEW r \in Request, Notify(r) \/ LoseMessage(r)
      PROVE  CountsAddUp'
  <2>1. \A q \in Request : phase'[q] = "counted" <=> phase[q] = "counted"
    BY <1>2 DEF Notify, LoseMessage, TypeOK
  <2> QED
    BY <1>2, <2>1, CountKept DEF Notify, LoseMessage
<1>3. ASSUME NEW r \in Request, Deliver(r) PROVE CountsAddUp'
  BY <1>3, DeliverCounts
<1>4. ASSUME NEW w \in Worker, Kill(w) PROVE CountsAddUp'
  <2>1. \A q \in Request : phase'[q] = "counted" <=> phase[q] = "counted"
    BY <1>4 DEF Kill
  <2> QED
    BY <1>4, <2>1, CountKept DEF Kill, Dies
<1>5. ASSUME NEW w \in Worker, NoticeDeath(w) PROVE CountsAddUp'
  BY <1>5, CountKept DEF NoticeDeath
<1>6. ASSUME Interval PROVE CountsAddUp'
  <2>1. numReqsTotal' + numReqs' = numReqsTotal + numReqs
    BY <1>6 DEF Interval, TypeOK
  <2> QED
    BY <1>6, <2>1, CountKept DEF Interval
<1>7. ASSUME UNCHANGED vars PROVE CountsAddUp'
  BY <1>7, CountKept DEF vars
<1> QED
  BY <1>1, <1>2, <1>3, <1>4, <1>5, <1>6, <1>7 DEF Next

-----------------------------------------------------------------------------
(* The workers.                                                            *)

LEMMA AccountInit == Init => WorkersAccounted
<1> SUFFICES ASSUME Init PROVE WorkersAccounted
  OBVIOUS
<1>1. Cardinality(Original) \in Nat
  BY ClusterAssumption, FS_CardinalityType
<1> QED
  BY <1>1, FS_EmptySet DEF Init, WorkersAccounted

LEMMA DiesAccounted ==
    ASSUME TypeOK, WorkersAccounted, NEW w \in Worker, Dies(w)
    PROVE  WorkersAccounted'
<1>1. IsFiniteSet(live) /\ IsFiniteSet(dying) /\ w \in live /\ w \notin dying
  BY Finite DEF TypeOK, Dies
<1>2. Cardinality(live') = Cardinality(live) - 1
  BY <1>1, FS_RemoveElement DEF Dies
<1>3. Cardinality(dying') = Cardinality(dying) + 1
  BY <1>1, FS_AddElement DEF Dies
<1>4. Cardinality(live) \in Nat /\ Cardinality(dying) \in Nat
  BY <1>1, FS_CardinalityType
<1>5. restarts' = restarts
  BY DEF Dies
<1> QED
  BY <1>2, <1>3, <1>4, <1>5 DEF WorkersAccounted

LEMMA NoticeAccounted ==
    ASSUME TypeOK, WorkersAccounted, NEW w \in Worker, NoticeDeath(w)
    PROVE  WorkersAccounted'
<1> SUFFICES ASSUME restarts
             PROVE  Cardinality(live') + Cardinality(dying') = Cardinality(Original)
  BY DEF WorkersAccounted, NoticeDeath
<1>1. PICK s \in Spare \ forked : live' = live \cup {s}
  BY DEF NoticeDeath
<1>2. IsFiniteSet(live) /\ IsFiniteSet(dying) /\ s \notin live
  BY <1>1, Finite DEF TypeOK
<1>3. Cardinality(live') = Cardinality(live) + 1
  BY <1>1, <1>2, FS_AddElement
<1>4. Cardinality(dying') = Cardinality(dying) - 1
  BY <1>2, FS_RemoveElement DEF NoticeDeath
<1>5. Cardinality(live) \in Nat /\ Cardinality(dying) \in Nat
  BY <1>2, FS_CardinalityType
<1> QED
  BY <1>3, <1>4, <1>5 DEF WorkersAccounted

LEMMA AccountStep == TypeOK /\ WorkersAccounted /\ [Next]_vars => WorkersAccounted'
<1> SUFFICES ASSUME TypeOK, WorkersAccounted, [Next]_vars PROVE WorkersAccounted'
  OBVIOUS
<1>1. ASSUME NEW w \in Worker, NEW r \in Request, DieServing(w, r)
      PROVE  WorkersAccounted'
  BY <1>1, DiesAccounted DEF DieServing
<1>2. ASSUME NEW w \in Worker, Kill(w) PROVE WorkersAccounted'
  BY <1>2, DiesAccounted DEF Kill
<1>3. ASSUME NEW w \in Worker, NoticeDeath(w) PROVE WorkersAccounted'
  BY <1>3, NoticeAccounted
<1>4. ASSUME UNCHANGED <<restarts, workers>> PROVE WorkersAccounted'
  BY <1>4 DEF WorkersAccounted, workers
<1> QED
  BY <1>1, <1>2, <1>3, <1>4
     DEF Next, vars, Answer, Notify, LoseMessage, Deliver, Interval

-----------------------------------------------------------------------------
LEMMA TypeInvariant == Spec => []TypeOK
BY TypeInit, TypeStep, PTL DEF Spec

(* Between two callbacks of the master its two counters together are the   *)
(* number of the messages it has heard, however many workers there are,    *)
(* and whenever they die.                                                  *)
THEOREM CountersAgree == Spec => []CountsAddUp
BY CountInit, CountStep, TypeInvariant, PTL DEF Spec

(* If node emits 'death', no death is forgotten and none is answered by    *)
(* two forks.                                                              *)
THEOREM NoWorkerForgotten == Spec => []WorkersAccounted
BY AccountInit, AccountStep, TypeInvariant, PTL DEF Spec

=============================================================================
