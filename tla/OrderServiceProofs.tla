------------------------- MODULE OrderServiceProofs -------------------------
(***************************************************************************)
(* Theorems about OrderService, for any number of processes and orders.    *)
(***************************************************************************)
EXTENDS OrderService, SequenceTheorems, TLAPS

-----------------------------------------------------------------------------
(* What the server does to the store.                                      *)

(* Commands applied to a store give a store.                               *)
LEMMA AppliedType ==
    ASSUME NEW d \in [Uuid -> SUBSET Keys], NEW q
    PROVE  Applied(d, q) \in [Uuid -> SUBSET Keys]
<1> DEFINE Written(u) == {k \in Keys : \E i \in DOMAIN q :
                          /\ q[i].op \in Writes
                          /\ q[i].id = u
                          /\ k = KeyOf[q[i].op]
                          /\ \A j \in DOMAIN q : j > i => ~(q[j].op = "FLUSHALL")}
           Flushed == \E j \in DOMAIN q : q[j].op = "FLUSHALL"
<1>1. Applied(d, q) = [u \in Uuid |-> IF Flushed THEN Written(u)
                                      ELSE d[u] \cup Written(u)]
  BY DEF Applied
<1>2. ASSUME NEW u \in Uuid
      PROVE  (IF Flushed THEN Written(u) ELSE d[u] \cup Written(u)) \in SUBSET Keys
  <2>1. Written(u) \subseteq Keys
    OBVIOUS
  <2>2. d[u] \subseteq Keys
    OBVIOUS
  <2> QED
    BY <2>1, <2>2
<1> QED
  BY <1>1, <1>2

(* The three writes of an order, in post()'s order, give it all its keys   *)
(* and leave the other orders alone.                                       *)
LEMMA AppliedOrder ==
    ASSUME NEW d \in [Uuid -> SUBSET Keys], NEW u \in Uuid
    PROVE  Applied(d, QueueBefore("EXEC", u)) = [d EXCEPT ![u] = Keys]
<1> DEFINE H == [op |-> "HMSET", id |-> u]
           I == [op |-> "RPUSH_ITEMS", id |-> u]
           T == [op |-> "RPUSH_TRANSACTIONS", id |-> u]
           q == <<H, I, T>>
           Written(v) == {k \in Keys : \E i \in DOMAIN q :
                          /\ q[i].op \in Writes
                          /\ q[i].id = v
                          /\ k = KeyOf[q[i].op]
                          /\ \A j \in DOMAIN q : j > i => ~(q[j].op = "FLUSHALL")}
<1>1. QueueBefore("EXEC", u) = q
  BY DEF QueueBefore
<1>2. DOMAIN q = {1, 2, 3} /\ q[1] = H /\ q[2] = I /\ q[3] = T
  OBVIOUS
<1>3. \A i \in DOMAIN q : q[i].id = u /\ q[i].op \in Writes /\ q[i].op # "FLUSHALL"
  BY <1>2 DEF Writes
<1>4. Applied(d, q) = [v \in Uuid |-> d[v] \cup Written(v)]
  BY <1>3 DEF Applied
<1>5. ASSUME NEW v \in Uuid, v # u
      PROVE  Written(v) = {}
  BY <1>3, <1>5
<1>6. Written(u) = Keys
  <2>1. KeyOf[q[1].op] = "hash" /\ KeyOf[q[2].op] = "items"
        /\ KeyOf[q[3].op] = "transactions"
    BY <1>2 DEF KeyOf
  <2> HIDE DEF q
  <2> QED
    BY <1>2, <1>3, <2>1 DEF Keys
<1> HIDE DEF q, Written
<1>7. [v \in Uuid |-> d[v] \cup Written(v)] = [d EXCEPT ![u] = Keys]
  BY <1>5, <1>6
<1> QED
  BY <1>1, <1>4, <1>7

(* FLUSHALL on its own empties the store.                                  *)
LEMMA AppliedFlush ==
    ASSUME NEW d, NEW x
    PROVE  Applied(d, <<[op |-> "FLUSHALL", id |-> x]>>) = [u \in Uuid |-> {}]
<1> DEFINE q == <<[op |-> "FLUSHALL", id |-> x]>>
<1>1. DOMAIN q = {1} /\ q[1].op = "FLUSHALL"
  OBVIOUS
<1> HIDE DEF q
<1>2. Applied(d, q) = [u \in Uuid |-> {}]
  BY <1>1 DEF Applied, Writes
<1> QED
  BY <1>2 DEF q

(* One write on its own touches its order only.                            *)
LEMMA AppliedWrite ==
    ASSUME NEW d \in [Uuid -> SUBSET Keys], NEW op \in Writes, NEW u,
           NEW v \in Uuid, v # u
    PROVE  Applied(d, <<[op |-> op, id |-> u]>>)[v] = d[v]
<1> DEFINE q == <<[op |-> op, id |-> u]>>
<1>1. DOMAIN q = {1} /\ q[1].op # "FLUSHALL" /\ q[1].id = u
  BY DEF Writes
<1> HIDE DEF q
<1>2. Applied(d, q)[v] = d[v]
  BY <1>1 DEF Applied
<1> QED
  BY <1>2 DEF q

(* An EXEC with nothing queued changes nothing.                            *)
LEMMA AppliedNothing ==
    ASSUME NEW d \in [Uuid -> SUBSET Keys]
    PROVE  Applied(d, <<>>) = d
<1>1. DOMAIN <<>> = {}
  OBVIOUS
<1> QED
  BY <1>1 DEF Applied

-----------------------------------------------------------------------------
(* Types.                                                                  *)

LEMMA SessionType ==
    /\ NewSession \in Session
    /\ DoomedSession \in Session
    /\ \A s \in Session : [s EXCEPT !.multi = TRUE] \in Session
    /\ \A s \in Session, m \in [op : Op, id : Uuid \cup {NoUuid}] :
          [s EXCEPT !.queue = Append(@, m)] \in Session
<1>1. NewSession \in Session /\ DoomedSession \in Session
  BY DEF NewSession, DoomedSession, Session
<1>2. ASSUME NEW s \in Session
      PROVE  [s EXCEPT !.multi = TRUE] \in Session
  BY DEF Session
<1>3. ASSUME NEW s \in Session, NEW m \in [op : Op, id : Uuid \cup {NoUuid}]
      PROVE  [s EXCEPT !.queue = Append(@, m)] \in Session
  <2>1. Append(s.queue, m) \in Seq([op : Op, id : Uuid \cup {NoUuid}])
    BY DEF Session
  <2> QED
    BY <2>1 DEF Session
<1> QED
  BY <1>1, <1>2, <1>3

LEMMA TypeStep ==
    ASSUME TypeOK, [Next]_vars
    PROVE  TypeOK'
<1> USE DEF TypeOK
<1> SUFFICES ASSUME NEW p \in Process, Step(p) \/ Serve(p) \/ Break(p)
             PROVE  TypeOK'
  BY DEF Next, vars, clientVars, serverVars, storeVars
<1>1. CASE Connect(p)
  BY <1>1, SessionType DEF Connect, storeVars
<1>2. CASE Disconnect(p)
  BY <1>2, SessionType DEF Disconnect, storeVars
<1>3. CASE Post(p)
  BY <1>3 DEF Post, Send, FirstCommand, serverVars, storeVars, Op
<1>4. CASE Delete(p)
  BY <1>4 DEF Delete, Send, serverVars, storeVars, Op
<1>5. CASE Continue(p)
  <2>1. CommandAfter[pc[p]] \in Op
    BY <1>5 DEF Continue, CommandAfter, Op, Writes
  <2> QED
    BY <1>5, <2>1 DEF Continue, Send, serverVars, storeVars
<1>6. CASE Finish(p)
  BY <1>6 DEF Finish, serverVars, storeVars
<1>7. CASE ReplyLost(p)
  BY <1>7 DEF ReplyLost, serverVars, storeVars
<1>8. CASE CallUnconnected(p)
  BY <1>8 DEF CallUnconnected, serverVars, storeVars
<1>9. CASE Crash(p)
  BY <1>9 DEF Crash, serverVars, storeVars
<1>10. CASE ServeMulti(p)
  BY <1>10, SessionType DEF ServeMulti, Answer, clientVars, storeVars
<1>11. ASSUME NEW q, Execute(q)
       PROVE  db' \in [Uuid -> SUBSET Keys] /\ everStored' \subseteq Uuid /\ bare' = bare
  BY <1>11, AppliedType DEF Execute
<1>12. CASE ServeExec(p)
  BY <1>12, <1>11, SessionType DEF ServeExec, Answer, clientVars, storeVars
<1>13. CASE ServeQueued(p)
  <2>1. Command(p) \in [op : Op, id : Uuid \cup {NoUuid}]
    BY <1>13 DEF ServeQueued, Command, Op
  <2>2. session' \in [Process -> Session]
    BY <1>13, <2>1, SessionType DEF ServeQueued
  <2> QED
    BY <1>13, <2>2 DEF ServeQueued, Answer, clientVars, storeVars
<1>14. CASE ServeNow(p)
  BY <1>14, <1>11 DEF ServeNow, Answer, clientVars
<1>15. CASE Refuse(p)
  BY <1>15, SessionType DEF Refuse, Answer, clientVars
<1>16. CASE Break(p)
  BY <1>16, SessionType DEF Break, clientVars, storeVars
<1> QED
  BY <1>1, <1>2, <1>3, <1>4, <1>5, <1>6, <1>7, <1>8, <1>9, <1>10, <1>12,
     <1>13, <1>14, <1>15, <1>16 DEF Step, Serve

(* The variables of the service keep their types.                          *)
THEOREM TypeCorrect == Spec => []TypeOK
<1>1. Init => TypeOK
  BY SessionType DEF Init, TypeOK
<1> QED
  BY <1>1, TypeStep, PTL DEF Spec

-----------------------------------------------------------------------------
(* The inductive invariant.  AllOrNothing says nothing of the commands     *)
(* still under way; what keeps it true is that the queue which EXEC will   *)
(* apply holds all three writes of one order, or nothing (SessionInStep),  *)
(* that the process and the connection agree on what is under way          *)
(* (Connected), and that an order under way is nowhere in the store unless *)
(* its MULTI was refused (Fresh).                                          *)

Connected == \A p \in Process :
    /\ ~open[p] => request[p] = "none" /\ session[p] = NewSession
    /\ pc[p] = "down" => ~open[p]
    /\ request[p] # "none" /\ pc[p] # "crashed" => pc[p] = request[p] /\ ~reply[p]
    /\ pc[p] \in {"idle", "down"} => request[p] = "none" /\ ~reply[p]
    /\ session[p].dirty => session[p].multi

(* A POST of p has not been executed yet.                                  *)
Pending(p) ==
    \/ request[p] \in Op \ {"FLUSHALL"}
    \/ pc[p] \in DOMAIN CommandAfter

Fresh ==
    /\ everStored \subseteq used
    /\ \A u \in Uuid : db[u] # {} => u \in everStored
    /\ \A p \in Process : id[p] \in used \cup {NoUuid}
    /\ \A p, q \in Process : id[p] = id[q] => p = q \/ id[p] = NoUuid
    /\ \A p \in Process : Pending(p) =>
          id[p] \in Uuid /\ (id[p] \in bare \/ id[p] \notin everStored)
    /\ bare \subseteq used
    /\ \A p \in Process : request[p] = "MULTI" => id[p] \notin bare

IInv ==
    /\ TypeOK
    /\ Connected
    /\ SessionInStep
    /\ Fresh

LEMMA InitInv == Init => IInv
<1> SUFFICES ASSUME Init PROVE IInv
  OBVIOUS
<1>1. TypeOK
  BY SessionType DEF Init, TypeOK
<1>2. Connected
  BY DEF Init, Connected, NewSession
<1>3. SessionInStep
  BY DEF Init, SessionInStep
<1>4. Fresh
  BY DEF Init, Fresh, Pending, CommandAfter, Op, Writes
<1> QED
  BY <1>1, <1>2, <1>3, <1>4 DEF IInv

LEMMA NextCommands ==
    /\ DOMAIN CommandAfter = {"MULTI", "HMSET", "RPUSH_ITEMS", "RPUSH_TRANSACTIONS"}
    /\ CommandAfter["MULTI"] = "HMSET"
    /\ CommandAfter["HMSET"] = "RPUSH_ITEMS"
    /\ CommandAfter["RPUSH_ITEMS"] = "RPUSH_TRANSACTIONS"
    /\ CommandAfter["RPUSH_TRANSACTIONS"] = "EXEC"
BY DEF CommandAfter

LEMMA ConnectedStep ==
    ASSUME IInv, [Next]_vars
    PROVE  Connected'
<1> USE DEF IInv, TypeOK, Connected
<1> SUFFICES ASSUME NEW p \in Process, Step(p) \/ Serve(p) \/ Break(p)
             PROVE  Connected'
  BY DEF Next, vars, clientVars, serverVars, storeVars
<1>1. CASE Connect(p)
  BY <1>1 DEF Connect, NewSession
<1>2. CASE Disconnect(p)
  BY <1>2 DEF Disconnect, NewSession
<1>3. CASE Post(p)
  BY <1>3 DEF Post, Send, FirstCommand, serverVars, storeVars
<1>4. CASE Delete(p)
  BY <1>4 DEF Delete, Send, serverVars, storeVars
<1>5. CASE Continue(p)
  BY <1>5, NextCommands DEF Continue, Send, serverVars, storeVars
<1>6. CASE Finish(p)
  BY <1>6 DEF Finish, serverVars, storeVars
<1>7. CASE ReplyLost(p)
  BY <1>7 DEF ReplyLost, serverVars, storeVars
<1>8. CASE CallUnconnected(p)
  BY <1>8 DEF CallUnconnected, serverVars, storeVars
<1>9. CASE Crash(p)
  BY <1>9 DEF Crash, serverVars, storeVars
<1>10. CASE ServeMulti(p)
  BY <1>10 DEF ServeMulti, Answer, clientVars, Session
<1>11. CASE ServeExec(p)
  BY <1>11 DEF ServeExec, Answer, clientVars, NewSession
<1>12. CASE ServeQueued(p)
  BY <1>12 DEF ServeQueued, Answer, clientVars, Session
<1>13. CASE ServeNow(p)
  BY <1>13 DEF ServeNow, Answer, clientVars
<1>14. CASE Refuse(p)
  BY <1>14 DEF Refuse, Answer, clientVars, DoomedSession
<1>15. CASE Break(p)
  BY <1>15 DEF Break, clientVars, NewSession
<1> QED
  BY <1>1, <1>2, <1>3, <1>4, <1>5, <1>6, <1>7, <1>8, <1>9, <1>10, <1>11,
     <1>12, <1>13, <1>14, <1>15 DEF Step, Serve

LEMMA ShortSequences == \A a, b, c :
    /\ Append(<<>>, a) = <<a>>
    /\ Append(<<a>>, b) = <<a, b>>
    /\ Append(<<a, b>>, c) = <<a, b, c>>
<1> SUFFICES ASSUME NEW a, NEW b, NEW c
             PROVE  /\ Append(<<>>, a) = <<a>>
                    /\ Append(<<a>>, b) = <<a, b>>
                    /\ Append(<<a, b>>, c) = <<a, b, c>>
  OBVIOUS
<1> DEFINE S == {a, b, c}
<1>1. /\ <<a>> \in Seq(S) /\ <<a, b>> \in Seq(S) /\ <<a, b, c>> \in Seq(S)
      /\ Append(<<a>>, b) \in Seq(S) /\ Append(<<a, b>>, c) \in Seq(S)
  OBVIOUS
<1>2. Append(<<>>, a) = <<a>>
  OBVIOUS
<1>3. Append(<<a>>, b) = <<a, b>>
  <2>1. /\ Len(Append(<<a>>, b)) = 2 /\ Len(<<a, b>>) = 2
        /\ \A i \in 1..2 : Append(<<a>>, b)[i] = <<a, b>>[i]
    BY <1>1
  <2> QED
    BY <1>1, <2>1, SeqEqual, Zenon
<1>4. Append(<<a, b>>, c) = <<a, b, c>>
  <2>1. /\ Len(Append(<<a, b>>, c)) = 3 /\ Len(<<a, b, c>>) = 3
        /\ \A i \in 1..3 : Append(<<a, b>>, c)[i] = <<a, b, c>>[i]
    BY <1>1
  <2> QED
    BY <1>1, <2>1, SeqEqual, Zenon
<1> QED
  BY <1>2, <1>3, <1>4

(* The sessions one command apart.                                         *)
LEMMA Sessions ==
    ASSUME NEW u
    PROVE  /\ \A op \in {"MULTI", "FLUSHALL", "none"} :
                  SessionBefore(op, u) = NewSession
           /\ QueueBefore("HMSET", u) = <<>>
           /\ \A op \in Writes : QueueBefore(CommandAfter[op], u) =
                  Append(QueueBefore(op, u), [op |-> op, id |-> u])
<1>1. ASSUME NEW op \in {"MULTI", "FLUSHALL", "none"}
      PROVE  SessionBefore(op, u) = NewSession
  <2>1. QueueBefore(op, u) = <<>>
    BY DEF QueueBefore
  <2>2. (op \in Writes \cup {"EXEC"}) = FALSE
    BY DEF Writes
  <2> QED
    BY <2>1, <2>2, Zenon DEF SessionBefore, NewSession
<1> DEFINE H == [op |-> "HMSET", id |-> u]
           I == [op |-> "RPUSH_ITEMS", id |-> u]
           T == [op |-> "RPUSH_TRANSACTIONS", id |-> u]
<1>2. /\ QueueBefore("HMSET", u) = <<>>
      /\ QueueBefore("RPUSH_ITEMS", u) = <<H>>
      /\ QueueBefore("RPUSH_TRANSACTIONS", u) = <<H, I>>
      /\ QueueBefore("EXEC", u) = <<H, I, T>>
  BY DEF QueueBefore
<1>3. /\ Append(<<>>, H) = <<H>>
      /\ Append(<<H>>, I) = <<H, I>>
      /\ Append(<<H, I>>, T) = <<H, I, T>>
  BY ShortSequences
<1>4. \A op \in Writes : QueueBefore(CommandAfter[op], u) =
          Append(QueueBefore(op, u), [op |-> op, id |-> u])
  BY <1>2, <1>3, NextCommands DEF Writes
<1> QED
  BY <1>1, <1>2, <1>4

LEMMA Updated == \A m, d, q, x :
    /\ [[multi |-> m, dirty |-> d, queue |-> q] EXCEPT !.multi = x]
           = [multi |-> x, dirty |-> d, queue |-> q]
    /\ [[multi |-> m, dirty |-> d, queue |-> q] EXCEPT !.queue = Append(@, x)]
           = [multi |-> m, dirty |-> d, queue |-> Append(q, x)]
OBVIOUS

LEMMA Multi == \A op, u :
    SessionBefore(op, u).multi <=> op \in Writes \cup {"EXEC"}
BY DEF SessionBefore

(* On an open connection with a command under way.                         *)
LEMMA UnderWay ==
    ASSUME IInv, NEW p \in Process, request[p] # "none", ~session[p].dirty
    PROVE  session[p] = IF id[p] \in bare THEN NewSession
                        ELSE SessionBefore(request[p], id[p])
BY DEF IInv, TypeOK, Connected, SessionInStep, NextToServe

(* Two processes do not serve the same order, so that a MULTI refused to   *)
(* one of them changes nothing for the other.                              *)
LEMMA BareIsOwn ==
    ASSUME IInv, [Next]_vars, NEW p \in Process, NEW q \in Process, q # p,
           Step(p) \/ Serve(p) \/ Break(p)
    PROVE  id'[q] = id[q] /\ (id'[q] \in bare' <=> id[q] \in bare)
<1>1. CASE Refuse(p)
  <2>1. id' = id /\ bare' \in {bare, bare \cup {id[p]}}
    BY <1>1 DEF Refuse, Answer, clientVars
  <2>2. bare' # bare => request[p] = "MULTI"
    BY <1>1 DEF Refuse
  <2>3. request[p] = "MULTI" => id[p] \in Uuid /\ id[q] # id[p]
    BY ServiceAssumption DEF IInv, Fresh, Pending, Op
  <2> QED
    BY <2>1, <2>2, <2>3
<1>2. CASE Post(p)
  BY <1>2 DEF Post, serverVars, storeVars, IInv, TypeOK
<1>3. CASE Step(p) /\ ~Post(p)
  BY <1>3 DEF Step, Connect, Disconnect, Delete, Continue, Finish, ReplyLost,
              CallUnconnected, Crash, serverVars, storeVars
<1>4. CASE ServeMulti(p) \/ ServeExec(p) \/ ServeQueued(p) \/ ServeNow(p) \/ Break(p)
  BY <1>4 DEF ServeMulti, ServeExec, ServeQueued, ServeNow, Break, Execute, Answer,
              clientVars, storeVars
<1> QED
  BY <1>1, <1>2, <1>3, <1>4 DEF Serve

(* A process whose variables do not change stays in step.                  *)
LEMMA OthersInStep ==
    ASSUME SessionInStep, NEW q \in Process,
           open'[q] = open[q], session'[q] = session[q], pc'[q] = pc[q],
           request'[q] = request[q], reply'[q] = reply[q], id'[q] = id[q],
           id'[q] \in bare' <=> id[q] \in bare
    PROVE  open'[q] /\ ~session'[q].dirty /\ (pc'[q] = "crashed" => request'[q] # "none")
               => session'[q] = IF id'[q] \in bare' THEN NewSession
                                ELSE SessionBefore(NextToServe(q)', id'[q])
BY DEF SessionInStep, NextToServe

LEMMA SessionInStepStep ==
    ASSUME IInv, [Next]_vars
    PROVE  SessionInStep'
<1>0. \A r \in Process : request[r] # "none" /\ ~session[r].dirty
                => session[r] = IF id[r] \in bare THEN NewSession
                                ELSE SessionBefore(request[r], id[r])
  BY UnderWay
<1> USE DEF IInv, TypeOK, Connected
<1>1. CASE UNCHANGED vars
  <2> SUFFICES ASSUME NEW q \in Process
               PROVE  open'[q] /\ ~session'[q].dirty /\ (pc'[q] = "crashed" => request'[q] # "none")
                         => session'[q] = IF id'[q] \in bare' THEN NewSession
                                          ELSE SessionBefore(NextToServe(q)', id'[q])
    BY DEF SessionInStep
  <2> QED
    BY <1>1, OthersInStep DEF vars, clientVars, serverVars, storeVars
<1>2. CASE Next
  <2> PICK p \in Process : Step(p) \/ Serve(p) \/ Break(p)
    BY <1>2 DEF Next
  <2> SUFFICES ASSUME NEW q \in Process,
                      open'[q], ~session'[q].dirty, pc'[q] = "crashed" => request'[q] # "none"
               PROVE  session'[q] = IF id'[q] \in bare' THEN NewSession
                                    ELSE SessionBefore(NextToServe(q)', id'[q])
    BY DEF SessionInStep
  <2>0. q # p => id'[q] = id[q] /\ (id'[q] \in bare' <=> id[q] \in bare)
    BY BareIsOwn
  <2> USE <2>0 DEF NextToServe
  <2>1. CASE Connect(p)
    <3>1. CASE q = p
      <4>1. session'[p] = NewSession /\ pc'[p] = "idle" /\ request'[p] = "none"
        BY <2>1 DEF Connect
      <4>2. NextToServe(p)' \in {"MULTI", "FLUSHALL", "none"}
        BY <4>1, NextCommands
      <4>3. SessionBefore(NextToServe(p)', id'[p]) = NewSession
        BY <4>2, Sessions
      <4> QED
        BY <3>1, <4>1, <4>3
    <3> QED
      BY <2>1, <3>1, OthersInStep DEF Connect
  <2>2. CASE Disconnect(p)
    BY <2>2, OthersInStep DEF Disconnect
  <2>3. CASE Post(p)
    BY <2>3, OthersInStep, Sessions, NextCommands
       DEF Post, Send, FirstCommand, serverVars, storeVars, SessionInStep
  <2>4. CASE Delete(p)
    BY <2>4, OthersInStep, Sessions, NextCommands
       DEF Delete, Send, serverVars, storeVars, SessionInStep
  <2>5. CASE Continue(p)
    BY <2>5, OthersInStep, NextCommands
       DEF Continue, Send, serverVars, storeVars, SessionInStep
  <2>6. CASE Finish(p)
    BY <2>6, OthersInStep, NextCommands DEF Finish, serverVars, storeVars, SessionInStep
  <2>7. CASE ReplyLost(p)
    BY <2>7, OthersInStep DEF ReplyLost, serverVars, storeVars
  <2>8. CASE CallUnconnected(p)
    BY <2>8, OthersInStep DEF CallUnconnected, serverVars, storeVars
  <2>9. CASE Crash(p)
    BY <2>9, OthersInStep DEF Crash, serverVars, storeVars, SessionInStep
  <2>10. CASE ServeMulti(p)
    <3>1. CASE q = p
      <4>1. session[p] = NewSession
        <5>1. ~session[p].dirty
          BY <2>10, <3>1 DEF ServeMulti, Session
        <5> QED
          BY <1>0, <2>10, <5>1, Sessions DEF ServeMulti
      <4>2. session'[p] = [multi |-> TRUE, dirty |-> FALSE, queue |-> <<>>]
        <5>1. session'[p] = [session[p] EXCEPT !.multi = TRUE]
          BY <2>10 DEF ServeMulti
        <5>2. session'[p] = [NewSession EXCEPT !.multi = TRUE]
          BY <4>1, <5>1
        <5> QED
          BY <5>2, Zenon, Updated DEF NewSession
      <4>3. session'[p] = SessionBefore("HMSET", id[p])
        <5>1. QueueBefore("HMSET", id[p]) = <<>>
          BY Sessions
        <5> QED
          BY <4>2, <5>1 DEF SessionBefore, Writes
      <4>4. id'[p] \notin bare'
        BY <2>10 DEF ServeMulti, Answer, clientVars, storeVars, Fresh
      <4> QED
        BY <2>10, <3>1, <4>3, <4>4, NextCommands DEF ServeMulti, Answer, clientVars
    <3> QED
      BY <2>10, <3>1, OthersInStep DEF ServeMulti, Answer, clientVars
  <2>11. CASE ServeExec(p)
    <3>1. CASE q = p
      BY <2>11, <3>1, Sessions, NextCommands DEF ServeExec, Answer, clientVars
    <3> QED
      BY <2>11, <3>1, OthersInStep DEF ServeExec, Answer, clientVars
  <2>12. CASE ServeQueued(p)
    <3>1. CASE q = p
      <4>1. ~session[p].dirty
        BY <2>12, <3>1 DEF ServeQueued, Session
      <4>2. session[p] = SessionBefore(request[p], id[p]) /\ id[p] \notin bare
        BY <1>0, <2>12, <4>1 DEF ServeQueued, Answer, NewSession
      <4>6. id' = id /\ bare' = bare
        BY <2>12 DEF ServeQueued, Answer, clientVars, storeVars
      <4>3. request[p] \in Writes
        <5>1. SessionBefore(request[p], id[p]).multi
          BY <2>12, <4>2 DEF ServeQueued
        <5>2. request[p] \in Writes \cup {"EXEC"}
          BY <5>1, Multi
        <5> QED
          BY <2>12, <5>2 DEF ServeQueued
      <4>4. session'[p] = [session[p] EXCEPT !.queue = Append(@, Command(p))]
        BY <2>12, <4>1 DEF ServeQueued
      <4>5. session'[p] = SessionBefore(CommandAfter[request[p]], id[p])
        <5>1. QueueBefore(CommandAfter[request[p]], id[p]) =
                  Append(QueueBefore(request[p], id[p]), Command(p))
          BY <4>3, Sessions DEF Command
        <5>2. CommandAfter[request[p]] \in Writes \cup {"EXEC"}
          BY <4>3, NextCommands DEF Writes
        <5>3. session[p] = [multi |-> TRUE, dirty |-> FALSE,
                            queue |-> QueueBefore(request[p], id[p])]
          BY <4>2, <4>3 DEF SessionBefore
        <5>4. session'[p] = [multi |-> TRUE, dirty |-> FALSE,
                  queue |-> Append(QueueBefore(request[p], id[p]), Command(p))]
          <6> DEFINE Q == QueueBefore(request[p], id[p])
                     m == Command(p)
          <6>1. session'[p] = [[multi |-> TRUE, dirty |-> FALSE, queue |-> Q]
                                  EXCEPT !.queue = Append(@, m)]
            BY <4>4, <5>3, Zenon
          <6> QED
            BY <6>1, Zenon, Updated
        <5> QED
          BY <5>1, <5>2, <5>4 DEF SessionBefore
      <4> QED
        BY <2>12, <3>1, <4>2, <4>3, <4>5, <4>6, NextCommands
           DEF ServeQueued, Answer, clientVars, Writes
    <3> QED
      BY <2>12, <3>1, OthersInStep DEF ServeQueued, Answer, clientVars
  <2>13. CASE ServeNow(p)
    <3>0. id' = id /\ bare' = bare /\ session' = session
      BY <2>13 DEF ServeNow, Execute, Answer, clientVars
    <3>1. CASE q = p /\ id[p] \in bare
      BY <1>0, <2>13, <3>0, <3>1 DEF ServeNow, Answer
    <3>2. CASE q = p /\ id[p] \notin bare
      <4>1. session[p] = SessionBefore(request[p], id[p])
        BY <1>0, <2>13, <3>2 DEF ServeNow, Answer
      <4>2. request[p] = "FLUSHALL"
        <5>1. ~SessionBefore(request[p], id[p]).multi
          BY <2>13, <4>1 DEF ServeNow
        <5>2. request[p] \notin Writes \cup {"EXEC"}
          BY <5>1, Multi
        <5> QED
          BY <2>13, <5>2 DEF ServeNow
      <4> QED
        BY <2>13, <3>0, <3>2, <4>1, <4>2, Sessions, NextCommands
           DEF ServeNow, Answer, clientVars
    <3> QED
      BY <2>13, <3>1, <3>2, OthersInStep DEF ServeNow, Answer, clientVars
  <2>14. CASE Refuse(p)
    <3>1. CASE q = p
      <4>1. ~session[p].multi /\ session' = session /\ ~session[p].dirty
        BY <2>14, <3>1 DEF Refuse, DoomedSession
      <4>2. session[p] = IF id[p] \in bare THEN NewSession
                         ELSE SessionBefore(request[p], id[p])
        BY <1>0, <2>14, <4>1 DEF Refuse, Answer
      <4>3. request[p] \in {"MULTI", "FLUSHALL"} \/ id[p] \in bare
        BY <2>14, <4>1, <4>2, Multi DEF Refuse, Op, Answer
      <4>4. session'[p] = NewSession
        BY <4>1, <4>2, <4>3, Sessions
      <4>5. id' = id /\ bare' = IF request[p] = "MULTI" THEN bare \cup {id[p]} ELSE bare
        BY <2>14, <4>1 DEF Refuse, Answer, clientVars
      <4>6. id'[p] \notin bare' => request[p] = "FLUSHALL"
        BY <4>3, <4>5
      <4> QED
        BY <2>14, <3>1, <4>4, <4>6, Sessions, NextCommands
           DEF Refuse, Answer, clientVars
    <3> QED
      BY <2>14, <3>1, OthersInStep DEF Refuse, Answer, clientVars
  <2>15. CASE Break(p)
    BY <2>15, OthersInStep DEF Break, clientVars
  <2> QED
    BY <2>1, <2>2, <2>3, <2>4, <2>5, <2>6, <2>7, <2>8, <2>9, <2>10, <2>11,
       <2>12, <2>13, <2>14, <2>15 DEF Step, Serve
<1> QED
  BY <1>1, <1>2

-----------------------------------------------------------------------------
(* What a step does to the store: nothing, one whole order that was never  *)
(* there, or a flush; or it concerns an order whose MULTI was refused.     *)

Unchanged == UNCHANGED <<db, everStored, bare>>

Stores(u) ==
    /\ u \in Uuid \ (everStored \cup bare)
    /\ db' = [db EXCEPT ![u] = Keys]
    /\ everStored' = everStored \cup {u}
    /\ bare' = bare

Flushes ==
    /\ db' = [u \in Uuid |-> {}]
    /\ everStored' = everStored
    /\ bare' = bare

Bares(u) ==
    /\ u \in Uuid \ (everStored \cup bare)
    /\ UNCHANGED <<db, everStored>>
    /\ bare' = bare \cup {u}

WritesBare(u) ==
    /\ u \in Uuid \cap bare
    /\ \A v \in Uuid \ {u} : db'[v] = db[v]
    /\ everStored' = everStored \cup {v \in Uuid : db'[v] # {}}
    /\ bare' = bare

(* Only an EXEC stores, and what it stores is the order of its process.    *)
LEMMA ServeEffect ==
    ASSUME IInv, NEW p \in Process, Serve(p)
    PROVE  \/ Unchanged
           \/ Flushes
           \/ request[p] = "EXEC" /\ Stores(id[p])
           \/ request[p] = "MULTI" /\ Bares(id[p])
           \/ request[p] \in Writes /\ WritesBare(id[p])
<1>0. \A r \in Process : request[r] # "none" /\ ~session[r].dirty
                => session[r] = IF id[r] \in bare THEN NewSession
                                ELSE SessionBefore(request[r], id[r])
  BY UnderWay
<1>7. request[p] \in Op \ {"FLUSHALL"} =>
          id[p] \in Uuid /\ (id[p] \in bare \/ id[p] \notin everStored)
  BY DEF IInv, Fresh, Pending
<1> USE DEF IInv, TypeOK
<1>1. CASE ServeMulti(p) \/ ServeQueued(p)
  BY <1>1 DEF ServeMulti, ServeQueued, Unchanged, storeVars
<1>2. CASE Refuse(p)
  <2>1. CASE request[p] = "MULTI" /\ ~session[p].multi
    <3>1. id[p] \in Uuid \ (everStored \cup bare)
      BY <1>7, <2>1 DEF Fresh, Op
    <3> QED
      BY <1>2, <2>1, <3>1 DEF Refuse, Bares
  <2>2. CASE ~(request[p] = "MULTI" /\ ~session[p].multi)
    BY <1>2, <2>2 DEF Refuse, Unchanged
  <2> QED
    BY <2>1, <2>2
<1>3. CASE ServeExec(p)
  <2>1. CASE session[p].dirty
    BY <1>3, <2>1 DEF ServeExec, Unchanged, storeVars
  <2>2. CASE ~session[p].dirty /\ id[p] \notin bare
    <3>1. session[p].queue = QueueBefore("EXEC", id[p])
      BY <1>0, <1>3, <2>2 DEF ServeExec, SessionBefore
    <3>2. id[p] \in Uuid \ (everStored \cup bare)
      BY <1>3, <1>7, <2>2 DEF ServeExec, Op
    <3>3. db' = [db EXCEPT ![id[p]] = Keys]
      BY <1>3, <2>2, <3>1, <3>2, AppliedOrder DEF ServeExec, Execute
    <3>4. everStored' = everStored \cup {u \in Uuid : db'[u] # {}} /\ bare' = bare
      BY <1>3, <2>2 DEF ServeExec, Execute
    <3>5. everStored' = everStored \cup {id[p]}
      BY <3>2, <3>3, <3>4 DEF Fresh, Keys
    <3> QED
      BY <1>3, <3>2, <3>3, <3>4, <3>5 DEF ServeExec, Stores
  <2>3. CASE ~session[p].dirty /\ id[p] \in bare
    <3>1. session[p].queue = <<>>
      BY <1>0, <1>3, <2>3 DEF ServeExec, NewSession
    <3>2. db' = db
      BY <1>3, <2>3, <3>1, AppliedNothing DEF ServeExec, Execute
    <3>3. everStored' = everStored \cup {u \in Uuid : db'[u] # {}} /\ bare' = bare
      BY <1>3, <2>3 DEF ServeExec, Execute
    <3>4. everStored' = everStored
      BY <3>2, <3>3 DEF Fresh
    <3> QED
      BY <3>2, <3>3, <3>4 DEF Unchanged
  <2> QED
    BY <2>1, <2>2, <2>3
<1>4. CASE ServeNow(p)
  <2>1. db' = Applied(db, <<Command(p)>>) /\ bare' = bare
        /\ everStored' = everStored \cup {u \in Uuid : db'[u] # {}}
    BY <1>4 DEF ServeNow, Execute
  <2>2. CASE request[p] = "FLUSHALL"
    <3>1. db' = [u \in Uuid |-> {}]
      BY <2>1, <2>2, AppliedFlush DEF Command
    <3> QED
      BY <2>1, <3>1 DEF Flushes
  <2>3. CASE request[p] # "FLUSHALL"
    <3>1. request[p] \in Writes
      BY <1>4, <2>3 DEF ServeNow
    <3>2. id[p] \in bare
      <4>1. ~session[p].multi /\ ~session[p].dirty
        BY <1>4 DEF ServeNow, Connected
      <4>2. id[p] \notin bare => session[p] = SessionBefore(request[p], id[p])
        BY <1>0, <3>1, <4>1 DEF Writes
      <4> QED
        BY <3>1, <4>1, <4>2, Multi
    <3>3. id[p] \in Uuid
      BY <1>7, <3>1 DEF Op, Writes
    <3>4. \A v \in Uuid \ {id[p]} : db'[v] = db[v]
      BY <2>1, <3>1, AppliedWrite DEF Command
    <3> QED
      BY <2>1, <3>1, <3>2, <3>3, <3>4 DEF WritesBare
  <2> QED
    BY <2>2, <2>3
<1> QED
  BY <1>1, <1>2, <1>3, <1>4 DEF Serve

LEMMA Effect ==
    ASSUME IInv, [Next]_vars
    PROVE  \/ Unchanged
           \/ Flushes
           \/ \E p \in Process : Stores(id[p]) \/ Bares(id[p]) \/ WritesBare(id[p])
<1>1. ASSUME NEW p \in Process, Step(p) \/ Break(p)
      PROVE  Unchanged
  BY <1>1 DEF Step, Connect, Disconnect, Post, Delete, Continue, Finish, ReplyLost,
              CallUnconnected, Crash, Break, serverVars, storeVars, Unchanged
<1>2. CASE UNCHANGED vars
  BY <1>2 DEF vars, clientVars, serverVars, storeVars, Unchanged
<1> QED
  BY <1>1, <1>2, ServeEffect DEF Next

LEMMA FreshStep ==
    ASSUME IInv, [Next]_vars
    PROVE  Fresh'
<1>1. CASE UNCHANGED vars
  BY <1>1 DEF vars, clientVars, serverVars, storeVars, IInv, Fresh, Pending
<1>2. ASSUME NEW p \in Process, Serve(p)
      PROVE  Fresh'
  <2>1. /\ UNCHANGED <<pc, id, used>>
        /\ request' = [request EXCEPT ![p] = "none"]
        /\ request[p] # "none"
    BY <1>2 DEF Serve, ServeMulti, ServeExec, ServeQueued, ServeNow, Refuse,
                Answer, clientVars
  <2>2. CASE Unchanged \/ Flushes
    BY <2>1, <2>2 DEF Unchanged, Flushes, IInv, TypeOK, Fresh, Pending, Op, Writes
  <2>3. CASE request[p] = "EXEC" /\ Stores(id[p])
    <3>1. pc[p] = "EXEC" \/ pc[p] = "crashed"
      BY <2>3 DEF IInv, Connected
    <3>2. ~Pending(p)'
      BY <2>1, <3>1, NextCommands DEF Pending, IInv, TypeOK, Op, Writes
    <3> QED
      BY <2>1, <2>3, <3>2, ServiceAssumption
         DEF Stores, IInv, TypeOK, Fresh, Pending, Op
  <2>4. CASE request[p] = "MULTI" /\ Bares(id[p])
    <3>1. id[p] \in used /\ id[p] # NoUuid
      BY <2>4, ServiceAssumption DEF Bares, IInv, Fresh
    <3> QED
      BY <2>1, <2>4, <3>1 DEF Bares, IInv, TypeOK, Fresh, Pending, Op, Writes
  <2>5. CASE WritesBare(id[p])
    <3>1. everStored' \subseteq everStored \cup {id[p]}
      BY <2>5 DEF WritesBare, IInv, Fresh
    <3>2. \A u \in Uuid : db'[u] # {} => u \in everStored'
      BY <2>5 DEF WritesBare
    <3>3. id[p] \in bare /\ bare \subseteq used /\ bare' = bare
      BY <2>5 DEF WritesBare, IInv, Fresh
    <3>4. \A q \in Process : Pending(q)' => Pending(q)
      BY <2>1 DEF Pending, IInv, TypeOK, Op, Writes
    <3>5. \A q \in Process : request'[q] = "MULTI" => request[q] = "MULTI"
      BY <2>1 DEF IInv, TypeOK
    <3> QED
      BY <2>1, <3>1, <3>2, <3>3, <3>4, <3>5 DEF IInv, Fresh
  <2> QED
    BY <1>2, <2>2, <2>3, <2>4, <2>5, ServeEffect
<1>3. ASSUME NEW p \in Process, Step(p) \/ Break(p)
      PROVE  Fresh'
  <2>0. UNCHANGED <<db, everStored, bare>>
    BY <1>3 DEF Step, Connect, Disconnect, Post, Delete, Continue, Finish, ReplyLost,
                CallUnconnected, Crash, Break, serverVars, storeVars
  <2> USE <2>0, NextCommands DEF IInv, TypeOK, Fresh, Pending
  <2>1. CASE Connect(p)
    BY <2>1 DEF Connect
  <2>2. CASE Disconnect(p)
    BY <2>2 DEF Disconnect
  <2>3. CASE Post(p)
    <3>1. PICK u \in Uuid \ used : id' = [id EXCEPT ![p] = u] /\ used' = used \cup {u}
      BY <2>3 DEF Post
    <3>2. \A q \in Process : q # p => (Pending(q)' <=> Pending(q)) /\ id'[q] = id[q]
      BY <2>3, <3>1 DEF Post, Send
    <3>3. u \notin everStored /\ u # NoUuid
      BY <3>1, ServiceAssumption
    <3>4. \A q \in Process : q # p => id[q] # u
      BY <3>1, <3>3
    <3>5. id'[p] = u /\ everStored' = everStored /\ db' = db /\ bare' = bare
      BY <3>1
    <3>6. everStored' \subseteq used' /\ \A v \in Uuid : db'[v] # {} => v \in everStored'
      BY <3>1, <3>5
    <3>7. \A q \in Process : id'[q] \in used' \cup {NoUuid}
      BY <3>1, <3>2, <3>5
    <3>8. \A q, r \in Process : id'[q] = id'[r] => q = r \/ id'[q] = NoUuid
      BY <3>2, <3>4, <3>5
    <3>9. \A q \in Process : Pending(q)' =>
              id'[q] \in Uuid /\ (id'[q] \in bare' \/ id'[q] \notin everStored')
      BY <3>1, <3>2, <3>3, <3>5
    <3>10. bare' \subseteq used' /\ u \notin bare'
      BY <3>1, <3>5
    <3>11. \A q \in Process : q # p => request'[q] = request[q]
      BY <2>3 DEF Post, Send
    <3>12. \A q \in Process : request'[q] = "MULTI" => id'[q] \notin bare'
      BY <3>2, <3>5, <3>10, <3>11
    <3> HIDE DEF Pending
    <3> QED
      BY <3>6, <3>7, <3>8, <3>9, <3>10, <3>12
  <2>4. CASE Delete(p)
    BY <2>4 DEF Delete, Send, Op, Writes
  <2>5. CASE Continue(p)
    BY <2>5 DEF Continue, Send, Op, Writes
  <2>6. CASE Finish(p)
    BY <2>6 DEF Finish
  <2>7. CASE ReplyLost(p)
    BY <2>7 DEF ReplyLost
  <2>8. CASE CallUnconnected(p)
    BY <2>8 DEF CallUnconnected
  <2>9. CASE Crash(p)
    BY <2>9 DEF Crash
  <2>10. CASE Break(p)
    BY <2>10 DEF Break, clientVars, Op, Writes
  <2> QED
    BY <1>3, <2>1, <2>2, <2>3, <2>4, <2>5, <2>6, <2>7, <2>8, <2>9, <2>10 DEF Step
<1> QED
  BY <1>1, <1>2, <1>3 DEF Next

-----------------------------------------------------------------------------
(* The results, whatever the server refuses.                               *)

LEMMA Invariant == Spec => []IInv
<1>1. IInv /\ [Next]_vars => IInv'
  BY TypeStep, ConnectedStep, SessionInStepStep, FreshStep DEF IInv
<1> QED
  BY <1>1, InitInv, PTL DEF Spec

(* The process and the server agree, at every step, on how far the         *)
(* transaction of post() has come and on the order it is for.              *)
THEOREM InStep == Spec => []SessionInStep
<1>1. IInv => SessionInStep
  BY DEF IInv
<1> QED
  BY <1>1, Invariant, PTL

(* No reader of the store ever sees part of an order whose MULTI was not   *)
(* refused, whatever commands of it or of other orders are, and whatever   *)
(* connection or process dies.                                             *)
THEOREM NoPartialOrder == Spec => []AllOrNothing
<1>1. Init => AllOrNothing
  BY DEF Init, AllOrNothing
<1>2. AllOrNothing /\ IInv /\ [Next]_vars => AllOrNothing'
  <2> SUFFICES ASSUME AllOrNothing, IInv, [Next]_vars
               PROVE  AllOrNothing'
    OBVIOUS
  <2> QED
    <3>1. CASE Unchanged \/ Flushes
      BY <3>1 DEF IInv, TypeOK, AllOrNothing, Unchanged, Flushes
    <3>2. ASSUME NEW p \in Process, Stores(id[p]) \/ Bares(id[p]) \/ WritesBare(id[p])
          PROVE  AllOrNothing'
      BY <3>2 DEF IInv, TypeOK, AllOrNothing, Stores, Bares, WritesBare
    <3> QED
      BY <3>1, <3>2, Effect
<1> QED
  BY <1>1, <1>2, Invariant, PTL DEF Spec

(* The service implements AtomicOrders: its store changes by one whole new *)
(* order at a time, or is emptied, once the orders whose MULTI was refused *)
(* are left aside.                                                         *)
THEOREM Refinement == Spec => StoreIsAtomic
<1>1. Init => Orders!Init
  BY DEF Init, Orders!Init, Keys
<1>2. IInv /\ [Next]_vars => [Orders!Next]_Orders!vars
  <2> SUFFICES ASSUME IInv, [Next]_vars
               PROVE  [Orders!Next]_Orders!vars
    OBVIOUS
  <2> DEFINE visible == {u \in Uuid \ bare : db[u] = Keys}
             stored  == everStored \ bare
  <2>1. CASE Unchanged
    BY <2>1 DEF Unchanged, Orders!vars
  <2>4. ASSUME NEW p \in Process, Bares(id[p]) \/ WritesBare(id[p])
        PROVE  UNCHANGED Orders!vars
    <3>1. visible' = visible
      BY <2>4 DEF Bares, WritesBare, IInv, Fresh, Keys
    <3>2. stored' = stored
      BY <2>4 DEF Bares, WritesBare, IInv, Fresh
    <3> QED
      BY <3>1, <3>2 DEF Orders!vars
  <2>2. CASE Flushes
    <3>1. visible' = {}
      BY <2>2 DEF Flushes, Keys
    <3>2. stored' = stored
      BY <2>2 DEF Flushes
    <3> QED
      BY <3>1, <3>2 DEF Orders!Next, Orders!Clear
  <2>3. ASSUME NEW p \in Process, Stores(id[p])
        PROVE  Orders!Next
    <3>1. visible' = visible \cup {id[p]}
      BY <2>3 DEF Stores, IInv, TypeOK
    <3>2. stored' = stored \cup {id[p]} /\ id[p] \in Uuid \ stored
      BY <2>3 DEF Stores
    <3> QED
      BY <3>1, <3>2 DEF Orders!Next, Orders!Store
  <2> QED
    BY <2>1, <2>2, <2>3, <2>4, Effect
<1> QED
  BY <1>1, <1>2, Invariant, PTL DEF Spec, StoreIsAtomic, Orders!Spec

(* A doomed transaction ends with the EXEC of its own POST.                *)
DoomedInPost == \A p \in Process : session[p].dirty =>
    /\ pc[p] \in Writes \cup {"EXEC", "crashed"}
    /\ pc[p] = "EXEC" => ~reply[p]

LEMMA DoomedStep ==
    ASSUME "EXEC" \notin Refusable, IInv, DoomedInPost, [Next]_vars
    PROVE  DoomedInPost'
<1>1. CASE UNCHANGED vars
  BY <1>1 DEF vars, clientVars, serverVars, storeVars, DoomedInPost
<1>2. ASSUME NEW p \in Process, Step(p) \/ Break(p)
      PROVE  DoomedInPost'
  <2> USE NextCommands DEF IInv, TypeOK, Connected, DoomedInPost, Writes
  <2>1. CASE Connect(p) \/ Disconnect(p) \/ Break(p)
    BY <2>1 DEF Connect, Disconnect, Break, clientVars, NewSession
  <2>2. CASE Post(p) \/ Delete(p)
    BY <2>2 DEF Post, Delete, Send, serverVars, storeVars
  <2>3. CASE Continue(p)
    BY <2>3 DEF Continue, Send, serverVars, storeVars
  <2>4. CASE Finish(p)
    BY <2>4 DEF Finish, serverVars, storeVars
  <2>5. CASE ReplyLost(p) \/ CallUnconnected(p) \/ Crash(p)
    BY <2>5 DEF ReplyLost, CallUnconnected, Crash, serverVars, storeVars
  <2> QED
    BY <1>2, <2>1, <2>2, <2>3, <2>4, <2>5 DEF Step
<1>3. ASSUME NEW p \in Process, Serve(p)
      PROVE  DoomedInPost'
  <2>1. \A r \in Process : request[r] # "none" /\ ~session[r].dirty
                => session[r] = IF id[r] \in bare THEN NewSession
                                ELSE SessionBefore(request[r], id[r])
    BY UnderWay
  <2> USE DEF IInv, TypeOK, Connected, DoomedInPost
  <2>2. CASE ServeMulti(p) \/ ServeQueued(p) \/ ServeNow(p)
    <3>1. session'[p].dirty = session[p].dirty
      BY <2>2 DEF ServeMulti, ServeQueued, ServeNow, Session
    <3>2. request[p] # "EXEC"
      BY <2>2 DEF ServeMulti, ServeQueued, ServeNow, Writes
    <3>3. /\ pc' = pc /\ reply' = [reply EXCEPT ![p] = TRUE]
          /\ request[p] # "none"
          /\ \A q \in Process : q # p => session'[q] = session[q]
      BY <2>2 DEF ServeMulti, ServeQueued, ServeNow, Answer, clientVars
    <3> QED
      BY <3>1, <3>2, <3>3
  <2>3. CASE ServeExec(p)
    BY <2>3 DEF ServeExec, Answer, clientVars, NewSession
  <2>4. CASE Refuse(p)
    <3>1. request[p] \in Writes \cup {"MULTI", "FLUSHALL"}
      BY <2>4 DEF Refuse, Answer, Op
    <3>2. request[p] \in {"MULTI", "FLUSHALL"} /\ pc[p] # "crashed" => ~session[p].multi
      <4>1. \A op \in {"MULTI", "FLUSHALL"} : ~SessionBefore(op, id[p]).multi
        BY Multi DEF Writes
      <4> QED
        BY <2>1, <2>4, <4>1 DEF Refuse, Answer, Writes, NewSession
    <3> QED
      BY <2>4, <3>1, <3>2 DEF Refuse, Answer, clientVars, Writes
  <2> QED
    BY <1>3, <2>2, <2>3, <2>4 DEF Serve
<1> QED
  BY <1>1, <1>2, <1>3 DEF Next

(* Between two requests the connection is outside any transaction, so the  *)
(* next request is executed and not queued.                                *)
THEOREM CleanBetweenRequests ==
    ASSUME "EXEC" \notin Refusable
    PROVE  Spec => []IdleSessionClean
<1>1. Init => DoomedInPost
  BY DEF Init, DoomedInPost, NewSession
<1>2. IInv /\ DoomedInPost /\ [Next]_vars => DoomedInPost'
  BY DoomedStep
<1>3. IInv /\ DoomedInPost => IdleSessionClean
  <2> SUFFICES ASSUME IInv, DoomedInPost, NEW p \in Process, pc[p] = "idle"
               PROVE  session[p] = NewSession
    BY DEF IdleSessionClean
  <2>1. CASE ~open[p]
    BY <2>1 DEF IInv, Connected
  <2>2. CASE open[p]
    <3>1. ~session[p].dirty
      BY DEF DoomedInPost, Writes
    <3>2. NextToServe(p) = "none"
      BY NextCommands DEF NextToServe, IInv, Connected
    <3> QED
      BY <2>2, <3>1, <3>2, Sessions DEF IInv, SessionInStep
  <2> QED
    BY <2>1, <2>2 DEF IInv, TypeOK
<1> QED
  BY <1>1, <1>2, <1>3, Invariant, PTL DEF Spec

(* When nothing of a POST is refused, its EXEC stores its order.           *)
Acknowledged ==
    /\ bare = {}
    /\ \A p \in Process : ~session[p].dirty
    /\ \A p \in Process : pc[p] = "EXEC" /\ reply[p] => id[p] \in everStored
    /\ acked \subseteq everStored

LEMMA ExecStores ==
    ASSUME IInv, Acknowledged, NEW p \in Process, ServeExec(p)
    PROVE  id[p] \in everStored'
<1>1. session[p].queue = QueueBefore("EXEC", id[p])
  <2>1. session[p] = SessionBefore("EXEC", id[p])
    BY UnderWay DEF ServeExec, Acknowledged
  <2> QED
    BY <2>1 DEF SessionBefore
<1>2. id[p] \in Uuid /\ db \in [Uuid -> SUBSET Keys]
  BY DEF ServeExec, IInv, TypeOK, Fresh, Pending, Op
<1>3. db' = [db EXCEPT ![id[p]] = Keys]
  BY <1>1, <1>2, AppliedOrder DEF ServeExec, Execute, Acknowledged
<1>4. everStored' = everStored \cup {u \in Uuid : db'[u] # {}}
  BY DEF ServeExec, Execute, Acknowledged
<1> QED
  BY <1>2, <1>3, <1>4 DEF Keys

LEMMA AcknowledgedStep ==
    ASSUME Refusable \subseteq {"FLUSHALL"}, IInv, Acknowledged, [Next]_vars
    PROVE  Acknowledged'
<1>1. everStored \subseteq everStored'
  BY Effect DEF Unchanged, Flushes, Stores, Bares, WritesBare
<1>2. CASE UNCHANGED vars
  BY <1>2 DEF vars, clientVars, serverVars, storeVars, Acknowledged
<1>3. ASSUME NEW p \in Process, Step(p) \/ Break(p)
      PROVE  Acknowledged'
  <2> USE <1>1, NextCommands DEF IInv, TypeOK, Connected, Acknowledged
  <2>1. CASE Connect(p) \/ Disconnect(p) \/ Break(p)
    BY <2>1 DEF Connect, Disconnect, Break, clientVars, storeVars, NewSession
  <2>2. CASE Post(p) \/ Delete(p)
    BY <2>2 DEF Post, Delete, Send, serverVars, storeVars, FirstCommand
  <2>3. CASE Continue(p)
    BY <2>3 DEF Continue, Send, serverVars, storeVars
  <2>4. CASE Finish(p)
    BY <2>4 DEF Finish, serverVars, storeVars
  <2>5. CASE ReplyLost(p) \/ CallUnconnected(p) \/ Crash(p)
    BY <2>5 DEF ReplyLost, CallUnconnected, Crash, serverVars, storeVars
  <2> QED
    BY <1>3, <2>1, <2>2, <2>3, <2>4, <2>5 DEF Step
<1>4. ASSUME NEW p \in Process, Serve(p)
      PROVE  Acknowledged'
  <2>1. /\ request[p] # "none"
        /\ UNCHANGED <<pc, id, acked>>
        /\ reply' = [reply EXCEPT ![p] = TRUE]
    BY <1>4 DEF Serve, ServeMulti, ServeExec, ServeQueued, ServeNow, Refuse,
                Answer, clientVars
  <2>2. session[p] = SessionBefore(request[p], id[p])
    BY <2>1, UnderWay DEF Acknowledged
  <2>3. \A q \in Process : ~session'[q].dirty
    <3> USE <1>4, <2>1, <2>2 DEF IInv, TypeOK, Acknowledged
    <3>1. CASE ServeMulti(p) \/ ServeQueued(p) \/ ServeNow(p)
      <4>1. session'[p].dirty = session[p].dirty
        BY <3>1 DEF ServeMulti, ServeQueued, ServeNow, Session
      <4>2. \A q \in Process : q # p => session'[q] = session[q]
        BY <3>1 DEF ServeMulti, ServeQueued, ServeNow
      <4> QED
        BY <4>1, <4>2
    <3>2. CASE ServeExec(p)
      BY <3>2 DEF ServeExec, NewSession
    <3>3. CASE Refuse(p)
      <4>1. request[p] = "FLUSHALL"
        BY <3>3 DEF Refuse
      <4>2. ~session[p].multi
        BY <4>1, Multi DEF Writes
      <4> QED
        BY <3>3, <4>2 DEF Refuse
    <3> QED
      BY <3>1, <3>2, <3>3 DEF Serve
  <2>4. pc[p] = "EXEC" => id[p] \in everStored'
    <3>1. pc[p] = "EXEC" => request[p] = "EXEC"
      BY <2>1 DEF IInv, Connected
    <3>2. request[p] = "EXEC" => ServeExec(p)
      BY <1>4 DEF Serve, ServeMulti, ServeQueued, ServeNow, Refuse, Writes
    <3> QED
      BY <3>1, <3>2, ExecStores DEF Acknowledged
  <2>5. bare' = bare
    BY <1>4 DEF Serve, ServeMulti, ServeExec, ServeQueued, ServeNow, Refuse, Execute,
                storeVars
  <2> QED
    BY <1>1, <2>1, <2>3, <2>4, <2>5 DEF Acknowledged, IInv, TypeOK
<1> QED
  BY <1>2, <1>3, <1>4 DEF Next

(* A POST that returned 0 stored its order, if the server refuses none of  *)
(* its commands; the code does not check for that.                         *)
THEOREM AnsweredPostWasStored ==
    ASSUME Refusable \subseteq {"FLUSHALL"}
    PROVE  Spec => []AckedWasStored
<1>1. Init => Acknowledged
  BY DEF Init, Acknowledged, NewSession, Op, Writes
<1>2. IInv /\ Acknowledged /\ [Next]_vars => Acknowledged'
  BY AcknowledgedStep
<1>3. Acknowledged => AckedWasStored
  BY DEF Acknowledged, AckedWasStored
<1> QED
  BY <1>1, <1>2, <1>3, Invariant, PTL DEF Spec

=============================================================================
