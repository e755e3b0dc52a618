------------------------ MODULE RequestHandlingProofs ------------------------
(***************************************************************************)
(* Proofs about RequestHandling, for any urls and bodies.                  *)
(*                                                                         *)
(* What a request may leave behind is decided by where it is: nothing has  *)
(* been sent or allocated before its body is accepted, the jsonEntry is    *)
(* set to zero exactly if jsmn accepts the body, and only work() is inside *)
(* a request.  `Stages` says so step by step; with the types it is         *)
(* inductive, and the properties that hold between two requests follow.    *)
(***************************************************************************)
EXTENDS RequestHandling, TLAPS

Parsed == req.body.parse = "ok"

Stages ==
    /\ pc \notin {"idle", "crashed"} => call = "work" /\ buffer = "empty" /\ ret = 0
    /\ pc \in {"method", "url", "body"} =>
          sent = {} /\ nodes = 0 /\ je = "garbage"
    /\ pc = "url" => req.method \in {"GET", "PUT"}
    /\ pc = "body" => req.method \in {"POST", "PUT"}
    /\ pc = "redis" =>
          /\ req.method # "PUT" /\ sent = {}
          /\ IF req.method = "POST" THEN Parsed /\ je = "clean" ELSE nodes = 0
    /\ pc = "clear" =>
          /\ req.method \in {"POST", "PUT"}
          /\ IF Parsed THEN je = "clean"
                       ELSE je = "garbage" /\ sent = {} /\ nodes = 0

IInv ==
    /\ TypeOK /\ Stages
    /\ ErrorsTouchNothing /\ NothingLeaks /\ BufferIsOfRequest
    /\ CrashHasCause

-----------------------------------------------------------------------------
(* What a request consists of.                                             *)
LEMMA RequestParts ==
    ASSUME NEW r \in Request
    PROVE  /\ r.method \in Method
           /\ r.url \in Url
           /\ r.body \in Body
           /\ r.body.entries \in Nat
BY RequestAssumption DEF Request, Body

(* The url parsers return routes of their method.                          *)
LEMMA RoutesTyped ==
    ASSUME NEW u
    PROVE  /\ ParseGetUrl(u) \in RoutesOf("GET")
           /\ ParsePutUrl(u) \in RoutesOf("PUT")
BY DEF ParseGetUrl, ParsePutUrl, RoutesOf

LEMMA NoneIsRoute == \A m : "NONE" \in RoutesOf(m)
BY DEF RoutesOf

(* The texts of the errors.                                                *)
LEMMA ErrorTexts ==
    /\ ErrorText[-1] = "erro_metodo"
    /\ ErrorText[-2] = "erro_url"
    /\ ErrorText[-3] = "erro_json"
<1> DEFINE text(m) == CASE m = -1 -> "erro_metodo"
                        [] m = -2 -> "erro_url"
                        [] m = -3 -> "erro_json"
<1>1. ErrorText = [m \in {-1, -2, -3} |-> text(m)]
  BY DEF ErrorText
<1>2. text(-1) = "erro_metodo" /\ text(-2) = "erro_url" /\ text(-3) = "erro_json"
  OBVIOUS
<1> HIDE DEF text
<1> QED
  BY <1>1, <1>2

LEMMA InitIInv == Init => IInv
<1> SUFFICES ASSUME Init PROVE IInv
  OBVIOUS
<1>1. req \in Request /\ req.method = "other"
  BY DEF Init
<1>2. TypeOK
  <2>1. route \in RoutesOf(req.method)
    BY NoneIsRoute DEF Init
  <2>2. nodes \in Nat /\ ret \in -3..0
    BY DEF Init
  <2> QED
    BY <1>1, <2>1, <2>2 DEF Init, TypeOK
<1>3. Stages /\ ErrorsTouchNothing /\ NothingLeaks /\ CrashHasCause
  BY DEF Init, Stages, ErrorsTouchNothing, NothingLeaks, CrashHasCause
<1>4. BufferIsOfRequest
  BY DEF Init, BufferIsOfRequest, TextOf
<1> QED
  BY <1>2, <1>3, <1>4 DEF IInv

-----------------------------------------------------------------------------
(* The steps, one lemma each for those inside a request.                   *)

LEMMA CallStep == ASSUME IInv, Call PROVE IInv'
<1> USE DEF Call
<1>1. TypeOK'
  <2>1. route' \in RoutesOf(req'.method)
    BY NoneIsRoute
  <2>2. nodes' \in Nat /\ ret' \in -3..0
    BY DEF IInv, TypeOK
  <2> QED
    BY <2>1, <2>2 DEF IInv, TypeOK
<1>2. Stages'
  BY DEF IInv, Stages, NothingLeaks
<1>3. (ErrorsTouchNothing /\ NothingLeaks /\ BufferIsOfRequest /\ CrashHasCause)'
  BY DEF ErrorsTouchNothing, NothingLeaks, BufferIsOfRequest, CrashHasCause
<1> QED
  BY <1>1, <1>2, <1>3 DEF IInv

LEMMA ParseMethodStep == ASSUME IInv, ParseMethod PROVE IInv'
<1> USE DEF ParseMethod, ReturnText, Return, local
<1>1. req.method \in Method
  BY RequestParts DEF IInv, TypeOK
<1>2. TypeOK'
  BY <1>1 DEF IInv, TypeOK, Method
<1>3. Stages'
  BY <1>1 DEF IInv, Stages, Method
<1>4. (ErrorsTouchNothing /\ NothingLeaks /\ CrashHasCause)'
  BY <1>1 DEF IInv, Stages, ErrorsTouchNothing, NothingLeaks, CrashHasCause, Method
<1>5. BufferIsOfRequest'
  BY DEF IInv, Stages, BufferIsOfRequest, ErrorText, TextOf
<1> QED
  BY <1>2, <1>3, <1>4, <1>5 DEF IInv

LEMMA ParseUrlStep == ASSUME IInv, ParseUrl PROVE IInv'
<1> USE DEF ParseUrl, ReturnText, Return
<1>1. req.method \in {"GET", "PUT"} /\ req \in Request
  BY DEF IInv, Stages, TypeOK
<1>2. route' \in RoutesOf(req.method)
  BY <1>1, RoutesTyped
<1>3. TypeOK'
  BY <1>1, <1>2 DEF IInv, TypeOK
<1>4. Stages'
  BY <1>1 DEF IInv, Stages
<1>5. (ErrorsTouchNothing /\ NothingLeaks /\ CrashHasCause)'
  BY DEF IInv, Stages, ErrorsTouchNothing, NothingLeaks, CrashHasCause
<1>6. BufferIsOfRequest'
  BY DEF IInv, Stages, BufferIsOfRequest, ErrorText, TextOf
<1> QED
  BY <1>3, <1>4, <1>5, <1>6 DEF IInv

LEMMA AnaliseJsonStep == ASSUME IInv, AnaliseJson PROVE IInv'
<1> USE DEF AnaliseJson
<1>1. req.body.entries \in Nat
  BY RequestParts DEF IInv, TypeOK
<1>2. nodes' \in Nat
  BY <1>1 DEF IInv, TypeOK
<1>3. TypeOK'
  BY <1>2 DEF IInv, TypeOK
<1>4. Stages'
  BY DEF IInv, Stages, Parsed, TypeOK
<1>5. (ErrorsTouchNothing /\ NothingLeaks /\ BufferIsOfRequest /\ CrashHasCause)'
  BY DEF ErrorsTouchNothing, NothingLeaks, BufferIsOfRequest, CrashHasCause
<1> QED
  BY <1>3, <1>4, <1>5 DEF IInv

LEMMA ClearJsonStep == ASSUME IInv, ClearJson PROVE IInv'
<1> USE DEF ClearJson, ReturnText, Return
<1>1. nodes' = 0 \/ (pc' = "crashed" /\ nodes' = nodes)
  BY DEF IInv, Stages
<1>2. TypeOK'
  BY <1>1 DEF IInv, TypeOK
<1>3. Stages'
  BY DEF IInv, Stages
<1>4. ErrorsTouchNothing'
  <2>1. CASE Parsed
    BY <2>1 DEF Parsed, ErrorsTouchNothing
  <2>2. CASE ~Parsed
    BY <2>2 DEF IInv, Stages, ErrorsTouchNothing
  <2> QED
    BY <2>1, <2>2
<1>5. NothingLeaks'
  BY <1>1 DEF NothingLeaks
<1>6. CrashHasCause'
  BY DEF IInv, Stages, Parsed, CrashHasCause
<1>7. BufferIsOfRequest'
  BY DEF IInv, Stages, BufferIsOfRequest, ErrorText, TextOf
<1> QED
  BY <1>2, <1>3, <1>4, <1>5, <1>6, <1>7 DEF IInv

LEMMA GetStep == ASSUME IInv, Get PROVE IInv'
<1> USE DEF Get, ReturnText, Return, local
<1>1. TypeOK'
  BY DEF IInv, TypeOK, CommandsOf
<1>2. (Stages /\ NothingLeaks)'
  BY DEF IInv, Stages, NothingLeaks
<1>3. (ErrorsTouchNothing /\ CrashHasCause)'
  BY DEF ErrorsTouchNothing, CrashHasCause
<1>4. BufferIsOfRequest'
  BY DEF BufferIsOfRequest, TextOf
<1> QED
  BY <1>1, <1>2, <1>3, <1>4 DEF IInv

LEMMA PostStep == ASSUME IInv, Post PROVE IInv'
<1> USE DEF Post, local
<1>1. TypeOK'
  BY DEF IInv, TypeOK
<1>2. Stages'
  BY DEF IInv, Stages, Parsed
<1>3. (ErrorsTouchNothing /\ NothingLeaks /\ BufferIsOfRequest /\ CrashHasCause)'
  BY DEF ErrorsTouchNothing, NothingLeaks, BufferIsOfRequest, CrashHasCause
<1> QED
  BY <1>1, <1>2, <1>3 DEF IInv

LEMMA DeleteStep == ASSUME IInv, Delete PROVE IInv'
<1> USE DEF Delete, ReturnText, Return, local
<1>1. TypeOK'
  BY DEF IInv, TypeOK
<1>2. (Stages /\ NothingLeaks)'
  BY DEF IInv, Stages, NothingLeaks
<1>3. (ErrorsTouchNothing /\ CrashHasCause)'
  BY DEF ErrorsTouchNothing, CrashHasCause
<1>4. BufferIsOfRequest'
  BY DEF IInv, Stages, BufferIsOfRequest, TextOf
<1> QED
  BY <1>1, <1>2, <1>3, <1>4 DEF IInv

LEMMA NoReplyStep == ASSUME IInv, NoReply PROVE IInv'
<1> USE DEF NoReply, ReturnText, Return, local
<1>1. TypeOK'
  BY DEF IInv, TypeOK
<1>2. Stages'
  BY DEF IInv, Stages
<1>3. NothingLeaks'
  <2>1. CASE route = "GET_BY_VALUE"
    BY <2>1 DEF IInv, TypeOK, Stages, NothingLeaks, RoutesOf
  <2>2. CASE route # "GET_BY_VALUE"
    BY <2>2 DEF NothingLeaks
  <2> QED
    BY <2>1, <2>2
<1>4. (ErrorsTouchNothing /\ CrashHasCause)'
  BY DEF IInv, Stages, ErrorsTouchNothing, CrashHasCause
<1>5. BufferIsOfRequest'
  BY DEF IInv, Stages, BufferIsOfRequest, TextOf
<1> QED
  BY <1>1, <1>2, <1>3, <1>4, <1>5 DEF IInv

LEMMA BreaksMidwayStep == ASSUME IInv, BreaksMidway PROVE IInv'
<1> USE DEF BreaksMidway, local
<1>1. TypeOK'
  BY DEF IInv, TypeOK, CommandsOf
<1>2. (Stages /\ ErrorsTouchNothing /\ NothingLeaks /\ BufferIsOfRequest)'
  BY DEF IInv, Stages, ErrorsTouchNothing, NothingLeaks, BufferIsOfRequest
<1>3. CrashHasCause'
  BY DEF IInv, Stages, CrashHasCause
<1> QED
  BY <1>1, <1>2, <1>3 DEF IInv

LEMMA ScanRefusedStep == ASSUME IInv, ScanRefused PROVE IInv'
<1> USE DEF ScanRefused, local
<1>1. TypeOK'
  BY DEF IInv, TypeOK
<1>2. (Stages /\ ErrorsTouchNothing /\ NothingLeaks /\ BufferIsOfRequest /\ CrashHasCause)'
  BY DEF IInv, Stages, ErrorsTouchNothing, NothingLeaks, BufferIsOfRequest, CrashHasCause
<1> QED
  BY <1>1, <1>2 DEF IInv

(* What the functions that keep the connection have in common: the request *)
(* is not touched, and the process is idle before and perhaps dead after.  *)
LEMMA KeeperStep ==
    ASSUME IInv, pc = "idle", pc' \in {"idle", "crashed"}, UNCHANGED work,
           c' \in {"connected", "broken", "freed", "NULL"}, call' \in Keepers,
           answer' \in {answer} \cup Answers, CrashHasCause'
    PROVE  IInv'
<1> USE DEF work, local
<1>1. TypeOK'
  BY DEF IInv, TypeOK, Keepers
<1>2. (Stages /\ ErrorsTouchNothing /\ NothingLeaks /\ BufferIsOfRequest)'
  BY DEF IInv, Stages, ErrorsTouchNothing, NothingLeaks, BufferIsOfRequest
<1> QED
  BY <1>1, <1>2 DEF IInv

LEMMA ConnectStep == ASSUME IInv, ConnectRedis PROVE IInv'
BY KeeperStep DEF ConnectRedis, Say, Keepers, Answers, CrashHasCause

LEMMA PingStep == ASSUME IInv, PingRedis PROVE IInv'
BY KeeperStep DEF PingRedis, Say, Die, Keepers, Answers, CrashHasCause, IInv, TypeOK

LEMMA DisconnectStep == ASSUME IInv, DisconnectRedis PROVE IInv'
BY KeeperStep DEF DisconnectRedis, Say, Die, Keepers, Answers, CrashHasCause, IInv, TypeOK

LEMMA BreakStep == ASSUME IInv, Break PROVE IInv'
<1> USE DEF Break, work, local
<1>1. TypeOK'
  BY DEF IInv, TypeOK
<1>2. (Stages /\ ErrorsTouchNothing /\ NothingLeaks /\ BufferIsOfRequest)'
  BY DEF IInv, Stages, Parsed, ErrorsTouchNothing, NothingLeaks, BufferIsOfRequest
<1>3. CrashHasCause'
  BY DEF CrashHasCause
<1> QED
  BY <1>1, <1>2, <1>3 DEF IInv

LEMMA StutterStep == ASSUME IInv, UNCHANGED vars PROVE IInv'
<1> USE DEF vars, work, local
<1>1. (TypeOK /\ Stages)'
  BY DEF IInv, TypeOK, Stages, Parsed
<1>2. (ErrorsTouchNothing /\ NothingLeaks /\ BufferIsOfRequest /\ CrashHasCause)'
  BY DEF IInv, ErrorsTouchNothing, NothingLeaks, BufferIsOfRequest, CrashHasCause
<1> QED
  BY <1>1, <1>2 DEF IInv

LEMMA StepIInv == IInv /\ [Next]_vars => IInv'
<1> SUFFICES ASSUME IInv, [Next]_vars PROVE IInv'
  OBVIOUS
<1>1. ASSUME Handler PROVE IInv'
  BY <1>1, ParseMethodStep, ParseUrlStep, AnaliseJsonStep, ClearJsonStep, GetStep,
     PostStep, DeleteStep, NoReplyStep, BreaksMidwayStep,
     ScanRefusedStep DEF Handler
<1>2. ASSUME Call \/ Break PROVE IInv'
  BY <1>2, CallStep, BreakStep
<1>3. ASSUME ConnectRedis \/ PingRedis \/ DisconnectRedis PROVE IInv'
  BY <1>3, ConnectStep, PingStep, DisconnectStep
<1> QED
  BY <1>1, <1>2, <1>3, StutterStep DEF Next

-----------------------------------------------------------------------------
LEMMA Invariance == Spec => []IInv
BY InitIInv, StepIInv, PTL DEF Spec

(* The variables keep their types, for any urls and bodies.                *)
THEOREM TypeCorrect == Spec => []TypeOK
<1>1. IInv => TypeOK
  BY DEF IInv
<1> QED
  BY <1>1, Invariance, PTL

(* A request that handle_request answers with an error has sent nothing to *)
(* Redis.                                                                  *)
THEOREM NoErrorReachesStore == Spec => []ErrorsTouchNothing
<1>1. IInv => ErrorsTouchNothing
  BY DEF IInv
<1> QED
  BY <1>1, Invariance, PTL

(* clear_json frees what validate_json allocated, on every way out of      *)
(* handle_request.                                                         *)
THEOREM AllIsFreed == Spec => []NothingLeaks
<1>1. IInv => NothingLeaks
  BY DEF IInv
<1> QED
  BY <1>1, Invariance, PTL

(* The static buffer of work() carries nothing from one request into the   *)
(* next.                                                                   *)
THEOREM BufferNotReused == Spec => []BufferIsOfRequest
<1>1. IInv => BufferIsOfRequest
  BY DEF IInv
<1> QED
  BY <1>1, Invariance, PTL

(* Nothing ends the process but the cases CrashHasCause names.             *)
THEOREM CrashesExplained == Spec => []CrashHasCause
<1>1. IInv => CrashHasCause
  BY DEF IInv
<1> QED
  BY <1>1, Invariance, PTL

=============================================================================
