--------------------------- MODULE RequestHandling ---------------------------
(***************************************************************************)
(* One process and the four functions of the addon, call after call:       *)
(* work() with handle_request, and connect_redis, ping_redis and           *)
(* disconnect_redis, which keep the context behind `c`.  What the lexers   *)
(* and jsmn find in the arguments is part of the request; the Redis        *)
(* commands are counted here and executed in OrderService and              *)
(* OrderListing.                                                           *)
(***************************************************************************)
EXTENDS Integers, Sequences

CONSTANTS
    Urls,            \* the urls requests are made with
    Bodies           \* the bodies they have

(* The lexers of parse_method and of the urls match prefixes; what follows *)
(* a match matters only as far as it is shown here.                        *)
Method == {"GET", "POST", "PUT", "DELETE", "other"}

Url == [orders : BOOLEAN,           \* begins with /orders
        then : {"end", "slash", "question", "other"},  \* the next character
        uuid : BOOLEAN,             \* a uuid follows it
        tail : {"none", "items", "transactions", "other"}]  \* and then

Body == [parse : {"ok", "JSMN_ERROR_NOMEM", "JSMN_ERROR_INVAL", "JSMN_ERROR_PART"},
         valid : BOOLEAN,           \* the checks of validate_json pass
         entries : Nat]             \* list nodes validate_json allocates

Request == [method : Method, url : Urls, body : Bodies, validate : BOOLEAN]

ASSUME RequestAssumption ==
    /\ Urls \subseteq {u \in Url : u.then = "end" => ~u.uuid}
    /\ Bodies \subseteq Body

VARIABLES
    c,               \* the context: "connected", "broken", "freed" or "NULL"
    call,            \* the function of the addon that was called last
    pc,              \* "idle", the next step of the request, or "crashed"
    req,             \* the request, the latest one when idle
    route,           \* what the url parser returned
    je,              \* the jsonEntry on the stack: "garbage" or "clean"
    nodes,           \* list nodes allocated and not freed
    sent,            \* Redis commands sent for the request
    buffer,          \* what the static buffer of work() holds
    ret,             \* what handle_request returned
    answer           \* what the caller of the addon got

local == <<route, je, nodes>>
work  == <<req, local, sent, buffer, ret>>
vars  == <<c, call, pc, work, answer>>

-----------------------------------------------------------------------------
(* parse_get_url.  The action of "/orders" has no jump at its end and runs *)
(* into that of "/orders/", so that any character may stand for the slash. *)
ParseGetUrl(u) ==
    CASE ~u.orders                             -> "NONE"
      [] u.orders /\ u.then = "question"       -> "GET_BY_VALUE"
      [] u.orders /\ u.then # "question" /\ u.uuid ->
            CASE u.tail = "items"        -> "GET_ITEMS"
              [] u.tail = "transactions" -> "GET_TRANSACTIONS"
              [] OTHER                   -> "GET_BY_ID"
      [] u.orders /\ u.then = "slash" /\ ~u.uuid -> "NONE"
      [] OTHER                                 -> "GET_ALL"

(* Wrong variant: the url of a PUT is parsed like that of a GET.           *)
PutAsGet(u) == ParseGetUrl(u)

(* parse_put_url: the same, without queries and items.                     *)
ParsePutUrl(u) ==
    CASE ~u.orders                             -> "NONE"
      [] u.orders /\ u.uuid                    ->
            IF u.tail = "transactions" THEN "PUT_TRANSACTIONS" ELSE "PUT_BY_ID"
      [] u.orders /\ u.then = "slash" /\ ~u.uuid -> "NONE"
      [] OTHER                                 -> "PUT_ALL"

(* The Redis commands of each handler, and what it leaves in the buffer.   *)
(* get_items and get_transactions print what SCAN returns; get_by_id asks  *)
(* for a key that begins with "/orders/", and no key does.                 *)
PostCommands == {"MULTI", "HMSET", "RPUSH", "EXEC"}

CommandsOf(rt) ==
    CASE rt \in {"GET_ALL", "GET_BY_VALUE"}       -> {"SCAN", "HGETALL"}
      [] rt = "GET_BY_ID"                         -> {"HGETALL"}
      [] rt \in {"GET_ITEMS", "GET_TRANSACTIONS"} -> {"SCAN"}
      [] OTHER                                    -> {}

TextOf(rt) == IF rt \in {"GET_ALL", "GET_BY_VALUE"} THEN "listing" ELSE "empty"

ErrorText == [m \in {-1, -2, -3} |->
                 CASE m = -1 -> "erro_metodo"
                   [] m = -2 -> "erro_url"
                   [] m = -3 -> "erro_json"]

-----------------------------------------------------------------------------
(* Wrong variant: the buffer of the previous request is not emptied.       *)
CallWithoutReset ==
    /\ pc = "idle"
    /\ call' = "work"
    /\ req' \in Request
    /\ pc' = "method"
    /\ route' = "NONE" /\ je' = "garbage"
    /\ sent' = {}
    /\ ret' = 0
    /\ UNCHANGED <<c, buffer, nodes, answer>>

(* work(): the arguments are converted and the buffer is emptied.          *)
Call ==
    /\ pc = "idle"
    /\ call' = "work"
    /\ req' \in Request
    /\ pc' = "method"
    /\ route' = "NONE" /\ je' = "garbage"
    /\ sent' = {}
    /\ buffer' = "empty"
    /\ ret' = 0
    /\ UNCHANGED <<c, nodes, answer>>

(* handle_request returns to work(), which writes the text of an error     *)
(* over the buffer.  `result` is the address of the variable that points   *)
(* to the buffer, so the answer is made of the bytes of that pointer.      *)
Return(code) ==
    /\ ret' = code
    /\ pc' = "idle"
    /\ answer' = "pointer"

ReturnText(code, text) ==
    /\ Return(code)
    /\ buffer' = IF code < 0 THEN ErrorText[code] ELSE text

ParseMethod ==
    /\ pc = "method"
    /\ IF req.method = "other"
       THEN ReturnText(-1, buffer)
       ELSE /\ pc' = CASE req.method \in {"GET", "PUT"} -> "url"
                       [] req.method = "POST"           -> "body"
                       [] req.method = "DELETE"         -> "redis"
            /\ UNCHANGED <<buffer, ret, answer>>
    /\ UNCHANGED <<c, call, req, local, sent>>

ParseUrl ==
    /\ pc = "url"
    /\ route' = IF req.method = "GET" THEN ParseGetUrl(req.url)
                                      ELSE ParsePutUrl(req.url)
    /\ IF route' = "NONE"
       THEN ReturnText(-2, buffer)
       ELSE /\ pc' = IF req.method = "GET" THEN "redis" ELSE "body"
            /\ UNCHANGED <<buffer, ret, answer>>
    /\ UNCHANGED <<c, call, req, je, nodes, sent>>

(* Wrong variant: the order is stored before its body is looked at.        *)
StoreFirst ==
    /\ pc = "body"
    /\ sent' = IF req.method = "POST" THEN PostCommands ELSE sent
    /\ IF req.body.parse = "ok"
       THEN je' = "clean" /\ nodes' = nodes + req.body.entries
       ELSE UNCHANGED <<je, nodes>>
    /\ pc' = "clear"
    /\ UNCHANGED <<c, call, req, route, buffer, ret, answer>>

(* Wrong variant: je is not set to zero.                                   *)
FillGarbage ==
    /\ pc = "body"
    /\ IF req.body.parse = "ok"
       THEN /\ nodes' = nodes + req.body.entries
            /\ pc' = IF req.method = "POST" THEN "redis" ELSE "clear"
       ELSE /\ pc' = "clear"
            /\ UNCHANGED nodes
    /\ UNCHANGED <<c, call, req, route, je, sent, buffer, ret, answer>>

(* analise_json: je is set to zero only after jsmn accepts the body; then  *)
(* validate_json fills it, and what that returns is thrown away.           *)
AnaliseJson ==
    /\ pc = "body"
    /\ IF req.body.parse = "ok"
       THEN /\ je' = "clean"
            /\ nodes' = nodes + req.body.entries
            /\ pc' = IF req.method = "POST" THEN "redis" ELSE "clear"
       ELSE /\ pc' = "clear"
            /\ UNCHANGED <<je, nodes>>
    /\ UNCHANGED <<c, call, req, route, sent, buffer, ret, answer>>

(* Wrong variant: memset without walking the lists.                        *)
ClearWithoutFree ==
    /\ pc = "clear"
    /\ je' = "clean"
    /\ ReturnText(IF req.body.parse = "ok" THEN 0 ELSE -3, buffer)
    /\ UNCHANGED <<c, call, req, route, nodes, sent>>

(* clear_json, then the return.  When jsmn rejected the body je is what    *)
(* was on the stack: its list pointers may be NULL, or anything.           *)
ClearJson ==
    /\ pc = "clear"
    /\ je' = "clean"
    /\ \/ /\ nodes' = IF je = "clean" THEN 0 ELSE nodes
          /\ ReturnText(IF req.body.parse = "ok" THEN 0 ELSE -3, buffer)
       \/ /\ je = "garbage"
          /\ pc' = "crashed"
          /\ UNCHANGED <<nodes, buffer, ret, answer>>
    /\ UNCHANGED <<c, call, req, route, sent>>

(* The handlers that talk to Redis.                                        *)
Get ==
    /\ pc = "redis" /\ req.method = "GET"
    /\ c = "connected"
    /\ sent' = CommandsOf(route)
    /\ ReturnText(0, TextOf(route))
    /\ UNCHANGED <<c, call, req, local>>

Post ==
    /\ pc = "redis" /\ req.method = "POST"
    /\ c = "connected"
    /\ sent' = PostCommands
    /\ pc' = "clear"
    /\ UNCHANGED <<c, call, req, local, buffer, ret, answer>>

(* Whatever the url is.                                                    *)
Delete ==
    /\ pc = "redis" /\ req.method = "DELETE"
    /\ c = "connected"
    /\ sent' = {"FLUSHALL"}
    /\ ReturnText(0, buffer)
    /\ UNCHANGED <<c, call, req, local>>

(* There is no reply, or no connection at all.  get_by_value alone looks   *)
(* whether it got one, and answers nothing.  A freed context may look like *)
(* a broken one, or end the process.                                       *)
NoReply ==
    /\ pc = "redis"
    /\ c # "connected"
    /\ \/ /\ route = "GET_BY_VALUE" /\ c \in {"broken", "freed"}
          /\ ReturnText(0, buffer)
       \/ /\ route = "GET_BY_VALUE" => c # "broken"
          /\ pc' = "crashed"
          /\ UNCHANGED <<buffer, ret, answer>>
    /\ UNCHANGED <<c, call, req, local, sent>>

(* The connection breaks inside a listing: SCAN was answered, the HGETALL  *)
(* after it is not, and get_by_id reads that reply for either handler.     *)
BreaksMidway ==
    /\ pc = "redis"
    /\ c = "connected"
    /\ route \in {"GET_ALL", "GET_BY_VALUE"}
    /\ c' = "broken"
    /\ sent' = CommandsOf(route)
    /\ pc' = "crashed"
    /\ UNCHANGED <<call, req, local, buffer, ret, answer>>

(* The error reply to a SCAN has no elements, and the listings read the    *)
(* first one.  Every other handler takes an error for an answer (see Get,  *)
(* Post and Delete).                                                       *)
ScanRefused ==
    /\ pc = "redis"
    /\ c = "connected"
    /\ route \in {"GET_ALL", "GET_BY_VALUE"}
    /\ pc' = "crashed"
    /\ UNCHANGED <<c, call, req, local, sent, buffer, ret, answer>>

Break ==
    /\ c = "connected"
    /\ pc # "crashed"
    /\ c' = "broken"
    /\ UNCHANGED <<call, pc, work, answer>>

-----------------------------------------------------------------------------
(* The functions that keep the connection.                                 *)

Say(name, text) ==
    /\ call' = name /\ answer' = text /\ pc' = "idle"

Die(name) ==
    /\ call' = name /\ pc' = "crashed"
    /\ UNCHANGED answer

(* A context with an error is freed, but `c` goes on pointing at it.  What *)
(* `c` pointed at before is not freed.                                     *)
ConnectRedis ==
    /\ pc = "idle"
    /\ \/ c' = "connected" /\ Say("connect_redis", "Connected")
       \/ c' \in {"freed", "NULL"} /\ Say("connect_redis", "ConnectionError")
    /\ UNCHANGED work

(* The reply is printed without a look whether there is one.               *)
PingRedis ==
    /\ pc = "idle"
    /\ \/ c = "connected" /\ Say("ping_redis", "Pong")
       \/ c \in {"broken", "freed"} /\ Die("ping_redis")
       \/ c = "NULL" /\ Say("ping_redis", "NotConnected")
    /\ UNCHANGED <<c, work>>

(* To free a context twice may end the process, or go unnoticed.           *)
DisconnectRedis ==
    /\ pc = "idle"
    /\ \/ /\ c' = "NULL"
          /\ Say("disconnect_redis", "Disconnected")
       \/ /\ c = "freed"
          /\ Die("disconnect_redis")
          /\ UNCHANGED c
    /\ UNCHANGED work

-----------------------------------------------------------------------------
Init ==
    /\ c = "NULL"
    /\ call = "none"
    /\ pc = "idle"
    /\ req \in {rq \in Request : rq.method = "other"}
    /\ route = "NONE"
    /\ je = "garbage"
    /\ nodes = 0
    /\ sent = {}
    /\ buffer = "empty"
    /\ ret = 0
    /\ answer = "none"

Handler ==
    \/ ParseMethod \/ ParseUrl \/ AnaliseJson \/ ClearJson
    \/ Get \/ Post \/ Delete \/ NoReply \/ BreaksMidway \/ ScanRefused

Next ==
    \/ Call \/ Handler \/ Break
    \/ ConnectRedis \/ PingRedis \/ DisconnectRedis

Spec == Init /\ [][Next]_vars

-----------------------------------------------------------------------------
(* Properties.                                                             *)

RoutesOf(m) ==
    CASE m = "GET" -> {"NONE", "GET_ALL", "GET_BY_VALUE", "GET_BY_ID",
                       "GET_ITEMS", "GET_TRANSACTIONS"}
      [] m = "PUT" -> {"NONE", "PUT_ALL", "PUT_BY_ID", "PUT_TRANSACTIONS"}
      [] OTHER     -> {"NONE"}

Keepers == {"connect_redis", "ping_redis", "disconnect_redis"}

Answers ==
    {"Connected", "ConnectionError", "Disconnected", "Pong", "NotConnected"}

(* The variables keep their types, and a route is one of its method.       *)
TypeOK ==
    /\ c \in {"connected", "broken", "freed", "NULL"}
    /\ call \in {"none", "work"} \cup Keepers
    /\ pc \in {"idle", "method", "url", "body", "redis", "clear", "crashed"}
    /\ req \in Request
    /\ route \in RoutesOf(req.method)
    /\ je \in {"garbage", "clean"}
    /\ nodes \in Nat
    /\ sent \subseteq PostCommands \cup {"SCAN", "HGETALL", "FLUSHALL"}
    /\ ret \in -3..0
    /\ answer \in {"none", "pointer"} \cup Answers

(* A request that is answered with an error has not reached the store: the *)
(* method, the url and the body are looked at before the first command.    *)
ErrorsTouchNothing == pc = "idle" /\ ret < 0 => sent = {}

(* Between two requests nothing of a jsonEntry is left allocated.          *)
NothingLeaks == pc = "idle" => nodes = 0

(* The buffer holds what this request has produced: its error, its         *)
(* listing, or nothing, and never something of an earlier request.         *)
BufferIsOfRequest == pc = "idle" =>
    buffer \in IF ret < 0 THEN {ErrorText[ret]} ELSE {"empty", TextOf(route)}

(* A request ends the process only if its body is not JSON, or if it talks *)
(* to Redis and does not get the reply it expects.  A PUT never talks to   *)
(* Redis; a refused command is fatal to the listings only.  A connect      *)
(* never does, a ping only on a context that is of no use, a disconnect    *)
(* only on one that is freed already.                                      *)
CrashHasCause == pc = "crashed" =>
    CASE call = "work" ->
            \/ req.method \in {"POST", "PUT"} /\ req.body.parse # "ok"
            \/ req.method # "PUT" /\ c # "connected"
            \/ route \in {"GET_ALL", "GET_BY_VALUE"}
      [] call = "ping_redis"       -> c \in {"broken", "freed"}
      [] call = "disconnect_redis" -> c = "freed"
      [] OTHER                     -> FALSE

(* run_server.js takes what work() returns for the answer to the request.  *)
AnswerIsBuffer ==
    pc = "idle" /\ call = "work" => answer = buffer

(* A ping without a connection answers "PING: error -> not connected!"     *)
(* (neurose.cpp 61): it ends the process only if there was a connection    *)
(* and it has broken.                                                      *)
PingTellsNoConnection ==
    pc = "crashed" /\ call = "ping_redis" => c = "broken"

=============================================================================
