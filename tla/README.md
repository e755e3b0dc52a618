# Verification of neurose-REST

TLA+ models of the order service in this repository, the TLC runs that check
them on small instances, and TLAPS proofs that hold for every instance.
`PROJECT.json` lists the components, runs, mutants, hazards and theorems, and
maps every definition to the lines it models. All line numbers below are of
`src/request.re.c` unless another file is named. `request.cpp` is what re2c
generates from `request.re.c`; the models cite the generated file only where
the source does not show what happens (the automata of the lexers, the
fall-through of a rule).

## 1. The system

A node addon (C++) serves a REST interface for orders kept in Redis. node runs
one process per CPU; a request is handed to the addon's `work()`, which runs
it to completion and blocks the process while it talks to Redis.

| Component | State | Operations | Correct when |
|---|---|---|---|
| **Write path** `post` 989-1047, `delete_all` 1052-1059 | the Redis keys `order:<id>`, `order:<id>.items`, `order:<id>.transactions`; the MULTI state of each connection | five commands per POST, one per DELETE, one round trip each | nobody sees part of an order; an answered POST was stored; no request leaves a transaction open |
| **Read path** `get_all` 902-928, `get_by_value` 929-954, `process_order_id` 886-900, `get_by_id` 865-884, `get_items`, `get_transactions` 956-988 | the SCAN cursor, the reply, the text so far | loop of SCAN, and HGETALL for every key found | what was there all along is listed, no order is torn, the listing ends |
| **Body validation** `validate_json` 385-713 | position in the token array, three counters, the `jsonEntry` | one walk over jsmn's tokens | no token beyond the last is read, every value lands in its field, only checked values are recorded, the walk ends |
| **Dispatch** `work` (`neurose.cpp` 79-126), `handle_request` 1060-1160, `analise_json` 774-801, `clear_json` 754-772, url parsers 162-263 | static answer buffer, `jsonEntry` on the stack, heap lists | one call per request | errors touch nothing, nothing leaks from request to request |
| **Tokenizer** `jsmn.cpp` | `pos`, `toknext`, `toksuper`, token array | `jsmn_parse` | tokens nest as the brackets do, the counts are right, the array is not exceeded |
| **Lexers** `parse_method`, `check_*`, `parse_id` ... 86-382 | none | longest match of re2c rules | the longest match wins, nothing behind the end of the text is read |
| **JSON builder** 804-863 | buffer and `jsonLen` | append, open, close | `jsonLen` is the length, commas and nesting are right, the buffer suffices |
| **Connection** `neurose.cpp` 15-77 | the global `c` | connect, ping, disconnect | `c` is usable or NULL |
| **Cluster** `run_server.js` | workers, request counters, messages under way | answer, notify; fork, message, death, interval | a worker that dies is replaced, requests are counted once |
| **hiredis headers**, build and check scripts | | | outside this project |

*Interactions.* The cluster calls `work()`; `work()` calls `handle_request()`
with the global connection; that calls a url parser, the body analysis, and a
handler; the handlers call hiredis and, through Redis, meet the handlers of
the other processes. There are no callbacks inside the addon and no shared
memory: **all concurrency is between processes, at the Redis server**, and it
happens between any two commands of a request.

*What is hard here.* A request is several round trips, and after each of them
the process, the connection or the server may fail, and the other processes
may have changed the store. No handler looks at what a reply says. A walk
through the keys is not atomic and the server may resize its table in the
middle of it. The walk through the tokens is steered by counts found in the
tokens. The static buffer and the uninitialized `jsonEntry` carry state that
was not meant to last. The builder writes into a buffer it knows only by a
length it adds up itself. Workers die between answering and reporting, and of
deaths the master has not noticed yet.

## 2. Modules

| Module | Models | Kind |
|---|---|---|
| `AtomicOrders` | what the store promises: whole orders appear in one step, at most once each; DELETE empties the store in one step | abstract specification |
| `OrderService` | the write path: several processes, connections, the Redis sessions | detailed specification; implements `AtomicOrders` |
| `OrderServiceProofs` | its theorems | TLAPS |
| `OrderListing` | the read path, against a store that moves by the steps of `AtomicOrders` | composes with the above through `INSTANCE` |
| `OrderListingProofs` | its theorems | TLAPS |
| `JsonBuilder` | the text of a listing | the functions as operators on a buffer, the listing as a machine that calls them |
| `JsonBuilderProofs` | its theorems | TLAPS |
| `ValidateJson` | `validate_json` | one action per case of the walk |
| `ValidateJsonProofs` | its theorems | TLAPS |
| `Brackets` | what a tokenizer promises: brackets matched with a stack | abstract specification |
| `Jsmn` | `jsmn_parse` | implements `Brackets` without a stack; its tokens are the inputs of `ValidateJson` |
| `BodyReading` | `validate_json` from the text of a body to the `jsonEntry` | composes `Jsmn` and, through `INSTANCE`, `ValidateJson` |
| `JsmnProofs` | the theorems of `Jsmn` and `BodyReading` | TLAPS |
| `Lexers` | the generated lexers | one automaton, one table of rules per lexer |
| `LexersProofs` | its theorems | TLAPS |
| `RequestHandling` | one process: the four functions of the addon, call after call | the layer above the others |
| `RequestHandlingProofs` | its theorems | TLAPS |
| `Cluster` | `run_server.js`: master, workers, messages | the layer above `RequestHandling` |
| `ClusterProofs` | its theorems | TLAPS |
| `MC...` | constants for TLC; `MCBodyReading` takes its texts and documents from `MCJsmn` | |

### OrderService

`pc[p]` is where process `p` is: `"down"` (no connection), `"idle"`, waiting
for the reply to a command, or `"crashed"`. A command is sent by a step of the
process (`Post`, `Delete`, `Continue`), executed by a step of the server
(`Serve`), and its reply read by a later step of the process. `request[p]` and
`reply[p]` are the two directions of the connection; hiredis' blocking
`redisCommand` never has more than one command under way.

| Action | Code |
|---|---|
| `Connect`, `Disconnect` | `connect_redis` when it succeeds, also over an open connection; `disconnect_redis` |
| `Post` | `gen_uuid`, then MULTI is sent |
| `Continue` | the reply is printed and freed, whatever it says; the next of HMSET, RPUSH, RPUSH, EXEC is sent |
| `Finish` | the last reply; `handle_request` returns 0 |
| `ReplyLost` | `redisCommand` returns NULL and `reply->str` is read: the process is gone |
| `CallUnconnected` | `redisCommand(NULL, ...)` |
| `Crash` | the process dies between two steps; what it had sent may still be executed |
| `Serve`, `Break` | external: Redis' MULTI queue, EXECABORT after a refused command, a connection that breaks |

`Refusable` is the set of commands the server may answer with an error. The
history variable `bare` holds the orders whose own MULTI was refused: their
writes are executed one by one, nobody notices, and they may stay partial. What
is true of the others:

| Property | holds |
|---|---|
| `AllOrNothing`, `SessionInStep`, `StoreIsAtomic` | whatever is refused, for every order whose MULTI was not |
| `IdleSessionClean` | while EXEC is not refused |
| `AckedWasStored` | while nothing of a POST is refused |
| `RequestsEnd` | whatever is refused |

Two hazards at line 1043 have no property, since the code has nothing against them
and no document says it should: an EXEC that is refused leaves the session
inside MULTI for the next request (`DoomedSession`), and the reply to an EXEC that is
aborted is taken for a success. The rows of `IdleSessionClean` and
`AckedWasStored` say how far the promise goes.

The data of an order is left out: the code stores the same text in every order
and never the body it was sent.

### OrderListing

The store is `AtomicOrders`, which `OrderService` is proved to implement on the
orders whose MULTI was not refused; the listing adds SCAN and HGETALL. Redis walks
a key table with the bits of the cursor reversed, so that a cursor stays
meaningful when the table is resized; the places `0..Places-1` are the order of
that walk, `CursorOf` the numbers the server gives them, `size` the present
number of slots. `Resize` changes it between any two commands. A reply ends
with the slot at which it holds at least `Count` keys. `get_all` and
`get_by_value` are one machine that differs in `CursorRead` (whole number, or
first digit) and `ScanBroken` (the NULL reply is read, or skipped and tried
again). `CursorRead` takes `atoi` for the number itself, which it is as long as a
table has at most 2^31 slots (`ListingAssumption`). `listed` is the set of
elements of the answer, each a key and what HGETALL replied (`ReplyTo`: the fields, nothing,
an error because the key is a list, or a refusal); duplicates, which SCAN
allows, and text are left out. The code does not tell the replies without
fields apart; the model does, for `NoTornOrder`. The history variable
`overtaken` collects the keys that a DELETE removed between the SCAN that found them
and their HGETALL: the batch at the moment of the DELETE. Such a key does not come
back, because identifiers are not handed out twice.

### JsonBuilder

The text is a sequence of bytes, of which the model tells apart what JSON
does; a name or a value is the number of its characters. `Cat` is `strcat` and
the addition that follows it: the text grows by what is appended, `jsonLen` by
what the code adds, and the two need not agree. `Comma` reads the byte before
`json[jsonLen]`, as the code does. `OpenBatch`, `OpenEntry`, `AppendField`,
`CloseEntry` and `CloseBatch` are `process_order_id` and `get_by_id` call by
call; `OpenBatch` runs once per reply to SCAN, so that the answer is one
document per batch, with commas between them, and not one JSON document. Writing beyond
`Capacity` is undefined: the model ends there (`"overrun"`).

In the program (`MCJsonBuilder`) an order takes 249 bytes of the listing: 138
for its own key with four fields, 52 and 59 for its two lists, which match the
pattern of the keys; a batch takes 14. About 360 orders fill the 91024 bytes.

### ValidateJson

A token is the keyword its text begins with, its number of children, and
whether the check made on it passes; the lexers are thus inputs. Array positions are
those of C. `Beyond` is the exit inside the macro `iNC` (line 63). Each `case`
of the switch is an action that makes all the moves of that case.
The local `size` is -1 after `while(size--)` and is not read before it is set
again; the model leaves it at 0. The return codes are named by the return
statement: `"-2"` is a rejected field, `"JSMN_ERROR_INVAL"` is what `iNC`
returns (the two are the same number in C).

The walk does not look at the `role` of a token; it says where in an order
document the token stands, and `IsDocument` what an order document is: the roles follow
one another as they do in such a text (`InOrder`: a key has its value behind
it, a list key its array, an entry is in the array of the list whose name it
bears), and every size counts the children (`SizesMatch`). Several orders in a
row, repeated fields and lists, empty orders, lists and entries, and unknown
names of fields are documents. `FindsEveryField` compares `je` with what the document says:
the last value of every field, and for the entry at place `k` of a list the
`k`-th entry from the end. There is one exception: a transaction is allocated after
`iNC` (585), an item before it (492), so that an empty transaction which is the last
token, as in `{"transactions":[{}]}`, gets no entry (`Entered`).
`ObjectsToFaults` is about the other end of the walk: the answer to a document is
`"-2"` exactly if a field in it is not known where it stands or has a value that is to
be checked and is not accepted (`Faulty`). The walk then never objects because it
has lost count and takes, say, a value for a key.

### Jsmn

A text is a sequence of symbols: brackets, colon, comma, white space, a string,
a primitive, and the ways in which the last two are wrong. Each case of the
switch is an action; `NoMemory` is the full array, `End` what follows the loop.
`tokens` is the filled part of the array, `toknext` its length. A token is open
as long as its `end` is -1; `Close` and `Comma` look back for open tokens as the
code does (`Unclosed`, and the last of them). The case ',' reads
`tokens[toksuper]` also when `toksuper` is -1; the model lets that read have any
outcome. `start` and `end` count symbols, not characters. A string token that
is followed by a colon gets its value as a child, and that number of children
is what `validate_json` walks by.

What a document is, is said of a text and a tree, which is an input the code does
not see: the list of the values and keys in the order in which they begin.
`LaidOut` says that the nodes stand where the text has their symbols, in order and
nested; `WellFormed` what may stand at a place, by the symbol before it and the
node around it (white space does not count); and the size of a node is the number
of nodes whose `Parent` it is: its key for a value behind a colon, the node
around it for anything else. `TreeOfDocument` says that the tokens are that tree.
This grammar has no recursion, so that it can be reasoned about; `MCJsmn` builds
documents from the inside out, and checks that they satisfy it.

### BodyReading

`Tokenize` is a step of `Jsmn`. `WalkOn` is a step of `ValidateJson`, over the
tokens that are there when `jsmn_parse` has returned (`Parsed`). What the walk sees
of a token is what the lexers say of the text from `tokens[i].start` on; these
answers are given for every place of the text (`lexemes`), so that a walk that takes
the wrong token reads what stands at the wrong place. `IsOrder` is a document of
`Jsmn` in which every node has the role its parent asks for (`RoleUnder`):
no counter, array or order of tokens occurs in it. `FieldsOfText` compares the
answer and the `jsonEntry` with the nodes of that tree: the `Latest` of the
`Values` of a field, the entries of a list from the last to the first, and of each
the same; a fault anywhere is objected to; an order with more nodes
than the array has tokens is refused and leaves the `jsonEntry` empty.

### Lexers

A lexer is a list of rules in the order of the source. re2c turns it into an
automaton by following all rules at once; `live` is that set of positions,
`Skip` is a transition (YYSKIP, and YYBACKUP when a rule is complete), `Answer`
is YYRESTORE and the action of the rule. `Peek` is YYPEEK with its test for the
end of the text. A symbol is a class of characters (for identifiers, numbers and
dates) or a part of a keyword in which the automaton does not branch; letters
stand for both cases. The answers are the numbers of `request.h`. The two url
parsers, whose actions do more than answer, are in `RequestHandling`.

### RequestHandling

`Call` is the head of `work()`; `ParseMethod`, `ParseUrl`, `AnaliseJson`,
`ClearJson`, `Get`, `Post`, `Delete` are the steps of `handle_request`;
`NoReply` and `ScanRefused` are the NULL and the error reply, `BreaksMidway` a
connection that breaks between the SCAN and an HGETALL of one listing (that
`get_by_value` spins when it breaks between two SCANs is in `OrderListing`). A url is what the two lexers see of
it: `/orders`, the next character, a uuid, the sub-item. The action of the rule
`"/orders"` has no jump and runs into that of `"/orders/"` (`request.cpp`
1543-1580), so `/ordersX<uuid>` is an order as well; the model follows. `je` is
the `jsonEntry` on the stack: `"garbage"` until `analise_json` sets it to
zero, which it does only after jsmn accepts the body. Walking garbage pointers
in `clear_json` is undefined: the model lets it pass or end the process.
The Redis commands are only collected here.

`c` is the context: NULL, connected, broken (the peer is gone), or freed.
`ConnectRedis` succeeds, or fails and leaves `c` NULL or, since the context is
freed and not forgotten (`neurose.cpp` 39), freed. `PingRedis` reads the text of
a reply that is not there if the connection is broken; a freed context is taken
for a good one. `DisconnectRedis` frees whatever `c` points at. What a freed
context does when it is used is undefined: a request may find it broken or die
of it, freeing it twice may pass or not. A connect over an open connection
drops it without closing it; `OrderService` has what that means for the server.

### Cluster

`Answer` is the callback of `'end'` up to `response.end`, `Notify` is its last
line; between the two the worker may be killed. `Fatal` are the requests
from which `addon.work` does not return. They exist: no worker calls
`connect_redis`, so that a request that reaches Redis calls `redisCommand` with
NULL; and the strings of `neurose_body` (`run_server.js` 11-39) are not joined,
so that the constant is its first line, jsmn rejects every body, and a POST or
PUT walks an uninitialized `jsonEntry`. `Deliver`, `NoticeDeath` and `Interval`
are the callbacks of the master. Only the loop that forks the first workers
installs the listener for messages (`Heard`): what a replacement handles is
never counted. `restarts` says whether node emits `'death'`; versions after the
one the script cites call the event `'exit'`, and then no worker is
replaced.

## 3. What the runs check

| Run | Bounds | Shows |
|---|---|---|
| `service_refusals` | 2 processes, 2 identifiers, everything refusable | `AllOrNothing`: the three keys of an order exist together or not at all. `SessionInStep`: the server's transaction is exactly what the process got replies for. `StoreIsAtomic`: refinement of `AtomicOrders`. `RequestsEnd`: every request ends, with an answer or with its process |
| `service_reliable` | 3 processes (symmetric), 2 identifiers, only FLUSHALL refusable | `AckedWasStored`, `IdleSessionClean`, with dying processes and connections |
| `listing` | 2 orders (6 keys), table of 4 or 8 slots, 2 keys per reply, both handlers | `CompleteListing`: all keys that existed throughout are listed. `NoTornOrder`: an order is listed without fields only if its own HGETALL was refused or a DELETE came between the SCAN that found it and that HGETALL, and then it is gone for good. `ListingGetsOn`: a step of the handler gets past a key or past the cursor it gave, or ends. `ListingEnds` |
| `listing_by_value_hangs` | 3 orders (9 keys), 16 slots | *violation*: `ListingEnds` for `get_by_value` |
| `json_walk` | orders of up to 2 fields with lists of up to 2 entries, empty ones included, pairs of orders, with and without an empty one between; all streams of up to 4 tokens with 0 to 2 children | `InBounds`, `OrderIsRead` (`FindsEveryField`: when the walk ends without an objection, the `jsonEntry` is what the document says; `ObjectsToFaults`: it objects to what is wrong and to nothing else), `RecordedIsChecked`, `OnlyNothingIsAccepted`, `Terminates` |
| `body_reading` | every text of up to 3 symbols, of up to 5 brackets, separators and strings; documents nested 2 deep, two in a row, with white space between all symbols; arrays of 2 and 1024 tokens. Orders of up to 2 members, or of one list with up to 2 entries; two short orders in a row; bad values, unknown and repeated fields, with and without validation; bodies cut short; arrays of 8 and 1024 | `TreeOfDocument`: a document gives the tokens of its tree, or the array is too short. `MatchesBrackets`: for any text, refinement of `Brackets`. `NothingOpenAbove`, `CountIsFilled`, `ClaimsAreBacked` (the children claimed never exceed the tokens that follow). `FieldsOfText`: from the text of an order to the `jsonEntry`, tokenizer and walk together |
| `lexers` | every text of 3 symbols per lexer, ended everywhere; identifiers and dates with any symbol wrong; one lexer that begins behind its end | `LongestMatch`, `ReadsBelowLimit`, `RulesAsMeant` (`IntIsNumeral`; `UuidIsItsLength`, by which the url parsers move; `WordsAsInHeader`: the numbers of `request.h`) |
| `json_builder` | names and values as long as the program's, up to 3 batches and 3 keys, a buffer of 420 bytes | `LengthIsExact`. `TextIsListing`: the text is what a printer that knows the whole listing would write. `SmallListingFits`: the buffer is overrun only by a listing whose batches and keys can fill it |
| `request_handling` | 13 urls, 4 bodies, 5 methods, both values of validate, and the three functions that keep the connection | `ErrorsTouchNothing`, `NothingLeaks`, `BufferIsOfRequest`, `CrashHasCause` |
| `request_answer` | the same | *violation*: `AnswerIsBuffer` |
| `request_ping` | the same | *violation*: `PingTellsNoConnection` |
| `cluster` | 2 workers, 2 replacements, 3 requests, one of them fatal; with and without the event | `CountsAddUp`: the two counters are the messages the master heard. `WorkersReturn`: as many workers as at first, again and again. `NotificationsTallied`: a message of an original worker gets into the total or is lost with its worker |

*Why the bounds are enough.* Processes meet only in the store, where a command
is atomic; an anomaly of the write path needs the transaction of one process,
a command of another, and an order each: two processes and two identifiers (the
proofs remove this bound altogether for safety). A table of eight slots, two
keys per reply and both sizes make walks of one to several batches with a
resize at any point, and the keys are spread so that an order stored after a
DELETE is still found by a later SCAN; sixteen slots is the first size with a cursor of two
digits; the proof of `GetAllIsComplete` removes the bounds for `get_all`. Four tokens
are one more than the longest look-ahead of a case of the walk (key, value, the token after it); documents add every nesting there is,
twice. `RequestHandling` has no counter but the list nodes, and these are freed
within the request; its proofs hold for any urls and bodies. A buffer of 420 bytes holds every
listing of three batches but not every one with three keys, and three of each
are one more than a comma can depend on. Two workers and two deaths make a
death during the replacement of another; the counters need one request on
either side of an interval, and the third is the fatal one.

Five structural symbols are enough for a key, its colon, a nested
container that closes, and the comma after it, which is the longest way on
which `toksuper` can go wrong; documents reach further. A text ends with a closing
bracket that has no other before it, where `jsmn_parse` ends too (`IsRead`); one of
more than three symbols has the long array only. An order of two members with an
entry each has every return of the walk from an inner loop to an outer one, and
eight tokens are fewer than some of these orders have and enough for others; the
proof of `ReadsText` removes these bounds. No keyword has more than
three parts, so texts of three symbols hold each of them whole, cut short and
mixed with every other.

*Named bounds.* `Uuid` bounds the number of POSTs and of orders, `Process` the
processes (one is never reused after a crash), `Places`, `Count`, `MaxFields`,
`MaxEntries`, `MaxTokens`, `MaxText`, `MaxSteering`, `Depth`, `Limits`,
`OrderLimits`, `MaxBatches`, `MaxKeys`, `Capacity` as above; `Spare` bounds the deaths of
workers, `Request` the requests, both by what they name.

*Fairness.* `OrderService`: the server eventually executes a command it was
sent or the connection breaks, and a process that can go on does (its code is a
straight line with nothing to wait for but replies). Nobody is obliged to
call, to die, or to break a connection. Redis answering is an assumption: only
the connect has a timeout, so a server that is silent on an open connection
blocks the process for ever. `OrderListing`: the handler's loop takes its next
step. `ValidateJson`: the function runs. No fairness is assumed of DELETEs,
resizes or other processes. `Cluster`: a callback that has begun ends unless its
process is killed, node hands over the messages and deaths that have arrived,
and the timer fires; nobody is obliged to make a request or to die.

*Deadlock* is not checked: a system whose processes have all died, a listing
that was answered and a function that has returned have no next step.

*Mutants.* Each property of a passing run has one or more wrong variants of a definition
of the model that it must detect; they stand in the modules next to what they
change, under comments that begin with "Wrong variant".

## 4. What is proved

`OrderServiceProofs`, for any set of processes, identifiers and refusable
commands:

- `TypeCorrect`, `InStep`, `NoPartialOrder`, `Refinement`, from no assumption;
- `CleanBetweenRequests`, from EXEC not refused;
- `AnsweredPostWasStored`, from nothing but FLUSHALL refused.

`AllOrNothing` is not inductive: nothing in it says why the queue that EXEC
applies is complete. The inductive invariant is

    IInv == TypeOK /\ Connected /\ SessionInStep /\ Fresh

`SessionInStep` says that on an open connection the server's session is the
function `SessionBefore` of the command it has to execute next, unless it is
doomed or the order is in `bare`; it covers the processes that died with a
command under way.
`Connected` ties `request`, `reply` and `open` to `pc` (a command or a reply is
under way only for the command `pc` names, and never both). `Fresh` says that an
identifier that was not handed out occurs nowhere, that no two processes post
under the same one, and that the order being posted is not in the store. With
these, EXEC applies either nothing or three writes to an identifier
that has no keys, and `AllOrNothing` and the step of `AtomicOrders` follow. The
two further theorems strengthen `IInv` by the sessions of idle processes and
by the sessions that are never doomed.

`OrderListingProofs`, for tables of any size whose slots divide the places
evenly: `NoOrderTorn` (`NoTornOrder`), and `GetAllIsComplete`
(`CompleteListing`, for `get_all`; of `get_by_value` it is not true). For
`NoOrderTorn` the invariant is `Found`: a key of the batch is in the store or
overtaken, and the identifier of an overtaken key was stored once and is not in the store, now or
later. For `GetAllIsComplete` the
invariant says that every key that was there throughout and is not listed yet
has its place at or behind the place the cursor names, or is in the batch being read.
A cursor handed out under one size names the first place of a slot under that
size; `Walk` shows that under any other size the walk goes on at this place or before it,
and ends behind it. The lemmas before it are arithmetic: division with
remainder, slots of equal width, the least element of a set of naturals.
`TypeCorrect` (`TypeOK`) says for both handlers that every cursor names a place:
the numbers of the places are a permutation of them (`FS_Injection`), and the
first digit of a number exists, is not greater than it, and is 0 for 0 only.
The two other theorems are about `get_by_value`. `SmallTablesComplete`: as long
as the table has no more than ten places, it misses nothing either, since the
invariant needs of a handler only that the cursor it reads is the one it was
given. `StopsAtTableEnd`: in tables of any size it takes no other cursor for
the end, so that its failure is always to go on too long, never to stop early;
that it may go on for ever is `listing_by_value_hangs`. `ListingIsShort`
(`ListingGetsOn`, for `get_all`, and for `get_by_value` up to ten places) is what
can be said of `ListingEnds` without fairness: every SCAN gets past the place its
cursor names, whatever the server does to the table and others to the store, so
that there are no more of them than places.

`JsonBuilderProofs`, for any lengths, replies and capacity: `TypeCorrect`,
`LengthAddsUp` (`LengthIsExact`), `SmallListingsFit` (`SmallListingFits`),
`PrintsListing` (`TextIsListing`). Each function adds to `jsonLen` what it
appends. For `SmallListingFits`, the length is bounded at every point of a
listing by a sum over what has been opened, with the fields still to come
counted at their longest. For `TextIsListing` the invariant is `Printed`: between
batches the text is the printed listing; in a batch it is what was printed
before, the open bracket, and the entries so far; in an entry, also the fields
so far. It has to say which byte comes last, because `Comma` decides by it. The
printer is a join defined by recursion; the lemmas `Joins` and `Separated` show that it
exists, is unique, and what one more element adds to it.

`ValidateJsonProofs`, for any set of inputs: `ReadsParsedTokens` (`InBounds`),
`AcceptsNoOrder` (`OnlyNothingIsAccepted`), `TypeCorrect` (`TypeOK`),
`RecordsOnlyChecked` (`RecordedIsChecked`), `WalkIsShort`, `FindsAll`
(`FindsEveryField`). Inside a loop the current token
is one of the `r` tokens; outside, the walk is at the first token or inside. All
a case has to show is that each advance passes through `Beyond`. Type
correctness needs `HeadIsThere`: while the walk is in an entry there is a head
of the list to write to, and the entry is counted. Three lemmas say what the
ways of writing to `je` change; from them it follows that only a value that
passed its check is written where one is asked for. `WalkIsShort` is what can be
said of `Terminates` without fairness: every step passes a token, returns to an
outer loop or ends the walk, so that `StepsLeft` falls with every step and the
walk has at most five steps for each token and five more, whatever the
tokens claim about their children.

`FindsAll` is for documents of any size. `FindsEveryField` says nothing before the
end of the walk; the invariant is `OnCourse`, and holds of documents. `PlacedAt`
says that the three counters are the keys, entries and entry keys still ahead
(`Ahead`: the tokens of a role before the next token that ends the loop),
and that the walk is in the list of the nearest array, and in the entry of the nearest
head, behind it. `FoundAt` says that `je` is what the first `i` tokens say. The
counter therefore decides as the role of the current token does: the fields
of an order are over when the next object begins, and so on inwards. The lemmas
say what one token changes on either side: `AheadStep` for the counters,
`ScalarPut`, `EntryBegins` and `EntryGrows` for the meaning. An entry is found by
its rank from the end, since every new one moves the others back by one
(`Ranks`); an entry that has ended does not change any more (`EntryPass`).

`FindsFaults` (`ObjectsToFaults`) stands on `OnCourse`. The invariant `FaultsKnown`
adds that there is no fault among the first `i` tokens while the walk goes on,
and one when it has ended with `"-2"`. Every case that goes on has passed a token that is
no fault, as `OnCourse` ties the list the walk is in to the entry the
token belongs to; every case that objects has found one, as the roles exclude that
it stands at something else. That an entry key has its fault in one
entry only is `OneEntry`. `ReadsOrder` (`OrderIsRead`) is the two together.

`JsmnProofs`, for texts and arrays of any length: `StaysInArray` (`TypeOK`),
`SuperIsAbove` (`NothingOpenAbove`), `ReturnsTokensFilled` (`CountIsFilled`),
`ImplementsBrackets` (`MatchesBrackets`), `BacksItsClaims` (`ClaimsAreBacked`). The
invariant of the first three is the types, `count = toknext`, and
`NothingOpenAbove`; it is inductive once `Max` of a nonempty set of indexes is
known to be in the set, which `MaxOfIndexes` derives from the well-foundedness of
the natural numbers.
The refinement maps the stack of `Brackets` to the unclosed tokens in the order
of the array. That this order exists is part of the invariant (`Tracked`: the
unclosed tokens are containers and can be enumerated); the enumeration is
unique, so that opening a bracket appends to the stack, closing the last
unclosed token takes the top away, and every other step leaves it alone.
For the claims the invariant `Backed` has a function that adds them up from the
end of the array; a token that is added raises the sum up to its parent by one,
and the number of tokens behind each of these by one as well.

`GivesTheTree` (`TreeOfDocument`) is for documents of any length and nesting. The
invariant `FollowsTree` says where the tokens stand while a document is read. By
`SoFar` they are the nodes that begin before `pos`; a token is open while its node is not over,
and has counted the children that have begun. Hence the unclosed tokens are the
nodes around `pos` (`Enclosing`), and the look back of `Close` and `Comma` finds the node
that is meant. `SuperIs` says what `toksuper` is, by the symbol before `pos`: the
key after a colon and until the comma after a value that is a string or a
primitive, the innermost node around otherwise. The grammar then excludes every error but the full array.

`ReadsText` (`FieldsOfText`) is from the text to the `jsonEntry`, for orders of any
size. By `GivesTheTree` the tokens are those of the tree. What an order is says
nothing of counters, so the main part is to show that these tokens are an
`IsDocument` of `ValidateJson`: that the roles follow one another as `InOrder`
wants it, and that every size counts what the walk counts. For the latter,
`ReachIsChildren`: the children of a node are the later nodes of the child's
role before the next node that ends its loop. The walk is then compared with `W`, the
walk of `ValidateJsonProofs` over the tokens of the tree, taken as known
beforehand (`Foreseen`): a step of `Tokenize` is a stutter of `W`, a step of `WalkOn` a step
of it, and `FindsAll` and `FindsFaults` apply. Their meanings are translated back to
the nodes of the text. An order too large for the array is refused (`Refused`).

`LexersProofs`, for texts of any length, ended anywhere, and any place to begin:
`TypeCorrect` (`TypeOK`), `StaysBelowLimit` (`ReadsBelowLimit`),
`AnswersLongestMatch` (`LongestMatch`), `UuidIsWhole` (`UuidIsItsLength`),
`AcceptsNumerals` (`IntIsNumeral`), `WordsGetTheirNumbers` (`WordsAsInHeader`). One
inductive invariant carries them all: after `m` symbols `live` holds exactly the
rules that these symbols may still become (`LiveIs`), and `marker` and `accepted`
are the longest complete match among the beginnings of these symbols and the
first of its rules (`BestIs`). At the answer no rule can go on, so
that the best of the symbols read is the best of the whole text; what is read
past it is given back. The last three theorems follow from the second by going
through the tables of rules: which of them match a numeral, an identifier, or a
whole word, and which comes first; `AnswersAsMeant` (`RulesAsMeant`) is the three together.

`RequestHandlingProofs`, for any urls and bodies: `TypeCorrect`,
`NoErrorReachesStore` (`ErrorsTouchNothing`), `AllIsFreed` (`NothingLeaks`),
`BufferNotReused` (`BufferIsOfRequest`), `CrashesExplained` (`CrashHasCause`).
One invariant carries them all; it says for each step of a request what has been
sent, what is allocated, what the buffer holds, and which steps its method
leads to.

`ClusterProofs`, for any number of workers and requests: `CountersAgree`
(`CountsAddUp`) and `NoWorkerForgotten` (`WorkersAccounted`: while node emits
`'death'`, the workers that run and the deaths not noticed yet are as many as the
workers at first, so that the master never forks twice for one death).

Recursive definitions (`Joins`, the first digit, the sum of the claims) are
reasoned about by their least counterexample: the set of arguments for which a
claim fails has a least element, by `WFMin` of the library, and there the claim
follows from the one before.

*Model-checked only.*

- `RequestsEnd`, `ListingEnds`, `Terminates`, `WorkersReturn`,
  `NotificationsTallied`: liveness under fairness is out of the prover's reach.
- That texts written the usual way, from the inside out, satisfy the grammar of
  `Jsmn`: `DocumentsAssumption` in `MCJsmn`, for the documents of its bounds. A proof
  for all would be an induction over documents.

Every invariant of a passing run, and every action property, is stated by a theorem;
where the theorem has an assumption (`GetAllIsComplete`, `ListingIsShort`,
`CleanBetweenRequests`, `AnsweredPostWasStored`), the code does not do what is
claimed without it.

## 5. Where the code and its words differ

Each of the three violation runs belongs to a finding in `PROJECT.json`:

1. `get_by_value` reads the first digit of the cursor (942) and never returns
   once the key table has sixteen slots and more keys than one reply holds.
2. `work()` answers with the bytes of a pointer (`neurose.cpp` 83).
3. After a connect that failed, `ping_redis` does not say that there is no
   connection: it uses the context that was freed (`neurose.cpp` 39, 53-63).

Other behaviour of the code the models contain, which no document contradicts in
words a property could be taken from, or which one reading shows:

- a refused MULTI leaves the writes of its POST without a transaction (`bare`);
- `validate_json` returns `JSMN_ERROR_INVAL` for every good body, since `iNC` (63)
  returns at the last token; the caller drops the result (797), so that a body
  whose values are rejected is posted like a good one;
- the items and transactions of an order are never read: both handlers
  (956-988) send one SCAN and answer nothing (`CommandsOf`, `TextOf`), and
  `get_by_id` asks for a key that begins with the url (1091-1094);
- `get_by_value` spins on a broken connection once its cursor is not 0;
- a DELETE of any url empties every database of the server;
- the two lists of an order are listed as orders without fields, and a listing
  of several batches is several documents;
- a key that only begins with the name of a field is taken for it;
- an empty transaction at the end of the body gets no entry, an empty item does
  (492, 585);
- in `run_server.js`, the body every request is given is cut off after its first
  line, no worker is connected to Redis, and the requests that replacements
  handle are not counted.

## 6. Not modelled, and the plan

Not modelled: hiredis and libuuid (external; the identifiers they return are
unused ones), node, V8 and node's HTTP parser, what is printed to the console,
the characters of names and values in an answer, the build scripts and
`check_001.js`, which keep no state.

What is left:

1. `Lexers` in the composition: `BodyReading` joins tokenizer and walk, but what the
   lexers answer at a place of the text is an input of it. It would need texts of
   characters, in which a string is not one symbol; the answers are proved right
   for texts of characters by `LexersProofs`.
2. `RequestHandling` over `BodyReading`: it has a body as one of four kinds. The result of
   `validate_json` is dropped (797), so that nothing a request does depends on more
   of a body than whether jsmn accepts it.
