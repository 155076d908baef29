----------------------------- MODULE EngineCall -----------------------------
(***************************************************************************)
(* One zetasql Engine, from New to Close, and the buffer protocol that     *)
(* Engine.Parse, ParseNext, Analyze and AnalyzeNext run against the linear *)
(* memory of the WASM module: malloc a request block, write the request,   *)
(* call an export, read the [size][data] block it returns, decode it, and  *)
(* let the deferred calls free both blocks, last registered first.         *)
(*                                                                         *)
(* The engine is used by one caller at a time (api.Module is not safe for  *)
(* concurrent use), but its memory outlives the calls: what one call       *)
(* leaves behind is there for the next.  A trap inside an export unwinds   *)
(* the WASM stack without running C++ destructors, so the blocks the       *)
(* export held are lost.  The module is linked with memory growth, so      *)
(* malloc answers NULL when memory is exhausted, and neither side of the   *)
(* bridge looks at that answer.                                            *)
(*                                                                         *)
(* Heap blocks are unit-size: Addr is the heap's capacity.  SQL text,      *)
(* protos and frames are reduced to the request they belong to.            *)
(***************************************************************************)
EXTENDS Naturals, Sequences

CONSTANTS
  Client,   \* the callers that take turns using the engine
  Sql,      \* SQL texts
  Slashed,  \* the texts that contain a "/", which Analyze parses first
  Op,       \* the engine methods the callers use
  Addr,     \* blocks the WASM heap can hold
  Null,     \* address 0, what malloc returns when it has no block
  Wild,     \* an address outside linear memory
  Junk,     \* the content of a block that holds no request or frame
  None      \* no caller, no request, no pointer

Goal    == [op : Op, sql : Sql]
Request == [op : Op \union {"Parse"}, sql : Sql, rewritten : BOOLEAN]
Frame   == [tag : {"proto", "error"}, of : Request \union {Junk}]
Content == Request \union Frame \union {Junk}

ASSUME ConstantsAssumption ==
  /\ Slashed \subseteq Sql
  /\ Op \subseteq {"Parse", "ParseNext", "Analyze", "AnalyzeNext"}
  /\ None \notin Client \union Goal \union Request
  /\ {Null, Wild, None} \intersect Addr = {}
  /\ Null # Wild /\ Null # None /\ Wild # None
  /\ Junk \notin Request \union Frame \union {None}
  /\ Request \intersect Frame = {}

(***************************************************************************)
(* Memory has room for the two blocks a call holds at once.  A request too *)
(* large for an empty heap is outside the model.                           *)
(***************************************************************************)
ASSUME RoomAssumption == \E a, b \in Addr : a # b

VARIABLES
  phase,        \* "absent", "building" (inside New) or "ready"
  built,        \* how many of New's fallible steps have succeeded
  open,         \* how many wazero runtimes were created and are not closed
  live,         \* blocks malloc has handed out and free has not taken back
  mem,          \* content of each block, and of address 0
  statics,      \* "intact" or "overwritten": the C++ data below the heap
  trapped,      \* some export of this engine has trapped
  lost,         \* while that data is intact, the blocks traps left in the exports they unwound
  caller,       \* the client whose call is running
  goal,         \* what that client asked for
  sent,         \* the request of the current exchange with the bridge
  pc,           \* where the exchange is
  reqPtr,       \* the request block
  resPtr,       \* the result block
  deferred,     \* the frees Go has deferred, next to run first
  outcome,      \* how the exchange ends, once that is decided
  answer,       \* the request the decoded result belongs to
  kept          \* what each client's last call returned

engineVars == <<phase, built, open>>
heapVars   == <<live, lost, mem, statics, trapped>>
callVars   == <<caller, goal, sent, pc, reqPtr, resPtr, deferred, outcome, answer>>
vars       == <<engineVars, heapVars, callVars, kept>>

-----------------------------------------------------------------------------
NewSteps == 6   \* the steps of New that can fail

Init ==
  /\ phase = "absent" /\ built = 0 /\ open = 0
  /\ live = {} /\ lost = {} /\ mem = [a \in Addr \union {Null} |-> Junk]
  /\ statics = "intact" /\ trapped = FALSE
  /\ caller = None /\ goal = None /\ sent = None /\ pc = "idle"
  /\ reqPtr = None /\ resPtr = None /\ deferred = <<>>
  /\ outcome = "none" /\ answer = None
  /\ kept = [c \in Client |-> None]

(* New creates a runtime, and with it a fresh linear memory. *)
NewRuntime ==
  /\ phase = "absent"
  /\ phase' = "building" /\ built' = 0 /\ open' = open + 1
  /\ live' = {} /\ lost' = {} /\ mem' = [a \in Addr \union {Null} |-> Junk]
  /\ statics' = "intact" /\ trapped' = FALSE
  /\ UNCHANGED <<callVars, kept>>

CloseRuntime == open' = open - 1

(* New is at its n-th fallible step, which touches nothing but the engine. *)
AtStep(n) ==
  /\ phase = "building" /\ built = n
  /\ UNCHANGED <<heapVars, callVars, kept>>

GoOn == built' = built + 1 /\ UNCHANGED <<phase, open>>

(* New returns an error and no engine: its caller has nothing to close. *)
ReturnError == phase' = "absent" /\ UNCHANGED built

InstantiateWASI ==
  /\ AtStep(0)
  /\ \/ GoOn
     \/ CloseRuntime /\ ReturnError

CompileModule ==
  /\ AtStep(1)
  /\ \/ GoOn
     \/ CloseRuntime /\ ReturnError

ExportEmscripten ==
  /\ AtStep(2)
  /\ \/ GoOn
     \/ CloseRuntime /\ ReturnError

InstantiateEnv ==
  /\ AtStep(3)
  /\ \/ GoOn
     \/ CloseRuntime /\ ReturnError

(* Fault: this one of the six error paths forgets the runtime. *)
InstantiateModuleLeaks ==
  /\ AtStep(4)
  /\ \/ GoOn
     \/ UNCHANGED open /\ ReturnError

InstantiateModule ==
  /\ AtStep(4)
  /\ \/ GoOn
     \/ CloseRuntime /\ ReturnError

(* init_module runs the C++ constructors; with it the engine is ready. *)
RunInitModule ==
  /\ AtStep(5)
  /\ \/ phase' = "ready" /\ built' = built + 1 /\ UNCHANGED open
     \/ CloseRuntime /\ ReturnError

NewStep ==
  \/ InstantiateWASI \/ CompileModule \/ ExportEmscripten
  \/ InstantiateEnv \/ InstantiateModule \/ RunInitModule

(* "After Close the engine must not be used again": it is gone. *)
Close ==
  /\ phase = "ready" /\ caller = None
  /\ phase' = "absent" /\ CloseRuntime
  /\ UNCHANGED <<built, heapVars, callVars, kept>>

-----------------------------------------------------------------------------
(* Analyze runs the parser first on a text that may hold a named time zone. *)
NeedsPreparse(g) == g.op = "Analyze" /\ g.sql \in Slashed

AsRequest(op, sql, rewritten) == [op |-> op, sql |-> sql, rewritten |-> rewritten]

Begin(c, g) ==
  /\ phase = "ready" /\ caller = None
  /\ caller' = c /\ goal' = g
  /\ sent' = AsRequest(IF NeedsPreparse(g) THEN "Parse" ELSE g.op, g.sql, FALSE)
  /\ pc' = "marshal"
  /\ UNCHANGED <<engineVars, heapVars, kept, reqPtr, resPtr, deferred, outcome, answer>>

(* The exchange is over: what is left are the deferred frees. *)
Conclude(o, a) ==
  /\ outcome' = o /\ answer' = a
  /\ pc' = "unwind"

Marshal ==
  /\ pc = "marshal"
  /\ \/ pc' = "malloc" /\ UNCHANGED <<outcome, answer>>
     \/ Conclude("failure", None)
  /\ UNCHANGED <<engineVars, heapVars, kept, caller, goal, sent, reqPtr, resPtr, deferred>>

(***************************************************************************)
(* What malloc may answer: a free block, or NULL when there is none.  Once *)
(* the C++ data is overwritten it may answer anything.                     *)
(***************************************************************************)
MallocResults ==
  IF statics = "overwritten" THEN Addr \union {Null, Wild}
  ELSE IF Addr \ live = {} THEN {Null}
  ELSE Addr \ live

(* Writing at address 0 succeeds: it may reach the C++ data that lies above it. *)
StaticsAfterStore(a) ==
  IF a = Null THEN {statics, "overwritten"} ELSE {statics}

LostWhileIntact(blocks) == lost' = IF statics' = "intact" THEN blocks ELSE {}

(* Fault: the result block is never handed to free_proto_buffer. *)
DeferRequestOnly(what) ==
  deferred' = IF what = "request" THEN <<what>> ELSE deferred

(* Fault: frees run in the order they were registered. *)
DeferLast(what) == deferred' = deferred \o <<what>>

Defer(what) == deferred' = <<what>> \o deferred

Malloc ==
  /\ pc = "malloc"
  /\ \/ /\ \E a \in MallocResults :
             /\ reqPtr' = a
             /\ live' = live \union ({a} \intersect Addr)
        /\ Defer("request")
        /\ pc' = "write"
        /\ UNCHANGED <<outcome, answer, trapped>>
     \/ /\ statics = "overwritten"
        /\ Conclude("failure", None)
        /\ trapped' = TRUE
        /\ UNCHANGED <<reqPtr, live, deferred>>
  /\ UNCHANGED <<engineVars, lost, mem, statics, kept, caller, goal, sent, resPtr>>

(* Fault: the request never reaches the block. *)
SkipStore == UNCHANGED mem

StoreRequest == mem' = [mem EXCEPT ![reqPtr] = sent]

WriteRequest ==
  /\ pc = "write"
  /\ \/ /\ reqPtr # Wild
        /\ StoreRequest
        /\ statics' \in StaticsAfterStore(reqPtr)
        /\ pc' = "invoke"
        /\ UNCHANGED <<outcome, answer>>
     \/ /\ reqPtr = Wild
        /\ Conclude("failure", None)
        /\ UNCHANGED <<mem, statics>>
  /\ LostWhileIntact(lost)
  /\ UNCHANGED <<engineVars, live, trapped, kept, caller, goal, sent, reqPtr, resPtr, deferred>>

(* The frames an export may build for the content of its request block. *)
FramesFor(content) ==
  IF content \in Request THEN [tag : {"proto", "error"}, of : {content}]
  ELSE [tag : {"error"}, of : {Junk}]

(***************************************************************************)
(* The export packs a frame into a block of its own, stored at address 0   *)
(* when its malloc answers NULL.  The temporaries it took are returned.    *)
(***************************************************************************)
ExportReturns ==
  /\ pc = "invoke"
  /\ \E a \in MallocResults :
       /\ resPtr' = a
       /\ live' = live \union ({a} \intersect Addr)
       /\ \/ /\ a # Wild
             /\ \E f \in FramesFor(mem[reqPtr]) : mem' = [mem EXCEPT ![a] = f]
          \/ /\ statics = "overwritten"
             /\ UNCHANGED mem
       /\ statics' \in StaticsAfterStore(a)
  /\ Defer("result")
  /\ pc' = "read"
  /\ LostWhileIntact(lost)
  /\ UNCHANGED <<engineVars, trapped, kept, caller, goal, sent, reqPtr, outcome, answer>>

(* A trap: no frame, and the blocks the export was holding are never freed. *)
ExportTraps ==
  /\ pc = "invoke"
  /\ UNCHANGED statics
  /\ \E held \in SUBSET (Addr \ live) :
       live' = live \union held /\ LostWhileIntact(lost \union held)
  /\ trapped' = TRUE
  /\ Conclude("failure", None)
  /\ UNCHANGED <<engineVars, mem, kept, caller, goal, sent, reqPtr, resPtr, deferred>>

(***************************************************************************)
(* Read the size, then the data; tell an error message from a proto;       *)
(* decode the proto into Go objects that keep no reference to the block.   *)
(***************************************************************************)
ReadAndDecode ==
  /\ pc = "read"
  /\ \/ resPtr = Wild /\ Conclude("failure", None)
     \/ /\ resPtr # Wild /\ mem[resPtr] \in Frame
        /\ LET f == mem[resPtr] IN
           \/ f.tag = "error" /\ Conclude("sqlError", f.of)
           \/ f.tag = "proto" /\ Conclude("ok", f.of)
           \/ f.tag = "proto" /\ Conclude("failure", None)
     \/ resPtr # Wild /\ mem[resPtr] \notin Frame /\ Conclude("failure", None)
  /\ UNCHANGED <<engineVars, heapVars, kept, caller, goal, sent, reqPtr, resPtr, deferred>>

-----------------------------------------------------------------------------
(***************************************************************************)
(* free: a live block goes back and its content is the allocator's again;  *)
(* NULL is ignored; freeing anything else is undefined.  The Go side drops *)
(* the error of a free that traps.                                         *)
(***************************************************************************)
Free(a) ==
  \/ /\ a \in live
     /\ live' = live \ {a}
     /\ mem' = [mem EXCEPT ![a] = Junk]
     /\ UNCHANGED <<lost, statics, trapped>>
  \/ a = Null /\ UNCHANGED heapVars
  \/ /\ a \notin live \union {Null}
     /\ statics' \in {statics, "overwritten"}
     /\ LostWhileIntact(lost)
     /\ trapped' = TRUE
     /\ UNCHANGED <<live, mem>>

(* Fault: both deferred calls captured the request pointer. *)
AlwaysRequestBlock == reqPtr

DeferredBlock == IF Head(deferred) = "result" THEN resPtr ELSE reqPtr

RunDeferred ==
  /\ pc = "unwind" /\ deferred # <<>>
  /\ Free(DeferredBlock)
  /\ deferred' = Tail(deferred)
  /\ UNCHANGED <<engineVars, kept, caller, goal, sent, pc, reqPtr, resPtr, outcome, answer>>

(* Fault: Analyze returns after its pre-parse. *)
NeverPreparsing == FALSE

Preparsing == goal.op = "Analyze" /\ sent.op = "Parse"

ExchangeDone == pc = "unwind" /\ deferred = <<>>

ForgetExchange ==
  /\ reqPtr' = None /\ resPtr' = None
  /\ outcome' = "none" /\ answer' = None

(***************************************************************************)
(* The pre-parse of Analyze is over.  Whatever made it fail, Analyze goes  *)
(* on with the caller's text; when it succeeded the text may be rewritten. *)
(***************************************************************************)
AnalyzeRequests ==
  {AsRequest(goal.op, goal.sql, rewritten) : rewritten \in {FALSE, outcome = "ok"}}

(* Fault: a failed pre-parse is tried again. *)
RetryPreparse == IF outcome = "ok" THEN AnalyzeRequests ELSE {sent}

AfterPreparse == AnalyzeRequests

PreparseDone ==
  /\ ExchangeDone /\ Preparsing
  /\ sent' \in AfterPreparse
  /\ pc' = "marshal"
  /\ ForgetExchange
  /\ UNCHANGED <<engineVars, heapVars, kept, caller, goal, deferred>>

(* After the exchange, Analyze and AnalyzeNext can still refuse what was decoded. *)
FinalOutcomes ==
  IF outcome = "ok" /\ goal.op \in {"Analyze", "AnalyzeNext"}
  THEN {"ok", "failure", "castError"}
  ELSE {outcome}

Return ==
  /\ ExchangeDone /\ ~Preparsing
  /\ \E o \in FinalOutcomes :
       kept' = [kept EXCEPT ![caller] = [goal |-> goal, outcome |-> o,
                  about |-> IF o \in {"ok", "sqlError", "castError"} THEN answer ELSE None]]
  /\ caller' = None /\ goal' = None /\ sent' = None /\ pc' = "idle"
  /\ ForgetExchange
  /\ UNCHANGED <<engineVars, heapVars, deferred>>

-----------------------------------------------------------------------------
CallStep ==
  \/ Marshal \/ Malloc \/ WriteRequest
  \/ ExportReturns \/ ExportTraps
  \/ ReadAndDecode \/ RunDeferred \/ PreparseDone \/ Return

Next ==
  \/ NewRuntime \/ NewStep \/ Close
  \/ \E c \in Client, g \in Goal : Begin(c, g)
  \/ CallStep

(* A call is a sequential Go function: once begun it keeps executing. *)
Spec == Init /\ [][Next]_vars /\ WF_vars(CallStep) /\ WF_vars(NewStep)

-----------------------------------------------------------------------------
Pointer == Addr \union {Null, Wild, None}
Outcome == {"none", "ok", "sqlError", "failure"}
Reply   == [goal : Goal, outcome : {"ok", "sqlError", "failure", "castError"},
            about : Request \union {Junk, None}]

TypeOK ==
  /\ phase \in {"absent", "building", "ready"}
  /\ built \in 0 .. NewSteps
  /\ open \in Nat
  /\ live \subseteq Addr /\ lost \subseteq Addr
  /\ mem \in [Addr \union {Null} -> Content]
  /\ statics \in {"intact", "overwritten"}
  /\ trapped \in BOOLEAN
  /\ caller \in Client \union {None}
  /\ goal \in Goal \union {None}
  /\ sent \in Request \union {None}
  /\ pc \in {"idle", "marshal", "malloc", "write", "invoke", "read", "unwind"}
  /\ reqPtr \in Pointer /\ resPtr \in Pointer
  /\ deferred \in {<<>>, <<"request">>, <<"result", "request">>}
  /\ outcome \in Outcome
  /\ answer \in Request \union {Junk, None}
  /\ kept \in [Client -> Reply \union {None}]

(***************************************************************************)
(* However often New is called, and at whichever of its six steps it gives *)
(* up, the runtimes that stay open are those of an engine somebody can     *)
(* still close: New's own while it builds, its caller's afterwards.  A     *)
(* runtime left behind by one error path would be out of everyone's reach  *)
(* and would add to those of the next attempts (engine.go, New).           *)
(***************************************************************************)
RuntimeReleased == open = IF phase = "absent" THEN 0 ELSE 1

(***************************************************************************)
(* Between calls the heap holds nothing but the blocks that traps left in  *)
(* the export they unwound: every path out of Parse, ParseNext and         *)
(* callAnalyze frees what it allocated, whatever step failed and however   *)
(* many exports have trapped before or in this very call.  The heap of an  *)
(* engine that never trapped is empty.                                     *)
(***************************************************************************)
NothingLeaked == phase = "ready" /\ caller = None /\ statics = "intact" => live = lost

(***************************************************************************)
(* Every deferred free takes back a block this call still owns, and the    *)
(* two are never the same block: no double free, no free of a stranger's   *)
(* block.  (NULL is harmless to free.)                                     *)
(***************************************************************************)
FreesOwnBlock ==
  statics = "intact" =>
    /\ deferred # <<>> => reqPtr \in live \union {Null}
    /\ Len(deferred) = 2 =>
         /\ resPtr \in live \union {Null}
         /\ resPtr = reqPtr => resPtr = Null

(***************************************************************************)
(* What a client is told is about what it asked: the same method, the same *)
(* text, rewritten only if Analyze parsed it first.  It never describes    *)
(* another call's request or the leftovers of one.                         *)
(***************************************************************************)
Honest(g, a) ==
  /\ a \in Request
  /\ a.op = g.op /\ a.sql = g.sql
  /\ a.rewritten => NeedsPreparse(g)

AnswersOwnRequest ==
  [][\A c \in Client :
       /\ kept'[c] # kept[c] /\ statics = "intact"
       /\ kept'[c].outcome # "failure"
       => Honest(kept'[c].goal, kept'[c].about)]_vars

(***************************************************************************)
(* The unchecked NULL of malloc is out of reach of an engine that never    *)
(* trapped: sequential calls that clean up never exhaust the heap.         *)
(***************************************************************************)
NullOnlyAfterTrap ==
  ~trapped => statics = "intact" /\ reqPtr # Null /\ resPtr # Null

-----------------------------------------------------------------------------
(***************************************************************************)
(* The inductive invariant behind the safety properties, in named parts.   *)
(***************************************************************************)

(* A call runs in an engine that is ready, and owns goal, sent and pc. *)
CallShape ==
  /\ phase = "building" => built < NewSteps /\ ~trapped
  /\ caller = None <=> pc = "idle"
  /\ caller = None <=> goal = None
  /\ caller = None <=> sent = None
  /\ caller # None => phase = "ready"

(* What Go has deferred tells how far the exchange got, and so which pointers are set. *)
DeferredShape ==
  /\ pc \in {"idle", "marshal", "malloc"} => deferred = <<>>
  /\ pc \in {"write", "invoke"} => deferred = <<"request">>
  /\ pc = "read" => deferred = <<"result", "request">>
  /\ pc \in {"idle", "marshal", "malloc"} => reqPtr = None
  /\ pc \notin {"read", "unwind"} => resPtr = None
  /\ pc = "invoke" => reqPtr # Wild
  /\ deferred # <<>> => reqPtr # None
  /\ deferred = <<"result", "request">> => resPtr # None

(* The heap holds exactly the blocks still to be freed, apart from those of traps. *)
PendingBlocks ==
  (IF deferred # <<>> THEN {reqPtr} ELSE {}) \union
  (IF deferred = <<"result", "request">> THEN {resPtr} ELSE {})

HeapExact ==
  /\ statics = "intact" =>
       /\ live = (PendingBlocks \intersect Addr) \union lost
       /\ PendingBlocks \intersect lost = {}
  /\ ~trapped =>
       /\ statics = "intact" /\ lost = {}
       /\ reqPtr \in Addr \union {None} /\ resPtr \in Addr \union {None}

(* While the C++ data is intact, each block holds what its stage says, for the current request. *)
BlocksHoldSent ==
  statics = "intact" =>
    /\ reqPtr # Wild /\ resPtr # Wild
    /\ pc = "invoke" => mem[reqPtr] = sent
    /\ pc = "read" => mem[resPtr] \in [tag : {"proto", "error"}, of : {sent}]
    /\ outcome \in {"ok", "sqlError"} => answer = sent

OutcomeShape ==
  /\ outcome = "none" <=> pc # "unwind"
  /\ outcome \in {"ok", "sqlError"} => answer # None

(* The request on the wire is the caller's, or the pre-parse that precedes it. *)
SentServesGoal ==
  caller # None =>
    /\ sent.sql = goal.sql
    /\ \/ sent.op = goal.op
       \/ sent.op = "Parse" /\ NeedsPreparse(goal)
    /\ sent.rewritten => sent.op = goal.op /\ NeedsPreparse(goal)

CallInvariant ==
  /\ TypeOK /\ RuntimeReleased
  /\ CallShape /\ DeferredShape /\ OutcomeShape
  /\ FreesOwnBlock /\ HeapExact
  /\ BlocksHoldSent /\ SentServesGoal

-----------------------------------------------------------------------------
(***************************************************************************)
(* Seen from its callers the protocol is one atomic answer per call: the   *)
(* abstract engine is up when New has returned, and what it knows of traps *)
(* and overwritten data is what this engine's memory has been through.     *)
(***************************************************************************)
Promise == INSTANCE EngineSpec WITH
  Answer  <- Request \union {Junk},
  up      <- phase = "ready",
  trapped <- phase = "ready" /\ trapped,
  sound   <- phase = "ready" => statics = "intact",
  asked   <- [c \in Client |-> IF c = caller THEN goal ELSE None]

PromiseSafety == Promise!Init /\ [][Promise!Next]_(Promise!vars)

(* With the fairness of the abstract engine too: every call returns to its caller. *)
KeepsPromise == Promise!Spec
=============================================================================
