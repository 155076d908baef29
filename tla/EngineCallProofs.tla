-------------------------- MODULE EngineCallProofs --------------------------
(***************************************************************************)
(* Proofs about EngineCall, for every set of clients, texts and methods    *)
(* and every heap with room for a call.  CallInvariant is inductive; the   *)
(* safety properties of EngineCall follow from it.                         *)
(***************************************************************************)
EXTENDS EngineCall, SequenceTheorems, TLAPS

(* The three values deferred takes are told apart by their length. *)
LEMMA DeferredFacts ==
  /\ <<>> # <<"request">> /\ <<>> # <<"result", "request">>
  /\ <<"request">> # <<"result", "request">>
  /\ Len(<<>>) = 0 /\ Len(<<"request">>) = 1 /\ Len(<<"result", "request">>) = 2
  /\ Head(<<"request">>) = "request" /\ Head(<<"result", "request">>) = "result"
  /\ Tail(<<"request">>) = <<>> /\ Tail(<<"result", "request">>) = <<"request">>
  /\ <<"request">> \o <<>> = <<"request">>
  /\ <<"result">> \o <<"request">> = <<"result", "request">>
<1>1. /\ <<>> # <<"request">> /\ <<>> # <<"result", "request">>
      /\ <<"request">> # <<"result", "request">>
  OBVIOUS
<1>2. Len(<<>>) = 0 /\ Len(<<"request">>) = 1 /\ Len(<<"result", "request">>) = 2
  OBVIOUS
<1>3. Head(<<"request">>) = "request" /\ Head(<<"result", "request">>) = "result"
  OBVIOUS
<1>4. Tail(<<"request">>) = <<>> /\ Tail(<<"result", "request">>) = <<"request">>
  <2>1. Tail(<<"request">>) = <<>>
    OBVIOUS
  <2>2. Tail(<<"result", "request">>) = <<"request">>
    OBVIOUS
  <2> QED BY <2>1, <2>2
<1>5. <<"request">> \o <<>> = <<"request">>
  OBVIOUS
<1>6. <<"result">> \o <<"request">> = <<"result", "request">>
  <2> DEFINE r == <<"result">> q == <<"request">> S == {"result", "request"}
  <2>1. r \in Seq(S) /\ q \in Seq(S) /\ Len(r) = 1 /\ Len(q) = 1
    OBVIOUS
  <2>2. r \o q \in Seq(S) /\ Len(r \o q) = 2
    BY <2>1
  <2>3. (r \o q)[1] = "result" /\ (r \o q)[2] = "request"
    BY <2>1
  <2> DEFINE t == <<"result", "request">>
  <2>4. t \in Seq(S) /\ Len(t) = 2 /\ t[1] = "result" /\ t[2] = "request"
    OBVIOUS
  <2>5. \A i \in 1 .. Len(r \o q) : (r \o q)[i] = t[i]
    BY <2>2, <2>3, <2>4
  <2> HIDE DEF r, q, t, S
  <2>6. r \o q = t
    BY <2>2, <2>4, <2>5, SeqEqual
  <2> QED BY <2>6 DEF r, q, t
<1> QED BY <1>1, <1>2, <1>3, <1>4, <1>5, <1>6

(* The goals a client can have, and the requests made for them, are requests. *)
LEMMA AsRequestType ==
  ASSUME NEW op \in Op \union {"Parse"}, NEW sql \in Sql, NEW rewritten \in BOOLEAN
  PROVE  /\ AsRequest(op, sql, rewritten) \in Request
         /\ AsRequest(op, sql, rewritten).op = op
         /\ AsRequest(op, sql, rewritten).sql = sql
         /\ AsRequest(op, sql, rewritten).rewritten = rewritten
BY DEF AsRequest, Request

(* An intact heap with a free block answers with one; without one, with NULL. *)
LEMMA MallocIntact ==
  ASSUME TypeOK, statics = "intact", NEW a \in MallocResults
  PROVE  /\ a \in Addr \union {Null}
         /\ a \in Addr => a \notin live
         /\ a = Null => Addr \ live = {}
BY ConstantsAssumption DEF TypeOK, MallocResults

LEMMA MallocType ==
  ASSUME TypeOK, NEW a \in MallocResults
  PROVE  a \in Addr \union {Null, Wild}
BY DEF TypeOK, MallocResults

(* One block in use leaves another free: an untrapped engine never sees NULL. *)
LEMMA RoomForOneMore ==
  ASSUME NEW p, live \subseteq {p}
  PROVE  Addr \ live # {}
BY RoomAssumption

LEMMA InitInvariant == Init => CallInvariant
<1> SUFFICES ASSUME Init PROVE CallInvariant
  OBVIOUS
<1> USE DEF Init
<1>1. TypeOK
  <2>1. built \in 0 .. NewSteps
    BY DEF NewSteps
  <2>2. deferred \in {<<>>, <<"request">>, <<"result", "request">>}
    OBVIOUS
  <2>3. mem \in [Addr \union {Null} -> Content]
    BY DEF Content
  <2>4. kept \in [Client -> Reply \union {None}]
    OBVIOUS
  <2> QED BY <2>1, <2>2, <2>3, <2>4 DEF TypeOK, Pointer, Outcome
<1>2. RuntimeReleased /\ OutcomeShape
  BY DEF RuntimeReleased, OutcomeShape
<1>3. CallShape
  BY DEF CallShape
<1>4. DeferredShape /\ FreesOwnBlock
  BY DeferredFacts DEF DeferredShape, FreesOwnBlock
<1>5. HeapExact
  BY DeferredFacts DEF HeapExact, PendingBlocks
<1>6. BlocksHoldSent /\ SentServesGoal
  BY ConstantsAssumption DEF BlocksHoldSent, SentServesGoal
<1> QED BY <1>1, <1>2, <1>3, <1>4, <1>5, <1>6 DEF CallInvariant

-----------------------------------------------------------------------------
(* Each of New's steps goes on to the next, ends with an engine, or closes and gives up. *)
LEMMA NewStepCases ==
  ASSUME NewStep
  PROVE  /\ phase = "building" /\ UNCHANGED <<heapVars, callVars, kept>>
         /\ \/ /\ built \in 0 .. 4 /\ built' = built + 1
               /\ phase' = "building" /\ open' = open
            \/ /\ built = 5 /\ built' = 6 /\ phase' = "ready" /\ open' = open
            \/ phase' = "absent" /\ built' = built /\ open' = open - 1
<1> USE DEF AtStep, GoOn, ReturnError, CloseRuntime
<1>1. CASE InstantiateWASI
  BY <1>1 DEF InstantiateWASI
<1>2. CASE CompileModule
  BY <1>2 DEF CompileModule
<1>3. CASE ExportEmscripten
  BY <1>3 DEF ExportEmscripten
<1>4. CASE InstantiateEnv
  BY <1>4 DEF InstantiateEnv
<1>5. CASE InstantiateModule
  BY <1>5 DEF InstantiateModule
<1>6. CASE RunInitModule
  BY <1>6 DEF RunInitModule
<1> QED BY <1>1, <1>2, <1>3, <1>4, <1>5, <1>6 DEF NewStep

(* NewRuntime, the steps of New and Close run while no call does. *)
LEMMA LifecycleInvariant ==
  ASSUME CallInvariant, NewRuntime \/ NewStep \/ Close
  PROVE  CallInvariant'
<1> USE DEF CallInvariant, callVars, heapVars
<1>1. CASE NewRuntime
  <2> USE <1>1 DEF NewRuntime
  <2>1. caller = None /\ pc = "idle" /\ deferred = <<>> /\ reqPtr = None /\ resPtr = None
    BY DEF CallShape, DeferredShape
  <2>2. TypeOK'
    <3>1. built' \in 0 .. NewSteps /\ live' \subseteq Addr
      BY DEF NewSteps
    <3>2. mem' \in [Addr \union {Null} -> Content]
      BY DEF Content
    <3>3. open' \in Nat
      BY DEF TypeOK
    <3> QED BY <3>1, <3>2, <3>3 DEF TypeOK
  <2>3. RuntimeReleased' /\ OutcomeShape' /\ CallShape'
    BY DEF RuntimeReleased, OutcomeShape, CallShape, NewSteps
  <2>4. DeferredShape' /\ FreesOwnBlock'
    BY <2>1, DeferredFacts DEF DeferredShape, FreesOwnBlock
  <2>5. HeapExact'
    BY <2>1, DeferredFacts DEF HeapExact, PendingBlocks
  <2>6. BlocksHoldSent' /\ SentServesGoal'
    BY <2>1, ConstantsAssumption
    DEF BlocksHoldSent, SentServesGoal, OutcomeShape, NeedsPreparse
  <2> QED BY <2>2, <2>3, <2>4, <2>5, <2>6
<1>2. CASE NewStep \/ Close
  <2>1. UNCHANGED <<heapVars, callVars, kept>>
    BY <1>2, NewStepCases DEF Close
  <2>2. TypeOK' /\ RuntimeReleased' /\ CallShape'
    <3>1. CASE NewStep
      <4>1. \/ /\ built \in 0 .. 4 /\ built' = built + 1
               /\ phase' = "building" /\ open' = open
            \/ /\ built = 5 /\ built' = 6 /\ phase' = "ready" /\ open' = open
            \/ phase' = "absent" /\ built' = built /\ open' = open - 1
        BY <3>1, NewStepCases
      <4>2. phase = "building" /\ open = 1
        BY <3>1, NewStepCases DEF RuntimeReleased
      <4>3. built' \in 0 .. NewSteps /\ open' \in Nat
        BY <4>1, <4>2 DEF TypeOK, NewSteps
      <4>4. RuntimeReleased'
        BY <4>1, <4>2 DEF RuntimeReleased
      <4>5. CallShape'
        BY <2>1, <4>1, <4>2 DEF CallShape, NewSteps
      <4> QED BY <2>1, <4>1, <4>3, <4>4, <4>5 DEF TypeOK
    <3>2. CASE Close
      <4>1. open' = 0 /\ phase' = "absent" /\ built' = built /\ caller = None
        BY <3>2 DEF Close, CloseRuntime, RuntimeReleased, TypeOK
      <4> QED BY <2>1, <4>1 DEF TypeOK, RuntimeReleased, CallShape
    <3> QED BY <1>2, <3>1, <3>2
  <2> USE <2>1
  <2>6. OutcomeShape'
    BY DEF OutcomeShape
  <2>3. DeferredShape' /\ FreesOwnBlock'
    BY DEF DeferredShape, FreesOwnBlock
  <2>4. HeapExact'
    BY DEF HeapExact, PendingBlocks
  <2>5. BlocksHoldSent' /\ SentServesGoal'
    BY DEF BlocksHoldSent, SentServesGoal, NeedsPreparse
  <2> QED BY <2>2, <2>3, <2>4, <2>5, <2>6
<1> QED BY <1>1, <1>2

LEMMA BeginInvariant ==
  ASSUME CallInvariant, NEW c \in Client, NEW g \in Goal, Begin(c, g)
  PROVE  CallInvariant'
<1> USE DEF CallInvariant, Begin, engineVars, heapVars
<1>1. /\ sent' \in Request /\ sent'.sql = g.sql /\ sent'.rewritten = FALSE
      /\ sent'.op = IF NeedsPreparse(g) THEN "Parse" ELSE g.op
  <2> DEFINE op == IF NeedsPreparse(g) THEN "Parse" ELSE g.op
  <2>1. op \in Op \union {"Parse"} /\ g.sql \in Sql
    BY DEF Goal
  <2>2. sent' = AsRequest(op, g.sql, FALSE)
    BY DEF Begin
  <2> HIDE DEF op, CallInvariant, Begin
  <2>3. /\ AsRequest(op, g.sql, FALSE) \in Request
        /\ AsRequest(op, g.sql, FALSE).op = op
        /\ AsRequest(op, g.sql, FALSE).sql = g.sql
        /\ AsRequest(op, g.sql, FALSE).rewritten = FALSE
    BY <2>1, AsRequestType
  <2> QED
    BY <2>2, <2>3 DEF op
<1>2. pc = "idle" /\ deferred = <<>> /\ reqPtr = None /\ resPtr = None
  BY DEF CallShape, DeferredShape
<1>3. TypeOK'
  BY <1>1 DEF TypeOK
<1>4. RuntimeReleased' /\ OutcomeShape' /\ CallShape'
  BY <1>1, <1>2, ConstantsAssumption DEF TypeOK, RuntimeReleased, OutcomeShape, CallShape
<1>5. DeferredShape' /\ FreesOwnBlock'
  BY <1>2, DeferredFacts DEF DeferredShape, FreesOwnBlock
<1>6. HeapExact'
  BY DEF HeapExact, PendingBlocks
<1>7. BlocksHoldSent'
  BY <1>2 DEF BlocksHoldSent, OutcomeShape
<1>8. SentServesGoal'
  BY <1>1 DEF SentServesGoal, NeedsPreparse
<1> QED BY <1>3, <1>4, <1>5, <1>6, <1>7, <1>8

LEMMA MarshalInvariant == CallInvariant /\ Marshal => CallInvariant'
<1> SUFFICES ASSUME CallInvariant, Marshal PROVE CallInvariant'
  OBVIOUS
<1> USE DEF CallInvariant, Marshal, Conclude, engineVars, heapVars
<1>1. caller # None /\ deferred = <<>> /\ reqPtr = None /\ resPtr = None
  BY DEF CallShape, DeferredShape
<1>2. TypeOK'
  BY DEF TypeOK, Outcome
<1>3. RuntimeReleased' /\ OutcomeShape' /\ CallShape' /\ SentServesGoal'
  BY <1>1 DEF RuntimeReleased, OutcomeShape, CallShape, SentServesGoal, NeedsPreparse
<1>4. DeferredShape' /\ FreesOwnBlock'
  BY <1>1, DeferredFacts DEF DeferredShape, FreesOwnBlock
<1>5. HeapExact'
  BY DEF HeapExact, PendingBlocks
<1>6. BlocksHoldSent'
  BY <1>1 DEF BlocksHoldSent, OutcomeShape
<1> QED BY <1>2, <1>3, <1>4, <1>5, <1>6

LEMMA MallocInvariant == CallInvariant /\ Malloc => CallInvariant'
<1> SUFFICES ASSUME CallInvariant, Malloc PROVE CallInvariant'
  OBVIOUS
<1> USE DEF CallInvariant, engineVars
<1>1. caller # None /\ deferred = <<>> /\ reqPtr = None /\ resPtr = None /\ outcome = "none"
  BY DEF Malloc, CallShape, DeferredShape, OutcomeShape
<1>2. RuntimeReleased' /\ OutcomeShape' /\ CallShape' /\ SentServesGoal'
  BY <1>1 DEF Malloc, Conclude, RuntimeReleased, OutcomeShape, CallShape, SentServesGoal, NeedsPreparse
<1>3. CASE statics = "overwritten" /\ Conclude("failure", None) /\ trapped' = TRUE
           /\ UNCHANGED <<reqPtr, live, deferred>>
  <2>1. TypeOK'
    BY <1>3 DEF Malloc, Conclude, TypeOK, Outcome
  <2>2. DeferredShape' /\ FreesOwnBlock'
    BY <1>1, <1>3, DeferredFacts DEF Malloc, Conclude, DeferredShape, FreesOwnBlock
  <2>3. HeapExact' /\ BlocksHoldSent'
    BY <1>3 DEF Malloc, HeapExact, PendingBlocks, BlocksHoldSent
  <2> QED BY <1>2, <2>1, <2>2, <2>3
<1>4. ASSUME NEW a \in MallocResults,
             reqPtr' = a, live' = live \union ({a} \intersect Addr), Defer("request"),
             pc' = "write", UNCHANGED <<outcome, answer, trapped>>
      PROVE  CallInvariant'
  <2> USE <1>4
  <2>1. deferred' = <<"request">>
    BY <1>1, DeferredFacts DEF Defer
  <2>2. a \in Addr \union {Null, Wild} /\ a # None
    BY MallocType, ConstantsAssumption
  <2>3. statics = "intact" => a \in Addr \union {Null} /\ a # Wild
    BY MallocIntact, ConstantsAssumption
  <2>4. TypeOK'
    BY <2>1, <2>2 DEF Malloc, TypeOK, Pointer
  <2>5. DeferredShape' /\ FreesOwnBlock'
    BY <1>1, <2>1, <2>2, <2>3, DeferredFacts DEF Malloc, DeferredShape, FreesOwnBlock
  <2>6. HeapExact'
    <3>1. /\ PendingBlocks = {} /\ PendingBlocks' = {a}
          /\ UNCHANGED <<statics, lost, trapped, resPtr>>
      BY <1>1, <2>1, DeferredFacts DEF Malloc, PendingBlocks
    <3>2. ASSUME statics = "intact"
          PROVE  live' = ({a} \intersect Addr) \union lost /\ {a} \intersect lost = {}
      <4>1. live = lost
        BY <3>1, <3>2 DEF HeapExact
      <4>2. a \notin lost
        BY <3>2, <4>1, MallocIntact, ConstantsAssumption DEF TypeOK
      <4> QED BY <4>1, <4>2
    <3>3. ASSUME ~trapped
          PROVE  statics = "intact" /\ lost = {} /\ a \in Addr
      <4>1. statics = "intact" /\ live = {} /\ lost = {}
        BY <3>1, <3>3 DEF HeapExact
      <4>2. a \in Addr
        BY <4>1, MallocIntact, RoomForOneMore
      <4> QED BY <4>1, <4>2
    <3> QED BY <1>1, <3>1, <3>2, <3>3 DEF HeapExact
  <2>7. BlocksHoldSent'
    BY <1>1, <2>3, ConstantsAssumption DEF Malloc, BlocksHoldSent
  <2> QED BY <1>2, <2>4, <2>5, <2>6, <2>7
<1> QED BY <1>3, <1>4 DEF Malloc

LEMMA WriteRequestInvariant == CallInvariant /\ WriteRequest => CallInvariant'
<1> SUFFICES ASSUME CallInvariant, WriteRequest PROVE CallInvariant'
  OBVIOUS
<1> USE DEF CallInvariant, WriteRequest, Conclude, engineVars
<1>1. /\ caller # None /\ sent \in Request
      /\ deferred = <<"request">> /\ reqPtr # None /\ resPtr = None /\ outcome = "none"
  BY DeferredFacts DEF CallShape, DeferredShape, OutcomeShape, TypeOK
<1>2. statics' \in {"intact", "overwritten"} /\ (statics' = "intact" => statics = "intact")
  BY DEF TypeOK, StaticsAfterStore
<1>3. reqPtr # Wild => reqPtr \in Addr \union {Null}
  BY <1>1 DEF TypeOK, Pointer
<1>4. TypeOK'
  <2>1. mem' \in [Addr \union {Null} -> Content]
    BY <1>1, <1>3 DEF TypeOK, Content, StoreRequest
  <2>2. lost' \subseteq Addr
    BY DEF LostWhileIntact, TypeOK
  <2> QED BY <1>2, <2>1, <2>2 DEF TypeOK, Outcome
<1>5. RuntimeReleased' /\ OutcomeShape' /\ CallShape' /\ SentServesGoal'
  BY <1>1 DEF RuntimeReleased, OutcomeShape, CallShape, SentServesGoal, NeedsPreparse
<1>6. DeferredShape' /\ FreesOwnBlock'
  BY <1>1, <1>2, DeferredFacts DEF DeferredShape, FreesOwnBlock
<1>7. HeapExact'
  <2>1. UNCHANGED <<live, trapped, reqPtr, resPtr, PendingBlocks>>
    BY DEF PendingBlocks
  <2>2. statics' = "intact" => statics = "intact" /\ lost' = lost
    BY <1>2 DEF LostWhileIntact
  <2>3. ~trapped => statics' = "intact"
    BY <1>1, ConstantsAssumption DEF HeapExact, StaticsAfterStore
  <2> QED BY <2>1, <2>2, <2>3 DEF HeapExact
<1>8. BlocksHoldSent'
  BY <1>1, <1>2, <1>3 DEF BlocksHoldSent, StoreRequest, TypeOK
<1> QED BY <1>4, <1>5, <1>6, <1>7, <1>8

LEMMA ExportReturnsInvariant == CallInvariant /\ ExportReturns => CallInvariant'
<1> SUFFICES ASSUME CallInvariant, ExportReturns PROVE CallInvariant'
  OBVIOUS
<1> USE DEF CallInvariant, engineVars
<1>1. /\ caller # None /\ sent \in Request /\ deferred = <<"request">>
      /\ reqPtr \in Addr \union {Null} /\ resPtr = None /\ outcome = "none"
  BY DeferredFacts
  DEF ExportReturns, CallShape, DeferredShape, OutcomeShape, TypeOK, Pointer
<1>2. deferred' = <<"result", "request">>
  BY <1>1, DeferredFacts DEF ExportReturns, Defer
<1>3. PICK a \in MallocResults :
        /\ resPtr' = a
        /\ live' = live \union ({a} \intersect Addr)
        /\ \/ /\ a # Wild
              /\ \E f \in FramesFor(mem[reqPtr]) : mem' = [mem EXCEPT ![a] = f]
           \/ /\ statics = "overwritten"
              /\ UNCHANGED mem
        /\ statics' \in StaticsAfterStore(a)
  BY DEF ExportReturns
<1>4. a \in Addr \union {Null, Wild} /\ a # None
  BY MallocType, ConstantsAssumption
<1>5. statics' \in {"intact", "overwritten"} /\ (statics' = "intact" => statics = "intact")
  BY <1>3 DEF TypeOK, StaticsAfterStore
<1>6. ASSUME statics = "intact"
      PROVE  a \in Addr \union {Null} /\ a # Wild /\ (a \in Addr => a \notin live)
  BY <1>6, MallocIntact, ConstantsAssumption
<1>7. TypeOK'
  <2>1. \A f \in FramesFor(mem[reqPtr]) : f \in Content
    BY DEF FramesFor, Content, Frame
  <2>2. mem' \in [Addr \union {Null} -> Content]
    BY <1>3, <1>4, <2>1 DEF TypeOK
  <2>3. lost' \subseteq Addr
    BY DEF ExportReturns, LostWhileIntact, TypeOK
  <2> QED BY <1>2, <1>3, <1>4, <1>5, <2>2, <2>3 DEF ExportReturns, TypeOK, Pointer
<1>8. RuntimeReleased' /\ OutcomeShape' /\ CallShape' /\ SentServesGoal'
  BY <1>1 DEF ExportReturns, RuntimeReleased, OutcomeShape, CallShape, SentServesGoal, NeedsPreparse
<1>9. DeferredShape'
  BY <1>1, <1>2, <1>3, <1>4, ConstantsAssumption, DeferredFacts DEF ExportReturns, DeferredShape
<1>10. FreesOwnBlock'
  <2> SUFFICES ASSUME statics = "intact"
               PROVE  /\ reqPtr \in live' \union {Null}
                      /\ a \in live' \union {Null}
                      /\ a = reqPtr => a = Null
    BY <1>2, <1>3, <1>5, DeferredFacts DEF ExportReturns, FreesOwnBlock
  <2>1. reqPtr \in live \union {Null}
    BY <1>1, DeferredFacts DEF FreesOwnBlock
  <2>2. a \in live' \union {Null}
    BY <1>3, <1>6
  <2>3. reqPtr \in live' \union {Null}
    BY <1>3, <2>1
  <2>4. a = reqPtr => a = Null
    BY <1>6, <2>1
  <2> QED BY <2>2, <2>3, <2>4
<1>11. HeapExact'
  <2>1. /\ PendingBlocks = {reqPtr} /\ PendingBlocks' = {reqPtr, a}
        /\ UNCHANGED <<trapped, reqPtr>>
    BY <1>1, <1>2, <1>3, DeferredFacts DEF ExportReturns, PendingBlocks
  <2>2. ASSUME statics' = "intact"
        PROVE  /\ live' = (PendingBlocks' \intersect Addr) \union lost'
               /\ PendingBlocks' \intersect lost' = {}
    <3>1. /\ statics = "intact" /\ lost' = lost
          /\ live = ({reqPtr} \intersect Addr) \union lost /\ {reqPtr} \intersect lost = {}
      BY <1>5, <2>1, <2>2 DEF ExportReturns, LostWhileIntact, HeapExact
    <3>2. a \notin lost
      BY <3>1, <1>6, ConstantsAssumption DEF TypeOK
    <3> QED BY <1>3, <2>1, <3>1, <3>2
  <2>3. ASSUME ~trapped
        PROVE  statics' = "intact" /\ lost' = {} /\ a \in Addr /\ reqPtr \in Addr
    <3>1. statics = "intact" /\ lost = {} /\ reqPtr \in Addr /\ live = {reqPtr}
      BY <1>1, <2>1, <2>3 DEF HeapExact, DeferredShape
    <3>2. a \in Addr
      BY <3>1, <1>6, MallocIntact, RoomForOneMore
    <3>3. statics' = "intact"
      BY <1>3, <3>1, <3>2, ConstantsAssumption DEF StaticsAfterStore
    <3> QED BY <3>1, <3>2, <3>3 DEF ExportReturns, LostWhileIntact
  <2> QED BY <1>3, <2>1, <2>2, <2>3 DEF HeapExact
<1>12. BlocksHoldSent'
  <2> SUFFICES ASSUME statics = "intact"
               PROVE  /\ reqPtr # Wild /\ a # Wild
                      /\ mem'[a] \in [tag : {"proto", "error"}, of : {sent}]
    BY <1>1, <1>3, <1>5 DEF ExportReturns, BlocksHoldSent
  <2>1. reqPtr # Wild /\ mem[reqPtr] = sent
    BY DEF ExportReturns, BlocksHoldSent
  <2>2. PICK f \in FramesFor(sent) : mem' = [mem EXCEPT ![a] = f]
    BY <1>3, <2>1
  <2>3. f \in [tag : {"proto", "error"}, of : {sent}]
    BY <1>1 DEF FramesFor
  <2>4. a \in DOMAIN mem
    BY <1>6 DEF TypeOK
  <2>5. mem'[a] = f
    BY <2>2, <2>4
  <2>6. mem'[a] \in [tag : {"proto", "error"}, of : {sent}]
    BY <2>3, <2>5
  <2> QED BY <1>6, <2>1, <2>6
<1> QED BY <1>7, <1>8, <1>9, <1>10, <1>11, <1>12

LEMMA ExportTrapsInvariant == CallInvariant /\ ExportTraps => CallInvariant'
<1> SUFFICES ASSUME CallInvariant, ExportTraps PROVE CallInvariant'
  OBVIOUS
<1> USE DEF CallInvariant, ExportTraps, Conclude, engineVars
<1>1. caller # None /\ deferred = <<"request">> /\ reqPtr # None /\ resPtr = None
  BY DEF CallShape, DeferredShape
<1>2. TypeOK'
  BY DEF TypeOK, Outcome, LostWhileIntact
<1>3. RuntimeReleased' /\ OutcomeShape' /\ CallShape' /\ SentServesGoal'
  BY <1>1 DEF RuntimeReleased, OutcomeShape, CallShape, SentServesGoal, NeedsPreparse
<1>4. DeferredShape' /\ FreesOwnBlock'
  BY <1>1, DeferredFacts DEF DeferredShape, FreesOwnBlock
<1>5. HeapExact'
  <2>1. PICK held \in SUBSET (Addr \ live) :
          live' = live \union held /\ LostWhileIntact(lost \union held)
    OBVIOUS
  <2>2. UNCHANGED PendingBlocks /\ PendingBlocks = {reqPtr}
    BY <1>1, DeferredFacts DEF PendingBlocks
  <2>3. ASSUME statics = "intact"
        PROVE  /\ live' = ({reqPtr} \intersect Addr) \union lost'
               /\ {reqPtr} \intersect lost' = {}
    <3>1. /\ live = ({reqPtr} \intersect Addr) \union lost /\ {reqPtr} \intersect lost = {}
          /\ lost' = lost \union held
      BY <2>1, <2>2, <2>3 DEF HeapExact, LostWhileIntact
    <3>2. reqPtr \notin held
      BY <3>1
    <3> QED BY <2>1, <3>1, <3>2
  <2> QED BY <2>2, <2>3 DEF HeapExact
<1>6. BlocksHoldSent'
  BY DEF BlocksHoldSent
<1> QED BY <1>2, <1>3, <1>4, <1>5, <1>6

LEMMA ReadAndDecodeInvariant == CallInvariant /\ ReadAndDecode => CallInvariant'
<1> SUFFICES ASSUME CallInvariant, ReadAndDecode PROVE CallInvariant'
  OBVIOUS
<1> USE DEF CallInvariant, ReadAndDecode, Conclude, engineVars, heapVars
<1>1. caller # None /\ deferred = <<"result", "request">> /\ reqPtr # None /\ resPtr # None
  BY DeferredFacts DEF CallShape, DeferredShape
<1>2. TypeOK'
  <2>1. outcome' \in Outcome /\ answer' \in Request \union {Junk, None}
    BY DEF TypeOK, Outcome, Frame
  <2> QED BY <2>1 DEF TypeOK
<1>3. RuntimeReleased' /\ OutcomeShape' /\ CallShape' /\ SentServesGoal'
  <2>1. outcome' \in {"ok", "sqlError"} => answer' # None
    BY ConstantsAssumption DEF Frame, TypeOK
  <2> QED
    BY <1>1, <2>1 DEF RuntimeReleased, OutcomeShape, CallShape, SentServesGoal, NeedsPreparse
<1>4. DeferredShape' /\ FreesOwnBlock' /\ HeapExact'
  BY <1>1, DeferredFacts DEF DeferredShape, FreesOwnBlock, HeapExact, PendingBlocks
<1>5. BlocksHoldSent'
  BY DEF BlocksHoldSent
<1> QED BY <1>2, <1>3, <1>4, <1>5

(* One deferred free runs: the block it takes back is the one named last. *)
LEMMA RunDeferredInvariant == CallInvariant /\ RunDeferred => CallInvariant'
<1> SUFFICES ASSUME CallInvariant, RunDeferred PROVE CallInvariant'
  OBVIOUS
<1> USE DEF CallInvariant, engineVars
<1>1. /\ pc = "unwind" /\ pc' = "unwind" /\ caller # None
      /\ UNCHANGED <<engineVars, kept, caller, goal, sent, reqPtr, resPtr, outcome, answer>>
      /\ deferred \in {<<"request">>, <<"result", "request">>}
      /\ reqPtr # None
  BY DEF RunDeferred, CallShape, DeferredShape, TypeOK
<1>2. RuntimeReleased' /\ OutcomeShape' /\ CallShape' /\ SentServesGoal'
  BY <1>1 DEF RuntimeReleased, OutcomeShape, CallShape, SentServesGoal, NeedsPreparse
<1>3. BlocksHoldSent'
  BY <1>1 DEF RunDeferred, Free, heapVars, TypeOK, BlocksHoldSent
<1>4. deferred' \in {<<>>, <<"request">>}
  BY <1>1, DeferredFacts DEF RunDeferred
<1>5. DeferredShape'
  BY <1>1, <1>4, DeferredFacts DEF DeferredShape
<1>6. TypeOK'
  <2>1. /\ live' \subseteq Addr /\ mem' \in [Addr \union {Null} -> Content]
        /\ statics' \in {"intact", "overwritten"} /\ trapped' \in BOOLEAN
        /\ lost' \subseteq Addr
    BY DEF RunDeferred, Free, TypeOK, heapVars, Content, LostWhileIntact
  <2> QED BY <1>1, <1>4, <2>1 DEF TypeOK
<1>7. CASE deferred = <<"result", "request">>
  <2>1. DeferredBlock = resPtr /\ deferred' = <<"request">>
    BY <1>7, DeferredFacts DEF RunDeferred, DeferredBlock
  <2>2. Free(resPtr)
    BY <2>1 DEF RunDeferred
  <2>3. FreesOwnBlock'
    <3> SUFFICES ASSUME statics' = "intact" PROVE reqPtr \in live' \union {Null}
      BY <1>1, <2>1, DeferredFacts DEF FreesOwnBlock
    <3>1. statics = "intact"
      BY <2>2 DEF Free, heapVars, TypeOK
    <3>2. /\ reqPtr \in live \union {Null}
          /\ resPtr \in live \union {Null}
          /\ resPtr = reqPtr => resPtr = Null
      BY <1>7, <3>1, DeferredFacts DEF FreesOwnBlock
    <3> QED BY <2>2, <3>2 DEF Free, heapVars
  <2>4. HeapExact'
    <3>1. PendingBlocks = {reqPtr, resPtr} /\ PendingBlocks' = {reqPtr}
      BY <1>1, <1>7, <2>1, DeferredFacts DEF PendingBlocks
    <3>2. ASSUME statics' = "intact"
          PROVE  /\ live' = ({reqPtr} \intersect Addr) \union lost'
                 /\ {reqPtr} \intersect lost' = {}
      <4>1. statics = "intact" /\ lost' = lost
        BY <2>2, <3>2 DEF Free, heapVars, TypeOK, LostWhileIntact
      <4>2. /\ live = ({reqPtr, resPtr} \intersect Addr) \union lost
            /\ {reqPtr, resPtr} \intersect lost = {}
        BY <3>1, <4>1 DEF HeapExact
      <4>3. /\ resPtr \in live \union {Null}
            /\ resPtr = reqPtr => resPtr = Null
        BY <1>7, <4>1, DeferredFacts DEF FreesOwnBlock
      <4>4. Null \notin Addr
        BY ConstantsAssumption
      <4>5. live' = live \ {resPtr}
        BY <2>2, <4>2, <4>3, <4>4 DEF Free, heapVars, TypeOK
      <4> QED BY <4>1, <4>2, <4>3, <4>4, <4>5
    <3>3. ASSUME ~trapped'
          PROVE  /\ statics' = "intact" /\ lost' = {}
                 /\ reqPtr \in Addr \union {None} /\ resPtr \in Addr \union {None}
      BY <2>2, <3>3 DEF Free, heapVars, HeapExact
    <3> QED BY <1>1, <3>1, <3>2, <3>3 DEF HeapExact
  <2> QED BY <1>2, <1>3, <1>5, <1>6, <2>3, <2>4
<1>8. CASE deferred = <<"request">>
  <2>1. DeferredBlock = reqPtr /\ deferred' = <<>>
    BY <1>8, DeferredFacts DEF RunDeferred, DeferredBlock
  <2>2. Free(reqPtr)
    BY <2>1 DEF RunDeferred
  <2>3. FreesOwnBlock'
    BY <2>1, DeferredFacts DEF FreesOwnBlock
  <2>4. HeapExact'
    <3>1. PendingBlocks = {reqPtr} /\ PendingBlocks' = {}
      BY <1>1, <1>8, <2>1, DeferredFacts DEF PendingBlocks
    <3>2. ASSUME statics' = "intact"
          PROVE  live' = lost'
      <4>1. statics = "intact" /\ lost' = lost
        BY <2>2, <3>2 DEF Free, heapVars, TypeOK, LostWhileIntact
      <4>2. /\ live = ({reqPtr} \intersect Addr) \union lost
            /\ {reqPtr} \intersect lost = {}
        BY <3>1, <4>1 DEF HeapExact
      <4>3. reqPtr \in live \union {Null} /\ Null \notin Addr
        BY <1>8, <4>1, DeferredFacts, ConstantsAssumption DEF FreesOwnBlock
      <4>4. live' = live \ {reqPtr}
        BY <2>2, <4>2, <4>3 DEF Free, heapVars, TypeOK
      <4> QED BY <4>1, <4>2, <4>4
    <3>3. ASSUME ~trapped'
          PROVE  /\ statics' = "intact" /\ lost' = {}
                 /\ reqPtr \in Addr \union {None} /\ resPtr \in Addr \union {None}
      BY <2>2, <3>3 DEF Free, heapVars, HeapExact
    <3> QED BY <1>1, <3>1, <3>2, <3>3 DEF HeapExact
  <2> QED BY <1>2, <1>3, <1>5, <1>6, <2>3, <2>4
<1> QED BY <1>1, <1>7, <1>8

LEMMA PreparseDoneInvariant == CallInvariant /\ PreparseDone => CallInvariant'
<1> SUFFICES ASSUME CallInvariant, PreparseDone PROVE CallInvariant'
  OBVIOUS
<1> USE DEF CallInvariant, PreparseDone, ForgetExchange, engineVars, heapVars
<1>1. /\ caller # None /\ goal \in Goal /\ deferred = <<>> /\ NeedsPreparse(goal)
      /\ goal.op \in Op /\ goal.sql \in Sql
  BY DEF CallShape, TypeOK, Goal, ExchangeDone, Preparsing, SentServesGoal
<1>2. PICK rewritten \in BOOLEAN : sent' = AsRequest(goal.op, goal.sql, rewritten)
  BY DEF AfterPreparse, AnalyzeRequests
<1>3. /\ sent' \in Request /\ sent'.op = goal.op /\ sent'.sql = goal.sql
  BY <1>1, <1>2, AsRequestType
<1>4. TypeOK'
  BY <1>3 DEF TypeOK, Pointer, Outcome
<1>5. RuntimeReleased' /\ OutcomeShape' /\ CallShape'
  BY <1>1, <1>3, ConstantsAssumption DEF RuntimeReleased, OutcomeShape, CallShape
<1>6. SentServesGoal'
  BY <1>1, <1>3 DEF SentServesGoal, NeedsPreparse
<1>7. DeferredShape' /\ FreesOwnBlock'
  BY <1>1, DeferredFacts DEF DeferredShape, FreesOwnBlock
<1>8. HeapExact'
  BY <1>1, DeferredFacts DEF HeapExact, PendingBlocks
<1>9. BlocksHoldSent'
  BY ConstantsAssumption DEF BlocksHoldSent
<1> QED BY <1>4, <1>5, <1>6, <1>7, <1>8, <1>9

(* The reply a returning call leaves with its client. *)
LEMMA ReturnReply ==
  ASSUME CallInvariant, Return
  PROVE  \E o \in {"ok", "sqlError", "failure", "castError"} :
           /\ kept' = [kept EXCEPT ![caller] = [goal |-> goal, outcome |-> o,
                          about |-> IF o # "failure" THEN answer ELSE None]]
           /\ o # "failure" => outcome \in {"ok", "sqlError"}
<1> USE DEF CallInvariant
<1>1. PICK o \in FinalOutcomes :
        kept' = [kept EXCEPT ![caller] = [goal |-> goal, outcome |-> o,
                   about |-> IF o \in {"ok", "sqlError", "castError"} THEN answer ELSE None]]
  BY DEF Return
<1>2. outcome \in {"ok", "sqlError", "failure"}
  BY DEF Return, ExchangeDone, OutcomeShape, TypeOK, Outcome
<1>3. o \in {"ok", "sqlError", "failure", "castError"}
  BY <1>2 DEF FinalOutcomes
<1>4. o # "failure" => outcome \in {"ok", "sqlError"}
  BY <1>2 DEF FinalOutcomes
<1> QED BY <1>1, <1>3, <1>4

LEMMA ReturnInvariant == CallInvariant /\ Return => CallInvariant'
<1> SUFFICES ASSUME CallInvariant, Return PROVE CallInvariant'
  OBVIOUS
<1> USE DEF CallInvariant, Return, ForgetExchange, engineVars, heapVars
<1>1. caller \in Client /\ goal \in Goal /\ deferred = <<>>
  BY DEF CallShape, TypeOK, ExchangeDone, OutcomeShape
<1>2. TypeOK'
  <2>1. kept' \in [Client -> Reply \union {None}]
    <3>1. PICK o \in {"ok", "sqlError", "failure", "castError"} :
            kept' = [kept EXCEPT ![caller] = [goal |-> goal, outcome |-> o,
                       about |-> IF o # "failure" THEN answer ELSE None]]
      BY ReturnReply
    <3>2. [goal |-> goal, outcome |-> o,
           about |-> IF o # "failure" THEN answer ELSE None] \in Reply
      BY <1>1 DEF Reply, TypeOK
    <3> QED BY <3>1, <3>2 DEF TypeOK
  <2> QED BY <2>1 DEF TypeOK, Pointer, Outcome
<1>3. RuntimeReleased' /\ OutcomeShape' /\ CallShape' /\ SentServesGoal'
  BY ConstantsAssumption DEF RuntimeReleased, OutcomeShape, CallShape, SentServesGoal
<1>4. DeferredShape' /\ FreesOwnBlock'
  BY <1>1, DeferredFacts DEF DeferredShape, FreesOwnBlock
<1>5. HeapExact'
  BY <1>1, DeferredFacts DEF HeapExact, PendingBlocks
<1>6. BlocksHoldSent'
  BY ConstantsAssumption DEF BlocksHoldSent
<1> QED BY <1>2, <1>3, <1>4, <1>5, <1>6

LEMMA NextInvariant == CallInvariant /\ [Next]_vars => CallInvariant'
<1> SUFFICES ASSUME CallInvariant, [Next]_vars PROVE CallInvariant'
  OBVIOUS
<1>1. CASE NewRuntime \/ NewStep \/ Close
  BY <1>1, LifecycleInvariant
<1>2. CASE \E c \in Client, g \in Goal : Begin(c, g)
  BY <1>2, BeginInvariant
<1>3. CASE CallStep
  BY <1>3, MarshalInvariant, MallocInvariant, WriteRequestInvariant, ExportReturnsInvariant,
     ExportTrapsInvariant, ReadAndDecodeInvariant, RunDeferredInvariant,
     PreparseDoneInvariant, ReturnInvariant
  DEF CallStep
<1>4. CASE UNCHANGED vars
  BY <1>4
  DEF vars, engineVars, heapVars, callVars, CallInvariant, TypeOK, RuntimeReleased, CallShape,
      DeferredShape, OutcomeShape, FreesOwnBlock, HeapExact, PendingBlocks, BlocksHoldSent,
      SentServesGoal, NeedsPreparse
<1> QED BY <1>1, <1>2, <1>3, <1>4 DEF Next

-----------------------------------------------------------------------------
(* CallInvariant holds throughout every behaviour of the engine. *)
THEOREM CallInvariantHolds == Spec => []CallInvariant
<1> QED BY InitInvariant, NextInvariant, PTL DEF Spec

(* Every variable keeps its type. *)
THEOREM TypeCorrect == Spec => []TypeOK
<1>1. CallInvariant => TypeOK
  BY DEF CallInvariant
<1> QED BY <1>1, CallInvariantHolds, PTL

(* Whichever of New's six steps fails, in whichever attempt, no runtime stays *)
(* open that nobody can close.                                                *)
THEOREM RuntimeClosed == Spec => []RuntimeReleased
<1>1. CallInvariant => RuntimeReleased
  BY DEF CallInvariant
<1> QED BY <1>1, CallInvariantHolds, PTL

(* Between calls the heap holds only what traps left in their exports, for any heap size. *)
THEOREM NoLeak == Spec => []NothingLeaked
<1>1. CallInvariant => NothingLeaked
  BY DeferredFacts
  DEF CallInvariant, NothingLeaked, HeapExact, PendingBlocks, CallShape, DeferredShape
<1> QED BY <1>1, CallInvariantHolds, PTL

(* While the C++ data is intact each deferred free takes back a block of its own call. *)
THEOREM NoBadFree == Spec => []FreesOwnBlock
<1>1. CallInvariant => FreesOwnBlock
  BY DEF CallInvariant
<1> QED BY <1>1, CallInvariantHolds, PTL

(* malloc answers NULL, and the C++ data can be overwritten, only after a trap. *)
THEOREM NullNeedsTrap == Spec => []NullOnlyAfterTrap
<1>1. CallInvariant => NullOnlyAfterTrap
  BY ConstantsAssumption DEF CallInvariant, NullOnlyAfterTrap, HeapExact
<1> QED BY <1>1, CallInvariantHolds, PTL

(* A verdict given while the C++ data is intact is about the request it answers. *)
LEMMA ReturnIsHonest ==
  ASSUME CallInvariant, Return, statics = "intact", outcome \in {"ok", "sqlError"}
  PROVE  Honest(goal, answer)
<1>1. answer = sent /\ sent \in Request /\ caller # None
  BY DEF CallInvariant, BlocksHoldSent, TypeOK, Return, ExchangeDone, OutcomeShape, CallShape
<1>2. sent.op = goal.op
  BY <1>1 DEF CallInvariant, SentServesGoal, Return, Preparsing, NeedsPreparse
<1> QED BY <1>1, <1>2 DEF CallInvariant, SentServesGoal, Honest

(* Clients are only ever told about what they asked. *)
THEOREM AnswersAreHonest == Spec => AnswersOwnRequest
<1> DEFINE Step == \A c \in Client :
             /\ kept'[c] # kept[c] /\ statics = "intact"
             /\ kept'[c].outcome # "failure"
             => Honest(kept'[c].goal, kept'[c].about)
<1>1. CallInvariant /\ [Next]_vars => [Step]_vars
  <2> SUFFICES ASSUME CallInvariant, Next,
                      NEW c \in Client, kept'[c] # kept[c], statics = "intact",
                      kept'[c].outcome # "failure"
               PROVE  Honest(kept'[c].goal, kept'[c].about)
    OBVIOUS
  <2>1. Return
    BY NewStepCases
    DEF Next, CallStep, NewRuntime, Close, Begin, Marshal, Malloc, WriteRequest,
           ExportReturns, ExportTraps, ReadAndDecode, RunDeferred, PreparseDone
  <2>2. PICK o \in {"ok", "sqlError", "failure", "castError"} :
          /\ kept' = [kept EXCEPT ![caller] = [goal |-> goal, outcome |-> o,
                         about |-> IF o # "failure" THEN answer ELSE None]]
          /\ o # "failure" => outcome \in {"ok", "sqlError"}
    BY <2>1, ReturnReply
  <2>3. kept \in [Client -> Reply \union {None}]
    BY DEF CallInvariant, TypeOK
  <2>4. c = caller
    BY <2>2, <2>3
  <2>5. kept'[c] = [goal |-> goal, outcome |-> o,
                    about |-> IF o # "failure" THEN answer ELSE None]
    BY <2>2, <2>3, <2>4
  <2>6. kept'[c].goal = goal /\ kept'[c].about = answer /\ outcome \in {"ok", "sqlError"}
    BY <2>2, <2>5
  <2> QED BY <2>1, <2>6, ReturnIsHonest
<1> QED BY <1>1, CallInvariantHolds, PTL DEF Spec, AnswersOwnRequest

-----------------------------------------------------------------------------
(***************************************************************************)
(* EngineCall implements EngineSpec: every step is an abstract step or     *)
(* leaves the abstract state alone.                                        *)
(***************************************************************************)
LEMMA PromiseInit == Init => Promise!Init
BY ConstantsAssumption DEF Init, Promise!Init

(* The abstract state seen by a step that touches neither the engine nor the callers. *)
LEMMA QuietStep ==
  ASSUME UNCHANGED <<phase, trapped, statics, caller, goal, kept>>
  PROVE  UNCHANGED Promise!vars
BY DEF Promise!vars

(* While a call runs, some client has asked. *)
LEMMA SomeoneAsks ==
  ASSUME CallInvariant, caller # None
  PROVE  /\ caller \in Client /\ goal # None
         /\ \E c \in Client : [d \in Client |-> IF d = caller THEN goal ELSE None][c] # None
BY DEF CallInvariant, TypeOK, CallShape

(* Overwritten data means a trap happened first. *)
LEMMA OverwrittenAfterTrap ==
  ASSUME CallInvariant
  PROVE  /\ statics = "overwritten" => trapped
         /\ reqPtr = Null \/ resPtr = Null => trapped
BY ConstantsAssumption DEF CallInvariant, HeapExact

(***************************************************************************)
(* A step of the running call that does not return it: at most it traps,   *)
(* or overwrites the C++ data of an engine that has trapped.               *)
(***************************************************************************)
LEMMA CallStepSimulates ==
  ASSUME CallInvariant, caller # None,
         UNCHANGED <<phase, caller, goal, kept>>,
         \/ UNCHANGED statics /\ trapped' \in {trapped, TRUE}
         \/ trapped /\ UNCHANGED trapped /\ statics' = "overwritten"
  PROVE  [Promise!Next]_(Promise!vars)
<1>1. phase = "ready" /\ \E c \in Client : [d \in Client |-> IF d = caller THEN goal ELSE None][c] # None
  BY SomeoneAsks DEF CallInvariant, CallShape
<1>2. CASE UNCHANGED statics /\ trapped' = trapped
  BY <1>2, QuietStep
<1>3. CASE UNCHANGED statics /\ trapped' = TRUE
  <2>1. Promise!Trap
    BY <1>1, <1>3 DEF Promise!Trap
  <2> QED BY <2>1 DEF Promise!Next
<1>4. CASE trapped /\ UNCHANGED trapped /\ statics' = "overwritten"
  <2>1. Promise!LoseSoundness
    BY <1>1, <1>4 DEF Promise!LoseSoundness
  <2> QED BY <2>1 DEF Promise!Next
<1> QED BY <1>2, <1>3, <1>4

LEMMA LifecycleSimulates ==
  ASSUME CallInvariant, NewRuntime \/ NewStep \/ Close
  PROVE  [Promise!Next]_(Promise!vars)
<1> USE DEF CallInvariant, callVars, heapVars
<1>1. CASE NewRuntime
  BY <1>1 DEF NewRuntime, Promise!vars
<1>2. CASE NewStep
  <2>1. /\ phase = "building" /\ ~trapped /\ statics = "intact"
        /\ phase' \in {"building", "ready", "absent"}
        /\ UNCHANGED <<heapVars, callVars, kept>>
    BY <1>2, NewStepCases DEF CallShape, HeapExact
  <2>2. CASE phase' = "ready"
    <3>1. Promise!Open
      BY <1>2, <2>1, <2>2 DEF Promise!Open
    <3> QED BY <3>1 DEF Promise!Next
  <2>3. CASE phase' # "ready"
    BY <2>1, <2>3 DEF Promise!vars
  <2> QED BY <2>1, <2>2, <2>3
<1>3. CASE Close
  <2>1. \A c \in Client : [d \in Client |-> IF d = caller THEN goal ELSE None][c] = None
    BY <1>3 DEF Close, CallShape
  <2>2. Promise!Close
    BY <1>3, <2>1 DEF Close, Promise!Close
  <2> QED BY <2>2 DEF Promise!Next
<1> QED BY <1>1, <1>2, <1>3

LEMMA BeginSimulates ==
  ASSUME CallInvariant, NEW c \in Client, NEW g \in Goal, Begin(c, g)
  PROVE  Promise!Next
<1>1. \A d \in Client : [e \in Client |-> IF e = caller THEN goal ELSE None][d] = None
  BY DEF Begin, CallInvariant, CallShape
<1>2. [e \in Client |-> IF e = caller' THEN goal' ELSE None]
      = [[e \in Client |-> IF e = caller THEN goal ELSE None] EXCEPT ![c] = g]
  BY <1>1 DEF Begin
<1>3. Promise!Ask(c, g)
  BY <1>1, <1>2 DEF Begin, Promise!Ask, engineVars, heapVars
<1> QED BY <1>3 DEF Promise!Next

LEMMA ReturnSimulates ==
  ASSUME CallInvariant, Return
  PROVE  Promise!Next
<1>1. caller \in Client /\ caller # None /\ goal # None /\ phase = "ready"
  BY DEF CallInvariant, CallShape, TypeOK, Return, ExchangeDone
<1> DEFINE Asked == [d \in Client |-> IF d = caller THEN goal ELSE None]
<1>2. Asked[caller] = goal
  BY <1>1
<1>3. [d \in Client |-> IF d = caller' THEN goal' ELSE None] = [Asked EXCEPT ![caller] = None]
  BY <1>1 DEF Return
<1>4. PICK o \in {"ok", "sqlError", "failure", "castError"} :
        /\ kept' = [kept EXCEPT ![caller] = [goal |-> goal, outcome |-> o,
                       about |-> IF o # "failure" THEN answer ELSE None]]
        /\ o # "failure" => outcome \in {"ok", "sqlError"}
  BY ReturnReply
<1>5. \/ \E v \in Promise!Verdict, a \in Request \union {Junk} :
           /\ (phase = "ready" => statics = "intact") => Honest(goal, a)
           /\ kept' = [kept EXCEPT ![caller] = [goal |-> goal, outcome |-> v, about |-> a]]
      \/ kept' = [kept EXCEPT ![caller] =
                    [goal |-> goal, outcome |-> "failure", about |-> None]]
  <2>1. CASE o = "failure"
    BY <1>4, <2>1
  <2>2. CASE o # "failure"
    <3>1. o \in Promise!Verdict
      BY <2>2 DEF Promise!Verdict
    <3>2. kept' = [kept EXCEPT ![caller] = [goal |-> goal, outcome |-> o, about |-> answer]]
      BY <1>4, <2>2
    <3>3. answer \in Request \union {Junk}
      BY <1>4, <2>2 DEF CallInvariant, OutcomeShape, TypeOK
    <3>4. statics = "intact" => Honest(goal, answer)
      BY <1>4, <2>2, ReturnIsHonest
    <3> QED BY <1>1, <3>1, <3>2, <3>3, <3>4
  <2> QED BY <2>1, <2>2
<1>6. PICK c \in Client : c = caller
  BY <1>1
<1>7. Promise!Reply(c)
  BY <1>1, <1>2, <1>3, <1>5, <1>6 DEF Return, Promise!Reply, engineVars, heapVars
<1> QED BY <1>7 DEF Promise!Next

LEMMA StepSimulates == CallInvariant /\ [Next]_vars => [Promise!Next]_(Promise!vars)
<1> SUFFICES ASSUME CallInvariant, [Next]_vars PROVE [Promise!Next]_(Promise!vars)
  OBVIOUS
<1>1. CASE NewRuntime \/ NewStep \/ Close
  BY <1>1, LifecycleSimulates
<1>2. CASE \E c \in Client, g \in Goal : Begin(c, g)
  BY <1>2, BeginSimulates
<1>3. CASE Return
  BY <1>3, ReturnSimulates
<1>4. CASE Marshal \/ ReadAndDecode \/ PreparseDone
  <2>1. UNCHANGED <<phase, trapped, statics, caller, goal, kept>>
    BY <1>4 DEF Marshal, ReadAndDecode, PreparseDone, engineVars, heapVars
  <2> QED BY <2>1, QuietStep
<1>5. CASE Malloc \/ WriteRequest \/ ExportReturns \/ ExportTraps \/ RunDeferred
  <2>1. caller # None /\ UNCHANGED <<phase, caller, goal, kept>>
    BY <1>5 DEF CallInvariant, CallShape, Malloc, WriteRequest, ExportReturns, ExportTraps,
                RunDeferred, engineVars
  <2>2. CASE Malloc \/ ExportTraps
    <3>1. UNCHANGED statics /\ trapped' \in {trapped, TRUE}
      BY <2>2 DEF Malloc, ExportTraps
    <3> QED BY <2>1, <3>1, CallStepSimulates
  <2>3. CASE WriteRequest \/ ExportReturns
    <3>1. UNCHANGED trapped /\ (UNCHANGED statics \/ (trapped /\ statics' = "overwritten"))
      <4>1. CASE WriteRequest
        BY <4>1, OverwrittenAfterTrap DEF WriteRequest, StaticsAfterStore
      <4>2. CASE ExportReturns
        <5>1. PICK a \in MallocResults : statics' \in StaticsAfterStore(a) /\ resPtr' = a
          BY <4>2 DEF ExportReturns
        <5>2. a = Null => trapped
          <6> SUFFICES ASSUME a = Null, ~trapped PROVE FALSE
            OBVIOUS
          <6>1. HeapExact'
            BY <4>2, ExportReturnsInvariant DEF CallInvariant
          <6>2. trapped' = trapped
            BY <4>2 DEF ExportReturns
          <6> QED BY <5>1, <6>1, <6>2, ConstantsAssumption DEF HeapExact
        <5> QED BY <4>2, <5>1, <5>2 DEF ExportReturns, StaticsAfterStore
      <4> QED BY <2>3, <4>1, <4>2
    <3> QED BY <2>1, <3>1, CallStepSimulates
  <2>4. CASE RunDeferred
    <3>1. Free(DeferredBlock)
      BY <2>4 DEF RunDeferred
    <3>2. \/ UNCHANGED statics /\ trapped' \in {trapped, TRUE}
          \/ trapped /\ UNCHANGED trapped /\ statics' = "overwritten"
      <4>1. CASE statics = "overwritten"
        BY <3>1, <4>1 DEF Free, heapVars
      <4>2. CASE statics = "intact"
        <5>1. DeferredBlock \in live \union {Null}
          BY <2>4, <4>2, DeferredFacts
          DEF RunDeferred, DeferredBlock, CallInvariant, TypeOK, FreesOwnBlock
        <5> QED BY <3>1, <5>1 DEF Free, heapVars
      <4> QED BY <4>1, <4>2 DEF CallInvariant, TypeOK
    <3> QED BY <2>1, <3>2, CallStepSimulates
  <2> QED BY <1>5, <2>2, <2>3, <2>4
<1>6. CASE UNCHANGED vars
  BY <1>6, QuietStep DEF vars, engineVars, heapVars, callVars
<1> QED BY <1>1, <1>2, <1>3, <1>4, <1>5, <1>6 DEF Next, CallStep

(* The safety part of EngineSpec holds of every engine. *)
THEOREM ImplementsPromise == Spec => PromiseSafety
<1> QED BY PromiseInit, CallInvariantHolds, StepSimulates, PTL DEF Spec, PromiseSafety
=============================================================================
