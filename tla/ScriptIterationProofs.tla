------------------------ MODULE ScriptIterationProofs ------------------------
(***************************************************************************)
(* Proofs about ScriptIteration, for any set of callers and any inputs:    *)
(* its type invariant, that no statement is skipped or handed over twice,  *)
(* and that a loop which ends without an error has read everything.        *)
(***************************************************************************)
EXTENDS ScriptIteration, TLAPS

(* What FinishedMeansAll rests on: "more" is false only at the end of the input. *)
EndsAtEnd == last.error = "none" /\ ~last.more => pos = Len(input)

ScriptInv == TypeOK /\ Accounted /\ EndsAtEnd

-----------------------------------------------------------------------------
(* The statement of a response is the one at the position, and the resume  *)
(* position leaves only white space between it and the statement.          *)
StatementAt(resp, p) ==
  /\ resp.stmt = p + 1
  /\ resp.stmt \in Statements
  /\ resp.resume \in p + 1 .. Len(input)
  /\ \A i \in p + 2 .. resp.resume : i \notin Statements

LEMMA InputLength ==
  ASSUME input \in Scripts
  PROVE  Len(input) \in Nat /\ input \in Seq(Kind)
BY ScriptsAssumption, SMT

(* BridgeParseNext answers with the statement at the position, or with none. *)
LEMMA ParseResponses ==
  ASSUME input \in Scripts, NEW p \in Nat, NEW resp \in BridgeParseNext(p) \union {Broken},
         resp.kind = "statement"
  PROVE  StatementAt(resp, p)
<1>1. p < Len(input) /\ input[p + 1] \in Parsed
  BY DEF BridgeParseNext, Responses, Refused, Broken
<1>2. PICK q \in ResumeAfter(p + 1) : resp = Statement(p + 1, q)
  BY <1>1 DEF BridgeParseNext, Responses, Refused, Broken
<1>3. resp.stmt = p + 1 /\ resp.resume = q
  BY <1>2 DEF Statement
<1>4. p + 1 \in Statements
  BY <1>1, InputLength DEF Parsed, Statements
<1>5. q \in p + 1 .. Len(input) /\ \A i \in p + 2 .. q : i \notin Statements
  BY <1>1, InputLength DEF ResumeAfter, Statements
<1> QED
  BY <1>3, <1>4, <1>5 DEF StatementAt

(* BridgeAnalyzeNext likewise: what resolves also parses. *)
LEMMA AnalyzeResponses ==
  ASSUME input \in Scripts, NEW p \in Nat, NEW resp \in BridgeAnalyzeNext(p) \union {Broken},
         resp.kind = "statement"
  PROVE  StatementAt(resp, p)
<1>1. resp \in BridgeParseNext(p) \union {Broken}
  BY DEF BridgeAnalyzeNext, BridgeParseNext, Responses, Resolved, Refused, Broken
<1> QED
  BY <1>1, ParseResponses

(* Appending a statement behind all those handed over so far. *)
LEMMA HandOver ==
  ASSUME NEW S, NEW s \in Seq(S), NEW i \in S
  PROVE  /\ Append(s, i) \in Seq(S)
         /\ Len(Append(s, i)) = Len(s) + 1
         /\ \A j \in 1 .. Len(s) : Append(s, i)[j] = s[j]
         /\ Append(s, i)[Len(s) + 1] = i
         /\ {Append(s, i)[j] : j \in 1 .. Len(Append(s, i))}
              = {s[j] : j \in 1 .. Len(s)} \union {i}
<1>1. /\ Append(s, i) \in Seq(S)
      /\ Len(s) \in Nat
      /\ Len(Append(s, i)) = Len(s) + 1
      /\ \A j \in 1 .. Len(s) : Append(s, i)[j] = s[j]
      /\ Append(s, i)[Len(s) + 1] = i
  BY SMT
<1> QED
  BY <1>1, SMT

-----------------------------------------------------------------------------
LEMMA InitScript == Init => ScriptInv
<1> SUFFICES ASSUME Init PROVE ScriptInv
  OBVIOUS
<1> USE DEF Init, NoCallYet
<1>1. TypeOK
  BY InputLength DEF TypeOK, Errors
<1>2. Accounted
  BY DEF Accounted, HandedOver
<1> QED
  BY <1>1, <1>2 DEF ScriptInv, EndsAtEnd

(* What a call leaves when it returns an error before the location moves. *)
LEMMA FailingCall ==
  ASSUME ScriptInv, NEW resp, CallFails(resp), UNCHANGED input
  PROVE  /\ pos' = pos /\ delivered' = delivered /\ lost' = lost
         /\ last' \in [error : Errors, more : BOOLEAN]
         /\ last'.error # "none" /\ ~last'.more
BY DEF CallFails, Fail, Errors

(* A call that advances hands its statement over or loses it. *)
Advances(resp) ==
  /\ StatementAt(resp, pos)
  /\ Advance(resp)
  /\ \/ lost' = lost \union {resp.stmt} /\ Fail("go")
     \/ Deliver(resp.stmt)

(* Either way the statement is accounted for exactly once. *)
LEMMA AdvancingCall ==
  ASSUME ScriptInv, NEW resp, Advances(resp), input' = input
  PROVE  /\ pos' \in 0 .. Len(input)
         /\ delivered' \in Seq(Statements)
         /\ lost' \subseteq Statements
         /\ last' \in [error : Errors, more : BOOLEAN]
         /\ Accounted'
         /\ EndsAtEnd'
<1> DEFINE i == resp.stmt
<1>1. Len(input) \in Nat /\ pos \in 0 .. Len(input) /\ delivered \in Seq(Statements)
      /\ lost \subseteq Statements
  BY InputLength DEF ScriptInv, TypeOK
<1>2. i = pos + 1 /\ i \in Statements /\ pos' = resp.resume
      /\ pos' \in pos + 1 .. Len(input)
  BY DEF Advances, StatementAt, Advance
<1>3. Statements' = Statements
  BY DEF Statements
<1>4. Statements \intersect 1 .. pos' = (Statements \intersect 1 .. pos) \union {i}
  BY <1>1, <1>2 DEF Advances, StatementAt
<1>5. i \notin HandedOver \union lost
  BY <1>1, <1>2 DEF ScriptInv, Accounted
<1>6. CASE lost' = lost \union {i} /\ Fail("go")
  <2>1. lost' = lost \union {i} /\ delivered' = delivered
        /\ last' = [error |-> "go", more |-> FALSE]
    BY <1>6 DEF Fail
  <2>2. HandedOver' = HandedOver
    BY <2>1 DEF HandedOver
  <2>3. Accounted'
    BY <2>1, <2>2, <1>3, <1>4, <1>5 DEF ScriptInv, Accounted
  <2> QED
    BY <2>1, <2>3, <1>1, <1>2 DEF EndsAtEnd, Errors
<1>7. CASE Deliver(i)
  <2>1. delivered' = Append(delivered, i) /\ lost' = lost
        /\ last' = [error |-> "none", more |-> pos' < Len(input')]
    BY <1>7 DEF Deliver, More
  <2>2. delivered' \in Seq(Statements) /\ HandedOver' = HandedOver \union {i}
    BY <2>1, <1>1, <1>2, HandOver DEF HandedOver
  <2>3. \A j \in 1 .. Len(delivered) : delivered[j] \in 1 .. pos
    BY DEF ScriptInv, Accounted, HandedOver
  <2>4. \A j, k \in 1 .. Len(delivered') : j < k => delivered'[j] < delivered'[k]
    <3>1. Len(delivered) \in Nat /\ Len(delivered') = Len(delivered) + 1
          /\ \A j \in 1 .. Len(delivered) : delivered'[j] = delivered[j]
          /\ delivered'[Len(delivered) + 1] = i
      BY <2>1, <1>1, <1>2, HandOver
    <3>2. \A j, k \in 1 .. Len(delivered) : j < k => delivered[j] < delivered[k]
      BY DEF ScriptInv, Accounted
    <3> SUFFICES ASSUME NEW j \in 1 .. Len(delivered'), NEW k \in 1 .. Len(delivered'), j < k
                 PROVE  delivered'[j] < delivered'[k]
      OBVIOUS
    <3>3. j \in 1 .. Len(delivered) /\ delivered'[j] = delivered[j]
      BY <3>1
    <3>4. CASE k = Len(delivered) + 1
      <4>1. delivered[j] \in 1 .. pos /\ delivered'[k] = pos + 1
        BY <3>1, <3>3, <3>4, <2>3, <1>2
      <4> QED
        BY <4>1, <3>3, <1>1
    <3>5. CASE k \in 1 .. Len(delivered)
      BY <3>1, <3>2, <3>3, <3>5
    <3> QED
      BY <3>1, <3>4, <3>5
  <2>5. Accounted'
    BY <2>1, <2>2, <2>4, <1>3, <1>4, <1>5 DEF ScriptInv, Accounted
  <2>6. EndsAtEnd'
    <3>1. CASE pos' < Len(input')
      <4>1. (pos' < Len(input')) = TRUE
        BY <3>1
      <4>2. last' = [error |-> "none", more |-> TRUE]
        BY <2>1, <4>1, Zenon
      <4> QED
        BY <4>2 DEF EndsAtEnd
    <3>2. CASE ~(pos' < Len(input'))
      BY <3>2, <1>1, <1>2 DEF EndsAtEnd
    <3> QED
      BY <3>1, <3>2
  <2> QED
    BY <2>1, <2>2, <2>5, <2>6, <1>1, <1>2 DEF Errors
<1> QED
  BY <1>6, <1>7 DEF Advances

(* Each iteration of a loop, whatever method it calls. *)
LEMMA IterateStep ==
  ASSUME ScriptInv, NEW c \in Client, Iterate(c)
  PROVE  ScriptInv'
<1>1. input' = input /\ loop[c] \in Methods
  BY DEF Iterate, ScriptInv, TypeOK
<1>2. loop' \in [Client -> Methods \union {"none"}]
  BY DEF Iterate, ScriptInv, TypeOK
<1>3. PICK resp : CallFails(resp) \/ Advances(resp)
  <2>1. input \in Scripts /\ pos \in Nat
    BY InputLength DEF ScriptInv, TypeOK
  <2>2. CASE ParseNext
    <3>1. PICK resp \in BridgeParseNext(pos) \union {Broken} :
            \/ CallFails(resp)
            \/ CallAdvances(resp, FALSE)
      BY <2>2 DEF ParseNext
    <3>2. CallAdvances(resp, FALSE) => Advances(resp)
      BY <3>1, <2>1, ParseResponses DEF CallAdvances, Advances
    <3> QED
      BY <3>1, <3>2
  <2>3. ASSUME NEW strict, AnalyzeNext(strict)
        PROVE  \E resp : CallFails(resp) \/ Advances(resp)
    <3>1. PICK resp \in BridgeAnalyzeNext(pos) \union {Broken} :
            \/ CallFails(resp)
            \/ CallAdvances(resp, strict /\ input[resp.stmt] = "badcast")
      BY <2>3 DEF AnalyzeNext
    <3>2. CallFails(resp) \/ Advances(resp)
      BY <3>1, <2>1, AnalyzeResponses DEF CallAdvances, Advances
    <3> QED
      BY <3>2
  <2> QED
    BY <2>2, <2>3 DEF Iterate, Call
<1>4. CASE CallFails(resp)
  <2>1. /\ pos' = pos /\ delivered' = delivered /\ lost' = lost
        /\ last' \in [error : Errors, more : BOOLEAN]
        /\ last'.error # "none"
    BY <1>4, <1>1, FailingCall
  <2>2. TypeOK'
    BY <2>1, <1>1, <1>2 DEF ScriptInv, TypeOK, Statements
  <2>3. Accounted'
    BY <2>1, <1>1 DEF ScriptInv, Accounted, HandedOver, Statements
  <2> QED
    BY <2>1, <2>2, <2>3 DEF ScriptInv, EndsAtEnd
<1>5. CASE Advances(resp)
  <2>1. /\ pos' \in 0 .. Len(input) /\ delivered' \in Seq(Statements)
        /\ lost' \subseteq Statements /\ last' \in [error : Errors, more : BOOLEAN]
        /\ Accounted' /\ EndsAtEnd'
    BY <1>5, <1>1, AdvancingCall
  <2>2. TypeOK'
    BY <2>1, <1>1, <1>2 DEF ScriptInv, TypeOK, Statements
  <2> QED
    BY <2>1, <2>2 DEF ScriptInv
<1> QED
  BY <1>3, <1>4, <1>5

LEMMA ScriptStep == ScriptInv /\ [Next]_vars => ScriptInv'
<1> SUFFICES ASSUME ScriptInv, [Next]_vars PROVE ScriptInv'
  OBVIOUS
<1>1. ASSUME NEW c \in Client, Iterate(c) PROVE ScriptInv'
  BY <1>1, IterateStep
<1>2. ASSUME NEW c \in Client, NEW m \in Methods, StartLoop(c, m) PROVE ScriptInv'
  BY <1>2 DEF StartLoop, ScriptInv, TypeOK, Accounted, EndsAtEnd, HandedOver, Statements
<1>3. CASE Reset
  <2>1. TypeOK'
    BY <1>3, InputLength DEF Reset, NoCallYet, ScriptInv, TypeOK, Statements, Errors
  <2>2. Accounted'
    BY <1>3 DEF Reset, Accounted, HandedOver
  <2> QED
    BY <1>3, <2>1, <2>2 DEF Reset, NoCallYet, ScriptInv, EndsAtEnd
<1>4. CASE UNCHANGED vars
  BY <1>4 DEF vars, ScriptInv, TypeOK, Accounted, EndsAtEnd, HandedOver, Statements
<1> QED
  BY <1>1, <1>2, <1>3, <1>4 DEF Next

LEMMA ScriptInvariant == Spec => []ScriptInv
BY InitScript, ScriptStep, PTL DEF Spec

-----------------------------------------------------------------------------
(* The state of a location and of the loops over it stays well-formed. *)
THEOREM ScriptTypeCorrect == Spec => []TypeOK
<1>1. ScriptInv => TypeOK
  BY DEF ScriptInv
<1> QED
  BY <1>1, ScriptInvariant, PTL

(* Every statement before the position was handed over once, in order, or  *)
(* reported lost, for any callers sharing a location on any script.        *)
THEOREM EveryStatementAccounted == Spec => []Accounted
<1>1. ScriptInv => Accounted
  BY DEF ScriptInv
<1> QED
  BY <1>1, ScriptInvariant, PTL

(* A call without an error that says nothing is left tells the truth: the  *)
(* whole script has been handed over or reported.                          *)
THEOREM FinishedReadsAll == Spec => []FinishedMeansAll
<1>1. ScriptInv => FinishedMeansAll
  <2> SUFFICES ASSUME ScriptInv, last.error = "none", ~last.more
               PROVE  HandedOver \union lost = Statements
    BY DEF FinishedMeansAll
  <2>1. HandedOver \union lost = Statements \intersect 1 .. Len(input)
    BY DEF ScriptInv, EndsAtEnd, Accounted
  <2> QED
    BY <2>1 DEF Statements
<1> QED
  BY <1>1, ScriptInvariant, PTL
=============================================================================
