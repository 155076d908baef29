-------------------------- MODULE ScriptIteration ---------------------------
(***************************************************************************)
(* Reading a multi-statement script through one ParseResumeLocation with   *)
(* Engine.ParseNext and Engine.AnalyzeNext.  Callers run the documented    *)
(* loop: call repeatedly with the same location until the second result is *)
(* false.  Calls on an engine do not overlap, so each is one step; several *)
(* callers may share a location and take turns.                            *)
(*                                                                         *)
(* Byte positions count statements: position p is the end of the p-th unit *)
(* of the input.  A statement is reduced to what the two sides of the      *)
(* bridge make of it.                                                      *)
(***************************************************************************)
EXTENDS Integers, Sequences

CONSTANTS
  Client,   \* the callers
  Scripts   \* the inputs a location may be created for

(***************************************************************************)
(* "plain" is accepted by everything.  "badcast" holds a CAST of a string  *)
(* literal that is no INT64; "block" is a script construct, which only the *)
(* parser accepts; "semantic" parses but does not resolve; "syntax" does   *)
(* not parse.                                                              *)
(* "blank" is white space or a comment after the last semicolon.           *)
(***************************************************************************)
Kind == {"plain", "badcast", "block", "semantic", "syntax", "blank"}

ASSUME ScriptsAssumption ==
  \A s \in Scripts :
    /\ s \in Seq(Kind)
    /\ \A i \in 1 .. Len(s) : s[i] = "blank" => i = Len(s)

VARIABLES
  input,      \* ParseResumeLocation.Input
  pos,        \* ParseResumeLocation.BytePosition
  delivered,  \* the statements handed to callers since the last Reset, in order
  lost,       \* the statements passed over by a call that returned an error
  loop,       \* loop[c]: the method c is looping with, or "none"
  last        \* the last ParseNext or AnalyzeNext since the last Reset: its error and its "more"

vars == <<input, pos, delivered, lost, loop, last>>

Methods == {"ParseNext", "AnalyzeNext", "AnalyzeNextStrict"}
Errors  == {"none", "sql", "engine", "go"}

NoCallYet == [error |-> "none", more |-> TRUE]

Init ==
  /\ input \in Scripts
  /\ pos = 0 /\ delivered = <<>> /\ lost = {}
  /\ loop = [c \in Client |-> "none"]
  /\ last = NoCallYet

-----------------------------------------------------------------------------
(* The bridge. *)

Parsed   == Kind \ {"syntax", "blank"}
Resolved == Parsed \ {"semantic", "block"}

(* A statement and the position behind it; an error frame; a failed exchange. *)
Statement(i, p) == [kind |-> "statement", stmt |-> i, resume |-> p]
Refused         == [kind |-> "refused", stmt |-> 0, resume |-> 0]
Broken          == [kind |-> "broken", stmt |-> 0, resume |-> 0]

(* Behind the last semicolon the parser may stop, or go on through white space. *)
ResumeAfter(i) ==
  {i} \union {j \in {i + 1} : j <= Len(input) /\ input[j] = "blank"}

(* ParseNextScriptStatement at position p, then whatever has to accept the statement. *)
Responses(p, accepted) ==
  IF p < Len(input) /\ input[p + 1] \in accepted
  THEN {Statement(p + 1, q) : q \in ResumeAfter(p + 1)}
  ELSE {Refused}

BridgeParseNext(p)   == Responses(p, Parsed)
BridgeAnalyzeNext(p) == Responses(p, Resolved)

-----------------------------------------------------------------------------
(* The Go side. *)

(* Fault: every response is taken for one without a resume position. *)
AdvanceToEnd(resp) == pos' = Len(input)

(* Fault: the resume position is taken for a distance. *)
AdvanceBy(resp) == pos' = pos + resp.resume

Advance(resp) == pos' = resp.resume

(* Fault: off by one. *)
MoreButOne(p) == p + 1 < Len(input)

More(p) == p < Len(input)

(* Fault: "more" is computed before the error is looked at. *)
FailAskingForMore(e) ==
  /\ last' = [error |-> e, more |-> More(pos')]
  /\ UNCHANGED delivered

Fail(e) ==
  /\ last' = [error |-> e, more |-> FALSE]
  /\ UNCHANGED delivered

Deliver(i) ==
  /\ delivered' = Append(delivered, i)
  /\ last' = [error |-> "none", more |-> More(pos')]
  /\ UNCHANGED lost

(* An error found before the location is updated leaves it where it was. *)
CallFails(resp) ==
  /\ resp.kind # "statement"
  /\ UNCHANGED <<pos, lost>>
  /\ Fail(IF resp.kind = "refused" THEN "sql" ELSE "engine")

(***************************************************************************)
(* ParseNext and AnalyzeNext update the location as soon as the response   *)
(* is decoded.  Converting the trees to Go objects, which may fail on any  *)
(* of them, and the strict cast gate come after, and their errors leave    *)
(* the location behind the statement.                                      *)
(***************************************************************************)
CallAdvances(resp, refusedByGate) ==
  /\ resp.kind = "statement"
  /\ Advance(resp)
  /\ \/ /\ lost' = lost \union {resp.stmt}
        /\ Fail("go")
     \/ /\ ~refusedByGate
        /\ Deliver(resp.stmt)

ParseNext ==
  \E resp \in BridgeParseNext(pos) \union {Broken} :
    \/ CallFails(resp)
    \/ CallAdvances(resp, FALSE)

AnalyzeNext(strict) ==
  \E resp \in BridgeAnalyzeNext(pos) \union {Broken} :
    \/ CallFails(resp)
    \/ CallAdvances(resp, strict /\ input[resp.stmt] = "badcast")

Call(m) ==
  \/ m = "ParseNext" /\ ParseNext
  \/ m = "AnalyzeNext" /\ AnalyzeNext(FALSE)
  \/ m = "AnalyzeNextStrict" /\ AnalyzeNext(TRUE)

(* A loop starts wherever the location is now. *)
StartLoop(c, m) ==
  /\ loop[c] = "none"
  /\ loop' = [loop EXCEPT ![c] = m]
  /\ UNCHANGED <<input, pos, delivered, lost, last>>

(* One round of the documented loop; it ends when the call says false. *)
Iterate(c) ==
  /\ loop[c] # "none"
  /\ Call(loop[c])
  /\ loop' = [loop EXCEPT ![c] = IF last'.more THEN @ ELSE "none"]
  /\ UNCHANGED input

(* Anyone who holds the location may rewind it, in the middle of loops too. *)
Reset ==
  /\ pos' = 0 /\ delivered' = <<>> /\ lost' = {}
  /\ last' = NoCallYet
  /\ UNCHANGED <<input, loop>>

Next ==
  \/ \E c \in Client : Iterate(c)
  \/ \E c \in Client, m \in Methods : StartLoop(c, m)
  \/ Reset

(* A caller in the middle of its loop goes on calling. *)
Fairness == \A c \in Client : WF_vars(Iterate(c))

Spec == Init /\ [][Next]_vars /\ Fairness

-----------------------------------------------------------------------------
Statements == {i \in 1 .. Len(input) : input[i] # "blank"}

TypeOK ==
  /\ input \in Scripts
  /\ pos \in 0 .. Len(input)
  /\ delivered \in Seq(Statements)
  /\ lost \subseteq Statements
  /\ loop \in [Client -> Methods \union {"none"}]
  /\ last \in [error : Errors, more : BOOLEAN]

HandedOver == {delivered[j] : j \in 1 .. Len(delivered)}

(***************************************************************************)
(* Since the last Reset, every statement before the position was handed to *)
(* some caller exactly once and in the script's order, or was lost to a    *)
(* call that returned an error, never both; none was skipped in silence,   *)
(* whichever methods and callers shared the location.                      *)
(***************************************************************************)
Accounted ==
  /\ \A j, k \in 1 .. Len(delivered) : j < k => delivered[j] < delivered[k]
  /\ HandedOver \intersect lost = {}
  /\ HandedOver \union lost = Statements \intersect 1 .. pos

(***************************************************************************)
(* When a call that returned no error says that nothing is left, every     *)
(* statement of the input has been handed over or reported by an error:    *)
(* the loop that ParseNext and AnalyzeNext document reads the whole script. *)
(***************************************************************************)
FinishedMeansAll ==
  last.error = "none" /\ ~last.more => HandedOver \union lost = Statements

(***************************************************************************)
(* Every loop over a location ends, unless the location is rewound again   *)
(* and again: each call moves the position or says false, also when the    *)
(* same statement is refused on every attempt.                             *)
(***************************************************************************)
LoopEnds ==
  <>[][pos <= pos']_vars => \A c \in Client : loop[c] # "none" ~> loop[c] = "none"
=============================================================================
