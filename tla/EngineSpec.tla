----------------------------- MODULE EngineSpec -----------------------------
(***************************************************************************)
(* What an Engine promises its callers, without memory, blocks or frames:  *)
(* a call is answered once, to the caller that made it, and as long as the *)
(* engine is sound the answer is about that caller's request.  Soundness   *)
(* can only be lost while a call is running in an engine that has already  *)
(* trapped.  EngineCall implements this module.                            *)
(***************************************************************************)
CONSTANTS
  Client,          \* the callers
  Goal,            \* what a caller can ask
  Answer,          \* what a reply can be about
  Honest(_, _),    \* Honest(g, a): answer a is about goal g
  None

VARIABLES
  up,        \* an engine exists and is not closed
  trapped,   \* one of its exports has trapped
  sound,     \* its memory can be trusted
  asked,     \* asked[c]: the goal of c's running call, or None
  kept       \* kept[c]: the reply of c's last call, or None

vars == <<up, trapped, sound, asked, kept>>

Verdict == {"ok", "sqlError", "castError"}

Init ==
  /\ up = FALSE /\ trapped = FALSE /\ sound = TRUE
  /\ asked = [c \in Client |-> None]
  /\ kept = [c \in Client |-> None]

Open ==
  /\ ~up
  /\ up' = TRUE
  /\ UNCHANGED <<trapped, sound, asked, kept>>

(* Closing waits for the caller, and forgets how the engine fared. *)
Close ==
  /\ up /\ \A c \in Client : asked[c] = None
  /\ up' = FALSE /\ trapped' = FALSE /\ sound' = TRUE
  /\ UNCHANGED <<asked, kept>>

Ask(c, g) ==
  /\ up /\ \A d \in Client : asked[d] = None
  /\ asked' = [asked EXCEPT ![c] = g]
  /\ UNCHANGED <<up, trapped, sound, kept>>

Trap ==
  /\ \E c \in Client : asked[c] # None
  /\ trapped' = TRUE
  /\ UNCHANGED <<up, sound, asked, kept>>

LoseSoundness ==
  /\ trapped /\ \E c \in Client : asked[c] # None
  /\ sound' = FALSE
  /\ UNCHANGED <<up, trapped, asked, kept>>

(* A reply either gives a verdict, about the request when the engine is sound, or admits failure. *)
Reply(c) ==
  /\ asked[c] # None
  /\ \/ \E v \in Verdict, a \in Answer :
          /\ sound => Honest(asked[c], a)
          /\ kept' = [kept EXCEPT ![c] = [goal |-> asked[c], outcome |-> v, about |-> a]]
     \/ kept' = [kept EXCEPT ![c] = [goal |-> asked[c], outcome |-> "failure", about |-> None]]
  /\ asked' = [asked EXCEPT ![c] = None]
  /\ UNCHANGED <<up, trapped, sound>>

Next ==
  \/ Open \/ Close \/ Trap \/ LoseSoundness
  \/ \E c \in Client : Reply(c) \/ \E g \in Goal : Ask(c, g)

Spec == Init /\ [][Next]_vars /\ \A c \in Client : WF_vars(Reply(c))
=============================================================================
