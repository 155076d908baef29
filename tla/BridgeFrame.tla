----------------------------- MODULE BridgeFrame -----------------------------
(***************************************************************************)
(* The byte layout of an answer in WASM memory.  bridge.cc packs an error, *)
(* one serialized proto, or the pair that analysis returns into a block    *)
(* that starts with its size; engine.go reads the size, then the data, and *)
(* decides from the bytes alone what it has been told.  EngineCall models  *)
(* the protocol around this exchange and takes the answer as a whole.      *)
(***************************************************************************)
EXTENDS Integers, Sequences

CONSTANTS
  Text,     \* the error messages, as bytes
  Proto,    \* the serialized protos
  Beyond,   \* what may follow the block in memory
  Trash     \* what the block may hold once something else has written over it

Byte == 0 .. 255
Bytes == Seq(Byte)

(* "Error: ", seven bytes. *)
ErrorPrefix == <<69, 114, 114, 111, 114, 58, 32>>

(***************************************************************************)
(* Both ends of the exchange and the block are in memory together, so no   *)
(* message comes near 2 GB.  A Status has a text.  The first byte of a     *)
(* proto is a field tag; these messages have length-delimited and varint   *)
(* fields only, and 'E' is the tag of a fixed-width one.                   *)
(***************************************************************************)
MaxLen == 1073741824

ASSUME TextAssumption ==
  \A t \in Text : t \in Bytes /\ Len(t) \in 1 .. MaxLen

ASSUME ProtoAssumption ==
  \A p \in Proto : p \in Bytes /\ Len(p) <= MaxLen /\ (Len(p) > 0 => p[1] # 69)

ASSUME MemoryAssumption ==
  /\ \A b \in Beyond : b \in Bytes
  /\ \A b \in Trash : b \in Bytes

VARIABLES
  stage,    \* "idle", "packed", "read" or "done"
  said,     \* the answer the bridge packed
  sound,    \* FALSE once the block has been written over
  block,    \* how many bytes the bridge asked malloc for
  memory,   \* WASM memory from the block on
  data,     \* dataBytes
  heard     \* what the Go side made of it

vars == <<stage, said, sound, block, memory, data, heard>>

(* Answers: an error text, one proto, or a parsed and a resolved tree. *)
Error(t)       == [kind |-> "error", first |-> t, second |-> <<>>]
Single(p)      == [kind |-> "proto", first |-> p, second |-> <<>>]
Pair(p, r)     == [kind |-> "pair", first |-> p, second |-> r]
Other(k)       == [kind |-> k, first |-> <<>>, second |-> <<>>]

Nothing    == Other("nothing")
Unreadable == Other("unreadable")  \* the bytes are outside WASM memory
Truncated  == Other("truncated")   \* splitAnalyzePayload returns an error
Panic      == Other("panic")       \* a slice out of range

Init ==
  /\ stage = "idle" /\ sound = TRUE
  /\ said = Nothing /\ heard = Nothing
  /\ block = 0 /\ memory = <<>> /\ data = <<>>

-----------------------------------------------------------------------------
(* bridge.cc *)

(* memcpy of a uint32_t: little endian. *)
Word(n) == <<n % 256, (n \div 256) % 256, (n \div 65536) % 256, (n \div 16777216) % 256>>

(* Fault: the terminating NUL is counted. *)
PackErrorWithNul(t) == Word(8 + Len(t)) \o ErrorPrefix \o t \o <<0>>

PackError(t) == Word(7 + Len(t)) \o ErrorPrefix \o t \o <<0>>

PackProto(p) == Word(Len(p)) \o p

PackPair(p, r) == Word(8 + Len(p) + Len(r)) \o Word(Len(p)) \o p \o Word(Len(r)) \o r

Packed(answer) ==
  CASE answer.kind = "error" -> PackError(answer.first)
    [] answer.kind = "proto" -> PackProto(answer.first)
    [] answer.kind = "pair"  -> PackPair(answer.first, answer.second)

(* Fault: no room for the NUL that the copy of an error takes along. *)
AllocatedWithoutNul(answer) ==
  CASE answer.kind = "error" -> 4 + (7 + Len(answer.first))
    [] answer.kind = "proto" -> 4 + Len(answer.first)
    [] answer.kind = "pair"  -> 4 + (8 + Len(answer.first) + Len(answer.second))

(* What each helper asks malloc for; it is worked out before the bytes are put together. *)
Allocated(answer) ==
  CASE answer.kind = "error" -> 4 + (7 + Len(answer.first)) + 1
    [] answer.kind = "proto" -> 4 + Len(answer.first)
    [] answer.kind = "pair"  -> 4 + (8 + Len(answer.first) + Len(answer.second))

Pack(answer) ==
  /\ stage = "idle"
  /\ stage' = "packed" /\ said' = answer /\ sound' = TRUE
  /\ block' = Allocated(answer)
  /\ \E b \in Beyond : memory' = Packed(answer) \o b
  /\ UNCHANGED <<data, heard>>

(* After a trap the allocator's and the stack's blocks may overlap this one. *)
Clobber ==
  /\ stage = "packed" /\ sound
  /\ sound' = FALSE
  /\ memory' \in Trash
  /\ UNCHANGED <<stage, said, block, data, heard>>

-----------------------------------------------------------------------------
(* engine.go *)

Take(s, n) == SubSeq(s, 1, n)
Drop(s, n) == SubSeq(s, n + 1, Len(s))

(* binary.LittleEndian.Uint32 *)
Uint32(s) == s[1] + 256 * s[2] + 65536 * s[3] + 16777216 * s[4]

(* Two reads: the size, then the data. *)
Read ==
  /\ stage = "packed"
  /\ IF Len(memory) >= 4 /\ Uint32(memory) <= Len(memory) - 4
     THEN data' = Take(Drop(memory, 4), Uint32(memory)) /\ stage' = "read" /\ UNCHANGED heard
     ELSE heard' = Unreadable /\ stage' = "done" /\ UNCHANGED data
  /\ UNCHANGED <<said, sound, block, memory>>

(* The text of an error frame, or nothing. *)
ParseResultMessage(d) ==
  IF Len(d) > 7 /\ Take(d, 7) = ErrorPrefix THEN Drop(d, 7) ELSE <<>>

(* s[:n] and s[n:] of Go. *)
Sections(s, n) == IF n <= Len(s) THEN <<Take(s, n), Drop(s, n)>> ELSE <<>>

(* Fault: the length of the section is not compared with what is left. *)
NoSectionGuard(rest) == Len(rest) < 4

(* A section is cut short when its size, or as many bytes, are missing. *)
CutShort(rest) == Len(rest) < 4 \/ Len(rest) - 4 < Uint32(rest)

splitAnalyzePayload(d) ==
  IF CutShort(d) THEN Truncated
  ELSE LET parsed == Sections(Drop(d, 4), Uint32(d)) IN
       IF parsed = <<>> THEN Panic
       ELSE IF CutShort(parsed[2]) THEN Truncated
       ELSE LET response == Sections(Drop(parsed[2], 4), Uint32(parsed[2])) IN
            IF response = <<>> THEN Panic
            ELSE Pair(parsed[1], response[1])

(* Parse and ParseNext expect one proto, the analyze calls expect a pair. *)
Interpret ==
  /\ stage = "read" /\ stage' = "done"
  /\ heard' = IF ParseResultMessage(data) # <<>> THEN Error(ParseResultMessage(data))
              ELSE IF said.kind = "pair" THEN splitAnalyzePayload(data)
              ELSE Single(data)
  /\ UNCHANGED <<said, sound, block, memory, data>>

(* free_proto_buffer; the next call finds nothing of this one. *)
Release ==
  /\ stage = "done"
  /\ stage' = "idle" /\ sound' = TRUE
  /\ said' = Nothing /\ heard' = Nothing
  /\ block' = 0 /\ memory' = <<>> /\ data' = <<>>

Answers ==
  {Error(t) : t \in Text} \union {Single(p) : p \in Proto}
    \union {Pair(p, r) : p, r \in Proto}

Next ==
  \/ \E answer \in Answers : Pack(answer)
  \/ Clobber
  \/ Read
  \/ Interpret
  \/ Release

Spec == Init /\ [][Next]_vars

-----------------------------------------------------------------------------
Kinds == {"error", "proto", "pair", "nothing", "unreadable", "truncated", "panic"}
Heard == [kind : Kinds, first : Bytes, second : Bytes]

(***************************************************************************)
(* The bridge writes nothing behind the block it allocated, whichever of   *)
(* its three helpers packs the answer, and Go reads nothing behind it      *)
(* unless something else has written over the size.                        *)
(***************************************************************************)
InBlock ==
  said # Nothing =>
    /\ Len(Packed(said)) <= block
    /\ sound => 4 + Len(data) <= block

(* Every variable has its type, and the exchange stays within its block. *)
TypeOK ==
  /\ stage \in {"idle", "packed", "read", "done"}
  /\ said \in Answers \union {Nothing}
  /\ sound \in BOOLEAN
  /\ block \in Nat
  /\ memory \in Bytes /\ data \in Bytes
  /\ heard \in Heard
  /\ InBlock

(***************************************************************************)
(* The Go side hears what the bridge said: no error text is taken for a    *)
(* proto or a proto for an error, no byte is lost or added, and the two    *)
(* trees of an analysis are not mixed up, whatever follows the block.      *)
(***************************************************************************)
HeardAsSaid == stage = "done" /\ sound => heard = said

(***************************************************************************)
(* Whatever bytes the block holds, also after something else was written   *)
(* over it, splitAnalyzePayload returns an error or two slices of them; it *)
(* never slices out of range.                                              *)
(***************************************************************************)
NeverPanics == heard # Panic
=============================================================================
