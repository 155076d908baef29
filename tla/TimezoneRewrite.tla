-------------------------- MODULE TimezoneRewrite ---------------------------
(***************************************************************************)
(* What Engine.Analyze does to the caller's text before the resolver sees  *)
(* it, and what it says afterwards about places in it.                     *)
(* RewriteNamedTimezoneLiterals walks the parse tree, collects one         *)
(* replacement per TIMESTAMP literal with a named zone, and applies them   *)
(* to the text; rejectInvalidLiteralCasts later reports where in a text    *)
(* the literal of a bad cast is.                                           *)
(*                                                                         *)
(* A text is a sequence of cells, one for each byte; a cell names the item *)
(* of the source it belongs to, negated once the item has been rewritten.  *)
(***************************************************************************)
EXTENDS Integers, Sequences, FiniteSets, Functions, SequencesExt

CONSTANTS
  Sources,       \* the texts a caller may hand to Analyze, as sequences of items
  RewrittenWidth \* the bytes of a literal once it has a numeric offset

(***************************************************************************)
(* An item of a source.  "named" is the string of a TIMESTAMP literal that *)
(* ends in a zone Go can load, at a UTC offset of so many seconds at that  *)
(* wall time; "kept" is one whose zone or date Go cannot read; "cast" is a *)
(* string literal cast to INT64 that is no number; "newline" ends a line.  *)
(***************************************************************************)
ItemKind == {"text", "newline", "named", "kept", "cast"}

ASSUME SourcesAssumption ==
  Sources \subseteq Seq([kind : ItemKind, width : Nat \ {0}, offset : Int]) /\ RewrittenWidth \in Nat

VARIABLES
  src,       \* the items of the caller's text
  unvisited, \* the string literals the walk has not come to
  rewrites,  \* the replacements collected, or still to apply
  out,       \* the text being rewritten; in the end resolverSQL
  stage,     \* "walk", "apply", "resolve" or "done"
  reported   \* the literal and the line and column of a CastValueError, or <<>>

vars == <<src, unvisited, rewrites, out, stage, reported>>

OldText(i) == [k \in 1 .. src[i].width |-> <<i, k>>]
NewText(i) == [k \in 1 .. RewrittenWidth |-> <<-i, k>>]

(* The caller's sql, and the byte offset of an item in it. *)
Sql      == FlattenSeq([i \in DOMAIN src |-> OldText(i)])
Start(i) == Len(FlattenSeq([j \in 1 .. i - 1 |-> OldText(j)]))

Init ==
  /\ src \in Sources
  /\ unvisited = {i \in DOMAIN src : src[i].kind \in {"named", "kept"}}
  /\ rewrites = <<>> /\ out = Sql
  /\ stage = "walk"
  /\ reported = <<>>

-----------------------------------------------------------------------------
(* Collecting.  The walk follows the tree, whose order need not be the text's. *)
Visit(i) ==
  /\ stage = "walk" /\ i \in unvisited
  /\ unvisited' = unvisited \ {i}
  /\ rewrites' =
       IF src[i].kind = "named"
       THEN Append(rewrites, [start |-> Start(i), end |-> Start(i) + src[i].width, text |-> NewText(i)])
       ELSE rewrites
  /\ UNCHANGED <<src, out, stage, reported>>

(* Fault: the first range comes first. *)
LeftToRight(a, b) == a.start < b.start

RightToLeft(a, b) == a.start > b.start

SortRewrites ==
  /\ stage = "walk" /\ unvisited = {}
  /\ \E p \in Bijection(DOMAIN rewrites, DOMAIN rewrites) :
       /\ rewrites' = [k \in DOMAIN rewrites |-> rewrites[p[k]]]
       /\ \A j, k \in DOMAIN rewrites : j < k => RightToLeft(rewrites[p[j]], rewrites[p[k]])
  /\ stage' = "apply"
  /\ UNCHANGED <<src, unvisited, out, reported>>

(* out[:start] + text + out[end:] *)
Replaced(text, r) == SubSeq(text, 1, r.start) \o r.text \o SubSeq(text, r.end + 1, Len(text))

Replace ==
  /\ stage = "apply" /\ rewrites # <<>>
  /\ out' = Replaced(out, Head(rewrites))
  /\ rewrites' = Tail(rewrites)
  /\ UNCHANGED <<src, unvisited, stage, reported>>

Submit ==
  /\ stage = "apply" /\ rewrites = <<>>
  /\ stage' = "resolve"
  /\ UNCHANGED <<src, unvisited, rewrites, out, reported>>

-----------------------------------------------------------------------------
(* formatTZOffset: the sign, the hours and the minutes it writes. *)
Magnitude(sec) == IF sec < 0 THEN -sec ELSE sec

(* Fault: the sign is that of the hours. *)
SignOfHours(sec) ==
  [sign |-> IF sec <= -3600 THEN -1 ELSE 1, hours |-> Magnitude(sec) \div 3600,
   minutes |-> (Magnitude(sec) % 3600) \div 60]

formatTZOffset(sec) ==
  [sign |-> IF sec < 0 THEN -1 ELSE 1, hours |-> Magnitude(sec) \div 3600,
   minutes |-> (Magnitude(sec) % 3600) \div 60]

(* The offset the resolver reads there. *)
OffsetRead(z) == z.sign * (3600 * z.hours + 60 * z.minutes)

-----------------------------------------------------------------------------
(* The line and the column of a byte offset, both from 1. *)
Newlines(text, n) == {k \in 1 .. n : src[Magnitude(text[k][1])].kind = "newline"}

byteOffsetToLineColumn(text, offset) ==
  IF offset > Len(text) THEN <<1, 1>>
  ELSE LET before == Newlines(text, offset) IN
       <<Cardinality(before) + 1,
         offset - (CHOOSE s \in before \union {0} : \A t \in before : t <= s) + 1>>

(* Fault: the offset is looked up in the caller's sql. *)
InCallersText == Sql

(* What Analyze hands to rejectInvalidLiteralCasts. *)
ResolverText == out

(* The resolver puts the literal where it is in the text it was given. *)
OffsetOf(i) == (CHOOSE p \in DOMAIN out : out[p] = <<i, 1>>) - 1

Resolve ==
  /\ stage = "resolve" /\ stage' = "done"
  /\ \/ /\ \E i \in DOMAIN src :
             /\ src[i].kind = "cast"
             /\ reported' = <<i>> \o byteOffsetToLineColumn(ResolverText, OffsetOf(i))
     \/ /\ \A i \in DOMAIN src : src[i].kind # "cast"
        /\ UNCHANGED reported
  /\ UNCHANGED <<src, unvisited, rewrites, out>>

Next == (\E i \in DOMAIN src : Visit(i)) \/ SortRewrites \/ Replace \/ Submit \/ Resolve

Spec == Init /\ [][Next]_vars

-----------------------------------------------------------------------------
TypeOK ==
  /\ src \in Sources
  /\ unvisited \subseteq DOMAIN src
  /\ \A r \in Range(rewrites) : 0 <= r.start /\ r.start < r.end /\ r.end <= Len(out)
  /\ \A p \in DOMAIN out : Magnitude(out[p][1]) \in DOMAIN src
  /\ stage \in {"walk", "apply", "resolve", "done"}
  /\ Len(reported) \in {0, 3}

(***************************************************************************)
(* While replacements are applied, the ranges of those to come still hold  *)
(* the bytes they were collected for; in the end every literal with a      *)
(* named zone, and nothing else, has been exchanged, in its own place,     *)
(* whatever order the walk met them in.                                    *)
(***************************************************************************)
Spliced ==
  /\ stage = "apply" =>
       \A r \in Range(rewrites) : SubSeq(out, r.start + 1, r.end) = SubSeq(Sql, r.start + 1, r.end)
  /\ stage \in {"resolve", "done"} =>
       out = FlattenSeq([i \in DOMAIN src |->
                           IF src[i].kind = "named" THEN NewText(i) ELSE OldText(i)])

Zones == {i \in DOMAIN src : src[i].kind = "named"}

(***************************************************************************)
(* The numeric offset stands for the zone's offset, east or west of        *)
(* Greenwich and less than an hour from it too, to the minute below it.    *)
(***************************************************************************)
OffsetKept ==
  \A i \in Zones :
    LET read == OffsetRead(formatTZOffset(src[i].offset)) IN
    /\ Magnitude(read - src[i].offset) < 60
    /\ src[i].offset % 60 = 0 => read = src[i].offset

(* The byte at a line and column of a text. *)
At(text, line, col) ==
  LET starts == {0} \union Newlines(text, Len(text))
      s == CHOOSE t \in starts : Cardinality({u \in starts : u < t}) = line - 1
  IN IF s + col \in DOMAIN text THEN text[s + col] ELSE <<>>

(***************************************************************************)
(* A CastValueError names the line and column at which its literal begins  *)
(* in the text that was resolved, also behind rewritten literals.          *)
(***************************************************************************)
ReportedInResolverText ==
  reported # <<>> => At(out, reported[2], reported[3]) = <<reported[1], 1>>

(***************************************************************************)
(* Line and Col of a CastValueError are "the source line that contains the *)
(* literal" and its column: those of the sql the caller handed to Analyze. *)
(***************************************************************************)
ReportedWhereWritten ==
  reported # <<>> => At(Sql, reported[2], reported[3]) = <<reported[1], 1>>
=============================================================================
