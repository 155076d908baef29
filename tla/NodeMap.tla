------------------------------- MODULE NodeMap -------------------------------
(***************************************************************************)
(* What is done with the trees of one analyzed statement: the walk of      *)
(* rejectInvalidLiteralCasts before Analyze returns, then NewNodeMap and   *)
(* its lookups.  Walk is the nodes still to visit, in order; a nil child   *)
(* stands among them and is skipped when its turn comes.                   *)
(*                                                                         *)
(* A tree is [root, children, range, cast, text]: of a node, its children, *)
(* its recorded location (or Nil), [safe, source, target] if it is a cast  *)
(* and the text if it is a STRING literal that is not NULL.  Of a text     *)
(* there is the form and, where it is a number, the value.                 *)
(***************************************************************************)
EXTENDS Integers, Sequences, FiniteSets

CONSTANTS
  Nodes, Offsets, Texts, Kinds,
  Least, Greatest,   \* the bounds of an INT64
  Outputs,    \* what analyses give: [resolved, parsed], the parsed tree may be Nil
  Nil

Trees ==
  [root : Nodes, children : [Nodes -> Seq(Nodes \union {Nil})],
   range : [Nodes -> [start : Offsets \union {Nil}, end : Offsets \union {Nil}] \union {Nil}],
   cast : [Nodes -> [safe : BOOLEAN, source : Nodes \union {Nil}, target : Kinds \union {Nil}] \union {Nil}],
   text : [Nodes -> Texts \union {Nil}]]

ASSUME OutputsAssumption ==
  /\ Outputs \subseteq [resolved : Trees, parsed : Trees \union {Nil}]
  /\ Nil \notin Nodes /\ Nil \notin Offsets /\ Nil \notin Texts /\ Nil \notin Trees
  /\ Nil \notin [safe : BOOLEAN, source : Nodes \union {Nil}, target : Kinds \union {Nil}]
  /\ Nil \notin [start : Offsets \union {Nil}, end : Offsets \union {Nil}]
  /\ Offsets \subseteq Nat /\ Least \in Int /\ Greatest \in Int
  /\ Texts \subseteq [form : {"empty", "decimal", "hex", "other"}, value : Int]

Keys  == [start : Offsets, end : Offsets]
Calls == {"NodeAt", "NodesAt", "NodesInRange", "FindParsedNodes", Nil}
Sides == {"resolved", "parsed"}

VARIABLES
  out,      \* the trees of the statement
  at,       \* where the statement is
  pending,  \* the nodes a walk has still to visit
  seen,     \* those it visited, for the properties
  report,   \* the cast that was refused
  index,    \* resolvedByLoc and parsedByLoc
  lent,     \* the slices of the index that callers hold
  ask       \* the lookup that runs

vars == <<out, at, pending, seen, report, index, lent, ask>>

Empty  == [s \in Sides |-> [k \in Keys |-> <<>>]]
NoAsk  == [at |-> "idle", by |-> Nil, key |-> Nil, node |-> Nil, todo |-> {}, nodes |-> <<>>]
NoCast == [node |-> Nil, start |-> 0]

Init ==
  /\ out \in Outputs /\ at = "analyzed" /\ pending = <<>> /\ seen = {} /\ report = NoCast
  /\ index = Empty /\ lent = {} /\ ask = NoAsk

Elements(s) == {s[i] : i \in DOMAIN s}

-----------------------------------------------------------------------------
(* Trees.  A message holds the messages below it and is held by no other:  *)
(* a node has one place in its tree, and is not below itself.              *)

IsClosed(t, S) == \A n \in S : Elements(t.children[n]) \ {Nil} \subseteq S
(* The nodes under n, itself among them: those in every closed set that has n. *)
Under(t, n)    == {m \in Nodes : \A S \in SUBSET Nodes : n \in S /\ IsClosed(t, S) => m \in S}
NodesOf(t)     == IF t = Nil THEN {} ELSE Under(t, t.root)

IsTree(t) ==
  \A m, n \in NodesOf(t) : \A i \in DOMAIN t.children[m], j \in DOMAIN t.children[n] :
    LET c == t.children[m][i]
    IN c # Nil => m \notin Under(t, c) /\ (c = t.children[n][j] => m = n /\ i = j)

ASSUME TreesAssumption == \A o \in Outputs : IsTree(o.resolved) /\ (o.parsed # Nil => IsTree(o.parsed))

-----------------------------------------------------------------------------
(* Walk. *)

Side == IF at = "parsed" THEN "parsed" ELSE "resolved"
Tree == out[Side]
Node == Head(pending)

(* Fault to check the properties against: the children wait behind the siblings. *)
SiblingsFirst == IF Node = Nil THEN Tail(pending) ELSE Tail(pending) \o Tree.children[Node]

Rest == IF Node = Nil THEN Tail(pending) ELSE Tree.children[Node] \o Tail(pending)

(* Fault to check the properties against: a nil child is visited like a node. *)
WalkedAll(next) == pending' = next /\ seen' = seen \union {Node}

Walked(next) == pending' = next /\ seen' = seen \union ({Node} \ {Nil})

StartWalk(stage, root) == at' = stage /\ pending' = <<root>> /\ seen' = {}

-----------------------------------------------------------------------------
(* rejectInvalidLiteralCasts: the error of the first cast ends the walk. *)

(* With the option off Analyze returns at once. *)
Gate(reject) ==
  /\ at = "analyzed"
  /\ IF reject THEN StartWalk("gate", out.resolved.root)
     ELSE at' = "returned" /\ UNCHANGED <<pending, seen>>
  /\ UNCHANGED <<out, report, index, lent, ask>>

(* Fault to check the properties against: the greatest number is out of range. *)
BelowGreatest(x) ==
  \/ x.form = "empty"
  \/ x.form \in {"decimal", "hex"} /\ x.value >= Least /\ x.value < Greatest

(* The empty string casts to zero; hexadecimal is read only with its 0x. *)
CastStringToInt64(x) ==
  \/ x.form = "empty"
  \/ x.form \in {"decimal", "hex"} /\ x.value >= Least /\ x.value <= Greatest

(* SAFE_CAST has NULL where a cast fails. *)
Rejects(n) ==
  /\ n # Nil /\ Tree.cast[n] # Nil /\ ~Tree.cast[n].safe
  /\ LET c == Tree.cast[n]
     IN c.source # Nil /\ Tree.text[c.source] # Nil /\ c.target = "INT64" /\ ~CastStringToInt64(Tree.text[c.source])

(* A literal without a location counts as one at the start. *)
StartOf(n) == IF Tree.range[n] = Nil \/ Tree.range[n].start = Nil THEN 0 ELSE Tree.range[n].start

GateVisit ==
  /\ at = "gate" /\ pending # <<>>
  /\ IF Rejects(Node)
     THEN /\ at' = "refused" /\ report' = [node |-> Node, start |-> StartOf(Tree.cast[Node].source)]
          /\ UNCHANGED <<pending, seen>>
     ELSE Walked(Rest) /\ UNCHANGED <<at, report>>
  /\ UNCHANGED <<out, index, lent, ask>>

GateEnds ==
  /\ at = "gate" /\ pending = <<>> /\ at' = "returned"
  /\ UNCHANGED <<out, pending, seen, report, index, lent, ask>>

-----------------------------------------------------------------------------
(* NewNodeMap: the resolved tree, then the parsed one. *)

Located(r)     == r # Nil /\ r.start # Nil /\ r.end # Nil
LocationKey(r) == [start |-> r.start, end |-> r.end]

(* Fault to check the properties against: a node takes the place of those before. *)
Replacing(n) ==
  IF n = Nil \/ ~Located(Tree.range[n]) THEN index
  ELSE [index EXCEPT ![Side][LocationKey(Tree.range[n])] = <<n>>]

WithNode(n) ==
  IF n = Nil \/ ~Located(Tree.range[n]) THEN index
  ELSE [index EXCEPT ![Side][LocationKey(Tree.range[n])] = Append(@, n)]

NewNodeMap ==
  /\ at = "returned" /\ StartWalk("resolved", out.resolved.root)
  /\ UNCHANGED <<out, report, index, lent, ask>>

IndexVisit ==
  /\ at \in Sides /\ pending # <<>>
  /\ index' = WithNode(Node) /\ Walked(Rest)
  /\ UNCHANGED <<out, at, report, lent, ask>>

ResolvedIndexed ==
  /\ at = "resolved" /\ pending = <<>>
  /\ StartWalk("parsed", IF out.parsed = Nil THEN Nil ELSE out.parsed.root)
  /\ UNCHANGED <<out, report, index, lent, ask>>

ParsedIndexed ==
  /\ at = "parsed" /\ pending = <<>> /\ at' = "built"
  /\ UNCHANGED <<out, pending, seen, report, index, lent, ask>>

-----------------------------------------------------------------------------
(* The lookups. *)

CanAsk == at = "built" /\ ask.at = "idle" /\ UNCHANGED <<out, at, pending, seen, report, index>>

Answer(by, k, n, nodes) ==
  ask' = [NoAsk EXCEPT !.at = "answered", !.by = by, !.key = k, !.node = n, !.nodes = nodes]

NodeAt(k) ==
  LET found == index["resolved"][k]
  IN CanAsk /\ Answer("NodeAt", k, Nil, IF found = <<>> THEN <<>> ELSE <<Head(found)>>) /\ UNCHANGED lent

(* NodesAt and FindParsedNodes hand out the slice of the index itself, if there is one. *)
Lend(side, k) == lent' = IF index[side][k] = <<>> THEN lent ELSE lent \union {<<side, k>>}

NodesAt(k) ==
  CanAsk /\ Answer("NodesAt", k, Nil, index["resolved"][k]) /\ Lend("resolved", k)

FindParsedNodes(n) ==
  /\ CanAsk
  /\ LET r == out.resolved.range[n]
     IN IF Located(r)
        THEN /\ Answer("FindParsedNodes", LocationKey(r), n, index["parsed"][LocationKey(r)])
             /\ Lend("parsed", LocationKey(r))
        ELSE Answer("FindParsedNodes", Nil, n, <<>>) /\ UNCHANGED lent

(* The map is ranged over in any order. *)
NodesInRange(k) ==
  /\ CanAsk /\ UNCHANGED lent
  /\ ask' = [NoAsk EXCEPT !.at = "ranging", !.by = "NodesInRange", !.key = k,
                          !.todo = {l \in Keys : index["resolved"][l] # <<>>}]

(* Fault to check the properties against: a range that begins in front still counts. *)
Overlaps(l, k) == l.start < k.end /\ l.end <= k.end

Within(l, k) == l.start >= k.start /\ l.end <= k.end

RangeOver(l) ==
  /\ ask.at = "ranging" /\ l \in ask.todo
  /\ ask' = [ask EXCEPT !.todo = @ \ {l}, !.nodes = IF Within(l, ask.key) THEN @ \o index["resolved"][l] ELSE @]
  /\ UNCHANGED <<out, at, pending, seen, report, index, lent>>

RangedOver ==
  /\ ask.at = "ranging" /\ ask.todo = {} /\ ask' = [ask EXCEPT !.at = "answered"]
  /\ UNCHANGED <<out, at, pending, seen, report, index, lent>>

LookupReturns ==
  ask.at = "answered" /\ ask' = NoAsk /\ UNCHANGED <<out, at, pending, seen, report, index, lent>>

(* A caller sorts a slice it was given: two of its nodes change places. *)
CallerSorts(side, k) ==
  /\ ask.at = "idle" /\ <<side, k>> \in lent
  /\ \E i, j \in DOMAIN index[side][k] :
       /\ i < j
       /\ index' = [index EXCEPT ![side][k] = [@ EXCEPT ![i] = index[side][k][j], ![j] = index[side][k][i]]]
  /\ UNCHANGED <<out, at, pending, seen, report, lent, ask>>

-----------------------------------------------------------------------------
Next ==
  \/ \E reject \in BOOLEAN : Gate(reject)
  \/ GateVisit \/ GateEnds
  \/ NewNodeMap \/ IndexVisit \/ ResolvedIndexed \/ ParsedIndexed
  \/ \E k \in Keys : NodeAt(k) \/ NodesAt(k) \/ NodesInRange(k) \/ RangeOver(k)
  \/ \E n \in Nodes : FindParsedNodes(n)
  \/ RangedOver \/ LookupReturns
  \/ \E side \in Sides, k \in Keys : CallerSorts(side, k)

Spec == Init /\ [][Next]_vars

-----------------------------------------------------------------------------
(* Properties. *)

(* m comes before n: it is above n, or below an earlier child of a node that both are below. *)
Before(t, m, n) ==
  \/ m # n /\ n \in Under(t, m)
  \/ \E p \in NodesOf(t) : \E i, j \in DOMAIN t.children[p] :
       /\ i < j /\ t.children[p][i] # Nil /\ t.children[p][j] # Nil
       /\ m \in Under(t, t.children[p][i]) /\ n \in Under(t, t.children[p][j])

(* The program's variables have their types; what a caller holds is a slice of the index. *)
TypeOK ==
  /\ out \in Outputs /\ at \in {"analyzed", "gate", "refused", "returned", "resolved", "parsed", "built"}
  /\ pending \in Seq(Nodes \union {Nil}) /\ seen \subseteq Nodes
  /\ report \in [node : Nodes \union {Nil}, start : Nat]
  /\ index \in [Sides -> [Keys -> Seq(Nodes)]] /\ lent \subseteq Sides \X Keys
  /\ ask \in [at : {"idle", "ranging", "answered"}, by : Calls, key : Keys \union {Nil},
              node : Nodes \union {Nil}, todo : SUBSET Keys, nodes : Seq(Nodes)]

(* "the first ResolvedCast whose source is a STRING literal that cannot be parsed as the target type". *)
Unfoldable(t) ==
  {n \in NodesOf(t) :
     \E c \in {t.cast[n]} \ {Nil} :
       /\ c.safe = FALSE /\ c.target = "INT64"
       /\ \E x \in {t.text[s] : s \in {c.source} \ {Nil}} \ {Nil} :
            \/ x.form = "other"
            \/ x.form \notin {"empty", "other"} /\ x.value \notin Least .. Greatest}

(***************************************************************************)
(* rejectInvalidLiteralCasts "returns a *types.CastValueError for the      *)
(* first ResolvedCast" that cannot fold and "nil when no such cast is      *)
(* present" (engine.go:607): the one reported comes before every other,    *)
(* and a statement that passed the gate has none.                          *)
(***************************************************************************)
FirstCastRefused ==
  LET bad == Unfoldable(out.resolved)
  IN /\ at = "refused" => report.node \in bad /\ \A n \in bad \ {report.node} : Before(out.resolved, report.node, n)
     /\ at = "gate" /\ pending = <<>> => bad = {}

(***************************************************************************)
(* NewNodeMap "indexes every node that has a non-nil ParseLocationRange":  *)
(* an entry has the nodes of its tree at the place, all and only those,    *)
(* whatever callers did to a slice they were given.                        *)
(***************************************************************************)
At(t, k) == {n \in NodesOf(t) : t.range[n] = k}

IndexExact ==
  at = "built" => \A side \in Sides, k \in Keys : Elements(index[side][k]) = At(out[side], k)

(* Each node once, and a node that shares its range with one below it in front: NodeAt gives
   the outermost (node_map.go:68).  It is so for as long as no caller holds the slice. *)
OutermostFirst ==
  at = "built" /\ ask.at = "idle" =>
    \A side \in Sides, k \in Keys :
      /\ Len(index[side][k]) = Cardinality(Elements(index[side][k]))
      /\ <<side, k>> \notin lent =>
           \A i, j \in DOMAIN index[side][k] : i < j => Before(out[side], index[side][k][i], index[side][k][j])

(***************************************************************************)
(* What a lookup answers is what the trees say of the range it was asked   *)
(* for, in whatever order the map is ranged over (node_map.go:70-110).     *)
(***************************************************************************)
Asked ==
  CASE ask.by = "NodesInRange" ->
         {n \in NodesOf(out.resolved) :
            /\ Located(out.resolved.range[n])
            /\ out.resolved.range[n].start >= ask.key.start
            /\ out.resolved.range[n].end <= ask.key.end}
    [] ask.by = "FindParsedNodes" -> IF ask.key = Nil THEN {} ELSE At(out.parsed, out.resolved.range[ask.node])
    [] OTHER -> At(out.resolved, ask.key)

AnswersExact ==
  ask.at = "answered" =>
    IF ask.by = "NodeAt" THEN (ask.nodes = <<>>) = (Asked = {}) /\ Elements(ask.nodes) \subseteq Asked
    ELSE Elements(ask.nodes) = Asked /\ Len(ask.nodes) = Cardinality(Asked)
=============================================================================
