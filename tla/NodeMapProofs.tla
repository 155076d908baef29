---------------------------- MODULE NodeMapProofs ----------------------------
(***************************************************************************)
(* Proofs about NodeMap for trees of any shape and size: the gate refuses  *)
(* the first cast that cannot fold and lets no such cast pass, the index   *)
(* has the nodes of its tree, all and only those and the outermost first,  *)
(* and a lookup answers with exactly the nodes it was asked for.           *)
(***************************************************************************)
EXTENDS NodeMap, SequenceTheorems, FiniteSetTheorems, TLAPS

Entries == Nodes \union {Nil}

LEMMA ElementsOfSeq ==
  ASSUME NEW S, NEW s \in Seq(S)
  PROVE  /\ Elements(s) \subseteq S
         /\ \A i \in 1 .. Len(s) : s[i] \in Elements(s) /\ s[i] \in S
         /\ \A x \in Elements(s) : \E i \in 1 .. Len(s) : x = s[i]
         /\ DOMAIN s = 1 .. Len(s)
BY DEF Elements

(* What is pending once the first entry made way for s: s, then the rest. *)
LEMMA Queue ==
  ASSUME NEW S, NEW s \in Seq(S), NEW q \in Seq(S), q # <<>>
  PROVE  /\ s \o Tail(q) \in Seq(S) /\ Len(s) \in Nat /\ Len(q) \in Nat \ {0}
         /\ Len(s \o Tail(q)) = Len(s) + Len(q) - 1
         /\ \A i \in 1 .. Len(s) : (s \o Tail(q))[i] = s[i]
         /\ \A i \in 1 .. Len(s) + Len(q) - 1 : i > Len(s) => (s \o Tail(q))[i] = q[i - Len(s) + 1]
         /\ Head(q) = q[1] /\ Head(q) \in S
<1>1. /\ Tail(q) \in Seq(S) /\ Len(Tail(q)) = Len(q) - 1 /\ Len(q) \in Nat \ {0}
      /\ \A i \in 1 .. Len(Tail(q)) : Tail(q)[i] = q[i + 1]
      /\ Head(q) = q[1] /\ Head(q) \in S
  BY HeadTailProperties, EmptySeq
<1>2. /\ s \o Tail(q) \in Seq(S) /\ Len(s \o Tail(q)) = Len(s) + Len(Tail(q)) /\ Len(s) \in Nat
      /\ \A i \in 1 .. Len(s) + Len(Tail(q)) :
           (s \o Tail(q))[i] = IF i <= Len(s) THEN s[i] ELSE Tail(q)[i - Len(s)]
  BY <1>1, ConcatProperties
<1>3. ASSUME NEW i \in 1 .. Len(s) + Len(q) - 1, i > Len(s) PROVE (s \o Tail(q))[i] = q[i - Len(s) + 1]
  <2>1. i - Len(s) \in 1 .. Len(Tail(q)) /\ ~(i <= Len(s)) /\ i \in 1 .. Len(s) + Len(Tail(q))
    BY <1>1, <1>2, <1>3
  <2> QED
    BY <2>1, <1>1, <1>2
<1>4. \A i \in 1 .. Len(s) : (s \o Tail(q))[i] = s[i]
  BY <1>1, <1>2
<1> QED
  BY <1>1, <1>2, <1>3, <1>4

LEMMA TailPart ==
  ASSUME NEW S, NEW q \in Seq(S), q # <<>>
  PROVE  /\ Tail(q) \in Seq(S) /\ Len(q) \in Nat \ {0} /\ Len(Tail(q)) = Len(q) - 1
         /\ \A i \in 1 .. Len(q) - 1 : Tail(q)[i] = q[i + 1]
         /\ Head(q) = q[1] /\ Head(q) \in S
BY HeadTailProperties, EmptySeq

-----------------------------------------------------------------------------
(* Trees. *)

LEMMA TreeFields ==
  ASSUME NEW t \in Trees
  PROVE  /\ t.root \in Nodes /\ t # Nil
         /\ \A n \in Nodes : /\ t.children[n] \in Seq(Entries)
                             /\ t.text[n] \in Texts \union {Nil}
                             /\ t.range[n] = Nil \/ t.range[n] \in [start : Offsets \union {Nil}, end : Offsets \union {Nil}]
                             /\ t.cast[n] = Nil \/ t.cast[n] \in [safe : BOOLEAN, source : Nodes \union {Nil}, target : Kinds \union {Nil}]
BY OutputsAssumption DEF Trees, Entries

LEMMA OutFields ==
  ASSUME out \in Outputs
  PROVE  out.resolved \in Trees /\ (out.parsed = Nil \/ out.parsed \in Trees)
BY OutputsAssumption

LEMMA UnderClosed ==
  ASSUME NEW t \in Trees, NEW n \in Nodes
  PROVE  /\ n \in Under(t, n) /\ Under(t, n) \subseteq Nodes
         /\ \A m \in Under(t, n) : Elements(t.children[m]) \ {Nil} \subseteq Under(t, n)
<1>1. ASSUME NEW m \in Under(t, n), NEW c \in Elements(t.children[m]) \ {Nil} PROVE c \in Under(t, n)
  <2>1. m \in Nodes
    BY DEF Under
  <2>2. c \in Nodes
    BY <2>1, TreeFields, ElementsOfSeq DEF Entries
  <2>3. ASSUME NEW S \in SUBSET Nodes, n \in S, IsClosed(t, S) PROVE c \in S
    <3>1. m \in S
      BY <2>3 DEF Under
    <3> QED
      BY <3>1, <2>3 DEF IsClosed
  <2> QED
    BY <2>2, <2>3 DEF Under
<1> QED
  BY <1>1 DEF Under

LEMMA UnderSmallest ==
  ASSUME NEW t, NEW n, NEW S \in SUBSET Nodes, n \in S, IsClosed(t, S)
  PROVE  Under(t, n) \subseteq S
BY DEF Under

LEMMA UnderTransitive ==
  ASSUME NEW t \in Trees, NEW n \in Nodes, NEW m \in Under(t, n)
  PROVE  m \in Nodes /\ Under(t, m) \subseteq Under(t, n)
<1>1. Under(t, n) \in SUBSET Nodes /\ m \in Nodes /\ IsClosed(t, Under(t, n))
  BY UnderClosed DEF IsClosed
<1> QED
  BY <1>1, UnderSmallest

(* A place is kept when both its ends were recorded, under itself. *)
LEMMA KeyOfNode ==
  ASSUME NEW t \in Trees, NEW n \in Nodes
  PROVE  /\ Located(t.range[n]) => LocationKey(t.range[n]) \in Keys /\ LocationKey(t.range[n]) = t.range[n]
         /\ \A k \in Keys : t.range[n] = k => Located(t.range[n])
<1>1. CASE t.range[n] = Nil
  BY <1>1, OutputsAssumption DEF Located, Keys
<1>2. CASE t.range[n] # Nil
  <2>1. t.range[n] \in [start : Offsets \union {Nil}, end : Offsets \union {Nil}]
    BY <1>2, TreeFields
  <2> DEFINE r == t.range[n]
  <2>2. r = [start |-> r.start, end |-> r.end]
    BY <2>1
  <2> QED
    BY <1>2, <2>1, <2>2, OutputsAssumption DEF Located, LocationKey, Keys
<1> QED
  BY <1>1, <1>2

-----------------------------------------------------------------------------
(* The walk.  S are the nodes that were visited, q what is pending.        *)

NextOf(t, q) == IF Head(q) = Nil THEN Tail(q) ELSE t.children[Head(q)] \o Tail(q)
SeenNext(S, q) == S \union ({Head(q)} \ {Nil})

(* All of it is in the tree, and what is below what was visited is visited or pending. *)
Progress(t, S, q) ==
  /\ S \subseteq Under(t, t.root)
  /\ Elements(q) \ {Nil} \subseteq Under(t, t.root)
  /\ t.root \in S \union Elements(q)
  /\ \A n \in S : Elements(t.children[n]) \ {Nil} \subseteq S \union Elements(q)

(* x is below an earlier child than y, of a node that both are below. *)
Apart(t, x, y) ==
  \E p \in Under(t, t.root) : \E a, b \in DOMAIN t.children[p] :
    /\ a < b /\ t.children[p][a] # Nil /\ t.children[p][b] # Nil
    /\ x \in Under(t, t.children[p][a]) /\ y \in Under(t, t.children[p][b])

InOrder(t, q) == \A i, j \in 1 .. Len(q) : i < j /\ q[i] # Nil /\ q[j] # Nil => Apart(t, q[i], q[j])

LEMMA NextElements ==
  ASSUME NEW t \in Trees, NEW q \in Seq(Entries), q # <<>>
  PROVE  /\ NextOf(t, q) \in Seq(Entries) /\ Head(q) \in Elements(q) /\ Head(q) \in Entries
         /\ Elements(q) \subseteq {Head(q)} \union Elements(NextOf(t, q))
         /\ Elements(NextOf(t, q)) \subseteq Elements(q) \union (IF Head(q) = Nil THEN {} ELSE Elements(t.children[Head(q)]))
         /\ Head(q) # Nil => Elements(t.children[Head(q)]) \subseteq Elements(NextOf(t, q))
<1>1. /\ Tail(q) \in Seq(Entries) /\ Len(q) \in Nat \ {0} /\ Len(Tail(q)) = Len(q) - 1
      /\ \A i \in 1 .. Len(q) - 1 : Tail(q)[i] = q[i + 1]
      /\ Head(q) = q[1] /\ Head(q) \in Entries
  BY TailPart
<1>2. Head(q) \in Elements(q)
  BY <1>1, ElementsOfSeq
<1>3. CASE Head(q) = Nil
  <2>1. NextOf(t, q) = Tail(q)
    BY <1>3 DEF NextOf
  <2>2. ASSUME NEW i \in 1 .. Len(q) PROVE q[i] \in {Head(q)} \union Elements(Tail(q))
    <3>1. CASE i = 1
      BY <3>1, <1>1
    <3>2. CASE i # 1
      <4>1. i - 1 \in 1 .. Len(Tail(q)) /\ Tail(q)[i - 1] = q[i]
        BY <3>2, <1>1
      <4> QED
        BY <4>1, <1>1, ElementsOfSeq
    <3> QED
      BY <3>1, <3>2
  <2>3. ASSUME NEW i \in 1 .. Len(Tail(q)) PROVE Tail(q)[i] \in Elements(q)
    <3>1. i + 1 \in 1 .. Len(q) /\ Tail(q)[i] = q[i + 1]
      BY <1>1
    <3> QED
      BY <3>1, ElementsOfSeq
  <2>4. \A x \in Elements(q) : x \in {Head(q)} \union Elements(Tail(q))
    BY <2>2, ElementsOfSeq
  <2>5. ASSUME NEW x \in Elements(Tail(q)) PROVE x \in Elements(q)
    <3>1. PICK i \in DOMAIN Tail(q) : x = Tail(q)[i]
      BY DEF Elements
    <3> QED
      BY <3>1, <2>3, <1>1
  <2>6. /\ Elements(q) \subseteq {Head(q)} \union Elements(NextOf(t, q))
        /\ Elements(NextOf(t, q)) \subseteq Elements(q) /\ NextOf(t, q) \in Seq(Entries)
    BY <1>1, <2>1, <2>4, <2>5
  <2> QED
    BY <1>1, <1>2, <1>3, <2>6
<1>4. CASE Head(q) # Nil
  <2> DEFINE s == t.children[Head(q)]
             r == s \o Tail(q)
  <2>1. s \in Seq(Entries) /\ NextOf(t, q) = r
    BY <1>1, <1>4, TreeFields DEF NextOf, Entries
  <2> HIDE DEF s
  <2>2. /\ r \in Seq(Entries) /\ Len(s) \in Nat /\ Len(r) = Len(s) + Len(q) - 1
        /\ \A i \in 1 .. Len(s) : r[i] = s[i]
        /\ \A i \in 1 .. Len(s) + Len(q) - 1 : i > Len(s) => r[i] = q[i - Len(s) + 1]
    BY <2>1, Queue
  <2> HIDE DEF r
  <2>3. ASSUME NEW i \in 1 .. Len(q) PROVE q[i] \in {Head(q)} \union Elements(r)
    <3>1. CASE i = 1
      BY <3>1, <1>1
    <3>2. CASE i # 1
      <4> DEFINE j == i - 1 + Len(s)
      <4>1. j \in 1 .. Len(r) /\ j > Len(s) /\ j - Len(s) + 1 = i
        BY <3>2, <1>1, <2>2
      <4>2. r[j] = q[i]
        BY <4>1, <2>2
      <4> QED
        BY <4>1, <4>2, <2>2, ElementsOfSeq
    <3> QED
      BY <3>1, <3>2
  <2>4. ASSUME NEW i \in 1 .. Len(r) PROVE r[i] \in Elements(q) \union Elements(s)
    <3>1. CASE i <= Len(s)
      BY <3>1, <2>1, <2>2, ElementsOfSeq
    <3>2. CASE i > Len(s)
      <4>1. i - Len(s) + 1 \in 1 .. Len(q) /\ r[i] = q[i - Len(s) + 1]
        BY <3>2, <1>1, <2>2
      <4> QED
        BY <4>1, ElementsOfSeq
    <3> QED
      BY <3>1, <3>2, <2>2
  <2>5. ASSUME NEW i \in 1 .. Len(s) PROVE s[i] \in Elements(r)
    <3>1. i \in 1 .. Len(r) /\ r[i] = s[i]
      BY <1>1, <2>2
    <3> QED
      BY <3>1, <2>2, ElementsOfSeq
  <2>6. \A x \in Elements(q) : x \in {Head(q)} \union Elements(r)
    BY <2>3, ElementsOfSeq
  <2>7. \A x \in Elements(r) : x \in Elements(q) \union Elements(s)
    BY <2>2, <2>4, ElementsOfSeq
  <2>8. \A x \in Elements(s) : x \in Elements(r)
    BY <2>1, <2>5, ElementsOfSeq
  <2> QED
    BY <1>1, <1>2, <1>4, <2>1, <2>2, <2>6, <2>7, <2>8 DEF s
<1> QED
  BY <1>3, <1>4

LEMMA StartProgresses ==
  ASSUME NEW t \in Trees
  PROVE  Progress(t, {}, <<t.root>>) /\ InOrder(t, <<t.root>>) /\ <<t.root>> \in Seq(Entries)
<1>1. t.root \in Nodes /\ <<t.root>> \in Seq(Entries) /\ Len(<<t.root>>) = 1
  BY TreeFields DEF Entries
<1>2. Elements(<<t.root>>) = {t.root}
  BY DEF Elements
<1>3. t.root \in Under(t, t.root)
  BY <1>1, UnderClosed
<1> QED
  BY <1>1, <1>2, <1>3 DEF Progress, InOrder

LEMMA StepProgresses ==
  ASSUME NEW t \in Trees, NEW S \in SUBSET Nodes, NEW q \in Seq(Entries), q # <<>>, Progress(t, S, q)
  PROVE  Progress(t, SeenNext(S, q), NextOf(t, q)) /\ SeenNext(S, q) \in SUBSET Nodes
<1> DEFINE h == Head(q)
           r == NextOf(t, q)
           T == SeenNext(S, q)
<1>1. /\ h \in Elements(q) /\ h \in Entries
      /\ Elements(q) \subseteq {h} \union Elements(r)
      /\ Elements(r) \subseteq Elements(q) \union (IF h = Nil THEN {} ELSE Elements(t.children[h]))
      /\ h # Nil => Elements(t.children[h]) \subseteq Elements(r)
  BY NextElements
<1>2. T = S \union ({h} \ {Nil}) /\ T \in SUBSET Nodes
  BY <1>1 DEF SeenNext, Entries
<1>3. t.root \in Nodes /\ t.root # Nil
  BY TreeFields, OutputsAssumption
<1>4. h # Nil => h \in Under(t, t.root) /\ Elements(t.children[h]) \ {Nil} \subseteq Under(t, t.root)
  BY <1>1, <1>3, UnderClosed DEF Progress
<1> HIDE DEF h, r, T
<1>5. T \subseteq Under(t, t.root) /\ Elements(r) \ {Nil} \subseteq Under(t, t.root) /\ t.root \in T \union Elements(r)
  BY <1>1, <1>2, <1>3, <1>4 DEF Progress
<1>6. ASSUME NEW n \in T PROVE Elements(t.children[n]) \ {Nil} \subseteq T \union Elements(r)
  <2>1. CASE n \in S
    BY <2>1, <1>1, <1>2 DEF Progress
  <2>2. CASE n \notin S
    BY <2>2, <1>1, <1>2
  <2> QED
    BY <2>1, <2>2
<1>7. Progress(t, T, r)
  BY <1>5, <1>6 DEF Progress
<1> QED
  BY <1>2, <1>7 DEF T, r

(* At the end all of the tree was visited; before, the rest of it is below what is pending. *)
LEMMA AllVisited ==
  ASSUME NEW t \in Trees, NEW S \in SUBSET Nodes, Progress(t, S, <<>>)
  PROVE  S = Under(t, t.root)
<1>1. Elements(<<>>) = {}
  BY DEF Elements
<1>2. t.root \in S /\ IsClosed(t, S)
  BY <1>1 DEF Progress, IsClosed
<1> QED
  BY <1>2, UnderSmallest DEF Progress

LEMMA RestIsPending ==
  ASSUME NEW t \in Trees, NEW S \in SUBSET Nodes, NEW q \in Seq(Entries), Progress(t, S, q),
         NEW n \in Under(t, t.root), n \notin S
  PROVE  \E i \in 1 .. Len(q) : q[i] # Nil /\ n \in Under(t, q[i])
<1> DEFINE R == S \union {m \in Nodes : \E x \in Elements(q) \ {Nil} : m \in Under(t, x)}
<1>1. Elements(q) \subseteq Entries
  BY ElementsOfSeq
<1>2. \A x \in Elements(q) \ {Nil} : x \in Nodes /\ x \in R
  BY <1>1, UnderClosed DEF Entries
<1>3. t.root \in R
  BY <1>2, TreeFields, OutputsAssumption DEF Progress
<1>4. ASSUME NEW m \in R, NEW c \in Elements(t.children[m]) \ {Nil} PROVE c \in R
  <2>1. CASE m \in S
    BY <2>1, <1>2 DEF Progress
  <2>2. CASE m \notin S
    <3>1. PICK x \in Elements(q) \ {Nil} : m \in Under(t, x)
      BY <2>2
    <3>2. x \in Nodes
      BY <1>2
    <3>3. c \in Under(t, x) /\ c \in Nodes
      BY <3>1, <3>2, UnderClosed
    <3> QED
      BY <3>3
  <2> QED
    BY <2>1, <2>2
<1>5. IsClosed(t, R) /\ R \in SUBSET Nodes
  BY <1>4 DEF IsClosed
<1>6. n \in R
  BY <1>3, <1>5, UnderSmallest
<1> QED
  BY <1>6, ElementsOfSeq

(* The order of what is pending is the order of the tree. *)
LEMMA StepOrdered ==
  ASSUME NEW t \in Trees, NEW S \in SUBSET Nodes, NEW q \in Seq(Entries), q # <<>>, Progress(t, S, q), InOrder(t, q)
  PROVE  InOrder(t, NextOf(t, q))
<1>1. /\ Tail(q) \in Seq(Entries) /\ Len(q) \in Nat \ {0} /\ Len(Tail(q)) = Len(q) - 1
      /\ \A i \in 1 .. Len(q) - 1 : Tail(q)[i] = q[i + 1]
      /\ Head(q) = q[1] /\ Head(q) \in Entries
  BY TailPart
<1>2. CASE Head(q) = Nil
  <2>1. NextOf(t, q) = Tail(q)
    BY <1>2 DEF NextOf
  <2>2. ASSUME NEW i \in 1 .. Len(Tail(q)), NEW j \in 1 .. Len(Tail(q)), i < j, Tail(q)[i] # Nil, Tail(q)[j] # Nil
        PROVE  Apart(t, Tail(q)[i], Tail(q)[j])
    <3>1. i + 1 \in 1 .. Len(q) /\ j + 1 \in 1 .. Len(q) /\ i + 1 < j + 1
      BY <1>1, <2>2
    <3>2. Tail(q)[i] = q[i + 1] /\ Tail(q)[j] = q[j + 1]
      BY <1>1
    <3> QED
      BY <3>1, <3>2, <2>2 DEF InOrder
  <2> QED
    BY <2>1, <2>2 DEF InOrder
<1>3. CASE Head(q) # Nil
  <2> DEFINE h == Head(q)
             s == t.children[h]
             r == s \o Tail(q)
  <2>1. s \in Seq(Entries) /\ NextOf(t, q) = r /\ h \in Nodes
    BY <1>1, <1>3, TreeFields DEF NextOf, Entries
  <2>2. h \in Under(t, t.root)
    BY <1>1, <1>3, NextElements DEF Progress
  <2> HIDE DEF s, h
  <2>3. /\ Len(s) \in Nat /\ Len(r) = Len(s) + Len(q) - 1
        /\ \A i \in 1 .. Len(s) : r[i] = s[i]
        /\ \A i \in 1 .. Len(s) + Len(q) - 1 : i > Len(s) => r[i] = q[i - Len(s) + 1]
    BY <2>1, Queue
  <2> HIDE DEF r
  <2>4. ASSUME NEW i \in 1 .. Len(r), NEW j \in 1 .. Len(r), i < j, r[i] # Nil, r[j] # Nil
        PROVE  Apart(t, r[i], r[j])
    <3>1. CASE j <= Len(s)
      <4>1. i \in 1 .. Len(s) /\ j \in 1 .. Len(s) /\ r[i] = s[i] /\ r[j] = s[j]
        BY <3>1, <2>3, <2>4
      <4>2. s[i] \in Nodes /\ s[j] \in Nodes /\ i \in DOMAIN s /\ j \in DOMAIN s
        BY <4>1, <2>1, <2>4, ElementsOfSeq DEF Entries
      <4>3. s[i] \in Under(t, s[i]) /\ s[j] \in Under(t, s[j])
        BY <4>2, UnderClosed
      <4>4. h \in Under(t, t.root) /\ t.children[h] = s
        BY <2>2 DEF s
      <4> QED
        BY <4>1, <4>2, <4>3, <4>4, <2>4 DEF Apart
    <3>2. CASE i <= Len(s) /\ j > Len(s)
      <4> DEFINE k == j - Len(s) + 1
      <4>1. i \in 1 .. Len(s) /\ r[i] = s[i] /\ r[j] = q[k] /\ k \in 1 .. Len(q) /\ 1 < k /\ 1 \in 1 .. Len(q)
        BY <3>2, <2>3, <2>4, <1>1
      <4>2. h = q[1] /\ h # Nil
        BY <1>1, <1>3 DEF h
      <4>3. Apart(t, h, q[k])
        BY <4>1, <4>2, <2>4 DEF InOrder
      <4>4. s[i] \in Elements(t.children[h]) \ {Nil}
        BY <4>1, <2>1, <2>4, ElementsOfSeq DEF s
      <4>5. PICK p \in Under(t, t.root) : \E a, b \in DOMAIN t.children[p] :
               /\ a < b /\ t.children[p][a] # Nil /\ t.children[p][b] # Nil
               /\ h \in Under(t, t.children[p][a]) /\ q[k] \in Under(t, t.children[p][b])
        BY <4>3 DEF Apart
      <4>6. PICK a \in DOMAIN t.children[p], b \in DOMAIN t.children[p] :
               /\ a < b /\ t.children[p][a] # Nil /\ t.children[p][b] # Nil
               /\ h \in Under(t, t.children[p][a]) /\ q[k] \in Under(t, t.children[p][b])
        BY <4>5
      <4>7. t.children[p][a] \in Nodes
        <5>1. p \in Nodes
          BY DEF Under
        <5> QED
          BY <5>1, <4>6, TreeFields, ElementsOfSeq DEF Entries
      <4>8. s[i] \in Under(t, t.children[p][a])
        BY <4>4, <4>6, <4>7, UnderClosed
      <4>9. Apart(t, s[i], q[k])
        BY <4>6, <4>8 DEF Apart
      <4> QED
        BY <4>1, <4>9
    <3>3. CASE i > Len(s)
      <4> DEFINE m == i - Len(s) + 1
                 k == j - Len(s) + 1
      <4>1. m \in 1 .. Len(q) /\ k \in 1 .. Len(q) /\ m < k /\ r[i] = q[m] /\ r[j] = q[k]
        BY <3>3, <2>3, <2>4, <1>1
      <4> QED
        BY <4>1, <2>4 DEF InOrder
    <3> QED
      BY <3>1, <3>2, <3>3, <2>3
  <2> QED
    BY <2>1, <2>4 DEF InOrder
<1> QED
  BY <1>2, <1>3

(* So what is not yet visited when the head's turn comes comes after the head. *)
LEMMA HeadIsFirst ==
  ASSUME NEW t \in Trees, NEW S \in SUBSET Nodes, NEW q \in Seq(Entries), q # <<>>, Head(q) # Nil,
         Progress(t, S, q), InOrder(t, q), NEW n \in Under(t, t.root), n \notin S, n # Head(q)
  PROVE  Before(t, Head(q), n)
<1>1. Len(q) \in Nat \ {0} /\ Head(q) = q[1] /\ Head(q) \in Nodes
  BY TailPart DEF Entries
<1>2. PICK i \in 1 .. Len(q) : q[i] # Nil /\ n \in Under(t, q[i])
  BY RestIsPending
<1>3. CASE i = 1
  BY <1>1, <1>2, <1>3 DEF Before
<1>4. CASE i # 1
  <2>1. Apart(t, Head(q), q[i])
    <3>1. 1 \in 1 .. Len(q) /\ 1 < i
      BY <1>1, <1>4
    <3> QED
      BY <3>1, <1>1, <1>2 DEF InOrder
  <2>2. PICK p \in Under(t, t.root) : \E a, b \in DOMAIN t.children[p] :
           /\ a < b /\ t.children[p][a] # Nil /\ t.children[p][b] # Nil
           /\ Head(q) \in Under(t, t.children[p][a]) /\ q[i] \in Under(t, t.children[p][b])
    BY <2>1 DEF Apart
  <2>3. PICK a \in DOMAIN t.children[p], b \in DOMAIN t.children[p] :
           /\ a < b /\ t.children[p][a] # Nil /\ t.children[p][b] # Nil
           /\ Head(q) \in Under(t, t.children[p][a]) /\ q[i] \in Under(t, t.children[p][b])
    BY <2>2
  <2>4. t.children[p][b] \in Nodes
    <3>1. p \in Nodes
      BY DEF Under
    <3> QED
      BY <3>1, <2>3, TreeFields, ElementsOfSeq DEF Entries
  <2>5. n \in Under(t, t.children[p][b])
    BY <2>3, <2>4, <1>2, UnderTransitive
  <2>6. p \in NodesOf(t)
    BY TreeFields DEF NodesOf
  <2> QED
    BY <2>3, <2>5, <2>6 DEF Before
<1> QED
  BY <1>3, <1>4

-----------------------------------------------------------------------------
(* The casts that the gate refuses are those that cannot fold. *)

LEMMA Rejected ==
  ASSUME out \in Outputs, at = "gate", NEW n \in NodesOf(out.resolved)
  PROVE  /\ Rejects(n) <=> n \in Unfoldable(out.resolved)
         /\ Rejects(n) => StartOf(Tree.cast[n].source) \in Nat
<1> DEFINE t == out.resolved
           c == t.cast[n]
<1>1. t \in Trees /\ Tree = t
  BY OutFields DEF Tree, Side
<1>2. n \in Nodes /\ n # Nil
  BY <1>1, TreeFields, UnderClosed, OutputsAssumption DEF NodesOf
<1>3. c = Nil \/ c \in [safe : BOOLEAN, source : Nodes \union {Nil}, target : Kinds \union {Nil}]
  BY <1>1, <1>2, TreeFields
<1>4. \A m \in Nodes : t.text[m] = Nil \/ t.text[m] \in [form : {"empty", "decimal", "hex", "other"}, value : Int]
  BY <1>1, TreeFields, OutputsAssumption
<1>5. \A m \in Nodes : t.range[m] = Nil \/ t.range[m].start = Nil \/ t.range[m].start \in Nat
  BY <1>1, TreeFields, OutputsAssumption
<1>6. Rejects(n) <=> /\ c # Nil /\ ~c.safe /\ c.source # Nil /\ t.text[c.source] # Nil
                     /\ c.target = "INT64" /\ ~CastStringToInt64(t.text[c.source])
  BY <1>1, <1>2 DEF Rejects
<1>7. \A x \in [form : {"empty", "decimal", "hex", "other"}, value : Int] :
        ~CastStringToInt64(x) <=> \/ x.form = "other"
                                  \/ x.form \notin {"empty", "other"} /\ x.value \notin Least .. Greatest
  BY OutputsAssumption DEF CastStringToInt64
<1>8. n \in Unfoldable(t) <=>
        /\ c # Nil /\ c.safe = FALSE /\ c.target = "INT64"
        /\ c.source # Nil /\ t.text[c.source] # Nil
        /\ \/ t.text[c.source].form = "other"
           \/ /\ t.text[c.source].form \notin {"empty", "other"}
              /\ t.text[c.source].value \notin Least .. Greatest
  BY DEF Unfoldable
<1>9. CASE c = Nil
  BY <1>6, <1>8, <1>9
<1>10. CASE c # Nil
  <2>1. c.safe \in BOOLEAN /\ (c.source = Nil \/ c.source \in Nodes)
    BY <1>3, <1>10
  <2>2. Rejects(n) <=> n \in Unfoldable(t)
    BY <1>4, <1>6, <1>7, <1>8, <1>10, <2>1
  <2>3. Rejects(n) => StartOf(Tree.cast[n].source) \in Nat
    BY <1>1, <1>5, <1>6, <2>1 DEF StartOf
  <2> QED
    BY <2>2, <2>3
<1> QED
  BY <1>9, <1>10

(* Two nodes that change places: the slice has the nodes it had. *)
LEMMA Sorted ==
  ASSUME NEW s \in Seq(Nodes), NEW i \in DOMAIN s, NEW j \in DOMAIN s
  PROVE  LET r == [s EXCEPT ![i] = s[j], ![j] = s[i]]
         IN r \in Seq(Nodes) /\ Elements(r) = Elements(s)
<1> DEFINE r == [s EXCEPT ![i] = s[j], ![j] = s[i]]
<1>1. /\ s \in [1 .. Len(s) -> Nodes] /\ Len(s) \in Nat /\ DOMAIN s = 1 .. Len(s)
  BY ElementsOfSeq
<1>2. /\ r \in [1 .. Len(s) -> Nodes] /\ DOMAIN r = DOMAIN s
      /\ r[j] = s[i] /\ (i # j => r[i] = s[j]) /\ \A k \in DOMAIN s : k # i /\ k # j => r[k] = s[k]
  BY <1>1
<1>3. r \in Seq(Nodes)
  BY <1>1, <1>2
<1> HIDE DEF r
<1>4. ASSUME NEW k \in DOMAIN s PROVE r[k] \in Elements(s) /\ s[k] \in Elements(r)
  <2>1. \E l \in DOMAIN s : r[k] = s[l]
    BY <1>2
  <2>2. \E l \in DOMAIN r : s[k] = r[l]
    BY <1>2
  <2> QED
    BY <2>1, <2>2 DEF Elements
<1>5. Elements(r) = Elements(s)
  BY <1>2, <1>4 DEF Elements
<1> QED
  BY <1>3, <1>5 DEF r

LEMMA Appended ==
  ASSUME NEW s \in Seq(Nodes), NEW n \in Nodes
  PROVE  Append(s, n) \in Seq(Nodes) /\ Elements(Append(s, n)) = Elements(s) \union {n}
<1> DEFINE r == Append(s, n)
<1>1. /\ r \in Seq(Nodes) /\ Len(r) = Len(s) + 1 /\ Len(s) \in Nat /\ r[Len(s) + 1] = n
      /\ \A i \in 1 .. Len(s) : r[i] = s[i]
      /\ DOMAIN r = 1 .. Len(r) /\ DOMAIN s = 1 .. Len(s)
  BY AppendProperties
<1> HIDE DEF r
<1>2. ASSUME NEW x \in Elements(r) PROVE x \in Elements(s) \union {n}
  <2>1. PICK i \in DOMAIN r : x = r[i]
    BY DEF Elements
  <2>2. i = Len(s) + 1 \/ i \in 1 .. Len(s)
    BY <1>1
  <2> QED
    BY <1>1, <2>1, <2>2 DEF Elements
<1>3. ASSUME NEW x \in Elements(s) PROVE x \in Elements(r)
  <2>1. PICK i \in DOMAIN s : x = s[i]
    BY DEF Elements
  <2>2. i \in DOMAIN r /\ r[i] = x
    BY <1>1, <2>1
  <2> QED
    BY <2>2 DEF Elements
<1>4. n \in Elements(r)
  <2>1. Len(s) + 1 \in DOMAIN r /\ r[Len(s) + 1] = n
    BY <1>1
  <2> QED
    BY <2>1 DEF Elements
<1> QED
  BY <1>1, <1>2, <1>3, <1>4 DEF r

-----------------------------------------------------------------------------
(* The inductive invariant. *)

Building == {"analyzed", "gate", "refused", "returned"}

(* Each stage's walk; a statement without a parsed tree has nothing to walk. *)
WalkInv ==
  /\ at \in {"gate", "resolved"} => Progress(out.resolved, seen, pending)
  /\ at = "gate" => InOrder(out.resolved, pending) /\ seen \intersect Unfoldable(out.resolved) = {}
  /\ at = "parsed" => IF out.parsed = Nil THEN seen = {} /\ Elements(pending) \subseteq {Nil}
                      ELSE Progress(out.parsed, seen, pending)

(* What is indexed so far. *)
SeenAt(t, k) == {n \in seen : t.range[n] = k}

IndexInv ==
  /\ at \in Building => \A side \in Sides, k \in Keys : index[side][k] = <<>>
  /\ at = "resolved" => \A k \in Keys : /\ Elements(index["resolved"][k]) = SeenAt(out.resolved, k)
                                        /\ index["parsed"][k] = <<>>
  /\ at = "parsed" => \A k \in Keys : /\ Elements(index["resolved"][k]) = At(out.resolved, k)
                                      /\ Elements(index["parsed"][k]) = SeenAt(out.parsed, k)
  /\ IndexExact
  /\ at # "built" => ask = NoAsk /\ lent = {}

IInv == TypeOK /\ WalkInv /\ FirstCastRefused /\ IndexInv

LEMMA InitHolds == Init => IInv
<1> SUFFICES ASSUME Init PROVE IInv
  OBVIOUS
<1>1. TypeOK
  BY DEF Init, TypeOK, Calls, Empty, NoAsk, NoCast
<1>2. WalkInv /\ FirstCastRefused /\ IndexExact
  BY DEF Init, WalkInv, FirstCastRefused, IndexExact
<1>3. IndexInv
  BY <1>2 DEF Init, IndexInv, Empty
<1> QED
  BY <1>1, <1>2, <1>3 DEF IInv

-----------------------------------------------------------------------------
(* The steps of the gate. *)

LEMMA GateHolds ==
  ASSUME IInv, NEW reject \in BOOLEAN, Gate(reject)
  PROVE  IInv'
<1>1. at = "analyzed" /\ UNCHANGED <<out, report, index, lent, ask>> /\ out.resolved \in Trees
  BY OutFields DEF Gate, IInv, TypeOK
<1>2. CASE reject
  <2>1. at' = "gate" /\ pending' = <<out.resolved.root>> /\ seen' = {}
    BY <1>2 DEF Gate, StartWalk
  <2>2. Progress(out.resolved, {}, <<out.resolved.root>>) /\ InOrder(out.resolved, <<out.resolved.root>>)
    BY <1>1, StartProgresses
  <2>3. <<out.resolved.root>> \in Seq(Nodes \union {Nil}) /\ <<out.resolved.root>> # <<>>
    BY <1>1, TreeFields
  <2>4. TypeOK'
    BY <1>1, <2>1, <2>3 DEF IInv, TypeOK
  <2>5. WalkInv'
    BY <1>1, <2>1, <2>2 DEF WalkInv
  <2>6. FirstCastRefused'
    BY <2>1, <2>3 DEF FirstCastRefused
  <2>7. IndexInv'
    BY <1>1, <2>1 DEF IInv, IndexInv, Building, IndexExact
  <2> QED
    BY <2>4, <2>5, <2>6, <2>7 DEF IInv
<1>3. CASE ~reject
  <2>1. at' = "returned" /\ UNCHANGED <<pending, seen>>
    BY <1>3 DEF Gate
  <2> QED
    BY <1>1, <2>1 DEF IInv, TypeOK, WalkInv, FirstCastRefused, IndexInv, Building, IndexExact
<1> QED
  BY <1>2, <1>3

LEMMA GateVisitHolds ==
  ASSUME IInv, GateVisit
  PROVE  IInv'
<1> DEFINE t == out.resolved
<1>1. /\ at = "gate" /\ pending # <<>> /\ UNCHANGED <<out, index, lent, ask>>
      /\ out \in Outputs /\ t \in Trees /\ Tree = t /\ Node = Head(pending)
      /\ pending \in Seq(Entries) /\ seen \in SUBSET Nodes
      /\ Progress(t, seen, pending) /\ InOrder(t, pending) /\ seen \intersect Unfoldable(t) = {}
  BY OutFields DEF GateVisit, IInv, TypeOK, WalkInv, Tree, Side, Node, Entries
<1>2. Node \in Elements(pending)
  BY <1>1, NextElements
<1>3. Node # Nil => Node \in NodesOf(t) /\ Node \in Nodes
  BY <1>1, <1>2, TreeFields, UnderClosed DEF Progress, NodesOf
<1>4. \A n \in NodesOf(t) : n \in Under(t, t.root)
  BY <1>1, TreeFields DEF NodesOf
<1>5. CASE Rejects(Node)
  <2>1. /\ at' = "refused" /\ UNCHANGED <<pending, seen>>
        /\ report' = [node |-> Node, start |-> StartOf(Tree.cast[Node].source)]
    BY <1>5 DEF GateVisit
  <2>2. Node # Nil
    BY <1>5 DEF Rejects
  <2>3. Node \in Unfoldable(t) /\ StartOf(Tree.cast[Node].source) \in Nat
    BY <1>1, <1>3, <1>5, <2>2, Rejected
  <2>4. ASSUME NEW n \in Unfoldable(t), n # Node PROVE Before(t, Node, n)
    <3>1. n \in Under(t, t.root) /\ n \notin seen
      BY <1>1, <1>4 DEF Unfoldable
    <3> QED
      BY <3>1, <2>2, <2>4, <1>1, HeadIsFirst
  <2>5. FirstCastRefused'
    BY <1>1, <2>1, <2>3, <2>4 DEF FirstCastRefused
  <2>6. TypeOK'
    BY <1>1, <1>3, <2>1, <2>2, <2>3 DEF IInv, TypeOK
  <2> QED
    BY <1>1, <2>1, <2>5, <2>6 DEF IInv, WalkInv, IndexInv, Building, IndexExact
<1>6. CASE ~Rejects(Node)
  <2>1. /\ pending' = NextOf(t, pending) /\ seen' = SeenNext(seen, pending) /\ UNCHANGED <<at, report>>
    BY <1>1, <1>6 DEF GateVisit, Walked, Rest, NextOf, SeenNext
  <2>2. Progress(t, seen', pending') /\ seen' \in SUBSET Nodes /\ pending' \in Seq(Entries) /\ InOrder(t, pending')
    BY <1>1, <2>1, StepProgresses, StepOrdered, NextElements
  <2>3. seen' \intersect Unfoldable(t) = {}
    <3>1. Node # Nil => Node \notin Unfoldable(t)
      BY <1>1, <1>3, <1>6, Rejected
    <3> QED
      BY <3>1, <1>1, <2>1 DEF SeenNext
  <2>4. pending' = <<>> => Unfoldable(t) = {}
    <3>1. pending' = <<>> => seen' = Under(t, t.root)
      BY <1>1, <2>2, AllVisited
    <3> QED
      BY <3>1, <2>3, <1>4 DEF Unfoldable
  <2>5. TypeOK'
    BY <1>1, <2>1, <2>2 DEF IInv, TypeOK, Entries
  <2>6. WalkInv'
    BY <1>1, <2>1, <2>2, <2>3 DEF WalkInv
  <2>7. FirstCastRefused'
    BY <1>1, <2>1, <2>4 DEF FirstCastRefused
  <2> QED
    BY <1>1, <2>1, <2>5, <2>6, <2>7 DEF IInv, IndexInv, Building, IndexExact
<1> QED
  BY <1>5, <1>6

LEMMA GateEndsHolds ==
  ASSUME IInv, GateEnds
  PROVE  IInv'
BY DEF GateEnds, IInv, TypeOK, WalkInv, FirstCastRefused, IndexInv, Building, IndexExact

-----------------------------------------------------------------------------
(* The steps of NewNodeMap. *)

LEMMA NewNodeMapHolds ==
  ASSUME IInv, NewNodeMap
  PROVE  IInv'
<1>1. /\ at = "returned" /\ at' = "resolved" /\ pending' = <<out.resolved.root>> /\ seen' = {}
      /\ UNCHANGED <<out, report, index, lent, ask>> /\ out.resolved \in Trees
  BY OutFields DEF NewNodeMap, StartWalk, IInv, TypeOK
<1>2. Progress(out.resolved, {}, <<out.resolved.root>>) /\ <<out.resolved.root>> \in Seq(Nodes \union {Nil})
  BY <1>1, StartProgresses, TreeFields
<1>3. TypeOK' /\ WalkInv' /\ FirstCastRefused'
  BY <1>1, <1>2 DEF IInv, TypeOK, WalkInv, FirstCastRefused
<1>4. \A side \in Sides, k \in Keys : Elements(index[side][k]) = {} /\ index[side][k] = <<>>
  BY <1>1 DEF IInv, IndexInv, Building, Elements
<1>5. IndexInv'
  BY <1>1, <1>4 DEF IInv, IndexInv, Building, IndexExact, SeenAt, Sides
<1> QED
  BY <1>3, <1>5 DEF IInv

(* One node: its place gets it, no other place changes. *)
LEMMA WithNodeIndexes ==
  ASSUME TypeOK, at \in Sides, NEW t \in Trees, Tree = t, NEW n \in Nodes \union {Nil}
  PROVE  /\ WithNode(n) \in [Sides -> [Keys -> Seq(Nodes)]]
         /\ \A side \in Sides \ {at}, k \in Keys : WithNode(n)[side][k] = index[side][k]
         /\ \A k \in Keys : Elements(WithNode(n)[at][k]) =
              Elements(index[at][k]) \union {m \in {n} \ {Nil} : t.range[m] = k}
<1>1. index \in [Sides -> [Keys -> Seq(Nodes)]] /\ Side = at
  BY DEF TypeOK, Side, Sides
<1>2. CASE n = Nil \/ ~Located(t.range[n])
  <2>1. WithNode(n) = index
    BY <1>2 DEF WithNode
  <2>2. \A k \in Keys : {m \in {n} \ {Nil} : t.range[m] = k} = {}
    BY <1>2, KeyOfNode
  <2> QED
    BY <1>1, <2>1, <2>2
<1>3. CASE ~(n = Nil \/ ~Located(t.range[n]))
  <2> DEFINE l == LocationKey(t.range[n])
  <2>1. n \in Nodes /\ l \in Keys /\ l = t.range[n] /\ n # Nil
    BY <1>3, KeyOfNode
  <2>2. WithNode(n) = [index EXCEPT ![at][l] = Append(@, n)]
    BY <1>1, <1>3 DEF WithNode
  <2> HIDE DEF l
  <2>3. index[at] \in [Keys -> Seq(Nodes)] /\ index[at][l] \in Seq(Nodes)
    BY <1>1, <2>1
  <2>4. Append(index[at][l], n) \in Seq(Nodes) /\ Elements(Append(index[at][l], n)) = Elements(index[at][l]) \union {n}
    BY <2>1, <2>3, Appended
  <2>5. /\ WithNode(n) \in [Sides -> [Keys -> Seq(Nodes)]]
        /\ \A side \in Sides \ {at}, k \in Keys : WithNode(n)[side][k] = index[side][k]
        /\ WithNode(n)[at][l] = Append(index[at][l], n)
        /\ \A k \in Keys \ {l} : WithNode(n)[at][k] = index[at][k]
    BY <1>1, <2>1, <2>2, <2>3, <2>4
  <2>6. ASSUME NEW k \in Keys
        PROVE  Elements(WithNode(n)[at][k]) = Elements(index[at][k]) \union {m \in {n} \ {Nil} : t.range[m] = k}
    <3>1. CASE k = l
      <4>1. {m \in {n} \ {Nil} : t.range[m] = k} = {n}
        BY <3>1, <2>1
      <4> QED
        BY <3>1, <4>1, <2>4, <2>5
    <3>2. CASE k # l
      <4>1. {m \in {n} \ {Nil} : t.range[m] = k} = {}
        BY <3>2, <2>1
      <4> QED
        BY <3>2, <4>1, <2>5
    <3> QED
      BY <3>1, <3>2
  <2> QED
    BY <2>5, <2>6
<1> QED
  BY <1>2, <1>3

LEMMA IndexVisitHolds ==
  ASSUME IInv, IndexVisit
  PROVE  IInv'
<1>1. /\ at \in Sides /\ pending # <<>> /\ UNCHANGED <<out, at, report, lent, ask>>
      /\ index' = WithNode(Node) /\ pending' = Rest /\ seen' = seen \union ({Node} \ {Nil})
      /\ Node = Head(pending) /\ pending \in Seq(Entries) /\ seen \in SUBSET Nodes
      /\ ask = NoAsk /\ lent = {} /\ TypeOK
  BY DEF IndexVisit, Walked, IInv, TypeOK, Node, Entries, IndexInv, Sides
<1>2. Node \in Nodes \union {Nil} /\ Node \in Elements(pending)
  BY <1>1, TailPart, NextElements, ElementsOfSeq DEF Entries
<1>3. at # "gate" /\ at # "built" /\ at # "refused" /\ at \notin Building
  BY <1>1 DEF Sides, Building
<1>4. ASSUME NEW t \in Trees, Tree = t, Progress(t, seen, pending)
      PROVE  /\ TypeOK' /\ Progress(t, seen', pending')
             /\ \A side \in Sides \ {at}, k \in Keys : index'[side][k] = index[side][k]
             /\ \A k \in Keys : Elements(index[at][k]) = SeenAt(t, k) => Elements(index'[at][k]) = SeenAt(t, k)'
  <2>1. pending' = NextOf(t, pending) /\ seen' = SeenNext(seen, pending)
    BY <1>1, <1>4 DEF Rest, NextOf, SeenNext
  <2>2. Progress(t, seen', pending') /\ seen' \in SUBSET Nodes /\ pending' \in Seq(Entries)
    <3>1. Progress(t, SeenNext(seen, pending), NextOf(t, pending)) /\ SeenNext(seen, pending) \in SUBSET Nodes
      BY <1>1, <1>4, StepProgresses
    <3>2. NextOf(t, pending) \in Seq(Entries)
      BY <1>1, NextElements
    <3> QED
      BY <2>1, <3>1, <3>2
  <2>3. /\ index' \in [Sides -> [Keys -> Seq(Nodes)]]
        /\ \A side \in Sides \ {at}, k \in Keys : index'[side][k] = index[side][k]
        /\ \A k \in Keys : Elements(index'[at][k]) = Elements(index[at][k]) \union {m \in {Node} \ {Nil} : t.range[m] = k}
    <3>1. TypeOK /\ at \in Sides /\ Tree = t /\ Node \in Nodes \union {Nil}
      BY <1>1, <1>2, <1>4
    <3>2. /\ WithNode(Node) \in [Sides -> [Keys -> Seq(Nodes)]]
          /\ \A side \in Sides \ {at}, k \in Keys : WithNode(Node)[side][k] = index[side][k]
          /\ \A k \in Keys : Elements(WithNode(Node)[at][k]) =
               Elements(index[at][k]) \union {m \in {Node} \ {Nil} : t.range[m] = k}
      BY <3>1, WithNodeIndexes
    <3> QED
      BY <3>2, <1>1
  <2>4. TypeOK'
    BY <1>1, <2>2, <2>3 DEF TypeOK, Entries
  <2>5. \A k \in Keys : SeenAt(t, k)' = SeenAt(t, k) \union {m \in {Node} \ {Nil} : t.range[m] = k}
    BY <1>1 DEF SeenAt
  <2> QED
    BY <2>2, <2>3, <2>4, <2>5
<1>5. CASE at = "resolved"
  <2> DEFINE t == out.resolved
  <2>1. t \in Trees /\ Tree = t /\ Progress(t, seen, pending) /\ t' = t
    BY <1>1, <1>5, OutFields DEF Tree, Side, IInv, WalkInv, TypeOK
  <2> HIDE DEF t
  <2>2. /\ TypeOK' /\ Progress(t, seen', pending')
        /\ \A k \in Keys : index'["parsed"][k] = index["parsed"][k]
        /\ \A k \in Keys : Elements(index["resolved"][k]) = SeenAt(t, k) => Elements(index'["resolved"][k]) = SeenAt(t, k)'
    BY <2>1, <1>4, <1>5 DEF Sides
  <2>3. \A k \in Keys : Elements(index["resolved"][k]) = SeenAt(t, k) /\ index["parsed"][k] = <<>>
    BY <1>5 DEF IInv, IndexInv, t
  <2>4. \A k \in Keys : Elements(index'["resolved"][k]) = SeenAt(out.resolved, k)' /\ index'["parsed"][k] = <<>>
    BY <2>1, <2>2, <2>3 DEF SeenAt, t
  <2>5. IndexInv'
    BY <1>1, <1>3, <1>5, <2>4 DEF IndexInv, IndexExact, Building
  <2>6. WalkInv' /\ FirstCastRefused'
    BY <1>1, <1>5, <2>1, <2>2 DEF WalkInv, FirstCastRefused, t
  <2> QED
    BY <2>2, <2>5, <2>6 DEF IInv
<1>6. CASE at = "parsed" /\ out.parsed # Nil
  <2> DEFINE t == out.parsed
  <2>1. t \in Trees /\ Tree = t /\ Progress(t, seen, pending) /\ t' = t
    BY <1>1, <1>6, OutFields DEF Tree, Side, IInv, WalkInv, TypeOK
  <2> HIDE DEF t
  <2>2. /\ TypeOK' /\ Progress(t, seen', pending')
        /\ \A k \in Keys : index'["resolved"][k] = index["resolved"][k]
        /\ \A k \in Keys : Elements(index["parsed"][k]) = SeenAt(t, k) => Elements(index'["parsed"][k]) = SeenAt(t, k)'
    BY <2>1, <1>4, <1>6 DEF Sides
  <2>3. \A k \in Keys : Elements(index["parsed"][k]) = SeenAt(t, k) /\ Elements(index["resolved"][k]) = At(out.resolved, k)
    BY <1>6 DEF IInv, IndexInv, t
  <2>4. \A k \in Keys : /\ Elements(index'["parsed"][k]) = SeenAt(out.parsed, k)'
                        /\ Elements(index'["resolved"][k]) = At(out.resolved, k)
    BY <2>1, <2>2, <2>3 DEF SeenAt, t
  <2>5. IndexInv'
    BY <1>1, <1>3, <1>6, <2>4 DEF IndexInv, IndexExact, Building
  <2>6. WalkInv' /\ FirstCastRefused'
    BY <1>1, <1>6, <2>1, <2>2 DEF WalkInv, FirstCastRefused, t
  <2> QED
    BY <2>2, <2>5, <2>6 DEF IInv
<1>7. CASE at = "parsed" /\ out.parsed = Nil
  <2>1. seen = {} /\ Elements(pending) \subseteq {Nil} /\ Node = Nil
    BY <1>2, <1>7 DEF IInv, WalkInv
  <2>2. pending' = Tail(pending) /\ seen' = {} /\ index' = index
    BY <1>1, <2>1 DEF Rest, WithNode
  <2>3. Tail(pending) \in Seq(Entries) /\ Elements(Tail(pending)) \subseteq {Nil}
    <3>1. /\ Tail(pending) \in Seq(Entries) /\ Len(Tail(pending)) = Len(pending) - 1 /\ Len(pending) \in Nat \ {0}
          /\ \A i \in 1 .. Len(pending) - 1 : Tail(pending)[i] = pending[i + 1]
      BY <1>1, TailPart
    <3>2. ASSUME NEW i \in DOMAIN Tail(pending) PROVE Tail(pending)[i] \in {Nil}
      <4>1. i + 1 \in 1 .. Len(pending) /\ Tail(pending)[i] = pending[i + 1]
        BY <3>1
      <4> QED
        BY <4>1, <1>1, <2>1, ElementsOfSeq
    <3> QED
      BY <3>1, <3>2 DEF Elements
  <2>4. TypeOK'
    BY <1>1, <2>2, <2>3 DEF TypeOK, Entries
  <2>5. WalkInv' /\ FirstCastRefused'
    BY <1>1, <1>7, <2>2, <2>3 DEF WalkInv, FirstCastRefused
  <2>6. IndexInv'
    BY <1>1, <1>3, <1>7, <2>1, <2>2 DEF IInv, IndexInv, IndexExact, Building, SeenAt
  <2> QED
    BY <2>4, <2>5, <2>6 DEF IInv
<1> QED
  BY <1>1, <1>5, <1>6, <1>7 DEF Sides

LEMMA ResolvedIndexedHolds ==
  ASSUME IInv, ResolvedIndexed
  PROVE  IInv'
<1> DEFINE root == IF out.parsed = Nil THEN Nil ELSE out.parsed.root
<1>1. /\ at = "resolved" /\ at' = "parsed" /\ pending = <<>> /\ pending' = <<root>> /\ seen' = {}
      /\ UNCHANGED <<out, report, index, lent, ask>> /\ out.resolved \in Trees
      /\ out.parsed = Nil \/ out.parsed \in Trees
      /\ seen \in SUBSET Nodes /\ Progress(out.resolved, seen, pending)
  BY OutFields DEF ResolvedIndexed, StartWalk, IInv, TypeOK, WalkInv
<1>2. root = Nil \/ root \in Nodes
  BY <1>1, TreeFields
<1>3. seen = NodesOf(out.resolved)
  BY <1>1, AllVisited, TreeFields DEF NodesOf
<1>4. out.parsed # Nil => Progress(out.parsed, {}, <<root>>)
  BY <1>1, StartProgresses
<1>5. out.parsed = Nil => Elements(<<root>>) = {Nil}
  BY DEF Elements
<1> HIDE DEF root
<1>6. <<root>> \in Seq(Nodes \union {Nil})
  BY <1>2
<1>7. TypeOK' /\ FirstCastRefused'
  BY <1>1, <1>6 DEF IInv, TypeOK, FirstCastRefused
<1>8. WalkInv'
  BY <1>1, <1>4, <1>5 DEF WalkInv
<1>9. \A k \in Keys : /\ Elements(index["resolved"][k]) = At(out.resolved, k)
                      /\ Elements(index["parsed"][k]) = {}
  BY <1>1, <1>3 DEF IInv, IndexInv, At, SeenAt, Elements
<1>10. IndexInv'
  BY <1>1, <1>9 DEF IInv, IndexInv, IndexExact, SeenAt, Building
<1> QED
  BY <1>7, <1>8, <1>10 DEF IInv

LEMMA ParsedIndexedHolds ==
  ASSUME IInv, ParsedIndexed
  PROVE  IInv'
<1>1. /\ at = "parsed" /\ at' = "built" /\ pending = <<>>
      /\ UNCHANGED <<out, pending, seen, report, index, lent, ask>>
      /\ out.parsed = Nil \/ out.parsed \in Trees
      /\ seen \in SUBSET Nodes
  BY OutFields DEF ParsedIndexed, IInv, TypeOK
<1>2. seen = NodesOf(out.parsed)
  <2>1. CASE out.parsed = Nil
    BY <1>1, <2>1 DEF IInv, WalkInv, NodesOf
  <2>2. CASE out.parsed # Nil
    BY <1>1, <2>2, AllVisited DEF IInv, WalkInv, NodesOf
  <2> QED
    BY <2>1, <2>2
<1>3. \A k \in Keys : /\ Elements(index["resolved"][k]) = At(out.resolved, k)
                      /\ Elements(index["parsed"][k]) = At(out.parsed, k)
  BY <1>1, <1>2 DEF IInv, IndexInv, At, SeenAt
<1>4. IndexInv'
  BY <1>1, <1>3 DEF IndexInv, IndexExact, Building, Sides
<1>5. TypeOK' /\ WalkInv' /\ FirstCastRefused'
  BY <1>1 DEF IInv, TypeOK, WalkInv, FirstCastRefused
<1> QED
  BY <1>4, <1>5 DEF IInv

-----------------------------------------------------------------------------
(* Lookups, and what callers do with what they were given. *)

LEMMA LookupHolds ==
  ASSUME IInv, UNCHANGED <<out, at, pending, seen, report, index>>, at = "built",
         lent' \subseteq Sides \X Keys,
         ask' \in [at : {"idle", "ranging", "answered"}, by : Calls, key : Keys \union {Nil},
                   node : Nodes \union {Nil}, todo : SUBSET Keys, nodes : Seq(Nodes)]
  PROVE  IInv'
BY DEF IInv, TypeOK, WalkInv, FirstCastRefused, IndexInv, IndexExact, Building

LEMMA CallerSortsHolds ==
  ASSUME IInv, NEW side \in Sides, NEW k \in Keys, CallerSorts(side, k)
  PROVE  IInv'
<1> DEFINE s == index[side][k]
<1>1. PICK i \in DOMAIN s, j \in DOMAIN s :
         index' = [index EXCEPT ![side][k] = [@ EXCEPT ![i] = index[side][k][j], ![j] = index[side][k][i]]]
  BY DEF CallerSorts
<1>2. /\ UNCHANGED <<out, at, pending, seen, report, lent, ask>> /\ lent # {} /\ at = "built"
      /\ index \in [Sides -> [Keys -> Seq(Nodes)]] /\ s \in Seq(Nodes)
  BY DEF CallerSorts, IInv, IndexInv, TypeOK
<1> DEFINE r == [s EXCEPT ![i] = s[j], ![j] = s[i]]
<1>3. r \in Seq(Nodes) /\ Elements(r) = Elements(s)
  BY <1>2, Sorted
<1>4. index' = [index EXCEPT ![side][k] = r]
  BY <1>1
<1> HIDE DEF r
<1>5. /\ index' \in [Sides -> [Keys -> Seq(Nodes)]]
      /\ \A d \in Sides, l \in Keys : Elements(index'[d][l]) = Elements(index[d][l])
  <2>1. index' \in [Sides -> [Keys -> Seq(Nodes)]]
    BY <1>2, <1>3, <1>4
  <2>2. index'[side][k] = r
    BY <1>2, <1>4
  <2>3. \A d \in Sides, l \in Keys : <<d, l>> # <<side, k>> => index'[d][l] = index[d][l]
    BY <1>2, <1>4
  <2> QED
    BY <1>3, <2>1, <2>2, <2>3
<1>6. IndexExact'
  BY <1>2, <1>5 DEF IInv, IndexInv, IndexExact
<1> QED
  BY <1>2, <1>5, <1>6 DEF IInv, TypeOK, WalkInv, FirstCastRefused, IndexInv, Building

Answers == [at : {"idle", "ranging", "answered"}, by : Calls, key : Keys \union {Nil},
            node : Nodes \union {Nil}, todo : SUBSET Keys, nodes : Seq(Nodes)]

LEMMA Answered ==
  ASSUME NEW by \in Calls, NEW l \in Keys \union {Nil}, NEW m \in Nodes \union {Nil}, NEW s \in Seq(Nodes),
         Answer(by, l, m, s)
  PROVE  ask' \in Answers
<1>1. ask' = [at |-> "answered", by |-> by, key |-> l, node |-> m, todo |-> {}, nodes |-> s]
  BY DEF Answer, NoAsk
<1> QED
  BY <1>1 DEF Answers

LEMMA Lent ==
  ASSUME IInv, NEW side \in Sides, NEW k \in Keys, Lend(side, k)
  PROVE  lent' \subseteq Sides \X Keys
BY DEF Lend, IInv, TypeOK

LEMMA LookupFacts ==
  ASSUME IInv
  PROVE  /\ index \in [Sides -> [Keys -> Seq(Nodes)]] /\ ask \in Answers /\ lent \subseteq Sides \X Keys
         /\ "resolved" \in Sides /\ "parsed" \in Sides /\ out.resolved \in Trees
         /\ \A k \in Keys : index["resolved"][k] \in Seq(Nodes) /\ index["parsed"][k] \in Seq(Nodes)
         /\ ask.at # "idle" => at = "built"
BY OutFields DEF IInv, TypeOK, IndexInv, Sides, NoAsk, Answers

LEMMA NodeAtHolds ==
  ASSUME IInv, NEW k \in Keys, NodeAt(k)
  PROVE  IInv'
<1> DEFINE found == index["resolved"][k]
           given == IF found = <<>> THEN <<>> ELSE <<Head(found)>>
<1>1. given \in Seq(Nodes)
  <2>1. found \in Seq(Nodes)
    BY LookupFacts
  <2>2. found # <<>> => Head(found) \in Nodes
    BY <2>1, TailPart
  <2> QED
    BY <2>2
<1>2. Answer("NodeAt", k, Nil, given) /\ UNCHANGED lent /\ CanAsk
  BY DEF NodeAt
<1> HIDE DEF given
<1>3. ask' \in Answers
  BY <1>1, <1>2, Answered DEF Calls
<1> QED
  BY <1>2, <1>3, LookupFacts, LookupHolds DEF CanAsk, Answers

LEMMA NodesAtHolds ==
  ASSUME IInv, NEW k \in Keys, NodesAt(k)
  PROVE  IInv'
<1>1. CanAsk /\ Answer("NodesAt", k, Nil, index["resolved"][k]) /\ Lend("resolved", k)
  BY DEF NodesAt
<1>2. lent' \subseteq Sides \X Keys
  BY <1>1, LookupFacts, Lent
<1>3. ask' \in Answers
  <2>1. index["resolved"][k] \in Seq(Nodes)
    BY LookupFacts
  <2> QED
    BY <1>1, <2>1, Answered DEF Calls
<1> QED
  BY <1>1, <1>2, <1>3, LookupHolds DEF CanAsk, Answers

LEMMA FindParsedNodesHolds ==
  ASSUME IInv, NEW n \in Nodes, FindParsedNodes(n)
  PROVE  IInv'
<1> DEFINE r == out.resolved.range[n]
           l == LocationKey(r)
<1>1. CASE Located(r)
  <2>1. l \in Keys
    BY <1>1, LookupFacts, KeyOfNode
  <2>2. CanAsk /\ Answer("FindParsedNodes", l, n, index["parsed"][l]) /\ Lend("parsed", l)
    BY <1>1 DEF FindParsedNodes
  <2> HIDE DEF l
  <2>3. lent' \subseteq Sides \X Keys
    BY <2>1, <2>2, LookupFacts, Lent
  <2>4. index["parsed"][l] \in Seq(Nodes)
    BY <2>1, LookupFacts
  <2>5. ask' \in Answers
    BY <2>1, <2>2, <2>4, Answered DEF Calls
  <2> QED
    BY <2>2, <2>3, <2>5, LookupHolds DEF CanAsk, Answers
<1>2. CASE ~Located(r)
  <2>1. CanAsk /\ Answer("FindParsedNodes", Nil, n, <<>>) /\ UNCHANGED lent
    BY <1>2 DEF FindParsedNodes
  <2>2. <<>> \in Seq(Nodes)
    OBVIOUS
  <2>3. ask' \in Answers
    BY <2>1, <2>2, Answered DEF Calls
  <2> QED
    BY <2>1, <2>3, LookupFacts, LookupHolds DEF CanAsk, Answers
<1> QED
  BY <1>1, <1>2

LEMMA NodesInRangeHolds ==
  ASSUME IInv, NEW k \in Keys, NodesInRange(k)
  PROVE  IInv'
<1> DEFINE todo == {l \in Keys : index["resolved"][l] # <<>>}
<1>1. CanAsk /\ UNCHANGED lent /\ todo \subseteq Keys
  BY DEF NodesInRange
<1>2. ask' = [at |-> "ranging", by |-> "NodesInRange", key |-> k, node |-> Nil, todo |-> todo, nodes |-> <<>>]
  BY DEF NodesInRange, NoAsk
<1> HIDE DEF todo
<1>3. ask' \in Answers
  BY <1>1, <1>2 DEF Answers, Calls
<1> QED
  BY <1>1, <1>3, LookupFacts, LookupHolds DEF CanAsk, Answers

LEMMA RangeOverHolds ==
  ASSUME IInv, NEW k \in Keys, RangeOver(k)
  PROVE  IInv'
<1> DEFINE more == IF Within(k, ask.key) THEN ask.nodes \o index["resolved"][k] ELSE ask.nodes
<1>1. ask \in Answers /\ index["resolved"][k] \in Seq(Nodes)
  BY LookupFacts
<1>2. more \in Seq(Nodes)
  BY <1>1 DEF Answers
<1>3. /\ ask' = [[ask EXCEPT !.todo = @ \ {k}] EXCEPT !.nodes = more] /\ UNCHANGED <<out, at, pending, seen, report, index, lent>>
      /\ ask.at = "ranging"
  BY DEF RangeOver
<1> HIDE DEF more
<1>4. ask' \in Answers
  BY <1>1, <1>2, <1>3 DEF Answers
<1> QED
  BY <1>3, <1>4, LookupFacts, LookupHolds DEF Answers

LEMMA AnswerEnds ==
  ASSUME IInv, RangedOver \/ LookupReturns
  PROVE  IInv'
<1>1. ask \in Answers /\ ask.at # "idle" /\ UNCHANGED <<out, at, pending, seen, report, index, lent>>
  BY LookupFacts DEF RangedOver, LookupReturns
<1>2. ask' \in Answers
  <2>1. CASE RangedOver
    BY <2>1, <1>1 DEF RangedOver, Answers
  <2>2. CASE LookupReturns
    BY <2>2 DEF LookupReturns, NoAsk, Answers, Calls
  <2> QED
    BY <2>1, <2>2
<1> QED
  BY <1>1, <1>2, LookupFacts, LookupHolds DEF Answers

LEMMA NextHolds == IInv /\ [Next]_vars => IInv'
<1> SUFFICES ASSUME IInv, [Next]_vars PROVE IInv'
  OBVIOUS
<1>1. CASE UNCHANGED vars
  BY <1>1 DEF vars, IInv, TypeOK, WalkInv, FirstCastRefused, IndexInv, IndexExact, Building, SeenAt
<1>2. CASE \E reject \in BOOLEAN : Gate(reject)
  BY <1>2, GateHolds
<1>3. CASE GateVisit \/ GateEnds
  BY <1>3, GateVisitHolds, GateEndsHolds
<1>4. CASE NewNodeMap \/ IndexVisit \/ ResolvedIndexed \/ ParsedIndexed
  BY <1>4, NewNodeMapHolds, IndexVisitHolds, ResolvedIndexedHolds, ParsedIndexedHolds
<1>5. CASE \E k \in Keys : NodeAt(k) \/ NodesAt(k) \/ NodesInRange(k) \/ RangeOver(k)
  BY <1>5, NodeAtHolds, NodesAtHolds, NodesInRangeHolds, RangeOverHolds
<1>6. CASE (\E n \in Nodes : FindParsedNodes(n)) \/ RangedOver \/ LookupReturns
  BY <1>6, FindParsedNodesHolds, AnswerEnds
<1>7. CASE \E side \in Sides, k \in Keys : CallerSorts(side, k)
  BY <1>7, CallerSortsHolds
<1> QED
  BY <1>1, <1>2, <1>3, <1>4, <1>5, <1>6, <1>7 DEF Next

LEMMA IInvHolds == Spec => []IInv
BY InitHolds, NextHolds, PTL DEF Spec

(* The types of the walks, the index and the lookups. *)
THEOREM NodeMapTypeCorrect == Spec => []TypeOK
<1>1. IInv => TypeOK
  BY DEF IInv
<1> QED
  BY <1>1, IInvHolds, PTL

(* However large the tree: the gate refuses the first cast in the order of the statement that cannot
   fold (engine.go:607), and a statement that it lets pass has none. *)
THEOREM GateRefusesFirst == Spec => []FirstCastRefused
<1>1. IInv => FirstCastRefused
  BY DEF IInv
<1> QED
  BY <1>1, IInvHolds, PTL

(* However large the trees: an entry of the index has the nodes of its tree at that place, all and
   only those (node_map.go:33), and callers that sort what they were given lose none of them. *)
THEOREM IndexIsExact == Spec => []IndexExact
<1>1. IInv => IndexExact
  BY DEF IInv, IndexInv
<1> QED
  BY <1>1, IInvHolds, PTL

-----------------------------------------------------------------------------
(* Places in a tree: what is under one child is not under another.         *)

LEMMA ChildIsNode ==
  ASSUME NEW t \in Trees, NEW p \in Nodes, NEW a \in DOMAIN t.children[p], t.children[p][a] # Nil
  PROVE  t.children[p][a] \in Nodes /\ t.children[p][a] \in Under(t, p)
<1>1. t.children[p] \in Seq(Entries)
  BY TreeFields
<1>2. t.children[p][a] \in Elements(t.children[p]) \ {Nil} /\ t.children[p][a] \in Nodes
  BY <1>1, ElementsOfSeq DEF Elements, Entries
<1> QED
  BY <1>2, UnderClosed

(* All that is under a node but itself is the child of something under it. *)
LEMMA HasParent ==
  ASSUME NEW t \in Trees, NEW n \in Nodes, NEW m \in Under(t, n), m # n
  PROVE  \E p \in Under(t, n) : \E i \in DOMAIN t.children[p] : t.children[p][i] = m
<1> DEFINE S == Under(t, n) \ {m}
<1>1. SUFFICES ASSUME \A p \in Under(t, n) : m \notin Elements(t.children[p]) PROVE FALSE
  BY DEF Elements
<1>2. n \in S /\ S \in SUBSET Nodes
  BY UnderClosed
<1>3. IsClosed(t, S)
  BY <1>1, UnderClosed DEF IsClosed
<1> QED
  BY <1>2, <1>3, UnderSmallest

(* The facts of IsTree for the places a and b of the nodes p and q. *)
LEMMA OnePlace ==
  ASSUME NEW t \in Trees, IsTree(t), NEW p \in Under(t, t.root), NEW q \in Under(t, t.root),
         NEW a \in DOMAIN t.children[p], NEW b \in DOMAIN t.children[q], t.children[p][a] # Nil
  PROVE  /\ p \notin Under(t, t.children[p][a])
         /\ t.children[p][a] = t.children[q][b] => p = q /\ a = b
<1>1. NodesOf(t) = Under(t, t.root)
  BY TreeFields DEF NodesOf
<1> QED
  BY <1>1 DEF IsTree

LEMMA SiblingsApart ==
  ASSUME NEW t \in Trees, IsTree(t), NEW p \in Under(t, t.root),
         NEW a \in DOMAIN t.children[p], NEW b \in DOMAIN t.children[p], a # b,
         t.children[p][a] # Nil, t.children[p][b] # Nil
  PROVE  Under(t, t.children[p][a]) \intersect Under(t, t.children[p][b]) = {}
<1> DEFINE c == t.children[p][a]
           d == t.children[p][b]
           S == Under(t, c) \ Under(t, d)
<1>1. /\ t.root \in Nodes /\ p \in Nodes /\ c \in Nodes /\ d \in Nodes
      /\ Under(t, c) \subseteq Under(t, t.root) /\ Under(t, d) \subseteq Under(t, t.root)
  BY TreeFields, UnderTransitive, ChildIsNode
<1>2. c # d /\ p \notin Under(t, c) /\ p \notin Under(t, d)
  BY OnePlace
<1>3. ASSUME NEW y \in Under(t, c) \union {p}, NEW i \in DOMAIN t.children[y], t.children[y][i] \in Under(t, d),
             t.children[y][i] # Nil
      PROVE  y \in Under(t, d) \/ (t.children[y][i] = d /\ y = p)
  <2>1. y \in Under(t, t.root)
    BY <1>1
  <2>2. CASE t.children[y][i] = d
    BY <2>1, <2>2, OnePlace
  <2>3. CASE t.children[y][i] # d
    <3>1. PICK x \in Under(t, d) : \E j \in DOMAIN t.children[x] : t.children[x][j] = t.children[y][i]
      BY <1>1, <1>3, <2>3, HasParent
    <3>2. x = y
      BY <1>1, <1>3, <2>1, <3>1, OnePlace
    <3> QED
      BY <3>1, <3>2
  <2> QED
    BY <2>2, <2>3
<1>4. c \in S
  <2>1. c \in Under(t, c)
    BY <1>1, UnderClosed
  <2>2. c \notin Under(t, d)
    BY <1>2, <1>3
  <2> QED
    BY <2>1, <2>2
<1>5. IsClosed(t, S)
  <2> SUFFICES ASSUME NEW y \in S, NEW z \in Elements(t.children[y]) \ {Nil} PROVE z \in S
    BY DEF IsClosed
  <2>1. PICK i \in DOMAIN t.children[y] : z = t.children[y][i]
    BY DEF Elements
  <2>2. z \in Under(t, c)
    BY <1>1, UnderClosed
  <2>3. z \notin Under(t, d)
    BY <1>2, <1>3, <2>1
  <2> QED
    BY <2>2, <2>3
<1>6. S \in SUBSET Nodes
  BY <1>1, UnderClosed
<1> QED
  BY <1>4, <1>5, <1>6, UnderSmallest

(* What stands apart has nothing in common. *)
LEMMA ApartShareNothing ==
  ASSUME NEW t \in Trees, IsTree(t), NEW x \in Nodes, NEW y \in Nodes, Apart(t, x, y)
  PROVE  Under(t, x) \intersect Under(t, y) = {}
<1>1. PICK p \in Under(t, t.root) : \E a, b \in DOMAIN t.children[p] :
         /\ a < b /\ t.children[p][a] # Nil /\ t.children[p][b] # Nil
         /\ x \in Under(t, t.children[p][a]) /\ y \in Under(t, t.children[p][b])
  BY DEF Apart
<1>2. PICK a \in DOMAIN t.children[p], b \in DOMAIN t.children[p] :
         /\ a < b /\ t.children[p][a] # Nil /\ t.children[p][b] # Nil
         /\ x \in Under(t, t.children[p][a]) /\ y \in Under(t, t.children[p][b])
  BY <1>1
<1>3. t.children[p][a] \in Nodes /\ t.children[p][b] \in Nodes
  BY <1>2, TreeFields, UnderTransitive, ChildIsNode
<1>4. a # b
  <2>1. p \in Nodes
    BY TreeFields, UnderTransitive
  <2>2. a \in Nat /\ b \in Nat
    BY <2>1, TreeFields, ElementsOfSeq
  <2> QED
    BY <1>2, <2>2
<1>5. Under(t, t.children[p][a]) \intersect Under(t, t.children[p][b]) = {}
  BY <1>2, <1>4, SiblingsApart
<1> QED
  BY <1>2, <1>3, <1>5, UnderTransitive

(* No node comes before itself. *)
LEMMA BeforeDiffers ==
  ASSUME NEW t \in Trees, IsTree(t), NEW m \in Nodes, NEW n \in Nodes, Before(t, m, n)
  PROVE  m # n
<1>1. SUFFICES ASSUME m = n PROVE FALSE
  OBVIOUS
<1>2. Apart(t, m, n)
  BY <1>1, TreeFields DEF Before, Apart, NodesOf
<1> QED
  BY <1>1, <1>2, ApartShareNothing, UnderClosed

-----------------------------------------------------------------------------
(* The order in which a tree is indexed. *)

(* Nothing under what is pending was visited; what was visited comes before all that was not. *)
Fresh(t, S, q)  == \A i \in 1 .. Len(q) : q[i] # Nil => Under(t, q[i]) \intersect S = {}
Passed(t, S)    == \A m \in S, n \in Under(t, t.root) \ S : Before(t, m, n)
Walking(t, S, q) == Progress(t, S, q) /\ InOrder(t, q) /\ Fresh(t, S, q) /\ Passed(t, S)

LEMMA StartWalks ==
  ASSUME NEW t \in Trees
  PROVE  Walking(t, {}, <<t.root>>)
BY StartProgresses DEF Walking, Fresh, Passed

LEMMA HeadIsFresh ==
  ASSUME NEW t \in Trees, IsTree(t), NEW S \in SUBSET Nodes, NEW q \in Seq(Entries), q # <<>>, Walking(t, S, q),
         Head(q) # Nil
  PROVE  Head(q) \in Under(t, t.root) \ S /\ Head(q) \in Nodes
<1>1. Len(q) \in Nat \ {0} /\ Head(q) = q[1] /\ Head(q) \in Nodes /\ 1 \in 1 .. Len(q)
  BY TailPart DEF Entries
<1>2. Head(q) \in Elements(q)
  BY NextElements
<1>3. Head(q) \in Under(t, Head(q))
  BY <1>1, UnderClosed
<1> QED
  BY <1>1, <1>2, <1>3 DEF Walking, Progress, Fresh

(* The head differs from all that is under the rest, and all that is below it. *)
LEMMA StepFresh ==
  ASSUME NEW t \in Trees, IsTree(t), NEW S \in SUBSET Nodes, NEW q \in Seq(Entries), q # <<>>, Walking(t, S, q)
  PROVE  Fresh(t, SeenNext(S, q), NextOf(t, q))
<1> DEFINE h == Head(q)
           T == SeenNext(S, q)
<1>1. /\ Tail(q) \in Seq(Entries) /\ Len(q) \in Nat \ {0} /\ Len(Tail(q)) = Len(q) - 1
      /\ \A i \in 1 .. Len(q) - 1 : Tail(q)[i] = q[i + 1]
      /\ h = q[1] /\ h \in Entries
  BY TailPart
<1>2. ASSUME NEW k \in 2 .. Len(q), q[k] # Nil PROVE Under(t, q[k]) \intersect T = {}
  <2>1. Under(t, q[k]) \intersect S = {}
    <3>1. k \in 1 .. Len(q)
      BY <1>1
    <3> QED
      BY <3>1, <1>2 DEF Walking, Fresh
  <2>2. CASE h = Nil
    BY <2>1, <2>2 DEF SeenNext
  <2>3. CASE h # Nil
    <3>1. Apart(t, h, q[k])
      <4>1. 1 \in 1 .. Len(q) /\ 1 < k /\ k \in 1 .. Len(q)
        BY <1>1
      <4> QED
        BY <4>1, <1>1, <1>2, <2>3 DEF Walking, InOrder
    <3>2. h \in Nodes /\ q[k] \in Nodes
      <4>1. k \in 1 .. Len(q)
        BY <1>1
      <4> QED
        BY <4>1, <1>1, <1>2, <2>3, ElementsOfSeq DEF Entries
    <3>3. h \notin Under(t, q[k])
      BY <3>1, <3>2, ApartShareNothing, UnderClosed
    <3> QED
      BY <2>1, <3>3 DEF SeenNext
  <2> QED
    BY <2>2, <2>3
<1>3. CASE h = Nil
  <2>1. NextOf(t, q) = Tail(q)
    BY <1>3 DEF NextOf
  <2>2. ASSUME NEW i \in 1 .. Len(Tail(q)), Tail(q)[i] # Nil PROVE Under(t, Tail(q)[i]) \intersect T = {}
    <3>1. i + 1 \in 2 .. Len(q) /\ Tail(q)[i] = q[i + 1]
      BY <1>1
    <3> QED
      BY <3>1, <2>2, <1>2
  <2> QED
    BY <2>1, <2>2 DEF Fresh
<1>4. CASE h # Nil
  <2> DEFINE s == t.children[h]
             r == s \o Tail(q)
  <2>1. s \in Seq(Entries) /\ NextOf(t, q) = r /\ h \in Nodes
    BY <1>1, <1>4, TreeFields DEF NextOf, Entries
  <2>2. h \in Under(t, t.root)
    BY <1>4, HeadIsFresh
  <2>3. ASSUME NEW i \in 1 .. Len(s), s[i] # Nil PROVE Under(t, s[i]) \intersect T = {}
    <3>1. i \in DOMAIN t.children[h] /\ t.children[h][i] = s[i]
      BY <2>1, ElementsOfSeq
    <3>2. s[i] \in Under(t, h) /\ h \notin Under(t, s[i])
      BY <2>1, <2>2, <2>3, <3>1, ChildIsNode, OnePlace
    <3>3. Under(t, s[i]) \subseteq Under(t, h)
      BY <2>1, <3>2, UnderTransitive
    <3>4. Under(t, h) \intersect S = {}
      <4>1. 1 \in 1 .. Len(q)
        BY <1>1
      <4> QED
        BY <4>1, <1>1, <1>4 DEF Walking, Fresh
    <3> QED
      BY <3>2, <3>3, <3>4 DEF SeenNext
  <2> HIDE DEF s, T
  <2>4. /\ Len(s) \in Nat /\ Len(r) = Len(s) + Len(q) - 1
        /\ \A i \in 1 .. Len(s) : r[i] = s[i]
        /\ \A i \in 1 .. Len(s) + Len(q) - 1 : i > Len(s) => r[i] = q[i - Len(s) + 1]
    BY <2>1, Queue
  <2> HIDE DEF r
  <2>5. ASSUME NEW i \in 1 .. Len(r), r[i] # Nil PROVE Under(t, r[i]) \intersect T = {}
    <3>1. CASE i <= Len(s)
      <4>1. i \in 1 .. Len(s) /\ r[i] = s[i]
        BY <3>1, <2>4
      <4> QED
        BY <4>1, <2>3, <2>5
    <3>2. CASE i > Len(s)
      <4>1. r[i] = q[i - Len(s) + 1]
        BY <3>2, <2>4
      <4>2. i - Len(s) + 1 \in 2 .. Len(q)
        <5>1. Len(s) \in Nat /\ Len(q) \in Nat /\ i \in Nat /\ i <= Len(s) + Len(q) - 1 /\ i > Len(s)
          BY <3>2, <1>1, <2>4
        <5> QED
          BY <5>1
      <4> QED
        BY <4>1, <4>2, <1>2, <2>5
    <3> QED
      BY <3>1, <3>2, <2>4
  <2> QED
    BY <2>1, <2>5 DEF Fresh, T
<1> QED
  BY <1>3, <1>4

LEMMA StepWalks ==
  ASSUME NEW t \in Trees, IsTree(t), NEW S \in SUBSET Nodes, NEW q \in Seq(Entries), q # <<>>, Walking(t, S, q)
  PROVE  Walking(t, SeenNext(S, q), NextOf(t, q))
<1>1. Progress(t, SeenNext(S, q), NextOf(t, q)) /\ InOrder(t, NextOf(t, q)) /\ Fresh(t, SeenNext(S, q), NextOf(t, q))
  BY StepProgresses, StepOrdered, StepFresh DEF Walking
<1>2. ASSUME NEW m \in SeenNext(S, q), NEW n \in Under(t, t.root) \ SeenNext(S, q) PROVE Before(t, m, n)
  <2>1. CASE m \in S
    BY <2>1 DEF Walking, Passed, SeenNext
  <2>2. CASE m \notin S
    <3>1. m = Head(q) /\ Head(q) # Nil /\ n \notin S /\ n # Head(q)
      BY <2>2 DEF SeenNext
    <3> QED
      BY <3>1, HeadIsFirst DEF Walking
  <2> QED
    BY <2>1, <2>2
<1> QED
  BY <1>1, <1>2 DEF Walking, Passed

(* The entries of the index: no node twice, and in the order of the tree until a caller sorts them. *)
NoTwins(s)    == \A i, j \in DOMAIN s : i # j => s[i] # s[j]
Ordered(t, s) == \A i, j \in DOMAIN s : i < j => Before(t, s[i], s[j])

LEMMA OrderedAppend ==
  ASSUME NEW t, NEW s \in Seq(Nodes), NEW n \in Nodes
  PROVE  /\ NoTwins(s) /\ n \notin Elements(s) => NoTwins(Append(s, n))
         /\ Ordered(t, s) /\ (\A m \in Elements(s) : Before(t, m, n)) => Ordered(t, Append(s, n))
<1> DEFINE r == Append(s, n)
<1>1. /\ Len(r) = Len(s) + 1 /\ Len(s) \in Nat /\ r[Len(s) + 1] = n
      /\ \A i \in 1 .. Len(s) : r[i] = s[i] /\ r[i] \in Elements(s)
      /\ DOMAIN r = 1 .. Len(s) + 1 /\ DOMAIN s = 1 .. Len(s)
  BY AppendProperties, ElementsOfSeq
<1> HIDE DEF r
<1>2. ASSUME NoTwins(s), n \notin Elements(s), NEW i \in DOMAIN r, NEW j \in DOMAIN r, i # j PROVE r[i] # r[j]
  BY <1>1, <1>2 DEF NoTwins
<1>3. ASSUME Ordered(t, s), \A m \in Elements(s) : Before(t, m, n), NEW i \in DOMAIN r, NEW j \in DOMAIN r, i < j
      PROVE  Before(t, r[i], r[j])
  <2>1. i \in 1 .. Len(s) /\ (j \in 1 .. Len(s) \/ j = Len(s) + 1)
    BY <1>1, <1>3
  <2> QED
    BY <1>1, <1>3, <2>1 DEF Ordered
<1> QED
  BY <1>2, <1>3 DEF NoTwins, Ordered, r

LEMMA LengthCounts ==
  ASSUME NEW S, NEW s \in Seq(S), NoTwins(s)
  PROVE  Len(s) = Cardinality(Elements(s))
<1>1. s \in [1 .. Len(s) -> Elements(s)] /\ Len(s) \in Nat /\ DOMAIN s = 1 .. Len(s)
  BY ElementsOfSeq
<1>2. s \in Bijection(1 .. Len(s), Elements(s))
  BY <1>1, ElementsOfSeq DEF NoTwins, Bijection, Injection, Surjection, IsInjective
<1>3. IsFiniteSet(1 .. Len(s)) /\ Cardinality(1 .. Len(s)) = Len(s)
  <2> DEFINE n == Len(s)
  <2>1. n \in Nat
    BY <1>1
  <2> HIDE DEF n
  <2>2. /\ IsFiniteSet(1 .. n)
        /\ Cardinality(1 .. n) = IF 1 > n THEN 0 ELSE n - 1 + 1
    BY <2>1, FS_Interval
  <2>3. Cardinality(1 .. n) = n
    BY <2>1, <2>2
  <2> QED
    BY <2>2, <2>3 DEF n
<1> QED
  BY <1>2, <1>3, FS_Bijection DEF ExistsBijection

LEMMA ConcatApart ==
  ASSUME NEW s \in Seq(Nodes), NEW r \in Seq(Nodes)
  PROVE  /\ s \o r \in Seq(Nodes) /\ Elements(s \o r) = Elements(s) \union Elements(r)
         /\ NoTwins(s) /\ NoTwins(r) /\ Elements(s) \intersect Elements(r) = {} => NoTwins(s \o r)
<1> DEFINE q == s \o r
<1>1. /\ q \in Seq(Nodes) /\ Len(q) = Len(s) + Len(r) /\ Len(s) \in Nat /\ Len(r) \in Nat
      /\ \A i \in 1 .. Len(s) + Len(r) : q[i] = IF i <= Len(s) THEN s[i] ELSE r[i - Len(s)]
  BY ConcatProperties
<1>2. DOMAIN q = 1 .. Len(s) + Len(r) /\ DOMAIN s = 1 .. Len(s) /\ DOMAIN r = 1 .. Len(r)
  BY <1>1
<1> HIDE DEF q
<1>3. ASSUME NEW i \in DOMAIN q
      PROVE  \/ i \in DOMAIN s /\ q[i] = s[i]
             \/ i > Len(s) /\ i - Len(s) \in DOMAIN r /\ q[i] = r[i - Len(s)]
  BY <1>1, <1>2
<1>4. Elements(q) \subseteq Elements(s) \union Elements(r)
  <2> SUFFICES ASSUME NEW i \in DOMAIN q PROVE q[i] \in Elements(s) \union Elements(r)
    BY DEF Elements
  <2> QED
    BY <1>3 DEF Elements
<1>5. ASSUME NEW i \in DOMAIN s PROVE s[i] \in Elements(q)
  <2>1. i \in DOMAIN q /\ q[i] = s[i]
    BY <1>1, <1>2
  <2> QED
    BY <2>1 DEF Elements
<1>6. ASSUME NEW i \in DOMAIN r PROVE r[i] \in Elements(q)
  <2>1. i + Len(s) \in DOMAIN q /\ q[i + Len(s)] = r[i]
    BY <1>1, <1>2
  <2> QED
    BY <2>1 DEF Elements
<1>7. Elements(q) = Elements(s) \union Elements(r)
  BY <1>4, <1>5, <1>6 DEF Elements
<1>8. ASSUME NoTwins(s), NoTwins(r), Elements(s) \intersect Elements(r) = {},
             NEW i \in DOMAIN q, NEW j \in DOMAIN q, i # j
      PROVE  q[i] # q[j]
  <2>1. \A a \in DOMAIN s, b \in DOMAIN r : s[a] # r[b]
    BY <1>8 DEF Elements
  <2>2. i \in Int /\ j \in Int /\ i - Len(s) # j - Len(s)
    BY <1>1, <1>2, <1>8
  <2>3. CASE i \in DOMAIN s /\ q[i] = s[i]
    BY <2>1, <2>3, <1>3, <1>8 DEF NoTwins
  <2>4. CASE i > Len(s) /\ i - Len(s) \in DOMAIN r /\ q[i] = r[i - Len(s)]
    BY <2>1, <2>2, <2>4, <1>3, <1>8 DEF NoTwins
  <2> QED
    BY <2>3, <2>4, <1>3
<1> QED
  BY <1>1, <1>7, <1>8 DEF NoTwins, q

-----------------------------------------------------------------------------
(* The index keeps the order of the tree. *)

OrderInv ==
  /\ at \in Sides /\ out[at] # Nil => Walking(out[at], seen, pending)
  /\ \A side \in Sides, k \in Keys :
       /\ NoTwins(index[side][k])
       /\ <<side, k>> \notin lent => Ordered(out[side], index[side][k])

LEMMA EmptyOrdered ==
  ASSUME NEW t
  PROVE  NoTwins(<<>>) /\ Ordered(t, <<>>)
BY DEF NoTwins, Ordered

LEMMA SideTree ==
  ASSUME IInv, NEW side \in Sides
  PROVE  out[side] # Nil => out[side] \in Trees /\ IsTree(out[side])
<1>1. out \in Outputs
  BY DEF IInv, TypeOK
<1> QED
  BY <1>1, OutFields, TreesAssumption DEF Sides

(* A walk of the index begins in order. *)
LEMMA WalkStarts ==
  ASSUME IInv, OrderInv, NewNodeMap \/ ResolvedIndexed
  PROVE  OrderInv'
<1>1. UNCHANGED <<out, index, lent>> /\ at' \in Sides /\ seen' = {}
  BY DEF NewNodeMap, ResolvedIndexed, StartWalk, Sides
<1>2. out[at'] # Nil => out[at'] \in Trees /\ pending' = <<out[at'].root>>
  <2>1. out.resolved \in Trees
    BY OutFields DEF IInv, TypeOK
  <2> QED
    BY <1>1, <2>1, SideTree DEF NewNodeMap, ResolvedIndexed, StartWalk
<1>3. out[at'] # Nil => Walking(out[at'], seen', pending')
  BY <1>1, <1>2, StartWalks
<1> QED
  BY <1>1, <1>3 DEF OrderInv

(* The entry of a node's place has nodes that were visited, which come before it. *)
LEMMA OrderVisits ==
  ASSUME IInv, OrderInv, IndexVisit
  PROVE  OrderInv'
<1> DEFINE t == out[at]
           n == Node
<1>1. /\ at \in Sides /\ pending # <<>> /\ UNCHANGED <<out, at, lent>> /\ Side = at /\ Tree = t /\ n = Head(pending)
      /\ index' = WithNode(n) /\ pending' = Rest /\ seen' = seen \union ({n} \ {Nil})
      /\ pending \in Seq(Entries) /\ seen \in SUBSET Nodes /\ index \in [Sides -> [Keys -> Seq(Nodes)]]
  BY DEF IndexVisit, Walked, IInv, TypeOK, Node, Entries, Side, Sides, Tree
<1>2. CASE t = Nil
  <2>1. at = "parsed" /\ out.parsed = Nil
    <3>1. out.resolved # Nil
      BY OutFields, TreeFields DEF IInv, TypeOK
    <3> QED
      BY <1>1, <1>2, <3>1 DEF Sides
  <2>2. n = Nil
    <3>1. Elements(pending) \subseteq {Nil}
      BY <2>1 DEF IInv, WalkInv
    <3>2. n \in Elements(pending)
      BY <1>1, TailPart, ElementsOfSeq
    <3> QED
      BY <3>1, <3>2
  <2>3. index' = index
    BY <1>1, <2>2 DEF WithNode
  <2> QED
    BY <1>1, <1>2, <2>3 DEF OrderInv
<1>3. CASE t # Nil
  <2>1. t \in Trees /\ IsTree(t) /\ Walking(t, seen, pending)
    BY <1>1, <1>3, SideTree DEF OrderInv
  <2> HIDE DEF t, n
  <2>2. pending' = NextOf(t, pending) /\ seen' = SeenNext(seen, pending)
    BY <1>1 DEF Rest, NextOf, SeenNext, n
  <2>3. Walking(t, seen', pending')
    BY <1>1, <2>1, <2>2, StepWalks
  <2>4. CASE n = Nil \/ ~Located(t.range[n])
    <3>1. index' = index
      BY <1>1, <2>4 DEF WithNode
    <3> QED
      BY <1>1, <2>3, <3>1 DEF OrderInv, t
  <2>5. CASE ~(n = Nil \/ ~Located(t.range[n]))
    <3> DEFINE l == LocationKey(t.range[n])
               s == index[at][l]
    <3>1. n \in Under(t, t.root) \ seen /\ n \in Nodes
      BY <1>1, <2>1, <2>5, HeadIsFresh
    <3>2. l \in Keys /\ s \in Seq(Nodes)
      BY <1>1, <2>1, <2>5, <3>1, KeyOfNode
    <3>3. index' = [index EXCEPT ![at][l] = Append(@, n)]
      BY <1>1, <2>5 DEF WithNode
    <3> HIDE DEF l
    <3>4. Elements(s) \subseteq seen
      BY <1>1, <3>2 DEF IInv, IndexInv, SeenAt, Sides
    <3>5. n \notin Elements(s) /\ \A m \in Elements(s) : Before(t, m, n)
      BY <2>1, <3>1, <3>4 DEF Walking, Passed
    <3>6. NoTwins(s) /\ (<<at, l>> \notin lent => Ordered(t, s))
      BY <1>1, <3>2 DEF OrderInv, t
    <3> HIDE DEF s
    <3>7. NoTwins(Append(s, n)) /\ (<<at, l>> \notin lent => Ordered(t, Append(s, n)))
      BY <3>1, <3>2, <3>5, <3>6, OrderedAppend
    <3>8. /\ index'[at][l] = Append(s, n)
          /\ \A side \in Sides, k \in Keys : <<side, k>> # <<at, l>> => index'[side][k] = index[side][k]
      BY <1>1, <3>2, <3>3 DEF s
    <3>9. ASSUME NEW side \in Sides, NEW k \in Keys
          PROVE  /\ NoTwins(index'[side][k])
                 /\ <<side, k>> \notin lent => Ordered(out[side], index'[side][k])
      <4>1. CASE <<side, k>> = <<at, l>>
        BY <4>1, <3>7, <3>8 DEF t
      <4>2. CASE <<side, k>> # <<at, l>>
        BY <4>2, <3>8 DEF OrderInv
      <4> QED
        BY <4>1, <4>2
    <3> QED
      BY <1>1, <2>3, <3>9 DEF OrderInv, t
  <2> QED
    BY <2>4, <2>5
<1> QED
  BY <1>2, <1>3

(* Two nodes that change places stay two nodes. *)
LEMMA SwapKeepsApart ==
  ASSUME NEW s \in Seq(Nodes), NEW i \in DOMAIN s, NEW j \in DOMAIN s, NoTwins(s)
  PROVE  NoTwins([s EXCEPT ![i] = s[j], ![j] = s[i]])
<1> DEFINE r == [s EXCEPT ![i] = s[j], ![j] = s[i]]
<1>1. /\ DOMAIN r = DOMAIN s
      /\ r[j] = s[i] /\ (i # j => r[i] = s[j]) /\ \A k \in DOMAIN s : k # i /\ k # j => r[k] = s[k]
  BY ElementsOfSeq
<1> HIDE DEF r
<1>2. ASSUME NEW a \in DOMAIN r, NEW b \in DOMAIN r, a # b PROVE r[a] # r[b]
  BY <1>1, <1>2 DEF NoTwins
<1> QED
  BY <1>2 DEF NoTwins, r

LEMMA SortingKeepsApart ==
  ASSUME IInv, OrderInv, NEW side \in Sides, NEW k \in Keys, CallerSorts(side, k)
  PROVE  OrderInv'
<1> DEFINE s == index[side][k]
<1>1. PICK i \in DOMAIN s, j \in DOMAIN s :
         index' = [index EXCEPT ![side][k] = [@ EXCEPT ![i] = index[side][k][j], ![j] = index[side][k][i]]]
  BY DEF CallerSorts
<1>2. /\ UNCHANGED <<out, at, pending, seen, lent>> /\ <<side, k>> \in lent /\ at = "built"
      /\ index \in [Sides -> [Keys -> Seq(Nodes)]] /\ s \in Seq(Nodes)
  BY DEF CallerSorts, IInv, IndexInv, TypeOK
<1> DEFINE r == [s EXCEPT ![i] = s[j], ![j] = s[i]]
<1>3. NoTwins(r)
  BY <1>2, SwapKeepsApart DEF OrderInv
<1>4. index' = [index EXCEPT ![side][k] = r]
  BY <1>1
<1> HIDE DEF r
<1>5. /\ index'[side][k] = r
      /\ \A d \in Sides, l \in Keys : <<d, l>> # <<side, k>> => index'[d][l] = index[d][l]
  BY <1>2, <1>4
<1>6. ASSUME NEW d \in Sides, NEW l \in Keys
      PROVE  /\ NoTwins(index'[d][l])
             /\ <<d, l>> \notin lent => Ordered(out[d], index'[d][l])
  <2>1. CASE <<d, l>> = <<side, k>>
    BY <2>1, <1>2, <1>3, <1>5
  <2>2. CASE <<d, l>> # <<side, k>>
    BY <2>2, <1>5 DEF OrderInv
  <2> QED
    BY <2>1, <2>2
<1> QED
  BY <1>2, <1>6 DEF OrderInv, Sides

(* The other steps leave the trees and the index alone and take back no slice. *)
LEMMA OrderStays ==
  ASSUME OrderInv, UNCHANGED <<out, index>>, lent \subseteq lent', at' \notin Sides \/ UNCHANGED <<at, seen, pending>>
  PROVE  OrderInv'
BY DEF OrderInv

LEMMA OrderHolds == IInv /\ OrderInv /\ [Next]_vars => OrderInv'
<1> SUFFICES ASSUME IInv, OrderInv, [Next]_vars PROVE OrderInv'
  OBVIOUS
<1>1. CASE UNCHANGED vars
  BY <1>1, OrderStays DEF vars
<1>2. CASE (\E reject \in BOOLEAN : Gate(reject)) \/ GateVisit \/ GateEnds
  BY <1>2, OrderStays DEF Gate, StartWalk, GateVisit, GateEnds, Sides
<1>3. CASE NewNodeMap \/ IndexVisit \/ ResolvedIndexed
  BY <1>3, WalkStarts, OrderVisits
<1>4. CASE ParsedIndexed
  BY <1>4, OrderStays DEF ParsedIndexed, Sides
<1>5. CASE \E k \in Keys : NodeAt(k) \/ NodesAt(k) \/ NodesInRange(k) \/ RangeOver(k)
  BY <1>5, OrderStays DEF NodeAt, NodesAt, NodesInRange, RangeOver, CanAsk, Lend
<1>6. CASE (\E n \in Nodes : FindParsedNodes(n)) \/ RangedOver \/ LookupReturns
  BY <1>6, OrderStays DEF FindParsedNodes, RangedOver, LookupReturns, CanAsk, Lend
<1>7. CASE \E side \in Sides, k \in Keys : CallerSorts(side, k)
  BY <1>7, SortingKeepsApart
<1> QED
  BY <1>1, <1>2, <1>3, <1>4, <1>5, <1>6, <1>7 DEF Next

(* However large the trees: an entry of the index has each node once, and until a caller sorts the
   slice it was given a node comes before all that the tree has after it, so that the first one is
   the outermost of the place (node_map.go:68). *)
THEOREM IndexIsOutermostFirst == Spec => []OutermostFirst
<1>1. Init => OrderInv
  BY EmptyOrdered DEF Init, OrderInv, Empty, Sides
<1>2. IInv /\ OrderInv => OutermostFirst
  <2> SUFFICES ASSUME IInv, OrderInv, NEW side \in Sides, NEW k \in Keys
               PROVE  Len(index[side][k]) = Cardinality(Elements(index[side][k]))
    BY DEF OutermostFirst, OrderInv, Ordered
  <2>1. index[side][k] \in Seq(Nodes)
    BY DEF IInv, TypeOK
  <2> QED
    BY <2>1, LengthCounts DEF OrderInv
<1> QED
  BY <1>1, <1>2, IInvHolds, OrderHolds, PTL DEF Spec

-----------------------------------------------------------------------------
(* What the lookups answer. *)

(* While the map is ranged over, the nodes are those of the places that had their turn. *)
Ranged == {n \in NodesOf(out.resolved) :
             \E l \in Keys \ ask.todo : out.resolved.range[n] = l /\ Within(l, ask.key)}

AskInv ==
  /\ ask.at = "ranging" => /\ ask.by = "NodesInRange" /\ ask.key \in Keys
                           /\ NoTwins(ask.nodes) /\ Elements(ask.nodes) = Ranged
  /\ AnswersExact

AInv == IInv /\ OrderInv /\ AskInv

LEMMA EntryFacts ==
  ASSUME AInv, at = "built", NEW side \in Sides, NEW k \in Keys
  PROVE  /\ index[side][k] \in Seq(Nodes) /\ Elements(index[side][k]) = At(out[side], k) /\ NoTwins(index[side][k])
         /\ Len(index[side][k]) = Cardinality(At(out[side], k))
         /\ index[side][k] = <<>> <=> At(out[side], k) = {}
<1>1. /\ index[side][k] \in Seq(Nodes) /\ Elements(index[side][k]) = At(out[side], k) /\ NoTwins(index[side][k])
  <2>1. index[side][k] \in Seq(Nodes)
    BY DEF AInv, IInv, TypeOK
  <2>2. Elements(index[side][k]) = At(out[side], k)
    BY DEF AInv, IInv, IndexInv, IndexExact
  <2>3. NoTwins(index[side][k])
    BY DEF AInv, OrderInv
  <2> QED
    BY <2>1, <2>2, <2>3
<1>2. index[side][k] = <<>> <=> Elements(index[side][k]) = {}
  <2>1. CASE index[side][k] = <<>>
    BY <2>1 DEF Elements
  <2>2. CASE index[side][k] # <<>>
    BY <1>1, <2>2, TailPart, ElementsOfSeq
  <2> QED
    BY <2>1, <2>2
<1> QED
  BY <1>1, <1>2, LengthCounts

LEMMA NodeAtExact ==
  ASSUME AInv, NEW k \in Keys, NodeAt(k)
  PROVE  AskInv'
<1> DEFINE found == index["resolved"][k]
           given == IF found = <<>> THEN <<>> ELSE <<Head(found)>>
<1>1. /\ at = "built" /\ UNCHANGED out
      /\ ask' = [at |-> "answered", by |-> "NodeAt", key |-> k, node |-> Nil, todo |-> {}, nodes |-> given]
  BY DEF NodeAt, CanAsk, Answer, NoAsk
<1>2. /\ found \in Seq(Nodes) /\ Elements(found) = At(out.resolved, k) /\ (found = <<>> <=> At(out.resolved, k) = {})
  BY <1>1, EntryFacts DEF Sides
<1>3. Asked' = At(out.resolved, k)
  BY <1>1 DEF Asked
<1>4. (given = <<>>) = (At(out.resolved, k) = {}) /\ Elements(given) \subseteq At(out.resolved, k)
  <2>1. CASE found = <<>>
    BY <1>2, <2>1 DEF Elements
  <2>2. CASE found # <<>>
    <3>1. Head(found) \in Elements(found)
      BY <1>2, <2>2, TailPart, ElementsOfSeq
    <3>2. Elements(given) = {Head(found)} /\ given # <<>>
      BY <2>2 DEF Elements
    <3> QED
      BY <1>2, <2>2, <3>1, <3>2
  <2> QED
    BY <2>1, <2>2
<1> HIDE DEF given
<1>5. AnswersExact'
  BY <1>1, <1>3, <1>4 DEF AnswersExact
<1> QED
  BY <1>1, <1>5 DEF AskInv

LEMMA NodesAtExact ==
  ASSUME AInv, NEW k \in Keys, NodesAt(k)
  PROVE  AskInv'
<1>1. /\ at = "built" /\ UNCHANGED out
      /\ ask' = [at |-> "answered", by |-> "NodesAt", key |-> k, node |-> Nil, todo |-> {}, nodes |-> index["resolved"][k]]
  BY DEF NodesAt, CanAsk, Answer, NoAsk
<1>2. Asked' = At(out.resolved, k)
  BY <1>1 DEF Asked
<1>3. AnswersExact'
  BY <1>1, <1>2, EntryFacts DEF AnswersExact, Sides
<1> QED
  BY <1>1, <1>3 DEF AskInv

LEMMA FindParsedNodesExact ==
  ASSUME AInv, NEW n \in Nodes, FindParsedNodes(n)
  PROVE  AskInv'
<1> DEFINE r == out.resolved.range[n]
<1>1. at = "built" /\ UNCHANGED out /\ out.resolved \in Trees
  BY LookupFacts DEF AInv, FindParsedNodes, CanAsk
<1>2. Nil \notin Keys
  BY OutputsAssumption DEF Keys
<1>3. CASE Located(r)
  <2>1. r \in Keys /\ LocationKey(r) = r
    BY <1>1, <1>3, KeyOfNode
  <2>2. ask' = [at |-> "answered", by |-> "FindParsedNodes", key |-> r, node |-> n, todo |-> {}, nodes |-> index["parsed"][r]]
    BY <1>3, <2>1 DEF FindParsedNodes, Answer, NoAsk
  <2>3. Asked' = At(out.parsed, r)
    BY <1>1, <1>2, <2>1, <2>2 DEF Asked
  <2>4. AnswersExact'
    BY <1>1, <2>1, <2>2, <2>3, EntryFacts DEF AnswersExact, Sides
  <2> QED
    BY <2>2, <2>4 DEF AskInv
<1>4. CASE ~Located(r)
  <2>1. ask' = [at |-> "answered", by |-> "FindParsedNodes", key |-> Nil, node |-> n, todo |-> {}, nodes |-> <<>>]
    BY <1>4 DEF FindParsedNodes, Answer, NoAsk
  <2>2. Asked' = {} /\ Elements(<<>>) = {} /\ Len(<<>>) = Cardinality({})
    BY <2>1, FS_EmptySet DEF Asked, Elements
  <2>3. AnswersExact'
    BY <2>1, <2>2 DEF AnswersExact
  <2> QED
    BY <2>1, <2>3 DEF AskInv
<1> QED
  BY <1>3, <1>4

(* A place without an entry has no nodes: only the places of todo matter. *)
LEMMA RangingStarts ==
  ASSUME AInv, NEW k \in Keys, NodesInRange(k)
  PROVE  AskInv'
<1> DEFINE todo == {l \in Keys : index["resolved"][l] # <<>>}
<1>1. /\ at = "built" /\ UNCHANGED out
      /\ ask' = [at |-> "ranging", by |-> "NodesInRange", key |-> k, node |-> Nil, todo |-> todo, nodes |-> <<>>]
  BY DEF NodesInRange, CanAsk, NoAsk
<1>2. \A l \in Keys \ todo : At(out.resolved, l) = {}
  BY <1>1, EntryFacts DEF Sides
<1> HIDE DEF todo
<1>3. Ranged' = {}
  BY <1>1, <1>2 DEF Ranged, At
<1>4. Elements(<<>>) = {} /\ NoTwins(<<>>)
  BY DEF Elements, NoTwins
<1> QED
  BY <1>1, <1>3, <1>4 DEF AskInv, AnswersExact

LEMMA RangingGoesOn ==
  ASSUME AInv, NEW k \in Keys, RangeOver(k)
  PROVE  AskInv'
<1> DEFINE s == index["resolved"][k]
           more == IF Within(k, ask.key) THEN ask.nodes \o s ELSE ask.nodes
           new == IF Within(k, ask.key) THEN At(out.resolved, k) ELSE {}
<1>1. /\ ask.at = "ranging" /\ k \in ask.todo /\ UNCHANGED out /\ ask \in Answers /\ at = "built"
      /\ ask' = [[ask EXCEPT !.todo = @ \ {k}] EXCEPT !.nodes = more]
      /\ ask.by = "NodesInRange" /\ ask.key \in Keys /\ NoTwins(ask.nodes) /\ Elements(ask.nodes) = Ranged
  BY LookupFacts DEF RangeOver, AInv, AskInv
<1>2. s \in Seq(Nodes) /\ Elements(s) = At(out.resolved, k) /\ NoTwins(s)
  BY <1>1, EntryFacts DEF Sides
<1>3. Ranged \intersect At(out.resolved, k) = {}
  BY <1>1 DEF Ranged, At
<1> HIDE DEF s
<1>4. ask.nodes \in Seq(Nodes)
  BY <1>1 DEF Answers
<1>5. NoTwins(more) /\ Elements(more) = Ranged \union new
  BY <1>1, <1>2, <1>3, <1>4, ConcatApart
<1> HIDE DEF more
<1>6. /\ ask'.at = "ranging" /\ ask'.by = "NodesInRange" /\ ask'.key = ask.key
      /\ ask'.todo = ask.todo \ {k} /\ ask'.nodes = more
  BY <1>1 DEF Answers
<1>7. Ranged' = Ranged \union new
  BY <1>1, <1>6 DEF Ranged, At, Within
<1> HIDE DEF new
<1> QED
  BY <1>1, <1>5, <1>6, <1>7 DEF AskInv, AnswersExact

(* With every place done, these are the nodes that have a place within the range. *)
LEMMA RangingEnds ==
  ASSUME AInv, RangedOver
  PROVE  AskInv'
<1>1. /\ ask.at = "ranging" /\ ask.todo = {} /\ UNCHANGED out /\ ask \in Answers /\ out.resolved \in Trees
      /\ ask' = [ask EXCEPT !.at = "answered"]
      /\ ask.by = "NodesInRange" /\ ask.key \in Keys /\ NoTwins(ask.nodes) /\ Elements(ask.nodes) = Ranged
  BY LookupFacts DEF RangedOver, AInv, AskInv
<1>2. ask'.at = "answered" /\ ask'.by = "NodesInRange" /\ ask'.key = ask.key /\ ask'.nodes = ask.nodes
  BY <1>1 DEF Answers
<1>3. \A n \in NodesOf(out.resolved) : n \in Nodes
  BY <1>1, TreeFields, UnderClosed DEF NodesOf
<1>4. Asked' = {n \in NodesOf(out.resolved) :
                  /\ Located(out.resolved.range[n])
                  /\ out.resolved.range[n].start >= ask.key.start
                  /\ out.resolved.range[n].end <= ask.key.end}
  BY <1>1, <1>2 DEF Asked
<1>5. Ranged = Asked'
  BY <1>1, <1>3, <1>4, KeyOfNode DEF Ranged, Within
<1>6. Len(ask.nodes) = Cardinality(Ranged)
  BY <1>1, LengthCounts DEF Answers
<1> QED
  BY <1>1, <1>2, <1>5, <1>6 DEF AskInv, AnswersExact

LEMMA AskHolds == AInv /\ [Next]_vars => AskInv'
<1> SUFFICES ASSUME AInv, [Next]_vars PROVE AskInv'
  OBVIOUS
<1>1. CASE UNCHANGED vars
  BY <1>1 DEF vars, AInv, AskInv, Ranged, AnswersExact, Asked
<1>2. CASE \/ (\E reject \in BOOLEAN : Gate(reject)) \/ GateVisit \/ GateEnds
           \/ NewNodeMap \/ IndexVisit \/ ResolvedIndexed \/ ParsedIndexed
           \/ \E side \in Sides, k \in Keys : CallerSorts(side, k)
  <2>1. ask.at = "idle" /\ UNCHANGED ask
    <3>1. at # "built" => ask.at = "idle"
      BY DEF AInv, IInv, IndexInv, NoAsk
    <3> QED
      BY <1>2, <3>1 DEF Gate, GateVisit, GateEnds, NewNodeMap, IndexVisit, ResolvedIndexed, ParsedIndexed, CallerSorts, Sides
  <2> QED
    BY <2>1 DEF AskInv, AnswersExact
<1>3. CASE \E k \in Keys : NodeAt(k) \/ NodesAt(k) \/ NodesInRange(k) \/ RangeOver(k)
  BY <1>3, NodeAtExact, NodesAtExact, RangingStarts, RangingGoesOn
<1>4. CASE \E n \in Nodes : FindParsedNodes(n)
  BY <1>4, FindParsedNodesExact
<1>5. CASE RangedOver
  BY <1>5, RangingEnds
<1>6. CASE LookupReturns
  BY <1>6 DEF LookupReturns, NoAsk, AskInv, AnswersExact
<1> QED
  BY <1>1, <1>2, <1>3, <1>4, <1>5, <1>6 DEF Next

(* However large the trees, in whatever order the map is ranged over, and whatever callers did to the
   slices they hold: a lookup answers with what the trees have at the place it was asked for, each
   node once (node_map.go:70-110). *)
THEOREM LookupsAreExact == Spec => []AnswersExact
<1>1. Init => AInv
  <2>1. Init => OrderInv
    BY EmptyOrdered DEF Init, OrderInv, Empty, Sides
  <2>2. Init => AskInv
    BY DEF Init, AskInv, AnswersExact, NoAsk
  <2> QED
    BY <2>1, <2>2, InitHolds DEF AInv
<1>2. AInv /\ [Next]_vars => AInv'
  BY NextHolds, OrderHolds, AskHolds DEF AInv
<1>3. AInv => AnswersExact
  BY DEF AInv, AskInv
<1> QED
  BY <1>1, <1>2, <1>3, PTL DEF Spec
=============================================================================
