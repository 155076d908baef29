----------------------- MODULE TimezoneRewriteProofs ------------------------
(***************************************************************************)
(* Proofs about TimezoneRewrite for sources of any length, items of any    *)
(* width and walks in any order: the literals with a named zone, and       *)
(* nothing else, are exchanged, each in its own place; the offset written  *)
(* for a zone stands for the zone's own; and the place reported for a bad  *)
(* cast is where its literal is in the text that was resolved.             *)
(***************************************************************************)
EXTENDS TimezoneRewrite, SequenceTheorems, FiniteSetTheorems, WellFoundedInduction, TLAPS

LEMMA SeqFacts ==
  ASSUME NEW S, NEW s \in Seq(S)
  PROVE  Len(s) \in Nat /\ DOMAIN s = 1 .. Len(s) /\ \A i \in 1 .. Len(s) : s[i] \in S
OBVIOUS

LEMMA SourceFacts ==
  ASSUME NEW s \in Sources
  PROVE  /\ Len(s) \in Nat /\ DOMAIN s = 1 .. Len(s) /\ RewrittenWidth \in Nat
         /\ \A i \in DOMAIN s : s[i].kind \in ItemKind /\ s[i].width \in Nat \ {0} /\ s[i].offset \in Int
<1>1. s \in Seq([kind : ItemKind, width : Nat \ {0}, offset : Int])
  BY SourcesAssumption
<1>2. /\ Len(s) \in Nat /\ DOMAIN s = 1 .. Len(s)
      /\ \A i \in 1 .. Len(s) : s[i] \in [kind : ItemKind, width : Nat \ {0}, offset : Int]
  BY <1>1, SeqFacts
<1> QED
  BY <1>2, SourcesAssumption

(* Hours and minutes of a count of seconds leave less than a minute out, and nothing of whole minutes. *)
LEMMA HoursAndMinutes ==
  ASSUME NEW n \in Nat, NEW h, h = n \div 3600, NEW m, m = (n % 3600) \div 60
  PROVE  /\ h \in Nat /\ m \in Nat
         /\ 3600 * h + 60 * m <= n /\ n < 3600 * h + 60 * m + 60
         /\ n % 60 = 0 => 3600 * h + 60 * m = n
BY SMT

(* The offset read back is within a minute of the offset written, on the side of zero it was on. *)
LEMMA OffsetReadBack ==
  ASSUME NEW sec \in Int
  PROVE  LET read == OffsetRead(formatTZOffset(sec))
         IN Magnitude(read - sec) < 60 /\ (sec % 60 = 0 => read = sec)
<1> DEFINE n == Magnitude(sec)
           h == n \div 3600
           m == (n % 3600) \div 60
           read == OffsetRead(formatTZOffset(sec))
<1>1. n \in Nat /\ (sec < 0 => n = -sec) /\ (~(sec < 0) => n = sec)
  BY SMT DEF Magnitude
<1>2. read = (IF sec < 0 THEN -1 ELSE 1) * (3600 * h + 60 * m)
  BY DEF OffsetRead, formatTZOffset
<1> HIDE DEF n
<1>3. /\ h \in Nat /\ m \in Nat
      /\ 3600 * h + 60 * m <= n /\ n < 3600 * h + 60 * m + 60
      /\ n % 60 = 0 => 3600 * h + 60 * m = n
  BY SMT, <1>1, HoursAndMinutes
<1>4. sec % 60 = 0 => n % 60 = 0
  BY SMT, <1>1
<1> HIDE DEF h, m, read
<1>5. CASE sec < 0
  <2>1. read = -(3600 * h + 60 * m) /\ n = -sec
    BY SMT, <1>1, <1>2, <1>3, <1>5
  <2>2. Magnitude(read - sec) < 60
    BY SMT, <1>1, <1>3, <2>1 DEF Magnitude
  <2> QED
    BY SMT, <1>1, <1>3, <1>4, <2>1, <2>2 DEF read
<1>6. CASE ~(sec < 0)
  <2>1. read = 3600 * h + 60 * m /\ n = sec
    BY SMT, <1>1, <1>2, <1>3, <1>6
  <2>2. Magnitude(read - sec) < 60
    BY SMT, <1>1, <1>3, <2>1 DEF Magnitude
  <2> QED
    BY SMT, <1>1, <1>3, <1>4, <2>1, <2>2 DEF read
<1> QED
  BY <1>5, <1>6

(* formatTZOffset keeps the offset of every zone of every source, to the minute below it and with its
   sign, also less than an hour west of Greenwich (rewrite_named_timezone.go:199). *)
THEOREM OffsetsAreKept == Spec => []OffsetKept
<1>1. Init => src \in Sources
  BY DEF Init
<1>2. src \in Sources /\ [Next]_vars => (src \in Sources)'
  <2> SUFFICES ASSUME src \in Sources, [Next]_vars PROVE src' = src
    OBVIOUS
  <2>1. ASSUME NEW i \in DOMAIN src, Visit(i) PROVE src' = src
    BY <2>1 DEF Visit
  <2>2. CASE SortRewrites
    BY <2>2 DEF SortRewrites
  <2>3. CASE Replace
    BY <2>3 DEF Replace
  <2>4. CASE Submit
    BY <2>4 DEF Submit
  <2>5. CASE Resolve
    BY <2>5 DEF Resolve
  <2>6. CASE UNCHANGED vars
    BY <2>6 DEF vars
  <2> QED
    BY <2>1, <2>2, <2>3, <2>4, <2>5, <2>6 DEF Next
<1>3. src \in Sources => OffsetKept
  <2> SUFFICES ASSUME src \in Sources, NEW i \in Zones
               PROVE  LET read == OffsetRead(formatTZOffset(src[i].offset))
                      IN /\ Magnitude(read - src[i].offset) < 60
                         /\ src[i].offset % 60 = 0 => read = src[i].offset
    BY DEF OffsetKept
  <2>1. src[i].offset \in Int
    BY SourceFacts DEF Zones
  <2> QED
    BY <2>1, OffsetReadBack
<1> QED
  BY <1>1, <1>2, <1>3, PTL DEF Spec

-----------------------------------------------------------------------------
(* Induction up to n, for a set of numbers. *)
LEMMA Induction ==
  ASSUME NEW n \in Nat, NEW S, 0 \in S, \A m \in 1 .. n : m - 1 \in S => m \in S
  PROVE  0 .. n \subseteq S
<1> DEFINE T == (0 .. n) \ S
<1>1. SUFFICES ASSUME T # {} PROVE FALSE
  OBVIOUS
<1>2. T \subseteq Nat
  OBVIOUS
<1>3. PICK x \in T : \A y \in T : <<y, x>> \notin OpToRel(<, Nat)
  BY <1>1, <1>2, NatLessThanWellFounded, WFMin
<1>4. x \in 1 .. n /\ x \in Nat /\ x - 1 \in Nat /\ x - 1 \in 0 .. n
  OBVIOUS
<1>5. x - 1 \in T
  BY <1>4
<1>6. <<x - 1, x>> \in OpToRel(<, Nat)
  BY <1>4 DEF OpToRel
<1> QED
  BY <1>3, <1>5, <1>6

-----------------------------------------------------------------------------
(* The first m of the pieces of g, one behind the other. *)

Joined(g, m)  == FlattenSeq([i \in 1 .. m |-> g[i]])
Joins(f, g, m) == f = [i \in 1 .. m |-> IF i = 1 THEN g[i] ELSE f[i - 1] \o g[i]]

LEMMA JoinsAt ==
  ASSUME NEW f, NEW g, NEW m, Joins(f, g, m), NEW i \in 1 .. m
  PROVE  f[i] = IF i = 1 THEN g[i] ELSE f[i - 1] \o g[i]
<1> DEFINE h == [j \in 1 .. m |-> IF j = 1 THEN g[j] ELSE f[j - 1] \o g[j]]
<1>1. f = h
  BY DEF Joins
<1>2. h[i] = IF i = 1 THEN g[i] ELSE f[i - 1] \o g[i]
  OBVIOUS
<1> HIDE DEF h
<1> QED
  BY <1>1, <1>2

LEMMA JoinsExists ==
  ASSUME NEW m \in Nat, NEW g
  PROVE  \E f : Joins(f, g, m)
<1> DEFINE S == {k \in 0 .. m : \E f : Joins(f, g, k)}
<1>1. 0 \in S
  <2> DEFINE f == [i \in 1 .. 0 |-> <<>>]
  <2>1. f = [i \in 1 .. 0 |-> IF i = 1 THEN g[i] ELSE f[i - 1] \o g[i]]
    OBVIOUS
  <2> HIDE DEF f
  <2>2. Joins(f, g, 0)
    BY <2>1 DEF Joins
  <2> QED
    BY <2>2
<1>2. ASSUME NEW k \in 1 .. m, k - 1 \in S PROVE k \in S
  <2>1. PICK f : Joins(f, g, k - 1)
    BY <1>2
  <2> DEFINE h == [i \in 1 .. k |-> IF i = 1 THEN g[i] ELSE f[i - 1] \o g[i]]
  <2>2. ASSUME NEW i \in 1 .. k - 1 PROVE f[i] = h[i]
    <3>1. i \in 1 .. k
      OBVIOUS
    <3>2. f[i] = IF i = 1 THEN g[i] ELSE f[i - 1] \o g[i]
      BY <2>1, JoinsAt
    <3> QED
      BY <3>1, <3>2
  <2>3. ASSUME NEW i \in 1 .. k PROVE h[i] = IF i = 1 THEN g[i] ELSE h[i - 1] \o g[i]
    <3>1. CASE i = 1
      BY <3>1
    <3>2. CASE i # 1
      <4>1. i - 1 \in 1 .. k - 1
        BY <3>2
      <4> HIDE DEF h
      <4>2. f[i - 1] = h[i - 1]
        BY <4>1, <2>2
      <4>3. h[i] = f[i - 1] \o g[i]
        BY <3>2 DEF h
      <4> QED
        BY <3>2, <4>2, <4>3
    <3> QED
      BY <3>1, <3>2
  <2>4. h = [i \in 1 .. k |-> h[i]]
    OBVIOUS
  <2> HIDE DEF h
  <2>5. h = [i \in 1 .. k |-> IF i = 1 THEN g[i] ELSE h[i - 1] \o g[i]]
    BY <2>3, <2>4
  <2>6. Joins(h, g, k)
    BY <2>5 DEF Joins
  <2> QED
    BY <2>6
<1>3. 0 .. m \subseteq S
  <2> HIDE DEF S
  <2> QED
    BY <1>1, <1>2, Induction
<1> QED
  BY <1>3

(* Two joins agree where both are. *)
LEMMA JoinsAgree ==
  ASSUME NEW m \in Nat, NEW k \in 1 .. m, NEW g, NEW h, \A i \in 1 .. k : g[i] = h[i],
         NEW e, Joins(e, g, m), NEW f, Joins(f, h, k)
  PROVE  e[k] = f[k]
<1> DEFINE S == {j \in 0 .. k : j = 0 \/ e[j] = f[j]}
<1>1. 0 \in S
  OBVIOUS
<1>2. ASSUME NEW j \in 1 .. k, j - 1 \in S PROVE j \in S
  <2>1. j \in 1 .. m /\ g[j] = h[j] /\ j \in 0 .. k
    OBVIOUS
  <2>2. e[j] = IF j = 1 THEN g[j] ELSE e[j - 1] \o g[j]
    BY <2>1, JoinsAt
  <2>3. f[j] = IF j = 1 THEN h[j] ELSE f[j - 1] \o h[j]
    BY JoinsAt
  <2>4. j # 1 => e[j - 1] = f[j - 1]
    BY <1>2
  <2> QED
    BY <2>1, <2>2, <2>3, <2>4
<1>3. 0 .. k \subseteq S
  <2> HIDE DEF S
  <2> QED
    BY <1>1, <1>2, Induction
<1> QED
  BY <1>3

LEMMA JoinedLast ==
  ASSUME NEW m \in Nat \ {0}, NEW g
  PROVE  \E f : Joins(f, g, m) /\ Joined(g, m) = f[m]
<1> DEFINE s == [i \in 1 .. m |-> g[i]]
           P(f) == f = [i \in 1 .. Len(s) |-> IF i = 1 THEN s[i] ELSE f[i - 1] \o s[i]]
<1>1. Len(s) = m
  OBVIOUS
<1>2. Joined(g, m) = (CHOOSE f : P(f))[m]
  BY <1>1 DEF Joined, FlattenSeq
<1>3. \A i \in 1 .. m : s[i] = g[i]
  OBVIOUS
<1> HIDE DEF s
<1>4. \A f : P(f) <=> Joins(f, g, m)
  BY <1>1, <1>3 DEF Joins
<1>5. \E f : P(f)
  BY <1>4, JoinsExists
<1> HIDE DEF P
<1>6. P(CHOOSE f : P(f))
  BY <1>5
<1> QED
  BY <1>2, <1>4, <1>6

LEMMA JoinedEmpty ==
  ASSUME NEW g
  PROVE  Joined(g, 0) = <<>>
<1>1. [i \in 1 .. 0 |-> g[i]] = <<>>
  OBVIOUS
<1> QED
  BY <1>1 DEF Joined, FlattenSeq

LEMMA JoinedStep ==
  ASSUME NEW m \in Nat \ {0}, NEW g
  PROVE  Joined(g, m) = IF m = 1 THEN g[1] ELSE Joined(g, m - 1) \o g[m]
<1>1. PICK e : Joins(e, g, m) /\ Joined(g, m) = e[m]
  BY JoinedLast
<1>2. e[m] = IF m = 1 THEN g[m] ELSE e[m - 1] \o g[m]
  BY <1>1, JoinsAt
<1>3. CASE m = 1
  BY <1>1, <1>2, <1>3
<1>4. CASE m # 1
  <2>1. m - 1 \in Nat \ {0} /\ m - 1 \in 1 .. m
    BY <1>4
  <2>2. PICK f : Joins(f, g, m - 1) /\ Joined(g, m - 1) = f[m - 1]
    BY <2>1, JoinedLast
  <2>3. e[m - 1] = f[m - 1]
    <3>1. \A i \in 1 .. m - 1 : g[i] = g[i]
      OBVIOUS
    <3> QED
      BY SMTT(60), <1>1, <2>1, <2>2, <3>1, JoinsAgree
  <2> QED
    BY <1>1, <1>2, <1>4, <2>2, <2>3
<1> QED
  BY <1>3, <1>4

(* Only the pieces that are joined count. *)
LEMMA JoinedSame ==
  ASSUME NEW m \in Nat, NEW g, NEW h, \A i \in 1 .. m : g[i] = h[i]
  PROVE  Joined(g, m) = Joined(h, m)
<1>1. [i \in 1 .. m |-> g[i]] = [i \in 1 .. m |-> h[i]]
  OBVIOUS
<1> QED
  BY <1>1 DEF Joined

Pieces(C, n, g)  == \A i \in 1 .. n : g[i] \in Seq(C)
Joinable(C, n, g) == \A m \in 0 .. n : /\ Joined(g, m) \in Seq(C)
                                       /\ m # 0 => Joined(g, m) = Joined(g, m - 1) \o g[m]

LEMMA JoinedType ==
  ASSUME NEW C, NEW n \in Nat, NEW g, Pieces(C, n, g)
  PROVE  Joinable(C, n, g)
<1>a. \A i \in 1 .. n : g[i] \in Seq(C)
  BY DEF Pieces
<1> DEFINE P(m) == Joined(g, m) \in Seq(C) /\ (m # 0 => Joined(g, m) = Joined(g, m - 1) \o g[m])
           S == {m \in 0 .. n : P(m)}
<1>1. P(0)
  <2>1. Joined(g, 0) = <<>>
    BY JoinedEmpty
  <2>2. <<>> \in Seq(C)
    OBVIOUS
  <2> QED
    BY <2>1, <2>2, Zenon
<1>2. ASSUME NEW m \in 1 .. n, P(m - 1) PROVE P(m)
  <2>1. Joined(g, m - 1) \in Seq(C) /\ g[m] \in Seq(C) /\ m \in Nat \ {0}
    BY <1>a, <1>2
  <2>2. Joined(g, m) = IF m = 1 THEN g[1] ELSE Joined(g, m - 1) \o g[m]
    BY <2>1, JoinedStep
  <2>3. Joined(g, m) = Joined(g, m - 1) \o g[m]
    <3>1. CASE m = 1
      <4>1. m - 1 = 0
        BY <3>1
      <4>2. Joined(g, m - 1) = <<>>
        BY <4>1, JoinedEmpty
      <4>3. <<>> \o g[m] = g[m]
        BY <2>1, ConcatEmptySeq
      <4> QED
        BY <2>2, <3>1, <4>2, <4>3
    <3>2. CASE m # 1
      BY <2>2, <3>2
    <3> QED
      BY <3>1, <3>2
  <2>4. Joined(g, m - 1) \o g[m] \in Seq(C)
    BY <2>1, ConcatProperties
  <2> QED
    BY <2>3, <2>4
<1> HIDE DEF P
<1>3. 0 \in S /\ \A m \in 1 .. n : m - 1 \in S => m \in S
  BY <1>1, <1>2
<1>4. 0 .. n \subseteq S
  <2> HIDE DEF S
  <2> QED
    BY <1>3, Induction
<1> QED
  BY <1>4 DEF P, Joinable

Alike(C, n, z, g, h)  == \A i \in 1 .. n : g[i] \in Seq(C) /\ h[i] \in Seq(C) /\ (i # z => g[i] = h[i])
Behind(C, n, z, g, h) == \E r \in Seq(C) : /\ Joined(g, n) = (Joined(g, z - 1) \o g[z]) \o r
                                          /\ Joined(h, n) = (Joined(g, z - 1) \o h[z]) \o r

(* Around the piece z: what is in front, the piece, and what is behind, which is the same behind
   another piece in its place. *)
LEMMA Around ==
  ASSUME NEW C, NEW n \in Nat, NEW z \in 1 .. n, NEW g, NEW h, Alike(C, n, z, g, h)
  PROVE  Behind(C, n, z, g, h)
<1>a. \A i \in 1 .. n : g[i] \in Seq(C) /\ h[i] \in Seq(C) /\ (i # z => g[i] = h[i])
  BY DEF Alike
<1> USE <1>a
<1> DEFINE a == Joined(g, z - 1)
           Q(m, r) == Joined(g, m) = (a \o g[z]) \o r /\ Joined(h, m) = (a \o h[z]) \o r
           P(m) == m >= z => \E r \in Seq(C) : Q(m, r)
           S == {m \in 0 .. n : P(m)}
<1>1. /\ \A m \in 0 .. n : Joined(g, m) \in Seq(C) /\ (m # 0 => Joined(g, m) = Joined(g, m - 1) \o g[m])
      /\ \A m \in 0 .. n : Joined(h, m) \in Seq(C) /\ (m # 0 => Joined(h, m) = Joined(h, m - 1) \o h[m])
  <2>1. (\A i \in 1 .. n : g[i] \in Seq(C)) /\ \A i \in 1 .. n : h[i] \in Seq(C)
    BY <1>a
  <2>2. Joinable(C, n, g) /\ Joinable(C, n, h)
    BY <2>1, JoinedType DEF Pieces
  <2> QED
    BY <2>2 DEF Joinable
<1>2. Joined(h, z - 1) = a /\ z - 1 \in 0 .. n /\ z \in 0 .. n /\ z # 0
  <2>1. z - 1 \in Nat /\ \A i \in 1 .. z - 1 : g[i] = h[i]
    OBVIOUS
  <2> QED
    BY <2>1, JoinedSame
<1>3. a \in Seq(C) /\ g[z] \in Seq(C) /\ h[z] \in Seq(C)
  BY <1>1, <1>2
<1>4. Joined(g, z) = a \o g[z] /\ Joined(h, z) = a \o h[z]
  BY <1>1, <1>2
<1> HIDE DEF a
<1>5. a \o g[z] \in Seq(C) /\ a \o h[z] \in Seq(C)
  BY <1>3, ConcatProperties
<1>6. P(0)
  OBVIOUS
<1>7. ASSUME NEW m \in 1 .. n, P(m - 1) PROVE P(m)
  <2>1. CASE m < z
    BY <2>1
  <2>2. CASE m = z
    <3>1. (a \o g[z]) \o <<>> = a \o g[z] /\ (a \o h[z]) \o <<>> = a \o h[z]
      BY <1>5, ConcatEmptySeq
    <3>2. Q(m, <<>>)
      BY <1>4, <2>2, <3>1
    <3>3. <<>> \in Seq(C)
      OBVIOUS
    <3> HIDE DEF Q
    <3> QED
      BY <3>2, <3>3
  <2>3. CASE m > z
    <3>1. PICK r \in Seq(C) : Q(m - 1, r)
      <4> HIDE DEF Q
      <4>1. m - 1 >= z
        BY <2>3
      <4> QED
        BY <4>1, <1>7
    <3>2. g[m] \in Seq(C) /\ g[m] = h[m] /\ m \in 0 .. n /\ m # 0
      <4>1. m \in 0 .. n /\ m # 0 /\ m # z
        BY <2>3
      <4> QED
        BY <4>1
    <3>3. Joined(g, m) = Joined(g, m - 1) \o g[m] /\ Joined(h, m) = Joined(h, m - 1) \o g[m]
      BY <1>1, <3>2
    <3>4. r \o g[m] \in Seq(C)
      BY <3>2, ConcatProperties
    <3>5. \A b, d \in Seq(C) : (b \o r) \o d = b \o (r \o d)
      BY SMTT(60), ConcatAssociative
    <3>6. /\ ((a \o g[z]) \o r) \o g[m] = (a \o g[z]) \o (r \o g[m])
          /\ ((a \o h[z]) \o r) \o g[m] = (a \o h[z]) \o (r \o g[m])
      BY <3>2, <3>5, <1>5, Zenon
    <3>7. Q(m, r \o g[m])
      BY <3>1, <3>3, <3>6
    <3> HIDE DEF Q
    <3> QED
      BY <3>4, <3>7
  <2>4. m < z \/ m = z \/ m > z
    OBVIOUS
  <2> HIDE DEF P
  <2> QED
    BY <2>1, <2>2, <2>3, <2>4
<1> HIDE DEF P
<1>8. 0 \in S /\ \A m \in 1 .. n : m - 1 \in S => m \in S
  BY <1>6, <1>7
<1>9. 0 .. n \subseteq S
  <2> HIDE DEF S
  <2> QED
    BY <1>8, Induction
<1>10. P(n) /\ n >= z
  BY <1>9
<1> QED
  BY <1>10 DEF a, P, Behind

-----------------------------------------------------------------------------
(* The text of a source s in which the items of D are rewritten, what is in front of an item before
   anything is, and the replacement that is collected for it. *)

CellsOf(s)  == {j \in Int : Magnitude(j) \in DOMAIN s} \X Nat
Old(s, i)   == [k \in 1 .. s[i].width |-> <<i, k>>]
Mixed(s, D) == [i \in DOMAIN s |-> IF i \in D THEN NewText(i) ELSE Old(s, i)]
Text(s, D)  == Joined(Mixed(s, D), Len(s))
Ahead(s, i) == Joined(Mixed(s, {}), i - 1)
Collected(s, i) == [start |-> Len(Ahead(s, i)), end |-> Len(Ahead(s, i)) + s[i].width, text |-> NewText(i)]

LEMMA PieceSeq ==
  ASSUME NEW C, NEW w \in Nat, NEW j, \A k \in Nat : <<j, k>> \in C
  PROVE  [k \in 1 .. w |-> <<j, k>>] \in Seq(C) /\ Len([k \in 1 .. w |-> <<j, k>>]) = w
<1> DEFINE f == [k \in 1 .. w |-> <<j, k>>]
<1>1. f \in [1 .. w -> C]
  OBVIOUS
<1> HIDE DEF f
<1>2. f \in Seq(C) /\ Len(f) = w
  BY <1>1
<1> QED
  BY <1>2 DEF f

LEMMA PieceTyped ==
  ASSUME NEW s \in Sources, NEW i \in DOMAIN s
  PROVE  /\ Old(s, i) \in Seq(CellsOf(s)) /\ Len(Old(s, i)) = s[i].width
         /\ NewText(i) \in Seq(CellsOf(s))
         /\ \A D : Mixed(s, D)[i] \in Seq(CellsOf(s)) /\ Mixed(s, D)[i] = IF i \in D THEN NewText(i) ELSE Old(s, i)
<1>1. i \in Nat \ {0} /\ s[i].width \in Nat \ {0} /\ RewrittenWidth \in Nat
  BY SourceFacts
<1>2. Magnitude(i) = i /\ Magnitude(-i) = i /\ -i \in Int
  BY <1>1 DEF Magnitude
<1>3. \A k \in Nat : <<i, k>> \in CellsOf(s) /\ <<-i, k>> \in CellsOf(s)
  BY <1>1, <1>2 DEF CellsOf
<1>4. Old(s, i) \in Seq(CellsOf(s)) /\ Len(Old(s, i)) = s[i].width
  <2>1. s[i].width \in Nat
    BY <1>1
  <2> QED
    BY <1>3, <2>1, PieceSeq DEF Old
<1>5. NewText(i) \in Seq(CellsOf(s))
  BY <1>1, <1>3, PieceSeq DEF NewText
<1>6. \A D : Mixed(s, D)[i] = IF i \in D THEN NewText(i) ELSE Old(s, i)
  BY DEF Mixed
<1> QED
  BY <1>4, <1>5, <1>6

LEMMA TextTyped ==
  ASSUME NEW s \in Sources, NEW D
  PROVE  /\ Text(s, D) \in Seq(CellsOf(s))
         /\ \A i \in DOMAIN s : Ahead(s, i) \in Seq(CellsOf(s))
<1>1. Len(s) \in Nat /\ DOMAIN s = 1 .. Len(s)
  BY SourceFacts
<1>2. ASSUME NEW E PROVE \A m \in 0 .. Len(s) : Joined(Mixed(s, E), m) \in Seq(CellsOf(s))
  <2>1. \A i \in DOMAIN s : Mixed(s, E)[i] \in Seq(CellsOf(s))
    BY PieceTyped
  <2>2. Pieces(CellsOf(s), Len(s), Mixed(s, E))
    BY <1>1, <2>1 DEF Pieces
  <2>3. Joinable(CellsOf(s), Len(s), Mixed(s, E))
    BY <1>1, <2>2, JoinedType
  <2> QED
    BY <2>3 DEF Joinable
<1>3. \A m \in 0 .. Len(s) : Joined(Mixed(s, D), m) \in Seq(CellsOf(s)) /\ Joined(Mixed(s, {}), m) \in Seq(CellsOf(s))
  BY <1>2
<1> QED
  BY <1>1, <1>3 DEF Text, Ahead

(* The texts of the model are such texts. *)
LEMMA TextsOfSource ==
  ASSUME src \in Sources
  PROVE  /\ Sql = Text(src, {})
         /\ \A i \in DOMAIN src : OldText(i) = Old(src, i) /\ Start(i) = Len(Ahead(src, i))
         /\ FlattenSeq([i \in DOMAIN src |-> IF src[i].kind = "named" THEN NewText(i) ELSE OldText(i)]) = Text(src, Zones)
<1>1. Len(src) \in Nat /\ DOMAIN src = 1 .. Len(src)
  BY SourceFacts
<1>2. \A i : OldText(i) = Old(src, i)
  BY DEF OldText, Old
<1>3. [i \in DOMAIN src |-> OldText(i)] = [i \in 1 .. Len(src) |-> Mixed(src, {})[i]]
  BY <1>1, <1>2 DEF Mixed
<1>4. ASSUME NEW i \in DOMAIN src PROVE [j \in 1 .. i - 1 |-> OldText(j)] = [j \in 1 .. i - 1 |-> Mixed(src, {})[j]]
  BY <1>1, <1>2 DEF Mixed
<1>5. [i \in DOMAIN src |-> IF src[i].kind = "named" THEN NewText(i) ELSE OldText(i)]
      = [i \in 1 .. Len(src) |-> Mixed(src, Zones)[i]]
  BY <1>1, <1>2 DEF Mixed, Zones
<1> QED
  BY <1>2, <1>3, <1>4, <1>5 DEF Sql, Start, Text, Ahead, Joined

(* The parts of a text. *)
Parts(t, a, b, c) ==
  /\ Len(a) \in Nat /\ Len(b) \in Nat /\ Len(c) \in Nat /\ Len(t) = Len(a) + Len(b) + Len(c)
  /\ \A k \in 1 .. Len(b) : t[Len(a) + k] = b[k]
  /\ SubSeq(t, 1, Len(a)) = a
  /\ SubSeq(t, Len(a) + 1, Len(a) + Len(b)) = b
  /\ SubSeq(t, Len(a) + Len(b) + 1, Len(t)) = c

LEMMA Sliced ==
  ASSUME NEW C, NEW a \in Seq(C), NEW b \in Seq(C), NEW c \in Seq(C)
  PROVE  Parts((a \o b) \o c, a, b, c)
<1> DEFINE t == (a \o b) \o c
<1>1. /\ a \o b \in Seq(C) /\ Len(a \o b) = Len(a) + Len(b) /\ Len(a) \in Nat /\ Len(b) \in Nat /\ Len(c) \in Nat
      /\ \A i \in 1 .. Len(a) + Len(b) : (a \o b)[i] = IF i <= Len(a) THEN a[i] ELSE b[i - Len(a)]
  BY ConcatProperties
<1>2. /\ t \in Seq(C) /\ Len(t) = Len(a) + Len(b) + Len(c)
      /\ \A i \in 1 .. Len(a) + Len(b) + Len(c) :
           t[i] = IF i <= Len(a) + Len(b) THEN (a \o b)[i] ELSE c[i - (Len(a) + Len(b))]
  <2> DEFINE d == a \o b
  <2>1. d \in Seq(C) /\ Len(d) = Len(a) + Len(b)
    BY <1>1
  <2> HIDE DEF d
  <2>2. \A x \in Seq(C) :
          /\ x \o c \in Seq(C) /\ Len(x \o c) = Len(x) + Len(c)
          /\ \A i \in 1 .. Len(x) + Len(c) : (x \o c)[i] = IF i <= Len(x) THEN x[i] ELSE c[i - Len(x)]
    BY ConcatProperties
  <2> QED
    BY <2>1, <2>2 DEF d
<1> HIDE DEF t
<1>3. \A i \in 1 .. Len(a) : t[i] = a[i]
  BY <1>1, <1>2
<1>4. \A i \in 1 .. Len(b) : t[Len(a) + i] = b[i]
  BY <1>1, <1>2
<1>5. \A i \in 1 .. Len(c) : t[Len(a) + Len(b) + i] = c[i]
  BY <1>1, <1>2
<1>6. ASSUME NEW x \in Seq(C), NEW k \in Nat, k + Len(x) <= Len(t), \A i \in 1 .. Len(x) : t[k + i] = x[i]
      PROVE  SubSeq(t, k + 1, k + Len(x)) = x
  <2> DEFINE u == SubSeq(t, k + 1, k + Len(x))
  <2>1. Len(x) \in Nat /\ Len(t) \in Nat
    BY <1>1, <1>2
  <2>2. \A i \in k + 1 .. k + Len(x) : t[i] \in C
    <3>1. \A i \in 1 .. Len(t) : t[i] \in C
      BY <1>2
    <3> QED
      BY <3>1, <2>1, <1>6
  <2>3. /\ u \in Seq(C)
        /\ Len(u) = IF k + 1 <= k + Len(x) THEN k + Len(x) - (k + 1) + 1 ELSE 0
        /\ \A i \in 1 .. k + Len(x) - (k + 1) + 1 : u[i] = t[k + 1 + i - 1]
    BY <2>1, <2>2, SubSeqProperties
  <2> HIDE DEF u
  <2>4. Len(u) = Len(x)
    BY <2>1, <2>3
  <2>5. ASSUME NEW i \in 1 .. Len(x) PROVE u[i] = x[i]
    <3>1. i \in 1 .. k + Len(x) - (k + 1) + 1 /\ k + 1 + i - 1 = k + i
      BY <2>1
    <3> QED
      BY <3>1, <2>3, <1>6
  <2>6. u = x
    BY <2>3, <2>4, <2>5, SeqEqual
  <2> QED
    BY <2>6 DEF u
<1>7. SubSeq(t, 1, Len(a)) = a
  <2>1. 0 + 1 = 1 /\ 0 + Len(a) = Len(a) /\ 0 + Len(a) <= Len(t) /\ \A i \in 1 .. Len(a) : t[0 + i] = a[i]
    BY <1>1, <1>2, <1>3
  <2> QED
    BY <2>1, <1>6
<1>8. SubSeq(t, Len(a) + 1, Len(a) + Len(b)) = b
  <2>1. Len(a) + Len(b) <= Len(t)
    BY <1>1, <1>2
  <2> QED
    BY <2>1, <1>1, <1>4, <1>6
<1>9. SubSeq(t, Len(a) + Len(b) + 1, Len(t)) = c
  <2> DEFINE k == Len(a) + Len(b)
  <2>1. k \in Nat /\ k + Len(c) = Len(t) /\ \A i \in 1 .. Len(c) : t[k + i] = c[i]
    BY <1>1, <1>2, <1>5
  <2> HIDE DEF k
  <2>2. SubSeq(t, k + 1, k + Len(c)) = c
    <3>1. k + Len(c) <= Len(t)
      BY <1>1, <1>2, <2>1
    <3> QED
      BY <3>1, <2>1, <1>6
  <2> QED
    BY <2>1, <2>2 DEF k
<1> QED
  BY <1>1, <1>2, <1>4, <1>7, <1>8, <1>9 DEF t, Parts

(* An item begins behind all those in front of it. *)
LEMMA StartsIncrease ==
  ASSUME NEW s \in Sources, NEW z \in DOMAIN s, NEW i \in DOMAIN s, i < z
  PROVE  Len(Ahead(s, i)) + s[i].width <= Len(Ahead(s, z))
<1> DEFINE g == Mixed(s, {})
           C == CellsOf(s)
<1>1. Len(s) \in Nat /\ DOMAIN s = 1 .. Len(s) /\ z \in 1 .. Len(s) /\ i \in 1 .. Len(s)
  BY SourceFacts
<1>2. ASSUME NEW j \in 1 .. z - 1 PROVE g[j] \in Seq(C)
  <2>1. j \in DOMAIN s
    BY <1>1
  <2> QED
    BY <2>1, PieceTyped
<1>3. g[i] = Old(s, i) /\ Old(s, i) \in Seq(C) /\ Len(Old(s, i)) = s[i].width
  BY PieceTyped
<1>4. z - 1 \in Nat /\ i \in 1 .. z - 1
  BY <1>1
<1> HIDE DEF g, C
<1>5. PICK r \in Seq(C) : Joined(g, z - 1) = (Joined(g, i - 1) \o g[i]) \o r
  <2>1. Alike(C, z - 1, i, g, g)
    BY <1>2 DEF Alike
  <2>2. Behind(C, z - 1, i, g, g)
    BY <1>4, <2>1, Around
  <2> QED
    BY <2>2 DEF Behind
<1>6. Joined(g, i - 1) \in Seq(C) /\ Joined(g, i - 1) = Ahead(s, i) /\ Joined(g, z - 1) = Ahead(s, z)
  BY TextTyped DEF g, C, Ahead
<1>7. Parts((Ahead(s, i) \o g[i]) \o r, Ahead(s, i), g[i], r)
  BY <1>3, <1>6, Sliced
<1> QED
  BY <1>3, <1>5, <1>6, <1>7 DEF Parts

(* Before an item is rewritten, and while only items behind it are, the range collected for it holds
   its bytes, and the replacement exchanges it. *)
LEMMA Exchange ==
  ASSUME NEW s \in Sources, NEW z \in DOMAIN s, NEW D, \A d \in D : d \in Nat /\ z < d
  PROVE  LET c == Collected(s, z)
         IN /\ c.start \in Nat /\ c.end = c.start + s[z].width /\ c.end <= Len(Text(s, D))
            /\ SubSeq(Text(s, D), c.start + 1, c.end) = Old(s, z)
            /\ Text(s, D)[c.start + 1] = <<z, 1>>
            /\ Replaced(Text(s, D), c) = Text(s, D \union {z})
<1> DEFINE g == Mixed(s, D)
           h == Mixed(s, D \union {z})
           C == CellsOf(s)
           a == Ahead(s, z)
           n == Len(s)
<1>1. n \in Nat /\ DOMAIN s = 1 .. n /\ z \in 1 .. n /\ s[z].width \in Nat \ {0}
  BY SourceFacts
<1>2. \A i \in 1 .. n : g[i] \in Seq(C) /\ h[i] \in Seq(C)
  <2>1. \A i \in DOMAIN s : \A E : Mixed(s, E)[i] \in Seq(CellsOf(s))
    BY PieceTyped
  <2> QED
    BY <1>1, <2>1
<1>3. \A i \in 1 .. n : i # z => g[i] = h[i]
  BY <1>1 DEF Mixed
<1>4. /\ g[z] = Old(s, z) /\ Old(s, z) \in Seq(C) /\ Len(Old(s, z)) = s[z].width
      /\ h[z] = NewText(z) /\ NewText(z) \in Seq(C)
  <2>1. z \notin D /\ z \in D \union {z}
    BY <1>1
  <2> QED
    BY <2>1, PieceTyped
<1>5. Joined(g, z - 1) = a
  <2>1. z - 1 \in Nat /\ \A i \in 1 .. z - 1 : g[i] = Mixed(s, {})[i]
    BY <1>1 DEF Mixed
  <2> HIDE DEF g
  <2> QED
    BY <2>1, JoinedSame DEF Ahead
<1>6. a \in Seq(C)
  BY TextTyped
<1>7. Text(s, D) = Joined(g, n) /\ Text(s, D \union {z}) = Joined(h, n)
  BY DEF Text
<1>8. Old(s, z)[1] = <<z, 1>>
  BY <1>1 DEF Old
<1>9. /\ Collected(s, z).start = Len(a) /\ Collected(s, z).end = Len(a) + s[z].width
      /\ Collected(s, z).text = NewText(z)
  BY DEF Collected
<1> HIDE DEF g, h, C, a, n
<1>10. PICK r \in Seq(C) : /\ Joined(g, n) = (Joined(g, z - 1) \o g[z]) \o r
                           /\ Joined(h, n) = (Joined(g, z - 1) \o h[z]) \o r
  <2>1. Alike(C, n, z, g, h)
    BY <1>2, <1>3 DEF Alike
  <2>2. Behind(C, n, z, g, h)
    BY <1>1, <2>1, Around
  <2> QED
    BY <2>2 DEF Behind
<1> DEFINE b == Old(s, z)
<1>11. b \in Seq(C) /\ Len(b) = s[z].width /\ b[1] = <<z, 1>> /\ b = Old(s, z)
  BY <1>4, <1>8
<1> HIDE DEF b
<1> DEFINE t == (a \o b) \o r
<1>12. Parts(t, a, b, r)
  BY <1>6, <1>11, Sliced
<1>13. Text(s, D) = t /\ Text(s, D \union {z}) = (a \o NewText(z)) \o r
  BY <1>4, <1>5, <1>7, <1>10, <1>11
<1> HIDE DEF t
<1> DEFINE e == Len(a) + Len(b)
<1>14. /\ Len(a) \in Nat /\ Len(b) \in Nat /\ e <= Len(t)
       /\ SubSeq(t, 1, Len(a)) = a /\ SubSeq(t, Len(a) + 1, e) = b /\ SubSeq(t, e + 1, Len(t)) = r
  BY <1>12 DEF Parts
<1>15. t[Len(a) + 1] = <<z, 1>>
  <2>1. 1 \in 1 .. Len(b)
    BY <1>1, <1>11
  <2>2. t[Len(a) + 1] = b[1]
    BY <1>12, <2>1 DEF Parts
  <2> QED
    BY <1>11, <2>2
<1>16. /\ Collected(s, z).start = Len(a) /\ Collected(s, z).end = e
       /\ Collected(s, z).end = Collected(s, z).start + s[z].width
       /\ Collected(s, z).text = NewText(z)
  BY <1>9, <1>11
<1> HIDE DEF e
<1>17. Replaced(Text(s, D), Collected(s, z)) = (a \o NewText(z)) \o r
  BY <1>13, <1>14, <1>16 DEF Replaced
<1> QED
  BY <1>11, <1>13, <1>14, <1>15, <1>16, <1>17

-----------------------------------------------------------------------------
(* The replacements that are left are exactly those of the zones not yet rewritten, and from the
   sort on every zone still to be rewritten is in front of all that have been. *)

ZonesOf(s)    == {i \in DOMAIN s : s[i].kind = "named"}
Left(s, q)    == {i \in ZonesOf(s) : Collected(s, i) \in Range(q)}
Descending(q) == \A j, k \in DOMAIN q : j < k => q[j].start > q[k].start

Walking(s, u, q, t) == t = Text(s, {}) /\ \A i \in ZonesOf(s) : i \in u \/ i \in Left(s, q)
Applying(s, q, t) ==
  /\ Descending(q)
  /\ t = Text(s, ZonesOf(s) \ Left(s, q))
  /\ \A i \in Left(s, q), d \in ZonesOf(s) \ Left(s, q) : i < d

RInv ==
  /\ src \in Sources
  /\ unvisited \subseteq DOMAIN src
  /\ stage \in {"walk", "apply", "resolve", "done"}
  /\ rewrites \in Seq({Collected(src, i) : i \in ZonesOf(src)})
  /\ stage = "walk" => Walking(src, unvisited, rewrites, out)
  /\ stage = "apply" => Applying(src, rewrites, out)
  /\ stage \in {"resolve", "done"} => rewrites = <<>> /\ out = Text(src, ZonesOf(src))
  /\ stage # "done" => reported = <<>>
  /\ Len(reported) \in {0, 3}

LEMMA CollectedOrder ==
  ASSUME NEW s \in Sources, NEW i \in DOMAIN s, NEW z \in DOMAIN s
  PROVE  /\ Collected(s, i).start < Collected(s, z).start => i < z
         /\ Collected(s, i) = Collected(s, z) => i = z
<1>1. i \in Nat /\ z \in Nat
  BY SourceFacts
<1>2. ASSUME NEW x \in DOMAIN s, NEW y \in DOMAIN s, x < y
      PROVE  Collected(s, x).start \in Nat /\ Collected(s, y).start \in Nat /\ Collected(s, x).start < Collected(s, y).start
  <2>1. Len(Ahead(s, x)) + s[x].width <= Len(Ahead(s, y))
    BY <1>2, StartsIncrease
  <2>2. s[x].width \in Nat \ {0}
    BY SourceFacts
  <2>3. Ahead(s, x) \in Seq(CellsOf(s)) /\ Ahead(s, y) \in Seq(CellsOf(s))
    BY TextTyped
  <2>4. Len(Ahead(s, x)) \in Nat /\ Len(Ahead(s, y)) \in Nat
    BY <2>3, SeqFacts
  <2>5. Collected(s, x).start = Len(Ahead(s, x)) /\ Collected(s, y).start = Len(Ahead(s, y))
    BY DEF Collected
  <2> QED
    BY <2>1, <2>2, <2>4, <2>5
<1>3. CASE i < z
  <2>1. ~(Collected(s, i) = Collected(s, z))
    BY <1>2, <1>3
  <2> QED
    BY <1>3, <2>1
<1>4. CASE z < i
  <2>1. /\ Collected(s, i).start \in Nat /\ Collected(s, z).start \in Nat
        /\ Collected(s, z).start < Collected(s, i).start
    BY <1>2, <1>4
  <2> QED
    BY <2>1
<1>5. CASE i = z
  <2>1. Collected(s, i).start \in Nat
    BY TextTyped, SeqFacts DEF Collected
  <2> QED
    BY <1>5, <2>1
<1> QED
  BY <1>1, <1>3, <1>4, <1>5

(* Replacing the range that is first in the list. *)
LEMMA ReplaceHead ==
  ASSUME NEW s \in Sources, NEW q \in Seq({Collected(s, i) : i \in ZonesOf(s)}), q # <<>>,
         NEW t, Applying(s, q, t)
  PROVE  Applying(s, Tail(q), Replaced(t, Head(q)))
<1> DEFINE S == {Collected(s, i) : i \in ZonesOf(s)}
           D == ZonesOf(s) \ Left(s, q)
<1>1. /\ Len(q) \in Nat \ {0} /\ DOMAIN q = 1 .. Len(q) /\ \A k \in DOMAIN q : q[k] \in S
      /\ Head(q) = q[1] /\ 1 \in DOMAIN q
  BY SeqFacts
<1>2. /\ DOMAIN Tail(q) = 1 .. Len(q) - 1
      /\ \A k \in 1 .. Len(q) - 1 : Tail(q)[k] = q[k + 1] /\ k + 1 \in DOMAIN q /\ 1 < k + 1
  <2>1. Tail(q) \in Seq(S) /\ Len(Tail(q)) = Len(q) - 1 /\ \A k \in 1 .. Len(Tail(q)) : Tail(q)[k] = q[k + 1]
    BY HeadTailProperties
  <2>2. DOMAIN Tail(q) = 1 .. Len(Tail(q))
    BY <2>1, SeqFacts
  <2> QED
    BY <1>1, <2>1, <2>2
<1>3. PICK z \in ZonesOf(s) : q[1] = Collected(s, z)
  BY <1>1
<1>4. z \in DOMAIN s /\ z \in Left(s, q)
  BY <1>1, <1>3 DEF ZonesOf, Left, Range
<1>5. Descending(q) /\ t = Text(s, D) /\ \A i \in Left(s, q), d \in D : i < d
  BY DEF Applying
<1>6. \A d \in D : d \in Nat /\ z < d
  <2>1. D \subseteq Nat
    BY SourceFacts DEF ZonesOf
  <2> QED
    BY <1>4, <1>5, <2>1
<1> HIDE DEF D, S
<1>7. Replaced(t, Head(q)) = Text(s, D \union {z})
  BY <1>1, <1>3, <1>4, <1>5, <1>6, Exchange
<1>8. ASSUME NEW i \in Left(s, Tail(q)) PROVE i \in Left(s, q) /\ i < z
  <2>1. i \in ZonesOf(s) /\ i \in DOMAIN s
    BY DEF Left, ZonesOf
  <2>2. PICK k \in 1 .. Len(q) - 1 : Collected(s, i) = q[k + 1]
    BY <1>2 DEF Left, Range
  <2>3. Collected(s, i).start < Collected(s, z).start
    <3>1. q[1].start > q[k + 1].start
      BY <1>1, <1>2, <1>5 DEF Descending
    <3> QED
      BY <3>1, <2>2, <1>3
  <2>4. i < z
    BY <2>1, <2>3, <1>4, CollectedOrder
  <2>5. i \in Left(s, q)
    BY <1>2, <2>1, <2>2 DEF Left, Range
  <2> QED
    BY <2>4, <2>5
<1>9. ASSUME NEW i \in Left(s, q), i # z PROVE i \in Left(s, Tail(q))
  <2>1. i \in ZonesOf(s) /\ i \in DOMAIN s
    BY DEF Left, ZonesOf
  <2>2. PICK k \in DOMAIN q : Collected(s, i) = q[k]
    BY DEF Left, Range
  <2>3. k # 1
    BY <1>3, <1>4, <1>9, <2>1, <2>2, CollectedOrder
  <2>4. k - 1 \in 1 .. Len(q) - 1 /\ (k - 1) + 1 = k
    BY <1>1, <2>3
  <2>5. Tail(q)[k - 1] = Collected(s, i) /\ k - 1 \in DOMAIN Tail(q)
    BY <1>2, <2>2, <2>4
  <2> QED
    BY <2>1, <2>5 DEF Left, Range
<1>10. z \notin Left(s, Tail(q))
  <2>1. z \in Nat
    BY <1>4, SourceFacts
  <2> QED
    BY <1>8, <2>1
<1>11. ZonesOf(s) \ Left(s, Tail(q)) = D \union {z}
  BY <1>3, <1>8, <1>9, <1>10 DEF D
<1>12. Descending(Tail(q))
  <2> SUFFICES ASSUME NEW j \in 1 .. Len(q) - 1, NEW k \in 1 .. Len(q) - 1, j < k
               PROVE  Tail(q)[j].start > Tail(q)[k].start
    BY <1>2 DEF Descending
  <2>1. j + 1 < k + 1
    OBVIOUS
  <2> QED
    BY <1>2, <1>5, <2>1 DEF Descending
<1>13. \A i \in Left(s, Tail(q)), d \in D \union {z} : i < d
  BY <1>5, <1>8
<1> QED
  BY <1>7, <1>11, <1>12, <1>13 DEF Applying

(* Sorting loses no replacement. *)
LEMMA PermutedSame ==
  ASSUME NEW S, NEW q \in Seq(S), NEW p \in Bijection(DOMAIN q, DOMAIN q)
  PROVE  /\ [k \in DOMAIN q |-> q[p[k]]] \in Seq(S)
         /\ DOMAIN [k \in DOMAIN q |-> q[p[k]]] = DOMAIN q
         /\ Range([k \in DOMAIN q |-> q[p[k]]]) = Range(q)
<1> DEFINE f == [k \in DOMAIN q |-> q[p[k]]]
<1>1. Len(q) \in Nat /\ DOMAIN q = 1 .. Len(q) /\ \A k \in DOMAIN q : q[k] \in S
  BY SeqFacts
<1>2. (\A k \in DOMAIN q : p[k] \in DOMAIN q) /\ \A j \in DOMAIN q : \E k \in DOMAIN q : p[k] = j
  BY DEF Bijection, Injection, Surjection
<1>3. f \in [1 .. Len(q) -> S]
  BY <1>1, <1>2
<1>4. f \in Seq(S)
  <2> HIDE DEF f
  <2> QED
    BY <1>1, <1>3
<1>5. Range(f) = Range(q)
  <2>1. ASSUME NEW k \in DOMAIN q PROVE f[k] \in Range(q)
    BY <1>2 DEF Range
  <2>2. ASSUME NEW j \in DOMAIN q PROVE \E k \in DOMAIN q : f[k] = q[j]
    BY <1>2
  <2>3. DOMAIN f = DOMAIN q
    OBVIOUS
  <2> HIDE DEF f
  <2> QED
    BY <2>1, <2>2, <2>3 DEF Range
<1> QED
  BY <1>4, <1>5

LEMMA VisitCollects ==
  ASSUME RInv, NEW i \in DOMAIN src, Visit(i)
  PROVE  RInv'
<1> DEFINE S == {Collected(src, j) : j \in ZonesOf(src)}
<1>1. src' = src /\ unvisited' = unvisited \ {i} /\ stage = "walk" /\ stage' = "walk" /\ out' = out /\ reported' = reported
  BY DEF Visit
<1>2. rewrites \in Seq(S) /\ src \in Sources
  BY DEF RInv
<1>3. rewrites' \in Seq(S) /\ \A j \in ZonesOf(src) : (j \in Left(src, rewrites) \/ j = i) => j \in Left(src, rewrites')
  <2>1. CASE src[i].kind = "named"
    <3>1. i \in ZonesOf(src)
      BY <2>1 DEF ZonesOf
    <3>2. rewrites' = Append(rewrites, Collected(src, i))
      <4>1. Start(i) = Len(Ahead(src, i))
        BY <1>2, TextsOfSource
      <4> QED
        BY <2>1, <4>1 DEF Visit, Collected
    <3>3. Collected(src, i) \in S
      BY <3>1
    <3> HIDE DEF S
    <3>4. /\ rewrites' \in Seq(S) /\ Len(rewrites') = Len(rewrites) + 1
          /\ \A k \in 1 .. Len(rewrites) : rewrites'[k] = rewrites[k]
          /\ rewrites'[Len(rewrites) + 1] = Collected(src, i)
      BY <1>2, <3>2, <3>3, AppendProperties
    <3>5. /\ Len(rewrites) \in Nat /\ DOMAIN rewrites = 1 .. Len(rewrites)
          /\ DOMAIN rewrites' = 1 .. Len(rewrites')
      BY <1>2, <3>4, SeqFacts
    <3>6. Collected(src, i) \in Range(rewrites')
      BY <3>4, <3>5 DEF Range
    <3>7. \A e \in Range(rewrites) : e \in Range(rewrites')
      BY <3>4, <3>5 DEF Range
    <3> QED
      BY <3>4, <3>6, <3>7 DEF Left
  <2>2. CASE src[i].kind # "named"
    <3>1. rewrites' = rewrites /\ i \notin ZonesOf(src)
      BY <2>2 DEF Visit, ZonesOf
    <3> QED
      BY <1>2, <3>1
  <2> QED
    BY <2>1, <2>2
<1>4. Walking(src, unvisited, rewrites, out)
  BY <1>1 DEF RInv
<1>5. Walking(src, unvisited', rewrites', out)
  BY <1>1, <1>3, <1>4 DEF Walking
<1>6. (stage # "done" => reported = <<>>) /\ Len(reported) \in {0, 3} /\ unvisited \subseteq DOMAIN src
  BY DEF RInv
<1>7. /\ src' \in Sources /\ unvisited' \subseteq DOMAIN src'
      /\ rewrites' \in Seq({Collected(src', j) : j \in ZonesOf(src')})
      /\ Walking(src', unvisited', rewrites', out')
      /\ reported' = <<>> /\ Len(reported') \in {0, 3}
  BY <1>1, <1>2, <1>3, <1>5, <1>6
<1> QED
  BY <1>1, <1>7 DEF RInv

LEMMA SortKeeps ==
  ASSUME RInv, SortRewrites
  PROVE  RInv'
<1> DEFINE S == {Collected(src, j) : j \in ZonesOf(src)}
<1>1. src' = src /\ unvisited' = unvisited /\ unvisited = {} /\ stage = "walk" /\ stage' = "apply" /\ out' = out /\ reported' = reported
  BY DEF SortRewrites
<1>2. rewrites \in Seq(S) /\ src \in Sources
  BY DEF RInv
<1>3. PICK p \in Bijection(DOMAIN rewrites, DOMAIN rewrites) :
        /\ rewrites' = [k \in DOMAIN rewrites |-> rewrites[p[k]]]
        /\ \A j, k \in DOMAIN rewrites : j < k => RightToLeft(rewrites[p[j]], rewrites[p[k]])
  BY DEF SortRewrites
<1>4. rewrites' \in Seq(S) /\ DOMAIN rewrites' = DOMAIN rewrites /\ Range(rewrites') = Range(rewrites)
  <2> HIDE DEF S
  <2> QED
    BY <1>2, <1>3, PermutedSame
<1>5. \A k \in DOMAIN rewrites : rewrites'[k] = rewrites[p[k]]
  BY <1>3
<1>6. Descending(rewrites')
  BY <1>3, <1>4, <1>5 DEF Descending, RightToLeft
<1>7. Walking(src, unvisited, rewrites, out)
  BY <1>1 DEF RInv
<1>8. Left(src, rewrites') = ZonesOf(src) /\ out = Text(src, {})
  BY <1>1, <1>4, <1>7 DEF Left, Walking
<1>9. Applying(src, rewrites', out)
  <2>1. ZonesOf(src) \ Left(src, rewrites') = {}
    BY <1>8
  <2> QED
    BY <1>6, <1>8, <2>1 DEF Applying
<1>10. (stage # "done" => reported = <<>>) /\ Len(reported) \in {0, 3} /\ unvisited \subseteq DOMAIN src
  BY DEF RInv
<1>11. /\ src' \in Sources /\ unvisited' \subseteq DOMAIN src'
       /\ rewrites' \in Seq({Collected(src', j) : j \in ZonesOf(src')})
       /\ Applying(src', rewrites', out')
       /\ reported' = <<>> /\ Len(reported') \in {0, 3}
  BY <1>1, <1>2, <1>4, <1>9, <1>10
<1> QED
  BY <1>1, <1>11 DEF RInv

LEMMA ReplaceKeeps ==
  ASSUME RInv, Replace
  PROVE  RInv'
<1> DEFINE S == {Collected(src, j) : j \in ZonesOf(src)}
<1>1. /\ src' = src /\ unvisited' = unvisited /\ stage = "apply" /\ stage' = "apply" /\ reported' = reported
      /\ rewrites # <<>> /\ rewrites' = Tail(rewrites) /\ out' = Replaced(out, Head(rewrites))
  BY DEF Replace
<1>2. rewrites \in Seq(S) /\ src \in Sources /\ Applying(src, rewrites, out)
  BY <1>1 DEF RInv
<1>3. Applying(src, rewrites', out')
  BY <1>1, <1>2, ReplaceHead
<1>4. rewrites' \in Seq(S)
  <2> HIDE DEF S
  <2> QED
    BY <1>1, <1>2, HeadTailProperties
<1>5. (stage # "done" => reported = <<>>) /\ Len(reported) \in {0, 3} /\ unvisited \subseteq DOMAIN src
  BY DEF RInv
<1>6. /\ src' \in Sources /\ unvisited' \subseteq DOMAIN src'
      /\ rewrites' \in Seq({Collected(src', j) : j \in ZonesOf(src')})
      /\ Applying(src', rewrites', out')
      /\ reported' = <<>> /\ Len(reported') \in {0, 3}
  BY <1>1, <1>2, <1>3, <1>4, <1>5
<1> QED
  BY <1>1, <1>6 DEF RInv

LEMMA SubmitKeeps ==
  ASSUME RInv, Submit
  PROVE  RInv'
<1>1. /\ src' = src /\ unvisited' = unvisited /\ stage = "apply" /\ stage' = "resolve" /\ reported' = reported
      /\ rewrites = <<>> /\ rewrites' = rewrites /\ out' = out
  BY DEF Submit
<1>2. Applying(src, rewrites, out)
  BY <1>1 DEF RInv
<1>3. ZonesOf(src) \ Left(src, rewrites) = ZonesOf(src)
  BY <1>1 DEF Left, Range
<1>4. out = Text(src, ZonesOf(src))
  BY <1>2, <1>3 DEF Applying
<1>5. /\ (stage # "done" => reported = <<>>) /\ Len(reported) \in {0, 3} /\ unvisited \subseteq DOMAIN src
      /\ src \in Sources /\ rewrites \in Seq({Collected(src, i) : i \in ZonesOf(src)})
  BY DEF RInv
<1>6. /\ src' \in Sources /\ unvisited' \subseteq DOMAIN src'
      /\ rewrites' \in Seq({Collected(src', j) : j \in ZonesOf(src')})
      /\ rewrites' = <<>> /\ out' = Text(src', ZonesOf(src'))
      /\ reported' = <<>> /\ Len(reported') \in {0, 3}
  BY <1>1, <1>4, <1>5
<1> QED
  BY <1>1, <1>6 DEF RInv

LEMMA TripleOfPair ==
  ASSUME NEW i, NEW l, NEW c
  PROVE  /\ Len(<<i>> \o <<l, c>>) = 3
         /\ (<<i>> \o <<l, c>>)[1] = i /\ (<<i>> \o <<l, c>>)[2] = l /\ (<<i>> \o <<l, c>>)[3] = c
<1>1. /\ <<i>> \in Seq({i, l, c}) /\ <<l, c>> \in Seq({i, l, c})
      /\ Len(<<i>>) = 1 /\ Len(<<l, c>>) = 2
      /\ <<i>>[1] = i /\ <<l, c>>[1] = l /\ <<l, c>>[2] = c
  OBVIOUS
<1> DEFINE x == <<i>>
           y == <<l, c>>
<1> HIDE DEF x, y
<1>2. /\ Len(x \o y) = Len(x) + Len(y)
      /\ \A k \in 1 .. Len(x) + Len(y) : (x \o y)[k] = IF k <= Len(x) THEN x[k] ELSE y[k - Len(x)]
  BY <1>1, ConcatProperties DEF x, y
<1>3. Len(x) = 1 /\ Len(y) = 2 /\ x[1] = i /\ y[1] = l /\ y[2] = c
  BY <1>1 DEF x, y
<1>4. Len(x \o y) = 3 /\ (x \o y)[1] = i /\ (x \o y)[2] = l /\ (x \o y)[3] = c
  BY <1>2, <1>3
<1> QED
  BY <1>4 DEF x, y

LEMMA ResolveKeeps ==
  ASSUME RInv, Resolve
  PROVE  RInv'
<1>1. /\ src' = src /\ unvisited' = unvisited /\ stage = "resolve" /\ stage' = "done"
      /\ rewrites' = rewrites /\ out' = out
  BY DEF Resolve
<1>2. /\ Len(reported) \in {0, 3} /\ unvisited \subseteq DOMAIN src /\ rewrites = <<>>
      /\ out = Text(src, ZonesOf(src))
      /\ src \in Sources /\ rewrites \in Seq({Collected(src, i) : i \in ZonesOf(src)})
  BY <1>1 DEF RInv
<1>3. Len(reported') \in {0, 3}
  <2>1. CASE UNCHANGED reported
    BY <1>2, <2>1
  <2>2. ASSUME NEW i, reported' = <<i>> \o byteOffsetToLineColumn(ResolverText, OffsetOf(i))
        PROVE  Len(reported') = 3
    <3>1. PICK l, c : byteOffsetToLineColumn(ResolverText, OffsetOf(i)) = <<l, c>>
      BY DEF byteOffsetToLineColumn
    <3> QED
      BY <2>2, <3>1, TripleOfPair
  <2> QED
    BY <2>1, <2>2 DEF Resolve
<1>4. /\ src' \in Sources /\ unvisited' \subseteq DOMAIN src'
      /\ rewrites' \in Seq({Collected(src', j) : j \in ZonesOf(src')})
      /\ rewrites' = <<>> /\ out' = Text(src', ZonesOf(src'))
  BY <1>1, <1>2
<1> QED
  BY <1>1, <1>3, <1>4 DEF RInv

LEMMA RInvInductive == Spec => []RInv
<1>1. Init => RInv
  <2> SUFFICES ASSUME Init PROVE RInv
    OBVIOUS
  <2>1. src \in Sources /\ stage = "walk" /\ reported = <<>> /\ rewrites = <<>> /\ unvisited \subseteq DOMAIN src
    BY DEF Init
  <2>2. Walking(src, unvisited, rewrites, out)
    BY <2>1, TextsOfSource DEF Init, Walking, ZonesOf
  <2>3. rewrites \in Seq({Collected(src, i) : i \in ZonesOf(src)}) /\ Len(reported) = 0
    BY <2>1
  <2> QED
    BY <2>1, <2>2, <2>3 DEF RInv
<1>2. RInv /\ [Next]_vars => RInv'
  <2> SUFFICES ASSUME RInv, [Next]_vars PROVE RInv'
    OBVIOUS
  <2>1. ASSUME NEW i \in DOMAIN src, Visit(i) PROVE RInv'
    BY <2>1, VisitCollects
  <2>2. CASE SortRewrites
    BY <2>2, SortKeeps
  <2>3. CASE Replace
    BY <2>3, ReplaceKeeps
  <2>4. CASE Submit
    BY <2>4, SubmitKeeps
  <2>5. CASE Resolve
    BY <2>5, ResolveKeeps
  <2>6. CASE UNCHANGED vars
    BY <2>6 DEF vars, RInv
  <2> QED
    BY <2>1, <2>2, <2>3, <2>4, <2>5, <2>6 DEF Next
<1> QED
  BY <1>1, <1>2, PTL DEF Spec

-----------------------------------------------------------------------------
(* A range that waits still holds, in the text being rewritten, the bytes of the caller's text. *)
LEMMA RangesHold ==
  ASSUME RInv, NEW r \in Range(rewrites)
  PROVE  /\ r.start \in Nat /\ r.start < r.end /\ r.end <= Len(out)
         /\ SubSeq(out, r.start + 1, r.end) = SubSeq(Sql, r.start + 1, r.end)
<1>1. src \in Sources /\ rewrites \in Seq({Collected(src, i) : i \in ZonesOf(src)})
  BY DEF RInv
<1>2. PICK z \in ZonesOf(src) : r = Collected(src, z)
  BY <1>1, SeqFacts DEF Range
<1>3. z \in DOMAIN src /\ z \in Left(src, rewrites) /\ src[z].width \in Nat \ {0}
  BY <1>1, <1>2, SourceFacts DEF ZonesOf, Left
<1>4. rewrites # <<>>
  BY DEF Range
<1>5. \E D : (\A d \in D : d \in Nat /\ z < d) /\ out = Text(src, D)
  <2>1. CASE stage = "walk"
    BY <2>1 DEF RInv, Walking
  <2>2. CASE stage = "apply"
    <3>1. /\ out = Text(src, ZonesOf(src) \ Left(src, rewrites))
          /\ \A d \in ZonesOf(src) \ Left(src, rewrites) : z < d
      BY <1>3, <2>2 DEF RInv, Applying
    <3>2. \A d \in ZonesOf(src) : d \in Nat
      BY <1>1, SourceFacts DEF ZonesOf
    <3> QED
      BY <3>1, <3>2
  <2> QED
    BY <1>4, <2>1, <2>2 DEF RInv
<1>6. PICK D : (\A d \in D : d \in Nat /\ z < d) /\ out = Text(src, D)
  BY <1>5
<1>7. /\ r.start \in Nat /\ r.end = r.start + src[z].width /\ r.end <= Len(out)
      /\ SubSeq(out, r.start + 1, r.end) = Old(src, z)
  BY <1>1, <1>2, <1>3, <1>6, Exchange
<1>8. SubSeq(Text(src, {}), r.start + 1, r.end) = Old(src, z)
  <2>1. \A d \in {} : d \in Nat /\ z < d
    OBVIOUS
  <2> QED
    BY <1>1, <1>2, <1>3, <2>1, Exchange
<1>9. Sql = Text(src, {})
  BY <1>1, TextsOfSource
<1>10. r.start < r.end
  BY <1>3, <1>7
<1> QED
  BY <1>7, <1>8, <1>9, <1>10

(* Every range to be replaced lies within the text, and every byte of the text belongs to an item of the
   caller's (rewrite_named_timezone.go:71-80). *)
THEOREM RewriteTypeCorrect == Spec => []TypeOK
<1>1. RInv => TypeOK
  <2> SUFFICES ASSUME RInv PROVE TypeOK
    OBVIOUS
  <2>1. \A r \in Range(rewrites) : 0 <= r.start /\ r.start < r.end /\ r.end <= Len(out)
    BY RangesHold
  <2>2. \E D : out = Text(src, D)
    BY DEF RInv, Walking, Applying
  <2>3. src \in Sources /\ unvisited \subseteq DOMAIN src /\ stage \in {"walk", "apply", "resolve", "done"} /\ Len(reported) \in {0, 3}
    BY DEF RInv
  <2>4. out \in Seq(CellsOf(src))
    BY <2>2, <2>3, TextTyped
  <2>5. \A p \in DOMAIN out : Magnitude(out[p][1]) \in DOMAIN src
    BY <2>4, SeqFacts DEF CellsOf
  <2> QED
    BY <2>1, <2>3, <2>5 DEF TypeOK
<1> QED
  BY <1>1, RInvInductive, PTL

(* Whatever order the walk meets the literals in, a replacement is made where its literal is, and in the
   end each literal with a named zone has been exchanged for its own replacement and nothing else has
   changed (RewriteNamedTimezoneLiterals, rewrite_named_timezone.go:38-83). *)
THEOREM LiteralsExchanged == Spec => []Spliced
<1>1. RInv => Spliced
  <2> SUFFICES ASSUME RInv PROVE Spliced
    OBVIOUS
  <2>1. \A r \in Range(rewrites) : SubSeq(out, r.start + 1, r.end) = SubSeq(Sql, r.start + 1, r.end)
    BY RangesHold
  <2>2. stage \in {"resolve", "done"} => out = Text(src, Zones)
    BY DEF RInv, Zones, ZonesOf
  <2>3. FlattenSeq([i \in DOMAIN src |-> IF src[i].kind = "named" THEN NewText(i) ELSE OldText(i)]) = Text(src, Zones)
    BY TextsOfSource DEF RInv
  <2> QED
    BY <2>1, <2>2, <2>3 DEF Spliced
<1> QED
  BY <1>1, RInvInductive, PTL

-----------------------------------------------------------------------------
(* Where a literal that was not rewritten is. *)
LEMMA LiteralFound ==
  ASSUME NEW s \in Sources, NEW z \in DOMAIN s, NEW D, z \notin D
  PROVE  \E p \in DOMAIN Text(s, D) : Text(s, D)[p] = <<z, 1>>
<1> DEFINE g == Mixed(s, D)
           C == CellsOf(s)
           n == Len(s)
           b == g[z]
<1>1. n \in Nat /\ DOMAIN s = 1 .. n /\ z \in 1 .. n /\ s[z].width \in Nat \ {0}
  BY SourceFacts
<1>2. \A i \in 1 .. n : g[i] \in Seq(C)
  BY <1>1, PieceTyped
<1>3. b = Old(s, z) /\ Len(b) = s[z].width
  BY PieceTyped
<1>4. b[1] = <<z, 1>> /\ 1 \in 1 .. Len(b)
  <2>1. Old(s, z)[1] = <<z, 1>>
    BY <1>1 DEF Old
  <2> QED
    BY <1>1, <1>3, <2>1
<1>5. Text(s, D) = Joined(g, n)
  BY DEF Text
<1>6. \A m \in 0 .. n : Joined(g, m) \in Seq(C)
  <2> HIDE DEF g, C, n
  <2>1. Pieces(C, n, g)
    BY <1>2 DEF Pieces
  <2>2. Joinable(C, n, g)
    BY <1>1, <2>1, JoinedType
  <2> QED
    BY <2>2 DEF Joinable
<1> HIDE DEF g, C, n, b
<1>7. Behind(C, n, z, g, g)
  <2>1. Alike(C, n, z, g, g)
    BY <1>2 DEF Alike
  <2> QED
    BY <1>1, <2>1, Around
<1>8. PICK r \in Seq(C) : Joined(g, n) = (Joined(g, z - 1) \o b) \o r
  BY <1>7 DEF Behind, b
<1> DEFINE a == Joined(g, z - 1)
           t == (a \o b) \o r
<1>9. a \in Seq(C) /\ b \in Seq(C)
  BY <1>1, <1>2, <1>6 DEF b
<1> HIDE DEF a
<1>10. Parts(t, a, b, r)
  BY <1>9, Sliced
<1>11. t = Text(s, D)
  BY <1>5, <1>8 DEF a
<1> HIDE DEF t
<1>12. Text(s, D)[Len(a) + 1] = <<z, 1>> /\ Len(a) + 1 \in 1 .. Len(Text(s, D))
  BY <1>4, <1>10, <1>11 DEF Parts
<1>13. DOMAIN Text(s, D) = 1 .. Len(Text(s, D))
  BY TextTyped, SeqFacts
<1> QED
  BY <1>12, <1>13

LEMMA LargestOf ==
  ASSUME NEW n \in Nat, NEW S, S \subseteq 0 .. n, S # {}
  PROVE  \E s \in S : \A t \in S : t <= s
<1> DEFINE T == {m \in 0 .. n : n - m \in S}
<1>1. T # {} /\ T \subseteq Nat
  <2>1. PICK s \in S : TRUE
    OBVIOUS
  <2>2. n - s \in T
    BY <2>1
  <2> QED
    BY <2>2
<1>2. PICK m \in T : \A y \in T : <<y, m>> \notin OpToRel(<, Nat)
  BY <1>1, NatLessThanWellFounded, WFMin
<1>3. ASSUME NEW t \in S PROVE t <= n - m
  <2>1. n - t \in T /\ n - t \in Nat /\ m \in Nat
    BY <1>1
  <2>2. ~(n - t < m)
    BY <1>2, <2>1 DEF OpToRel
  <2> QED
    BY <2>1, <2>2
<1> QED
  BY <1>3

InFront(S, t) == {u \in S : u < t}

(* In a set of line starts, a start is known by how many are in front of it. *)
LEMMA StartsCounted ==
  ASSUME NEW n \in Nat, NEW S, S \subseteq 0 .. n, NEW s \in S, NEW t \in S,
         Cardinality(InFront(S, s)) = Cardinality(InFront(S, t))
  PROVE  s = t
<1>1. ASSUME NEW x \in S, NEW y \in S, x < y
      PROVE  Cardinality(InFront(S, x)) # Cardinality(InFront(S, y))
  <2> DEFINE X == {u \in S : u < x}
             Y == {u \in S : u < y}
  <2>1. \A u \in S : u \in Nat /\ u <= n
    OBVIOUS
  <2>2. IsFiniteSet(Y)
    <3>1. Y \in SUBSET Nat /\ \A u \in Y : u <= n
      BY <2>1
    <3> HIDE DEF Y
    <3> QED
      BY <3>1, FS_BoundedSetOfNaturals
  <2>3. X \subseteq Y /\ x \in Y /\ x \notin X
    <3>1. \A u \in S : u < x => u < y
      BY <1>1, <2>1
    <3>2. ~(x < x)
      BY <2>1
    <3> QED
      BY <1>1, <3>1, <3>2
  <2> HIDE DEF X, Y
  <2>4. Cardinality(X) # Cardinality(Y)
    BY <2>2, <2>3, FS_Subset
  <2> QED
    BY <2>4 DEF X, Y, InFront
<1>2. s \in Nat /\ t \in Nat
  OBVIOUS
<1> QED
  BY <1>1, <1>2

(* The line and column of an offset lead back to it. *)
LEMMA LineColumnOfOffset ==
  ASSUME NEW C, NEW text \in Seq(C), NEW p \in DOMAIN text,
         NEW line, NEW col, byteOffsetToLineColumn(text, p - 1) = <<line, col>>
  PROVE  At(text, line, col) = text[p]
<1> DEFINE n == Len(text)
           before == Newlines(text, p - 1)
           starts == {0} \union Newlines(text, n)
           IsLast(s) == s \in before \union {0} /\ \A t \in before : t <= s
           last == CHOOSE s \in before \union {0} : \A t \in before : t <= s
<1>1. n \in Nat /\ p \in 1 .. n /\ DOMAIN text = 1 .. n
  BY SeqFacts
<1>2. before \subseteq 1 .. p - 1 /\ starts \subseteq 0 .. n
      /\ \A u \in 1 .. p - 1 : u \in starts <=> u \in before
  BY <1>1 DEF Newlines
<1>3. 0 \in starts
  OBVIOUS
<1>4. line = Cardinality(before) + 1 /\ col = (p - 1) - last + 1
  <2>1. ~(p - 1 > n)
    BY <1>1
  <2>2. byteOffsetToLineColumn(text, p - 1) = <<Cardinality(before) + 1, (p - 1) - last + 1>>
    BY <2>1 DEF byteOffsetToLineColumn
  <2> HIDE DEF before, last
  <2> QED
    BY <2>2
<1> HIDE DEF before, n
<1>5. last \in before \union {0} /\ \A t \in before : t <= last
  <2>1. before \union {0} \subseteq 0 .. p - 1 /\ p - 1 \in Nat /\ before \union {0} # {}
    BY <1>1, <1>2
  <2>2. \E s \in before \union {0} : \A t \in before \union {0} : t <= s
    BY <2>1, LargestOf
  <2> QED
    BY <2>2
<1> HIDE DEF last, starts
<1>6. last \in starts /\ last \in 0 .. p - 1
  BY <1>1, <1>2, <1>3, <1>5
<1>7. InFront(starts, last) = (before \union {0}) \ {last}
  <2>1. ASSUME NEW u \in starts, u < last PROVE u \in before \union {0} /\ u # last
    <3>1. u \in 0 .. n /\ last \in 0 .. p - 1 /\ (u = 0 \/ u \in 1 .. p - 1)
      BY <1>1, <1>2, <1>6, <2>1
    <3> QED
      BY <1>2, <1>6, <2>1, <3>1
  <2>2. ASSUME NEW u \in before \union {0}, u # last PROVE u \in starts /\ u < last
    <3>1. u \in starts
      BY <1>2, <1>3
    <3>2. u <= last /\ u \in 0 .. p - 1
      BY <1>1, <1>2, <1>5, <1>6
    <3> QED
      BY <1>6, <2>2, <3>1, <3>2
  <2> QED
    BY <2>1, <2>2 DEF InFront
<1>8. Cardinality(InFront(starts, last)) = line - 1
  <2>1. IsFiniteSet(before) /\ Cardinality(before) \in Nat
    <3>1. before \in SUBSET Nat /\ (\A u \in before : u <= p - 1) /\ p - 1 \in Nat
      BY <1>1, <1>2
    <3> QED
      BY <3>1, FS_BoundedSetOfNaturals, FS_CardinalityType
  <2>2. IsFiniteSet(before \union {0}) /\ Cardinality(before \union {0}) = Cardinality(before) + 1
    <3>1. 0 \notin before
      BY <1>1, <1>2
    <3> QED
      BY <2>1, <3>1, FS_AddElement
  <2>3. Cardinality((before \union {0}) \ {last}) = Cardinality(before \union {0}) - 1
    BY <1>5, <2>2, FS_RemoveElement
  <2> QED
    BY <1>4, <1>7, <2>1, <2>2, <2>3
<1>9. \A t \in starts : Cardinality(InFront(starts, t)) = line - 1 => t = last
  <2> SUFFICES ASSUME NEW t \in starts, Cardinality(InFront(starts, t)) = Cardinality(InFront(starts, last)) PROVE t = last
    BY <1>8
  <2> QED
    BY <1>1, <1>2, <1>6, StartsCounted
<1> DEFINE s == CHOOSE t \in starts : Cardinality({u \in starts : u < t}) = line - 1
<1>10. s = last
  <2>1. \E t \in starts : Cardinality(InFront(starts, t)) = line - 1
    BY <1>6, <1>8
  <2>2. s \in starts /\ Cardinality(InFront(starts, s)) = line - 1
    BY <2>1 DEF InFront
  <2> HIDE DEF s
  <2> QED
    BY <1>9, <2>2
<1>11. At(text, line, col) = IF s + col \in DOMAIN text THEN text[s + col] ELSE <<>>
  BY DEF At, starts, n
<1> HIDE DEF s
<1>12. s + col = p
  BY <1>1, <1>4, <1>6, <1>10
<1> QED
  BY <1>11, <1>12

(* The place reported for a bad cast is where its literal is in the text that was resolved, behind
   rewritten literals of another length too (rejectInvalidLiteralCasts and byteOffsetToLineColumn). *)
THEOREM PlaceReported == Spec => []ReportedInResolverText
<1>1. Init => ReportedInResolverText
  BY DEF Init, ReportedInResolverText
<1>2. ASSUME RInv, Resolve PROVE ReportedInResolverText'
  <2>1. src \in Sources /\ out = Text(src, ZonesOf(src)) /\ reported = <<>> /\ out' = out /\ src' = src
    BY <1>2 DEF RInv, Resolve
  <2>2. CASE UNCHANGED reported
    BY <2>1, <2>2 DEF ReportedInResolverText
  <2>3. ASSUME NEW i \in DOMAIN src, src[i].kind = "cast",
               reported' = <<i>> \o byteOffsetToLineColumn(ResolverText, OffsetOf(i))
        PROVE  ReportedInResolverText'
    <3> DEFINE p == CHOOSE q \in DOMAIN out : out[q] = <<i, 1>>
    <3>1. p \in DOMAIN out /\ out[p] = <<i, 1>>
      <4>1. i \notin ZonesOf(src)
        BY <2>3 DEF ZonesOf
      <4>2. \E q \in DOMAIN out : out[q] = <<i, 1>>
        BY <2>1, <4>1, LiteralFound
      <4> QED
        BY <4>2
    <3>2. OffsetOf(i) = p - 1
      BY DEF OffsetOf
    <3> HIDE DEF p
    <3>3. PICK line, col : byteOffsetToLineColumn(out, p - 1) = <<line, col>>
      BY DEF byteOffsetToLineColumn
    <3>4. reported' = <<i>> \o <<line, col>>
      BY <2>3, <3>2, <3>3 DEF ResolverText
    <3>5. reported'[1] = i /\ reported'[2] = line /\ reported'[3] = col
      BY <3>4, TripleOfPair
    <3>6. out \in Seq(CellsOf(src))
      BY <2>1, TextTyped
    <3>7. At(out, line, col) = <<i, 1>>
      BY <3>1, <3>3, <3>6, LineColumnOfOffset
    <3>8. At(out, line, col)' = At(out, line, col)
      BY <2>1 DEF At, Newlines
    <3> QED
      BY <2>1, <3>5, <3>7, <3>8 DEF ReportedInResolverText
  <2> QED
    BY <1>2, <2>2, <2>3 DEF Resolve
<1>3. RInv /\ ReportedInResolverText /\ [Next]_vars => ReportedInResolverText'
  <2> SUFFICES ASSUME RInv, ReportedInResolverText, [Next]_vars PROVE ReportedInResolverText'
    OBVIOUS
  <2>1. ASSUME stage # "done", UNCHANGED reported PROVE ReportedInResolverText'
    BY <2>1 DEF RInv, ReportedInResolverText
  <2>2. ASSUME NEW i \in DOMAIN src, Visit(i) PROVE stage # "done" /\ UNCHANGED reported
    BY <2>2 DEF Visit
  <2>3. CASE SortRewrites
    BY <2>1, <2>3 DEF SortRewrites
  <2>4. CASE Replace
    BY <2>1, <2>4 DEF Replace
  <2>5. CASE Submit
    BY <2>1, <2>5 DEF Submit
  <2>6. CASE Resolve
    BY <1>2, <2>6
  <2>7. CASE UNCHANGED vars
    BY <2>7 DEF vars, ReportedInResolverText, At, Newlines
  <2> QED
    BY <2>1, <2>2, <2>3, <2>4, <2>5, <2>6, <2>7 DEF Next
<1> QED
  BY <1>1, <1>3, RInvInductive, PTL DEF Spec
=============================================================================
