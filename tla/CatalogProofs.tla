---------------------------- MODULE CatalogProofs ----------------------------
(***************************************************************************)
(* Proofs about Catalog for any catalogs, names and paths: the lookups     *)
(* find only what is there and miss nothing, and a call that is not        *)
(* refused gives the analyzer the same tables, with types all through.     *)
(***************************************************************************)
EXTENDS Catalog, SequenceTheorems, FiniteSetTheorems, WellFoundedInduction, TLAPS

(* A set of positions has a first one. *)
LEMMA FirstExists ==
  ASSUME NEW n \in Nat, NEW S \in SUBSET (1 .. n), S # {}
  PROVE  First(S) \in S /\ \A j \in S : First(S) <= j
<1> DEFINE UpTo(i) == {j \in S : j <= i}
           T == {UpTo(i) : i \in S}
<1>1. IsFiniteSet(1 .. n)
  BY FS_Interval
<1>2. IsFiniteSet(S)
  BY <1>1, FS_Subset
<1>3. IsWellFoundedOn(StrictSubsetOrdering(S), SUBSET S)
  BY <1>2, FS_StrictSubsetOrderingWellFounded, FS_FiniteSubsetsOfFinite
<1>4. T \subseteq SUBSET S /\ T # {}
  OBVIOUS
<1> HIDE DEF T
<1>5. PICK x \in T : \A y \in T : <<y, x>> \notin StrictSubsetOrdering(S)
  BY <1>3, <1>4, WFMin
<1>6. PICK i \in S : x = UpTo(i)
  BY DEF T
<1>7. ASSUME NEW j \in S, j < i PROVE FALSE
  <2>1. UpTo(j) \in T
    BY DEF T
  <2>2. S \subseteq Int /\ i \in Int /\ j \in Int
    OBVIOUS
  <2>3. \A k \in S : k <= j => k <= i
    BY <2>2, <1>7
  <2>4. ~(i <= j) /\ i <= i
    BY <2>2, <1>7
  <2> QED
    BY <2>1, <2>3, <2>4, <1>5, <1>6 DEF StrictSubsetOrdering
<1>8. \A j \in S : i <= j
  BY <1>7
<1> QED
  BY <1>8 DEF First

-----------------------------------------------------------------------------
(* The shape of catalogs. *)

LEMMA CatalogFields ==
  ASSUME cat \in Shapes, NEW c \in Catalogs
  PROVE  /\ cat[c].name \in Names /\ cat[c].tables \in Seq(Tables)
         /\ cat[c].functions \in Seq(Functions) /\ cat[c].subs \in Seq(Catalogs)
BY CatalogsAssumption

LEMMA ElementsOfSeq ==
  ASSUME NEW S, NEW s \in Seq(S)
  PROVE  /\ Elements(s) \subseteq S
         /\ \A i \in 1 .. Len(s) : s[i] \in Elements(s) /\ s[i] \in S
         /\ \A x \in Elements(s) : \E i \in 1 .. Len(s) : x = s[i]
BY DEF Elements

(* What hangs under a catalog: the catalog itself, and what its sub-catalogs hold. *)
LEMMA UnderClosed ==
  ASSUME cat \in Shapes, NEW c \in Catalogs
  PROVE  /\ c \in Under(c) /\ Under(c) \subseteq Catalogs
         /\ \A d \in Under(c) : Elements(cat[d].subs) \subseteq Under(c)
<1>1. \A d \in Under(c) : Elements(cat[d].subs) \subseteq Under(c)
  <2> SUFFICES ASSUME NEW d \in Under(c), NEW e \in Elements(cat[d].subs) PROVE e \in Under(c)
    OBVIOUS
  <2>1. d \in Catalogs
    BY DEF Under
  <2>2. e \in Catalogs
    BY <2>1, CatalogFields, ElementsOfSeq
  <2>3. ASSUME NEW S \in SUBSET Catalogs, c \in S, IsClosed(S) PROVE e \in S
    <3>1. d \in S
      BY <2>3 DEF Under
    <3> QED
      BY <3>1, <2>3 DEF IsClosed
  <2> QED
    BY <2>2, <2>3 DEF Under
<1> QED
  BY <1>1 DEF Under

LEMMA UnderSmallest ==
  ASSUME NEW c \in Catalogs, NEW S \in SUBSET Catalogs, c \in S, IsClosed(S)
  PROVE  Under(c) \subseteq S
BY DEF Under

-----------------------------------------------------------------------------
(* What one look at a catalog finds. *)

LEMMA SubHitsFirst ==
  ASSUME cat \in Shapes, NEW c \in Catalogs, NEW n \in Names, SubHits(c, n) # {}
  PROVE  LET i == First(SubHits(c, n))
         IN /\ i \in 1 .. Len(cat[c].subs)
            /\ cat[c].subs[i] \in Catalogs /\ cat[c].subs[i] \in Elements(cat[c].subs)
            /\ Alike(cat[cat[c].subs[i]].name, n)
<1>1. cat[c].subs \in Seq(Catalogs)
  BY CatalogFields
<1>2. SubHits(c, n) \in SUBSET (1 .. Len(cat[c].subs)) /\ Len(cat[c].subs) \in Nat
  BY <1>1 DEF SubHits
<1>3. First(SubHits(c, n)) \in SubHits(c, n)
  BY <1>2, FirstExists
<1>4. First(SubHits(c, n)) \in 1 .. Len(cat[c].subs)
  BY <1>2, <1>3
<1> QED
  BY <1>1, <1>3, <1>4, ElementsOfSeq DEF SubHits, SameName, Alike

LEMMA TableHitsFirst ==
  ASSUME cat \in Shapes, NEW c \in Catalogs, NEW n \in Names, TableHits(c, n) # {}
  PROVE  LET t == cat[c].tables[First(TableHits(c, n))]
         IN t \in Tables /\ t \in Elements(cat[c].tables) /\ Alike(t.name, n)
<1>1. cat[c].tables \in Seq(Tables)
  BY CatalogFields
<1>2. TableHits(c, n) \in SUBSET (1 .. Len(cat[c].tables)) /\ Len(cat[c].tables) \in Nat
  BY <1>1 DEF TableHits
<1>3. First(TableHits(c, n)) \in TableHits(c, n)
  BY <1>2, FirstExists
<1>4. First(TableHits(c, n)) \in 1 .. Len(cat[c].tables)
  BY <1>2, <1>3
<1> QED
  BY <1>1, <1>3, <1>4, ElementsOfSeq DEF TableHits, SameName, Alike

LEMMA FunctionHitsFirst ==
  ASSUME cat \in Shapes, NEW c \in Catalogs, NEW p \in Seq(Names)
  PROVE  /\ FunctionHits(c, p) = {} <=> FunctionsIn(c, p) = {}
         /\ FunctionHits(c, p) # {} =>
              /\ cat[c].functions[First(FunctionHits(c, p))] \in FunctionsIn(c, p)
              /\ cat[c].functions[First(FunctionHits(c, p))] \in Functions
<1>1. cat[c].functions \in Seq(Functions)
  BY CatalogFields
<1>2. FunctionHits(c, p) \in SUBSET (1 .. Len(cat[c].functions)) /\ Len(cat[c].functions) \in Nat
  BY <1>1 DEF FunctionHits
<1>3. ASSUME NEW i \in 1 .. Len(cat[c].functions)
      PROVE  /\ i \in FunctionHits(c, p) <=> cat[c].functions[i] \in FunctionsIn(c, p)
             /\ cat[c].functions[i] \in Functions
  <2>1. cat[c].functions[i] \in Functions /\ cat[c].functions[i] \in Elements(cat[c].functions)
    BY <1>1, ElementsOfSeq
  <2>2. cat[c].functions[i].path \in Seq(Names)
    BY <2>1, FunctionsAssumption
  <2> QED
    BY <1>1, <2>1, <2>2 DEF FunctionHits, FunctionsIn, SamePath, SameName, Alike
<1>4. ASSUME FunctionHits(c, p) # {}
      PROVE  /\ cat[c].functions[First(FunctionHits(c, p))] \in FunctionsIn(c, p)
             /\ cat[c].functions[First(FunctionHits(c, p))] \in Functions
  <2>1. First(FunctionHits(c, p)) \in FunctionHits(c, p)
    BY <1>2, <1>4, FirstExists
  <2> QED
    BY <2>1, <1>2, <1>3
<1>5. ASSUME NEW f \in FunctionsIn(c, p) PROVE FunctionHits(c, p) # {}
  <2>1. PICK i \in 1 .. Len(cat[c].functions) : f = cat[c].functions[i]
    BY <1>1, ElementsOfSeq DEF FunctionsIn
  <2> QED
    BY <2>1, <1>3
<1> QED
  BY <1>4, <1>5

-----------------------------------------------------------------------------
(***************************************************************************)
(* The invariant.  While FindTable descends, its trail is one of the       *)
(* start's, has the names of the path, stays under the start, and is the   *)
(* only such one if names are distinct.                                    *)
(***************************************************************************)
Descending ==
  look.at = "table" =>
    LET s == look.trail
        n == Len(look.trail)
    IN /\ look.start \in Catalogs /\ look.path \in Seq(Names)
       /\ n \in 1 .. Len(look.path) /\ s \in TrailsOf(look.start, n)
       /\ IsAt(s, look.path) /\ s[n] \in Under(look.start)
       /\ Distinct(look.start) =>
            \A r \in TrailsOf(look.start, Len(look.path)) :
              IsAt(r, look.path) => \A i \in 1 .. n : r[i] = s[i]

(***************************************************************************)
(* While FindFunction visits, what it has seen holds no match and leads    *)
(* nowhere but to what it has seen or has still to see, all under the      *)
(* start, which comes first.                                               *)
(***************************************************************************)
Visiting ==
  look.at = "function" =>
    LET seen == look.done \union Elements(look.todo)
    IN /\ look.start \in Catalogs /\ look.path \in Seq(Names) /\ look.trail = <<>>
       /\ look.start \in seen /\ seen \subseteq Under(look.start)
       /\ look.start \notin look.done => look.todo = <<look.start>>
       /\ \A d \in look.done : FunctionHits(d, look.path) = {} /\ Elements(cat[d].subs) \subseteq seen

LookInv == cat \in Shapes /\ LookOK /\ Descending /\ Visiting /\ TableFound /\ FunctionFound

(* What the invariant says of the catalogs stays true while they are as they are. *)
LEMMA SameCatalogs ==
  ASSUME cat' = cat
  PROVE  /\ \A c : Under(c)' = Under(c)
         /\ \A c, n : TrailsOf(c, n)' = TrailsOf(c, n)
         /\ \A s, p : IsAt(s, p)' = IsAt(s, p)
         /\ \A c : Distinct(c)' = Distinct(c)
         /\ \A c, p : TablesAt(c, p)' = TablesAt(c, p)
         /\ \A c, p : FunctionsIn(c, p)' = FunctionsIn(c, p)
         /\ \A c, p : FunctionHits(c, p)' = FunctionHits(c, p)
<1>1. \A c : Under(c)' = Under(c)
  BY DEF Under, IsClosed
<1>2. \A c, n : TrailsOf(c, n)' = TrailsOf(c, n)
  BY DEF TrailsOf
<1>3. \A s, p : IsAt(s, p)' = IsAt(s, p)
  BY DEF IsAt
<1>4. \A c : Distinct(c)' = Distinct(c)
  BY <1>1 DEF Distinct
<1>5. \A c, p : TablesAt(c, p)' = TablesAt(c, p)
  BY <1>2, <1>3 DEF TablesAt
<1>6. \A c, p : FunctionsIn(c, p)' = FunctionsIn(c, p) /\ FunctionHits(c, p)' = FunctionHits(c, p)
  BY DEF FunctionsIn, FunctionHits
<1> QED
  BY <1>1, <1>2, <1>3, <1>4, <1>5, <1>6

LEMMA Unchanged ==
  ASSUME LookInv, cat' = cat, look' = look
  PROVE  LookInv'
<1>1. LookOK' /\ cat' \in Shapes
  BY DEF LookInv, LookOK
<1>2. Descending' /\ Visiting'
  BY SameCatalogs DEF LookInv, Descending, Visiting
<1>3. TableFound' /\ FunctionFound'
  BY SameCatalogs DEF LookInv, TableFound, FunctionFound
<1> QED
  BY <1>1, <1>2, <1>3 DEF LookInv

LEMMA FindTableHolds ==
  ASSUME LookInv, NEW c \in Catalogs, NEW path \in Paths, FindTable(c, path)
  PROVE  LookInv'
<1>1. /\ cat' = cat /\ look' = [at |-> IF path = <<>> THEN "answered" ELSE "table", start |-> c, path |-> path,
                                trail |-> <<c>>, todo |-> <<>>, done |-> {}, found |-> Nil]
  BY DEF FindTable, NoLookup
<1>2. path \in Seq(Names) /\ cat \in Shapes
  BY NamesAssumption DEF LookInv
<1>3. LookOK'
  BY <1>1 DEF LookOK
<1>4. Descending'
  <2>1. SUFFICES ASSUME path # <<>> PROVE Descending'
    BY <1>1 DEF Descending
  <2>2. Len(path) \in Nat /\ 1 \in 1 .. Len(path)
    BY <2>1, <1>2
  <2>3. <<c>> \in TrailsOf(c, 1) /\ IsAt(<<c>>, path) /\ c \in Under(c)
    BY <1>2, UnderClosed DEF TrailsOf, IsAt
  <2>4. \A r \in TrailsOf(c, Len(path)) : r[1] = c
    BY DEF TrailsOf
  <2> QED
    BY <1>1, <1>2, <2>1, <2>2, <2>3, <2>4 DEF Descending, TrailsOf, IsAt, Under, IsClosed
<1>5. Visiting' /\ FunctionFound'
  BY <1>1 DEF Visiting, FunctionFound
<1>6. TableFound'
  BY <1>1 DEF TableFound
<1> QED
  BY <1>1, <1>2, <1>3, <1>4, <1>5, <1>6 DEF LookInv

LEMMA FindFunctionHolds ==
  ASSUME LookInv, NEW c \in Catalogs, NEW path \in Paths, FindFunction(c, path)
  PROVE  LookInv'
<1>1. /\ cat' = cat /\ look' = [at |-> "function", start |-> c, path |-> path,
                                trail |-> <<>>, todo |-> <<c>>, done |-> {}, found |-> Nil]
  BY DEF FindFunction, NoLookup
<1>2. path \in Seq(Names) /\ cat \in Shapes
  BY NamesAssumption DEF LookInv
<1>3. LookOK'
  BY <1>1 DEF LookOK
<1>4. Visiting'
  <2>1. Elements(<<c>>) = {c} /\ c \in Under(c)
    BY <1>2, UnderClosed DEF Elements
  <2> QED
    BY <1>1, <1>2, <2>1 DEF Visiting, Under, IsClosed
<1>5. Descending' /\ TableFound' /\ FunctionFound'
  BY <1>1 DEF Descending, TableFound, FunctionFound
<1> QED
  BY <1>1, <1>2, <1>3, <1>4, <1>5 DEF LookInv

-----------------------------------------------------------------------------
(* FindTable. *)

(* Where FindTable is when it has to look. *)
LEMMA TrailFacts ==
  ASSUME LookInv, look.at = "table"
  PROVE  LET n == Len(look.trail)
         IN /\ n \in Nat /\ n \in 1 .. Len(look.path) /\ Len(look.path) \in Nat
            /\ look.trail \in [1 .. n -> Catalogs] /\ Current = look.trail[n] /\ Segment = look.path[n]
            /\ Current \in Catalogs /\ Segment \in Names /\ look.path # <<>>
            /\ look.start \in Catalogs /\ look.path \in Seq(Names) /\ look.path \in Paths \union {<<>>}
BY DEF LookInv, Descending, TrailsOf, Current, Segment, LookOK

(* With distinct names, any trail to the path goes on through a match. *)
LEMMA NextMatches ==
  ASSUME LookInv, look.at = "table", Len(look.trail) < Len(look.path), Distinct(look.start),
         NEW r \in TrailsOf(look.start, Len(look.path)), IsAt(r, look.path)
  PROVE  \E j \in SubHits(Current, Segment) : r[Len(look.trail) + 1] = cat[Current].subs[j]
<1> DEFINE n == Len(look.trail)
<1>1. n \in Nat /\ n \in 1 .. Len(look.path) /\ Len(look.path) \in Nat /\ Current = look.trail[n]
      /\ Current \in Catalogs /\ Segment = look.path[n]
  BY TrailFacts
<1>2. r[n] = Current
  BY <1>1 DEF LookInv, Descending
<1>3. r[n + 1] \in Elements(cat[Current].subs)
  BY <1>1, <1>2 DEF TrailsOf
<1>4. Len(r) = Len(look.path)
  BY <1>1 DEF TrailsOf
<1>5. Alike(cat[r[n + 1]].name, look.path[n])
  <2>1. n + 1 \in 2 .. Len(r) /\ (n + 1) - 1 = n
    BY <1>1, <1>4
  <2> QED
    BY <2>1 DEF IsAt
<1>6. PICK j \in DOMAIN cat[Current].subs : r[n + 1] = cat[Current].subs[j]
  BY <1>3 DEF Elements
<1> QED
  BY <1>1, <1>5, <1>6 DEF SubHits, SameName, Alike

LEMMA AppendFacts ==
  ASSUME NEW S, NEW s \in Seq(S), NEW e \in S
  PROVE  /\ Append(s, e) \in Seq(S) /\ Len(Append(s, e)) = Len(s) + 1
         /\ Append(s, e) \in [1 .. Len(s) + 1 -> S]
         /\ Append(s, e)[Len(s) + 1] = e /\ \A i \in 1 .. Len(s) : Append(s, e)[i] = s[i]
<1>1. /\ Append(s, e) \in Seq(S) /\ Len(Append(s, e)) = Len(s) + 1
      /\ Append(s, e)[Len(s) + 1] = e /\ \A i \in 1 .. Len(s) : Append(s, e)[i] = s[i]
  BY AppendProperties
<1>2. ASSUME NEW q \in Seq(S), NEW n, Len(q) = n PROVE q \in [1 .. n -> S]
  BY <1>2
<1> QED
  BY <1>1, <1>2

LEMMA DescendHolds ==
  ASSUME LookInv, Descend
  PROVE  LookInv'
<1> DEFINE n == Len(look.trail)
           hits == SubHits(Current, Segment)
           d == cat[Current].subs[First(hits)]
<1>1. look.at = "table" /\ n < Len(look.path) /\ cat' = cat
  BY DEF Descend
<1>2. /\ n \in Nat /\ n \in 1 .. Len(look.path) /\ Len(look.path) \in Nat
      /\ look.trail \in [1 .. n -> Catalogs] /\ Current = look.trail[n] /\ Segment = look.path[n]
      /\ Current \in Catalogs /\ Segment \in Names /\ look.path # <<>>
      /\ look.start \in Catalogs /\ look.path \in Seq(Names) /\ cat \in Shapes
  BY <1>1, TrailFacts DEF LookInv
<1>3. CASE hits = {}
  <2>1. look' = [look EXCEPT !.at = "answered", !.found = Nil]
    BY <1>3 DEF Descend, Answer
  <2>2. LookOK' /\ Descending' /\ Visiting'
    BY <2>1 DEF LookInv, LookOK, Descending, Visiting
  <2>3. look.trail # <<>>
    BY <1>2
  <2>4. Distinct(look.start) => TablesAt(look.start, look.path) = {}
    BY <1>1, <1>3, NextMatches DEF TablesAt
  <2>5. TableFound' /\ FunctionFound'
    BY <2>1, <2>3, <2>4, <1>1, <1>2, SameCatalogs DEF TableFound, FunctionFound, LookInv, LookOK
  <2> QED
    BY <2>2, <2>5, <1>1, <1>2 DEF LookInv
<1>4. CASE hits # {}
  <2> DEFINE t == Append(look.trail, d)
  <2>1. look' = [look EXCEPT !.trail = t]
    BY <1>4 DEF Descend
  <2>2. First(hits) \in DOMAIN cat[Current].subs /\ d \in Catalogs /\ d \in Elements(cat[Current].subs)
        /\ Alike(cat[d].name, Segment)
    <3>1. cat \in Shapes /\ Current \in Catalogs /\ Segment \in Names /\ SubHits(Current, Segment) # {}
      BY <1>2, <1>4
    <3>2. First(hits) \in 1 .. Len(cat[Current].subs) /\ d \in Catalogs /\ d \in Elements(cat[Current].subs)
          /\ Alike(cat[d].name, Segment)
      BY <3>1, SubHitsFirst
    <3>3. cat[Current].subs \in Seq(Catalogs)
      BY <3>1, CatalogFields
    <3>4. DOMAIN cat[Current].subs = 1 .. Len(cat[Current].subs)
      BY <3>3
    <3> QED
      BY <3>2, <3>4
  <2>3. /\ t \in [1 .. n + 1 -> Catalogs]
        /\ look.trail \in Seq(Catalogs) /\ t \in Seq(Catalogs) /\ Len(t) = n + 1 /\ t[n + 1] = d
        /\ \A i \in 1 .. n : t[i] = look.trail[i]
    <3>1. look.trail \in Seq(Catalogs)
      BY DEF LookInv, LookOK
    <3> QED
      BY <3>1, <2>2, AppendFacts
  <2> HIDE DEF t, d, hits
  <2>4. LookOK'
    BY <2>1, <2>3 DEF LookInv, LookOK
  <2>5. t \in TrailsOf(look.start, n + 1)
    <3>1. t \in [1 .. n + 1 -> Catalogs]
      BY <2>3
    <3>2. t[1] = look.start
      BY <1>1, <1>2, <2>3 DEF LookInv, Descending, TrailsOf
    <3>3. ASSUME NEW i \in 1 .. n PROVE t[i + 1] \in Elements(cat[t[i]].subs)
      <4>1. CASE i = n
        BY <4>1, <1>2, <2>2, <2>3
      <4>2. CASE i # n
        <5>1. i \in 1 .. n - 1 /\ i + 1 \in 1 .. n
          BY <4>2, <1>2
        <5> QED
          BY <5>1, <1>1, <1>2, <2>3 DEF LookInv, Descending, TrailsOf
      <4> QED
        BY <4>1, <4>2
    <3> QED
      BY <3>1, <3>2, <3>3, <1>2 DEF TrailsOf
  <2>6. IsAt(t, look.path)
    <3>1. SUFFICES ASSUME NEW i \in 2 .. n + 1 PROVE Alike(cat[t[i]].name, look.path[i - 1])
      BY <2>3 DEF IsAt
    <3>2. CASE i = n + 1
      BY <3>2, <1>2, <2>2, <2>3
    <3>3. CASE i # n + 1
      <4>1. i \in 2 .. n /\ i \in 1 .. n
        BY <3>3, <1>2
      <4> QED
        BY <4>1, <1>1, <2>3 DEF LookInv, Descending, IsAt
    <3> QED
      BY <3>2, <3>3
  <2>7. d \in Under(look.start)
    BY <1>1, <1>2, <2>2, UnderClosed DEF LookInv, Descending
  <2>8. ASSUME Distinct(look.start), NEW r \in TrailsOf(look.start, Len(look.path)), IsAt(r, look.path),
               NEW i \in 1 .. n + 1
        PROVE  r[i] = t[i]
    <3>1. CASE i \in 1 .. n
      BY <3>1, <2>8, <1>1, <2>3 DEF LookInv, Descending
    <3>2. CASE i = n + 1
      <4>1. PICK j \in hits : r[n + 1] = cat[Current].subs[j]
        BY <1>1, <2>8, NextMatches DEF hits
      <4>2. j \in DOMAIN cat[Current].subs /\ Alike(cat[cat[Current].subs[j]].name, Segment)
        BY <4>1 DEF hits, SubHits, SameName, Alike
      <4>3. Current \in Under(look.start)
        BY <1>1, <1>2 DEF LookInv, Descending
      <4>4. j = First(hits)
        BY <4>2, <4>3, <2>2, <2>8 DEF d, Distinct, Alike
      <4> QED
        BY <4>1, <4>4, <3>2, <2>3 DEF d
    <3> QED
      BY <3>1, <3>2, <1>2
  <2>9. Descending'
    BY <1>1, <1>2, <2>1, <2>3, <2>5, <2>6, <2>7, <2>8, SameCatalogs DEF Descending
  <2>10. Visiting' /\ TableFound' /\ FunctionFound'
    BY <1>1, <2>1 DEF Visiting, TableFound, FunctionFound, LookInv, LookOK
  <2> QED
    BY <2>4, <2>9, <2>10, <1>1, <1>2 DEF LookInv
<1> QED
  BY <1>3, <1>4

(* Where the trail has the length of the path, it is a trail to the table's catalog. *)
LEMMA MatchTableHolds ==
  ASSUME LookInv, MatchTable
  PROVE  LookInv'
<1> DEFINE hits == TableHits(Current, Segment)
           found == IF hits = {} THEN Nil ELSE cat[Current].tables[First(hits)]
           n == Len(look.trail)
<1>1. look.at = "table" /\ n = Len(look.path) /\ cat' = cat /\ look' = [look EXCEPT !.at = "answered", !.found = found]
  BY DEF MatchTable, Answer
<1>2. /\ n \in Nat /\ n \in 1 .. n /\ look.trail \in [1 .. n -> Catalogs]
      /\ Current = look.trail[n] /\ Segment = look.path[n] /\ Current \in Catalogs /\ Segment \in Names
      /\ look.path # <<>> /\ look.start \in Catalogs /\ cat \in Shapes
  BY <1>1, TrailFacts DEF LookInv
<1>3. look.trail \in TrailsOf(look.start, n) /\ IsAt(look.trail, look.path) /\ Current \in Under(look.start)
  BY <1>1, <1>2 DEF LookInv, Descending
<1>4. /\ hits # {} => found \in Tables /\ found \in Elements(cat[Current].tables) /\ Alike(found.name, Segment)
      /\ hits = {} => found = Nil
  BY <1>2, TableHitsFirst
<1>5. found \in Tables \union {Nil}
  BY <1>4
<1>6. hits # {} => found \in TablesAt(look.start, look.path)
  <2>1. SUFFICES ASSUME hits # {} PROVE found \in TablesAt(look.start, look.path)
    OBVIOUS
  <2>2. look.trail \in {r \in TrailsOf(look.start, Len(look.path)) : IsAt(r, look.path)}
    BY <1>1, <1>3
  <2>3. Len(look.trail) = Len(look.path) /\ look.trail[Len(look.trail)] = Current /\ look.path[Len(look.path)] = Segment
    BY <1>1, <1>2
  <2>4. found \in {t \in Elements(cat[look.trail[Len(look.trail)]].tables) : Alike(t.name, look.path[Len(look.path)])}
    BY <2>1, <2>3, <1>4
  <2> QED
    BY <2>2, <2>4 DEF TablesAt
<1>7. ASSUME Distinct(look.start), NEW t \in TablesAt(look.start, look.path)
      PROVE  hits # {} /\ t = found
  <2>1. PICK r \in TrailsOf(look.start, n) :
          IsAt(r, look.path) /\ t \in Elements(cat[r[Len(r)]].tables) /\ Alike(t.name, look.path[n])
    BY <1>7, <1>1 DEF TablesAt
  <2>2. Len(r) = n /\ r[n] = Current
    <3>1. Len(r) = n
      BY <1>2 DEF TrailsOf
    <3>2. \A q \in TrailsOf(look.start, Len(look.path)) :
            IsAt(q, look.path) => \A i \in 1 .. n : q[i] = look.trail[i]
      BY <1>1, <1>7 DEF LookInv, Descending
    <3> QED
      BY <3>1, <3>2, <2>1, <1>1, <1>2
  <2>3. PICK j \in DOMAIN cat[Current].tables : t = cat[Current].tables[j]
    BY <2>1, <2>2 DEF Elements
  <2>4. j \in hits
    BY <2>1, <2>3, <1>2 DEF TableHits, SameName, Alike
  <2>5. First(hits) \in hits
    <3>1. cat[Current].tables \in Seq(Tables)
      BY <1>2, CatalogFields
    <3>2. hits \in SUBSET (1 .. Len(cat[Current].tables)) /\ Len(cat[Current].tables) \in Nat
      BY <3>1 DEF TableHits
    <3> QED
      BY <3>2, <2>4, FirstExists
  <2>6. j = First(hits)
    BY <2>4, <2>5, <1>3, <1>7 DEF Distinct, TableHits, SameName, Alike
  <2> QED
    BY <2>3, <2>4, <2>6
<1> HIDE DEF hits, found
<1>8. LookOK' /\ Descending' /\ Visiting'
  BY <1>1, <1>5 DEF LookInv, LookOK, Descending, Visiting
<1>9. look.trail # <<>>
  BY <1>2
<1>10. TableFound'
  <2>1. (found # Nil => found \in TablesAt(look.start, look.path))
        /\ (Distinct(look.start) => TablesAt(look.start, look.path) \subseteq {found})
    BY <1>4, <1>6, <1>7
  <2>2. /\ look'.start = look.start /\ look'.path = look.path /\ look'.found = found
    BY <1>1 DEF LookInv, LookOK
  <2>3. TablesAt(look.start, look.path)' = TablesAt(look.start, look.path)
        /\ Distinct(look.start)' = Distinct(look.start)
    BY <1>1, <2>2, SameCatalogs
  <2> QED
    BY <2>1, <2>2, <2>3, <1>2 DEF TableFound
<1>11. FunctionFound'
  BY <1>1, <1>9 DEF FunctionFound, LookInv, LookOK
<1> QED
  BY <1>1, <1>2, <1>8, <1>10, <1>11 DEF LookInv

-----------------------------------------------------------------------------
(* FindFunction. *)

LEMMA ElementsOfQueue ==
  ASSUME NEW S, NEW s \in Seq(S), NEW q \in Seq(S), q # <<>>
  PROVE  /\ s \o Tail(q) \in Seq(S) /\ Head(q) \in Elements(q)
         /\ Elements(s \o Tail(q)) = Elements(s) \union Elements(Tail(q))
         /\ Elements(q) = {Head(q)} \union Elements(Tail(q))
<1>1. /\ Tail(q) \in Seq(S) /\ Len(Tail(q)) = Len(q) - 1 /\ Len(q) \in Nat \ {0}
      /\ \A i \in 1 .. Len(Tail(q)) : Tail(q)[i] = q[i + 1]
      /\ Head(q) = q[1]
  BY HeadTailProperties, EmptySeq
<1>2. Elements(q) = {Head(q)} \union Elements(Tail(q))
  <2>1. \A x \in Elements(q) : x = Head(q) \/ x \in Elements(Tail(q))
    <3>1. SUFFICES ASSUME NEW i \in 1 .. Len(q) PROVE q[i] = Head(q) \/ q[i] \in Elements(Tail(q))
      BY DEF Elements
    <3>2. CASE i = 1
      BY <3>2, <1>1
    <3>3. CASE i # 1
      <4>1. i - 1 \in 1 .. Len(Tail(q)) /\ (i - 1) + 1 = i
        BY <3>3, <1>1
      <4>2. Tail(q)[i - 1] = q[i] /\ i - 1 \in DOMAIN Tail(q)
        BY <4>1, <1>1
      <4> QED
        BY <4>2 DEF Elements
    <3> QED
      BY <3>2, <3>3
  <2>2. Head(q) \in Elements(q)
    BY <1>1 DEF Elements
  <2>3. \A x \in Elements(Tail(q)) : x \in Elements(q)
    <3>1. SUFFICES ASSUME NEW i \in 1 .. Len(Tail(q)) PROVE Tail(q)[i] \in Elements(q)
      BY <1>1 DEF Elements
    <3>2. i + 1 \in 1 .. Len(q) /\ Tail(q)[i] = q[i + 1]
      BY <1>1
    <3> QED
      BY <3>2 DEF Elements
  <2> QED
    BY <2>1, <2>2, <2>3
<1>3. \A t \in Seq(S) : Elements(s \o t) = Elements(s) \union Elements(t)
  <2> SUFFICES ASSUME NEW t \in Seq(S) PROVE Elements(s \o t) = Elements(s) \union Elements(t)
    OBVIOUS
  <2>1. /\ s \o t \in Seq(S) /\ Len(s \o t) = Len(s) + Len(t) /\ Len(s) \in Nat /\ Len(t) \in Nat
        /\ \A i \in 1 .. Len(s) + Len(t) : (s \o t)[i] = IF i <= Len(s) THEN s[i] ELSE t[i - Len(s)]
    BY ConcatProperties
  <2>2. ASSUME NEW i \in 1 .. Len(s) + Len(t) PROVE (s \o t)[i] \in Elements(s) \union Elements(t)
    <3>1. CASE i <= Len(s)
      BY <3>1, <2>1 DEF Elements
    <3>2. CASE i > Len(s)
      <4>1. i - Len(s) \in 1 .. Len(t) /\ (s \o t)[i] = t[i - Len(s)]
        BY <3>2, <2>1
      <4> QED
        BY <4>1 DEF Elements
    <3> QED
      BY <3>1, <3>2, <2>1
  <2>3. ASSUME NEW i \in 1 .. Len(s) PROVE s[i] \in Elements(s \o t)
    <3>1. i \in 1 .. Len(s \o t) /\ (s \o t)[i] = s[i]
      BY <2>1
    <3> QED
      BY <3>1, <2>1 DEF Elements
  <2>4. ASSUME NEW i \in 1 .. Len(t) PROVE t[i] \in Elements(s \o t)
    <3>1. i + Len(s) \in 1 .. Len(s \o t) /\ (s \o t)[i + Len(s)] = t[i]
      BY <2>1
    <3>2. \A j \in 1 .. Len(s \o t) : (s \o t)[j] \in Elements(s \o t)
      BY <2>1, ElementsOfSeq
    <3> QED
      BY <3>1, <3>2
  <2>5. \A x \in Elements(s \o t) : x \in Elements(s) \union Elements(t)
    BY <2>1, <2>2 DEF Elements
  <2>6. \A x \in Elements(s) : x \in Elements(s \o t)
    BY <2>3, ElementsOfSeq
  <2>7. \A x \in Elements(t) : x \in Elements(s \o t)
    BY <2>4, ElementsOfSeq
  <2> QED
    BY <2>5, <2>6, <2>7
<1> QED
  BY <1>1, <1>2, <1>3, ConcatProperties

LEMMA VisitHolds ==
  ASSUME LookInv, Visit
  PROVE  LookInv'
<1> DEFINE c == Head(look.todo)
           hits == FunctionHits(c, look.path)
           seen == look.done \union Elements(look.todo)
<1>1. look.at = "function" /\ look.todo # <<>> /\ cat' = cat
  BY DEF Visit
<1>2. /\ look.start \in Catalogs /\ look.path \in Seq(Names) /\ look.trail = <<>> /\ cat \in Shapes
      /\ look.start \in seen /\ seen \subseteq Under(look.start)
      /\ look.start \notin look.done => look.todo = <<look.start>>
      /\ \A d \in look.done : FunctionHits(d, look.path) = {} /\ Elements(cat[d].subs) \subseteq seen
      /\ look.todo \in Seq(Catalogs) /\ look.done \subseteq Catalogs
  BY <1>1 DEF LookInv, Visiting, LookOK
<1>3. c \in Elements(look.todo) /\ c \in Under(look.start) /\ c \in Catalogs
  BY <1>1, <1>2, ElementsOfQueue, ElementsOfSeq
<1>4. look.start \notin look.done => c = look.start
  BY <1>2
<1>5. CASE hits # {}
  <2> DEFINE f == cat[c].functions[First(hits)]
  <2>1. f \in FunctionsIn(c, look.path) /\ f \in Functions
    BY <1>2, <1>3, <1>5, FunctionHitsFirst
  <2> HIDE DEF f
  <2>2. look' = [look EXCEPT !.at = "answered", !.found = f]
    BY <1>5 DEF Visit, Answer, f
  <2>3. LookOK' /\ Descending' /\ Visiting'
    BY <2>1, <2>2 DEF LookInv, LookOK, Descending, Visiting
  <2>4. TableFound'
    BY <2>2, <1>2 DEF TableFound, LookInv, LookOK
  <2>5. FunctionsIn(look.start, look.path) # {} => f \in FunctionsIn(look.start, look.path)
    BY <1>2, <1>4, <2>1, FunctionHitsFirst
  <2>6. f \in UNION {FunctionsIn(d, look.path) : d \in Under(look.start)}
    BY <1>3, <2>1
  <2>7. FunctionFound'
    <3>1. look'.start = look.start /\ look'.path = look.path /\ look'.found = f
      BY <2>2 DEF LookInv, LookOK
    <3>2. Under(look.start)' = Under(look.start) /\ \A d : FunctionsIn(d, look.path)' = FunctionsIn(d, look.path)
      BY <1>1, <3>1, SameCatalogs
    <3> QED
      BY <3>1, <3>2, <2>5, <2>6, <1>1, SameCatalogs DEF FunctionFound
  <2> QED
    BY <2>3, <2>4, <2>7, <1>1, <1>2 DEF LookInv
<1>6. CASE hits = {}
  <2> DEFINE todo == cat[c].subs \o Tail(look.todo)
             done == look.done \union {c}
  <2>1. look' = [[look EXCEPT !.todo = todo] EXCEPT !.done = done]
    BY <1>6 DEF Visit, Behind
  <2>2. cat[c].subs \in Seq(Catalogs)
    BY <1>2, <1>3, CatalogFields
  <2>3. /\ todo \in Seq(Catalogs) /\ Elements(todo) = Elements(cat[c].subs) \union Elements(Tail(look.todo))
        /\ Elements(look.todo) = {c} \union Elements(Tail(look.todo))
    BY <1>1, <1>2, <2>2, ElementsOfQueue
  <2>4. done \union Elements(todo) = seen \union Elements(cat[c].subs)
    BY <2>3
  <2>5. Elements(cat[c].subs) \subseteq Under(look.start)
    BY <1>2, <1>3, UnderClosed
  <2>6. \A d \in done : FunctionHits(d, look.path) = {} /\ Elements(cat[d].subs) \subseteq done \union Elements(todo)
    BY <1>2, <1>6, <2>4
  <2>7. look.start \in done
    BY <1>4
  <2> HIDE DEF todo, done
  <2>8. /\ look'.at = "function" /\ look'.start = look.start /\ look'.path = look.path /\ look'.trail = look.trail
        /\ look'.todo = todo /\ look'.done = done /\ look'.found = look.found
    BY <1>1, <2>1 DEF LookInv, LookOK
  <2>9. LookOK'
    <3>1. done \subseteq Catalogs
      BY <1>2, <1>3 DEF done
    <3> QED
      BY <2>3, <2>8, <3>1 DEF LookInv, LookOK
  <2>10. Visiting'
    <3>1. /\ Under(look.start)' = Under(look.start)
          /\ \A d : FunctionHits(d, look.path)' = FunctionHits(d, look.path)
      BY <1>1, <2>8, SameCatalogs
    <3>2. done \union Elements(todo) \subseteq Under(look.start) /\ look.start \in done \union Elements(todo)
      BY <2>4, <2>5, <2>7, <1>2
    <3> QED
      BY <3>1, <3>2, <2>6, <2>7, <2>8, <1>1, <1>2, SameCatalogs DEF Visiting
  <2>11. Descending' /\ TableFound' /\ FunctionFound'
    BY <2>8 DEF Descending, TableFound, FunctionFound
  <2> QED
    BY <2>9, <2>10, <2>11, <1>1, <1>2 DEF LookInv
<1> QED
  BY <1>5, <1>6

(* Nothing left to visit: what was visited is closed, so it is all there is under the start. *)
LEMMA ExhaustedHolds ==
  ASSUME LookInv, Exhausted
  PROVE  LookInv'
<1>1. /\ look.at = "function" /\ look.todo = <<>> /\ cat' = cat
      /\ look' = [look EXCEPT !.at = "answered", !.found = Nil]
  BY DEF Exhausted, Answer
<1>2. Elements(look.todo) = {}
  BY <1>1 DEF Elements
<1>3. /\ look.start \in Catalogs /\ look.path \in Seq(Names) /\ look.trail = <<>> /\ look.start \in look.done
      /\ \A d \in look.done : FunctionHits(d, look.path) = {} /\ Elements(cat[d].subs) \subseteq look.done
      /\ look.done \subseteq Catalogs /\ cat \in Shapes
  BY <1>1, <1>2 DEF LookInv, Visiting, LookOK
<1>4. Under(look.start) \subseteq look.done
  BY <1>3, UnderSmallest DEF IsClosed
<1>5. \A d \in Under(look.start) : FunctionsIn(d, look.path) = {}
  BY <1>3, <1>4, FunctionHitsFirst
<1>6. UNION {FunctionsIn(d, look.path) : d \in Under(look.start)} = {}
  BY <1>5
<1>7. LookOK' /\ Descending' /\ Visiting'
  BY <1>1 DEF LookInv, LookOK, Descending, Visiting
<1>8. look'.start = look.start /\ look'.path = look.path /\ look'.found = Nil /\ look'.trail = <<>>
  BY <1>1, <1>3 DEF LookInv, LookOK
<1>9. TableFound'
  BY <1>8 DEF TableFound
<1>10. FunctionFound'
  BY <1>1, <1>6, <1>8, SameCatalogs DEF FunctionFound
<1> QED
  BY <1>1, <1>3, <1>7, <1>9, <1>10 DEF LookInv

-----------------------------------------------------------------------------
(* All steps. *)

LEMMA LookupReturnsHolds ==
  ASSUME LookInv, LookupReturns
  PROVE  LookInv'
<1>1. /\ cat' = cat
      /\ look' = [at |-> "idle", start |-> Nil, path |-> <<>>, trail |-> <<>>, todo |-> <<>>, done |-> {}, found |-> Nil]
  BY DEF LookupReturns, NoLookup
<1>2. LookOK'
  BY <1>1 DEF LookOK
<1>3. Descending' /\ Visiting' /\ TableFound' /\ FunctionFound'
  BY <1>1 DEF Descending, Visiting, TableFound, FunctionFound
<1> QED
  BY <1>1, <1>2, <1>3 DEF LookInv

LEMMA InitHolds == Init => LookInv
<1> SUFFICES ASSUME Init PROVE LookInv
  OBVIOUS
<1>1. /\ cat \in Shapes
      /\ look = [at |-> "idle", start |-> Nil, path |-> <<>>, trail |-> <<>>, todo |-> <<>>, done |-> {}, found |-> Nil]
  BY DEF Init, NoLookup
<1>2. LookOK
  BY <1>1 DEF LookOK
<1>3. Descending /\ Visiting /\ TableFound /\ FunctionFound
  BY <1>1 DEF Descending, Visiting, TableFound, FunctionFound
<1> QED
  BY <1>1, <1>2, <1>3 DEF LookInv

LEMMA NextHolds == LookInv /\ [Next]_vars => LookInv'
<1> SUFFICES ASSUME LookInv, [Next]_vars PROVE LookInv'
  OBVIOUS
<1>1. ASSUME NEW c \in Catalogs, NEW path \in Paths, FindTable(c, path) \/ FindFunction(c, path) PROVE LookInv'
  BY <1>1, FindTableHolds, FindFunctionHolds
<1>2. ASSUME Descend \/ MatchTable PROVE LookInv'
  BY <1>2, DescendHolds, MatchTableHolds
<1>3. ASSUME Visit \/ Exhausted \/ LookupReturns PROVE LookInv'
  BY <1>3, VisitHolds, ExhaustedHolds, LookupReturnsHolds
<1>4. ASSUME NEW c \in Catalogs \union {Nil}, Serialise(c) PROVE LookInv'
  BY <1>4, Unchanged DEF Serialise
<1>5. ASSUME Build \/ CallReturns PROVE LookInv'
  BY <1>5, Unchanged DEF Build, CallReturns
<1>6. ASSUME UNCHANGED vars PROVE LookInv'
  BY <1>6, Unchanged DEF vars
<1> QED
  BY <1>1, <1>2, <1>3, <1>4, <1>5, <1>6 DEF Next

(* What a lookup keeps in its hand is what the search needs, in every state. *)
THEOREM LookInvHolds == Spec => []LookInv
<1> QED
  BY InitHolds, NextHolds, PTL DEF Spec

(***************************************************************************)
(* FindTable finds only what is at the path, and where no two names of one *)
(* catalog are alike it finds all that is: for catalogs of any number and *)
(* any shape, shared sub-catalogs too, and paths of any length.            *)
(***************************************************************************)
THEOREM TablesAreFound == Spec => []TableFound
<1>1. LookInv => TableFound
  BY DEF LookInv
<1> QED
  BY <1>1, LookInvHolds, PTL

(***************************************************************************)
(* FindFunction answers nil only when no catalog under the start has the   *)
(* function, and prefers the start's own, whatever the shape of the tree.  *)
(***************************************************************************)
THEOREM FunctionsAreFound == Spec => []FunctionFound
<1>1. LookInv => FunctionFound
  BY DEF LookInv
<1> QED
  BY <1>1, LookInvHolds, PTL

-----------------------------------------------------------------------------
(* Trails: the trees of catalogs as they are sent. *)

LEMMA TrailIsSeq ==
  ASSUME NEW c, NEW n \in Nat, NEW s \in TrailsOf(c, n)
  PROVE  s \in Seq(Catalogs) /\ Len(s) = n
BY DEF TrailsOf

LEMMA TrailPrefix ==
  ASSUME NEW c, NEW n \in Nat, NEW s \in TrailsOf(c, n), NEW i \in 1 .. n
  PROVE  LET r == SubSeq(s, 1, i) IN r \in TrailsOf(c, i) /\ Len(r) = i /\ r[i] = s[i]
<1> DEFINE r == SubSeq(s, 1, i)
<1>1. s \in [1 .. n -> Catalogs] /\ s[1] = c /\ \A k \in 1 .. n - 1 : s[k + 1] \in Elements(cat[s[k]].subs)
  BY DEF TrailsOf
<1>2. i \in Nat /\ 1 <= i /\ i <= n
  OBVIOUS
<1>3. r \in Seq(Catalogs) /\ Len(r) = i /\ \A k \in 1 .. i : r[k] = s[k]
  <2>1. \A k \in 1 .. i : s[k] \in Catalogs
    BY <1>1, <1>2
  <2>2. /\ r \in Seq(Catalogs) /\ Len(r) = IF 1 <= i THEN i - 1 + 1 ELSE 0
        /\ \A k \in 1 .. i - 1 + 1 : r[k] = s[1 + k - 1]
    BY <2>1, <1>2, SubSeqProperties
  <2> QED
    BY <2>2, <1>2
<1> HIDE DEF r
<1>4. r \in [1 .. i -> Catalogs] /\ r[1] = c
  BY <1>1, <1>2, <1>3
<1>5. ASSUME NEW k \in 1 .. i - 1 PROVE r[k + 1] \in Elements(cat[r[k]].subs)
  <2>1. k \in 1 .. n - 1 /\ k \in 1 .. i /\ k + 1 \in 1 .. i
    BY <1>2
  <2> QED
    BY <2>1, <1>1, <1>3
<1>6. r \in TrailsOf(c, i)
  BY <1>4, <1>5 DEF TrailsOf
<1>7. Len(r) = i /\ r[i] = s[i]
  BY <1>2, <1>3
<1> QED
  BY <1>6, <1>7 DEF r

(* No catalog is below itself, so that a trail passes each but once and ends. *)
LEMMA TrailsEnd ==
  ASSUME cat \in Shapes, NEW c, NEW n \in Nat, NEW s \in TrailsOf(c, n)
  PROVE  n <= Cardinality(Catalogs)
<1>1. s \in [1 .. n -> Catalogs] /\ \A i \in 1 .. n - 1 : s[i + 1] \in Elements(cat[s[i]].subs)
  BY DEF TrailsOf
<1>2. ASSUME NEW i \in 1 .. n, NEW j \in 1 .. n, i < j, s[i] = s[j] PROVE FALSE
  <2> DEFINE S == {s[k] : k \in i .. j - 1}
  <2>1. i \in i .. j - 1 /\ \A k \in i .. j - 1 : k \in 1 .. n
    BY <1>2
  <2>2. S \in (SUBSET Catalogs) \ {{}}
    BY <2>1, <1>1
  <2>3. PICK d \in S : Elements(cat[d].subs) \intersect S = {}
    BY <2>2, ShapesAssumption
  <2>4. PICK k \in i .. j - 1 : d = s[k]
    BY <2>3
  <2>5. s[k + 1] \in Elements(cat[d].subs)
    <3>1. k \in 1 .. n - 1
      BY <2>4
    <3> QED
      BY <3>1, <2>4, <1>1
  <2>6. s[k + 1] \in S
    <3>1. CASE k + 1 = j
      BY <3>1, <1>2, <2>1
    <3>2. CASE k + 1 # j
      <4>1. k + 1 \in i .. j - 1
        BY <3>2
      <4> QED
        BY <4>1
    <3> QED
      BY <3>1, <3>2
  <2> QED
    BY <2>3, <2>5, <2>6
<1>3. ASSUME NEW i \in 1 .. n, NEW j \in 1 .. n, i # j PROVE s[i] # s[j]
  <2>1. i < j \/ j < i
    BY <1>3
  <2> QED
    BY <2>1, <1>2
<1>4. s \in Injection(1 .. n, Catalogs)
  BY <1>1, <1>3 DEF Injection, IsInjective
<1>5. Cardinality(1 .. n) <= Cardinality(Catalogs)
  BY <1>4, FS_Injection, CatalogsAssumption
<1>6. Cardinality(1 .. n) = IF 1 > n THEN 0 ELSE n - 1 + 1
  BY FS_Interval
<1> QED
  BY <1>5, <1>6

LEMMA TrailsOfLength ==
  ASSUME cat \in Shapes, NEW c \in Catalogs, NEW n \in Nat \ {0}
  PROVE  /\ TrailsOf(c, n) = {s \in Trails(c) : Len(s) = n}
         /\ \A s \in TrailsOf(c, n) : s[n] \in Catalogs
<1>1. Cardinality(Catalogs) \in Nat
  BY CatalogsAssumption, FS_CardinalityType
<1>2. ASSUME NEW s \in TrailsOf(c, n) PROVE s \in Trails(c) /\ Len(s) = n /\ s[n] \in Catalogs
  <2>1. n \in 1 .. Cardinality(Catalogs)
    BY <1>1, TrailsEnd
  <2> QED
    BY <2>1, TrailIsSeq DEF Trails, TrailsOf
<1>3. ASSUME NEW s \in Trails(c), Len(s) = n PROVE s \in TrailsOf(c, n)
  <2>1. PICK m \in 1 .. Cardinality(Catalogs) : s \in TrailsOf(c, m)
    BY DEF Trails
  <2>2. m = n
    BY <2>1, <1>1, <1>3, TrailIsSeq
  <2> QED
    BY <2>1, <2>2
<1> QED
  BY <1>2, <1>3

(* Every trail has a length. *)
LEMMA TrailEndsIn ==
  ASSUME cat \in Shapes, NEW c \in Catalogs, NEW s \in Trails(c)
  PROVE  Len(s) \in Nat \ {0} /\ s \in TrailsOf(c, Len(s)) /\ s[Len(s)] \in Catalogs
<1>1. Cardinality(Catalogs) \in Nat
  BY CatalogsAssumption, FS_CardinalityType
<1>2. PICK m \in 1 .. Cardinality(Catalogs) : s \in TrailsOf(c, m)
  BY DEF Trails
<1>3. m \in Nat \ {0} /\ Len(s) = m
  BY <1>1, <1>2, TrailIsSeq
<1> QED
  BY <1>2, <1>3 DEF TrailsOf

-----------------------------------------------------------------------------
(* What the C++ side builds of a catalog that was sent. *)

LEMMA ArgumentBuilt ==
  ASSUME NEW f \in Functions, NEW a \in ArgumentsOf(f), a.type \notin Holed
  PROVE  BuildArgument(ArgumentProto(a)).type \in BuiltTypes
BY TypesAssumption DEF BuildArgument, ArgumentProto, BuiltTypes

LEMMA SignatureBuilt ==
  ASSUME NEW f \in Functions, \A a \in ArgumentsOf(f) : a.type \notin Holed, NEW s \in Elements(f.signatures)
  PROVE  LET b == BuildSignature(SignatureProto(s))
         IN \A a \in Elements(b.arguments) \union {b.result} : a.type \in BuiltTypes
<1> DEFINE b == BuildSignature(SignatureProto(s))
<1>1. ASSUME NEW a \in Elements(b.arguments) PROVE a.type \in BuiltTypes
  <2>1. PICK i \in DOMAIN s.arguments : a = BuildArgument(ArgumentProto(s.arguments[i]))
    BY DEF Elements, BuildSignature, SignatureProto
  <2>2. s.arguments[i] \in ArgumentsOf(f)
    BY DEF ArgumentsOf, Elements
  <2> QED
    BY <2>1, <2>2, ArgumentBuilt
<1>2. b.result.type \in BuiltTypes
  <2> DEFINE p == SignatureProto(s).result
  <2>1. b.result = BuildArgument(IF p = Nil THEN [kind |-> "fixed", type |-> Nil, options |-> Nil] ELSE p)
    BY DEF BuildSignature
  <2>2. CASE p = Nil
    BY <2>1, <2>2, TypesAssumption DEF BuildArgument, BuiltTypes
  <2>3. CASE p # Nil
    <3>1. s.result # Nil /\ p = ArgumentProto(s.result)
      BY <2>3 DEF SignatureProto
    <3>2. s.result \in ArgumentsOf(f)
      BY <3>1 DEF ArgumentsOf
    <3> QED
      BY <2>1, <2>3, <3>1, <3>2, ArgumentBuilt
  <2> QED
    BY <2>2, <2>3
<1> QED
  BY <1>1, <1>2

(* What neither panicked nor was refused has types all through. *)
LEMMA NodeBuilt ==
  ASSUME cat \in Shapes, NEW c \in Catalogs, ~Panics(c), ~Refused(CatalogProto(c))
  PROVE  BuiltOK(BuildNode(CatalogProto(c)))
<1> DEFINE node == BuildNode(CatalogProto(c))
<1>1. cat[c].tables \in Seq(Tables) /\ cat[c].functions \in Seq(Functions)
  BY CatalogFields
<1>2. ASSUME NEW t \in Elements(node.tables), NEW col \in Elements(t.columns) PROVE col.type \in BuiltTypes \ {Nil}
  <2>1. PICK i \in DOMAIN cat[c].tables : t = BuildTable(cat[c].tables[i])
    BY DEF Elements, BuildNode, CatalogProto
  <2> DEFINE u == cat[c].tables[i]
  <2>2. u \in Tables /\ u \in Elements(cat[c].tables)
    BY <1>1 DEF Elements
  <2>3. PICK j \in DOMAIN u.columns : col = [name |-> u.columns[j].name, type |-> u.columns[j].type]
    BY <2>1 DEF Elements, BuildTable
  <2>4. u.columns[j].type \in Types \union {Nil} /\ u.columns[j] \in Elements(u.columns)
    BY <2>2, TypesAssumption DEF Elements
  <2>5. u \in Elements(CatalogProto(c).tables)
    BY <2>2 DEF CatalogProto
  <2>6. u.columns[j].type \notin Holed \union {Nil} /\ u.columns[j].type \notin Foreign
    BY <2>2, <2>4, <2>5 DEF Panics, Refused
  <2> QED
    BY <2>3, <2>4, <2>6 DEF BuiltTypes
<1>3. ASSUME NEW f \in Elements(node.functions), NEW sig \in Elements(f.signatures),
             NEW a \in Elements(sig.arguments) \union {sig.result}
      PROVE  a.type \in BuiltTypes
  <2>1. PICK i \in DOMAIN cat[c].functions : f = BuildFunction(FunctionProto(cat[c].functions[i]))
    BY DEF Elements, BuildNode, CatalogProto
  <2> DEFINE g == cat[c].functions[i]
  <2>2. g \in Functions /\ g \in Elements(cat[c].functions)
    BY <1>1 DEF Elements
  <2>3. \A x \in ArgumentsOf(g) : x.type \notin Holed
    BY <2>2 DEF Panics
  <2>4. PICK j \in DOMAIN g.signatures : sig = BuildSignature(SignatureProto(g.signatures[j]))
    BY <2>1 DEF Elements, BuildFunction, FunctionProto
  <2>5. g.signatures[j] \in Elements(g.signatures)
    BY DEF Elements
  <2> QED
    BY <2>2, <2>3, <2>4, <2>5, SignatureBuilt
<1> QED
  BY <1>2, <1>3 DEF BuiltOK

LEMMA DefaultBuilt == BuiltOK(BuildNode(DefaultProto))
BY DEF BuiltOK, BuildNode, DefaultProto, Elements

-----------------------------------------------------------------------------
(* The call.  What is on the wire is the tree of the root, all of it; what *)
(* is built is built of that.                                              *)

Sent(c, w) ==
  IF c = Nil THEN DOMAIN w = {<<Nil>>} /\ \A s \in DOMAIN w : w[s] = DefaultProto
  ELSE DOMAIN w = Trails(c) /\ \A s \in DOMAIN w : w[s] = CatalogProto(s[Len(s)]) /\ ~Panics(s[Len(s)])

CallInv ==
  /\ call = [at |-> call.at, root |-> call.root, wire |-> call.wire, built |-> call.built]
  /\ call.at \in {"idle", "sent", "panicked", "refused", "trapped", "built"} /\ call.root \in Catalogs \union {Nil}
  /\ call.at \in {"sent", "built"} => Sent(call.root, call.wire)
  /\ call.at # "built" => call.built = <<>>
  /\ call.at = "built" => /\ DOMAIN call.built = DOMAIN call.wire
                         /\ \A s \in DOMAIN call.wire : /\ call.built[s] = BuildNode(call.wire[s])
                                                        /\ ~Refused(call.wire[s])

LEMMA SameSent ==
  ASSUME cat' = cat
  PROVE  \A c, w : Sent(c, w) => Sent(c, w)'
<1>1. \A c : Trails(c)' = Trails(c) /\ CatalogProto(c)' = CatalogProto(c) /\ Panics(c)' = Panics(c)
  BY DEF Trails, TrailsOf, CatalogProto, Panics
<1> QED
  BY <1>1 DEF Sent

LEMMA SameCall ==
  ASSUME CallInv, cat' = cat, call' = call
  PROVE  CallInv'
<1>1. call.at \in {"sent", "built"} => Sent(call.root, call.wire)'
  BY SameSent DEF CallInv
<1> QED
  BY <1>1 DEF CallInv

LEMMA SerialiseHolds ==
  ASSUME NEW c \in Catalogs \union {Nil}, Serialise(c)
  PROVE  CallInv'
<1>1. cat' = cat
  BY DEF Serialise
<1>2. CASE c = Nil
  <2> DEFINE w == [s \in {<<Nil>>} |-> DefaultProto]
  <2>1. call' = [at |-> "sent", root |-> Nil, wire |-> w, built |-> <<>>]
    BY <1>2 DEF Serialise, NoCall
  <2>2. Sent(Nil, w)'
    BY DEF Sent
  <2> HIDE DEF w
  <2> QED
    BY <2>1, <2>2 DEF CallInv, Sent
<1>3. CASE c # Nil /\ \E s \in Trails(c) : Panics(s[Len(s)])
  <2>1. call' = [at |-> "panicked", root |-> c, wire |-> <<>>, built |-> <<>>]
    BY <1>3 DEF Serialise, NoCall
  <2> QED
    BY <2>1 DEF CallInv
<1>4. CASE c # Nil /\ \A s \in Trails(c) : ~Panics(s[Len(s)])
  <2>1. PICK w : w = [s \in Trails(c) |-> CatalogProto(s[Len(s)])]
    OBVIOUS
  <2>2. call' = [at |-> "sent", root |-> c, wire |-> w, built |-> <<>>]
    BY <1>4, <2>1 DEF Serialise, NoCall
  <2>3. Sent(c, w)
    BY <1>4, <2>1 DEF Sent
  <2>4. Sent(c, w)'
    BY <1>1, <2>3, SameSent
  <2> QED
    BY <2>2, <2>4 DEF CallInv
<1> QED
  BY <1>2, <1>3, <1>4

LEMMA BuildHolds ==
  ASSUME CallInv, Build
  PROVE  CallInv'
<1>1. cat' = cat /\ call.at = "sent" /\ Sent(call.root, call.wire)
  BY DEF Build, CallInv
<1>2. CASE call' = [call EXCEPT !.at = "trapped"] \/ call' = [call EXCEPT !.at = "refused"]
  <2>1. /\ call'.at \in {"trapped", "refused"} /\ call'.root = call.root /\ call'.built = call.built
        /\ call' = [at |-> call'.at, root |-> call'.root, wire |-> call'.wire, built |-> call'.built]
    BY <1>2 DEF CallInv
  <2> QED
    BY <2>1, <1>1 DEF CallInv
<1>3. CASE /\ \A s \in DOMAIN call.wire : ~Refused(call.wire[s])
           /\ call' = [call EXCEPT !.at = "built", !.built = [s \in DOMAIN call.wire |-> BuildNode(call.wire[s])]]
  <2> DEFINE b == [s \in DOMAIN call.wire |-> BuildNode(call.wire[s])]
  <2>1. call' = [at |-> "built", root |-> call.root, wire |-> call.wire, built |-> b]
    BY <1>3 DEF CallInv
  <2>2. DOMAIN b = DOMAIN call.wire /\ \A s \in DOMAIN call.wire : b[s] = BuildNode(call.wire[s])
    OBVIOUS
  <2> HIDE DEF b
  <2>3. Sent(call.root, call.wire)'
    BY <1>1, <2>1, SameSent
  <2>4. call'.at = "built" /\ call'.root = call.root /\ call'.wire = call.wire /\ call'.built = b
    BY <2>1
  <2>5. call' = [at |-> call'.at, root |-> call'.root, wire |-> call'.wire, built |-> call'.built]
    BY <2>1
  <2> QED
    BY <1>3, <2>2, <2>3, <2>4, <2>5 DEF CallInv
<1> QED
  BY <1>2, <1>3 DEF Build

LEMMA CallHolds == CallInv /\ [Next]_vars => CallInv'
<1> SUFFICES ASSUME CallInv, [Next]_vars PROVE CallInv'
  OBVIOUS
<1>1. ASSUME NEW c \in Catalogs, NEW path \in Paths, FindTable(c, path) \/ FindFunction(c, path) PROVE CallInv'
  BY <1>1, SameCall DEF FindTable, FindFunction
<1>2. ASSUME Descend \/ MatchTable \/ Visit \/ Exhausted \/ LookupReturns PROVE CallInv'
  BY <1>2, SameCall DEF Descend, MatchTable, Visit, Exhausted, LookupReturns
<1>3. ASSUME NEW c \in Catalogs \union {Nil}, Serialise(c) PROVE CallInv'
  BY <1>3, SerialiseHolds
<1>4. ASSUME CallReturns PROVE CallInv'
  <2>1. call' = [at |-> "idle", root |-> Nil, wire |-> <<>>, built |-> <<>>]
    BY <1>4 DEF CallReturns, NoCall
  <2> QED
    BY <2>1 DEF CallInv
<1>5. ASSUME UNCHANGED vars PROVE CallInv'
  BY <1>5, SameCall DEF vars
<1> QED
  BY <1>1, <1>2, <1>3, <1>4, <1>5, BuildHolds DEF Next

LEMMA CallInvHolds == Spec => []CallInv
<1>1. Init => CallInv
  BY DEF Init, NoCall, CallInv
<1> QED
  BY <1>1, CallHolds, PTL DEF Spec

(* The analyzer never gets a type it cannot have nor a column without one, whatever catalogs, types
   and functions the program has. *)
THEOREM CatalogTypeCorrect == Spec => []TypeOK
<1>1. LookInv /\ CallInv => TypeOK
  <2> SUFFICES ASSUME LookInv, CallInv, NEW s \in DOMAIN call.built PROVE BuiltOK(call.built[s])
    BY DEF TypeOK, LookInv, CallInv
  <2>1. call.at = "built" /\ s \in DOMAIN call.wire /\ call.built[s] = BuildNode(call.wire[s]) /\ ~Refused(call.wire[s])
    BY DEF CallInv
  <2>2. CASE call.root = Nil
    BY <2>1, <2>2, DefaultBuilt DEF CallInv, Sent
  <2>3. CASE call.root # Nil
    <3>1. s \in Trails(call.root) /\ call.wire[s] = CatalogProto(s[Len(s)]) /\ ~Panics(s[Len(s)])
      BY <2>1, <2>3 DEF CallInv, Sent
    <3>2. s[Len(s)] \in Catalogs /\ cat \in Shapes
      BY <2>3, <3>1, TrailEndsIn DEF CallInv, LookInv
    <3> QED
      BY <2>1, <3>1, <3>2, NodeBuilt
  <2> QED
    BY <2>2, <2>3
<1> QED
  BY <1>1, LookInvHolds, CallInvHolds, PTL

-----------------------------------------------------------------------------
(* What the analyzer resolves in the catalog that was built. *)

(* The entry of a trail is built of the catalog at its end. *)
LEMMA EntryBuilt ==
  ASSUME LookInv, CallInv, call.at = "built", call.root # Nil, NEW s \in Trails(call.root)
  PROVE  s \in DOMAIN call.built /\ call.built[s] = BuildNode(CatalogProto(s[Len(s)]))
BY DEF CallInv, Sent

(* The trails that the analyzer follows to a path are those that FindTable may. *)
LEMMA SameTrails ==
  ASSUME LookInv, CallInv, call.at = "built", call.root # Nil, NEW path \in Seq(Names), path # <<>>
  PROVE  {r \in DOMAIN call.built : /\ Len(r) = Len(path)
                                    /\ \A i \in 2 .. Len(r) : Alike(call.built[SubSeq(r, 1, i)].name, path[i - 1])}
         = {r \in TrailsOf(call.root, Len(path)) : IsAt(r, path)}
<1> DEFINE c == call.root
           n == Len(path)
<1>1. c \in Catalogs /\ n \in Nat \ {0} /\ cat \in Shapes
  BY DEF CallInv, LookInv
<1>2. DOMAIN call.built = Trails(c)
  BY DEF CallInv, Sent
<1>3. TrailsOf(c, n) = {r \in Trails(c) : Len(r) = n}
  BY <1>1, TrailsOfLength
<1>4. ASSUME NEW r \in TrailsOf(c, n), NEW i \in 2 .. n
      PROVE  call.built[SubSeq(r, 1, i)].name = cat[r[i]].name
  <2> DEFINE p == SubSeq(r, 1, i)
  <2>1. i \in 1 .. n /\ i \in Nat \ {0}
    BY <1>1
  <2>2. p \in TrailsOf(c, i) /\ Len(p) = i /\ p[i] = r[i]
    BY <1>1, <2>1, TrailPrefix
  <2> HIDE DEF p
  <2>3. p \in Trails(c)
    BY <1>1, <2>1, <2>2, TrailsOfLength
  <2>4. call.built[p] = BuildNode(CatalogProto(r[i]))
    BY <2>2, <2>3, EntryBuilt
  <2> QED
    BY <2>4 DEF BuildNode, CatalogProto, p
<1>5. \A r \in TrailsOf(c, n) :
        IsAt(r, path) <=> \A i \in 2 .. Len(r) : Alike(call.built[SubSeq(r, 1, i)].name, path[i - 1])
  <2> SUFFICES ASSUME NEW r \in TrailsOf(c, n)
               PROVE  IsAt(r, path) <=> \A i \in 2 .. Len(r) : Alike(call.built[SubSeq(r, 1, i)].name, path[i - 1])
    OBVIOUS
  <2>1. Len(r) = n
    BY <1>3
  <2> QED
    BY <2>1, <1>4 DEF IsAt
<1> QED
  BY <1>2, <1>3, <1>5

(* And at the end of a trail there are the same tables. *)
LEMMA SameTables ==
  ASSUME LookInv, CallInv, call.at = "built", call.root # Nil, NEW s \in Trails(call.root), NEW name
  PROVE  {t \in Elements(call.built[s].tables) : Alike(t.name, name)}
         = {BuildTable(t) : t \in {t \in Elements(cat[s[Len(s)]].tables) : Alike(t.name, name)}}
<1> DEFINE tables == cat[s[Len(s)]].tables
<1>1. call.built[s].tables = [i \in DOMAIN tables |-> BuildTable(tables[i])]
  <2>1. call.built[s] = BuildNode(CatalogProto(s[Len(s)]))
    BY EntryBuilt
  <2>2. CatalogProto(s[Len(s)]).tables = tables
    BY DEF CatalogProto
  <2> QED
    BY <2>1, <2>2 DEF BuildNode
<1> HIDE DEF tables
<1>2. Elements(call.built[s].tables) = {BuildTable(t) : t \in Elements(tables)}
  BY <1>1 DEF Elements
<1>3. \A t : BuildTable(t).name = t.name
  BY DEF BuildTable
<1> QED
  BY <1>2, <1>3 DEF tables

(***************************************************************************)
(* A call that was not refused gave the analyzer the whole catalog: it     *)
(* resolves every path to the tables that are there for FindTable, column  *)
(* for column, for catalogs of any number and any shape without a cycle,   *)
(* shared sub-catalogs too.                                                *)
(***************************************************************************)
THEOREM AnalyzerHasTables == Spec => []AnalyzerSeesTables
<1>1. LookInv /\ CallInv => AnalyzerSeesTables
  <2> SUFFICES ASSUME LookInv, CallInv, call.at = "built", call.root # Nil, NEW path \in Paths \ {<<>>}
               PROVE  Resolved(path) = {BuildTable(t) : t \in TablesAt(call.root, path)}
    BY DEF AnalyzerSeesTables, BuildTable
  <2> DEFINE n == Len(path)
             R == {r \in TrailsOf(call.root, n) : IsAt(r, path)}
             Here(s) == {t \in Elements(cat[s[Len(s)]].tables) : Alike(t.name, path[n])}
             There(s) == {t \in Elements(call.built[s].tables) : Alike(t.name, path[n])}
  <2>1. path \in Seq(Names) /\ path # <<>> /\ n \in Nat \ {0} /\ call.root \in Catalogs /\ cat \in Shapes
    BY NamesAssumption DEF CallInv, LookInv
  <2>2. Resolved(path) = UNION {There(s) : s \in R}
    BY <2>1, SameTrails DEF Resolved
  <2>3. TablesAt(call.root, path) = UNION {Here(s) : s \in R}
    BY DEF TablesAt
  <2>4. ASSUME NEW s \in R PROVE There(s) = {BuildTable(t) : t \in Here(s)}
    <3>1. s \in Trails(call.root)
      BY <2>1, TrailsOfLength
    <3> QED
      BY <3>1, SameTables
  <2> HIDE DEF R, Here, There
  <2>5. UNION {There(s) : s \in R} = {BuildTable(t) : t \in UNION {Here(s) : s \in R}}
    BY <2>4
  <2> QED
    BY <2>2, <2>3, <2>5
<1> QED
  BY <1>1, LookInvHolds, CallInvHolds, PTL
=============================================================================
