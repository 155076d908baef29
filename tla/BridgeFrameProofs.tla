-------------------------- MODULE BridgeFrameProofs --------------------------
(***************************************************************************)
(* Proof that the byte layout of BridgeFrame carries every answer intact,  *)
(* for messages of any length below MaxLen and whatever follows the block. *)
(***************************************************************************)
EXTENDS BridgeFrame, SequenceTheorems, TLAPS

(* The data behind the size, as the Go side is to read it. *)
Body(answer) ==
  CASE answer.kind = "error" -> ErrorPrefix \o answer.first
    [] answer.kind = "proto" -> answer.first
    [] answer.kind = "pair"  -> Word(Len(answer.first)) \o answer.first
                                  \o Word(Len(answer.second)) \o answer.second

FrameInv ==
  /\ said \in Answers \union {Nothing}
  /\ sound /\ stage = "packed" =>
       /\ said \in Answers
       /\ \E rest \in Bytes : memory = Word(Len(Body(said))) \o Body(said) \o rest
  /\ sound /\ stage = "read" => said \in Answers /\ data = Body(said)
  /\ HeardAsSaid

(* The sizes a word can hold. *)
Size == {n \in Nat : n < 4294967296}

-----------------------------------------------------------------------------
(* Sequences. *)

LEMMA TakeOfConcat ==
  ASSUME NEW a \in Bytes, NEW b \in Bytes
  PROVE  Take(a \o b, Len(a)) = a
<1>1. a \o b \in Bytes /\ \A i \in 1 .. Len(a) : (a \o b)[i] = a[i] /\ (a \o b)[i] \in Byte
  BY ConcatProperties, ElementOfSeq DEF Bytes
<1>2. Len(a) \in Nat
  BY DEF Bytes
<1>3. /\ Take(a \o b, Len(a)) \in Bytes
      /\ Len(Take(a \o b, Len(a))) = Len(a)
      /\ \A i \in 1 .. Len(a) : Take(a \o b, Len(a))[i] = (a \o b)[i]
  <2>1. Len(a) - 1 + 1 = Len(a) /\ \A i \in 1 .. Len(a) : 1 + i - 1 = i
    BY <1>2
  <2>2. /\ SubSeq(a \o b, 1, Len(a)) \in Seq(Byte)
        /\ Len(SubSeq(a \o b, 1, Len(a))) = IF 1 <= Len(a) THEN Len(a) - 1 + 1 ELSE 0
        /\ \A i \in 1 .. Len(a) - 1 + 1 : SubSeq(a \o b, 1, Len(a))[i] = (a \o b)[1 + i - 1]
    BY <1>1, <1>2, SubSeqProperties
  <2> QED
    BY <2>1, <2>2, <1>2 DEF Take, Bytes
<1> QED
  BY <1>1, <1>3, SeqEqual DEF Bytes

LEMMA DropOfConcat ==
  ASSUME NEW a \in Bytes, NEW b \in Bytes
  PROVE  Drop(a \o b, Len(a)) = b
<1> DEFINE m == Len(a) + 1
           n == Len(a \o b)
<1>1. /\ a \o b \in Bytes /\ n = Len(a) + Len(b)
      /\ Len(a) \in Nat /\ Len(b) \in Nat
      /\ \A i \in 1 .. n : (a \o b)[i] \in Byte
  BY ConcatProperties, ElementOfSeq DEF Bytes
<1>2. \A i \in 1 .. Len(b) : (a \o b)[m + i - 1] = b[i]
  <2> SUFFICES ASSUME NEW i \in 1 .. Len(b) PROVE (a \o b)[m + i - 1] = b[i]
    OBVIOUS
  <2>1. m + i - 1 \in 1 .. Len(a) + Len(b) /\ ~(m + i - 1 <= Len(a))
        /\ m + i - 1 - Len(a) = i
    BY <1>1
  <2>2. \A k \in 1 .. Len(a) + Len(b) :
          (a \o b)[k] = IF k <= Len(a) THEN a[k] ELSE b[k - Len(a)]
    BY ConcatProperties DEF Bytes
  <2> DEFINE j == m + i - 1
  <2>3. j \in 1 .. Len(a) + Len(b) /\ ~(j <= Len(a)) /\ j - Len(a) = i
    BY <2>1
  <2> HIDE DEF j
  <2>4. (a \o b)[j] = b[i]
    BY <2>2, <2>3
  <2> QED
    BY <2>4 DEF j
<1>3. /\ SubSeq(a \o b, m, n) \in Seq(Byte)
      /\ Len(SubSeq(a \o b, m, n)) = IF m <= n THEN n - m + 1 ELSE 0
      /\ \A i \in 1 .. n - m + 1 : SubSeq(a \o b, m, n)[i] = (a \o b)[m + i - 1]
  <2>1. m \in Int /\ n \in Int /\ \A i \in m .. n : (a \o b)[i] \in Byte
    BY <1>1
  <2> DEFINE ab == a \o b
  <2>2. \A i \in m .. n : ab[i] \in Byte
    BY <2>1
  <2> HIDE DEF m, n, ab
  <2>3. /\ SubSeq(ab, m, n) \in Seq(Byte)
        /\ Len(SubSeq(ab, m, n)) = IF m <= n THEN n - m + 1 ELSE 0
        /\ \A i \in 1 .. n - m + 1 : SubSeq(ab, m, n)[i] = ab[m + i - 1]
    BY <2>1, <2>2, SubSeqProperties
  <2> QED
    BY <2>3 DEF ab
<1>4. n - m + 1 = Len(b) /\ (IF m <= n THEN n - m + 1 ELSE 0) = Len(b)
  BY <1>1
<1>5. SubSeq(a \o b, m, n) = b
  <2> HIDE DEF m, n
  <2> QED
    BY <1>2, <1>3, <1>4, SeqEqual DEF Bytes
<1> QED
  BY <1>5 DEF Drop

LEMMA Concatenate ==
  ASSUME NEW a \in Bytes, NEW b \in Bytes
  PROVE  a \o b \in Bytes /\ Len(a \o b) = Len(a) + Len(b)
BY ConcatProperties DEF Bytes

LEMMA ConcatAt ==
  ASSUME NEW a \in Bytes, NEW b \in Bytes, NEW i \in 1 .. Len(a)
  PROVE  (a \o b)[i] = a[i]
<1>1. Len(a) \in Nat /\ Len(b) \in Nat
  BY DEF Bytes
<1>2. i \in 1 .. Len(a) + Len(b) /\ i <= Len(a)
  BY <1>1
<1> QED
  BY <1>2, ConcatProperties DEF Bytes

LEMMA Regroup ==
  ASSUME NEW a \in Bytes, NEW b \in Bytes, NEW c \in Bytes
  PROVE  (a \o b) \o c = a \o (b \o c)
BY ConcatAssociative DEF Bytes

LEMMA SizeInRange ==
  ASSUME NEW k \in Nat, k <= 2 * MaxLen + 8
  PROVE  k \in Size
BY SMT DEF Size, MaxLen

LEMMA MaxLenIsNat == MaxLen \in Nat
BY SMT DEF MaxLen

LEMMA SizeIsNat ==
  ASSUME NEW k \in Size
  PROVE  k \in Nat
BY SMT DEF Size

(* The little-endian word on both sides. *)
LEMMA WordBytes ==
  ASSUME NEW n \in Nat
  PROVE  Word(n) \in Bytes /\ Len(Word(n)) = 4
BY DEF Word, Bytes, Byte

LEMMA WordRoundTrip ==
  ASSUME NEW n \in Size, NEW s \in Bytes
  PROVE  Uint32(Word(n) \o s) = n
<1>1. Word(n) \in Bytes /\ Len(Word(n)) = 4
  BY WordBytes, SizeIsNat
<1>2. n \in Nat /\ n < 4294967296
  BY SMT DEF Size
<1>3. /\ (Word(n) \o s)[1] = Word(n)[1] /\ (Word(n) \o s)[2] = Word(n)[2]
      /\ (Word(n) \o s)[3] = Word(n)[3] /\ (Word(n) \o s)[4] = Word(n)[4]
  <2>1. \A i \in 1 .. 4 : (Word(n) \o s)[i] = Word(n)[i]
    BY <1>1, ConcatAt
  <2>2. 1 \in 1 .. 4 /\ 2 \in 1 .. 4 /\ 3 \in 1 .. 4 /\ 4 \in 1 .. 4
    OBVIOUS
  <2> QED
    BY <2>1, <2>2, Zenon
<1>4. /\ Word(n)[1] = n % 256 /\ Word(n)[2] = (n \div 256) % 256
      /\ Word(n)[3] = (n \div 65536) % 256 /\ Word(n)[4] = (n \div 16777216) % 256
  BY DEF Word
<1> DEFINE q1 == n \div 256
           q2 == n \div 65536
           q3 == n \div 16777216
<1>5. n = 256 * q1 + (n % 256) /\ q1 \in Nat /\ n % 256 \in Nat
  BY <1>2, SMT
<1>6. q2 = q1 \div 256 /\ q3 = q2 \div 256 /\ q3 \in Nat /\ q3 < 256
  BY <1>2, SMT
<1>7. q1 = 256 * q2 + (q1 % 256) /\ q2 \in Nat /\ q1 % 256 \in Nat
  <2> HIDE DEF q1, q2
  <2> QED
    BY <1>5, <1>6, SMT
<1>8. q2 = 256 * q3 + (q2 % 256) /\ q3 % 256 = q3 /\ q2 % 256 \in Nat
  <2>1. q2 \in Nat /\ q3 = q2 \div 256 /\ q3 \in Nat /\ q3 < 256
    BY <1>6, <1>7
  <2> HIDE DEF q1, q2, q3
  <2>2. q2 = 256 * (q2 \div 256) + (q2 % 256) /\ q2 % 256 \in Nat
    BY <2>1, SMT
  <2>3. q3 % 256 = q3
    BY <2>1, SMT
  <2> QED
    BY <2>1, <2>2, <2>3
<1>9. Uint32(Word(n) \o s) = (n % 256) + 256 * (q1 % 256) + 65536 * (q2 % 256)
                               + 16777216 * (q3 % 256)
  BY <1>3, <1>4, SMT DEF Uint32
<1> QED
  <2> HIDE DEF q1, q2, q3
  <2> QED
    BY <1>2, <1>5, <1>6, <1>7, <1>8, <1>9, SMT

(* Reading a word off the front leaves the rest. *)
LEMMA WordInFront ==
  ASSUME NEW n \in Size, NEW s \in Bytes
  PROVE  /\ Word(n) \o s \in Bytes
         /\ Len(Word(n) \o s) = 4 + Len(s)
         /\ Uint32(Word(n) \o s) = n
         /\ Drop(Word(n) \o s, 4) = s
<1>1. Word(n) \in Bytes /\ Len(Word(n)) = 4
  BY WordBytes, SizeIsNat
<1>2. Drop(Word(n) \o s, Len(Word(n))) = s
  BY <1>1, DropOfConcat
<1> QED
  BY <1>1, <1>2, WordRoundTrip, Concatenate

-----------------------------------------------------------------------------
(* The bodies. *)

LEMMA ErrorBody ==
  ASSUME NEW t \in Text
  PROVE  /\ Body(Error(t)) = ErrorPrefix \o t
         /\ Body(Error(t)) \in Bytes /\ Len(Body(Error(t))) = 7 + Len(t)
         /\ Len(t) \in 1 .. MaxLen /\ t \in Bytes
         /\ Packed(Error(t)) = Word(7 + Len(t)) \o ErrorPrefix \o t \o <<0>>
<1>1. ErrorPrefix \in Bytes /\ Len(ErrorPrefix) = 7
  BY DEF ErrorPrefix, Bytes, Byte
<1>2. t \in Bytes /\ Len(t) \in 1 .. MaxLen
  BY TextAssumption
<1>3. Body(Error(t)) = ErrorPrefix \o t
  BY DEF Body, Error
<1> QED
  BY <1>1, <1>2, <1>3, Concatenate DEF Packed, Error, PackError

LEMMA ProtoBody ==
  ASSUME NEW p \in Proto
  PROVE  /\ Body(Single(p)) = p /\ p \in Bytes /\ Len(p) \in 0 .. MaxLen
         /\ Packed(Single(p)) = Word(Len(p)) \o p
<1>1. p \in Bytes /\ Len(p) \in 0 .. MaxLen
  BY ProtoAssumption DEF Bytes
<1> QED
  BY <1>1 DEF Body, Single, Packed, PackProto

(* Right-nested, a pair is a word before a proto before a word before a proto. *)
Tailed(p, r) == p \o (Word(Len(r)) \o r)

LEMMA PairBody ==
  ASSUME NEW p \in Proto, NEW r \in Proto
  PROVE  /\ Body(Pair(p, r)) = Word(Len(p)) \o Tailed(p, r)
         /\ Body(Pair(p, r)) \in Bytes
         /\ Len(Body(Pair(p, r))) = 8 + Len(p) + Len(r)
         /\ Tailed(p, r) \in Bytes /\ Word(Len(r)) \o r \in Bytes
         /\ Packed(Pair(p, r)) = Word(8 + Len(p) + Len(r)) \o Body(Pair(p, r))
<1>1. /\ p \in Bytes /\ r \in Bytes /\ Len(p) \in Nat /\ Len(r) \in Nat
  BY ProtoBody
<1>2. /\ Word(Len(p)) \in Bytes /\ Len(Word(Len(p))) = 4
      /\ Word(Len(r)) \in Bytes /\ Len(Word(Len(r))) = 4
      /\ Word(8 + Len(p) + Len(r)) \in Bytes
  BY <1>1, WordBytes
<1>3. Body(Pair(p, r)) = Word(Len(p)) \o p \o Word(Len(r)) \o r
  BY DEF Body, Pair
<1>4. Word(Len(p)) \o p \o Word(Len(r)) \o r = Word(Len(p)) \o Tailed(p, r)
  <2>1. Word(Len(p)) \o p \in Bytes
    BY <1>1, <1>2, Concatenate
  <2>2. Word(Len(p)) \o p \o Word(Len(r)) \o r = (Word(Len(p)) \o p) \o (Word(Len(r)) \o r)
    BY <2>1, <1>1, <1>2, Regroup, ZenonT(60)
  <2>3. Word(Len(r)) \o r \in Bytes
    BY <1>1, <1>2, Concatenate
  <2> DEFINE w == Word(Len(p))
             y == Word(Len(r)) \o r
  <2>4. w \in Bytes /\ y \in Bytes
    BY <1>2, <2>3
  <2> HIDE DEF w, y
  <2>5. (w \o p) \o y = w \o (p \o y)
    BY <2>4, <1>1, Regroup, ZenonT(60)
  <2> QED
    BY <2>2, <2>5 DEF Tailed, w, y
<1>5. /\ Word(Len(r)) \o r \in Bytes /\ Len(Word(Len(r)) \o r) = 4 + Len(r)
      /\ Tailed(p, r) \in Bytes /\ Len(Tailed(p, r)) = Len(p) + (4 + Len(r))
  <2>1. Word(Len(r)) \o r \in Bytes /\ Len(Word(Len(r)) \o r) = 4 + Len(r)
    BY <1>1, <1>2, Concatenate
  <2> DEFINE y == Word(Len(r)) \o r
  <2>2. p \o y \in Bytes /\ Len(p \o y) = Len(p) + Len(y)
    BY <2>1, <1>1, Concatenate
  <2> QED
    BY <2>1, <2>2 DEF Tailed
<1>6. /\ Word(Len(p)) \o Tailed(p, r) \in Bytes
      /\ Len(Word(Len(p)) \o Tailed(p, r)) = 8 + Len(p) + Len(r)
  BY <1>1, <1>2, <1>5, Concatenate
<1>7. Packed(Pair(p, r)) = Word(8 + Len(p) + Len(r)) \o Body(Pair(p, r))
  <2> DEFINE w == Word(8 + Len(p) + Len(r))
             x == Word(Len(p))
             y == Word(Len(r))
  <2>1. Packed(Pair(p, r)) = w \o x \o p \o y \o r
    BY DEF Packed, Pair, PackPair
  <2>2. w \in Bytes /\ x \in Bytes /\ y \in Bytes
    BY <1>2
  <2> HIDE DEF w, x, y
  <2>3. w \o x \o p \o y \o r = w \o (x \o p \o y \o r)
    <3> DEFINE xp == x \o p
               xpy == xp \o y
    <3>1. xp \in Bytes /\ xpy \in Bytes
      BY <2>2, <1>1, Concatenate
    <3>2. w \o x \o p = w \o xp
      BY <2>2, <1>1, Regroup, ZenonT(60)
    <3> HIDE DEF xp
    <3>3. w \o xp \o y = w \o xpy
      BY <2>2, <3>1, Regroup, ZenonT(60)
    <3> HIDE DEF xpy
    <3>4. w \o xpy \o r = w \o (xpy \o r)
      BY <2>2, <3>1, <1>1, Regroup, ZenonT(60)
    <3> QED
      BY <3>2, <3>3, <3>4 DEF xp, xpy
  <2> QED
    BY <2>1, <2>3, <1>3 DEF w, x, y
<1> QED
  BY <1>3, <1>4, <1>5, <1>6, <1>7

(* Every body is short enough for its size, and is written in full. *)
LEMMA PackedBody ==
  ASSUME NEW answer \in Answers, NEW b \in Bytes
  PROVE  /\ Body(answer) \in Bytes
         /\ Len(Body(answer)) \in Size
         /\ \E rest \in Bytes :
              Packed(answer) \o b = Word(Len(Body(answer))) \o Body(answer) \o rest
<1> DEFINE w == Word(Len(Body(answer)))
<1>1. CASE \E t \in Text : answer = Error(t)
  <2>1. PICK t \in Text : answer = Error(t)
    BY <1>1
  <2>2. /\ Body(answer) \in Bytes /\ Len(Body(answer)) = 7 + Len(t)
        /\ Body(answer) = ErrorPrefix \o t
        /\ Packed(answer) = Word(7 + Len(t)) \o ErrorPrefix \o t \o <<0>>
        /\ Len(t) \in 1 .. MaxLen /\ t \in Bytes
    BY <2>1, ErrorBody
  <2>3. Len(Body(answer)) \in Size
    BY <2>2, SizeInRange, MaxLenIsNat
  <2>4. ErrorPrefix \in Bytes /\ <<0>> \in Bytes /\ w \in Bytes
    BY <2>3, WordBytes DEF ErrorPrefix, Bytes, Byte
  <2>5. w \o ErrorPrefix \o t = w \o Body(answer)
    <3> HIDE DEF w
    <3>1. w \o ErrorPrefix \o t = w \o (ErrorPrefix \o t)
      BY <2>2, <2>4, Regroup, ZenonT(60)
    <3> QED
      BY <3>1, <2>2
  <2>6. Packed(answer) = w \o Body(answer) \o <<0>>
    BY <2>2, <2>5
  <2>7. w \o Body(answer) \in Bytes /\ <<0>> \o b \in Bytes
    BY <2>2, <2>4, Concatenate
  <2>8. Packed(answer) \o b = w \o Body(answer) \o (<<0>> \o b)
    BY <2>4, <2>6, <2>7, Regroup, SMTT(60)
  <2> QED
    BY <2>2, <2>3, <2>7, <2>8
<1>2. CASE \E p \in Proto : answer = Single(p)
  <2>1. PICK p \in Proto : answer = Single(p)
    BY <1>2
  <2>2. /\ Body(answer) = p /\ p \in Bytes /\ Len(p) \in 0 .. MaxLen
        /\ Packed(answer) = Word(Len(p)) \o p
    BY <2>1, ProtoBody
  <2> QED
    BY <2>2, SizeInRange, MaxLenIsNat
<1>3. CASE \E p, r \in Proto : answer = Pair(p, r)
  <2>1. PICK p \in Proto, r \in Proto : answer = Pair(p, r)
    BY <1>3
  <2>2. /\ Body(answer) \in Bytes /\ Len(Body(answer)) = 8 + Len(p) + Len(r)
        /\ Packed(answer) = Word(8 + Len(p) + Len(r)) \o Body(answer)
    BY <2>1, PairBody
  <2>3. Len(p) \in 0 .. MaxLen /\ Len(r) \in 0 .. MaxLen
    BY ProtoBody
  <2> QED
    BY <2>2, <2>3, SizeInRange, MaxLenIsNat
<1>4. \/ \E t \in Text : answer = Error(t)
      \/ \E p \in Proto : answer = Single(p)
      \/ \E p, r \in Proto : answer = Pair(p, r)
  BY DEF Answers
<1> QED
  BY <1>1, <1>2, <1>3, <1>4

-----------------------------------------------------------------------------
(* The decoder. *)

LEMMA HearError ==
  ASSUME NEW t \in Text
  PROVE  ParseResultMessage(Body(Error(t))) = t /\ t # <<>>
<1>1. ErrorPrefix \in Bytes /\ Len(ErrorPrefix) = 7
  BY DEF ErrorPrefix, Bytes, Byte
<1>2. t \in Bytes /\ Len(t) \in 1 .. MaxLen /\ Body(Error(t)) = ErrorPrefix \o t
      /\ Len(Body(Error(t))) = 7 + Len(t)
  BY ErrorBody
<1>3. Take(ErrorPrefix \o t, 7) = ErrorPrefix /\ Drop(ErrorPrefix \o t, 7) = t
  BY <1>1, <1>2, TakeOfConcat, DropOfConcat
<1> QED
  BY <1>2, <1>3 DEF ParseResultMessage

(* What starts like "Error" has its bytes. *)
StartsWithErro(d) == d[1] = 69 /\ d[2] = 114 /\ d[3] = 114 /\ d[4] = 111

LEMMA LooksLikeError ==
  ASSUME NEW d \in Bytes, ParseResultMessage(d) # <<>>
  PROVE  Len(d) > 7 /\ StartsWithErro(d)
<1>1. Len(d) > 7 /\ Take(d, 7) = ErrorPrefix
  BY DEF ParseResultMessage
<1>2. \A i \in 1 .. 7 : Take(d, 7)[i] = d[i]
  <2>1. Len(d) \in Nat /\ \A i \in 1 .. 7 : d[i] \in Byte
    BY <1>1, ElementOfSeq DEF Bytes
  <2>2. \A i \in 1 .. 7 - 1 + 1 : SubSeq(d, 1, 7)[i] = d[1 + i - 1]
    BY <2>1, SubSeqProperties
  <2> QED
    BY <2>2 DEF Take
<1> QED
  BY <1>1, <1>2 DEF ErrorPrefix, StartsWithErro

LEMMA HearProto ==
  ASSUME NEW p \in Proto
  PROVE  ParseResultMessage(p) = <<>>
<1>1. p \in Bytes /\ Len(p) \in Nat /\ (Len(p) > 0 => p[1] # 69)
  BY ProtoAssumption DEF Bytes
<1>2. ParseResultMessage(p) # <<>> => Len(p) > 7 /\ p[1] = 69
  BY <1>1, LooksLikeError DEF StartsWithErro
<1> QED
  BY <1>1, <1>2

LEMMA HearPair ==
  ASSUME NEW p \in Proto, NEW r \in Proto
  PROVE  /\ ParseResultMessage(Body(Pair(p, r))) = <<>>
         /\ splitAnalyzePayload(Body(Pair(p, r))) = Pair(p, r)
<1> DEFINE d == Body(Pair(p, r))
           tail == Word(Len(r)) \o r
<1>1. /\ d = Word(Len(p)) \o Tailed(p, r) /\ d \in Bytes /\ Tailed(p, r) \in Bytes
      /\ tail \in Bytes /\ Tailed(p, r) = p \o tail
  BY PairBody DEF Tailed
<1>2. /\ p \in Bytes /\ r \in Bytes
      /\ Len(p) \in Size /\ Len(r) \in Size /\ Len(p) <= MaxLen
  BY ProtoBody, SizeInRange, MaxLenIsNat
<1>3. Len(d) = 4 + Len(Tailed(p, r)) /\ Uint32(d) = Len(p) /\ Drop(d, 4) = p \o tail
  <2> HIDE DEF d, tail
  <2> QED
    BY <1>1, <1>2, WordInFront
<1>4. Len(tail) = 4 + Len(r) /\ Uint32(tail) = Len(r) /\ Drop(tail, 4) = r
  BY <1>2, WordInFront
<1>5. Len(p \o tail) = Len(p) + Len(tail)
      /\ Take(p \o tail, Len(p)) = p /\ Drop(p \o tail, Len(p)) = tail
  BY <1>1, <1>2, Concatenate, TakeOfConcat, DropOfConcat
<1>6. Take(r, Len(r)) = r
  BY <1>2, SubSeqFull DEF Take, Bytes
<1> HIDE DEF d, tail
<1>7. ParseResultMessage(d) = <<>>
  <2> SUFFICES ASSUME ParseResultMessage(d) # <<>> PROVE FALSE
    OBVIOUS
  <2>1. StartsWithErro(d)
    BY <1>1, LooksLikeError, Zenon
  <2>2. Uint32(d) = 69 + 256 * 114 + 65536 * 114 + 16777216 * 111
    BY <2>1, SMT DEF Uint32, StartsWithErro
  <2>3. Uint32(d) > MaxLen
    BY <2>2, SMT DEF MaxLen
  <2>4. Len(p) \in Nat /\ Uint32(d) = Len(p) /\ Len(p) <= MaxLen
    BY <1>2, <1>3, SizeIsNat
  <2> QED
    BY <2>3, <2>4, MaxLenIsNat
<1> DEFINE P == Len(p)
           R == Len(r)
<1>8. ~CutShort(d) /\ ~CutShort(tail)
  <2>1. P \in Nat /\ R \in Nat
    BY <1>2, SizeIsNat
  <2>2. Len(d) = 4 + (P + (4 + R)) /\ Uint32(d) = P /\ Len(tail) = 4 + R /\ Uint32(tail) = R
    BY <1>1, <1>3, <1>4, <1>5
  <2> HIDE DEF P, R
  <2> QED
    BY <2>1, <2>2, SMT DEF CutShort
<1>9. Sections(Drop(d, 4), Uint32(d)) = <<p, tail>>
  <2>1. P <= Len(p \o tail)
    BY <1>2, <1>4, <1>5, SizeIsNat
  <2> QED
    BY <2>1, <1>3, <1>5, Zenon DEF Sections
<1>10. Sections(Drop(tail, 4), Uint32(tail))[1] = r
       /\ Sections(Drop(tail, 4), Uint32(tail)) # <<>>
  BY <1>2, <1>4, <1>6 DEF Sections
<1>11. splitAnalyzePayload(d) = Pair(p, r)
  BY <1>8, <1>9, <1>10 DEF splitAnalyzePayload
<1> QED
  BY <1>7, <1>11 DEF d

(* Each answer is heard as what it is. *)
Decoded(answer, d) ==
  IF ParseResultMessage(d) # <<>> THEN Error(ParseResultMessage(d))
  ELSE IF answer.kind = "pair" THEN splitAnalyzePayload(d)
  ELSE Single(d)

LEMMA HearAnswer ==
  ASSUME NEW answer \in Answers
  PROVE  Decoded(answer, Body(answer)) = answer
<1>1. CASE \E t \in Text : answer = Error(t)
  BY <1>1, HearError DEF Decoded
<1>2. CASE \E p \in Proto : answer = Single(p)
  <2>1. PICK p \in Proto : answer = Single(p)
    BY <1>2
  <2>2. Body(answer) = p /\ answer.kind = "proto"
    BY <2>1, ProtoBody DEF Single
  <2> QED
    BY <2>1, <2>2, HearProto DEF Decoded
<1>3. CASE \E p, r \in Proto : answer = Pair(p, r)
  <2>1. PICK p \in Proto, r \in Proto : answer = Pair(p, r)
    BY <1>3
  <2>2. answer.kind = "pair"
    BY <2>1 DEF Pair
  <2> QED
    BY <2>1, <2>2, HearPair DEF Decoded
<1> QED
  BY <1>1, <1>2, <1>3 DEF Answers

-----------------------------------------------------------------------------
LEMMA FrameStep == FrameInv /\ [Next]_vars => FrameInv'
<1> SUFFICES ASSUME FrameInv, [Next]_vars PROVE FrameInv'
  OBVIOUS
<1>1. ASSUME NEW answer \in Answers, Pack(answer) PROVE FrameInv'
  <2>1. PICK b \in Beyond : memory' = Packed(answer) \o b
    BY <1>1 DEF Pack
  <2>2. \E rest \in Bytes : memory' = Word(Len(Body(answer))) \o Body(answer) \o rest
    BY <2>1, PackedBody, MemoryAssumption
  <2> QED
    BY <1>1, <2>2 DEF Pack, FrameInv, HeardAsSaid
<1>2. CASE Clobber
  BY <1>2 DEF Clobber, FrameInv, HeardAsSaid
<1>3. CASE Read
  <2>1. CASE ~sound
    BY <1>3, <2>1 DEF Read, FrameInv, HeardAsSaid
  <2>2. CASE sound
    <3> DEFINE body == Body(said)
    <3>1. said \in Answers /\ body \in Bytes /\ Len(body) \in Size
      BY <1>3, <2>2, PackedBody DEF Read, FrameInv, Bytes
    <3>2. PICK rest \in Bytes : memory = Word(Len(body)) \o body \o rest
      BY <1>3, <2>2 DEF Read, FrameInv
    <3> HIDE DEF body
    <3>3. memory = Word(Len(body)) \o (body \o rest)
      <4> DEFINE w == Word(Len(body))
      <4>1. w \in Bytes /\ memory = w \o body \o rest
        BY <3>1, <3>2, WordBytes, SizeIsNat
      <4> HIDE DEF w
      <4>2. w \o body \o rest = w \o (body \o rest)
        BY <4>1, <3>1, Regroup, ZenonT(60)
      <4> QED
        BY <4>1, <4>2 DEF w
    <3>4. body \o rest \in Bytes /\ Len(body \o rest) = Len(body) + Len(rest)
          /\ Len(rest) \in Nat
      BY <3>1, Concatenate DEF Bytes
    <3>5. /\ Uint32(memory) = Len(body) /\ Len(memory) = 4 + Len(body) + Len(rest)
          /\ Drop(memory, 4) = body \o rest
      <4> DEFINE rest2 == body \o rest
      <4>1. rest2 \in Bytes /\ memory = Word(Len(body)) \o rest2
        BY <3>3, <3>4
      <4> HIDE DEF rest2
      <4>2. /\ Len(memory) = 4 + Len(rest2)
            /\ Uint32(memory) = Len(body) /\ Drop(memory, 4) = rest2
        BY <3>1, <4>1, WordInFront
      <4>3. Len(body) \in Nat /\ Len(rest2) = Len(body) + Len(rest)
        BY <3>1, <3>4, SizeIsNat DEF rest2
      <4> QED
        BY <4>2, <4>3, <3>4 DEF rest2
    <3>6. Take(Drop(memory, 4), Uint32(memory)) = body
      BY <3>1, <3>5, TakeOfConcat
    <3>7. data' = body /\ stage' = "read"
      BY <1>3, <3>1, <3>4, <3>5, <3>6 DEF Read
    <3> QED
      BY <1>3, <3>1, <3>7 DEF Read, FrameInv, HeardAsSaid, body
  <2> QED
    BY <2>1, <2>2 DEF FrameInv
<1>4. CASE Interpret
  <2>1. heard' = Decoded(said, data)
    BY <1>4 DEF Interpret, Decoded
  <2>2. sound => said \in Answers /\ data = Body(said)
    BY <1>4 DEF Interpret, FrameInv
  <2>3. sound => heard' = said
    BY <2>1, <2>2, HearAnswer
  <2> QED
    BY <1>4, <2>3 DEF Interpret, FrameInv, HeardAsSaid
<1>5. CASE Release
  BY <1>5 DEF Release, FrameInv, HeardAsSaid
<1>6. CASE UNCHANGED vars
  BY <1>6 DEF vars, FrameInv, HeardAsSaid
<1> QED
  BY <1>1, <1>2, <1>3, <1>4, <1>5, <1>6 DEF Next

(* The framing loses nothing: every answer packed by bridge.cc is decoded   *)
(* by engine.go as the same answer, as long as nothing else writes over it. *)
THEOREM FramingIsFaithful == Spec => []HeardAsSaid
<1>1. Init => FrameInv
  BY DEF Init, FrameInv, HeardAsSaid
<1>2. FrameInv => HeardAsSaid
  BY DEF FrameInv
<1> QED
  BY <1>1, <1>2, FrameStep, PTL DEF Spec

-----------------------------------------------------------------------------
(* The decoder on any bytes. *)

SplitInv == memory \in Bytes /\ data \in Bytes /\ NeverPanics

LEMMA DropBytes ==
  ASSUME NEW s \in Bytes, NEW n \in Nat, n <= Len(s)
  PROVE  Drop(s, n) \in Bytes /\ Len(Drop(s, n)) = Len(s) - n
<1>1. Len(s) \in Nat /\ \A i \in n + 1 .. Len(s) : s[i] \in Byte
  BY ElementOfSeq DEF Bytes
<1>2. /\ SubSeq(s, n + 1, Len(s)) \in Seq(Byte)
      /\ Len(SubSeq(s, n + 1, Len(s)))
           = IF n + 1 <= Len(s) THEN Len(s) - (n + 1) + 1 ELSE 0
  BY <1>1, SubSeqProperties
<1> QED
  BY <1>1, <1>2 DEF Drop, Bytes

LEMMA TakeBytes ==
  ASSUME NEW s \in Bytes, NEW n \in Nat, n <= Len(s)
  PROVE  Take(s, n) \in Bytes
<1>1. Len(s) \in Nat /\ \A i \in 1 .. n : s[i] \in Byte
  BY ElementOfSeq DEF Bytes
<1>2. SubSeq(s, 1, n) \in Seq(Byte)
  BY <1>1, SubSeqProperties
<1> QED
  BY <1>2 DEF Take, Bytes

LEMMA Uint32IsNat ==
  ASSUME NEW s \in Bytes, Len(s) >= 4
  PROVE  Uint32(s) \in Nat
<1>1. s[1] \in Byte /\ s[2] \in Byte /\ s[3] \in Byte /\ s[4] \in Byte
  BY ElementOfSeq DEF Bytes
<1>2. \A b \in Byte : b \in Nat
  BY SMT DEF Byte
<1>3. s[1] \in Nat /\ s[2] \in Nat /\ s[3] \in Nat /\ s[4] \in Nat
  BY <1>1, <1>2
<1> DEFINE a == s[1]
           b == s[2]
           c == s[3]
           d == s[4]
<1>4. Uint32(s) = a + 256 * b + 65536 * c + 16777216 * d
  BY DEF Uint32
<1> HIDE DEF a, b, c, d
<1>5. a \in Nat /\ b \in Nat /\ c \in Nat /\ d \in Nat
  BY <1>3 DEF a, b, c, d
<1>6. a + 256 * b + 65536 * c + 16777216 * d \in Nat
  BY <1>5, SMT
<1> QED
  BY <1>4, <1>6, SMT

(* A section that is not cut short can be sliced off. *)
LEMMA SectionFits ==
  ASSUME NEW s \in Bytes, ~CutShort(s)
  PROVE  /\ Sections(Drop(s, 4), Uint32(s)) # <<>>
         /\ Sections(Drop(s, 4), Uint32(s))[1] \in Bytes
         /\ Sections(Drop(s, 4), Uint32(s))[2] \in Bytes
<1>1. Len(s) \in Nat
  BY DEF Bytes
<1>2. Len(s) >= 4 /\ Len(s) - 4 >= Uint32(s) /\ Uint32(s) \in Nat
  <2>1. Len(s) >= 4
    BY <1>1 DEF CutShort
  <2> DEFINE u == Uint32(s)
  <2>2. u \in Nat /\ ~(Len(s) - 4 < u)
    BY <2>1, Uint32IsNat DEF CutShort
  <2> HIDE DEF u
  <2>3. Len(s) - 4 >= u
    BY <2>2, <1>1
  <2> QED
    BY <2>1, <2>2, <2>3 DEF u
<1>3. Drop(s, 4) \in Bytes /\ Uint32(s) <= Len(Drop(s, 4))
  BY <1>1, <1>2, DropBytes
<1>4. Sections(Drop(s, 4), Uint32(s))
        = <<Take(Drop(s, 4), Uint32(s)), Drop(Drop(s, 4), Uint32(s))>>
  BY <1>3, Zenon DEF Sections
<1>5. Drop(Drop(s, 4), Uint32(s)) \in Bytes /\ Take(Drop(s, 4), Uint32(s)) \in Bytes
  BY <1>2, <1>3, DropBytes, TakeBytes
<1> QED
  BY <1>4, <1>5

LEMMA SplitNeverPanics ==
  ASSUME NEW d \in Bytes
  PROVE  splitAnalyzePayload(d) # Panic
<1> DEFINE parsed   == Sections(Drop(d, 4), Uint32(d))
           response == Sections(Drop(parsed[2], 4), Uint32(parsed[2]))
<1>1. Truncated # Panic /\ \A p, r : Pair(p, r) # Panic
  BY DEF Truncated, Panic, Other, Pair
<1>2. CASE CutShort(d)
  BY <1>1, <1>2 DEF splitAnalyzePayload
<1>3. CASE ~CutShort(d)
  <2>1. parsed # <<>> /\ parsed[2] \in Bytes
    BY <1>3, SectionFits
  <2>2. CASE CutShort(parsed[2])
    BY <1>1, <1>3, <2>1, <2>2 DEF splitAnalyzePayload
  <2>3. CASE ~CutShort(parsed[2])
    <3>1. response # <<>>
      BY <2>1, <2>3, SectionFits
    <3>2. splitAnalyzePayload(d) = Pair(parsed[1], response[1])
      BY <1>3, <2>1, <2>3, <3>1 DEF splitAnalyzePayload
    <3> QED
      BY <3>2, <1>1
  <2> QED
    BY <2>2, <2>3
<1> QED
  BY <1>2, <1>3

LEMMA SplitStep == SplitInv /\ [Next]_vars => SplitInv'
<1> SUFFICES ASSUME SplitInv, [Next]_vars PROVE SplitInv'
  OBVIOUS
<1>1. ASSUME NEW answer \in Answers, Pack(answer) PROVE SplitInv'
  <2>1. PICK b \in Beyond : memory' = Packed(answer) \o b
    BY <1>1 DEF Pack
  <2> DEFINE w == Word(Len(Body(answer)))
  <2>2. PICK rest \in Bytes : memory' = w \o Body(answer) \o rest
    BY <2>1, PackedBody, MemoryAssumption
  <2>3. w \in Bytes /\ Body(answer) \in Bytes
    BY PackedBody, WordBytes, SizeIsNat, MemoryAssumption
  <2> HIDE DEF w
  <2>4. w \o Body(answer) \in Bytes
    BY <2>3, Concatenate
  <2>5. memory' \in Bytes
    BY <2>2, <2>4, Concatenate
  <2> QED
    BY <1>1, <2>5 DEF Pack, SplitInv, NeverPanics
<1>2. CASE Clobber
  BY <1>2, MemoryAssumption DEF Clobber, SplitInv, NeverPanics
<1>3. CASE Read
  <2>1. CASE Len(memory) >= 4 /\ Uint32(memory) <= Len(memory) - 4
    <3> DEFINE u == Uint32(memory)
    <3>1. u \in Nat /\ Len(memory) \in Nat
      BY <2>1, Uint32IsNat DEF SplitInv, Bytes
    <3>2. u <= Len(memory) - 4 /\ Len(memory) >= 4
      BY <2>1
    <3>3. data' = Take(Drop(memory, 4), u) /\ UNCHANGED <<memory, heard>>
      BY <1>3, <2>1 DEF Read
    <3> HIDE DEF u
    <3>4. Drop(memory, 4) \in Bytes /\ u <= Len(Drop(memory, 4))
      BY <3>1, <3>2, DropBytes DEF SplitInv
    <3>5. data' \in Bytes
      BY <3>1, <3>3, <3>4, TakeBytes
    <3> QED
      BY <3>3, <3>5 DEF SplitInv, NeverPanics
  <2>2. CASE ~(Len(memory) >= 4 /\ Uint32(memory) <= Len(memory) - 4)
    <3>1. heard' = Unreadable /\ UNCHANGED <<memory, data>>
      BY <1>3, <2>2 DEF Read
    <3> QED
      BY <3>1 DEF SplitInv, NeverPanics, Unreadable, Panic, Other
  <2> QED
    BY <2>1, <2>2
<1>4. CASE Interpret
  <2>1. \A t : Error(t) # Panic /\ Single(t) # Panic
    BY DEF Error, Single, Panic, Other
  <2>2. splitAnalyzePayload(data) # Panic
    BY SplitNeverPanics DEF SplitInv
  <2>3. heard' # Panic /\ UNCHANGED <<memory, data>>
    BY <1>4, <2>1, <2>2 DEF Interpret
  <2> QED
    BY <2>3 DEF SplitInv, NeverPanics, Panic, Other
<1>5. CASE Release
  BY <1>5 DEF Release, SplitInv, NeverPanics, Nothing, Panic, Other, Bytes
<1>6. CASE UNCHANGED vars
  BY <1>6 DEF vars, SplitInv, NeverPanics
<1> QED
  BY <1>1, <1>2, <1>3, <1>4, <1>5, <1>6 DEF Next

(* No bytes in the block, sound or written over, make the decoder slice out *)
(* of range.                                                                *)
THEOREM DecoderNeverPanics == Spec => []NeverPanics
<1>1. Init => SplitInv
  BY DEF Init, SplitInv, NeverPanics, Nothing, Panic, Other, Bytes
<1>2. SplitInv => NeverPanics
  BY DEF SplitInv
<1> QED
  BY <1>1, <1>2, SplitStep, PTL DEF Spec

-----------------------------------------------------------------------------
(* Whatever is heard consists of bytes. *)
LEMMA SplitIsHeard ==
  ASSUME NEW d \in Bytes
  PROVE  splitAnalyzePayload(d) \in Heard
<1> DEFINE parsed   == Sections(Drop(d, 4), Uint32(d))
           response == Sections(Drop(parsed[2], 4), Uint32(parsed[2]))
<1>1. Truncated \in Heard /\ \A p, q \in Bytes : Pair(p, q) \in Heard
  BY DEF Truncated, Other, Pair, Heard, Kinds, Bytes
<1>2. CASE CutShort(d)
  BY <1>1, <1>2 DEF splitAnalyzePayload
<1>3. CASE ~CutShort(d)
  <2>1. parsed # <<>> /\ parsed[1] \in Bytes /\ parsed[2] \in Bytes
    BY <1>3, SectionFits
  <2>2. CASE CutShort(parsed[2])
    BY <1>1, <1>3, <2>1, <2>2 DEF splitAnalyzePayload
  <2>3. CASE ~CutShort(parsed[2])
    <3>1. response # <<>> /\ response[1] \in Bytes
      BY <2>1, <2>3, SectionFits
    <3>2. splitAnalyzePayload(d) = Pair(parsed[1], response[1])
      BY <1>3, <2>1, <2>3, <3>1 DEF splitAnalyzePayload
    <3> QED
      BY <3>1, <3>2, <2>1, <1>1
  <2> QED
    BY <2>2, <2>3
<1> QED
  BY <1>2, <1>3

LEMMA MessageIsBytes ==
  ASSUME NEW d \in Bytes
  PROVE  ParseResultMessage(d) \in Bytes
<1>1. CASE Len(d) > 7
  <2>1. Drop(d, 7) \in Bytes
    BY <1>1, DropBytes DEF Bytes
  <2> QED
    BY <2>1 DEF ParseResultMessage, Bytes
<1>2. CASE ~(Len(d) > 7)
  BY <1>2 DEF ParseResultMessage, Bytes
<1> QED
  BY <1>1, <1>2

(* What each helper allocates is room for what it writes and for what Go reads. *)
LEMMA BlockHolds ==
  ASSUME NEW answer \in Answers
  PROVE  /\ Allocated(answer) \in Nat /\ answer # Nothing
         /\ Len(Packed(answer)) <= Allocated(answer)
         /\ Len(Packed(answer)) \in Nat /\ Len(Body(answer)) \in Nat
         /\ 4 + Len(Body(answer)) <= Len(Packed(answer))
<1>1. CASE \E t \in Text : answer = Error(t)
  <2>1. PICK t \in Text : answer = Error(t)
    BY <1>1
  <2> DEFINE w == Word(7 + Len(t))
  <2>2. /\ Len(Body(answer)) = 7 + Len(t) /\ Len(t) \in Nat /\ t \in Bytes
        /\ Packed(answer) = w \o ErrorPrefix \o t \o <<0>>
    <3>1. \A k \in 1 .. MaxLen : k \in Nat
      BY MaxLenIsNat
    <3> QED BY <2>1, <3>1, ErrorBody
  <2>3. /\ ErrorPrefix \in Bytes /\ Len(ErrorPrefix) = 7
        /\ <<0>> \in Bytes /\ Len(<<0>>) = 1
        /\ w \in Bytes /\ Len(w) = 4
    BY <2>2, WordBytes DEF ErrorPrefix, Bytes, Byte
  <2> HIDE DEF w
  <2>4. w \o ErrorPrefix \in Bytes /\ Len(w \o ErrorPrefix) = 11
    <3>1. /\ w \o ErrorPrefix \in Bytes
          /\ Len(w \o ErrorPrefix) = Len(w) + Len(ErrorPrefix)
      BY <2>3, Concatenate, Zenon
    <3> QED BY <2>3, <3>1
  <2> DEFINE a == w \o ErrorPrefix
             b == a \o t
  <2>5. b \in Bytes /\ Len(b) = 11 + Len(t)
    <3>1. b \in Bytes /\ Len(b) = Len(a) + Len(t)
      BY <2>2, <2>4, Concatenate, Zenon
    <3> QED BY <2>4, <3>1
  <2> HIDE DEF b
  <2>6. Len(b \o <<0>>) = Len(b) + Len(<<0>>)
    BY <2>3, <2>5, Concatenate, Zenon
  <2>7. Len(Packed(answer)) = 12 + Len(t)
    BY <2>2, <2>3, <2>5, <2>6 DEF b
  <2>8. Allocated(answer) = 4 + (7 + Len(t)) + 1 /\ answer # Nothing
    BY <2>1 DEF Allocated, Error, Nothing, Other
  <2> QED BY <2>2, <2>7, <2>8
<1>2. CASE \E p \in Proto : answer = Single(p)
  <2>1. PICK p \in Proto : answer = Single(p)
    BY <1>2
  <2>2. /\ Body(answer) = p /\ p \in Bytes /\ Len(p) \in Nat
        /\ Packed(answer) = Word(Len(p)) \o p
    <3>1. \A k \in 0 .. MaxLen : k \in Nat
      BY MaxLenIsNat
    <3> QED BY <2>1, <3>1, ProtoBody
  <2>3. Len(Packed(answer)) = 4 + Len(p)
    <3>1. Word(Len(p)) \in Bytes /\ Len(Word(Len(p))) = 4
      BY <2>2, WordBytes
    <3>2. Len(Packed(answer)) = Len(Word(Len(p))) + Len(p)
      BY <2>2, <3>1, Concatenate, Zenon
    <3> QED BY <3>1, <3>2
  <2>4. Allocated(answer) = 4 + Len(p) /\ answer # Nothing
    BY <2>1 DEF Allocated, Single, Nothing, Other
  <2> QED BY <2>2, <2>3, <2>4
<1>3. CASE \E p, r \in Proto : answer = Pair(p, r)
  <2>1. PICK p \in Proto, r \in Proto : answer = Pair(p, r)
    BY <1>3
  <2>2. Len(p) \in Nat /\ Len(r) \in Nat
    <3>1. \A k \in 0 .. MaxLen : k \in Nat
      BY MaxLenIsNat
    <3> QED BY <3>1, ProtoBody
  <2>3. /\ Body(answer) \in Bytes /\ Len(Body(answer)) = 8 + Len(p) + Len(r)
        /\ Packed(answer) = Word(8 + Len(p) + Len(r)) \o Body(answer)
    BY <2>1, PairBody
  <2>4. Len(Packed(answer)) = 4 + Len(Body(answer))
    <3> DEFINE v == Word(8 + Len(p) + Len(r))
    <3>1. v \in Bytes /\ Len(v) = 4
      BY <2>2, WordBytes
    <3>2. Packed(answer) = v \o Body(answer)
      BY <2>3
    <3> HIDE DEF v
    <3>3. Len(Packed(answer)) = Len(v) + Len(Body(answer))
      BY <2>3, <3>1, <3>2, Concatenate, Zenon
    <3> QED BY <3>1, <3>3
  <2>5. Allocated(answer) = 4 + (8 + Len(p) + Len(r)) /\ answer # Nothing
    BY <2>1 DEF Allocated, Pair, Nothing, Other
  <2> QED BY <2>2, <2>3, <2>4, <2>5
<1> QED BY <1>1, <1>2, <1>3 DEF Answers

(***************************************************************************)
(* That Go reads within the block needs FrameInv: what it reads is the     *)
(* body that was packed.                                                   *)
(***************************************************************************)
Unread == stage \in {"idle", "packed"} => data = <<>>

LEMMA UnreadStep == Unread /\ [Next]_vars => Unread'
<1> SUFFICES ASSUME Unread, [Next]_vars PROVE Unread'
  OBVIOUS
<1> USE DEF Unread
<1>1. ASSUME NEW answer \in Answers, Pack(answer) PROVE Unread'
  BY <1>1 DEF Pack
<1>2. CASE Clobber
  BY <1>2 DEF Clobber
<1>3. CASE Read
  <2>1. stage' \in {"read", "done"}
    BY <1>3 DEF Read
  <2> QED BY <2>1
<1>4. CASE Interpret \/ Release
  BY <1>4 DEF Interpret, Release
<1>5. CASE UNCHANGED vars
  BY <1>5 DEF vars
<1> QED BY <1>1, <1>2, <1>3, <1>4, <1>5 DEF Next

FrameTyped == TypeOK /\ SplitInv /\ FrameInv /\ Unread

LEMMA FrameTypedStep == FrameTyped /\ [Next]_vars => FrameTyped'
<1> SUFFICES ASSUME FrameTyped, [Next]_vars PROVE TypeOK'
  BY UnreadStep, SplitStep, FrameStep DEF FrameTyped
<1> USE DEF InBlock
<1>1. memory' \in Bytes /\ data' \in Bytes
  BY SplitStep DEF FrameTyped, SplitInv
<1>2. ASSUME NEW answer \in Answers, Pack(answer) PROVE TypeOK'
  <2>1. /\ Allocated(answer) \in Nat /\ Len(Packed(answer)) \in Nat
        /\ Len(Packed(answer)) <= Allocated(answer)
        /\ Len(Body(answer)) \in Nat /\ 4 + Len(Body(answer)) <= Len(Packed(answer))
    BY BlockHolds
  <2>2. data = <<>>
    BY <1>2 DEF Pack, FrameTyped, Unread
  <2>3. InBlock'
    <3>1. said' = answer /\ block' = Allocated(answer) /\ Len(data') = 0
      BY <1>2, <2>2 DEF Pack
    <3>2. Len(Packed(said')) <= block' /\ 4 + Len(data') <= block'
      BY <2>1, <3>1
    <3> QED BY <3>2
  <2> QED
    BY <1>1, <1>2, <2>1, <2>3 DEF Pack, FrameTyped, TypeOK
<1>3. CASE Clobber
  BY <1>1, <1>3 DEF Clobber, FrameTyped, TypeOK
<1>4. CASE Read
  <2>1. Unreadable \in Heard
    BY DEF Unreadable, Other, Heard, Kinds, Bytes
  <2>2. InBlock'
    <3>1. CASE stage' = "read"
      <4>1. sound => data' = Body(said) /\ said \in Answers
        BY <1>4, <3>1, FrameStep DEF Read, FrameTyped, FrameInv
      <4>2. UNCHANGED <<said, sound, block>> /\ block \in Nat
        BY <1>4 DEF Read, FrameTyped, TypeOK
      <4>3. ASSUME said # Nothing
            PROVE  Len(Packed(said)) <= block /\ (sound => 4 + Len(data') <= block)
        <5>1. said \in Answers /\ Len(Packed(said)) <= block
          BY <4>3 DEF FrameTyped, TypeOK
        <5>2. /\ Len(Packed(said)) \in Nat /\ Len(Body(said)) \in Nat
              /\ 4 + Len(Body(said)) <= Len(Packed(said))
          BY <5>1, BlockHolds
        <5>3. 4 + Len(Body(said)) <= block
          BY <5>1, <5>2, <4>2
        <5> QED BY <5>1, <5>3, <4>1
      <4> QED
        BY <4>2, <4>3
    <3>2. CASE stage' # "read"
      BY <1>4, <3>2 DEF Read, FrameTyped, TypeOK
    <3> QED BY <3>1, <3>2
  <2> QED
    BY <1>1, <1>4, <2>1, <2>2 DEF Read, FrameTyped, TypeOK
<1>5. CASE Interpret
  <2>1. \A t \in Bytes : Error(t) \in Heard /\ Single(t) \in Heard
    BY DEF Error, Single, Heard, Kinds, Bytes
  <2>2. heard' \in Heard
    BY <1>5, <2>1, SplitIsHeard, MessageIsBytes DEF Interpret, FrameTyped, SplitInv
  <2> QED
    BY <1>1, <1>5, <2>2 DEF Interpret, FrameTyped, TypeOK
<1>6. CASE Release
  BY <1>1, <1>6 DEF Release, FrameTyped, TypeOK, Nothing, Other, Heard, Kinds, Bytes
<1>7. CASE UNCHANGED vars
  BY <1>7 DEF vars, FrameTyped, TypeOK
<1> QED
  BY <1>2, <1>3, <1>4, <1>5, <1>6, <1>7 DEF Next

(* Type correctness of the exchange: memory, data and what is heard are bytes, *)
(* and nothing is written or read behind the block that was allocated.         *)
THEOREM FrameTypeCorrect == Spec => []TypeOK
<1>1. Init => FrameTyped
  BY DEF Init, FrameTyped, TypeOK, InBlock, Unread, SplitInv, FrameInv, HeardAsSaid, NeverPanics, Nothing,
         Panic, Other, Heard, Kinds, Bytes
<1>2. FrameTyped => TypeOK
  BY DEF FrameTyped
<1> QED
  BY <1>1, <1>2, FrameTypedStep, PTL DEF Spec
=============================================================================
