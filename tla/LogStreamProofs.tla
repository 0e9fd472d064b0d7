--------------------------- MODULE LogStreamProofs ---------------------------
(***************************************************************************)
(* Proofs about the log stream, for a log and a tail of any length and     *)
(* chunks of any size.                                                     *)
(*                                                                         *)
(* The scan for the last lines is a loop, and the heart of the proof is    *)
(* its invariant: the line feeds counted are those from where the scan is  *)
(* to its end, and too few as yet (CountOK).  When it stops there are tail *)
(* of them, or the file has no more (FoundOK); that these separate the     *)
(* last tail lines depends on whether the end was taken before or behind   *)
(* the last byte (EndOK), which a write at the wrong moment may change.    *)
(*                                                                         *)
(* Nothing here needs induction over data: line feeds are counted as sets  *)
(* of offsets, which split where intervals do, minima and maxima exist     *)
(* because the naturals are well-founded, and what was sent is compared    *)
(* with the file position by position.                                     *)
(***************************************************************************)
EXTENDS LogStream, FiniteSetTheorems, SequenceTheorems, WellFoundedInduction, TLAPS

-----------------------------------------------------------------------------
(* Least and greatest elements, which Min and Max choose.                  *)

(* Every nonempty set of naturals has a least element.                     *)
LEMMA LeastElement ==
    ASSUME NEW S \in SUBSET Nat, S # {}
    PROVE  \E m \in S: \A n \in S: m <= n
<1>1. PICK m \in S: \A n \in S: <<n, m>> \notin OpToRel(<, Nat)
  BY NatLessThanWellFounded, WFMin, Zenon
<1>2. \A n \in S: ~(n < m)
  BY <1>1 DEF OpToRel
<1> QED
  BY <1>2

(* Min is it.                                                              *)
LEMMA MinIsLeast ==
    ASSUME NEW S \in SUBSET Nat, S # {}
    PROVE  Min(S) \in S /\ \A n \in S: Min(S) <= n
<1>1. \E m \in S: \A n \in S: m <= n
  BY LeastElement
<1> QED
  BY <1>1 DEF Min

(* What is the least element is the minimum.                               *)
LEMMA LeastIsMin ==
    ASSUME NEW S \in SUBSET Nat, NEW m \in S, \A n \in S: m <= n
    PROVE  m = Min(S)
<1>1. Min(S) \in S /\ Min(S) <= m
  BY MinIsLeast
<1>2. m <= Min(S) /\ m \in Nat /\ Min(S) \in Nat
  BY <1>1
<1> QED
  BY <1>1, <1>2

(* Max is the greatest element of a nonempty set of bounded naturals.      *)
LEMMA MaxIsGreatest ==
    ASSUME NEW b \in Nat, NEW S \in SUBSET (0..b), S # {}
    PROVE  Max(S) \in S /\ \A n \in S: n <= Max(S)
<1> DEFINE T == {b - n: n \in S}
<1>0. \A n \in S: n \in Nat /\ n <= b /\ b - n \in Nat
  OBVIOUS
<1>1. T \in SUBSET Nat /\ T # {}
  <2>1. PICK n \in S: TRUE
    OBVIOUS
  <2>2. b - n \in T
    BY <2>1
  <2> QED BY <1>0, <2>2
<1>2. PICK t \in T: \A n \in T: t <= n
  BY <1>1, LeastElement
<1>3. PICK m \in S: t = b - m
  BY <1>2
<1>4. \A n \in S: n <= m
  BY <1>2, <1>3
<1>5. \E k \in S: \A n \in S: k >= n
  BY <1>4
<1> QED
  BY <1>5 DEF Max

-----------------------------------------------------------------------------
(* The operators of LogStream on texts.                                    *)

(* The line feeds between two offsets: finitely many.                      *)
LEMMA LineFeedsAreFinite ==
    ASSUME NEW f, NEW a \in Nat, NEW b \in Nat
    PROVE  /\ IsFiniteSet(LineFeeds(f, a, b))
           /\ Cardinality(LineFeeds(f, a, b)) \in Nat
           /\ LineFeeds(f, a, b) \in SUBSET Nat
<1>1. LineFeeds(f, a, b) \in SUBSET (a..(b - 1)) /\ IsFiniteSet(a..(b - 1))
  BY FS_Interval DEF LineFeeds
<1>2. IsFiniteSet(LineFeeds(f, a, b))
  BY <1>1, FS_Subset
<1> QED
  BY <1>1, <1>2, FS_CardinalityType

(* Those between a and c are those up to b and those from b on.            *)
LEMMA LineFeedsSplit ==
    ASSUME NEW f, NEW a \in Nat, NEW b \in Nat, NEW c \in Nat, a <= b, b <= c
    PROVE  Cardinality(LineFeeds(f, a, c)) =
             Cardinality(LineFeeds(f, a, b)) + Cardinality(LineFeeds(f, b, c))
<1> DEFINE L == LineFeeds(f, a, b)
           R == LineFeeds(f, b, c)
<1>1. L \cup R = LineFeeds(f, a, c) /\ L \cap R = {}
  BY DEF LineFeeds
<1>2. /\ IsFiniteSet(L) /\ Cardinality(L) \in Nat
      /\ IsFiniteSet(R) /\ Cardinality(R) \in Nat
  BY LineFeedsAreFinite
<1>3. Cardinality(L \cap R) = 0
  BY <1>1, FS_EmptySet
<1> HIDE DEF L, R
<1>4. Cardinality(L \cup R) = Cardinality(L) + Cardinality(R) - Cardinality(L \cap R)
  BY <1>2, FS_Union
<1>5. Cardinality(L \cup R) = Cardinality(L) + Cardinality(R)
  BY <1>2, <1>3, <1>4
<1> QED
  BY <1>1, <1>5 DEF L, R

(* At one byte there is one, or none.                                      *)
LEMMA LineFeedsAtByte ==
    ASSUME NEW f, NEW a \in Nat
    PROVE  Cardinality(LineFeeds(f, a, a + 1)) = IF f[a + 1] = "lf" THEN 1 ELSE 0
<1>1. LineFeeds(f, a, a + 1) = IF f[a + 1] = "lf" THEN {a} ELSE {}
  BY DEF LineFeeds
<1> QED
  BY <1>1, FS_Singleton, FS_EmptySet

(* A write at the end changes no line feed before it.                      *)
LEMMA LineFeedsStay ==
    ASSUME NEW f \in Seq(Bytes), NEW x \in Bytes, NEW a \in Nat, NEW b \in Nat, b <= Len(f)
    PROVE  LineFeeds(Append(f, x), a, b) = LineFeeds(f, a, b)
BY DEF LineFeeds

(* readline stops behind the next line feed, or at the end.                *)
LEMMA LineEndIs ==
    ASSUME file \in Seq(Bytes), NEW o \in Nat, o < Len(file)
    PROVE  /\ LineEnd(o) \in (o + 1)..Len(file)
           /\ \A i \in (o + 1)..(LineEnd(o) - 1): file[i] # "lf"
<1> DEFINE lfs == LineFeeds(file, o, Len(file))
<1>1. Len(file) \in Nat
  OBVIOUS
<1>2. lfs \in SUBSET (o..(Len(file) - 1))
  BY DEF LineFeeds
<1>3. \A i \in (o + 1)..Len(file): file[i] = "lf" => i - 1 \in lfs
  <2>1. TAKE i \in (o + 1)..Len(file)
  <2>2. i - 1 \in o..(Len(file) - 1) /\ (i - 1) + 1 = i
    BY <1>1
  <2> QED
    BY <2>2 DEF LineFeeds
<1>4. LineEnd(o) = IF lfs = {} THEN Len(file) ELSE Min(lfs) + 1
  BY DEF LineEnd
<1> HIDE DEF lfs
<1>5. CASE lfs = {}
  BY <1>1, <1>3, <1>4, <1>5
<1>6. CASE lfs # {}
  <2>1. Min(lfs) \in lfs /\ \A n \in lfs: Min(lfs) <= n
    BY <1>1, <1>2, <1>6, MinIsLeast
  <2>2. Min(lfs) \in o..(Len(file) - 1) /\ LineEnd(o) = Min(lfs) + 1
    BY <1>2, <1>4, <1>6, <2>1
  <2>3. \A i \in (o + 1)..Min(lfs): file[i] # "lf"
    BY <1>1, <1>3, <2>1, <2>2
  <2> QED
    BY <1>1, <2>2, <2>3
<1> QED
  BY <1>5, <1>6

(* A part of a text, from its first byte to its last, is one.              *)
LEMMA PartOfText ==
    ASSUME NEW S, NEW s \in Seq(S), NEW a \in 1..Len(s), NEW b \in 0..Len(s)
    PROVE  /\ SubSeq(s, a, b) \in Seq(S)
           /\ Len(SubSeq(s, a, b)) = IF a <= b THEN b - a + 1 ELSE 0
           /\ \A i \in 1..(b - a + 1): SubSeq(s, a, b)[i] = s[a + i - 1]
<1>1. Len(s) \in Nat
  OBVIOUS
<1>2. a \in Int /\ b \in Int /\ \A i \in a..b: s[i] \in S
  BY <1>1
<1> QED
  BY <1>2, SubSeqProperties

(* Decoding goes byte by byte.                                             *)
LEMMA DecodeIs ==
    ASSUME NEW s \in Seq(Bytes)
    PROVE  /\ Decode(s) \in Seq(Text) /\ Len(Decode(s)) = Len(s)
           /\ \A i \in 1..Len(s):
                Decode(s)[i] =
                    IF \/ s[i] = "lead" /\ ~(i < Len(s) /\ s[i + 1] = "cont")
                       \/ s[i] = "cont" /\ ~(i > 1 /\ s[i - 1] = "lead")
                    THEN "?" ELSE s[i]
<1>1. DOMAIN s = 1..Len(s) /\ Len(s) \in Nat /\ \A i \in 1..Len(s): s[i] \in Text
  BY LenProperties DEF Text
<1>2. Decode(s) \in [1..Len(s) -> Text]
  BY <1>1 DEF Decode, Text
<1>3. Decode(s) \in Seq(Text) /\ Len(Decode(s)) = Len(s)
  BY <1>1, <1>2
<1> QED
  BY <1>1, <1>3 DEF Decode

(* rstrip removes line ends from the end of a text, all there are.         *)
LEMMA RStripIs ==
    ASSUME NEW s \in Seq(Text)
    PROVE  /\ RStrip(s) \in Seq(Text) /\ Len(RStrip(s)) <= Len(s)
           /\ \A i \in 1..Len(RStrip(s)): RStrip(s)[i] = s[i]
           /\ \A i \in (Len(RStrip(s)) + 1)..Len(s): s[i] \in End
           /\ Len(RStrip(s)) > 0 => s[Len(RStrip(s))] \notin End
<1> DEFINE kept == {i \in DOMAIN s: s[i] \notin End}
<1>1. DOMAIN s = 1..Len(s) /\ Len(s) \in Nat
  BY LenProperties
<1>2. kept \in SUBSET (1..Len(s)) /\ \A i \in 1..Len(s): i \in kept <=> s[i] \notin End
  BY <1>1
<1>3. RStrip(s) = IF kept = {} THEN <<>> ELSE SubSeq(s, 1, Max(kept))
  BY DEF RStrip
<1> HIDE DEF kept
<1>4. CASE kept = {}
  BY <1>1, <1>2, <1>3, <1>4
<1>5. CASE kept # {}
  <2>1. Max(kept) \in kept /\ \A n \in kept: n <= Max(kept)
    <3>1. kept \in SUBSET (0..Len(s))
      BY <1>1, <1>2
    <3> QED
      BY <1>1, <1>5, <3>1, MaxIsGreatest
  <2>2. Max(kept) \in 1..Len(s)
    BY <1>2, <2>1
  <2>3. /\ RStrip(s) \in Seq(Text) /\ Len(RStrip(s)) = Max(kept)
        /\ \A i \in 1..Max(kept): RStrip(s)[i] = s[i]
    <3>1. 1 \in 1..Len(s) /\ Max(kept) \in 0..Len(s) /\ 1 <= Max(kept) /\ Max(kept) - 1 + 1 = Max(kept)
      BY <1>1, <2>2
    <3>2. /\ SubSeq(s, 1, Max(kept)) \in Seq(Text)
          /\ Len(SubSeq(s, 1, Max(kept))) = Max(kept)
          /\ \A i \in 1..(Max(kept) - 1 + 1): SubSeq(s, 1, Max(kept))[i] = s[1 + i - 1]
      BY <3>1, PartOfText
    <3> QED
      BY <1>3, <1>5, <2>2, <3>2
  <2> QED
    BY <1>1, <1>2, <2>1, <2>2, <2>3
<1> QED
  BY <1>4, <1>5

(* So is what the page gets of an event.                                   *)
LEMMA DataLineIsText ==
    ASSUME NEW s \in Seq(Text)
    PROVE  DataLine(s) \in Seq(Text)
<1>1. ASSUME NEW t \in Seq(Text)
      PROVE  Strip(t) \in Seq(Text)
  <2> DEFINE kept == {i \in DOMAIN t: t[i] # "sp"}
  <2>1. kept \in SUBSET (1..Len(t)) /\ Len(t) \in Nat
    BY LenProperties
  <2>2. Strip(t) = IF kept = {} THEN <<>> ELSE SubSeq(t, Min(kept), Max(kept))
    BY DEF Strip
  <2> HIDE DEF kept
  <2>3. CASE kept = {}
    BY <2>2, <2>3
  <2>4. CASE kept # {}
    <3>1. kept \in SUBSET Nat /\ kept \in SUBSET (0..Len(t))
      BY <2>1
    <3>2. Min(kept) \in kept /\ Max(kept) \in kept
      BY <2>1, <2>4, <3>1, MinIsLeast, MaxIsGreatest
    <3>3. Min(kept) \in 1..Len(t) /\ Max(kept) \in 1..Len(t)
      BY <2>1, <3>2
    <3>4. Max(kept) \in 0..Len(t)
      BY <2>1, <3>3
    <3> QED
      BY <2>2, <2>4, <3>3, <3>4, PartOfText
  <2> QED
    BY <2>3, <2>4
<1> DEFINE crs == {i \in DOMAIN s: s[i] = "cr"}
<1>2. crs \in SUBSET (1..Len(s)) /\ Len(s) \in Nat
  BY LenProperties
<1>3. DataLine(s) = Strip(IF crs = {} THEN s ELSE SubSeq(s, 1, Min(crs) - 1))
  BY DEF DataLine
<1> HIDE DEF crs
<1>4. CASE crs = {}
  BY <1>1, <1>3, <1>4
<1>5. CASE crs # {}
  <2>1. Min(crs) \in crs
    BY <1>2, <1>5, MinIsLeast
  <2>2. Min(crs) \in 1..Len(s)
    BY <1>2, <2>1
  <2>3. 1 \in 1..Len(s) /\ Min(crs) - 1 \in 0..Len(s)
    BY <1>2, <2>2
  <2>4. SubSeq(s, 1, Min(crs) - 1) \in Seq(Text)
    BY <2>3, PartOfText
  <2> QED
    BY <1>1, <1>3, <1>5, <2>4
<1> QED
  BY <1>4, <1>5

-----------------------------------------------------------------------------
(* The inductive invariant.                                                *)
(*                                                                         *)
(* The end that the scan started from: behind the last byte that the file  *)
(* had or before it, and the latter whenever it was a line feed, unless    *)
(* the file has grown.                                                     *)
EndOK ==
    /\ scan.size > 0
    /\ \/ scan.end = scan.size - 1
       \/ scan.end = scan.size /\ (file[scan.size] = "lf" => scan.size < Len(file))

(* What the scan counts: the line feeds from pos to the end, which are too *)
(* few as yet.                                                             *)
CountOK ==
    /\ scan.pos <= scan.end /\ scan.newlines < tail
    /\ scan.newlines = Cardinality(LineFeeds(file, scan.pos, scan.end))

(* What it finds: tail line feeds to the end, with the one before start as *)
(* the first of them, or no more than fewer.                               *)
FoundOK ==
    /\ start <= scan.end
    /\ \/ start = 0 /\ Cardinality(LineFeeds(file, 0, scan.end)) < tail
       \/ /\ start > 0 /\ file[start] = "lf"
          /\ Cardinality(LineFeeds(file, start - 1, scan.end)) = tail

Replaying == at \in {"read", "check", "drain", "done"}

ScanOK ==
    /\ at \in {"new", "sized"} => scan.newlines = 0
    /\ at = "sized" => tail > 0
    /\ at = "scan" => tail > 0 /\ EndOK /\ CountOK
    /\ tail > 0 /\ Replaying =>
        \/ scan.size = 0 /\ start = 0
        \/ EndOK /\ FoundOK

SentOK ==
    /\ at \in {"new", "sized", "scan"} => sent = <<>>
    /\ Len(cuts) = Len(sent) /\ Cut(Len(sent)) = off
    /\ \A k \in 0..Len(sent): Cut(k) \in start..off
    /\ \A k \in 1..Len(sent): EventIsItsPiece(k)

(* What the agent knows of the job: an end that it has seen is the job's,  *)
(* and the stream of a job that it knows is drained only after that, when  *)
(* the output does not grow any more.                                      *)
DoneOK ==
    /\ record \in {"reused", "ended"} => job = "over"
    /\ at \in {"drain", "done"} /\ record # "untracked" => job = "over"
    /\ at = "done" /\ record # "untracked" => off = Len(file)

(* The page gets the events one after the other, and the end last.         *)
PageOK ==
    /\ \A k \in 1..Len(page): k <= Len(sent) => page[k] = DataLine(sent[k])
    /\ view # "ended" => Len(page) <= Len(sent)
    /\ view = "ended" =>
        at = "done" /\ Len(page) = Len(sent) + 1 /\ page[Len(page)] = <<>>

IInv == TypeOK /\ ScanOK /\ SentOK /\ DoneOK /\ PageOK

-----------------------------------------------------------------------------
(* It holds at the start.                                                  *)
LEMMA InitOK == Init => IInv
<1> SUFFICES ASSUME Init PROVE IInv
  OBVIOUS
<1>1. TypeOK
  BY BoundsAssumption DEF Init, TypeOK, Records
<1>2. ScanOK
  BY DEF Init, ScanOK, Replaying
<1>3. SentOK
  BY DEF Init, SentOK, Cut
<1>4. DoneOK
  BY DEF Init, DoneOK
<1>5. PageOK
  BY DEF Init, PageOK
<1> QED
  BY <1>1, <1>2, <1>3, <1>4, <1>5 DEF IInv

(* What the process does.  A write moves nothing that has been read.       *)
LEMMA WriteStep ==
    ASSUME IInv, NEW b \in Bytes, ProcessWrites(b)
    PROVE  IInv'
<1>1. /\ file' = Append(file, b) /\ Len(file) < MaxBytes /\ job = "running"
      /\ UNCHANGED <<job, record, tail, scan, start, off, at, sent, cuts, page, view>>
  BY DEF ProcessWrites, agent, relay
<1>2. file \in Seq(Bytes)
  BY DEF IInv, TypeOK
<1>3. /\ file' \in Seq(Bytes) /\ Len(file') = Len(file) + 1 /\ Len(file) \in Nat
      /\ \A i \in 1..Len(file): file'[i] = file[i]
  BY <1>1, <1>2
<1>4. TypeOK'
  BY <1>1, <1>3, BoundsAssumption DEF IInv, TypeOK
<1>5. \A p \in Nat, q \in Nat: q <= Len(file) => LineFeeds(file', p, q) = LineFeeds(file, p, q)
  BY <1>1, <1>2, LineFeedsStay
<1>6. ScanOK'
  <2>1. /\ scan.size \in 0..Len(file) /\ scan.end \in 0..Len(file)
        /\ scan.pos \in 0..Len(file) /\ start \in 0..Len(file)
    BY DEF IInv, TypeOK
  <2>2. EndOK => EndOK'
    BY <1>1, <1>3, <2>1 DEF EndOK
  <2>3. CountOK => CountOK'
    BY <1>1, <1>3, <1>5, <2>1 DEF CountOK
  <2>4. FoundOK => FoundOK'
    <3>1. CASE start = 0
      BY <1>1, <1>3, <1>5, <2>1, <3>1 DEF FoundOK
    <3>2. CASE start > 0
      <4>1. LineFeeds(file', start - 1, scan.end) = LineFeeds(file, start - 1, scan.end)
        <5>1. start - 1 \in Nat /\ scan.end \in Nat /\ scan.end <= Len(file)
          BY <1>3, <2>1, <3>2
        <5> QED
          BY <1>5, <5>1
      <4>2. file'[start] = file[start]
        BY <1>3, <2>1, <3>2
      <4> QED
        BY <1>1, <2>1, <3>2, <4>1, <4>2 DEF FoundOK
    <3> QED
      BY <2>1, <3>1, <3>2
  <2> QED
    BY <1>1, <2>2, <2>3, <2>4 DEF IInv, ScanOK, Replaying
<1>7. SentOK'
  <2>1. off \in start..Len(file) /\ start \in 0..Len(file)
    BY DEF IInv, TypeOK
  <2>2. \A k: Cut(k)' = Cut(k)
    BY <1>1 DEF Cut
  <2>3. ASSUME NEW k \in 1..Len(sent)
        PROVE  EventIsItsPiece(k)'
    <3>1. k \in 0..Len(sent) /\ k - 1 \in 0..Len(sent)
      BY DEF IInv, TypeOK
    <3>2. EventIsItsPiece(k) /\ Cut(k) \in start..off /\ Cut(k - 1) \in start..off
      BY <3>1 DEF IInv, SentOK
    <3>3. \A o \in (Cut(k - 1) + 1)..Cut(k): file'[o] = file[o]
      <4>1. TAKE o \in (Cut(k - 1) + 1)..Cut(k)
      <4>2. o \in 1..Len(file)
        BY <1>3, <2>1, <3>2
      <4> QED
        BY <1>3, <4>2
    <3>4. PICK from \in Nat, to \in Nat: from = Cut(k - 1) /\ to = Cut(k)
      BY <2>1, <3>2
    <3>5. Cut(k - 1)' = from /\ Cut(k)' = to
      BY <2>2, <3>4
    <3>6. \A o \in (from + 1)..to: Halved(o, from, to)' <=> Halved(o, from, to)
      <4>1. TAKE o \in (from + 1)..to
      <4>2. file'[o] = file[o] /\ (o # to => file'[o + 1] = file[o + 1])
        BY <3>3, <3>4
      <4>3. o # from + 1 => file'[o - 1] = file[o - 1]
        BY <3>3, <3>4
      <4> QED
        BY <4>2, <4>3 DEF Halved
    <3> QED
      BY <1>1, <3>2, <3>3, <3>4, <3>5, <3>6 DEF EventIsItsPiece
  <2> QED
    BY <1>1, <2>2, <2>3 DEF IInv, SentOK
<1>8. DoneOK'
  BY <1>1 DEF IInv, DoneOK
<1>9. PageOK'
  BY <1>1 DEF IInv, PageOK
<1> QED
  BY <1>4, <1>6, <1>7, <1>8, <1>9 DEF IInv

(* What was sent stays as it was as long as nothing is written or read.    *)
LEMMA SentStays ==
    ASSUME SentOK, UNCHANGED <<file, start, off, sent, cuts>>,
           at' \in {"new", "sized", "scan"} => sent = <<>>
    PROVE  SentOK'
<1>1. \A k: Cut(k)' = Cut(k)
  BY DEF Cut
<1>2. \A o, a, b: Halved(o, a, b)' <=> Halved(o, a, b)
  BY DEF Halved
<1>3. ASSUME NEW k, EventIsItsPiece(k)
      PROVE  EventIsItsPiece(k)'
  <2>1. PICK a, b: a = Cut(k - 1) /\ b = Cut(k)
    OBVIOUS
  <2>2. Cut(k - 1)' = a /\ Cut(k)' = b
    BY <1>1, <2>1
  <2> QED
    BY <1>2, <1>3, <2>1, <2>2 DEF EventIsItsPiece
<1>4. Cut(Len(sent))' = Cut(Len(sent))
  BY DEF Cut
<1> QED
  BY <1>1, <1>3, <1>4 DEF SentOK

(* An exit, and what becomes of the pid, changes nothing that the agent    *)
(* has read or sent.                                                       *)
LEMMA JobStep ==
    ASSUME IInv, ProcessExits \/ PidChangesHands
    PROVE  IInv'
<1>1. UNCHANGED <<file, tail, scan, start, off, at, sent, cuts, page, view>>
  BY DEF ProcessExits, PidChangesHands, agent, relay
<1>2. /\ job' = "over" /\ record' \in Records
      /\ record' = "untracked" <=> record = "untracked"
  BY DEF ProcessExits, PidChangesHands, Records, IInv, TypeOK
<1>3. TypeOK'
  BY <1>1, <1>2 DEF IInv, TypeOK
<1>4. ScanOK'
  BY <1>1 DEF IInv, ScanOK, EndOK, CountOK, FoundOK, Replaying
<1>5. SentOK'
  BY <1>1, SentStays DEF IInv, SentOK
<1>6. DoneOK'
  BY <1>1, <1>2 DEF IInv, DoneOK
<1>7. PageOK'
  BY <1>1 DEF IInv, PageOK
<1> QED
  BY <1>3, <1>4, <1>5, <1>6, <1>7 DEF IInv

(* Nor does the end of the agent change anything but where it is: a page   *)
(* that has seen the end of the stream does not look any more.             *)
LEMMA GoneStep ==
    ASSUME IInv, AgentGone
    PROVE  IInv'
<1>1. /\ view = "open" /\ at' = "gone"
      /\ UNCHANGED <<file, job, record, tail, scan, start, off, sent, cuts, page, view>>
  BY DEF AgentGone, process, relay
<1>2. TypeOK'
  BY <1>1 DEF IInv, TypeOK
<1>3. ScanOK'
  BY <1>1 DEF IInv, ScanOK, Replaying
<1>4. SentOK'
  BY <1>1, SentStays DEF IInv, SentOK
<1>5. DoneOK'
  BY <1>1 DEF IInv, DoneOK
<1>6. PageOK'
  BY <1>1 DEF IInv, PageOK
<1> QED
  BY <1>2, <1>3, <1>4, <1>5, <1>6 DEF IInv

-----------------------------------------------------------------------------
(* The scan.  A step of it leaves the rest alone, and as long as nothing   *)
(* is replayed nothing has been sent.                                      *)
LEMMA ScanStep ==
    ASSUME IInv, at \in {"new", "sized", "scan"}, at' # "drain", at' # "done",
           UNCHANGED <<file, job, record, tail, sent, cuts, page, view>>,
           start' = off', TypeOK', ScanOK'
    PROVE  IInv'
<1>1. sent = <<>> /\ Len(cuts) = Len(sent)
  BY DEF IInv, SentOK
<1>2. Len(sent) = 0 /\ start' \in Nat
  BY <1>1 DEF TypeOK
<1>3. SentOK'
  <2>1. sent' = <<>> /\ Len(sent)' = 0 /\ Len(cuts)' = Len(sent)'
    BY <1>1, <1>2
  <2>2. Cut(0)' = start'
    BY DEF Cut
  <2>3. \A k \in 0..0: k = 0
    OBVIOUS
  <2>4. start' \in start'..off'
    BY <1>2
  <2>5. /\ Cut(Len(sent))' = off'
        /\ \A k \in (0..Len(sent))': Cut(k)' \in (start..off)'
        /\ \A k \in (1..Len(sent))': EventIsItsPiece(k)'
    BY <2>1, <2>2, <2>3, <2>4 DEF Cut
  <2> QED
    BY <2>1, <2>5 DEF SentOK
<1>4. DoneOK'
  BY DEF IInv, DoneOK
<1>5. PageOK'
  BY DEF IInv, PageOK
<1> QED
  BY <1>3, <1>4, <1>5 DEF IInv

(* tail_log opens the file.                                                *)
LEMMA TailLogStep ==
    ASSUME IInv, TailLog
    PROVE  IInv'
<1>1. /\ at = "new"
      /\ UNCHANGED <<file, job, record, tail, sent, cuts, page, view>>
  BY DEF TailLog, process, relay
<1>2. TypeOK /\ ScanOK /\ Len(file) \in Nat
  BY DEF IInv, TypeOK
<1>3. ASSUME tail <= 0, NEW o \in 0..Len(file), ReplaysFrom(o)
      PROVE  IInv'
  <2>1. start' = o /\ off' = o /\ at' = "read" /\ scan' = scan
    BY <1>3 DEF ReplaysFrom
  <2>2. TypeOK'
    BY <1>1, <1>2, <2>1 DEF TypeOK
  <2>3. ScanOK'
    BY <1>1, <1>2, <1>3, <2>1 DEF ScanOK, TypeOK
  <2> QED
    BY <1>1, <2>1, <2>2, <2>3, ScanStep
<1>4. CASE tail = 0 /\ ReplaysFrom(Len(file))
  BY <1>2, <1>3, <1>4
<1>5. CASE tail = -1 /\ ReplaysFrom(0)
  BY <1>2, <1>3, <1>5
<1>6. CASE /\ tail > 0 /\ at' = "sized"
           /\ scan' = [scan EXCEPT !.size = Len(file)]
           /\ UNCHANGED <<start, off>>
  <2>1. TypeOK'
    <3>1. Len(file) \in 0..Len(file)
      BY <1>2
    <3>2. scan' \in [size: 0..Len(file), end: 0..Len(file), pos: 0..Len(file), newlines: 0..MaxTail]
      BY <1>2, <1>6, <3>1 DEF TypeOK
    <3> QED
      BY <1>1, <1>2, <1>6, <3>2 DEF TypeOK
  <2>2. ScanOK'
    BY <1>1, <1>2, <1>6 DEF ScanOK, TypeOK, Replaying
  <2>3. start' = off'
    BY <1>1, <1>2, <1>6 DEF IInv, SentOK, Cut, TypeOK
  <2> QED
    BY <1>1, <1>6, <2>1, <2>2, <2>3, ScanStep
<1> QED
  BY <1>4, <1>5, <1>6 DEF TailLog

(* The end of the last line is found, or there is no line.                 *)
LEMMA ScanStartsStep ==
    ASSUME IInv, ScanStarts
    PROVE  IInv'
<1>1. /\ at = "sized" /\ tail > 0 /\ scan.newlines = 0
      /\ UNCHANGED <<file, job, record, tail, sent, cuts, page, view>>
  BY DEF ScanStarts, process, relay, IInv, ScanOK
<1>2. TypeOK /\ ScanOK /\ Len(file) \in Nat
  BY DEF IInv, TypeOK
<1>3. CASE scan.size = 0 /\ ReplaysFrom(0)
  <2>1. start' = 0 /\ off' = 0 /\ at' = "read" /\ scan' = scan
    BY <1>3 DEF ReplaysFrom
  <2>2. TypeOK'
    BY <1>1, <1>2, <2>1 DEF TypeOK
  <2>3. ScanOK'
    BY <1>1, <1>3, <2>1 DEF ScanOK
  <2> QED
    BY <1>1, <2>1, <2>2, <2>3, ScanStep
<1>4. CASE /\ scan.size > 0 /\ at' = "scan"
           /\ scan' = [scan EXCEPT !.end = EffectiveEnd, !.pos = EffectiveEnd]
           /\ UNCHANGED <<start, off>>
  <2>1. scan.size \in 1..Len(file) /\ Last(file) = file[Len(file)]
    BY <1>2, <1>4 DEF TypeOK, Last
  <2>2. \/ EffectiveEnd = scan.size - 1
        \/ EffectiveEnd = scan.size /\ file[Len(file)] # "lf"
    BY <2>1 DEF EffectiveEnd
  <2>3. EffectiveEnd \in 0..Len(file)
    BY <2>1, <2>2
  <2>4. /\ scan'.size = scan.size /\ scan'.end = EffectiveEnd
        /\ scan'.pos = EffectiveEnd /\ scan'.newlines = 0
    BY <1>1, <1>2, <1>4 DEF TypeOK
  <2>5. TypeOK'
    BY <1>1, <1>2, <1>4, <2>3 DEF TypeOK
  <2>6. EndOK'
    BY <1>1, <2>1, <2>2, <2>4 DEF EndOK
  <2>7. CountOK'
    <3>1. LineFeeds(file, EffectiveEnd, EffectiveEnd) = {}
      BY <2>3 DEF LineFeeds
    <3>2. Cardinality(LineFeeds(file', scan'.pos, scan'.end)) = 0
      BY <1>1, <2>4, <3>1, FS_EmptySet
    <3> QED
      BY <1>1, <2>3, <2>4, <3>2 DEF CountOK
  <2>8. ScanOK'
    BY <1>1, <1>4, <2>6, <2>7 DEF ScanOK, Replaying
  <2>9. start' = off'
    BY <1>1, <1>2, <1>4 DEF IInv, SentOK, Cut, TypeOK
  <2> QED
    BY <1>1, <1>4, <2>5, <2>8, <2>9, ScanStep
<1> QED
  BY <1>3, <1>4 DEF ScanStarts

(* A chunk is read: the scan goes on with more line feeds counted, or      *)
(* stops behind one from which there are tail to the end.                  *)
LEMMA ScanChunkStep ==
    ASSUME IInv, ScanChunk
    PROVE  IInv'
<1> DEFINE from  == IF scan.pos > Chunk THEN scan.pos - Chunk ELSE 0
           found == LineFeeds(file, from, scan.pos)
           count == scan.newlines + Cardinality(found)
<1>1. /\ at = "scan" /\ scan.pos > 0 /\ tail > 0 /\ EndOK /\ CountOK
      /\ UNCHANGED <<file, job, record, tail, sent, cuts, page, view>>
  BY DEF ScanChunk, process, relay, IInv, ScanOK
<1>2. TypeOK /\ Len(file) \in Nat
  BY DEF IInv, TypeOK
<1>3. /\ scan.end \in 0..Len(file) /\ scan.pos \in 1..scan.end /\ scan.newlines \in Nat
      /\ tail \in Nat /\ scan.end \in Nat /\ scan.pos \in Nat
  BY <1>1, <1>2 DEF TypeOK, CountOK
<1>4. from \in 0..scan.pos /\ from \in Nat
  BY <1>3, BoundsAssumption
<1>5. Cardinality(found) \in Nat
  BY <1>3, <1>4, LineFeedsAreFinite
<1>6. ASSUME NEW o \in found,
             scan.newlines + Cardinality(LineFeeds(file, o, scan.pos)) = tail,
             ReplaysFrom(o + 1)
      PROVE  IInv'
  <2>1. start' = o + 1 /\ off' = o + 1 /\ at' = "read" /\ scan' = scan
    BY <1>6 DEF ReplaysFrom
  <2>2. o \in from..(scan.pos - 1) /\ file[o + 1] = "lf"
    BY DEF LineFeeds
  <2>3. o \in Nat /\ o + 1 \in 0..Len(file) /\ o + 1 <= scan.end /\ o <= scan.pos
    BY <1>2, <1>3, <1>4, <2>2
  <2>4. TypeOK'
    BY <1>1, <1>2, <2>1, <2>3 DEF TypeOK
  <2>5. Cardinality(LineFeeds(file, o, scan.end)) = tail
    <3>1. Cardinality(LineFeeds(file, o, scan.end)) =
            Cardinality(LineFeeds(file, o, scan.pos)) + Cardinality(LineFeeds(file, scan.pos, scan.end))
      BY <1>3, <2>3, LineFeedsSplit
    <3>2. Cardinality(LineFeeds(file, o, scan.pos)) \in Nat
      BY <1>3, <2>3, LineFeedsAreFinite
    <3> QED
      BY <1>1, <1>3, <1>6, <3>1, <3>2 DEF CountOK
  <2>6. (o + 1) - 1 = o
    BY <2>3
  <2>7. FoundOK' /\ EndOK'
    BY <1>1, <2>1, <2>2, <2>3, <2>5, <2>6 DEF FoundOK, EndOK
  <2>8. ScanOK'
    BY <2>1, <2>7 DEF ScanOK
  <2> QED
    BY <1>1, <2>1, <2>4, <2>8, ScanStep
<1>7. ASSUME ~Enough(count),
             scan' = [scan EXCEPT !.pos = from, !.newlines = count],
             UNCHANGED <<start, off, at>>
      PROVE  IInv'
  <2>1. count < tail /\ count \in Nat
    BY <1>3, <1>5, <1>7 DEF Enough
  <2>2. /\ scan'.size = scan.size /\ scan'.end = scan.end
        /\ scan'.pos = from /\ scan'.newlines = count
    BY <1>2, <1>7 DEF TypeOK
  <2>3. TypeOK'
    <3> HIDE DEF from, count
    <3>0. tail <= MaxTail /\ MaxTail \in Nat
      BY <1>2, BoundsAssumption DEF TypeOK
    <3>1. from \in 0..Len(file) /\ count \in 0..MaxTail
      BY <1>2, <1>3, <1>4, <2>1, <3>0
    <3>2. scan' \in [size: 0..Len(file), end: 0..Len(file), pos: 0..Len(file), newlines: 0..MaxTail]
      BY <1>2, <1>7, <3>1 DEF TypeOK
    <3> QED
      BY <1>1, <1>2, <1>7, <3>2 DEF TypeOK
  <2>4. CountOK'
    <3>1. Cardinality(LineFeeds(file, from, scan.end)) =
            Cardinality(found) + Cardinality(LineFeeds(file, scan.pos, scan.end))
      BY <1>3, <1>4, LineFeedsSplit
    <3>2. count = Cardinality(LineFeeds(file, from, scan.end))
      BY <1>1, <1>3, <1>5, <3>1 DEF CountOK
    <3> HIDE DEF from, count
    <3> QED
      BY <1>1, <1>3, <1>4, <2>1, <2>2, <3>2 DEF CountOK
  <2>5. EndOK'
    BY <1>1, <2>2 DEF EndOK
  <2>6. ScanOK'
    BY <1>1, <1>7, <2>4, <2>5 DEF ScanOK, Replaying
  <2>7. start' = off'
    BY <1>1, <1>2, <1>7 DEF IInv, SentOK, Cut, TypeOK
  <2> QED
    BY <1>1, <1>7, <2>3, <2>6, <2>7, ScanStep
<1>8. \/ \E o \in found:
          /\ scan.newlines + Cardinality(LineFeeds(file, o, scan.pos)) = tail
          /\ ReplaysFrom(o + 1)
      \/ /\ ~Enough(count)
         /\ scan' = [scan EXCEPT !.pos = from, !.newlines = count]
         /\ UNCHANGED <<start, off, at>>
  BY DEF ScanChunk
<1> QED
  BY <1>6, <1>7, <1>8

(* The start of the file is reached: it has fewer lines.                   *)
LEMMA ScanEndsStep ==
    ASSUME IInv, ScanEnds
    PROVE  IInv'
<1>1. /\ at = "scan" /\ scan.pos = 0 /\ tail > 0 /\ EndOK /\ CountOK
      /\ start' = 0 /\ off' = 0 /\ at' = "read" /\ scan' = scan
      /\ UNCHANGED <<file, job, record, tail, sent, cuts, page, view>>
  BY DEF ScanEnds, ReplaysFrom, process, relay, IInv, ScanOK
<1>2. TypeOK /\ Len(file) \in Nat
  BY DEF IInv, TypeOK
<1>3. TypeOK'
  BY <1>1, <1>2 DEF TypeOK
<1>4. FoundOK' /\ EndOK'
  BY <1>1, <1>2 DEF FoundOK, CountOK, EndOK, TypeOK
<1>5. ScanOK'
  BY <1>1, <1>4 DEF ScanOK
<1> QED
  BY <1>1, <1>3, <1>5, ScanStep

-----------------------------------------------------------------------------
(* The reading.  An event that is sent is the piece from where the one     *)
(* before ended to the end of the line, or of the file.                    *)
LEMMA YieldsStep ==
    ASSUME IInv, at \in {"read", "drain"}, Yields,
           UNCHANGED <<file, job, record, tail, scan, start, page, view>>
    PROVE  IInv'
<1> DEFINE to == LineEnd(off)
           line == SubSeq(file, off + 1, to)
           text == Decode(line)
           event == RStrip(text)
<1>1. /\ off < Len(file) /\ off' = to /\ at' = "read"
      /\ sent' = Append(sent, event) /\ cuts' = Append(cuts, to)
  BY DEF Yields
<1>2. TypeOK /\ ScanOK /\ SentOK /\ DoneOK /\ PageOK
  BY DEF IInv
<1>3. /\ file \in Seq(Bytes) /\ Len(file) \in Nat
      /\ off \in Nat /\ start \in 0..off
      /\ sent \in Seq(Seq(Text)) /\ cuts \in Seq(Nat) /\ Len(cuts) = Len(sent)
  BY <1>2 DEF TypeOK, SentOK
<1>4. to \in (off + 1)..Len(file) /\ \A i \in (off + 1)..(to - 1): file[i] # "lf"
  BY <1>1, <1>3, LineEndIs
<1>5. /\ line \in Seq(Bytes) /\ Len(line) = to - off
      /\ \A i \in 1..(to - off): line[i] = file[off + i]
  <2>1. off + 1 \in 1..Len(file) /\ to \in 0..Len(file)
    BY <1>1, <1>3, <1>4
  <2> HIDE DEF to
  <2>2. /\ line \in Seq(Bytes)
        /\ Len(line) = IF off + 1 <= to THEN to - (off + 1) + 1 ELSE 0
        /\ \A i \in 1..(to - (off + 1) + 1): line[i] = file[(off + 1) + i - 1]
    BY <1>3, <2>1, PartOfText
  <2>3. off + 1 <= to /\ to - (off + 1) + 1 = to - off
        /\ \A i \in Int: (off + 1) + i - 1 = off + i
    BY <1>3, <1>4
  <2> HIDE DEF line
  <2>4. ASSUME NEW i \in 1..(to - off)
        PROVE  line[i] = file[off + i]
    BY <1>3, <1>4, <2>2, <2>3
  <2> QED
    BY <2>2, <2>3, <2>4
<1>a. /\ text \in Seq(Text) /\ Len(text) = Len(line)
      /\ \A i \in 1..Len(line):
           text[i] = IF \/ line[i] = "lead" /\ ~(i < Len(line) /\ line[i + 1] = "cont")
                        \/ line[i] = "cont" /\ ~(i > 1 /\ line[i - 1] = "lead")
                     THEN "?" ELSE line[i]
  BY <1>5, DecodeIs
<1>6. /\ event \in Seq(Text) /\ Len(event) <= Len(text)
      /\ \A i \in 1..Len(event): event[i] = text[i]
      /\ \A i \in (Len(event) + 1)..Len(text): text[i] \in End
      /\ Len(event) > 0 => text[Len(event)] \notin End
  BY <1>a, RStripIs
<1> HIDE DEF to, line, text, event
<1>0. PICK n \in Nat: n = Len(sent)
  BY <1>3
<1>7. TypeOK'
  BY <1>1, <1>2, <1>3, <1>4, <1>6 DEF TypeOK
<1>8. ScanOK'
  BY <1>1, <1>2 DEF ScanOK, EndOK, FoundOK, Replaying
<1>9. SentOK'
  <2>1. /\ Len(sent') = n + 1 /\ Len(cuts') = n + 1
        /\ sent'[n + 1] = event /\ cuts'[n + 1] = to
        /\ \A k \in 1..n: sent'[k] = sent[k] /\ cuts'[k] = cuts[k]
    BY <1>1, <1>3, <1>0
  <2>2. /\ Cut(n + 1)' = to /\ Cut(n) = off
        /\ \A k \in 0..n: Cut(k)' = Cut(k)
    <3>1. Cut(n + 1)' = to
      BY <1>3, <1>0, <2>1 DEF Cut
    <3>2. ASSUME NEW k \in 0..n
          PROVE  Cut(k)' = Cut(k)
      <4>1. k = 0 \/ k \in 1..n
        BY <1>3, <1>0
      <4> QED
        BY <2>1, <4>1 DEF Cut
    <3> QED
      BY <1>2, <1>0, <3>1, <3>2 DEF SentOK
  <2>3. ASSUME NEW k \in 0..(n + 1)
        PROVE  Cut(k)' \in start'..off'
    <3>1. CASE k = n + 1
      BY <1>1, <1>3, <1>0, <1>4, <2>2, <3>1
    <3>2. CASE k \in 0..n
      <4>1. Cut(k) \in start..off
        BY <1>2, <1>0, <3>2 DEF SentOK
      <4>2. Cut(k)' = Cut(k)
        BY <2>2, <3>2
      <4> QED
        BY <1>1, <1>3, <1>0, <1>4, <4>1, <4>2
    <3> QED
      BY <1>3, <1>0, <3>1, <3>2
  <2>4. ASSUME NEW k \in 1..n
        PROVE  EventIsItsPiece(k)'
    <3>1. k \in 0..n /\ k - 1 \in 0..n
      BY <1>3, <1>0
    <3>2. EventIsItsPiece(k)
      BY <1>2, <1>0 DEF SentOK
    <3>3. Cut(k)' = Cut(k) /\ Cut(k - 1)' = Cut(k - 1) /\ sent'[k] = sent[k]
      BY <2>1, <2>2, <3>1
    <3>4. PICK a, b: a = Cut(k - 1) /\ b = Cut(k)
      OBVIOUS
    <3>5. Cut(k - 1)' = a /\ Cut(k)' = b
      BY <3>3, <3>4
    <3>6. \A o: Halved(o, a, b)' <=> Halved(o, a, b)
      BY DEF Halved
    <3> QED
      BY <3>2, <3>3, <3>4, <3>5, <3>6 DEF EventIsItsPiece
  <2>5. EventIsItsPiece(n + 1)'
    <3>1. (n + 1) - 1 = n /\ Cut(n)' = off
      <4>1. n \in 0..n
        BY <1>3, <1>0
      <4> QED
        BY <1>3, <1>0, <2>2, <4>1
    <3>2. off < to /\ Len(event) <= to - off
      BY <1>3, <1>0, <1>4, <1>5, <1>a, <1>6
    <3>3. ASSUME NEW o \in (off + 1)..to
          PROVE  text[o - off] = IF Halved(o, off, to) THEN "?" ELSE file[o]
      <4>1. PICK i \in 1..(to - off): i = o - off /\ off + i = o
        BY <1>3, <1>4
      <4>2. line[i] = file[o] /\ (i > 1 => line[i - 1] = file[o - 1])
        BY <1>3, <1>4, <1>5, <4>1
      <4>3. i < to - off => line[i + 1] = file[o + 1]
        BY <1>3, <1>4, <1>5, <4>1
      <4>4. (i < to - off <=> o # to) /\ (i > 1 <=> o # off + 1)
        BY <1>3, <1>4, <4>1
      <4> QED
        BY <1>5, <1>a, <4>1, <4>2, <4>3, <4>4 DEF Halved
    <3>4. ASSUME NEW o \in (off + 1)..to
          PROVE  IF o - off <= Len(event)
                 THEN /\ file[o] # "lf"
                      /\ event[o - off] = IF Halved(o, off, to) THEN "?" ELSE file[o]
                 ELSE file[o] \in End
      <4>1. PICK i \in 1..(to - off): i = o - off
        BY <1>3, <1>4
      <4>2. CASE i <= Len(event)
        <5>1. event[i] = text[i]
          BY <1>6, <4>1, <4>2
        <5>2. ASSUME file[o] = "lf"
              PROVE  FALSE
          <6>1. o = to
            BY <1>3, <1>4, <5>2
          <6>2. i = Len(event) /\ i > 0
            <7>1. i = to - off /\ Len(text) = to - off /\ to - off \in Nat /\ to - off > 0
              BY <1>3, <1>4, <1>5, <1>a, <4>1, <6>1
            <7>2. Len(event) \in Nat /\ Len(event) <= Len(text)
              BY <1>6
            <7> QED
              BY <4>2, <7>1, <7>2
          <6>3. text[i] = "lf"
            BY <3>3, <4>1, <5>2 DEF Halved
          <6> QED
            BY <1>6, <6>2, <6>3 DEF End
        <5> QED
          BY <3>3, <4>1, <4>2, <5>1, <5>2
      <4>3. CASE ~(i <= Len(event))
        <5>1. text[i] \in End
          BY <1>3, <1>4, <1>5, <1>a, <1>6, <4>1, <4>3
        <5> QED
          BY <3>3, <4>1, <4>3, <5>1 DEF End
      <4> QED
        BY <4>2, <4>3
    <3>5. PICK a, b: a = off /\ b = to
      OBVIOUS
    <3>6. Cut(n)' = a /\ Cut(n + 1)' = b /\ sent'[n + 1] = event
      BY <2>1, <2>2, <3>1, <3>5
    <3>7. \A o: Halved(o, a, b)' <=> Halved(o, a, b)
      BY DEF Halved
    <3>8. /\ a < b /\ Len(event) <= b - a
          /\ \A o \in (a + 1)..b:
               IF o - a <= Len(event)
               THEN /\ file[o] # "lf"
                    /\ event[o - a] = IF Halved(o, a, b)' THEN "?" ELSE file[o]
               ELSE file[o] \in End
      BY <3>2, <3>4, <3>5, <3>7
    <3> QED
      BY <3>1, <3>6, <3>8 DEF EventIsItsPiece
  <2>6. \A k \in 1..(n + 1): k \in 1..n \/ k = n + 1
    BY <1>3, <1>0
  <2> QED
    BY <1>1, <1>2, <1>0, <2>1, <2>2, <2>3, <2>4, <2>5, <2>6 DEF SentOK
<1>10. DoneOK'
  BY <1>1, <1>2 DEF DoneOK
<1>11. PageOK'
  <2>1. view # "ended" /\ Len(page) <= Len(sent) /\ Len(page) \in Nat
    BY <1>2 DEF PageOK, TypeOK
  <2>2. /\ Len(sent') = Len(sent) + 1 /\ Len(sent) \in Nat
        /\ \A k \in 1..Len(sent): sent'[k] = sent[k]
    BY <1>1, <1>3
  <2>3. \A k \in 1..Len(page): k \in 1..Len(sent) /\ sent'[k] = sent[k] /\ page[k] = DataLine(sent[k])
    BY <1>2, <2>1, <2>2 DEF PageOK
  <2> QED
    BY <2>1, <2>2, <2>3 DEF PageOK
<1> QED
  BY <1>7, <1>8, <1>9, <1>10, <1>11 DEF IInv

(* The steps that send nothing.                                            *)
LEMMA IdleStep ==
    ASSUME IInv, at \in {"read", "check", "drain"}, at' \in {"read", "check", "drain", "done"},
           record' \in Records, DoneOK',
           UNCHANGED <<file, job, tail, scan, start, off, sent, cuts, page, view>>
    PROVE  IInv'
<1>1. TypeOK'
  BY DEF IInv, TypeOK
<1>2. ScanOK'
  BY DEF IInv, ScanOK, EndOK, FoundOK, Replaying
<1>3. SentOK'
  BY SentStays DEF IInv, SentOK
<1>4. PageOK'
  BY DEF IInv, PageOK
<1> QED
  BY <1>1, <1>2, <1>3, <1>4 DEF IInv

(* A read.                                                                 *)
LEMMA ReadLineStep ==
    ASSUME IInv, ReadLine
    PROVE  IInv'
<1>1. at = "read" /\ UNCHANGED <<file, job, record, tail, scan, start, page, view>>
  BY DEF ReadLine, process, relay
<1>2. CASE Yields
  BY <1>1, <1>2, YieldsStep
<1>3. CASE at' = "check" /\ UNCHANGED <<off, sent, cuts>>
  <2>1. record' \in Records /\ DoneOK'
    BY <1>1, <1>3 DEF IInv, TypeOK, DoneOK
  <2> QED
    BY <1>1, <1>3, <2>1, IdleStep
<1> QED
  BY <1>2, <1>3 DEF ReadLine

(* The question whether the job is over: if the answer is yes, it is, or   *)
(* the agent does not know it.                                             *)
LEMMA PollsStep ==
    ASSUME IInv, Polls
    PROVE  IInv'
<1>1. /\ at = "check" /\ at' = IF IsDone THEN "drain" ELSE "read"
      /\ record' = Polled
      /\ UNCHANGED <<file, job, tail, scan, start, off, sent, cuts, page, view>>
  BY DEF Polls, relay
<1>2. record' \in Records
  BY <1>1 DEF Polled, Records, IInv, TypeOK
<1>3. DoneOK'
  BY <1>1 DEF Polled, IsDone, IInv, DoneOK, TypeOK, Records
<1> QED
  BY <1>1, <1>2, <1>3, IdleStep

(* The last read: the job is over, so what is not there never will be.     *)
LEMMA DrainsStep ==
    ASSUME IInv, Drains
    PROVE  IInv'
<1>1. at = "drain" /\ UNCHANGED <<file, job, record, tail, scan, start, page, view>>
  BY DEF Drains, process, relay
<1>2. CASE Yields
  BY <1>1, <1>2, YieldsStep
<1>3. CASE off = Len(file) /\ at' = "done" /\ UNCHANGED <<off, sent, cuts>>
  <2>1. record' \in Records /\ DoneOK'
    BY <1>1, <1>3 DEF IInv, TypeOK, DoneOK
  <2> QED
    BY <1>1, <1>3, <2>1, IdleStep
<1> QED
  BY <1>2, <1>3 DEF Drains

-----------------------------------------------------------------------------
(* The relay.  It leaves the agent alone.                                  *)
LEMMA RelayStepOK ==
    ASSUME IInv, UNCHANGED <<file, job, record, tail, scan, start, off, at, sent, cuts>>,
           page' \in Seq(Seq(Text)), view' \in {"open", "ended", "failed"}, PageOK'
    PROVE  IInv'
<1>1. TypeOK'
  BY DEF IInv, TypeOK
<1>2. ScanOK'
  BY DEF IInv, ScanOK, EndOK, CountOK, FoundOK, Replaying
<1>3. SentOK'
  BY SentStays DEF IInv, SentOK
<1>4. DoneOK'
  BY DEF IInv, DoneOK
<1> QED
  BY <1>1, <1>2, <1>3, <1>4 DEF IInv

(* The next event reaches the page.                                        *)
LEMMA RelaysStep ==
    ASSUME IInv, Relays
    PROVE  IInv'
<1> DEFINE next == sent[Len(page) + 1]
<1>1. /\ view = "open" /\ view' = view /\ Len(page) < Len(sent)
      /\ page' = Append(page, DataLine(next))
      /\ UNCHANGED <<file, job, record, tail, scan, start, off, at, sent, cuts>>
  BY DEF Relays, process, agent
<1>2. /\ page \in Seq(Seq(Text)) /\ sent \in Seq(Seq(Text))
      /\ Len(page) \in Nat /\ Len(sent) \in Nat
  BY DEF IInv, TypeOK
<1>3. next \in Seq(Text)
  BY <1>1, <1>2
<1>4. DataLine(next) \in Seq(Text)
  BY <1>3, DataLineIsText
<1>5. /\ page' \in Seq(Seq(Text)) /\ Len(page') = Len(page) + 1
      /\ page'[Len(page) + 1] = DataLine(sent[Len(page) + 1])
      /\ \A k \in 1..Len(page): page'[k] = page[k]
  BY <1>1, <1>2, <1>4
<1>6. PageOK'
  <2>1. \A k \in 1..(Len(page) + 1): k \in 1..Len(page) \/ k = Len(page) + 1
    BY <1>2
  <2> QED
    BY <1>1, <1>2, <1>5, <2>1 DEF IInv, PageOK
<1> QED
  BY <1>1, <1>5, <1>6, RelayStepOK

(* The stream ends at the page when all events are there.                  *)
LEMMA RelayEndsStep ==
    ASSUME IInv, RelayEnds
    PROVE  IInv'
<1>1. /\ view = "open" /\ view' = "ended" /\ at = "done" /\ Len(page) = Len(sent)
      /\ page' = Append(page, <<>>)
      /\ UNCHANGED <<file, job, record, tail, scan, start, off, at, sent, cuts>>
  BY DEF RelayEnds, process, agent
<1>2. page \in Seq(Seq(Text)) /\ Len(page) \in Nat
  BY DEF IInv, TypeOK
<1>3. /\ page' \in Seq(Seq(Text)) /\ Len(page') = Len(page) + 1
      /\ page'[Len(page) + 1] = <<>>
      /\ \A k \in 1..Len(page): page'[k] = page[k]
  BY <1>1, <1>2
<1>4. PageOK'
  BY <1>1, <1>2, <1>3 DEF IInv, PageOK
<1> QED
  BY <1>1, <1>3, <1>4, RelayStepOK

(* Or it fails.                                                            *)
LEMMA RelayFailsStep ==
    ASSUME IInv, RelayFails
    PROVE  IInv'
<1>1. /\ view = "open" /\ view' = "failed" /\ page' = page
      /\ UNCHANGED <<file, job, record, tail, scan, start, off, at, sent, cuts>>
  BY DEF RelayFails, process, agent
<1>2. PageOK'
  BY <1>1 DEF IInv, PageOK
<1>3. page \in Seq(Seq(Text))
  BY DEF IInv, TypeOK
<1> QED
  BY <1>1, <1>2, <1>3, RelayStepOK

-----------------------------------------------------------------------------
(* Every step keeps the invariant.                                         *)
LEMMA NextOK == IInv /\ [Next]_vars => IInv'
<1> SUFFICES ASSUME IInv, [Next]_vars PROVE IInv'
  OBVIOUS
<1>1. CASE \E b \in Output: ProcessWrites(b)
  BY <1>1, WriteStep, OutputAssumption
<1>2. CASE ProcessExits \/ PidChangesHands
  BY <1>2, JobStep
<1>3. CASE AgentGone
  BY <1>3, GoneStep
<1>4. CASE TailLog
  BY <1>4, TailLogStep
<1>5. CASE ScanStarts
  BY <1>5, ScanStartsStep
<1>6. CASE ScanChunk
  BY <1>6, ScanChunkStep
<1>7. CASE ScanEnds
  BY <1>7, ScanEndsStep
<1>8. CASE ReadLine
  BY <1>8, ReadLineStep
<1>9. CASE Polls
  BY <1>9, PollsStep
<1>10. CASE Drains
  BY <1>10, DrainsStep
<1>11. CASE Relays
  BY <1>11, RelaysStep
<1>12. CASE RelayEnds
  BY <1>12, RelayEndsStep
<1>13. CASE RelayFails
  BY <1>13, RelayFailsStep
<1>14. CASE UNCHANGED vars
  BY <1>14 DEF vars, IInv, TypeOK, ScanOK, EndOK, CountOK, FoundOK, Replaying,
               SentOK, Cut, EventIsItsPiece, Halved, DoneOK, PageOK
<1> QED
  BY <1>1, <1>2, <1>3, <1>4, <1>5, <1>6, <1>7, <1>8, <1>9, <1>10, <1>11, <1>12,
     <1>13, <1>14 DEF Next

(* So it always holds.                                                     *)
LEMMA InvariantHolds == Spec => []IInv
BY InitOK, NextOK, PTL DEF Spec

-----------------------------------------------------------------------------
(* What the invariant is for.                                              *)

(* A byte more than e makes a line of what follows the last line feed      *)
(* before e: it ends it, or belongs to it.                                 *)
LEMMA LinesOneByteOn ==
    ASSUME NEW e \in Nat, NEW o \in 0..e
    PROVE  LinesFrom(o, e + 1) = Cardinality(LineFeeds(file, o, e)) + 1
<1>1. o \in Nat /\ o <= e /\ e <= e + 1 /\ e + 1 \in Nat /\ o < e + 1
  OBVIOUS
<1>2. /\ Cardinality(LineFeeds(file, o, e)) \in Nat
      /\ Cardinality(LineFeeds(file, e, e + 1)) = IF file[e + 1] = "lf" THEN 1 ELSE 0
  BY <1>1, LineFeedsAreFinite, LineFeedsAtByte
<1>3. Cardinality(LineFeeds(file, o, e + 1)) =
        Cardinality(LineFeeds(file, o, e)) + Cardinality(LineFeeds(file, e, e + 1))
  BY <1>1, LineFeedsSplit
<1> QED
  BY <1>1, <1>2, <1>3 DEF LinesFrom

(* What the scan has found are the last tail lines, of the file up to any  *)
(* z for which every line start up to the end of the scan has one line     *)
(* more behind it than line feeds.                                         *)
LEMMA FoundAreLastLines ==
    ASSUME TypeOK, FoundOK, tail > 0,
           NEW z \in 0..Len(file), scan.end <= z,
           start \in LineStarts(z),
           \A o \in LineStarts(z): o <= scan.end =>
             LinesFrom(o, z) = Cardinality(LineFeeds(file, o, scan.end)) + 1
    PROVE  start = Min({o \in LineStarts(z): LinesFrom(o, z) <= tail})
<1> DEFINE S == {o \in LineStarts(z): LinesFrom(o, z) <= tail}
<1>1. /\ scan.end \in Nat /\ start \in Nat /\ start <= scan.end /\ tail \in Nat /\ z \in Nat
      /\ S \in SUBSET Nat
  BY DEF TypeOK, FoundOK, LineStarts
<1>2. Cardinality(LineFeeds(file, start, scan.end)) \in Nat
  BY <1>1, LineFeedsAreFinite
<1>3. CASE start = 0 /\ Cardinality(LineFeeds(file, 0, scan.end)) < tail
  <2>1. start \in S
    BY <1>1, <1>2, <1>3
  <2>2. \A o \in S: start <= o
    BY <1>1, <1>3
  <2> QED
    BY <1>1, <2>1, <2>2, LeastIsMin
<1>4. CASE /\ start > 0 /\ file[start] = "lf"
           /\ Cardinality(LineFeeds(file, start - 1, scan.end)) = tail
  <2>1. start - 1 \in Nat /\ (start - 1) + 1 = start /\ start - 1 <= start
    BY <1>1, <1>4
  <2>2. Cardinality(LineFeeds(file, start - 1, start)) = 1
    BY <1>4, <2>1, LineFeedsAtByte
  <2>3. Cardinality(LineFeeds(file, start - 1, scan.end)) =
          Cardinality(LineFeeds(file, start - 1, start)) + Cardinality(LineFeeds(file, start, scan.end))
    BY <1>1, <2>1, LineFeedsSplit
  <2>4. start \in S
    BY <1>1, <1>2, <1>4, <2>2, <2>3
  <2>5. ASSUME NEW o \in S, o < start
        PROVE  FALSE
    <3>1. o \in LineStarts(z) /\ LinesFrom(o, z) <= tail /\ o \in Nat
      BY <1>1
    <3>2. o <= start - 1 /\ start - 1 <= scan.end /\ o <= scan.end
      BY <1>1, <2>1, <2>5, <3>1
    <3>3. Cardinality(LineFeeds(file, o, scan.end)) =
            Cardinality(LineFeeds(file, o, start - 1)) + Cardinality(LineFeeds(file, start - 1, scan.end))
      BY <1>1, <2>1, <3>1, <3>2, LineFeedsSplit
    <3>4. Cardinality(LineFeeds(file, o, start - 1)) \in Nat
      BY <2>1, <3>1, LineFeedsAreFinite
    <3> QED
      BY <1>1, <1>4, <3>1, <3>2, <3>3, <3>4
  <2>6. \A o \in S: start <= o
    BY <1>1, <2>5
  <2> QED
    BY <1>1, <2>4, <2>6, LeastIsMin
<1> QED
  BY <1>3, <1>4 DEF FoundOK

(* The replay starts at the last lines.                                    *)
LEMMA InvTail == IInv => TailIsLastLines
<1> SUFFICES ASSUME IInv, tail > 0, Replaying
             PROVE  \E z \in {scan.size, scan.size + 1}:
                      /\ z <= Len(file)
                      /\ start = Min({o \in LineStarts(z): LinesFrom(o, z) <= tail})
  BY DEF TailIsLastLines, Replaying
<1>1. TypeOK /\ Len(file) \in Nat /\ tail \in Nat
  BY DEF IInv, TypeOK
<1>2. /\ scan.size \in 0..Len(file) /\ scan.end \in 0..Len(file)
      /\ scan.size \in Nat /\ scan.end \in Nat /\ start \in Nat
  BY <1>1 DEF TypeOK
<1>3. CASE scan.size = 0 /\ start = 0
  <2> DEFINE S == {o \in LineStarts(0): LinesFrom(o, 0) <= tail}
  <2>1. LineFeeds(file, 0, 0) = {}
    BY DEF LineFeeds
  <2>2. LinesFrom(0, 0) = 0
    BY <2>1, FS_EmptySet DEF LinesFrom
  <2>3. S \in SUBSET Nat /\ 0 \in S
    BY <1>1, <2>2 DEF LineStarts
  <2>4. 0 = Min(S)
    BY <2>3, LeastIsMin
  <2> QED
    BY <1>1, <1>3, <2>4
<1>4. CASE EndOK /\ FoundOK
  <2>1. start <= scan.end /\ (start = 0 \/ file[start] = "lf")
    BY <1>4 DEF FoundOK
  <2>2. ASSUME scan.end + 1 <= Len(file), scan.end + 1 \in {scan.size, scan.size + 1}
        PROVE  \E z \in {scan.size, scan.size + 1}:
                 /\ z <= Len(file)
                 /\ start = Min({o \in LineStarts(z): LinesFrom(o, z) <= tail})
    <3>1. ASSUME NEW o \in LineStarts(scan.end + 1), o <= scan.end
          PROVE  LinesFrom(o, scan.end + 1) = Cardinality(LineFeeds(file, o, scan.end)) + 1
      <4>1. o \in 0..scan.end
        BY <1>2, <3>1 DEF LineStarts
      <4> QED
        BY <1>2, <4>1, LinesOneByteOn
    <3>2. start \in LineStarts(scan.end + 1)
      BY <1>2, <2>1 DEF LineStarts
    <3>3. scan.end + 1 \in 0..Len(file) /\ scan.end <= scan.end + 1
      BY <1>2, <2>2
    <3>4. start = Min({o \in LineStarts(scan.end + 1): LinesFrom(o, scan.end + 1) <= tail})
      BY <1>1, <1>4, <3>1, <3>2, <3>3, FoundAreLastLines
    <3> QED
      BY <2>2, <3>4
  <2>3. CASE scan.end = scan.size - 1
    BY <1>2, <2>2, <2>3
  <2>4. CASE scan.end = scan.size /\ file[scan.size] = "lf"
    <3>1. scan.size < Len(file)
      BY <1>2, <1>4, <2>4 DEF EndOK
    <3> QED
      BY <1>1, <1>2, <2>2, <2>4, <3>1
  <2>5. CASE scan.end = scan.size /\ file[scan.size] # "lf"
    <3>0. scan.size > 0
      BY <1>4 DEF EndOK
    <3>1. ASSUME NEW o \in LineStarts(scan.size), o <= scan.end
          PROVE  LinesFrom(o, scan.size) = Cardinality(LineFeeds(file, o, scan.end)) + 1
      <4>1. o < scan.size
        BY <1>2, <2>5, <3>0 DEF LineStarts
      <4> QED
        BY <2>5, <4>1 DEF LinesFrom
    <3>2. start \in LineStarts(scan.size)
      BY <1>2, <2>1, <2>5 DEF LineStarts
    <3>3. start = Min({o \in LineStarts(scan.size): LinesFrom(o, scan.size) <= tail})
      BY <1>1, <1>2, <1>4, <2>5, <3>1, <3>2, FoundAreLastLines
    <3> QED
      BY <1>2, <3>3
  <2> QED
    BY <1>4, <2>3, <2>4, <2>5 DEF EndOK
<1> QED
  BY <1>3, <1>4 DEF IInv, ScanOK

(* The scan counts line feeds one at a time and compares for equality, so  *)
(* it must not pass tail: wherever the chunk before pos begins, if the     *)
(* count reaches tail in it, there is a line feed at which it is tail.     *)
ScanFinds ==
    at = "scan" =>
        \A from \in 0..scan.pos:
            scan.newlines + Cardinality(LineFeeds(file, from, scan.pos)) >= tail =>
                \E o \in LineFeeds(file, from, scan.pos):
                    scan.newlines + Cardinality(LineFeeds(file, o, scan.pos)) = tail

(* A chunk with enough line feeds has the one that the scan looks for: the *)
(* number of those from an offset on grows by one at a time as the offset  *)
(* goes down, so it does not jump over tail.                               *)
LEMMA InvScanFinds == IInv => ScanFinds
<1> SUFFICES ASSUME IInv, at = "scan", NEW from \in 0..scan.pos,
                    scan.newlines + Cardinality(LineFeeds(file, from, scan.pos)) >= tail
             PROVE  \E o \in LineFeeds(file, from, scan.pos):
                      scan.newlines + Cardinality(LineFeeds(file, o, scan.pos)) = tail
  BY DEF ScanFinds
<1> DEFINE Count(o) == Cardinality(LineFeeds(file, o, scan.pos))
           S == {o \in from..scan.pos: scan.newlines + Count(o) >= tail}
<1>1. /\ scan.pos \in Nat /\ scan.newlines \in Nat /\ tail \in Nat /\ scan.newlines < tail
      /\ from \in Nat
  BY DEF IInv, TypeOK, ScanOK, CountOK
<1>2. Count(scan.pos) = 0
  <2>1. LineFeeds(file, scan.pos, scan.pos) = {}
    BY <1>1 DEF LineFeeds
  <2> QED
    BY <2>1, FS_EmptySet
<1>3. \A o \in from..scan.pos: Count(o) \in Nat
  BY <1>1, LineFeedsAreFinite
<1> HIDE DEF Count
<1>4. S \in SUBSET (0..scan.pos) /\ from \in S
  BY <1>1 DEF Count
<1>5. PICK m \in S: \A o \in S: o <= m
  BY <1>1, <1>4, MaxIsGreatest
<1>6. m # scan.pos
  BY <1>1, <1>2, <1>5
<1>7. m \in Nat /\ m < scan.pos /\ from <= m
  BY <1>1, <1>4, <1>5, <1>6
<1>8. scan.newlines + Count(m + 1) < tail
  BY <1>1, <1>3, <1>5, <1>7
<1>9. Count(m) = (IF file[m + 1] = "lf" THEN 1 ELSE 0) + Count(m + 1)
  <2>1. m + 1 \in Nat /\ m <= m + 1 /\ m + 1 <= scan.pos
    BY <1>1, <1>7
  <2> QED
    BY <1>1, <1>7, <2>1, LineFeedsSplit, LineFeedsAtByte DEF Count
<1>10. Count(m) \in Nat /\ Count(m + 1) \in Nat
  BY <1>1, <1>3, <1>7
<1>11. file[m + 1] = "lf" /\ scan.newlines + Count(m) = tail
  BY <1>1, <1>5, <1>8, <1>9, <1>10
<1>12. m \in LineFeeds(file, from, scan.pos)
  BY <1>1, <1>7, <1>11 DEF LineFeeds
<1> QED
  BY <1>11, <1>12 DEF Count

(* What is sent is what the file has.                                      *)
LEMMA InvLost == IInv => NothingLost
BY DEF IInv, SentOK, DoneOK, NothingLost

(* A page whose stream ended has all of it.                                *)
LEMMA InvPage == IInv => PageIsComplete
<1> SUFFICES ASSUME IInv, view = "ended"
             PROVE  /\ at = "done" /\ Len(page) = Len(sent) + 1 /\ page[Len(page)] = <<>>
                    /\ \A k \in 1..Len(sent): page[k] = DataLine(sent[k])
  BY DEF PageIsComplete
<1>1. at = "done" /\ Len(page) = Len(sent) + 1 /\ page[Len(page)] = <<>>
  BY DEF IInv, PageOK
<1>2. Len(sent) \in Nat
  BY DEF IInv, TypeOK
<1>3. \A k \in 1..Len(sent): k \in 1..Len(page) /\ k <= Len(sent)
  BY <1>1, <1>2
<1> QED
  BY <1>1, <1>3 DEF IInv, PageOK

-----------------------------------------------------------------------------
(* The types are right: offsets stay within the file, and the pointer does *)
(* not pass the end that the file has when it is read.                     *)
THEOREM TypeCorrect == Spec => []TypeOK
BY InvariantHolds, PTL DEF IInv

(* _tail_start_offset finds the last lines, for chunks of any size, and    *)
(* while the process writes: those of the log as it was when it was opened *)
(* or one byte later.                                                      *)
THEOREM TailCorrect == Spec => []TailIsLastLines
BY InvariantHolds, InvTail, PTL

(* A chunk in which the count reaches tail has the line feed where it does *)
(* so: the loop over its bytes returns there and never counts past tail.   *)
THEOREM ScanCorrect == Spec => []ScanFinds
BY InvariantHolds, InvScanFinds, PTL

(* tail_log loses, repeats and swaps no byte, replaces only those of a     *)
(* character that a read cut in two or that is none, and when it says that *)
(* it is done, of a job that the agent knows, the job is over and all of   *)
(* its output was sent.                                                    *)
THEOREM SentCorrect == Spec => []NothingLost
BY InvariantHolds, InvLost, PTL

(* The page has got every event in order when its stream ends.             *)
THEOREM PageCorrect == Spec => []PageIsComplete
BY InvariantHolds, InvPage, PTL

=============================================================================
