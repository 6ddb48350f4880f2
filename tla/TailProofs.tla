------------------------------ MODULE TailProofs -----------------------------
(***************************************************************************)
(* Tail, for every bound on what a look reads and on what is written:      *)
(* rotations that are counted happened, old news is not reported, and no   *)
(* news is missed.                                                         *)
(***************************************************************************)
EXTENDS Tail, SetLemmas

-----------------------------------------------------------------------------
(* The inductive invariant *)

Half == [line : Nat \ {0}, half : {1, 2}]

TypeOK ==
    /\ there \in BOOLEAN
    /\ inode \in Nat \ {0}
    /\ content \in Seq(Half)
    /\ kind \in Seq(Kind)
    /\ id \in Nat
    /\ offset \in Nat
    /\ phase \in {"idle", "scanning"}
    /\ size \in Nat
    /\ emptied \in BOOLEAN
    /\ replaced \in BOOLEAN
    /\ before \subseteq 1..Len(kind)
    /\ atStat \subseteq 1..Len(kind)

\* A half comes after another in a file.
Follows(g, h) == g.line < h.line \/ (g.line = h.line /\ g.half = 1 /\ h.half = 2)

\* A file holds halves of lines that have been written, each once, in their order.
InOrder ==
    /\ \A i \in DOMAIN content : content[i].line <= Len(kind)
    /\ \A i, j \in DOMAIN content : i < j => Follows(content[i], content[j])

\* A line that was whole at a look, and is in the file that is there, is whole in it.
StaysWhole ==
    \A i \in DOMAIN content :
        content[i].line \in atStat \cup before =>
            \E j \in DOMAIN content : content[j].line = content[i].line /\ content[j].half = 2

\* The tail's position is one in the file that is there, if nobody emptied or
\* replaced it since the last stat.
InPlace ==
    \/ emptied
    \/ replaced
    \/ /\ there \/ (id = NoId /\ offset = 0 /\ phase = "idle")
       /\ id \in {NoId, inode}
       /\ offset <= Len(content)
       /\ phase = "scanning" => size <= Len(content)

\* The halves of some lines that are in a file are no further than a position.
Behind(c, lines, at) == \A i \in DOMAIN c : c[i].line \in lines => i <= at

\* A line that was whole at the last stat is behind the position that the next look
\* starts from, and is in no file that has begun since.
Read ==
    /\ phase = "idle" => Behind(content, atStat, offset)
    /\ phase = "scanning" =>
        /\ offset < size
        /\ Behind(content, atStat, size)
        /\ Behind(content, before, offset)
        /\ news = NoLine
    /\ emptied \/ replaced => Behind(content, atStat, 0)
    /\ news \notin before

IInv == TypeOK /\ InOrder /\ StaysWhole /\ InPlace /\ Read

-----------------------------------------------------------------------------
(* Sets of numbers *)

\* A set of numbers with a bound has a greatest, which is Max.
LEMMA MaxIsGreatest ==
    ASSUME NEW n \in Nat, NEW S \in SUBSET (0..n), NEW x \in S
    PROVE  Max(S) \in S /\ x <= Max(S)
<1>1. IsFiniteSet(0..n)
  BY FS_Interval
<1>2. S \subseteq Nat /\ S # {} /\ IsFiniteSet(S)
  <2>1. S \subseteq Nat /\ S # {} /\ S \subseteq 0..n
    OBVIOUS
  <2> QED BY <1>1, <2>1, FS_Subset, Zenon
<1> QED BY <1>2, MaxProperty

-----------------------------------------------------------------------------
(* The world *)

\* What a sequence holds is of its kind.
LEMMA ElementOfSeq ==
    ASSUME NEW S, NEW s \in Seq(S), NEW i \in DOMAIN s
    PROVE  s[i] \in S
  OBVIOUS

LEMMA HalvesAreTyped ==
    ASSUME TypeOK, NEW i \in DOMAIN content
    PROVE  content[i] \in Half /\ content[i].line \in Nat \ {0}
<1>1. content[i] \in Half
  BY ElementOfSeq DEF TypeOK
<1> QED BY <1>1 DEF Half

LEMMA InitLemma == Init => IInv
<1> SUFFICES ASSUME Init PROVE IInv
  OBVIOUS
<1>1. TypeOK
  <2>1. content \in Seq(Half) /\ kind \in Seq(Kind)
    BY DEF Init
  <2>2. before = {} /\ atStat = {}
    BY DEF Init
  <2>3. there \in BOOLEAN /\ emptied \in BOOLEAN /\ replaced \in BOOLEAN
    BY DEF Init
  <2>4. /\ inode \in Nat \ {0} /\ id \in Nat /\ offset \in Nat /\ size \in Nat
        /\ phase \in {"idle", "scanning"}
    BY SMT DEF Init, NoId
  <2> QED BY <2>1, <2>2, <2>3, <2>4, Zenon DEF TypeOK
<1>2. DOMAIN content = {}
  BY DEF Init
<1>3. InOrder /\ StaysWhole
  BY <1>2 DEF InOrder, StaysWhole
<1>4. InPlace
  BY DEF Init, InPlace, NoId
<1>5. Read
  BY <1>2 DEF Init, Read, Behind
<1> QED BY <1>1, <1>3, <1>4, <1>5 DEF IInv

\* What is written is new: a half that follows all there are, of a line that was not
\* whole at any look.
LEMMA WriteIsNew ==
    ASSUME IInv, WriteHalf
    PROVE  \E h \in Half :
            /\ content' = Append(content, h)
            /\ \A i \in DOMAIN content : Follows(content[i], h)
            /\ h.line <= Len(kind')
            /\ h.line \notin atStat \cup before
            /\ kind' \in Seq(Kind) /\ Len(kind) <= Len(kind')
<1> USE DEF IInv, TypeOK
<1>1. CASE content # <<>> /\ content[Len(content)].half = 1
  <2> DEFINE last == content[Len(content)]
             h == [line |-> last.line, half |-> 2]
  <2>1. Len(content) \in DOMAIN content /\ last \in Half /\ last.half = 1
    BY <1>1, SMT
  <2>2. h \in Half
    BY <2>1 DEF Half
  <2>3. content' = Append(content, h) /\ kind' = kind
    BY <1>1 DEF WriteHalf
  <2>4. ASSUME NEW i \in DOMAIN content
        PROVE  Follows(content[i], h)
    <3>1. i = Len(content) \/ Follows(content[i], last)
      BY <2>1, SMT DEF InOrder
    <3> QED BY <2>1, <3>1 DEF Follows
  <2>5. last.line <= Len(kind)
    BY <2>1 DEF InOrder
  <2>6. last.line \notin atStat \cup before
    <3> SUFFICES ASSUME last.line \in atStat \cup before PROVE FALSE
      OBVIOUS
    <3>1. PICK j \in DOMAIN content : content[j].line = last.line /\ content[j].half = 2
      BY <2>1 DEF StaysWhole
    <3>2. j = Len(content) \/ Follows(content[j], last)
      BY <2>1, SMT DEF InOrder
    <3> QED BY <2>1, <3>1, <3>2, SMT DEF Follows, Half
  <2> HIDE DEF h, last
  <2>7. h.line = last.line
    BY DEF h
  <2> QED BY <2>2, <2>3, <2>4, <2>5, <2>6, <2>7
<1>2. CASE ~(content # <<>> /\ content[Len(content)].half = 1)
  <2> DEFINE h == [line |-> Len(kind'), half |-> 1]
  <2>1. PICK k \in Kind : kind' = Append(kind, k)
    BY <1>2 DEF WriteHalf
  <2>2. content' = Append(content, h)
    BY <1>2 DEF WriteHalf
  <2>3. kind' \in Seq(Kind) /\ Len(kind') = Len(kind) + 1
    BY <2>1
  <2>4. h \in Half /\ h.line = Len(kind) + 1
    BY <2>3 DEF Half
  <2>5. \A i \in DOMAIN content : Follows(content[i], h)
    <3> TAKE i \in DOMAIN content
    <3>1. content[i].line <= Len(kind) /\ content[i].line \in Nat
      BY HalvesAreTyped DEF InOrder
    <3> HIDE DEF h
    <3> QED BY <2>4, <3>1, SMT DEF Follows
  <2> HIDE DEF h
  <2>6. h.line \notin atStat \cup before /\ h.line <= Len(kind') /\ Len(kind) <= Len(kind')
    BY <2>3, <2>4, SMT
  <2> QED BY <2>2, <2>3, <2>4, <2>5, <2>6
<1> QED BY <1>1, <1>2

LEMMA WriteHalfLemma ==
    ASSUME IInv, WriteHalf
    PROVE  IInv'
<1> USE DEF IInv
<1>1. PICK h \in Half :
        /\ content' = Append(content, h)
        /\ \A i \in DOMAIN content : Follows(content[i], h)
        /\ h.line <= Len(kind')
        /\ h.line \notin atStat \cup before
        /\ kind' \in Seq(Kind) /\ Len(kind) <= Len(kind')
  BY WriteIsNew
<1>2. UNCHANGED <<there, inode, access, upsets, tail, observers>>
  BY DEF WriteHalf
<1>3. content \in Seq(Half) /\ Len(kind) \in Nat /\ Len(kind') \in Nat
  BY <1>1 DEF TypeOK
<1>4. /\ content' \in Seq(Half)
      /\ Len(content') = Len(content) + 1
      /\ DOMAIN content' = DOMAIN content \cup {Len(content')}
      /\ content'[Len(content')] = h
      /\ \A i \in DOMAIN content : content'[i] = content[i] /\ i < Len(content')
  BY <1>1, <1>3, SMT
<1>5. TypeOK'
  <2>1. before \subseteq 1..Len(kind') /\ atStat \subseteq 1..Len(kind')
    BY <1>1, <1>3, SMT DEF TypeOK
  <2> QED BY <1>1, <1>2, <1>4, <2>1 DEF TypeOK, tail, observers
<1>6. InOrder'
  <2>1. \A i \in DOMAIN content' : content'[i].line <= Len(kind')
    <3>1. \A i \in DOMAIN content : content[i].line \in Nat /\ content[i].line <= Len(kind)
      BY HalvesAreTyped DEF InOrder
    <3>2. \A i \in DOMAIN content : content[i].line <= Len(kind')
      BY <1>1, <1>3, <3>1, SMT
    <3> QED BY <1>1, <1>4, <3>2
  <2>2. \A i, j \in DOMAIN content' : i < j => Follows(content'[i], content'[j])
    <3> TAKE i, j \in DOMAIN content'
    <3>1. CASE j = Len(content')
      <4>1. i < j => i \in DOMAIN content
        BY <1>3, <1>4, <3>1, SMT
      <4> QED BY <1>1, <1>4, <3>1, <4>1
    <3>2. CASE j # Len(content')
      <4>1. j \in DOMAIN content /\ (i < j => i \in DOMAIN content)
        BY <1>3, <1>4, <3>2, SMT
      <4> QED BY <1>4, <4>1 DEF InOrder
    <3> QED BY <3>1, <3>2
  <2> QED BY <2>1, <2>2 DEF InOrder
<1>7. ASSUME NEW lines \in SUBSET (atStat \cup before), NEW at, Behind(content, lines, at)
      PROVE  Behind(content', lines, at)
  BY <1>1, <1>4, <1>7 DEF Behind
<1>8. StaysWhole'
  <2>1. atStat' = atStat /\ before' = before
    BY <1>2 DEF observers
  <2> SUFFICES ASSUME NEW i \in DOMAIN content', content'[i].line \in atStat \cup before
               PROVE  \E j \in DOMAIN content' :
                        content'[j].line = content'[i].line /\ content'[j].half = 2
    BY <2>1 DEF StaysWhole
  <2>2. i \in DOMAIN content /\ content[i].line \in atStat \cup before
    BY <1>1, <1>4
  <2>3. PICK j \in DOMAIN content : content[j].line = content[i].line /\ content[j].half = 2
    BY <2>2 DEF StaysWhole
  <2> QED BY <1>4, <2>2, <2>3
<1>9. InPlace'
  BY <1>2, <1>3, <1>4, SMT DEF InPlace, TypeOK, tail, observers
<1>10. Read'
  BY <1>2, <1>7 DEF Read, tail, observers
<1> QED BY <1>5, <1>6, <1>8, <1>9, <1>10

\* The file is renamed, emptied or removed: what is there afterwards is empty.
LEMMA UpsetLemma ==
    ASSUME IInv, Rotate \/ Truncate \/ Remove
    PROVE  IInv'
<1> USE DEF IInv
<1>1. content' = <<>> /\ (emptied' \/ replaced')
  BY DEF Rotate, Truncate, Remove
<1>2. UNCHANGED <<access, kind, tail, before, atStat, news>>
  BY DEF Rotate, Truncate, Remove
<1>3. DOMAIN content' = {}
  BY <1>1
<1>4. TypeOK'
  <2>1. content' \in Seq(Half)
    BY <1>1
  <2>2. inode' \in Nat \ {0}
    BY SMT DEF Rotate, Truncate, Remove, TypeOK
  <2>3. emptied' \in BOOLEAN /\ replaced' \in BOOLEAN
    BY DEF Rotate, Truncate, Remove, TypeOK
  <2>4. there' \in BOOLEAN
    BY Zenon DEF Rotate, Truncate, Remove, TypeOK
  <2> QED BY <1>2, <2>1, <2>2, <2>3, <2>4 DEF TypeOK, tail
<1>5. InOrder' /\ StaysWhole'
  BY <1>3 DEF InOrder, StaysWhole
<1>6. InPlace'
  BY <1>1 DEF InPlace
<1>7. Read'
  BY <1>2, <1>3 DEF Read, Behind, tail
<1> QED BY <1>4, <1>5, <1>6, <1>7

LEMMA CreateLemma ==
    ASSUME IInv, Create
    PROVE  IInv'
<1> USE DEF IInv, Create
<1>1. TypeOK'
  <2>1. inode' \in Nat \ {0}
    BY SMT DEF TypeOK
  <2> QED BY <2>1 DEF TypeOK, tail, observers
<1>2. InOrder' /\ StaysWhole' /\ Read'
  BY DEF InOrder, StaysWhole, Read, tail, observers
<1>3. InPlace'
  BY DEF InPlace, tail, observers
<1> QED BY <1>1, <1>2, <1>3

LEMMA ChmodLemma ==
    ASSUME IInv, Chmod
    PROVE  IInv'
BY DEF IInv, Chmod, TypeOK, InOrder, StaysWhole, InPlace, Read, tail, observers

-----------------------------------------------------------------------------
(* Looks *)

\* A look never finds a rotation that there was not.
LEMMA RotationIsReal ==
    ASSUME IInv, StatPresent, Replaced \/ Truncated
    PROVE  emptied \/ replaced
<1> SUFFICES ASSUME ~emptied, ~replaced PROVE FALSE
  OBVIOUS
<1>1. id \in {NoId, inode} /\ offset <= Len(content)
  BY DEF IInv, InPlace, StatPresent
<1>2. ~Replaced
  BY <1>1 DEF Replaced, Identify
<1>3. ~Truncated
  <2>1. offset \in Nat /\ Len(content) \in Nat
    BY DEF IInv, TypeOK
  <2> QED BY <1>1, <2>1, SMT DEF Truncated
<1> QED BY <1>2, <1>3

\* Without a file there is nothing to remember.
LEMMA StatMissingLemma ==
    ASSUME IInv, StatMissing
    PROVE  IInv'
<1> USE DEF IInv, StatMissing
<1>1. TypeOK'
  BY DEF TypeOK, NoId, world, ForgetUpsets
<1>2. InOrder'
  BY DEF InOrder, world
<1>3. StaysWhole'
  BY DEF StaysWhole
<1>4. InPlace'
  BY DEF InPlace, world, NoId
<1>5. Read'
  BY DEF Read, Behind, ForgetUpsets
<1> QED BY <1>1, <1>2, <1>3, <1>4, <1>5

LEMMA StatRefusedLemma ==
    ASSUME IInv, StatRefused
    PROVE  IInv'
BY DEF IInv, StatRefused, TypeOK, InOrder, StaysWhole, InPlace, Read, world, observers

\* The lines that are whole in a file are some of those that were written.
LEMMA WholeIsWritten ==
    ASSUME TypeOK, InOrder
    PROVE  Whole(content) \subseteq 1..Len(kind)
<1> SUFFICES ASSUME NEW i \in DOMAIN content PROVE content[i].line \in 1..Len(kind)
  BY DEF Whole
<1>1. content[i].line \in Nat \ {0} /\ content[i].line <= Len(kind)
  BY HalvesAreTyped DEF InOrder
<1>2. Len(kind) \in Nat
  BY DEF TypeOK
<1> QED BY <1>1, <1>2, SMT

LEMMA StatPresentLemma ==
    ASSUME IInv, StatPresent
    PROVE  IInv'
<1> USE DEF IInv
<1> DEFINE from == IF Replaced \/ Truncated THEN 0 ELSE offset
<1>1. /\ phase = "idle" /\ there
      /\ id' = inode
      /\ IF Len(content) > from
         THEN phase' = "scanning" /\ offset' = from /\ size' = Len(content)
         ELSE offset' = Len(content) /\ UNCHANGED <<phase, size>>
      /\ atStat' = Whole(content) /\ before' = atStat /\ news' = NoLine
      /\ ~emptied' /\ ~replaced'
      /\ UNCHANGED world
  BY DEF StatPresent, StatIsSeen, ForgetUpsets, Identify
<1>2. /\ content \in Seq(Half) /\ Len(content) \in Nat /\ offset \in Nat
      /\ inode \in Nat \ {0}
  BY DEF TypeOK
<1>3. from \in Nat /\ DOMAIN content = 1..Len(content)
  BY <1>2
<1>4. Behind(content, atStat, from)
  <2>1. CASE Replaced \/ Truncated
    BY <2>1, RotationIsReal DEF Read
  <2>2. CASE ~(Replaced \/ Truncated)
    BY <1>1, <2>2 DEF Read
  <2> QED BY <2>1, <2>2
<1> HIDE DEF from
<1>5. TypeOK'
  <2>1. /\ id' \in Nat /\ offset' \in Nat /\ size' \in Nat
        /\ phase' \in {"idle", "scanning"}
    BY <1>1, <1>2, <1>3 DEF TypeOK
  <2>2. before' \subseteq 1..Len(kind) /\ atStat' \subseteq 1..Len(kind)
    BY <1>1, WholeIsWritten DEF TypeOK
  <2>3. UNCHANGED <<there, inode, content, kind>>
    BY <1>1 DEF world
  <2>4. emptied' \in BOOLEAN /\ replaced' \in BOOLEAN
    BY Zenon DEF StatPresent, ForgetUpsets
  <2> QED BY <2>1, <2>2, <2>3, <2>4 DEF TypeOK
<1>6. InOrder'
  BY <1>1 DEF InOrder, world
<1>7. StaysWhole'
  <2>1. content' = content
    BY <1>1 DEF world
  <2> SUFFICES ASSUME NEW i \in DOMAIN content,
                      content[i].line \in Whole(content) \cup atStat
               PROVE  \E j \in DOMAIN content :
                        content[j].line = content[i].line /\ content[j].half = 2
    BY <1>1, <2>1 DEF StaysWhole
  <2>2. CASE content[i].line \in Whole(content)
    BY <2>2 DEF Whole
  <2>3. CASE content[i].line \in atStat
    BY <2>3 DEF StaysWhole
  <2> QED BY <2>2, <2>3
<1>8. InPlace'
  <2>1. there' /\ id' = inode' /\ id' # NoId /\ Len(content') = Len(content)
    BY <1>1, <1>2 DEF world, NoId
  <2>2. offset' <= Len(content) /\ (phase' = "scanning" => size' <= Len(content))
    BY <1>1, <1>2, <1>3, SMT
  <2> QED BY <2>1, <2>2 DEF InPlace
<1>9. Read'
  <2>1. content' = content
    BY <1>1 DEF world
  <2>2. \A lines : Behind(content, lines, Len(content))
    BY <1>3, SMT DEF Behind
  <2>3. phase' = "idle" => Behind(content, atStat', offset')
    BY <1>1, <2>2
  <2>4. phase' = "scanning" =>
            /\ offset' < size' /\ Behind(content, atStat', size')
            /\ Behind(content, before', offset')
    <3>1. phase' = "scanning" => offset' = from /\ size' = Len(content) /\ from < Len(content)
      BY <1>1, <1>2, <1>3, SMT
    <3> QED BY <1>1, <1>4, <2>2, <3>1
  <2>5. news' \notin before'
    <3>1. 0 \notin 1..Len(kind)
      BY SMT
    <3> QED BY <1>1, <3>1 DEF TypeOK, NoLine
  <2> QED BY <1>1, <2>1, <2>3, <2>4, <2>5 DEF Read
<1> QED BY <1>5, <1>6, <1>7, <1>8, <1>9

\* The scan reads from the position on, and what was whole at the last look but one
\* is behind it.
LEMMA ScanIsAhead ==
    ASSUME IInv, phase = "scanning", TailAssumption
    PROVE  LastMatch(Chunk(content, ScanFrom(offset, size))) \notin before
<1> USE DEF IInv
<1> DEFINE from == ScanFrom(offset, size)
           end == Smaller(from + MaxScan, Len(content))
           chunk == SubSeq(content, from + 1, end)
<1>1. /\ content \in Seq(Half) /\ Len(content) \in Nat /\ offset \in Nat /\ size \in Nat
      /\ MaxScan \in Nat \ {0}
  BY DEF TypeOK, TailAssumption
<1>2. from \in Nat /\ from >= offset
  BY <1>1, SMT DEF ScanFrom, Read
<1>3. end \in Nat /\ end <= Len(content)
  BY <1>1, <1>2, SMT DEF Smaller
<1> HIDE DEF from, end
<1>4. \A i \in DOMAIN chunk : i + from \in DOMAIN content /\ chunk[i] = content[i + from] /\ i > 0
  BY <1>1, <1>2, <1>3, SMT
<1>5. \A i \in DOMAIN chunk : chunk[i].line \notin before
  <2> SUFFICES ASSUME NEW i \in DOMAIN chunk, chunk[i].line \in before PROVE FALSE
    OBVIOUS
  <2>1. i + from <= offset
    BY <1>4 DEF Read, Behind
  <2>2. i \in Nat \ {0}
    BY <1>1, <1>2, <1>3, SMT
  <2> QED BY <1>1, <1>2, <2>1, <2>2, SMT
<1>6. NoLine \notin before
  BY SMT DEF TypeOK, NoLine
<1> HIDE DEF chunk
<1>7. LinesIn(chunk) \cap before = {}
  BY <1>5 DEF LinesIn
<1>8. LinesIn(chunk) \subseteq 0..Len(kind)
  <2> SUFFICES ASSUME NEW i \in DOMAIN chunk PROVE chunk[i].line \in 0..Len(kind)
    BY DEF LinesIn
  <2>1. i + from \in DOMAIN content /\ chunk[i] = content[i + from]
    BY <1>4
  <2>2. chunk[i].line \in Nat /\ chunk[i].line <= Len(kind)
    BY <2>1, HalvesAreTyped DEF InOrder
  <2>3. Len(kind) \in Nat
    BY DEF TypeOK
  <2> QED BY <2>2, <2>3, SMT
<1>9. LastMatch(chunk) \notin before
  <2> DEFINE hits == {n \in Legible(chunk) : Matches(chunk, n)}
  <2>1. hits \cap before = {}
    BY <1>7 DEF Legible
  <2>2. LastMatch(chunk) = IF hits = {} THEN NoLine ELSE Max(hits)
    BY DEF LastMatch
  <2>3. hits # {} => Max(hits) \in hits
    <3>1. Len(kind) \in Nat /\ hits \in SUBSET (0..Len(kind))
      BY <1>8 DEF Legible, TypeOK
    <3> QED BY <3>1, MaxIsGreatest
  <2> HIDE DEF hits
  <2> QED BY <1>6, <2>1, <2>2, <2>3
<1>10. Chunk(content, from) = chunk
  BY DEF Chunk, chunk, end
<1> QED BY <1>9, <1>10 DEF from

\* What a scan leaves behind, whether it could open the file or not, but for the line
\* it reports.
LEMMA ScanEndsLemma ==
    ASSUME IInv, phase = "scanning", offset' = size, EndScan,
           UNCHANGED <<world, id, emptied, replaced, before, atStat>>,
           news' \notin before
    PROVE  IInv'
<1> USE DEF IInv
<1>1. TypeOK'
  <2>1. offset' \in Nat /\ size' \in Nat /\ phase' \in {"idle", "scanning"}
    BY DEF TypeOK, EndScan
  <2> QED BY <2>1 DEF TypeOK, world
<1>2. InOrder' /\ StaysWhole'
  BY DEF InOrder, StaysWhole, world
<1>3. InPlace'
  <2>1. CASE emptied \/ replaced
    BY <2>1 DEF InPlace
  <2>2. CASE ~emptied /\ ~replaced
    <3>1. there /\ id \in {NoId, inode} /\ size <= Len(content)
      BY <2>2 DEF InPlace
    <3> QED BY <3>1 DEF InPlace, world, EndScan
  <2> QED BY <2>1, <2>2
<1>4. Read'
  BY DEF Read, EndScan, world
<1> QED BY <1>1, <1>2, <1>3, <1>4

LEMMA ScanLemma ==
    ASSUME IInv, Scan, TailAssumption
    PROVE  IInv'
<1>1. news' = LastMatch(Chunk(content, ScanFrom(offset, size))) /\ phase = "scanning"
  BY DEF Scan
<1>2. news' \notin before
  BY <1>1, ScanIsAhead
<1> QED BY <1>1, <1>2, ScanEndsLemma DEF Scan

LEMMA ScanFailsLemma ==
    ASSUME IInv, ScanFails
    PROVE  IInv'
<1>1. news' = news /\ phase = "scanning"
  BY DEF ScanFails
<1>2. news' \notin before
  BY <1>1 DEF IInv, Read
<1> QED BY <1>1, <1>2, ScanEndsLemma DEF ScanFails

LEMMA RestartLemma ==
    ASSUME IInv, Restart
    PROVE  IInv'
<1> USE DEF IInv, Restart
<1>1. TypeOK'
  BY DEF TypeOK, NoId, ForgetUpsets
<1>2. InOrder' /\ StaysWhole'
  BY DEF InOrder, StaysWhole
<1>3. InPlace'
  <2>1. content' = content /\ 0 <= Len(content)
    BY SMT DEF TypeOK
  <2>2. id' = NoId /\ offset' = 0 /\ phase' = "idle"
    OBVIOUS
  <2> QED BY <2>1, <2>2 DEF InPlace
<1>4. Read'
  BY DEF Read, Behind, ForgetUpsets
<1> QED BY <1>1, <1>2, <1>3, <1>4

-----------------------------------------------------------------------------
(* Theorems *)

LEMMA NextLemma ==
    ASSUME IInv, [Next]_vars, TailAssumption
    PROVE  IInv'
<1>1. CASE UNCHANGED vars
  BY <1>1 DEF IInv, TypeOK, InOrder, StaysWhole, InPlace, Read, vars, world, tail, observers
<1>2. CASE Next
  BY <1>2, WriteHalfLemma, UpsetLemma, CreateLemma, ChmodLemma, StatMissingLemma,
     StatRefusedLemma, StatPresentLemma, ScanLemma, ScanFailsLemma, RestartLemma DEF Next
<1> QED BY <1>1, <1>2

THEOREM TailInvariant == Spec => []IInv
<1>1. Init => IInv
  BY InitLemma
<1>2. IInv /\ [Next]_vars => IInv'
  BY NextLemma, TailAssumption
<1> QED BY <1>1, <1>2, PTL DEF Spec

\* Old news is not reported (Tail::poll, Tail::scan): a line that was whole at a look
\* is reported by it or by the next, however large the log and the part of it that a
\* look reads, and whatever is done to it between and inside looks.
THEOREM OldNewsTheorem == Spec => []OldNewsIsOld
<1>1. IInv => OldNewsIsOld
  BY DEF IInv, Read, OldNewsIsOld
<1> QED BY <1>1, TailInvariant, PTL

\* Every rotation that is counted happened (Tail::poll, state.rs:167).
THEOREM RotationsTheorem == Spec => RotationsAreReal
<1>1. IInv /\ [Next]_vars => [StatPresent /\ (Replaced \/ Truncated) => emptied \/ replaced]_vars
  BY RotationIsReal
<1> QED BY <1>1, TailInvariant, PTL DEF Spec, RotationsAreReal

-----------------------------------------------------------------------------
(* Nothing is missed *)

\* The second half of a line follows the first.
Paired ==
    \A j \in DOMAIN content : content[j].half = 2 =>
        \E i \in DOMAIN content :
            i = j - 1 /\ content[i].line = content[j].line /\ content[i].half = 1

\* A file that was replaced, and not emptied in place as well, has another identity.
Identified ==
    /\ id <= inode
    /\ id = NoId => offset = 0 /\ phase = "idle"
    /\ replaced /\ ~emptied => id # inode

Safe(n) == Answered(n) \/ n \in lost

\* The line of a half is one that the scan to come reads, with nothing before it that
\* ends the reading, and as much of it as its kind asks for.
InScan(i) ==
    LET from == ScanFrom(offset, size)
        n == content[i].line
    IN  /\ from < i
        /\ \A m \in DOMAIN content :
                from < m /\ content[m].line < n => kind[content[m].line] # "garbled"
        /\ kind[n] = "wide" =>
                \E j \in DOMAIN content : j <= size /\ content[j].line = n /\ content[j].half = 2

\* Error lines any half of which is behind the position are answered or lost; those
\* between it and where the scan to come ends are lost or will be read.
Followed ==
    ~emptied /\ ~replaced =>
        \A i \in DOMAIN content : IsError(content[i].line) =>
            /\ i <= offset => Safe(content[i].line)
            /\ phase = "scanning" /\ offset < i /\ i <= size =>
                    content[i].line \in lost \/ InScan(i)

NInv == lastError \in Nat /\ Paired /\ Identified /\ Followed

\* The line of a half is among those of every stretch the half is in.
LEMMA InStretch ==
    ASSUME content \in Seq(Half), NEW a \in Nat, NEW b \in Nat, b <= Len(content),
           NEW i \in DOMAIN content, a < i, i <= b
    PROVE  content[i].line \in LinesIn(SubSeq(content, a + 1, b))
<1>1. i \in Nat /\ i - a \in 1..(b - a)
  BY SMT
<1>2. i - a \in DOMAIN SubSeq(content, a + 1, b)
  BY <1>1, SMT
<1>3. SubSeq(content, a + 1, b)[i - a] = content[i]
  BY <1>1, <1>2, SMT
<1> QED BY <1>2, <1>3 DEF LinesIn

LEMMA NInitLemma == Init => NInv
<1> SUFFICES ASSUME Init PROVE NInv
  OBVIOUS
<1>1. DOMAIN content = {} /\ lastError \in Nat
  BY DEF Init, NoLine
<1>2. Paired /\ Followed
  BY <1>1 DEF Paired, Followed
<1>3. Identified
  BY SMT DEF Init, Identified, NoId
<1> QED BY <1>1, <1>2, <1>3 DEF NInv

\* What the next scan reads of a line does not change by what is written after it.
LEMMA NWriteHalfLemma ==
    ASSUME IInv, NInv, WriteHalf
    PROVE  NInv'
<1>1. PICK h \in Half :
        /\ content' = Append(content, h)
        /\ \A i \in DOMAIN content : Follows(content[i], h)
        /\ h.line <= Len(kind')
        /\ h.line \notin atStat \cup before
        /\ kind' \in Seq(Kind) /\ Len(kind) <= Len(kind')
  BY WriteIsNew
<1>2. UNCHANGED <<there, inode, access, upsets, tail, observers>>
  BY DEF WriteHalf
<1>3. content \in Seq(Half) /\ Len(content) \in Nat /\ offset \in Nat /\ size \in Nat
  BY DEF IInv, TypeOK
<1>4. /\ Len(content') = Len(content) + 1
      /\ DOMAIN content' = DOMAIN content \cup {Len(content')}
      /\ content'[Len(content')] = h
      /\ \A i \in DOMAIN content : content'[i] = content[i] /\ i < Len(content')
  BY <1>1, <1>3, SMT
<1>5. \A i \in DOMAIN content : kind'[content[i].line] = kind[content[i].line]
  <2> TAKE i \in DOMAIN content
  <2>1. content[i].line \in 1..Len(kind)
    <3>1. content[i].line \in Nat \ {0} /\ content[i].line <= Len(kind) /\ Len(kind) \in Nat
      BY HalvesAreTyped DEF IInv, InOrder, TypeOK
    <3> QED BY <3>1, SMT
  <2>2. kind' = kind \/ \E k \in Kind : kind' = Append(kind, k)
    BY DEF WriteHalf
  <2> QED BY <2>1, <2>2 DEF IInv, TypeOK
<1>6. Paired'
  <2> SUFFICES ASSUME NEW j \in DOMAIN content', content'[j].half = 2
               PROVE  \E i \in DOMAIN content' :
                        i = j - 1 /\ content'[i].line = content'[j].line /\ content'[i].half = 1
    BY DEF Paired
  <2>1. CASE j \in DOMAIN content
    <3>1. PICK i \in DOMAIN content :
                i = j - 1 /\ content[i].line = content[j].line /\ content[i].half = 1
      BY <1>4, <2>1 DEF NInv, Paired
    <3> QED BY <1>4, <2>1, <3>1
  <2>2. CASE j = Len(content')
    <3>1. h.half = 2
      BY <1>4, <2>2
    <3>2. content # <<>> /\ content[Len(content)].half = 1
      <4> SUFFICES ASSUME ~(content # <<>> /\ content[Len(content)].half = 1) PROVE FALSE
        OBVIOUS
      <4> DEFINE g == [line |-> Len(kind'), half |-> 1]
      <4>1. content' = Append(content, g) /\ g.half = 1
        BY DEF WriteHalf
      <4> HIDE DEF g
      <4>2. content'[Len(content')] = g
        BY <1>3, <1>4, <4>1, SMT
      <4> QED BY <1>4, <3>1, <4>1, <4>2
    <3> DEFINE g == [line |-> content[Len(content)].line, half |-> 2]
    <3>3. content' = Append(content, g) /\ g.line = content[Len(content)].line
      BY <3>2 DEF WriteHalf
    <3> HIDE DEF g
    <3>4. content'[Len(content')] = g
      BY <1>3, <1>4, <3>3, SMT
    <3>5. Len(content) \in DOMAIN content /\ Len(content) = j - 1
      BY <1>3, <1>4, <2>2, <3>2, SMT
    <3> QED BY <1>4, <2>2, <3>2, <3>3, <3>4, <3>5
  <2> QED BY <1>4, <2>1, <2>2
<1>7. Identified'
  BY <1>2 DEF NInv, Identified, tail, observers
<1>8. Followed'
  <2> SUFFICES ASSUME ~emptied, ~replaced,
                      NEW i \in DOMAIN content', kind'[content'[i].line] \in {"error", "wide"}
               PROVE  /\ i <= offset => Safe(content'[i].line)
                      /\ phase = "scanning" /\ offset < i /\ i <= size =>
                            content'[i].line \in lost \/ InScan(i)'
    BY <1>2 DEF Followed, Safe, Answered, IsError, tail, observers
  <2>1. offset <= Len(content) /\ (phase = "scanning" => size <= Len(content))
    BY DEF IInv, InPlace
  <2>2. CASE i = Len(content')
    BY <1>3, <1>4, <2>1, <2>2, SMT
  <2>3. CASE i \in DOMAIN content
    <3>1. IsError(content[i].line)
      BY <1>4, <1>5, <2>3 DEF IsError
    <3>2. i <= offset => Safe(content'[i].line)
      BY <1>4, <2>3, <3>1 DEF NInv, Followed
    <3>3. ASSUME phase = "scanning", offset < i, i <= size, content[i].line \notin lost
          PROVE  InScan(i)'
      <4>1. InScan(i)
        BY <2>3, <3>1, <3>3 DEF NInv, Followed
      <4> DEFINE from == ScanFrom(offset, size)
                 n == content[i].line
      <4>2. ScanFrom(offset, size)' = from /\ content'[i].line = n /\ size' = size
        BY <1>2, <1>4, <2>3 DEF ScanFrom, tail
      <4>3. from < i
        BY <4>1 DEF InScan
      <4>4. \A m \in DOMAIN content' :
                from < m /\ content'[m].line < n => kind'[content'[m].line] # "garbled"
        <5> TAKE m \in DOMAIN content'
        <5>1. CASE m \in DOMAIN content
          BY <1>4, <1>5, <4>1, <5>1 DEF InScan
        <5>2. CASE m = Len(content')
          <6>1. n <= h.line /\ n \in Nat /\ h.line \in Nat
            <7>1. content[i].line \in Nat
              BY <2>3, HalvesAreTyped DEF IInv
            <7> QED BY <1>1, <2>3, <7>1 DEF Follows, Half
          <6> HIDE DEF n
          <6>2. ~(h.line < n)
            BY <6>1, SMT
          <6> QED BY <1>4, <5>2, <6>2
        <5> QED BY <1>4, <5>1, <5>2
      <4>5. kind'[n] = "wide" =>
                \E j \in DOMAIN content' :
                    j <= size /\ content'[j].line = n /\ content'[j].half = 2
        <5> SUFFICES ASSUME kind'[n] = "wide"
                     PROVE  \E j \in DOMAIN content' :
                                j <= size /\ content'[j].line = n /\ content'[j].half = 2
          OBVIOUS
        <5>1. PICK j \in DOMAIN content :
                    j <= size /\ content[j].line = n /\ content[j].half = 2
          BY <1>5, <2>3, <4>1 DEF InScan
        <5> QED BY <1>4, <5>1
      <4> HIDE DEF from, n
      <4> QED BY <4>2, <4>3, <4>4, <4>5 DEF InScan
    <3> QED BY <1>4, <2>3, <3>2, <3>3
  <2> QED BY <1>4, <2>2, <2>3
<1> QED BY <1>2, <1>6, <1>7, <1>8 DEF NInv, tail

LEMMA NUpsetLemma ==
    ASSUME IInv, NInv, Rotate \/ Truncate \/ Remove
    PROVE  NInv'
<1>1. DOMAIN content' = {}
  <2>1. content' = <<>>
    BY DEF Rotate, Truncate, Remove
  <2> QED BY <2>1
<1>2. Paired' /\ Followed'
  BY <1>1 DEF Paired, Followed
<1>3. UNCHANGED <<id, offset, phase, lastError>>
  BY DEF Rotate, Truncate, Remove, tail
<1>4. Identified'
  <2>1. id \in Nat /\ inode \in Nat \ {0}
    BY DEF IInv, TypeOK
  <2>2. CASE Rotate
    <3>1. inode' = inode + 1
      BY <2>2 DEF Rotate
    <3>2. id' <= inode' /\ id' # inode'
      BY <1>3, <2>1, <3>1, SMT DEF NInv, Identified
    <3> QED BY <1>3, <3>2 DEF NInv, Identified
  <2>3. CASE Truncate \/ Remove
    BY <1>3, <2>3 DEF NInv, Identified, Truncate, Remove
  <2> QED BY <2>2, <2>3
<1> QED BY <1>2, <1>3, <1>4 DEF NInv

\* Steps that leave the file and the position in it as they were.
LEMMA NQuietLemma ==
    ASSUME IInv, NInv, Create \/ Chmod \/ StatRefused
    PROVE  NInv'
<1>1. UNCHANGED <<content, kind, id, offset, phase, size, lastError, emptied, replaced, lost>>
  BY DEF Create, Chmod, StatRefused, tail, observers, world, Record, NoLine
<1>2. inode' \in {inode, inode + 1}
  BY DEF Create, Chmod, StatRefused, world
<1>3. Paired' /\ lastError' \in Nat
  BY <1>1 DEF NInv, Paired
<1>4. Followed'
  BY <1>1 DEF NInv, Followed, Safe, Answered, IsError, InScan, ScanFrom
<1>5. Identified'
  <2>1. id \in Nat /\ inode \in Nat
    BY DEF IInv, TypeOK
  <2>2. id <= inode'
    BY <1>2, <2>1, SMT DEF NInv, Identified
  <2>3. replaced /\ ~emptied => id # inode'
    <3>1. replaced /\ ~emptied => id < inode
      BY <2>1, SMT DEF NInv, Identified
    <3> QED BY <1>2, <2>1, <3>1, SMT
  <2> QED BY <1>1, <2>2, <2>3 DEF NInv, Identified
<1> QED BY <1>3, <1>4, <1>5 DEF NInv

\* Without a file, and after a restart, there is nothing behind the position.
LEMMA NAnewLemma ==
    ASSUME IInv, NInv, StatMissing \/ Restart
    PROVE  NInv'
<1>1. /\ UNCHANGED <<content, inode>>
      /\ id' = NoId /\ offset' = 0 /\ phase' = "idle"
      /\ ~replaced'
  BY DEF StatMissing, Restart, ForgetUpsets, world, IInv, TypeOK
<1>2. lastError' \in Nat
  BY DEF StatMissing, Restart, Record, NoLine, NInv
<1>3. Paired'
  BY <1>1 DEF NInv, Paired
<1>4. Identified'
  BY <1>1, SMT DEF IInv, TypeOK, Identified, NoId
<1>5. Followed'
  <2>1. \A i \in DOMAIN content : ~(i <= 0)
    BY SMT DEF IInv, TypeOK
  <2> QED BY <1>1, <2>1 DEF Followed
<1> QED BY <1>2, <1>3, <1>4, <1>5 DEF NInv

\* What is behind the position of a file that is taken for the same is safe: it was
\* before, or the file was emptied, and has grown past the position again.
LEMMA BehindIsSafe ==
    ASSUME IInv, NInv, StatPresent, ~Replaced, ~Truncated,
           NEW i \in DOMAIN content, i <= offset, IsError(content[i].line)
    PROVE  content[i].line <= lastError \/ content[i].line \in lost'
<1>1. content \in Seq(Half) /\ offset \in Nat /\ Len(content) \in Nat /\ i \in Nat \ {0}
  BY SMT DEF IInv, TypeOK
<1>2. offset <= Len(content)
  BY <1>1, SMT DEF Truncated
<1>3. CASE ~emptied /\ ~replaced
  <2>1. Safe(content[i].line)
    BY <1>3 DEF NInv, Followed
  <2> QED BY <2>1 DEF Safe, Answered, StatPresent, StatIsSeen
<1>4. CASE emptied \/ replaced
  <2>1. id # NoId
    BY <1>1, SMT DEF NInv, Identified
  <2>2. Identify = id
    BY <2>1 DEF Replaced
  <2>3. emptied
    BY <1>4, <2>2 DEF NInv, Identified, Identify
  <2>4. Len(content) >= offset
    BY <1>1, <1>2, SMT
  <2>5. LinesIn(SubSeq(content, 0 + 1, offset)) \subseteq lost'
    BY <2>2, <2>3, <2>4 DEF StatPresent, StatIsSeen
  <2>6. content[i].line \in LinesIn(SubSeq(content, 0 + 1, offset))
    <3>1. 0 \in Nat /\ 0 < i
      BY <1>1, SMT
    <3> QED BY <1>1, <1>2, <3>1, InStretch
  <2> QED BY <2>5, <2>6
<1> QED BY <1>3, <1>4

\* What the observer of a stat puts down as lost.
LEMMA LostAtStat ==
    ASSUME StatPresent
    PROVE  LET seen == IF Replaced \/ Truncated THEN 0 ELSE offset
               from == ScanFrom(seen, Len(content))
               chunk == LinesIn(SubSeq(content, from + 1, Len(content)))
           IN  /\ LinesIn(SubSeq(content, seen + 1, from)) \subseteq lost'
               /\ \A n, m \in chunk : m < n /\ kind[m] = "garbled" => n \in lost'
               /\ \A n \in LinesIn(content) \ Whole(content) : kind[n] = "wide" => n \in lost'
BY DEF StatPresent, StatIsSeen

LEMMA NStatPresentLemma ==
    ASSUME IInv, NInv, StatPresent, TailAssumption
    PROVE  NInv'
<1> DEFINE seen == IF Replaced \/ Truncated THEN 0 ELSE offset
           from == ScanFrom(seen, Len(content))
           chunk == LinesIn(SubSeq(content, from + 1, Len(content)))
<1>1. /\ id' = inode
      /\ IF Len(content) > seen
         THEN phase' = "scanning" /\ offset' = seen /\ size' = Len(content)
         ELSE offset' = Len(content) /\ UNCHANGED <<phase, size>>
      /\ phase = "idle" /\ ~replaced' /\ lastError' = lastError
      /\ UNCHANGED <<content, inode, kind>>
  BY DEF StatPresent, ForgetUpsets, Identify, world, Record, NoLine
<1>2. /\ content \in Seq(Half) /\ Len(content) \in Nat /\ offset \in Nat
      /\ inode \in Nat \ {0} /\ MaxScan \in Nat \ {0}
  BY DEF IInv, TypeOK, TailAssumption
<1>3. seen \in Nat
  BY <1>2
<1>4. /\ LinesIn(SubSeq(content, seen + 1, from)) \subseteq lost'
      /\ \A n, m \in chunk : m < n /\ kind[m] = "garbled" => n \in lost'
      /\ \A n \in LinesIn(content) \ Whole(content) : kind[n] = "wide" => n \in lost'
  BY LostAtStat
<1>5. ASSUME NEW i \in DOMAIN content, IsError(content[i].line), i <= offset'
      PROVE  content[i].line <= lastError \/ content[i].line \in lost'
  <2>1. i \in Nat \ {0} /\ i <= Len(content)
    BY <1>2, SMT
  <2>2. ~Replaced /\ ~Truncated
    BY <1>1, <1>2, <1>5, <2>1, SMT
  <2>3. i <= offset
    BY <1>1, <1>2, <1>5, <2>1, <2>2, SMT DEF Truncated
  <2> QED BY <1>5, <2>2, <2>3, BehindIsSafe
<1> HIDE DEF seen
<1>6. from \in Nat
  BY <1>2, <1>3, SMT DEF ScanFrom
<1>7. Len(content) > seen => from <= Len(content) /\ seen <= from
  BY <1>2, <1>3, SMT DEF ScanFrom
<1>8. ASSUME NEW i \in DOMAIN content, IsError(content[i].line),
             phase' = "scanning", offset' < i, i <= size', content[i].line \notin lost'
      PROVE  InScan(i)'
  <2> DEFINE n == content[i].line
  <2>1. Len(content) > seen /\ offset' = seen /\ size' = Len(content)
    BY <1>1, <1>8
  <2>2. from <= Len(content) /\ ScanFrom(offset, size)' = from
    BY <1>1, <1>7, <2>1 DEF ScanFrom
  <2> HIDE DEF from
  <2>3. i \in Nat /\ i <= Len(content) /\ seen < i
    BY <1>2, <1>8, <2>1, SMT
  <2>4. from < i
    <3> SUFFICES ASSUME ~(from < i) PROVE FALSE
      OBVIOUS
    <3>1. i <= from
      BY <1>6, <2>3, SMT
    <3>2. n \in LinesIn(SubSeq(content, seen + 1, from))
      BY <1>2, <1>3, <1>6, <2>2, <2>3, <3>1, InStretch
    <3> QED BY <1>4, <1>8, <3>2
  <2>5. ASSUME NEW m \in DOMAIN content, from < m
        PROVE  content[m].line \in chunk
    <3>1. m <= Len(content) /\ Len(content) <= Len(content)
      BY <1>2, SMT
    <3> QED BY <1>2, <1>6, <2>5, <3>1, InStretch
  <2> HIDE DEF chunk
  <2>6. \A m \in DOMAIN content : from < m /\ content[m].line < n => kind[content[m].line] # "garbled"
    BY <1>4, <1>8, <2>4, <2>5
  <2>7. kind[n] = "wide" =>
            \E j \in DOMAIN content : j <= size' /\ content[j].line = n /\ content[j].half = 2
    <3>1. kind[n] = "wide" => n \in Whole(content)
      BY <1>4, <1>8 DEF LinesIn
    <3>2. \A j \in DOMAIN content : j <= size'
      BY <1>2, <2>1, SMT
    <3> QED BY <3>1, <3>2 DEF Whole
  <2> QED BY <1>1, <2>2, <2>4, <2>6, <2>7 DEF InScan
<1>9. Followed'
  <2> SUFFICES ASSUME NEW i \in DOMAIN content, kind[content[i].line] \in {"error", "wide"}
               PROVE  /\ i <= offset' => content[i].line <= lastError \/ content[i].line \in lost'
                      /\ phase' = "scanning" /\ offset' < i /\ i <= size' =>
                            content[i].line \in lost' \/ InScan(i)'
    BY <1>1 DEF Followed, Safe, Answered, IsError
  <2> QED BY <1>5, <1>8 DEF IsError
<1>10. Paired' /\ lastError' \in Nat
  BY <1>1 DEF NInv, Paired
<1>11. Identified'
  BY <1>1, <1>2, SMT DEF Identified, NoId
<1> QED BY <1>9, <1>10, <1>11 DEF NInv

\* An error line that the scan to come reads is matched by it.
LEMMA ReadIsMatched ==
    ASSUME IInv, NInv, TailAssumption, phase = "scanning", ~emptied, ~replaced,
           NEW p \in DOMAIN content, content[p].half = 1, p <= size,
           IsError(content[p].line), InScan(p)
    PROVE  LET chunk == Chunk(content, ScanFrom(offset, size))
           IN  content[p].line \in Legible(chunk) /\ Matches(chunk, content[p].line)
<1> DEFINE from == ScanFrom(offset, size)
           end == Smaller(from + MaxScan, Len(content))
           chunk == SubSeq(content, from + 1, end)
           n == content[p].line
<1>1. /\ content \in Seq(Half) /\ Len(content) \in Nat /\ offset \in Nat /\ size \in Nat
      /\ MaxScan \in Nat \ {0}
  BY DEF IInv, TypeOK, TailAssumption
<1>2. from \in Nat /\ size <= Len(content)
  <2>1. size <= Len(content)
    BY DEF IInv, InPlace
  <2> QED BY <1>1, <2>1, SMT DEF ScanFrom
<1>3. end \in Nat /\ end <= Len(content) /\ size <= end
  BY <1>1, <1>2, SMT DEF ScanFrom, Smaller
<1>4. from < p
  BY DEF InScan
<1>5. \A m \in DOMAIN content :
        from < m /\ content[m].line < n => kind[content[m].line] # "garbled"
  BY DEF InScan
<1>6. kind[n] = "wide" =>
        \E j \in DOMAIN content : j <= size /\ content[j].line = n /\ content[j].half = 2
  BY DEF InScan
<1>7. Chunk(content, from) = chunk
  BY DEF Chunk
<1> HIDE DEF from, end
<1>8. \A k \in DOMAIN chunk : k + from \in DOMAIN content /\ chunk[k] = content[k + from]
  BY <1>1, <1>2, <1>3, SMT
<1>9. ASSUME NEW j \in DOMAIN content, from < j, j <= size
      PROVE  j - from \in DOMAIN chunk /\ chunk[j - from] = content[j]
  <2>1. j \in Nat /\ j <= end /\ j - from \in 1..(end - from)
    BY <1>1, <1>2, <1>3, <1>9, SMT
  <2> QED BY <1>1, <1>2, <1>3, <2>1, SMT
<1>10. n \in LinesIn(chunk) /\ 1 \in HalvesOf(chunk, n)
  BY <1>4, <1>9 DEF LinesIn, HalvesOf
<1>11. \A k \in DOMAIN chunk : from < k + from
  BY <1>1, <1>2, <1>3, SMT
<1>12. n \in Legible(chunk)
  <2> SUFFICES ASSUME NEW k \in DOMAIN chunk, chunk[k].line <= n,
                      kind[chunk[k].line] = "garbled"
               PROVE  FALSE
    BY <1>10 DEF Legible, LinesIn
  <2>1. k + from \in DOMAIN content /\ chunk[k] = content[k + from] /\ from < k + from
    BY <1>8, <1>11
  <2>2. ~(content[k + from].line < n)
    BY <1>5, <2>1
  <2>3. content[k + from].line \in Nat /\ n \in Nat
    BY <2>1, HalvesAreTyped DEF IInv
  <2>4. content[k + from].line = n
    <3> HIDE DEF n, chunk
    <3> QED BY <2>1, <2>2, <2>3, SMT
  <2> QED BY <2>1, <2>4 DEF IsError
<1>13. Matches(chunk, n)
  <2>1. CASE kind[n] = "error"
    BY <1>10, <2>1 DEF Matches
  <2>2. CASE kind[n] = "wide"
    <3>1. PICK j \in DOMAIN content : j <= size /\ content[j].line = n /\ content[j].half = 2
      BY <1>6, <2>2
    <3>2. from < j
      <4> SUFFICES ASSUME ~(from < j) PROVE FALSE
        OBVIOUS
      <4>1. j < p /\ j \in Nat /\ p \in Nat
        BY <1>1, <1>2, <1>4, SMT
      <4>2. Follows(content[j], content[p])
        BY <4>1 DEF IInv, InOrder
      <4>3. n \in Nat
        BY HalvesAreTyped DEF IInv
      <4>4. content[j].half # 1 /\ ~(content[j].line < content[p].line)
        <5> HIDE DEF n
        <5>1. ~(n < n)
          BY <4>3, SMT
        <5> QED BY <3>1, <5>1 DEF n
      <4> QED BY <4>2, <4>4 DEF Follows
    <3>3. 2 \in HalvesOf(chunk, n)
      BY <1>9, <3>1, <3>2 DEF HalvesOf
    <3>4. HalvesOf(chunk, n) \subseteq {1, 2}
      <4>1. \A k \in DOMAIN content : content[k].half \in {1, 2}
        BY HalvesAreTyped DEF Half, IInv
      <4> HIDE DEF chunk, n
      <4> QED BY <1>8, <4>1 DEF HalvesOf
    <3> QED BY <1>10, <2>2, <3>3, <3>4 DEF Matches
  <2> QED BY <2>1, <2>2 DEF IsError
<1> QED BY <1>7, <1>12, <1>13 DEF from

\* The line a scan reports is one it has read, none before it, and there is one if
\* there is a match.
LEMMA LastMatchIsLast ==
    ASSUME IInv, TailAssumption, phase = "scanning"
    PROVE  LET chunk == Chunk(content, ScanFrom(offset, size))
               line  == LastMatch(chunk)
           IN  /\ line \in Nat
               /\ line # NoLine =>
                    \E q \in DOMAIN content : offset < q /\ content[q].line = line
               /\ \A n \in Legible(chunk) : Matches(chunk, n) => n <= line
<1> DEFINE from == ScanFrom(offset, size)
           end == Smaller(from + MaxScan, Len(content))
           chunk == SubSeq(content, from + 1, end)
           hits == {n \in Legible(chunk) : Matches(chunk, n)}
<1>1. /\ content \in Seq(Half) /\ Len(content) \in Nat /\ offset \in Nat /\ size \in Nat
      /\ MaxScan \in Nat \ {0} /\ Len(kind) \in Nat
  BY DEF IInv, TypeOK, TailAssumption
<1>2. from \in Nat /\ from >= offset
  <2>1. offset < size
    BY DEF IInv, Read
  <2> QED BY <1>1, <2>1, SMT DEF ScanFrom
<1>3. end \in Nat /\ end <= Len(content)
  BY <1>1, <1>2, SMT DEF Smaller
<1>4. Chunk(content, from) = chunk
  BY DEF Chunk
<1>5. LastMatch(chunk) = IF hits = {} THEN NoLine ELSE Max(hits)
  BY DEF LastMatch
<1> HIDE DEF from, end
<1>6. \A k \in DOMAIN chunk :
        k + from \in DOMAIN content /\ chunk[k] = content[k + from] /\ offset < k + from
  BY <1>1, <1>2, <1>3, SMT
<1>7. ASSUME NEW n \in hits
      PROVE  n \in 0..Len(kind) /\ \E q \in DOMAIN content : offset < q /\ content[q].line = n
  <2>1. PICK k \in DOMAIN chunk : chunk[k].line = n
    BY DEF Legible, LinesIn
  <2>2. k + from \in DOMAIN content /\ content[k + from].line = n /\ offset < k + from
    BY <1>6, <2>1
  <2>3. content[k + from].line \in Nat /\ content[k + from].line <= Len(kind)
    BY <2>2, HalvesAreTyped DEF IInv, InOrder
  <2>4. n \in 0..Len(kind)
    <3> HIDE DEF hits
    <3> QED BY <1>1, <2>2, <2>3, SMT
  <2> QED BY <2>2, <2>4
<1>8. \A n \in hits : Max(hits) \in hits /\ n <= Max(hits)
  <2>1. hits \in SUBSET (0..Len(kind))
    BY <1>7
  <2> HIDE DEF hits
  <2> QED BY <1>1, <2>1, MaxIsGreatest
<1>9. LastMatch(chunk) \in hits \/ (LastMatch(chunk) = NoLine /\ hits = {})
  <2> HIDE DEF hits
  <2> QED BY <1>5, <1>8
<1>10. LastMatch(chunk) \in Nat
  <2>1. \A n \in hits : n \in Nat
    BY <1>7
  <2> HIDE DEF hits
  <2> QED BY <1>9, <2>1 DEF NoLine
<1>11. \A n \in hits : n <= LastMatch(chunk)
  <2> HIDE DEF hits
  <2> QED BY <1>5, <1>8
<1>12. LastMatch(chunk) # NoLine =>
            \E q \in DOMAIN content : offset < q /\ content[q].line = LastMatch(chunk)
  <2> HIDE DEF hits
  <2> QED BY <1>7, <1>9
<1> HIDE DEF chunk
<1> QED BY <1>4, <1>10, <1>11, <1>12 DEF from, hits

\* Every line of a file is there from its first half on.
LEMMA FirstHalf ==
    ASSUME IInv, NInv, NEW i \in DOMAIN content
    PROVE  \E p \in DOMAIN content :
            p <= i /\ content[p].line = content[i].line /\ content[p].half = 1
<1>1. i \in Nat /\ i <= i /\ i - 1 <= i
  BY SMT DEF IInv, TypeOK
<1>2. content[i].half \in {1, 2}
  BY HalvesAreTyped DEF IInv, Half
<1>3. CASE content[i].half = 1
  BY <1>1, <1>3
<1>4. CASE content[i].half = 2
  BY <1>1, <1>4 DEF NInv, Paired
<1> QED BY <1>2, <1>3, <1>4

LEMMA NScanLemma ==
    ASSUME IInv, NInv, Scan, TailAssumption
    PROVE  NInv'
<1> DEFINE chunk == Chunk(content, ScanFrom(offset, size))
           line == LastMatch(chunk)
<1>1. /\ phase = "scanning" /\ phase' = "idle" /\ offset' = size
      /\ lastError' = IF line = NoLine THEN lastError ELSE line
      /\ UNCHANGED <<content, kind, inode, id, emptied, replaced, lost>>
  BY DEF Scan, EndScan, Record, world
<1>2. /\ line \in Nat
      /\ line # NoLine => \E q \in DOMAIN content : offset < q /\ content[q].line = line
      /\ \A n \in Legible(chunk) : Matches(chunk, n) => n <= line
  BY <1>1, LastMatchIsLast
<1>3. offset \in Nat /\ size \in Nat /\ \A q \in DOMAIN content : q \in Nat
  BY SMT DEF IInv, TypeOK
<1>4. \A q \in DOMAIN content : content[q].line \in Nat \ {0}
  BY HalvesAreTyped DEF IInv
<1> HIDE DEF line, chunk
<1>5. lastError' \in Nat
  BY <1>1, <1>2 DEF NInv
<1>6. Paired' /\ Identified'
  BY <1>1 DEF NInv, Paired, Identified
<1>7. ASSUME ~emptied, ~replaced, NEW i \in DOMAIN content, IsError(content[i].line),
             i <= offset
      PROVE  content[i].line <= lastError' \/ content[i].line \in lost
  <2>1. content[i].line <= lastError \/ content[i].line \in lost
    BY <1>7 DEF NInv, Followed, Safe, Answered
  <2>2. CASE line = NoLine
    BY <1>1, <2>1, <2>2
  <2>3. CASE line # NoLine
    <3>1. PICK q \in DOMAIN content : offset < q /\ content[q].line = line
      BY <1>2, <2>3
    <3>2. i < q
      BY <1>3, <1>7, <3>1, SMT
    <3>3. content[i].line <= content[q].line
      <4>1. content[i].line < content[q].line \/ content[i].line = content[q].line
        BY <3>2 DEF IInv, InOrder, Follows
      <4> QED BY <1>4, <4>1
    <3> QED BY <1>1, <2>3, <3>1, <3>3
  <2> QED BY <2>2, <2>3
<1>8. ASSUME ~emptied, ~replaced, NEW i \in DOMAIN content, IsError(content[i].line),
             i <= size
      PROVE  content[i].line <= lastError' \/ content[i].line \in lost
  <2>1. PICK p \in DOMAIN content :
            p <= i /\ content[p].line = content[i].line /\ content[p].half = 1
    BY FirstHalf
  <2>2. CASE p <= offset
    BY <1>7, <1>8, <2>1, <2>2
  <2>3. CASE offset < p
    <3>1. p <= size
      BY <1>3, <1>8, <2>1, SMT
    <3>2. content[p].line \in lost \/ InScan(p)
      BY <1>1, <1>8, <2>1, <2>3, <3>1 DEF NInv, Followed
    <3>3. CASE InScan(p)
      <4>1. content[p].line \in Legible(chunk) /\ Matches(chunk, content[p].line)
        BY <1>1, <1>8, <2>1, <3>1, <3>3, ReadIsMatched DEF chunk
      <4>2. content[p].line <= line
        BY <1>2, <4>1
      <4>3. line # NoLine
        BY <1>2, <1>4, <4>2, SMT DEF NoLine
      <4> QED BY <1>1, <2>1, <4>2, <4>3
    <3> QED BY <2>1, <3>2, <3>3
  <2> QED BY <1>3, <2>2, <2>3, SMT
<1>9. Followed'
  BY <1>1, <1>8 DEF Followed, Safe, Answered, IsError
<1> QED BY <1>5, <1>6, <1>9 DEF NInv

LEMMA NScanFailsLemma ==
    ASSUME IInv, NInv, ScanFails
    PROVE  NInv'
<1>1. /\ phase = "scanning" /\ phase' = "idle" /\ offset' = size /\ lastError' = lastError
      /\ lost' = lost \cup LinesIn(SubSeq(content, offset + 1, Smaller(size, Len(content))))
      /\ UNCHANGED <<content, kind, inode, id, emptied, replaced>>
  BY DEF ScanFails, EndScan, Record, world, NoLine
<1>2. content \in Seq(Half) /\ offset \in Nat /\ size \in Nat /\ Len(content) \in Nat
  BY DEF IInv, TypeOK
<1>3. Paired' /\ Identified' /\ lastError' \in Nat
  BY <1>1 DEF NInv, Paired, Identified
<1>4. Followed'
  <2> SUFFICES ASSUME ~emptied, ~replaced, NEW i \in DOMAIN content,
                      IsError(content[i].line), i <= size
               PROVE  content[i].line <= lastError \/ content[i].line \in lost'
    BY <1>1 DEF Followed, Safe, Answered, IsError
  <2>1. CASE i <= offset
    BY <1>1, <2>1 DEF NInv, Followed, Safe, Answered
  <2>2. CASE offset < i
    <3>1. size <= Len(content) /\ Smaller(size, Len(content)) = size
      BY <1>1 DEF IInv, InPlace, Smaller
    <3>2. content[i].line \in LinesIn(SubSeq(content, offset + 1, size))
      BY <1>2, <2>2, <3>1, InStretch
    <3> QED BY <1>1, <3>1, <3>2
  <2> QED BY <1>2, <2>1, <2>2, SMT
<1> QED BY <1>3, <1>4 DEF NInv

LEMMA NNextLemma ==
    ASSUME IInv, NInv, [Next]_vars, TailAssumption
    PROVE  NInv'
<1>1. CASE UNCHANGED vars
  BY <1>1 DEF NInv, Paired, Identified, Followed, Safe, Answered, IsError, InScan, ScanFrom,
              vars, world, tail, observers
<1>2. CASE Next
  BY <1>2, NWriteHalfLemma, NUpsetLemma, NQuietLemma, NAnewLemma, NStatPresentLemma,
     NScanLemma, NScanFailsLemma DEF Next
<1> QED BY <1>1, <1>2

\* Nothing is missed (Tail::poll, Tail::scan): whatever happens to the log between looks
\* and inside them, an error line behind the position is the one recorded, or a later one
\* is, or it is one of those that the code gives up.
THEOREM NothingMissedTheorem == Spec => []NothingMissed
<1>1. Init => IInv /\ NInv
  BY InitLemma, NInitLemma
<1>2. IInv /\ NInv /\ [Next]_vars => IInv' /\ NInv'
  BY NextLemma, NNextLemma, TailAssumption
<1>3. IInv /\ NInv => NothingMissed
  <2> SUFFICES ASSUME IInv, NInv, Settled, NEW n \in Accounted
               PROVE  Answered(n) \/ n \in lost
    BY DEF NothingMissed
  <2> DEFINE end == Smaller(offset, Len(content))
  <2>1. content \in Seq(Half) /\ Len(content) \in Nat /\ offset \in Nat
    BY DEF IInv, TypeOK
  <2>2. end \in Nat /\ end <= Len(content) /\ end <= offset
    BY <2>1, SMT DEF Smaller
  <2>3. n \in Whole(SubSeq(content, 1, end)) /\ IsError(n)
    BY DEF Accounted
  <2> HIDE DEF end
  <2>4. PICK i \in DOMAIN SubSeq(content, 1, end) : SubSeq(content, 1, end)[i].line = n
    BY <2>3 DEF Whole
  <2>5. i \in DOMAIN content /\ content[i].line = n /\ i <= offset
    <3>1. i \in DOMAIN content /\ SubSeq(content, 1, end)[i] = content[i] /\ i <= offset
      BY <2>1, <2>2, SMT
    <3> QED BY <2>4, <3>1
  <2> QED BY <2>3, <2>5 DEF NInv, Followed, Settled, Safe
<1> QED BY <1>1, <1>2, <1>3, PTL DEF Spec

=============================================================================
