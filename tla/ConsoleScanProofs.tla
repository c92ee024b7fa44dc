------------------------- MODULE ConsoleScanProofs -------------------------
(***************************************************************************)
(* Proofs about the scanner, for every alphabet, marker, line buffer and   *)
(* length kept.                                                            *)
(***************************************************************************)
EXTENDS ConsoleScan, WellFoundedInduction, TLAPS

\* The buffer holds the end of the line: all of it while the line fits, more
\* than Keep characters otherwise.
Dropped == Len(raw) - Len(line)
BufferInv ==
    /\ Dropped >= 0
    /\ \A i \in 1..Len(line) : line[i] = raw[Dropped + i]
    /\ Dropped > 0 => Len(line) > Keep /\ Len(raw) > LineCap

\* As long as every line fits, the first line with the marker is the one whose
\* status is told.
AllFit == \A i \in 1..Len(raws) : Len(raws[i]) <= LineCap
FirstHit(k) ==
    /\ HasMarker(raws[k])
    /\ \A j \in 1..Len(raws) : HasMarker(raws[j]) => k <= j
ExactInv ==
    AllFit => /\ marker_seen => \E k \in 1..Len(raws) : FirstHit(k) /\ told = Told(raws[k])
              /\ \A i \in 1..Len(raws) : HasMarker(raws[i]) => marker_seen

\* A line is checked: at its newline, or when the main loop ends.
Checked == CheckLine /\ raws' = Append(raws, raw)

----------------------------------------------------------------------------
\* First finds the least offset of a set that has one.
LEMMA FirstIsLeast ==
    ASSUME NEW S, S \subseteq Nat, S # {}
    PROVE  First(S) \in S /\ \A j \in S : First(S) <= j
<1> DEFINE Less == OpToRel(<, Nat)
<1>1. \E m \in S : \A k \in S : ~(<<k, m>> \in Less)
  <2>1. IsWellFoundedOn(Less, Nat)
    BY NatLessThanWellFounded
  <2> HIDE DEF Less
  <2> QED
    BY <2>1, WFMin
<1>2. \A m, k \in Nat : k < m => <<k, m>> \in Less
  BY DEF OpToRel
<1> HIDE DEF Less
<1>3. PICK m \in S : \A k \in S : ~(<<k, m>> \in Less)
  BY <1>1
<1>4. ASSUME NEW k \in S PROVE m <= k
  <2>1. ~(k < m)
    BY <1>2, <1>3
  <2> QED
    BY <2>1
<1> QED
  BY <1>4 DEF First

\* The text after "status=" is a text.
LEMMA ToldType ==
    ASSUME NEW s \in Seq(Letters)
    PROVE  Told(s) \in Seq(Letters)
<1> DEFINE after == {i \in At(s, StatusWord) : i >= First(At(s, Marker))}
           a == First(after) + Len(StatusWord) + 1
<1>1. CASE after = {}
  BY <1>1 DEF Told
<1>2. CASE after # {}
  <2>1. after \subseteq Nat
    BY DEF At
  <2>2. First(after) \in Nat
    BY <1>2, <2>1, FirstIsLeast
  <2>3. a \in Nat /\ a >= 1
    BY <2>2, ScanAssumption
  <2> HIDE DEF a
  <2>4. SubSeq(s, a, Len(s)) \in Seq(Letters)
    BY <2>3
  <2> QED
    BY <1>2, <2>4 DEF Told, a
<1> QED
  BY <1>1, <1>2

\* The end that is kept of a line that does not fit.
LEMMA KeepEndElements ==
    ASSUME TypeOK, Full
    PROVE  /\ KeepEnd \in Seq(Letters) /\ Len(KeepEnd) = Keep
           /\ \A i \in 1..Keep : KeepEnd[i] = line[LineCap - Keep + i]
BY ScanAssumption DEF TypeOK, Full, KeepEnd

\* The initial state has the types.
LEMMA TypeInit == Init => TypeOK
<1>1. <<>> \in Seq(Letters) /\ <<>> \in Seq(Seq(Letters)) /\ Len(<<>>) = 0
  OBVIOUS
<1> QED
  <2> SUFFICES ASSUME Init PROVE TypeOK
    OBVIOUS
  <2>1. line \in Seq(Letters) /\ Len(line) <= LineCap /\ used \in 0..MaxChars
    BY <1>1, ScanAssumption DEF Init
  <2>2. told \in Seq(Letters) /\ raw \in Seq(Letters) /\ raws \in Seq(Seq(Letters))
    BY <1>1, Zenon DEF Init
  <2>3. marker_seen \in BOOLEAN /\ ended \in BOOLEAN
    BY DEF Init
  <2> QED
    BY <2>1, <2>2, <2>3 DEF TypeOK

\* Every step keeps the types, the bound on ps2link_line_length included.
LEMMA TypeStep == TypeOK /\ [Next]_vars => TypeOK'
<1> SUFFICES ASSUME TypeOK, [Next]_vars PROVE TypeOK'
  OBVIOUS
<1>1. ASSUME CheckLine
      PROVE  marker_seen' \in BOOLEAN /\ told' \in Seq(Letters)
  BY <1>1, ToldType DEF CheckLine, TypeOK
<1>2. CASE Newline
  BY <1>1, <1>2, ScanAssumption DEF Newline, Scanning, TypeOK
<1>3. CASE Ignored
  BY <1>3, ScanAssumption DEF Ignored, Scanning, TypeOK
<1>4. ASSUME NEW c \in Letters, Letter(c)
      PROVE  TypeOK'
  <2>1. line' \in Seq(Letters) /\ Len(line') <= LineCap
    <3>1. CASE Full
      BY <1>4, <3>1, KeepEndElements, ScanAssumption DEF Letter
    <3>2. CASE ~Full
      BY <1>4, <3>2, ScanAssumption DEF Letter, Full, TypeOK
    <3> QED
      BY <3>1, <3>2
  <2> QED
    BY <1>4, <2>1, ScanAssumption DEF Letter, Scanning, TypeOK
<1>5. CASE CheckPartial
  <2>1. CASE Len(line) > 0
    <3>1. CheckLine /\ raws' = Append(raws, raw) /\ ended' = TRUE /\ UNCHANGED <<line, used, raw>>
      BY <1>5, <2>1 DEF CheckPartial
    <3>2. raws' \in Seq(Seq(Letters))
      BY <3>1 DEF TypeOK
    <3> QED
      BY <1>1, <3>1, <3>2 DEF TypeOK
  <2>2. CASE ~(Len(line) > 0)
    BY <1>5, <2>2 DEF CheckPartial, TypeOK
  <2> QED
    BY <2>1, <2>2
<1>6. CASE UNCHANGED vars
  BY <1>6 DEF vars, TypeOK
<1> QED
  BY <1>2, <1>3, <1>4, <1>5, <1>6 DEF Next

\* Type correctness: no line is ever longer than its buffer.
THEOREM BufferIsSafe == Spec => []TypeOK
  BY TypeInit, TypeStep, PTL DEF Spec
----------------------------------------------------------------------------
(* The buffer is the end of the line.                                      *)

\* Nothing is dropped at first.
LEMMA BufferInit == Init => BufferInv
<1>1. Len(<<>>) = 0
  OBVIOUS
<1> QED
  BY <1>1 DEF Init, BufferInv, Dropped

\* Every step keeps the end of the line, and enough of it.
LEMMA BufferStep == TypeOK /\ BufferInv /\ [Next]_vars => BufferInv'
<1> SUFFICES ASSUME TypeOK, BufferInv, [Next]_vars PROVE BufferInv'
  OBVIOUS
<1> USE ScanAssumption
<1>1. CASE Newline
  <2>1. line' = <<>> /\ raw' = <<>> /\ Len(<<>>) = 0
    BY <1>1 DEF Newline
  <2> QED
    BY <2>1 DEF BufferInv, Dropped
<1>2. CASE Ignored \/ CheckPartial \/ UNCHANGED vars
  BY <1>2 DEF Ignored, CheckPartial, vars, BufferInv, Dropped
<1>3. ASSUME NEW c \in Letters, Letter(c)
      PROVE  BufferInv'
  <2>1. /\ raw' = Append(raw, c) /\ raw \in Seq(Letters) /\ Len(raw) \in Nat
        /\ Len(raw') = Len(raw) + 1 /\ raw'[Len(raw) + 1] = c
        /\ \A i \in 1..Len(raw) : raw'[i] = raw[i]
    BY <1>3 DEF Letter, TypeOK
  <2>2. CASE Full
    <3> DEFINE k == KeepEnd
    <3>1. /\ k \in Seq(Letters) /\ Len(k) = Keep
          /\ \A i \in 1..Keep : k[i] = line[LineCap - Keep + i]
      BY <2>2, KeepEndElements
    <3>2. line' = Append(k, c) /\ Len(line) = LineCap
      BY <1>3, <2>2 DEF Letter, Full
    <3> HIDE DEF k
    <3>3. /\ Len(line') = Keep + 1 /\ line'[Keep + 1] = c
          /\ \A i \in 1..Keep : line'[i] = line[LineCap - Keep + i]
      BY <3>1, <3>2
    <3>4. Len(raw) >= LineCap /\ \A i \in 1..LineCap : line[i] = raw[Len(raw) - LineCap + i]
      BY <2>1, <3>2 DEF BufferInv, Dropped
    <3>5. ASSUME NEW i \in 1..Keep
          PROVE  line'[i] = raw'[Len(raw) - Keep + i]
      <4>1. LineCap - Keep + i \in 1..LineCap /\ Len(raw) - Keep + i \in 1..Len(raw)
        BY <2>1, <3>4
      <4>2. line[LineCap - Keep + i] = raw[Len(raw) - LineCap + (LineCap - Keep + i)]
        BY <3>4, <4>1
      <4>3. Len(raw) - LineCap + (LineCap - Keep + i) = Len(raw) - Keep + i
        BY <2>1
      <4> QED
        BY <2>1, <3>3, <4>1, <4>2, <4>3
    <3>6. Dropped' = Len(raw) - Keep /\ Dropped' > 0 /\ Len(raw') > LineCap
      BY <2>1, <3>3, <3>4 DEF Dropped
    <3>7. ASSUME NEW i \in 1..Len(line')
          PROVE  line'[i] = raw'[Dropped' + i]
      <4>1. CASE i = Keep + 1
        <5>1. Dropped' + i = Len(raw) + 1
          BY <2>1, <3>6, <4>1
        <5> QED
          BY <2>1, <3>3, <4>1, <5>1
      <4>2. CASE i \in 1..Keep
        BY <3>5, <3>6, <4>2
      <4> QED
        BY <3>3, <4>1, <4>2
    <3>8. Dropped' >= 0 /\ Len(line') > Keep
      BY <2>1, <3>3, <3>6
    <3> QED
      BY <3>6, <3>7, <3>8 DEF BufferInv
  <2>3. CASE ~Full
    <3>1. /\ line' = Append(line, c) /\ Len(line) \in Nat
          /\ Len(line') = Len(line) + 1 /\ line'[Len(line) + 1] = c
          /\ \A i \in 1..Len(line) : line'[i] = line[i]
      BY <1>3, <2>3 DEF Letter, TypeOK
    <3>2. Dropped' = Dropped /\ Dropped \in Nat /\ Dropped + Len(line) = Len(raw)
      BY <2>1, <3>1 DEF BufferInv, Dropped
    <3>3. ASSUME NEW i \in 1..Len(line)
          PROVE  line'[i] = raw'[Dropped + i]
      <4>1. Dropped + i \in 1..Len(raw)
        BY <2>1, <3>1, <3>2
      <4>2. line[i] = raw[Dropped + i]
        BY DEF BufferInv
      <4> QED
        BY <2>1, <3>1, <4>1, <4>2
    <3>4. line'[Len(line) + 1] = raw'[Dropped + (Len(line) + 1)]
      BY <2>1, <3>1, <3>2
    <3>5. ASSUME NEW i \in 1..Len(line')
          PROVE  line'[i] = raw'[Dropped' + i]
      <4>1. i \in 1..Len(line) \/ i = Len(line) + 1
        BY <3>1
      <4> QED
        BY <3>2, <3>3, <3>4, <4>1
    <3>6. Dropped' > 0 => Len(line') > Keep /\ Len(raw') > LineCap
      BY <2>1, <3>1, <3>2 DEF BufferInv
    <3> QED
      BY <3>2, <3>5, <3>6 DEF BufferInv
  <2> QED
    BY <2>2, <2>3
<1> QED
  BY <1>1, <1>2, <1>3 DEF Next

\* What strstr finds in the buffer is in the line.
LEMMA FoundInLine ==
    ASSUME TypeOK, BufferInv, HasMarker(line)
    PROVE  HasMarker(raw)
<1>1. PICK i \in At(line, Marker) : TRUE
  BY DEF HasMarker
<1>2. /\ i \in 0..(Len(line) - Len(Marker))
      /\ \A j \in 1..Len(Marker) : line[i + j] = Marker[j]
  BY <1>1 DEF At
<1>3. /\ Len(line) \in Nat /\ Len(raw) \in Nat /\ Len(Marker) \in Nat
      /\ Dropped \in Nat /\ Len(raw) = Dropped + Len(line)
  BY ScanAssumption DEF TypeOK, BufferInv, Dropped
<1>4. i + Dropped \in 0..(Len(raw) - Len(Marker))
  BY <1>2, <1>3
<1>5. ASSUME NEW j \in 1..Len(Marker) PROVE raw[i + Dropped + j] = Marker[j]
  <2>1. i + j \in 1..Len(line) /\ Dropped + (i + j) = i + Dropped + j
    BY <1>2, <1>3
  <2>2. line[i + j] = raw[Dropped + (i + j)]
    BY <2>1 DEF BufferInv
  <2> QED
    BY <1>2, <2>1, <2>2
<1> QED
  BY <1>4, <1>5 DEF HasMarker, At

\* What starts in the last Keep characters of the line is in the buffer.
LEMMA EndInBuffer ==
    ASSUME TypeOK, BufferInv, EndsWithMarker(raw)
    PROVE  HasMarker(line)
<1>1. PICK i \in At(raw, Marker) : i >= Len(raw) - Keep
  BY DEF EndsWithMarker
<1>2. /\ i \in 0..(Len(raw) - Len(Marker))
      /\ \A j \in 1..Len(Marker) : raw[i + j] = Marker[j]
  BY <1>1 DEF At
<1>3. /\ Len(line) \in Nat /\ Len(raw) \in Nat /\ Len(Marker) \in Nat
      /\ Dropped \in Nat /\ Len(raw) = Dropped + Len(line)
      /\ Dropped > 0 => Len(line) > Keep
  BY ScanAssumption DEF TypeOK, BufferInv, Dropped
<1>4. i - Dropped \in 0..(Len(line) - Len(Marker))
  BY ScanAssumption, <1>1, <1>2, <1>3
<1>5. ASSUME NEW j \in 1..Len(Marker) PROVE line[i - Dropped + j] = Marker[j]
  <2>1. i - Dropped + j \in 1..Len(line) /\ Dropped + (i - Dropped + j) = i + j
    BY <1>2, <1>3, <1>4
  <2>2. line[i - Dropped + j] = raw[Dropped + (i - Dropped + j)]
    BY <2>1 DEF BufferInv
  <2> QED
    BY <1>2, <2>1, <2>2
<1> QED
  BY <1>4, <1>5 DEF HasMarker, At

\* A line that fits is in the buffer as it is.
LEMMA ShortInBuffer ==
    ASSUME TypeOK, BufferInv, Len(raw) <= LineCap
    PROVE  line = raw
<1>1. line \in Seq(Letters) /\ raw \in Seq(Letters)
  BY DEF TypeOK
<1>2. Len(line) = Len(raw)
  BY ScanAssumption, <1>1 DEF BufferInv, Dropped
<1>3. \A i \in 1..Len(line) : line[i] = raw[i]
  BY <1>1, <1>2 DEF BufferInv, Dropped
<1> QED
  BY <1>1, <1>2, <1>3
----------------------------------------------------------------------------
(* The lines that were checked.                                            *)

\* A step checks one line, or leaves what was checked and seen alone.
LEMMA StepChecks ==
    ASSUME [Next]_vars
    PROVE  Checked \/ UNCHANGED <<marker_seen, told, raws>>
BY DEF Next, Newline, Ignored, Letter, CheckPartial, Checked, vars

\* The checked lines after one more.
LEMMA RawsElements ==
    ASSUME TypeOK, Checked
    PROVE  /\ Len(raws) \in Nat /\ Len(raws') = Len(raws) + 1 /\ raws'[Len(raws) + 1] = raw
           /\ \A i \in 1..Len(raws) : raws'[i] = raws[i]
BY DEF TypeOK, Checked

\* Once the marker was seen it stays seen; a line in whose buffer it is makes it so.
LEMMA SeenStays ==
    ASSUME TypeOK, Checked
    PROVE  /\ marker_seen => marker_seen' /\ told' = told
           /\ HasMarker(line) => marker_seen'
           /\ ~marker_seen /\ marker_seen' => HasMarker(line) /\ told' = Told(line)
BY DEF Checked, CheckLine, HasMarker, TypeOK

\* No step makes a false alarm.
LEMMA NoFalseStep ==
    TypeOK /\ BufferInv /\ NoFalseMarker /\ [Next]_vars => NoFalseMarker'
<1> SUFFICES ASSUME TypeOK, BufferInv, NoFalseMarker, [Next]_vars PROVE NoFalseMarker'
  OBVIOUS
<1>1. CASE Checked
  <2>1. CASE marker_seen
    <3>1. PICK i \in 1..Len(raws) : HasMarker(raws[i])
      BY <2>1 DEF NoFalseMarker
    <3>2. i \in 1..Len(raws') /\ raws'[i] = raws[i]
      BY <1>1, RawsElements
    <3> QED
      BY <3>1, <3>2 DEF NoFalseMarker, HasMarker, At
  <2>2. CASE ~marker_seen /\ marker_seen'
    <3>1. HasMarker(raw)
      BY <1>1, <2>2, SeenStays, FoundInLine
    <3>2. Len(raws) + 1 \in 1..Len(raws') /\ raws'[Len(raws) + 1] = raw
      BY <1>1, RawsElements
    <3> QED
      BY <3>1, <3>2 DEF NoFalseMarker, HasMarker, At
  <2> QED
    BY <2>1, <2>2 DEF NoFalseMarker
<1>2. CASE UNCHANGED <<marker_seen, told, raws>>
  BY <1>2 DEF NoFalseMarker, HasMarker, At
<1> QED
  BY <1>1, <1>2, StepChecks

\* No step misses a marker at the end of a line.
LEMMA EndStep ==
    TypeOK /\ BufferInv /\ EndOfLineCounts /\ [Next]_vars => EndOfLineCounts'
<1> SUFFICES ASSUME TypeOK, BufferInv, EndOfLineCounts, [Next]_vars PROVE EndOfLineCounts'
  OBVIOUS
<1>1. CASE Checked
  <2> SUFFICES ASSUME NEW i \in 1..Len(raws'), EndsWithMarker(raws'[i]) PROVE marker_seen'
    BY DEF EndOfLineCounts, EndsWithMarker, At
  <2>1. CASE i \in 1..Len(raws)
    <3>1. raws'[i] = raws[i]
      BY <1>1, <2>1, RawsElements
    <3>2. marker_seen
      BY <2>1, <3>1 DEF EndOfLineCounts
    <3> QED
      BY <1>1, <3>2, SeenStays
  <2>2. CASE i = Len(raws) + 1
    <3>1. EndsWithMarker(raw)
      BY <1>1, <2>2, RawsElements
    <3> QED
      BY <1>1, <3>1, EndInBuffer, SeenStays
  <2> QED
    BY <1>1, <2>1, <2>2, RawsElements
<1>2. CASE UNCHANGED <<marker_seen, told, raws>>
  BY <1>2 DEF EndOfLineCounts, EndsWithMarker, At
<1> QED
  BY <1>1, <1>2, StepChecks
\* Every checked line that fits is checked exactly.
LEMMA ExactStep ==
    TypeOK /\ BufferInv /\ ExactInv /\ [Next]_vars => ExactInv'
<1> SUFFICES ASSUME TypeOK, BufferInv, ExactInv, [Next]_vars PROVE ExactInv'
  OBVIOUS
<1>1. CASE Checked
  <2> SUFFICES ASSUME AllFit'
               PROVE  /\ marker_seen' => \E k \in 1..Len(raws') :
                                           FirstHit(k)' /\ told' = Told(raws'[k])
                      /\ \A i \in 1..Len(raws') : HasMarker(raws'[i]) => marker_seen'
    BY DEF ExactInv, AllFit, FirstHit, HasMarker, Told, At, First
  <2>1. PICK n : n = Len(raws) + 1
    OBVIOUS
  <2>2. /\ Len(raws) \in Nat /\ Len(raws') = n /\ raws'[n] = raw
        /\ \A i \in 1..Len(raws) : raws'[i] = raws[i]
    BY <1>1, <2>1, RawsElements
  <2>3. AllFit
    BY <2>2, <2>1 DEF AllFit
  <2>4. Len(raw) <= LineCap
    <3>1. n \in 1..Len(raws')
      BY <2>2, <2>1
    <3> QED
      BY <2>2, <3>1 DEF AllFit
  <2>5. line = raw
    BY <2>4, ShortInBuffer
  <2>6. CASE marker_seen
    <3>1. PICK k \in 1..Len(raws) : FirstHit(k) /\ told = Told(raws[k])
      BY <2>3, <2>6 DEF ExactInv
    <3>2. k \in 1..Len(raws') /\ raws'[k] = raws[k] /\ k <= n
      BY <2>2, <2>1
    <3>3. ASSUME NEW j \in 1..Len(raws'), HasMarker(raws'[j])
          PROVE  k <= j
      <4>1. j = n \/ (j \in 1..Len(raws) /\ raws'[j] = raws[j])
        BY <2>2, <2>1
      <4> QED
        BY <3>1, <3>2, <3>3, <4>1 DEF FirstHit
    <3>4. FirstHit(k)'
      BY <3>1, <3>2, <3>3 DEF FirstHit, HasMarker, At
    <3>5. marker_seen' /\ told' = told
      BY <1>1, <2>6, SeenStays
    <3>6. told' = Told(raws'[k])
      BY <3>1, <3>2, <3>5
    <3> QED
      BY <3>2, <3>4, <3>5, <3>6
  <2>7. CASE ~marker_seen
    <3>1. \A i \in 1..Len(raws) : ~HasMarker(raws[i])
      BY <2>3, <2>7 DEF ExactInv
    <3>2. ASSUME NEW i \in 1..Len(raws'), HasMarker(raws'[i])
          PROVE  i = n /\ HasMarker(line)
      BY <2>2, <2>1, <2>5, <3>1, <3>2
    <3>3. ASSUME marker_seen'
          PROVE  FirstHit(n)' /\ told' = Told(raws'[n]) /\ n \in 1..Len(raws')
      <4>1. HasMarker(raw) /\ told' = Told(raw)
        BY <1>1, <2>5, <2>7, <3>3, SeenStays
      <4>2. n \in 1..Len(raws') /\ HasMarker(raws'[n])
        BY <2>2, <2>1, <4>1
      <4>3. \A j \in 1..Len(raws') : HasMarker(raws'[j]) => n <= j
        BY <2>2, <2>1, <3>2
      <4>4. FirstHit(n)'
        BY <4>2, <4>3 DEF FirstHit, HasMarker, At
      <4> QED
        BY <2>2, <4>1, <4>2, <4>4
    <3> QED
      BY <1>1, <3>2, <3>3, SeenStays
  <2> QED
    BY <2>6, <2>7
<1>2. CASE UNCHANGED <<marker_seen, told, raws>>
  BY <1>2 DEF ExactInv, AllFit, FirstHit
<1> QED
  BY <1>1, <1>2, StepChecks

\* The first hit is the one the reference definition picks.
LEMMA ExactIsExact == TypeOK /\ ExactInv => ShortLinesAreExact
<1> SUFFICES ASSUME TypeOK, ExactInv, AllFit PROVE ShortLinesAreExact
  BY DEF ShortLinesAreExact, AllFit
<1> DEFINE hits == {i \in 1..Len(raws) : HasMarker(raws[i])}
<1>1. hits # {} => marker_seen
  BY DEF ExactInv
<1>2. ASSUME marker_seen
      PROVE  hits # {} /\ told = Told(raws[First(hits)])
  <2>1. PICK k \in 1..Len(raws) : FirstHit(k) /\ told = Told(raws[k])
    BY <1>2 DEF ExactInv
  <2>2. k \in hits /\ \A j \in hits : k <= j
    BY <2>1 DEF FirstHit
  <2>3. hits \subseteq Nat
    BY DEF TypeOK
  <2> HIDE DEF hits
  <2>4. First(hits) \in hits /\ \A j \in hits : First(hits) <= j
    BY <2>2, <2>3, FirstIsLeast
  <2>5. First(hits) = k
    <3>1. First(hits) <= k /\ k <= First(hits)
      BY <2>2, <2>4
    <3>2. First(hits) \in Nat /\ k \in Nat
      BY <2>2, <2>3, <2>4
    <3> QED
      BY <3>1, <3>2
  <2> QED
    BY <2>1, <2>2, <2>5
<1> QED
  BY <1>1, <1>2 DEF ShortLinesAreExact
----------------------------------------------------------------------------
(* The theorems.                                                           *)

\* ps2link_scan_console and ps2link_check_line: whatever the console prints, the
\* marker is only seen when a line of the console output contains it.
THEOREM MarkerIsReal == Spec => []NoFalseMarker
<1>1. Init => NoFalseMarker
  BY DEF Init, NoFalseMarker
<1> QED
  BY <1>1, NoFalseStep, BufferInit, BufferStep, BufferIsSafe, PTL DEF Spec

\* ps2link_scan_console: a marker that starts among the last Keep characters of
\* a line of any length is seen.
THEOREM EndIsKept == Spec => []EndOfLineCounts
<1>1. Init => EndOfLineCounts
  BY DEF Init, EndOfLineCounts
<1> QED
  BY <1>1, EndStep, BufferInit, BufferStep, BufferIsSafe, PTL DEF Spec

\* ps2link_check_line: as long as every line fits into its buffer, the marker is
\* seen exactly when a line contains it, with the status of the first such line.
THEOREM ShortLinesExact == Spec => []ShortLinesAreExact
<1>1. Init => ExactInv
  BY DEF Init, ExactInv
<1> QED
  BY <1>1, ExactStep, ExactIsExact, BufferInit, BufferStep, BufferIsSafe, PTL DEF Spec
=============================================================================
