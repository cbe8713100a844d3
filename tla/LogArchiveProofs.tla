--------------------------- MODULE LogArchiveProofs ---------------------------
(***************************************************************************)
(* Proofs about LogArchive, for every set of logs, and every length and     *)
(* growth of them.                                                          *)
(***************************************************************************)
EXTENDS LogArchive, SequenceTheorems, WellFoundedInduction, TLAPS

\* The padding leads to a multiple of a block.
LEMMA PaddingFits ==
    ASSUME NEW p \in Nat
    PROVE  PaddingAt(p) \in Nat /\ (p + PaddingAt(p)) % Block = 0
BY DEF PaddingAt, RoundUp, Block

\* What the proofs need of the types.
Numbers ==
    /\ length \in [Log -> 0..MaxLength]
    /\ pc \in {"measure", "open", "copy", "finalize", "read"}
    /\ cur \in Nat \ {0}
    /\ pc \in {"measure", "open", "copy"} => cur \in 1..Len(Order)
    /\ eof \in BOOLEAN
    /\ size \in [Log -> 0..MaxLength]
    /\ offset \in [Log -> 0..MaxLength]
    /\ written \in [Log -> Nat]
    /\ pos \in Nat
    /\ remaining \in 0..(Word - 1)

\* No log that is still to be copied has been read, and none has been measured or
\* read beyond its end.
Untouched ==
    /\ \A i \in 1..Len(Order) : i > cur => offset[Order[i]] = 0 /\ size[Order[i]] = 0
    /\ pc = "measure" => offset[Current] = 0 /\ size[Current] = 0
    /\ pc = "open" => offset[Current] = 0 /\ size[Current] > 0
    /\ \A l \in Log : offset[l] <= length[l] /\ size[l] <= length[l]
    /\ pc # "copy" => ~eof

\* In the middle of a log that has not outgrown its header, what remains is what
\* has not been read, and the log does not end before its size; when nothing
\* remains, the padding is there.
Copying ==
    pc = "copy" /\ ~Outgrew(Current) =>
        /\ remaining = size[Current] - offset[Current]
        /\ eof => offset[Current] = size[Current]
        /\ size[Current] > 0
        /\ remaining = 0 => pos % Block = 0

FramedInv == Numbers /\ Untouched /\ Copying /\ Framed

-----------------------------------------------------------------------------
\* The logs to archive are different ones.
LEMMA OrderFacts ==
    /\ Len(Order) \in Nat
    /\ Order # <<>> => Len(Order) > 0
    /\ DOMAIN Order = 1..Len(Order)
    /\ \A i \in 1..Len(Order) : Order[i] \in Log
    /\ \A i, j \in 1..Len(Order) : Order[i] = Order[j] => i = j
BY ArchiveAssumption DEF ArchiveAssumption

\* The route goes on to the next log.
LEMMA AdvanceFits ==
    ASSUME cur \in 1..Len(Order), Advance, Numbers, Untouched, pc # "measure" \/ length[Current] = 0,
           UNCHANGED <<length, offset, size>>
    PROVE  /\ cur' \in Nat \ {0}
           /\ pc' \in {"measure", "finalize"}
           /\ pc' = "measure" => cur' \in 1..Len(Order)
           /\ eof' = FALSE
           /\ Untouched'
<1>1. Len(Order) \in Nat
  BY OrderFacts
<1>2. /\ cur' = cur + 1
      /\ pc' = IF cur = Len(Order) THEN "finalize" ELSE "measure"
      /\ eof' = FALSE
  BY DEF Advance
<1>3. pc' = "measure" => cur' \in 1..Len(Order) /\ cur' > cur
  BY <1>1, <1>2
<1>4. \A i \in 1..Len(Order) : i > cur' => i > cur
  BY <1>1, <1>2
<1>5. Untouched'
  BY <1>2, <1>3, <1>4 DEF Untouched, Current
<1> QED
  BY <1>1, <1>2, <1>3, <1>5

\* Unsigned subtraction stays in range, and is subtraction where it can be.
LEMMA MinusFits ==
    ASSUME NEW a \in 0..(Word - 1), NEW b \in 0..MaxLength
    PROVE  Minus(a, b) \in 0..(Word - 1) /\ (b <= a => Minus(a, b) = a - b)
BY ArchiveAssumption, WordAssumption DEF ArchiveAssumption, WordAssumption, Minus

\* What a turn of a loop reads.
LEMMA ReadFits ==
    ASSUME Numbers, Untouched, pc = "copy"
    PROVE  LET n == Min2(Chunk, length[Current] - offset[Current])
           IN  /\ Current \in Log
               /\ n \in 0..MaxLength
               /\ offset[Current] + n <= length[Current]
               /\ n < Chunk => offset[Current] + n = length[Current]
<1>1. Current \in Log
  BY OrderFacts DEF Numbers, Current
<1>2. /\ length[Current] \in 0..MaxLength
      /\ offset[Current] \in 0..MaxLength
      /\ offset[Current] <= length[Current]
      /\ MaxLength \in Nat
  BY <1>1, ArchiveAssumption DEF Numbers, Untouched, ArchiveAssumption
<1> QED
  BY <1>1, <1>2 DEF Min2, Chunk

\* The inductive invariant of the route: no log that grows is read beyond its end,
\* and the padding is where a log that kept its size ends.
LEMMA FramedInvHolds == Spec => []FramedInv
<1>1. Init => FramedInv
  <2> SUFFICES ASSUME Init PROVE FramedInv
    OBVIOUS
  <2>a. length \in [Log -> 0..MaxLength] /\ MaxLength \in Nat
    <3>1. MaxLength \in Nat /\ Lengths \subseteq 0..MaxLength
      BY ArchiveAssumption DEF ArchiveAssumption
    <3>2. length \in [Log -> Lengths]
      BY DEF Init
    <3> QED
      BY <3>1, <3>2
  <2>b. pc \in {"measure", "finalize"} /\ (pc = "measure" => cur \in 1..Len(Order))
    BY OrderFacts DEF Init
  <2>1. Numbers
    <3>1. 0 \in 0..MaxLength /\ 0 \in 0..(Word - 1)
      BY <2>a, WordAssumption DEF WordAssumption, Block
    <3>2. size \in [Log -> 0..MaxLength] /\ offset \in [Log -> 0..MaxLength] /\ written \in [Log -> Nat]
      BY <3>1 DEF Init
    <3> QED
      <4>1. cur = 1 /\ pos = 0 /\ remaining = 0 /\ eof = FALSE
        BY DEF Init
      <4>2. pos \in Nat /\ remaining \in 0..(Word - 1) /\ cur \in Nat \ {0}
        BY <3>1, <4>1
      <4>4. eof \in BOOLEAN
        BY <4>1
      <4>3. /\ pc \in {"measure", "open", "copy", "finalize", "read"}
            /\ pc \in {"measure", "open", "copy"} => cur \in 1..Len(Order)
        BY <2>b
      <4> QED
        BY <2>a, <3>2, <4>2, <4>3, <4>4 DEF Numbers
  <2>2. Untouched
    <3>1. \A i \in 1..Len(Order) : offset[Order[i]] = 0 /\ size[Order[i]] = 0
      BY OrderFacts DEF Init
    <3>2. \A l \in Log : offset[l] <= length[l] /\ size[l] <= length[l]
      <4>1. \A l \in Log : offset[l] = 0 /\ size[l] = 0 /\ length[l] \in 0..MaxLength
        BY <2>a DEF Init
      <4> TAKE l \in Log
      <4>2. offset[l] = 0 /\ size[l] = 0 /\ length[l] \in Nat
        BY <2>a, <4>1
      <4> QED
        BY <4>2
    <3> QED
      BY <2>b, <3>1, <3>2 DEF Init, Untouched, Current
  <2>3. Copying /\ Framed
    BY DEF Init, Copying, Framed, Block
  <2> QED
    BY <2>1, <2>2, <2>3 DEF FramedInv
<1>2. FramedInv /\ [Next]_vars => FramedInv'
  <2> SUFFICES ASSUME FramedInv, [Next]_vars PROVE FramedInv'
    OBVIOUS
  <2>0. Numbers /\ Untouched /\ Copying /\ Framed
    BY DEF FramedInv
  <2>1. CASE \E l \in Log : Grow(l)
    <3> PICK l \in Log : Grow(l)
      BY <2>1
    <3>1. PICK n \in Growths : /\ length[l] + n <= MaxLength
                              /\ length' = [length EXCEPT ![l] = @ + n]
      BY DEF Grow
    <3>2. n \in Nat /\ MaxLength \in Nat
      BY ArchiveAssumption DEF ArchiveAssumption
    <3>3. \A k \in Log : length'[k] \in 0..MaxLength /\ length'[k] >= length[k]
      BY <2>0, <3>1, <3>2 DEF Numbers
    <3>4. length' \in [Log -> 0..MaxLength]
      BY <2>0, <3>1, <3>3 DEF Numbers
    <3>5. Numbers'
      BY <2>0, <3>4 DEF Grow, Numbers, copying, archive
    <3>6. Untouched'
      BY <2>0, <3>2, <3>3 DEF Grow, Numbers, Untouched, Current, copying, archive
    <3>7. Copying' /\ Framed'
      BY <2>0 DEF Grow, Copying, Framed, Outgrew, Current, copying, archive
    <3> QED
      BY <3>5, <3>6, <3>7 DEF FramedInv
  <2>2. CASE Measure
    <3>1. Current \in Log /\ cur \in 1..Len(Order)
      BY <2>0, <2>2, OrderFacts DEF Measure, Numbers, Current
    <3>2. size' = [size EXCEPT ![Current] = length[Current]]
      BY <2>2 DEF Measure
    <3>3. Numbers'
      <4>1. size' \in [Log -> 0..MaxLength]
        BY <2>0, <3>1, <3>2 DEF Numbers
      <4>2. /\ cur' \in Nat \ {0}
            /\ pc' \in {"measure", "open", "finalize"}
            /\ pc' \in {"measure", "open"} => cur' \in 1..Len(Order)
            /\ eof' \in BOOLEAN
        <5>1. Len(Order) \in Nat
          BY OrderFacts
        <5>2. CASE length[Current] = 0
          <6>1. cur' = cur + 1 /\ eof' = FALSE
                /\ pc' = IF cur = Len(Order) THEN "finalize" ELSE "measure"
            BY <2>2, <5>2 DEF Measure, Advance
          <6> QED
            <7>1. cur = Len(Order) \/ cur + 1 \in 1..Len(Order)
              BY <3>1, <5>1
            <7>2. cur + 1 \in Nat \ {0}
              BY <3>1, <5>1
            <7> QED
              BY <6>1, <7>1, <7>2
        <5>3. CASE length[Current] # 0
          BY <2>0, <2>2, <3>1, <5>1, <5>3 DEF Measure, Numbers
        <5> QED
          BY <5>2, <5>3
      <4> QED
        BY <2>0, <2>2, <4>1, <4>2 DEF Measure, Numbers, archive
    <3>4. \A i \in 1..Len(Order) : i > cur => size'[Order[i]] = 0 /\ offset[Order[i]] = 0
      BY <2>0, <3>1, <3>2, OrderFacts DEF Numbers, Untouched, Current
    <3>5. \A l \in Log : offset[l] <= length[l] /\ size'[l] <= length[l]
      BY <2>0, <3>1, <3>2 DEF Numbers, Untouched
    <3>6. size'[Current] = length[Current] /\ offset[Current] = 0
      BY <2>0, <2>2, <3>1, <3>2 DEF Numbers, Untouched, Measure
    <3>7. Untouched'
      <4>1. CASE length[Current] = 0
        <5>1. cur' = cur + 1 /\ eof' = FALSE /\ pc' \in {"measure", "finalize"}
              /\ (pc' = "measure" => cur' \in 1..Len(Order))
          <6>1. cur' = cur + 1 /\ eof' = FALSE
                /\ pc' = IF cur = Len(Order) THEN "finalize" ELSE "measure"
            BY <2>2, <4>1 DEF Measure, Advance
          <6> QED
            <7>1. cur = Len(Order) \/ cur + 1 \in 1..Len(Order)
              <8>1. Len(Order) \in Nat
                BY OrderFacts
              <8> QED
                BY <3>1, <8>1
            <7> QED
              BY <6>1, <7>1
        <5>2. \A i \in 1..Len(Order) : i > cur' => i > cur
          BY <3>1, <5>1, OrderFacts
        <5>3. pc' = "measure" => cur' > cur
          BY <3>1, <5>1, OrderFacts
        <5> QED
          BY <2>2, <3>4, <3>5, <5>1, <5>2, <5>3 DEF Measure, Untouched, Current
      <4>2. CASE length[Current] # 0
        BY <2>0, <2>2, <3>1, <3>4, <3>5, <3>6, <4>2, OrderFacts
        DEF Measure, Numbers, Untouched, Current, archive
      <4> QED
        BY <4>1, <4>2
    <3>8. Copying'
      BY <2>2 DEF Measure, Advance, Copying
    <3>9. Framed'
      <4>1. \A l \in Log : ~Outgrew(l)' => ~Outgrew(l)
        BY <2>0, <2>2, <3>1, <3>2, <3>6 DEF Measure, Numbers, Untouched, Outgrew
      <4> QED
        BY <2>0, <2>2, <4>1 DEF Measure, Framed, archive
    <3> QED
      BY <3>3, <3>7, <3>8, <3>9 DEF FramedInv
  <2>3. CASE OpenFails
    <3>0. /\ cur' \in Nat \ {0}
          /\ pc' \in {"measure", "finalize"}
          /\ pc' = "measure" => cur' \in 1..Len(Order)
          /\ eof' = FALSE
          /\ Untouched'
      BY <2>0, <2>3, AdvanceFits DEF OpenFails, Numbers
    <3>1. Numbers'
      BY <2>0, <2>3, <3>0 DEF OpenFails, Numbers, archive
    <3>2. Untouched'
      BY <3>0
    <3>3. Copying' /\ Framed'
      BY <2>0, <2>3 DEF OpenFails, Advance, Copying, Framed, Outgrew, archive
    <3> QED
      BY <3>1, <3>2, <3>3 DEF FramedInv
  <2>4. CASE Open
    <3>1. Current \in Log
      BY <2>0, <2>4, OrderFacts DEF Open, Numbers, Current
    <3>2. size[Current] \in 1..MaxLength /\ offset[Current] = 0
      BY <2>0, <2>4, <3>1 DEF Open, Numbers, Untouched
    <3>3. Numbers'
      <4>1. MaxLength \in Nat /\ Word \in Nat /\ MaxLength < Word
        BY ArchiveAssumption, WordAssumption DEF ArchiveAssumption, WordAssumption
      <4>2. pos' \in Nat /\ remaining' \in 0..(Word - 1)
        BY <2>0, <2>4, <3>2, <4>1 DEF Open, Numbers, Block
      <4> QED
        BY <2>0, <2>4, <4>2 DEF Open, Numbers, copying
    <3>4. Untouched'
      BY <2>0, <2>4 DEF Open, Untouched, Current, copying
    <3>5. Copying'
      BY <2>0, <2>4, <3>2 DEF Open, Copying, Untouched, Current, copying, Outgrew
    <3>6. Framed'
      BY <2>4 DEF Open, Framed
    <3> QED
      BY <3>3, <3>4, <3>5, <3>6 DEF FramedInv
  <2>5. CASE Copy
    <3> DEFINE n == Min2(Chunk, length[Current] - offset[Current])
    <3>1. /\ pc = "copy" /\ n > 0
          /\ WriteData(n)
          /\ offset' = [offset EXCEPT ![Current] = @ + n]
          /\ written' = [written EXCEPT ![Current] = @ + n]
          /\ eof' = (n < Chunk)
          /\ UNCHANGED <<length, pc, cur, size, reader>>
      BY <2>5 DEF Copy
    <3>2. /\ Current \in Log
          /\ n \in 0..MaxLength
          /\ offset[Current] + n <= length[Current]
          /\ n < Chunk => offset[Current] + n = length[Current]
      BY <2>0, <3>1, ReadFits
    <3>3. /\ remaining' = Minus(remaining, n)
          /\ remaining' \in 0..(Word - 1)
          /\ n <= remaining => remaining' = remaining - n
          /\ pos' \in Nat
          /\ remaining' = 0 => pos' % Block = 0
      <4>1. n \in Nat /\ pos + n \in Nat
        BY <2>0, <3>2, ArchiveAssumption DEF Numbers, ArchiveAssumption
      <4>2. PaddingAt(pos + n) \in Nat /\ (pos + n + PaddingAt(pos + n)) % Block = 0
        BY <4>1, PaddingFits
      <4>3. /\ Minus(remaining, n) \in 0..(Word - 1)
            /\ n <= remaining => Minus(remaining, n) = remaining - n
        BY <2>0, <3>2, MinusFits DEF Numbers
      <4> HIDE DEF n
      <4> QED
        BY <2>0, <3>1, <4>1, <4>2, <4>3 DEF WriteData, Numbers
    <3> HIDE DEF n
    <3>4. offset[Current] \in 0..MaxLength /\ length[Current] \in 0..MaxLength /\ MaxLength \in Nat
      BY <2>0, <3>2, ArchiveAssumption DEF Numbers, ArchiveAssumption
    <3>5. /\ offset' \in [Log -> 0..MaxLength] /\ offset'[Current] = offset[Current] + n
          /\ \A l \in Log : l # Current => offset'[l] = offset[l]
      BY <2>0, <3>1, <3>2, <3>4 DEF Numbers
    <3>6. Numbers'
      BY <2>0, <3>1, <3>2, <3>3, <3>5, SMTT(30) DEF Numbers
    <3>7. Untouched'
      <4>1. \A i \in 1..Len(Order) : i > cur => Order[i] \in Log /\ Order[i] # Current
        BY <2>0, <3>1, OrderFacts DEF Numbers, Current
      <4>2. \A l \in Log : offset'[l] <= length'[l] /\ size'[l] <= length'[l]
        BY <2>0, <3>1, <3>2, <3>5 DEF Untouched
      <4> QED
        BY <2>0, <3>1, <3>5, <4>1, <4>2 DEF Untouched, Numbers
    <3>8. Copying'
      <4>1. Current' = Current /\ size' = size
        BY <3>1 DEF Current
      <4>2. SUFFICES ASSUME offset[Current] + n <= size[Current]
                     PROVE  /\ remaining' = size[Current] - (offset[Current] + n)
                            /\ eof' => offset[Current] + n = size[Current]
                            /\ size[Current] > 0
                            /\ remaining' = 0 => pos' % Block = 0
        BY <2>0, <3>2, <3>4, <3>5, <4>1 DEF Copying, Outgrew, Numbers
      <4>3. size[Current] \in 0..MaxLength /\ size[Current] <= length[Current]
        BY <2>0, <3>2 DEF Numbers, Untouched
      <4>4. /\ remaining = size[Current] - offset[Current]
            /\ size[Current] > 0
        BY <2>0, <3>1, <3>2, <3>4, <4>2, <4>3 DEF Copying, Outgrew
      <4>5. n <= remaining
        BY <3>2, <3>4, <4>2, <4>3, <4>4
      <4>6. remaining' = size[Current] - (offset[Current] + n)
        BY <3>2, <3>3, <3>4, <4>3, <4>4, <4>5
      <4>7. eof' => offset[Current] + n = size[Current]
        <5>1. eof' => n < Chunk
          BY <3>1
        <5> QED
          BY <3>2, <3>4, <4>2, <4>3, <5>1
      <4> QED
        BY <3>3, <4>4, <4>6, <4>7
    <3>9. Framed'
      BY <3>1 DEF Framed
    <3> QED
      BY <3>6, <3>7, <3>8, <3>9 DEF FramedInv
  <2>6. CASE CopyEnds
    <3>1. Current \in Log /\ cur \in 1..Len(Order)
      BY <2>0, <2>6, OrderFacts DEF CopyEnds, Numbers, Current
    <3>0. /\ cur' \in Nat \ {0}
          /\ pc' \in {"measure", "finalize"}
          /\ pc' = "measure" => cur' \in 1..Len(Order)
          /\ eof' = FALSE
          /\ Untouched'
      BY <2>0, <2>6, AdvanceFits DEF CopyEnds, Numbers
    <3>2. Numbers'
      BY <2>0, <2>6, <3>0 DEF CopyEnds, Numbers, archive
    <3>3. Untouched'
      BY <3>0
    <3>4. Framed'
      <4> SUFFICES ASSUME \A l \in Log : ~Outgrew(l) PROVE pos % Block = 0
        BY <2>6 DEF CopyEnds, Framed, Outgrew, archive
      <4>1. /\ offset[Current] = size[Current]
            /\ remaining = size[Current] - offset[Current]
            /\ remaining = 0 => pos % Block = 0
        BY <2>0, <2>6, <3>1 DEF CopyEnds, Copying, Outgrew, Numbers, Untouched
      <4> QED
        BY <2>0, <2>6, <3>1, <4>1 DEF CopyEnds, Numbers
    <3>5. Copying'
      BY <2>6 DEF CopyEnds, Advance, Copying
    <3> QED
      BY <3>2, <3>3, <3>4, <3>5 DEF FramedInv
  <2>7. CASE Finalize
    <3>1. Numbers'
      BY <2>0, <2>7 DEF Finalize, Numbers, copying, Block
    <3>2. Untouched' /\ Copying'
      BY <2>0, <2>7 DEF Finalize, Untouched, Copying, Current, copying
    <3>3. Framed'
      BY <2>0, <2>7 DEF Finalize, Framed, Numbers, Outgrew, copying, Block
    <3> QED
      BY <3>1, <3>2, <3>3 DEF FramedInv
  <2>8. CASE UNCHANGED <<length, pc, copying, archive>>
    BY <2>0, <2>8 DEF FramedInv, Numbers, Untouched, Copying, Framed, Outgrew, Current,
                       copying, archive
  <2>9. CASE Reading
    <3>1. UNCHANGED <<length, pc, copying, archive>>
      BY <2>9 DEF Reading, ReaderFinds, ReaderNext, ReaderReads
    <3> QED
      BY <3>1, <2>8
  <2>10. CASE UNCHANGED vars
    BY <2>10, <2>8 DEF vars
  <2> QED
    BY <2>1, <2>2, <2>3, <2>4, <2>5, <2>6, <2>7, <2>9, <2>10 DEF Next, Writing
<1> QED
  BY <1>1, <1>2, PTL DEF Spec

\* Whatever the logs do, as long as none has outgrown its header the next header of
\* the archive begins at a multiple of 512 bytes (Framed): mtar_write_data has
\* padded the log before it.
THEOREM FramedHolds == Spec => []Framed
<1>1. FramedInv => Framed
  BY DEF FramedInv
<1> QED
  BY <1>1, FramedInvHolds, PTL

-----------------------------------------------------------------------------
(* What the proof of NeverMixed needs: no segment reaches beyond the end of *)
(* the archive, which is where the next one is put.                         *)
Laid(t, p) ==
    /\ t \in Seq(Segment) /\ p \in Nat
    /\ \A i \in DOMAIN t : t[i].at + t[i].len <= p
    /\ TapeEnd(t) = p

\* Whatever lies in the n bytes after the header at h is log l from its beginning.
Part(t, h, n, l) ==
    \A j \in DOMAIN t :
        t[j].at < h + Block + n /\ h + Block < t[j].at + t[j].len
        => /\ t[j].kind = "data"
           /\ t[j].log = l
           /\ t[j].from - t[j].at = 0 - (h + Block)

\* A log has a header only once the route has begun to copy it.
HeadersBegun ==
    \A i \in DOMAIN tape : tape[i].kind = "header" =>
        \E k \in 1..Len(Order) : /\ Order[k] = tape[i].log
                                 /\ k < cur \/ (k = cur /\ pc = "copy")

\* The log that is being copied: what of it is in the archive is in its place, and
\* until it is as much as the header says, the next byte goes where it belongs.
Placed(t, p, o, i) ==
    /\ t[i].from = size[Current]
    /\ Part(t, t[i].at, size[Current], Current)
    /\ o < size[Current] => p = t[i].at + Block + o
    /\ o >= size[Current] => p >= t[i].at + Block + size[Current]

InPlace ==
    pc = "copy" =>
        \A i \in DOMAIN tape : tape[i].kind = "header" /\ tape[i].log = Current
                               => Placed(tape, pos, offset[Current], i)

Counted ==
    pc = "copy" =>
        /\ offset[Current] < size[Current] => remaining = size[Current] - offset[Current]
        /\ eof => offset[Current] >= size[Current]

MixInv == Laid(tape, pos) /\ HeadersBegun /\ InPlace /\ Counted /\ NeverMixed

Unmixed(t, c) ==
    \A i \in DOMAIN t :
        t[i].kind = "header" /\ (\E k \in 1..Len(Order) : Order[k] = t[i].log /\ k < c)
        => Holds(t, t[i].at + Block, t[i].from, t[i].log, 0)

LEMMA Segments ==
    ASSUME NEW t \in Seq(Segment), NEW i \in DOMAIN t
    PROVE  /\ t[i].kind \in {"header", "data", "null"} /\ t[i].log \in Log \cup {NoLog}
           /\ t[i].from \in Nat /\ t[i].at \in Nat /\ t[i].len \in Nat
<1>1. t[i] \in Segment
  OBVIOUS
<1> QED
  BY <1>1 DEF Segment

\* A segment is put at the end of the archive.
LEMMA AppendLaid ==
    ASSUME NEW t, NEW p, Laid(t, p), NEW s \in Segment, s.at = p
    PROVE  /\ Laid(Append(t, s), p + s.len)
           /\ DOMAIN t = 1..Len(t) /\ Len(t) \in Nat
           /\ DOMAIN Append(t, s) = 1..(Len(t) + 1)
           /\ \A i \in DOMAIN t : Append(t, s)[i] = t[i]
           /\ Append(t, s)[Len(t) + 1] = s
           /\ p + s.len \in Nat /\ s.len \in Nat
<1> DEFINE u == Append(t, s)
<1>1. /\ t \in Seq(Segment) /\ p \in Nat
      /\ \A i \in DOMAIN t : t[i].at + t[i].len <= p
  BY DEF Laid
<1>2. /\ u \in Seq(Segment) /\ Len(u) = Len(t) + 1 /\ Len(t) \in Nat
      /\ \A i \in 1..Len(t) : u[i] = t[i]
      /\ u[Len(t) + 1] = s
  BY <1>1, AppendProperties
<1>3. DOMAIN t = 1..Len(t) /\ DOMAIN u = 1..(Len(t) + 1)
  BY <1>1, <1>2
<1>4. s.len \in Nat /\ s.at + s.len = p + s.len
  BY DEF Segment
<1> HIDE DEF u
<1>5. ASSUME NEW i \in DOMAIN u PROVE u[i].at + u[i].len <= p + s.len
  <2>1. CASE i \in DOMAIN t
    <3>1. t[i].at \in Nat /\ t[i].len \in Nat
      BY <1>1, <2>1, Segments
    <3>2. t[i].at + t[i].len <= p /\ u[i] = t[i]
      BY <1>1, <1>2, <1>3, <2>1
    <3> QED
      BY <1>1, <1>4, <3>1, <3>2
  <2>2. CASE i = Len(t) + 1
    BY <1>1, <1>2, <1>4, <2>2
  <2> QED
    BY <1>2, <1>3, <1>5, <2>1, <2>2
<1>6. TapeEnd(u) = p + s.len
  <2>1. u # <<>>
    BY <1>2
  <2>2. TapeEnd(u) = u[Len(u)].at + u[Len(u)].len
    BY <2>1 DEF TapeEnd
  <2> QED
    BY <1>2, <1>4, <2>2
<1>7. p + s.len \in Nat
  BY <1>1, <1>4
<1>8. Laid(u, p + s.len)
  BY <1>2, <1>5, <1>6, <1>7 DEF Laid
<1> QED
  BY <1>2, <1>3, <1>4, <1>7, <1>8 DEF u

\* It disturbs nothing that ends before it, and continues a log it is the next
\* piece of.
LEMMA AppendPart ==
    ASSUME NEW t, NEW p, Laid(t, p), NEW s \in Segment, s.at = p,
           NEW h \in Nat, NEW n \in Nat, NEW l, Part(t, h, n, l),
           \/ p >= h + Block + n
           \/ s.kind = "data" /\ s.log = l /\ s.from - s.at = 0 - (h + Block)
    PROVE  Part(Append(t, s), h, n, l)
<1> DEFINE u == Append(t, s)
<1>1. /\ DOMAIN u = 1..(Len(t) + 1) /\ DOMAIN t = 1..Len(t) /\ Len(t) \in Nat
      /\ \A i \in DOMAIN t : u[i] = t[i]
      /\ u[Len(t) + 1] = s
  BY AppendLaid
<1> HIDE DEF u
<1> SUFFICES ASSUME NEW j \in DOMAIN u,
                    u[j].at < h + Block + n, h + Block < u[j].at + u[j].len
             PROVE  u[j].kind = "data" /\ u[j].log = l /\ u[j].from - u[j].at = 0 - (h + Block)
  BY DEF Part, u
<1>2. CASE j \in DOMAIN t
  BY <1>1, <1>2 DEF Part
<1>3. CASE j = Len(t) + 1
  <2>1. u[j] = s /\ p \in Nat
    BY <1>1, <1>3 DEF Laid
  <2>2. ~(p >= h + Block + n)
    BY <2>1 DEF Block
  <2> QED
    BY <2>1, <2>2
<1> QED
  BY <1>1, <1>2, <1>3

LEMMA HoldsIsPart ==
    ASSUME NEW t, NEW h \in Nat, NEW n \in Nat, NEW l
    PROVE  Holds(t, h + Block, n, l, 0) <=> h + Block + n <= TapeEnd(t) /\ Part(t, h, n, l)
  BY DEF Holds, Part

LEMMA AppendUnmixed ==
    ASSUME NEW t, NEW p, Laid(t, p), NEW s \in Segment, s.at = p, NEW c, Unmixed(t, c),
           s.kind = "header" => ~\E k \in 1..Len(Order) : Order[k] = s.log /\ k < c
    PROVE  Unmixed(Append(t, s), c)
<1> DEFINE u == Append(t, s)
<1>1. /\ DOMAIN u = 1..(Len(t) + 1) /\ DOMAIN t = 1..Len(t) /\ Len(t) \in Nat
      /\ \A i \in DOMAIN t : u[i] = t[i]
      /\ u[Len(t) + 1] = s /\ Laid(u, p + s.len) /\ s.len \in Nat
  BY AppendLaid
<1>2. u = Append(t, s)
  OBVIOUS
<1> HIDE DEF u
<1> SUFFICES ASSUME NEW i \in DOMAIN u, u[i].kind = "header",
                    \E k \in 1..Len(Order) : Order[k] = u[i].log /\ k < c
             PROVE  Holds(u, u[i].at + Block, u[i].from, u[i].log, 0)
  BY <1>2 DEF Unmixed
<1>3. i \in DOMAIN t /\ u[i] = t[i]
  BY <1>1
<1>4. t[i].at \in Nat /\ t[i].from \in Nat /\ p \in Nat /\ TapeEnd(t) = p /\ TapeEnd(u) = p + s.len
      /\ s.len \in Nat
  BY <1>1, <1>3, Segments DEF Laid
<1>5. t[i].at + Block + t[i].from <= p /\ Part(t, t[i].at, t[i].from, t[i].log)
  BY <1>3, <1>4, HoldsIsPart DEF Unmixed
<1>6. Part(u, t[i].at, t[i].from, t[i].log)
  BY <1>2, <1>4, <1>5, AppendPart
<1>7. t[i].at + Block + t[i].from <= TapeEnd(u)
  <2>1. t[i].at + Block + t[i].from <= p
    BY <1>5
  <2> QED
    BY <1>4, <2>1, SMTT(30) DEF Block
<1> QED
  BY <1>3, <1>4, <1>6, <1>7, HoldsIsPart

LEMMA NeverMixedIsUnmixed == NeverMixed <=> Unmixed(tape, cur)
<1>1. DOMAIN Order = 1..Len(Order)
  BY OrderFacts
<1> QED
  BY <1>1 DEF NeverMixed, Unmixed, Past

\* The route goes on: the log it leaves is whole, or was never begun.
LEMMA MixedOnwards ==
    ASSUME MixInv, Numbers, cur \in 1..Len(Order), UNCHANGED <<tape, pos>>,
           pc' \in {"measure", "open", "finalize"},
           cur' = cur + 1 \/ (cur' = cur /\ pc # "copy"),
           pc \in {"measure", "open"} \/ (pc = "copy" /\ offset[Current] >= size[Current])
    PROVE  MixInv'
<1>1. Laid(tape, pos)' /\ InPlace' /\ Counted'
  BY DEF MixInv, InPlace, Counted
<1>2. cur \in Nat /\ Len(Order) \in Nat
  BY OrderFacts
<1>3. HeadersBegun'
  BY <1>2 DEF MixInv, HeadersBegun
<1>4. NeverMixed'
  <2> SUFFICES ASSUME NEW i \in DOMAIN tape, tape[i].kind = "header",
                      NEW k \in 1..Len(Order), Order[k] = tape[i].log, k < cur'
               PROVE  Holds(tape, tape[i].at + Block, tape[i].from, tape[i].log, 0)
    BY OrderFacts DEF NeverMixed, Past
  <2>1. CASE k < cur
    BY <2>1, OrderFacts DEF MixInv, NeverMixed, Past
  <2>2. CASE k = cur
    <3>1. PICK m \in 1..Len(Order) : Order[m] = tape[i].log /\ (m < cur \/ (m = cur /\ pc = "copy"))
      BY DEF MixInv, HeadersBegun
    <3>2. m = k
      BY <3>1, OrderFacts
    <3>3. pc = "copy" /\ tape[i].log = Current /\ offset[Current] >= size[Current]
      BY <1>2, <2>2, <3>1, <3>2 DEF Current
    <3>4. Placed(tape, pos, offset[Current], i)
      BY <3>3 DEF MixInv, InPlace
    <3>5. tape \in Seq(Segment) /\ TapeEnd(tape) = pos
      BY DEF MixInv, Laid
    <3>6. tape[i].at \in Nat /\ tape[i].from \in Nat
      BY <3>5, Segments
    <3> QED
      BY <3>3, <3>4, <3>5, <3>6, HoldsIsPart DEF Placed
  <2> QED
    BY <1>2, <2>1, <2>2
<1> QED
  BY <1>1, <1>3, <1>4 DEF MixInv

\* fopen and mtar_write_header: the header comes after everything else.
LEMMA MixedOpen ==
    ASSUME FramedInv, MixInv, Open
    PROVE  MixInv'
<1>0. Numbers /\ Untouched
  BY DEF FramedInv
<1> DEFINE s == HeaderSegment(Current, size[Current], pos)
<1>1. /\ pc = "open" /\ pc' = "copy" /\ tape' = Append(tape, s) /\ pos' = pos + Block
      /\ remaining' = size[Current] /\ UNCHANGED <<length, cur, eof, size, offset, written>>
  BY DEF Open, copying
<1>2. /\ Current \in Log /\ cur \in 1..Len(Order) /\ Len(Order) \in Nat
      /\ size[Current] \in 0..MaxLength /\ MaxLength \in Nat
      /\ offset[Current] = 0 /\ size[Current] > 0 /\ eof = FALSE
  BY <1>0, <1>1, OrderFacts, ArchiveAssumption DEF Numbers, Untouched, Current, ArchiveAssumption
<1>3. /\ s \in Segment /\ s.at = pos /\ s.kind = "header" /\ s.log = Current
      /\ s.from = size[Current] /\ s.len = Block /\ pos \in Nat
  BY <1>0, <1>2 DEF HeaderSegment, Segment, Numbers, Block
<1> HIDE DEF s
<1>4. Laid(tape, pos) /\ HeadersBegun /\ Unmixed(tape, cur)
  BY NeverMixedIsUnmixed DEF MixInv
<1>5. /\ Laid(tape', pos') /\ DOMAIN tape = 1..Len(tape) /\ Len(tape) \in Nat
      /\ DOMAIN tape' = 1..(Len(tape) + 1)
      /\ \A i \in DOMAIN tape : tape'[i] = tape[i]
      /\ tape'[Len(tape) + 1] = s
  BY <1>1, <1>3, <1>4, AppendLaid
<1>6. \A i \in DOMAIN tape : tape[i].kind = "header" => tape[i].log # Current
  <2> SUFFICES ASSUME NEW i \in DOMAIN tape, tape[i].kind = "header", tape[i].log = Current
               PROVE  FALSE
    OBVIOUS
  <2>1. PICK k \in 1..Len(Order) : Order[k] = Current /\ k < cur
    BY <1>1, <1>4 DEF HeadersBegun
  <2>2. k = cur
    BY <1>2, <2>1, OrderFacts DEF Current
  <2> QED
    BY <1>2, <2>1, <2>2
<1>7. HeadersBegun'
  <2> SUFFICES ASSUME NEW i \in DOMAIN tape', tape'[i].kind = "header"
               PROVE  \E k \in 1..Len(Order) : Order[k] = tape'[i].log /\ (k < cur \/ k = cur)
    BY <1>1 DEF HeadersBegun
  <2>1. CASE i \in DOMAIN tape
    BY <1>1, <1>4, <1>5, <2>1 DEF HeadersBegun
  <2>2. CASE i = Len(tape) + 1
    BY <1>2, <1>3, <1>5, <2>2 DEF Current
  <2> QED
    BY <1>5, <2>1, <2>2
<1>8. InPlace'
  <2> SUFFICES ASSUME NEW i \in DOMAIN tape', tape'[i].kind = "header", tape'[i].log = Current
               PROVE  /\ tape'[i].from = size[Current]
                      /\ Part(tape', tape'[i].at, size[Current], Current)
                      /\ pos' = tape'[i].at + Block + 0
    BY <1>1, <1>2 DEF InPlace, Placed, Current
  <2>1. i = Len(tape) + 1 /\ tape'[i] = s
    BY <1>5, <1>6
  <2>2. \A j \in DOMAIN tape' : tape'[j].at + tape'[j].len <= pos'
    BY <1>5 DEF Laid
  <2>3. \A j \in DOMAIN tape' : tape'[j].at \in Nat /\ tape'[j].len \in Nat
    BY <1>5, Segments DEF Laid
  <2>4. Part(tape', pos, size[Current], Current)
    BY <1>1, <1>3, <2>2, <2>3 DEF Part, Block
  <2> QED
    BY <1>1, <1>3, <2>1, <2>4 DEF Block
<1>9. Counted'
  BY <1>1, <1>2 DEF Counted, Current
<1>10. NeverMixed'
  <2>1. ~\E k \in 1..Len(Order) : Order[k] = s.log /\ k < cur
    BY <1>2, <1>3, OrderFacts DEF Current
  <2>2. Unmixed(tape', cur)
    BY <1>1, <1>3, <1>4, <2>1, AppendUnmixed
  <2> QED
    BY <1>1, <2>2, OrderFacts DEF NeverMixed, Unmixed, Past
<1> QED
  BY <1>5, <1>7, <1>8, <1>9, <1>10 DEF MixInv

\* The archive while a log is copied of which o bytes have been read.
Copied(t, p, o) ==
    /\ Laid(t, p)
    /\ Unmixed(t, cur)
    /\ \A i \in DOMAIN t : t[i].kind = "header" =>
         \E k \in 1..Len(Order) : Order[k] = t[i].log /\ (k < cur \/ k = cur)
    /\ \A i \in DOMAIN t : t[i].kind = "header" /\ t[i].log = Current => Placed(t, p, o, i)

\* What an append of bytes, of a log or null, leaves as it was.
LEMMA AppendBytes ==
    ASSUME NEW t, NEW p, NEW o \in Nat, Copied(t, p, o),
           NEW s \in Segment, s.at = p, s.kind # "header", NEW n \in Nat, cur \in 1..Len(Order), size[Current] \in Nat, pc = "copy",
           \/ s.kind = "data" /\ s.log = Current /\ s.from = o /\ s.len = n
           \/ o >= size[Current] /\ n = 0
    PROVE  Copied(Append(t, s), p + s.len, o + n)
<1> DEFINE u == Append(t, s)
<1>0. Laid(t, p) /\ Unmixed(t, cur) /\ p \in Nat /\ t \in Seq(Segment)
  BY DEF Copied, Laid
<1>1. /\ Laid(u, p + s.len)
      /\ DOMAIN t = 1..Len(t) /\ Len(t) \in Nat
      /\ DOMAIN u = 1..(Len(t) + 1)
      /\ \A i \in DOMAIN t : u[i] = t[i]
      /\ u[Len(t) + 1] = s
      /\ p + s.len \in Nat /\ s.len \in Nat
  BY <1>0, AppendLaid
<1>2. Unmixed(u, cur)
  BY <1>0, AppendUnmixed
<1>3. u = Append(t, s)
  OBVIOUS
<1> HIDE DEF u
<1>4. \A i \in DOMAIN u : u[i].kind = "header" => i \in DOMAIN t /\ u[i] = t[i]
  BY <1>1
<1>5. ASSUME NEW i \in DOMAIN u, u[i].kind = "header", u[i].log = Current
      PROVE  Placed(u, p + s.len, o + n, i)
  <2> DEFINE h == t[i].at
             z == size[Current]
  <2>1. i \in DOMAIN t /\ u[i] = t[i] /\ Placed(t, p, o, i)
    BY <1>4, <1>5 DEF Copied
  <2>2. h \in Nat /\ z \in Nat /\ p \in Nat /\ t \in Seq(Segment)
    BY <1>0, <2>1, Segments
  <2>3. /\ t[i].from = z /\ Part(t, h, z, Current)
        /\ o < z => p = h + Block + o
        /\ o >= z => p >= h + Block + z
    BY <2>1 DEF Placed
  <2> HIDE DEF h, z
  <2>4. \/ p >= h + Block + z
        \/ s.kind = "data" /\ s.log = Current /\ s.from - s.at = 0 - (h + Block)
    <3>1. CASE o >= z
      BY <2>3, <3>1
    <3>2. CASE o < z
      <4>1. s.kind = "data" /\ s.log = Current /\ s.from = o /\ p = h + Block + o
        BY <2>2, <2>3, <3>2 DEF z
      <4> QED
        BY <2>2, <4>1 DEF Block
    <3> QED
      BY <2>2, <3>1, <3>2
  <2>5. Part(u, h, z, Current)
    BY <1>0, <1>3, <2>2, <2>3, <2>4, AppendPart
  <2>a. s.len \in Nat /\ (s.len = n \/ (o >= z /\ n = 0))
    BY <1>1 DEF z
  <2>b. (o < z => p = h + Block + o) /\ (o >= z => p >= h + Block + z)
    BY <2>3
  <2>6. o + n < z => p + s.len = h + Block + (o + n)
    BY <2>2, <2>a, <2>b DEF Block
  <2>7. o + n >= z => p + s.len >= h + Block + z
    <3>1. CASE o >= z
      BY <2>2, <2>a, <2>b, <3>1 DEF Block
    <3>2. CASE o < z
      BY <2>2, <2>a, <2>b, <3>2 DEF Block
    <3> QED
      BY <2>2, <3>1, <3>2
  <2> QED
    BY <2>1, <2>3, <2>5, <2>6, <2>7 DEF Placed, h, z
<1> QED
  <2>1. \A i \in DOMAIN u : u[i].kind = "header" =>
          \E k \in 1..Len(Order) : Order[k] = u[i].log /\ (k < cur \/ k = cur)
    BY <1>4 DEF Copied
  <2> QED
    BY <1>1, <1>2, <1>3, <1>5, <2>1 DEF Copied

\* A turn of the loop of mtar_write_file, with the padding when the bytes that the
\* header announced are there.
LEMMA MixedCopy ==
    ASSUME FramedInv, MixInv, Copy
    PROVE  MixInv'
<1>0. Numbers /\ Untouched
  BY DEF FramedInv
<1> DEFINE n == Min2(Chunk, length[Current] - offset[Current])
           s == DataSegment(Current, offset[Current], n, pos)
           after == Append(tape, s)
           pad == PaddingAt(pos + n)
           nulls == NullSegment(pad, pos + n)
           o == offset[Current]
           z == size[Current]
<1>1. /\ pc = "copy" /\ n > 0
      /\ WriteData(n)
      /\ offset' = [offset EXCEPT ![Current] = @ + n]
      /\ eof' = (n < Chunk)
      /\ UNCHANGED <<length, pc, cur, size>>
  BY DEF Copy
<1>2. /\ Current \in Log
      /\ n \in 0..MaxLength
      /\ o + n <= length[Current]
      /\ n < Chunk => o + n = length[Current]
  BY <1>0, <1>1, ReadFits
<1>3. /\ o \in 0..MaxLength /\ z \in 0..MaxLength /\ z <= length[Current]
      /\ length[Current] \in 0..MaxLength /\ MaxLength \in Nat
      /\ cur \in 1..Len(Order) /\ pos \in Nat /\ remaining \in 0..(Word - 1)
      /\ n \in Nat /\ pos + n \in Nat /\ o \in Nat /\ z \in Nat
  <2>1. /\ o \in 0..MaxLength /\ z \in 0..MaxLength /\ z <= length[Current]
        /\ length[Current] \in 0..MaxLength /\ MaxLength \in Nat
    BY <1>0, <1>2, ArchiveAssumption DEF Numbers, Untouched, ArchiveAssumption
  <2>2. cur \in 1..Len(Order) /\ pos \in Nat /\ remaining \in 0..(Word - 1)
    BY <1>0, <1>1 DEF Numbers
  <2> HIDE DEF n, o, z
  <2>3. n \in Nat /\ o \in Nat /\ z \in Nat /\ pos + n \in Nat
    BY <1>2, <2>1, <2>2
  <2> QED
    BY <2>1, <2>2, <2>3
<1>4. pad \in Nat
  BY <1>3, PaddingFits
<1>5. /\ remaining' = Minus(remaining, n)
      /\ tape' = IF remaining' = 0 THEN Padded(after, pos + n) ELSE after
      /\ pos' = IF remaining' = 0 THEN pos + n + pad ELSE pos + n
  BY <1>1 DEF WriteData
<1>6. /\ s \in Segment /\ s.at = pos /\ s.kind = "data" /\ s.log = Current /\ s.from = o /\ s.len = n
  BY <1>2, <1>3 DEF DataSegment, Segment
<1>7. /\ nulls \in Segment /\ nulls.at = pos + n /\ nulls.kind = "null" /\ nulls.len = pad
  BY <1>3, <1>4 DEF NullSegment, Segment
<1>8. Padded(after, pos + n) = IF pad = 0 THEN after ELSE Append(after, nulls)
  BY DEF Padded
<1>9. o < z => remaining = z - o
  BY <1>1 DEF MixInv, Counted
<1>10. o < z /\ o + n < z => remaining' # 0 /\ remaining' = z - (o + n)
  <2> SUFFICES ASSUME o < z, o + n < z PROVE remaining' # 0 /\ remaining' = z - (o + n)
    OBVIOUS
  <2>1. remaining = z - o /\ n <= remaining
    BY <1>3, <1>9
  <2>2. remaining' = remaining - n
    BY <1>2, <1>5, <2>1, <1>3, MinusFits
  <2>3. n \in Nat /\ o \in Nat /\ z \in Nat
    BY <1>3
  <2> HIDE DEF n, s, after, pad, nulls, o, z
  <2> QED
    BY <2>1, <2>2, <2>3
<1>11. Copied(tape, pos, o)
  BY <1>1, NeverMixedIsUnmixed DEF MixInv, HeadersBegun, InPlace, Copied
<1>12. Current' = Current /\ offset'[Current] = o + n
  BY <1>0, <1>1, <1>2 DEF Current, Numbers
<1> HIDE DEF n, s, pad, nulls, o, z
<1>13. Copied(after, pos + n, o + n)
  BY <1>1, <1>3, <1>6, <1>11, AppendBytes DEF z
<1>14. Copied(tape', pos', o + n)
  <2>1. CASE tape' = after /\ pos' = pos + n
    BY <1>13, <2>1
  <2>2. CASE remaining' = 0 /\ pad # 0
    <3> HIDE DEF after
    <3>1. tape' = Append(after, nulls) /\ pos' = pos + n + pad
      BY <1>5, <1>8, <2>2
    <3>2. o + n >= z
      BY <1>3, <1>10, <2>2
    <3>3. o + n \in Nat /\ o + n + 0 = o + n /\ 0 \in Nat
      BY <1>3
    <3>4. \/ nulls.kind = "data" /\ nulls.log = Current /\ nulls.from = o + n /\ nulls.len = 0
          \/ o + n >= size[Current] /\ 0 = 0
      BY <3>2 DEF z
    <3> QED
      BY <1>1, <1>3, <1>7, <1>13, <3>1, <3>3, <3>4, AppendBytes DEF z
  <2>3. CASE remaining' = 0 /\ pad = 0
    BY <1>3, <1>5, <1>8, <2>1, <2>3
  <2> QED
    BY <1>5, <2>1, <2>2, <2>3
<1>15. HeadersBegun' /\ InPlace'
  BY <1>1, <1>12, <1>14 DEF HeadersBegun, InPlace, Placed, Copied
<1>16. Counted'
  <2>1. o + n < z => remaining' = z - (o + n)
    BY <1>3, <1>10
  <2>2. eof' => o + n >= z
    BY <1>1, <1>2, <1>3
  <2> QED
    BY <1>1, <1>12, <2>1, <2>2 DEF Counted, z
<1>17. NeverMixed'
  BY <1>1, <1>14, OrderFacts DEF NeverMixed, Unmixed, Past, Copied
<1>18. Laid(tape', pos')
  BY <1>14 DEF Copied
<1> QED
  BY <1>18, <1>15, <1>16, <1>17 DEF MixInv

\* The inductive invariant of the archive.
LEMMA MixInvHolds == Spec => []MixInv
<1>1. Init => MixInv
  <2> SUFFICES ASSUME Init PROVE MixInv
    OBVIOUS
  <2>1. tape = <<>> /\ pos = 0 /\ pc # "copy"
    BY DEF Init
  <2>2. Laid(tape, pos)
    BY <2>1 DEF Laid, TapeEnd
  <2> QED
    BY <2>1, <2>2 DEF MixInv, HeadersBegun, InPlace, Counted, NeverMixed
<1>2. FramedInv /\ MixInv /\ [Next]_vars => MixInv'
  <2> SUFFICES ASSUME FramedInv, MixInv, [Next]_vars PROVE MixInv'
    OBVIOUS
  <2>0. Numbers /\ Untouched
    BY DEF FramedInv
  <2>1. ASSUME UNCHANGED <<pc, copying, archive>> PROVE MixInv'
    BY <2>1 DEF MixInv, HeadersBegun, InPlace, Placed, Counted, NeverMixed, Past, Current,
                copying, archive
  <2>2. CASE (\E l \in Log : Grow(l)) \/ Reading \/ UNCHANGED vars
    BY <2>1, <2>2 DEF Grow, Reading, ReaderFinds, ReaderNext, ReaderReads, vars
  <2>3. CASE Measure
    <3>1. /\ cur \in 1..Len(Order) /\ UNCHANGED <<tape, pos>> /\ pc = "measure"
          /\ pc' \in {"measure", "open", "finalize"} /\ (cur' = cur + 1 \/ cur' = cur)
      BY <2>0, <2>3 DEF Measure, Advance, Numbers, archive
    <3> QED
      BY <2>0, <3>1, MixedOnwards
  <2>4. CASE OpenFails
    <3>1. /\ cur \in 1..Len(Order) /\ UNCHANGED <<tape, pos>> /\ pc = "open"
          /\ pc' \in {"measure", "finalize"} /\ cur' = cur + 1
      BY <2>0, <2>4 DEF OpenFails, Advance, Numbers, archive
    <3> QED
      BY <2>0, <3>1, MixedOnwards
  <2>5. CASE CopyEnds
    <3>1. /\ cur \in 1..Len(Order) /\ UNCHANGED <<tape, pos>> /\ pc = "copy"
          /\ pc' \in {"measure", "finalize"} /\ cur' = cur + 1
      BY <2>0, <2>5 DEF CopyEnds, Advance, Numbers, archive
    <3>2. Current \in Log
      BY <3>1, OrderFacts DEF Current
    <3>3. offset[Current] >= size[Current]
      <4>1. CASE eof
        BY <3>1, <4>1 DEF MixInv, Counted
      <4>2. CASE offset[Current] = length[Current]
        BY <2>0, <3>2, <4>2 DEF Untouched
      <4> QED
        BY <2>5, <4>1, <4>2 DEF CopyEnds
    <3> QED
      BY <2>0, <3>1, <3>3, MixedOnwards
  <2>6. CASE Finalize
    <3> DEFINE s == NullSegment(2 * Block, pos)
    <3>1. /\ pc = "finalize" /\ tape' = Append(tape, s) /\ pos' = pos + 2 * Block /\ pc' = "read"
          /\ UNCHANGED copying
      BY <2>6 DEF Finalize
    <3>2. s \in Segment /\ s.at = pos /\ s.kind = "null" /\ s.len = 2 * Block
      BY <2>0 DEF NullSegment, Segment, Numbers, Block
    <3> HIDE DEF s
    <3>3. Laid(tape, pos) /\ HeadersBegun /\ Unmixed(tape, cur)
      BY NeverMixedIsUnmixed DEF MixInv
    <3>4. Laid(tape', pos') /\ Unmixed(tape', cur)
      BY <3>1, <3>2, <3>3, AppendLaid, AppendUnmixed
    <3>5. \A i \in DOMAIN tape' : tape'[i].kind = "header" => i \in DOMAIN tape /\ tape'[i] = tape[i]
      BY <3>1, <3>2, <3>3, AppendLaid
    <3>6. HeadersBegun' /\ InPlace' /\ Counted'
      BY <3>1, <3>3, <3>5 DEF HeadersBegun, InPlace, Counted, copying
    <3>7. NeverMixed'
      BY <3>1, <3>4, OrderFacts DEF NeverMixed, Unmixed, Past, copying
    <3> QED
      BY <3>4, <3>6, <3>7 DEF MixInv
  <2> QED
    BY <2>2, <2>3, <2>4, <2>5, <2>6, MixedOpen, MixedCopy DEF Next, Writing
<1> QED
  BY <1>1, <1>2, FramedInvHolds, PTL DEF Spec

\* The bytes after the header of a log are that log and nothing else, as many as
\* the header says, for every set of logs, however they grow while GET /logs copies
\* them: mtar_write_file and mtar_write_data never let one log into another.
THEOREM LogsStayApart == Spec => []NeverMixed
<1>1. MixInv => NeverMixed
  BY DEF MixInv
<1> QED
  BY <1>1, MixInvHolds, PTL
-----------------------------------------------------------------------------
(* mtar_find: what the recursion of the model computes.                     *)

\* A set of numbers has a least one.
LEMMA Least ==
    ASSUME NEW S \in SUBSET Nat, S # {}
    PROVE  \E m \in S : \A k \in S : m <= k
<1> DEFINE Less == OpToRel(<, Nat)
<1>1. \A i, j \in Nat : i < j => <<i, j>> \in Less
  BY DEF OpToRel
<1>2. IsWellFoundedOn(Less, Nat)
  BY NatLessThanWellFounded
<1> HIDE DEF Less
<1>3. PICK m \in S : \A k \in S : <<k, m>> \notin Less
  BY <1>2, WFMin
<1>4. ASSUME NEW k \in S PROVE m <= k
  <2>1. ~(k < m)
    BY <1>1, <1>3
  <2> QED
    BY <2>1
<1> QED
  BY <1>4

\* The mtar_t with which mtar_find looks at the record at p.
At(tar, p) == Seek(Rewind(tar), p)

\* A turn of the loop of mtar_find at p, with f what it returns further on.
SearchStep(t, tar, l, f, p) ==
    LET here == ReadHeader(t, At(tar, p)) IN
    IF here.err # "ESUCCESS"
      THEN [here EXCEPT !.err = IF @ = "ENULLRECORD" THEN "ENOTFOUND" ELSE @]
    ELSE IF Header(t, p).log = l THEN here
    ELSE f[NextRecord(t, here.tar).tar.pos]

Tars == [pos : Nat, remaining : Nat, last : Nat]

LEMMA FindIsSearch ==
    ASSUME NEW t, NEW tar, NEW l
    PROVE  Find(t, tar, l) = (CHOOSE f : f = [p \in Nat |-> SearchStep(t, tar, l, f, p)])[0]
BY DEF Find, SearchStep, At

LEMMA EndIsNat ==
    ASSUME NEW t \in Seq(Segment)
    PROVE  TapeEnd(t) \in Nat
<1>1. CASE t = <<>>
  BY <1>1 DEF TapeEnd
<1>2. CASE t # <<>>
  <2>1. Len(t) \in DOMAIN t
    BY <1>2
  <2>2. t[Len(t)].at \in Nat /\ t[Len(t)].len \in Nat
    BY <2>1, Segments
  <2> QED
    BY <1>2, <2>2 DEF TapeEnd
<1> QED
  BY <1>1, <1>2

LEMMA RoundsUp ==
    ASSUME NEW n \in Nat
    PROVE  RoundUp(n, Block) \in Nat /\ RoundUp(n, Block) >= n /\ RoundUp(n, Block) % Block = 0
BY DEF RoundUp, Block

\* A header that can be read.
LEMMA HeaderRead ==
    ASSUME NEW t \in Seq(Segment), NEW p, HeaderStatus(t, p) = "ESUCCESS"
    PROVE  /\ ~(p + Block > TapeEnd(t))
           /\ \E i \in HeaderAt(t, p) : Header(t, p) = t[i]
           /\ Header(t, p).kind = "header" /\ Header(t, p).at = p
           /\ Header(t, p).from \in Nat /\ Header(t, p).log \in Log \cup {NoLog}
<1>1. ~(p + Block > TapeEnd(t))
  BY DEF HeaderStatus
<1>2. HeaderAt(t, p) # {}
  BY DEF HeaderStatus
<1>3. PICK i \in HeaderAt(t, p) : Header(t, p) = t[i]
  BY <1>2 DEF Header
<1>4. i \in DOMAIN t /\ t[i].kind = "header" /\ t[i].at = p
  BY DEF HeaderAt
<1> QED
  BY <1>1, <1>3, <1>4, Segments

\* mtar_read_header at p.
LEMMA ReadAt ==
    ASSUME NEW t, NEW tar \in Tars, NEW p \in Nat
    PROVE  /\ At(tar, p) = [pos |-> p, remaining |-> 0, last |-> 0]
           /\ ReadHeader(t, At(tar, p)).err = HeaderStatus(t, p)
           /\ ReadHeader(t, At(tar, p)).tar =
                [pos |-> IF p + Block > TapeEnd(t) THEN p + Block ELSE p, remaining |-> 0, last |-> p]
           /\ ReadHeader(t, At(tar, p)) =
                [err |-> ReadHeader(t, At(tar, p)).err, tar |-> ReadHeader(t, At(tar, p)).tar]
<1> DEFINE a == At(tar, p)
<1>1. a = [pos |-> p, remaining |-> 0, last |-> 0]
  <2>1. Rewind(tar) = [pos |-> 0, remaining |-> 0, last |-> 0]
    <3>1. \E x, y, z \in Nat : tar = [pos |-> x, remaining |-> y, last |-> z]
      <4>1. tar = [pos |-> tar.pos, remaining |-> tar.remaining, last |-> tar.last]
        BY DEF Tars
      <4> QED
        BY <4>1 DEF Tars
    <3>2. PICK x, y, z \in Nat : tar = [pos |-> x, remaining |-> y, last |-> z]
      BY <3>1
    <3> DEFINE b == [tar EXCEPT !.pos = 0]
               c == [b EXCEPT !.remaining = 0]
               d == [c EXCEPT !.last = 0]
    <3>3. Rewind(tar) = d
      BY DEF Rewind
    <3>4. b = [pos |-> 0, remaining |-> y, last |-> z]
      BY <3>2
    <3> HIDE DEF b
    <3>5. c = [pos |-> 0, remaining |-> 0, last |-> z]
      BY <3>4
    <3> HIDE DEF c
    <3>6. d = [pos |-> 0, remaining |-> 0, last |-> 0]
      BY <3>5
    <3> QED
      BY <3>3, <3>6
  <2> QED
    BY <2>1 DEF At, Seek
<1> HIDE DEF a
<1>2. a.pos = p
  BY <1>1
<1>3. ReadHeader(t, a).err = HeaderStatus(t, p)
  BY <1>2 DEF ReadHeader
<1>4. ReadHeader(t, a).tar = [a EXCEPT !.last = p, !.pos = IF p + Block > TapeEnd(t) THEN p + Block ELSE p]
  BY <1>2 DEF ReadHeader
<1>5. ReadHeader(t, a).tar =
        [pos |-> IF p + Block > TapeEnd(t) THEN p + Block ELSE p, remaining |-> 0, last |-> p]
  BY <1>1, <1>4
<1>6. ReadHeader(t, a) = [err |-> ReadHeader(t, a).err, tar |-> ReadHeader(t, a).tar]
  BY DEF ReadHeader
<1> QED
  BY <1>1, <1>3, <1>5, <1>6 DEF a

\* Where mtar_next looks for what comes after the log of header h.
After(h) == h.at + RoundUp(h.from, Block) + Block

\* mtar_next from a header.
LEMMA NextFrom ==
    ASSUME NEW t \in Seq(Segment), NEW tar \in Tars, HeaderStatus(t, tar.pos) = "ESUCCESS"
    PROVE  /\ NextRecord(t, tar).tar =
                [pos |-> After(Header(t, tar.pos)), remaining |-> tar.remaining, last |-> tar.pos]
           /\ After(Header(t, tar.pos)) \in Nat
           /\ After(Header(t, tar.pos)) > tar.pos
<1> DEFINE r == ReadHeader(t, tar)
<1>1. tar.pos \in Nat
  BY DEF Tars
<1>2. r.err = "ESUCCESS"
      /\ r.tar = [pos |-> tar.pos, remaining |-> tar.remaining, last |-> tar.pos]
  BY HeaderRead DEF ReadHeader, Tars
<1>3. Header(t, tar.pos).from \in Nat /\ Header(t, tar.pos).at = tar.pos
  BY HeaderRead
<1>4. RoundUp(Header(t, tar.pos).from, Block) \in Nat
  BY <1>3, RoundsUp
<1>5. After(Header(t, tar.pos)) = tar.pos + RoundUp(Header(t, tar.pos).from, Block) + Block
  BY <1>3 DEF After
<1>6. NextRecord(t, tar) = [r EXCEPT !.tar = Seek(@, @.pos + RoundUp(Header(t, @.pos).from, Block) + Block)]
  BY <1>2 DEF NextRecord
<1>7. NextRecord(t, tar).tar = Seek(r.tar, r.tar.pos + RoundUp(Header(t, r.tar.pos).from, Block) + Block)
  BY <1>6 DEF ReadHeader
<1>8. NextRecord(t, tar).tar =
        [pos |-> After(Header(t, tar.pos)), remaining |-> tar.remaining, last |-> tar.pos]
  BY <1>2, <1>5, <1>7 DEF Seek
<1> QED
  BY <1>1, <1>4, <1>5, <1>8 DEF Block

\* A turn of the loop, case by case.
Turns(r, t, l, f, p) ==
    /\ HeaderStatus(t, p) # "ESUCCESS" =>
         r.err # "ESUCCESS" /\ r.tar \in Tars /\ r.tar.remaining = 0
    /\ HeaderStatus(t, p) = "ESUCCESS" /\ Header(t, p).log = l =>
         r.err = "ESUCCESS" /\ r.tar = [pos |-> p, remaining |-> 0, last |-> p]
    /\ HeaderStatus(t, p) = "ESUCCESS" /\ Header(t, p).log # l =>
         r = f[After(Header(t, p))] /\ After(Header(t, p)) \in Nat /\ After(Header(t, p)) > p

LEMMA StepCases ==
    ASSUME NEW t \in Seq(Segment), NEW tar \in Tars, NEW l, NEW f, NEW p \in Nat
    PROVE  Turns(SearchStep(t, tar, l, f, p), t, l, f, p)
<1> DEFINE here == ReadHeader(t, At(tar, p))
<1>1. /\ here.err = HeaderStatus(t, p)
      /\ here.tar = [pos |-> IF p + Block > TapeEnd(t) THEN p + Block ELSE p, remaining |-> 0, last |-> p]
      /\ here = [err |-> here.err, tar |-> here.tar]
  BY ReadAt
<1>2. SearchStep(t, tar, l, f, p) =
        IF here.err # "ESUCCESS"
          THEN [here EXCEPT !.err = IF @ = "ENULLRECORD" THEN "ENOTFOUND" ELSE @]
        ELSE IF Header(t, p).log = l THEN here
        ELSE f[NextRecord(t, here.tar).tar.pos]
  BY DEF SearchStep
<1> HIDE DEF here
<1>3. CASE HeaderStatus(t, p) # "ESUCCESS"
  <2>1. here.tar \in Tars /\ here.tar.remaining = 0
    BY <1>1 DEF Tars, Block
  <2>2. SearchStep(t, tar, l, f, p) =
          [err |-> IF here.err = "ENULLRECORD" THEN "ENOTFOUND" ELSE here.err, tar |-> here.tar]
    BY <1>1, <1>2, <1>3
  <2> QED
    BY <1>1, <1>3, <2>1, <2>2 DEF Turns
<1>4. CASE HeaderStatus(t, p) = "ESUCCESS"
  <2>1. here.tar = [pos |-> p, remaining |-> 0, last |-> p] /\ here.tar \in Tars /\ here.tar.pos = p
    BY <1>1, <1>4, HeaderRead DEF Tars
  <2>2. NextRecord(t, here.tar).tar.pos = After(Header(t, p))
        /\ After(Header(t, p)) \in Nat /\ After(Header(t, p)) > p
    <3>1. HeaderStatus(t, here.tar.pos) = "ESUCCESS"
      BY <1>4, <2>1
    <3>2. /\ NextRecord(t, here.tar).tar = [pos |-> After(Header(t, here.tar.pos)),
                                            remaining |-> here.tar.remaining, last |-> here.tar.pos]
          /\ After(Header(t, here.tar.pos)) \in Nat /\ After(Header(t, here.tar.pos)) > here.tar.pos
      BY <2>1, <3>1, NextFrom
    <3> QED
      BY <2>1, <3>2
  <2> QED
    BY <1>1, <1>2, <1>4, <2>1, <2>2 DEF Turns
<1> QED
  BY <1>3, <1>4

\* A turn depends on what mtar_find returns further on, and on nothing else of it.
LEMMA StepLooksAhead ==
    ASSUME NEW t \in Seq(Segment), NEW tar \in Tars, NEW l, NEW f, NEW g, NEW p \in Nat,
           \A q \in Nat : q > p => f[q] = g[q]
    PROVE  SearchStep(t, tar, l, f, p) = SearchStep(t, tar, l, g, p)
<1> DEFINE here == ReadHeader(t, At(tar, p))
<1>1. here.err = HeaderStatus(t, p)
  BY ReadAt
<1>2. CASE HeaderStatus(t, p) = "ESUCCESS" /\ Header(t, p).log # l
  <2>1. /\ SearchStep(t, tar, l, f, p) = f[After(Header(t, p))]
        /\ SearchStep(t, tar, l, g, p) = g[After(Header(t, p))]
        /\ After(Header(t, p)) \in Nat /\ After(Header(t, p)) > p
    <3>1. /\ Turns(SearchStep(t, tar, l, f, p), t, l, f, p)
          /\ Turns(SearchStep(t, tar, l, g, p), t, l, g, p)
      BY StepCases
    <3> QED
      BY <1>2, <3>1 DEF Turns
  <2> QED
    BY <2>1
<1>3. CASE ~(HeaderStatus(t, p) = "ESUCCESS" /\ Header(t, p).log # l)
  <2>1. here.err # "ESUCCESS" \/ Header(t, p).log = l
    BY <1>1, <1>3
  <2> QED
    BY <2>1 DEF SearchStep
<1> QED
  BY <1>2, <1>3

\* There is a function that solves the equation of the recursion: the places grow,
\* and beyond the end of the archive nothing can be read.
LEMMA SearchExists ==
    ASSUME NEW t \in Seq(Segment), NEW tar \in Tars, NEW l
    PROVE  \E f : f = [p \in Nat |-> SearchStep(t, tar, l, f, p)]
<1> DEFINE Solves(f, n) == \A p \in Nat : p >= n => f[p] = SearchStep(t, tar, l, f, p)
           Good == {n \in Nat : \E f : DOMAIN f = Nat /\ f = [p \in Nat |-> f[p]] /\ Solves(f, n)}
           none == [p \in Nat |-> 0]
<1>1. TapeEnd(t) \in Good
  <2> DEFINE f == [p \in Nat |-> SearchStep(t, tar, l, none, p)]
  <2>1. ASSUME NEW p \in Nat, p >= TapeEnd(t)
        PROVE  f[p] = SearchStep(t, tar, l, f, p)
    <3>1. HeaderStatus(t, p) # "ESUCCESS"
      <4>1. p + Block > TapeEnd(t)
        BY <2>1, EndIsNat DEF Block
      <4> QED
        BY <4>1 DEF HeaderStatus
    <3>2. ReadHeader(t, At(tar, p)).err # "ESUCCESS"
      BY <3>1, ReadAt
    <3>3. SearchStep(t, tar, l, f, p) = SearchStep(t, tar, l, none, p)
      BY <3>2 DEF SearchStep
    <3> QED
      BY <3>3
  <2>2. DOMAIN f = Nat /\ f = [p \in Nat |-> f[p]]
    OBVIOUS
  <2> HIDE DEF f
  <2>3. Solves(f, TapeEnd(t))
    BY <2>1
  <2> QED
    BY <2>2, <2>3, EndIsNat
<1>2. PICK m \in Good : \A k \in Good : m <= k
  <2>1. Good \in SUBSET Nat /\ Good # {}
    BY <1>1
  <2> HIDE DEF Good
  <2> QED
    BY <2>1, Least
<1>3. m \in Nat
  OBVIOUS
<1>4. PICK f : DOMAIN f = Nat /\ f = [p \in Nat |-> f[p]] /\ Solves(f, m)
  OBVIOUS
<1>5. m = 0
  <2> SUFFICES ASSUME m # 0 PROVE FALSE
    OBVIOUS
  <2> DEFINE g == [p \in Nat |-> IF p = m - 1 THEN SearchStep(t, tar, l, f, m - 1) ELSE f[p]]
  <2>1. m - 1 \in Nat
    BY <1>3
  <2>2. \A p \in Nat : p > m - 1 => g[p] = f[p]
    BY <1>3
  <2>3. g[m - 1] = SearchStep(t, tar, l, f, m - 1)
    BY <2>1
  <2>4. DOMAIN g = Nat /\ g = [p \in Nat |-> g[p]]
    OBVIOUS
  <2> HIDE DEF g
  <2>5. ASSUME NEW p \in Nat, p >= m - 1 PROVE g[p] = SearchStep(t, tar, l, g, p)
    <3>1. \A q \in Nat : q > p => g[q] = f[q]
      BY <1>3, <2>2, <2>5
    <3>2. SearchStep(t, tar, l, g, p) = SearchStep(t, tar, l, f, p)
      BY <3>1, StepLooksAhead
    <3>3. CASE p = m - 1
      BY <2>3, <3>2, <3>3
    <3>4. CASE p # m - 1
      <4>1. p >= m /\ p > m - 1
        BY <1>3, <2>5, <3>4
      <4>2. f[p] = SearchStep(t, tar, l, f, p)
        BY <1>4, <4>1
      <4> QED
        BY <2>2, <3>2, <4>1, <4>2
    <3> QED
      BY <3>3, <3>4
  <2>6. m - 1 \in Good
    <3>1. Solves(g, m - 1)
      BY <2>5
    <3> HIDE DEF Solves
    <3> QED
      BY <2>1, <2>4, <3>1
  <2>7. m <= m - 1
    <3> HIDE DEF Good
    <3> QED
      BY <1>2, <2>6
  <2> QED
    BY <1>3, <2>7
<1>6. \A p \in Nat : f[p] = SearchStep(t, tar, l, f, p)
  BY <1>4, <1>5
<1>7. f = [p \in Nat |-> SearchStep(t, tar, l, f, p)]
  BY <1>4, <1>6, Zenon
<1> QED
  BY <1>7

\* What mtar_find computes at each place.
IsSearch(f, t, tar, l) == \A p \in Nat : f[p] = SearchStep(t, tar, l, f, p)

LEMMA FindSearches ==
    ASSUME NEW t \in Seq(Segment), NEW tar \in Tars, NEW l
    PROVE  \E f : IsSearch(f, t, tar, l) /\ Find(t, tar, l) = f[0]
<1> DEFINE f == CHOOSE f : f = [p \in Nat |-> SearchStep(t, tar, l, f, p)]
<1>1. f = [p \in Nat |-> SearchStep(t, tar, l, f, p)]
  BY SearchExists, Zenon
<1>2. Find(t, tar, l) = f[0]
  BY FindIsSearch
<1> HIDE DEF f
<1>3. IsSearch(f, t, tar, l)
  <2> SUFFICES ASSUME NEW p \in Nat PROVE f[p] = SearchStep(t, tar, l, f, p)
    BY DEF IsSearch
  <2> DEFINE g == [q \in Nat |-> SearchStep(t, tar, l, f, q)]
  <2>1. g[p] = SearchStep(t, tar, l, f, p)
    OBVIOUS
  <2>2. f = g
    BY <1>1
  <2> HIDE DEF g
  <2> QED
    BY <2>1, <2>2
<1> QED
  BY <1>2, <1>3

LEMMA SearchTurns ==
    ASSUME NEW t \in Seq(Segment), NEW tar \in Tars, NEW l, NEW f, IsSearch(f, t, tar, l), NEW p \in Nat
    PROVE  Turns(f[p], t, l, f, p)
BY StepCases DEF IsSearch

\* A search that succeeds stands at a header of the log, and nothing remains of what
\* was read before, whether it succeeds or not.
Answers(r, t, l) ==
    /\ r.tar \in Tars /\ r.tar.remaining = 0
    /\ r.err = "ESUCCESS" =>
         /\ HeaderStatus(t, r.tar.pos) = "ESUCCESS"
         /\ Header(t, r.tar.pos).log = l

\* mtar_find on any archive, whatever the reader did before: it comes to an end, what
\* it reports as found is a header of that log, and nothing is left of a read that was
\* not finished (mtar_rewind).
THEOREM FindAnswers ==
    ASSUME NEW t \in Seq(Segment), NEW tar \in Tars, NEW l
    PROVE  Answers(Find(t, tar, l), t, l)
<1>1. PICK f : IsSearch(f, t, tar, l) /\ Find(t, tar, l) = f[0]
  BY FindSearches
<1> DEFINE Good == {n \in Nat : \A p \in Nat : p >= n => Answers(f[p], t, l)}
<1>2. ASSUME NEW p \in Nat, \A q \in Nat : q > p => Answers(f[q], t, l)
      PROVE  Answers(f[p], t, l)
  <2>1. Turns(f[p], t, l, f, p)
    BY <1>1, SearchTurns
  <2>2. CASE HeaderStatus(t, p) # "ESUCCESS"
    BY <2>1, <2>2 DEF Turns, Answers
  <2>3. CASE HeaderStatus(t, p) = "ESUCCESS" /\ Header(t, p).log = l
    <3>1. f[p].tar = [pos |-> p, remaining |-> 0, last |-> p]
      BY <2>1, <2>3 DEF Turns
    <3>2. f[p].tar \in Tars /\ f[p].tar.remaining = 0 /\ f[p].tar.pos = p
      BY <3>1 DEF Tars
    <3> QED
      BY <2>3, <3>2 DEF Answers
  <2>4. CASE HeaderStatus(t, p) = "ESUCCESS" /\ Header(t, p).log # l
    <3>1. /\ f[p] = f[After(Header(t, p))]
          /\ After(Header(t, p)) \in Nat /\ After(Header(t, p)) > p
      BY <2>1, <2>4 DEF Turns
    <3> QED
      BY <1>2, <3>1
  <2> QED
    BY <2>2, <2>3, <2>4
<1>3. TapeEnd(t) \in Good
  <2>1. ASSUME NEW p \in Nat, p >= TapeEnd(t) PROVE Answers(f[p], t, l)
    <3>1. Turns(f[p], t, l, f, p)
      BY <1>1, SearchTurns
    <3>2. HeaderStatus(t, p) # "ESUCCESS"
      <4>1. p + Block > TapeEnd(t)
        BY <2>1, EndIsNat DEF Block
      <4> QED
        BY <4>1 DEF HeaderStatus
    <3> QED
      BY <3>1, <3>2 DEF Turns, Answers
  <2> QED
    BY <2>1, EndIsNat
<1>4. PICK m \in Good : \A k \in Good : m <= k
  <2>1. Good \in SUBSET Nat /\ Good # {}
    BY <1>3
  <2> HIDE DEF Good
  <2> QED
    BY <2>1, Least
<1>5. m \in Nat /\ \A p \in Nat : p >= m => Answers(f[p], t, l)
  OBVIOUS
<1>6. m = 0
  <2> SUFFICES ASSUME m # 0 PROVE FALSE
    OBVIOUS
  <2>1. m - 1 \in Nat
    BY <1>5
  <2>2. ASSUME NEW p \in Nat, p >= m - 1 PROVE Answers(f[p], t, l)
    <3>1. CASE p >= m
      BY <1>5, <3>1
    <3>2. CASE ~(p >= m)
      <4>1. \A q \in Nat : q > p => q >= m
        BY <1>5, <2>2
      <4> QED
        BY <1>2, <1>5, <4>1
    <3> QED
      BY <3>1, <3>2
  <2>3. m - 1 \in Good
    BY <2>1, <2>2
  <2> HIDE DEF Good
  <2> QED
    BY <1>4, <1>5, <2>3
<1> QED
  BY <1>1, <1>5, <1>6
-----------------------------------------------------------------------------
(* What the proof of FoundUnlessPushed needs: the headers lie one behind    *)
(* the other, and each begins where a reader of the one before it expects   *)
(* it, until a log outgrows its header.                                     *)

\* The segments lie one behind the other.
Ordered(t) == \A i, j \in DOMAIN t : i < j => t[i].at + t[i].len <= t[j].at

\* A log has one header, and that says what the log measured, z.
Headed(t, z) ==
    /\ \A i, j \in DOMAIN t : /\ t[i].kind = "header" /\ t[j].kind = "header"
                              /\ t[i].log = t[j].log
                              => i = j
    /\ \A i \in DOMAIN t : t[i].kind = "header" =>
         t[i].len = Block /\ t[i].log \in Log /\ t[i].from > 0 /\ t[i].from = z[t[i].log]

\* No log of the first n segments has outgrown its header: o is how far they have
\* been read.
Kept(t, n, z, o) == \A j \in 1..n : t[j].kind = "header" => ~(o[t[j].log] > z[t[j].log])

\* A reader of the first n segments gets to place p.
Leads(t, n, p) ==
    p = 0 \/ \E j \in 1..n : t[j].kind = "header" /\ t[j].at % Block = 0 /\ p = After(t[j])

Linked(t, z, o) ==
    \A i \in DOMAIN t : t[i].kind = "header" /\ Kept(t, i - 1, z, o) => Leads(t, i - 1, t[i].at)

\* The end of the archive is where the reader of a header gets to: of the header of
\* the log that is being copied when all its bytes are there, of any header when no
\* log is being copied.
Ended ==
    Kept(tape, Len(tape), size, offset) =>
        /\ pc \in {"measure", "open", "finalize"} => Leads(tape, Len(tape), pos)
        /\ pc = "copy" => \E j \in 1..Len(tape) :
               /\ tape[j].kind = "header" /\ tape[j].log = Current /\ tape[j].at % Block = 0
               /\ offset[Current] >= size[Current] => pos = After(tape[j])

LinkInv == Ordered(tape) /\ Headed(tape, size) /\ Linked(tape, size, offset) /\ Ended

\* What a reader is at: the header of the log, or so many bytes behind it.
ReaderInv ==
    /\ rd \in [pos : Nat, remaining : Nat, last : Nat]
    /\ found \in Log \cup {NoLog}
    /\ got \in Nat
    /\ found # NoLog =>
         /\ pc = "read" /\ got <= size[found]
         /\ IF got \in {0, size[found]}
              THEN rd.remaining = 0 /\ LogAt(rd.pos) = found
              ELSE /\ rd.remaining = size[found] - got
                   /\ LogAt(rd.last) = found
                   /\ rd.pos = rd.last + Block + got


\* Segments were added, none of them a header.
Longer(u, t) ==
    /\ DOMAIN t = 1..Len(t) /\ DOMAIN u = 1..Len(u) /\ Len(t) \in Nat /\ Len(u) \in Nat
    /\ Len(t) <= Len(u)
    /\ \A i \in 1..Len(t) : u[i] = t[i]
    /\ \A i \in 1..Len(u) : u[i].kind = "header" => i \in 1..Len(t)

LEMMA LongerStays ==
    ASSUME NEW u, NEW t, Longer(u, t), NEW z, NEW o
    PROVE  /\ Headed(t, z) => Headed(u, z)
           /\ Linked(t, z, o) => Linked(u, z, o)
           /\ Kept(u, Len(u), z, o) => Kept(t, Len(t), z, o)
<1>1. Headed(t, z) => Headed(u, z)
  BY DEF Longer, Headed
<1>2. Linked(t, z, o) => Linked(u, z, o)
  <2> SUFFICES ASSUME Linked(t, z, o), NEW i \in 1..Len(u), u[i].kind = "header",
                      Kept(u, i - 1, z, o)
               PROVE  Leads(u, i - 1, u[i].at)
    BY DEF Linked, Longer
  <2>1. i \in 1..Len(t) /\ u[i] = t[i] /\ DOMAIN t = 1..Len(t) /\ Len(t) \in Nat
    BY DEF Longer
  <2>2. \A j \in 1..(i - 1) : u[j] = t[j]
    BY <2>1 DEF Longer
  <2>3. Kept(t, i - 1, z, o)
    BY <2>2 DEF Kept
  <2>4. Leads(t, i - 1, t[i].at)
    BY <2>1, <2>3 DEF Linked
  <2> QED
    BY <2>1, <2>2, <2>4 DEF Leads
<1>3. Kept(u, Len(u), z, o) => Kept(t, Len(t), z, o)
  BY DEF Longer, Kept
<1> QED
  BY <1>1, <1>2, <1>3

LEMMA LongerLeads ==
    ASSUME NEW u, NEW t, Longer(u, t), NEW p, Leads(t, Len(t), p)
    PROVE  Leads(u, Len(u), p)
BY DEF Longer, Leads

LEMMA LongerTwice ==
    ASSUME NEW u, NEW t, NEW w, Longer(u, t), Longer(w, u)
    PROVE  Longer(w, t)
BY DEF Longer

LEMMA AppendLonger ==
    ASSUME NEW t, NEW p, Laid(t, p), Ordered(t), NEW s \in Segment, s.at = p
    PROVE  /\ Ordered(Append(t, s))
           /\ s.kind # "header" => Longer(Append(t, s), t)
<1> DEFINE u == Append(t, s)
<1>1. /\ DOMAIN t = 1..Len(t) /\ Len(t) \in Nat
      /\ DOMAIN u = 1..(Len(t) + 1)
      /\ \A i \in DOMAIN t : u[i] = t[i]
      /\ u[Len(t) + 1] = s
      /\ Laid(u, p + s.len)
  BY AppendLaid
<1>2. u \in Seq(Segment)
  BY <1>1 DEF Laid
<1> HIDE DEF u
<1>3. Len(u) = Len(t) + 1
  BY <1>1, <1>2
<1>4. Ordered(u)
  <2> SUFFICES ASSUME NEW i \in DOMAIN u, NEW j \in DOMAIN u, i < j
               PROVE  u[i].at + u[i].len <= u[j].at
    BY DEF Ordered
  <2>1. i \in DOMAIN t /\ u[i] = t[i]
    BY <1>1
  <2>2. CASE j \in DOMAIN t
    BY <1>1, <2>1, <2>2 DEF Ordered
  <2>3. CASE j = Len(t) + 1
    BY <1>1, <2>1, <2>3 DEF Laid
  <2> QED
    BY <1>1, <2>2, <2>3
<1>5. s.kind # "header" => Longer(u, t)
  BY <1>1, <1>3 DEF Longer
<1> QED
  BY <1>4, <1>5 DEF u

\* What has been read of a log does not become less.
LEMMA KeptBefore ==
    ASSUME NEW t, NEW z \in [Log -> Nat], NEW o \in [Log -> Nat], NEW q \in [Log -> Nat],
           Headed(t, z), DOMAIN t = 1..Len(t), Len(t) \in Nat,
           \A l \in Log : o[l] <= q[l]
    PROVE  /\ \A n \in 0..Len(t) : Kept(t, n, z, q) => Kept(t, n, z, o)
           /\ Linked(t, z, o) => Linked(t, z, q)
<1>1. ASSUME NEW n \in 0..Len(t), Kept(t, n, z, q) PROVE Kept(t, n, z, o)
  <2> SUFFICES ASSUME NEW j \in 1..n, t[j].kind = "header" PROVE ~(o[t[j].log] > z[t[j].log])
    BY DEF Kept
  <2>1. j \in DOMAIN t
    OBVIOUS
  <2> DEFINE l == t[j].log
  <2>2. l \in Log
    BY <2>1 DEF Headed
  <2>3. ~(q[l] > z[l])
    BY <1>1 DEF Kept
  <2> HIDE DEF l
  <2>4. ~(o[l] > z[l])
    BY <2>2, <2>3
  <2> QED
    BY <2>4 DEF l
<1>2. ASSUME Linked(t, z, o) PROVE Linked(t, z, q)
  <2> SUFFICES ASSUME NEW i \in DOMAIN t, t[i].kind = "header", Kept(t, i - 1, z, q)
               PROVE  Leads(t, i - 1, t[i].at)
    BY DEF Linked
  <2>1. i - 1 \in 0..Len(t)
    OBVIOUS
  <2> QED
    BY <1>1, <1>2, <2>1 DEF Linked
<1> QED
  BY <1>1, <1>2

\* The padding after z bytes behind a header leads to where a reader of the header
\* gets to.
LEMMA PaddedIsAfter ==
    ASSUME NEW a \in Nat, a % Block = 0, NEW z \in Nat
    PROVE  a + Block + z + PaddingAt(a + Block + z) = a + RoundUp(z, Block) + Block
<1>1. (a + 512 + z) % 512 = z % 512
  BY DEF Block
<1> QED
  BY <1>1 DEF PaddingAt, RoundUp, Block

LEMMA LeadsToBlock ==
    ASSUME NEW t \in Seq(Segment), NEW p, Leads(t, Len(t), p)
    PROVE  p \in Nat /\ p % Block = 0
<1>1. CASE p = 0
  BY <1>1 DEF Block
<1>2. CASE p # 0
  <2>1. PICK j \in 1..Len(t) : t[j].at % Block = 0 /\ p = After(t[j])
    BY <1>2 DEF Leads
  <2>2. j \in DOMAIN t
    OBVIOUS
  <2>3. t[j].at \in Nat /\ t[j].from \in Nat
    BY <2>2, Segments
  <2> DEFINE r == RoundUp(t[j].from, Block)
             a == t[j].at
  <2>4. r \in Nat /\ r % Block = 0
    BY <2>3, RoundsUp
  <2>5. p = a + r + Block /\ a \in Nat /\ a % Block = 0
    BY <2>1, <2>3 DEF After
  <2> HIDE DEF r, a
  <2> QED
    BY <2>4, <2>5 DEF Block
<1> QED
  BY <1>1, <1>2

\* The route goes on, with the archive as it is.
LEMMA LinkOnwards ==
    ASSUME LinkInv, Numbers, Untouched, MixInv, UNCHANGED <<tape, pos, offset>>,
           \A i \in 1..Len(tape) : tape[i].kind = "header" => size'[tape[i].log] = size[tape[i].log],
           pc' \in {"measure", "open", "finalize"},
           pc \in {"measure", "open"} \/ (pc = "copy" /\ offset[Current] >= size[Current])
    PROVE  LinkInv'
<1>0. tape \in Seq(Segment) /\ DOMAIN tape = 1..Len(tape) /\ Len(tape) \in Nat
  BY DEF MixInv, Laid
<1>1. Ordered(tape)'
  BY DEF LinkInv, Ordered
<1>2. Headed(tape', size')
  BY <1>0 DEF LinkInv, Headed
<1>3. \A n \in 0..Len(tape) : Kept(tape', n, size', offset') <=> Kept(tape, n, size, offset)
  BY <1>0 DEF Kept
<1>4. Linked(tape', size', offset')
  <2> SUFFICES ASSUME NEW i \in 1..Len(tape), tape[i].kind = "header",
                      Kept(tape', i - 1, size', offset')
               PROVE  Leads(tape, i - 1, tape[i].at)
    BY <1>0 DEF Linked
  <2>1. i - 1 \in 0..Len(tape)
    BY <1>0
  <2> QED
    BY <1>0, <1>3, <2>1 DEF LinkInv, Linked
<1>5. Ended'
  <2> SUFFICES ASSUME Kept(tape', Len(tape'), size', offset') PROVE Leads(tape, Len(tape), pos)
    BY DEF Ended
  <2>1. Kept(tape, Len(tape), size, offset)
    BY <1>0, <1>3
  <2>2. CASE pc \in {"measure", "open"}
    BY <2>1, <2>2 DEF LinkInv, Ended
  <2>3. CASE pc = "copy" /\ offset[Current] >= size[Current]
    BY <2>1, <2>3 DEF LinkInv, Ended, Leads
  <2> QED
    BY <2>2, <2>3
<1> QED
  BY <1>1, <1>2, <1>4, <1>5 DEF LinkInv

\* mtar_write_header puts the header where a reader of the archive gets to.
LEMMA LinkOpen ==
    ASSUME FramedInv, MixInv, LinkInv, Open
    PROVE  LinkInv'
<1>0. Numbers /\ Untouched
  BY DEF FramedInv
<1> DEFINE s == HeaderSegment(Current, size[Current], pos)
<1>1. /\ pc = "open" /\ pc' = "copy" /\ tape' = Append(tape, s) /\ pos' = pos + Block
      /\ UNCHANGED <<length, cur, eof, size, offset, written>>
  BY DEF Open, copying
<1>2. /\ Current \in Log /\ cur \in 1..Len(Order) /\ Len(Order) \in Nat
      /\ size[Current] \in 0..MaxLength /\ MaxLength \in Nat
      /\ offset[Current] = 0 /\ size[Current] > 0
  BY <1>0, <1>1, OrderFacts, ArchiveAssumption DEF Numbers, Untouched, Current, ArchiveAssumption
<1>3. /\ s \in Segment /\ s.at = pos /\ s.kind = "header" /\ s.log = Current
      /\ s.from = size[Current] /\ s.len = Block /\ pos \in Nat
  BY <1>0, <1>2 DEF HeaderSegment, Segment, Numbers, Block
<1> HIDE DEF s
<1>4. Laid(tape, pos) /\ HeadersBegun /\ tape \in Seq(Segment)
  BY DEF MixInv, Laid
<1>5. /\ Laid(tape', pos') /\ DOMAIN tape = 1..Len(tape) /\ Len(tape) \in Nat
      /\ DOMAIN tape' = 1..(Len(tape) + 1)
      /\ \A i \in DOMAIN tape : tape'[i] = tape[i]
      /\ tape'[Len(tape) + 1] = s
  BY <1>1, <1>3, <1>4, AppendLaid
<1>6. Len(tape') = Len(tape) + 1
  BY <1>5 DEF Laid
<1>7. \A i \in DOMAIN tape : tape[i].kind = "header" => tape[i].log # Current
  <2> SUFFICES ASSUME NEW i \in DOMAIN tape, tape[i].kind = "header", tape[i].log = Current
               PROVE  FALSE
    OBVIOUS
  <2>1. PICK k \in 1..Len(Order) : Order[k] = Current /\ k < cur
    BY <1>1, <1>4 DEF HeadersBegun
  <2>2. k = cur
    BY <1>2, <2>1, OrderFacts DEF Current
  <2> QED
    BY <1>2, <2>1, <2>2
<1>8. Ordered(tape')
  BY <1>1, <1>3, <1>4, AppendLonger DEF LinkInv
<1>9. Headed(tape', size')
  <2>1. Headed(tape, size)
    BY DEF LinkInv
  <2>2. ASSUME NEW i \in DOMAIN tape'
        PROVE  (i \in DOMAIN tape /\ tape'[i] = tape[i]) \/ (i = Len(tape) + 1 /\ tape'[i] = s)
    <3>1. i \in 1..Len(tape) \/ i = Len(tape) + 1
      BY <1>5
    <3> QED
      BY <1>5, <3>1
  <2>3. UNCHANGED size
    BY <1>1
  <2>4. \A i, j \in DOMAIN tape' : /\ tape'[i].kind = "header" /\ tape'[j].kind = "header"
                                   /\ tape'[i].log = tape'[j].log
                                   => i = j
    <3> SUFFICES ASSUME NEW i \in DOMAIN tape', NEW j \in DOMAIN tape',
                        tape'[i].kind = "header", tape'[j].kind = "header",
                        tape'[i].log = tape'[j].log
                 PROVE  i = j
      OBVIOUS
    <3> QED
      BY <1>3, <1>7, <2>1, <2>2 DEF Headed
  <2>5. \A i \in DOMAIN tape' : tape'[i].kind = "header" =>
          /\ tape'[i].len = Block /\ tape'[i].log \in Log
          /\ tape'[i].from > 0 /\ tape'[i].from = size[tape'[i].log]
    BY <1>2, <1>3, <2>1, <2>2 DEF Headed
  <2> QED
    BY <2>3, <2>4, <2>5 DEF Headed
<1>10. \A n \in 0..Len(tape) : Kept(tape', n, size', offset') => Kept(tape, n, size, offset)
  BY <1>1, <1>5 DEF Kept
<1>11. \A n \in 0..Len(tape), p \in Nat : Leads(tape, n, p) => Leads(tape', n, p)
  BY <1>5 DEF Leads
<1>12. Kept(tape', Len(tape), size', offset') => Leads(tape, Len(tape), pos)
  <2>1. Len(tape) \in 0..Len(tape)
    BY <1>5
  <2> QED
    BY <1>1, <1>10, <2>1 DEF LinkInv, Ended
<1>13. Linked(tape', size', offset')
  <2> SUFFICES ASSUME NEW i \in DOMAIN tape', tape'[i].kind = "header",
                      Kept(tape', i - 1, size', offset')
               PROVE  Leads(tape', i - 1, tape'[i].at)
    BY DEF Linked
  <2>1. CASE i \in DOMAIN tape
    <3>1. tape'[i] = tape[i] /\ i - 1 \in 0..Len(tape)
      BY <1>5, <2>1
    <3>2. Leads(tape, i - 1, tape[i].at)
      BY <1>10, <2>1, <3>1 DEF LinkInv, Linked
    <3>3. tape[i].at \in Nat
      BY <1>4, <2>1, Segments
    <3> QED
      BY <1>11, <3>1, <3>2, <3>3
  <2>2. CASE i = Len(tape) + 1
    <3>1. i - 1 = Len(tape) /\ Len(tape) \in 0..Len(tape) /\ tape'[i].at = pos /\ pos \in Nat
      BY <1>3, <1>5, <2>2
    <3> QED
      BY <1>11, <1>12, <3>1
  <2> QED
    BY <1>5, <2>1, <2>2
<1>14. Ended'
  <2> SUFFICES ASSUME Kept(tape', Len(tape'), size', offset')
               PROVE  \E j \in 1..Len(tape') :
                        /\ tape'[j].kind = "header" /\ tape'[j].log = Current /\ tape'[j].at % Block = 0
                        /\ offset[Current] >= size[Current] => pos' = After(tape'[j])
    BY <1>1 DEF Ended, Current
  <2>1. Kept(tape', Len(tape), size', offset')
    BY <1>5, <1>6 DEF Kept
  <2>2. pos % Block = 0
    BY <1>4, <1>12, <2>1, LeadsToBlock
  <2>3. ~(offset[Current] >= size[Current])
    BY <1>2
  <2>4. Len(tape) + 1 \in 1..Len(tape')
    BY <1>5, <1>6
  <2> QED
    BY <1>3, <1>5, <2>2, <2>3, <2>4
<1> QED
  BY <1>8, <1>9, <1>13, <1>14 DEF LinkInv

\* A turn of the loop of mtar_write_file: when the last of the bytes that the header
\* announced is there, the padding leads to where a reader of the header gets to.
LEMMA LinkCopy ==
    ASSUME FramedInv, MixInv, LinkInv, Copy
    PROVE  LinkInv'
<1>0. Numbers /\ Untouched
  BY DEF FramedInv
<1> DEFINE n == Min2(Chunk, length[Current] - offset[Current])
           s == DataSegment(Current, offset[Current], n, pos)
           after == Append(tape, s)
           pad == PaddingAt(pos + n)
           nulls == NullSegment(pad, pos + n)
           o == offset[Current]
           z == size[Current]
<1>1. /\ pc = "copy" /\ n > 0
      /\ WriteData(n)
      /\ offset' = [offset EXCEPT ![Current] = @ + n]
      /\ UNCHANGED <<length, pc, cur, size>>
  BY DEF Copy
<1>2. /\ Current \in Log
      /\ n \in 0..MaxLength
      /\ o + n <= length[Current]
  BY <1>0, <1>1, ReadFits
<1>3. /\ o \in Nat /\ z \in Nat /\ n \in Nat /\ pos \in Nat /\ remaining \in 0..(Word - 1)
      /\ pos + n \in Nat
  <2>1. /\ o \in 0..MaxLength /\ z \in 0..MaxLength /\ MaxLength \in Nat
        /\ pos \in Nat /\ remaining \in 0..(Word - 1)
    BY <1>0, <1>2, ArchiveAssumption DEF Numbers, ArchiveAssumption
  <2> HIDE DEF n, o, z
  <2> QED
    BY <1>2, <2>1
<1>4. pad \in Nat
  BY <1>3, PaddingFits
<1>5. /\ remaining' = Minus(remaining, n)
      /\ tape' = IF remaining' = 0 THEN Padded(after, pos + n) ELSE after
      /\ pos' = IF remaining' = 0 THEN pos + n + pad ELSE pos + n
  BY <1>1 DEF WriteData
<1>6. s \in Segment /\ s.at = pos /\ s.kind = "data" /\ s.len = n
  BY <1>2, <1>3 DEF DataSegment, Segment
<1>7. nulls \in Segment /\ nulls.at = pos + n /\ nulls.kind = "null"
  BY <1>3, <1>4 DEF NullSegment, Segment
<1>8. Padded(after, pos + n) = IF pad = 0 THEN after ELSE Append(after, nulls)
  BY DEF Padded
<1>9. /\ offset' \in [Log -> Nat] /\ offset \in [Log -> Nat] /\ size \in [Log -> Nat]
      /\ offset'[Current] = o + n
      /\ \A l \in Log : offset[l] <= offset'[l]
  <2>1. /\ offset \in [Log -> 0..MaxLength] /\ size \in [Log -> 0..MaxLength] /\ MaxLength \in Nat
    BY <1>0, ArchiveAssumption DEF Numbers, ArchiveAssumption
  <2>2. offset \in [Log -> Nat] /\ size \in [Log -> Nat]
    BY <2>1
  <2> HIDE DEF n
  <2> QED
    BY <1>1, <1>2, <1>3, <2>2
<1>10. /\ Laid(tape, pos) /\ tape \in Seq(Segment) /\ DOMAIN tape = 1..Len(tape) /\ Len(tape) \in Nat
       /\ Ordered(tape) /\ Headed(tape, size) /\ Linked(tape, size, offset) /\ Ended
  BY DEF MixInv, Laid, LinkInv
<1>a. Current' = Current
  BY <1>1 DEF Current
<1> HIDE DEF n, s, pad, nulls, o, z
<1>11. after = Append(tape, s)
  OBVIOUS
<1> HIDE DEF after
<1>12. Laid(after, pos + n) /\ Ordered(after) /\ Longer(after, tape)
  BY <1>6, <1>10, <1>11, AppendLaid, AppendLonger
<1>13. Ordered(tape') /\ Longer(tape', tape)
  <2>1. CASE tape' = after
    BY <1>12, <2>1
  <2>2. CASE tape' = Append(after, nulls)
    <3>1. Ordered(tape') /\ Longer(tape', after)
      BY <1>7, <1>12, <2>2, AppendLonger
    <3> QED
      BY <1>12, <3>1, LongerTwice
  <2> QED
    BY <1>5, <1>8, <2>1, <2>2
<1>14. Linked(tape, size, offset')
  BY <1>9, <1>10, KeptBefore
<1>15. Headed(tape', size') /\ Linked(tape', size', offset')
  BY <1>1, <1>10, <1>13, <1>14, LongerStays
<1>16. Ended'
  <2> SUFFICES ASSUME Kept(tape', Len(tape'), size', offset')
               PROVE  \E j \in 1..Len(tape') :
                        /\ tape'[j].kind = "header" /\ tape'[j].log = Current /\ tape'[j].at % Block = 0
                        /\ o + n >= z => pos' = After(tape'[j])
    BY <1>1, <1>9, <1>a DEF Ended, z
  <2>1. Kept(tape, Len(tape), size, offset')
    BY <1>1, <1>13, LongerStays
  <2>2. Kept(tape, Len(tape), size, offset)
    <3>1. Len(tape) \in 0..Len(tape)
      BY <1>10
    <3> QED
      BY <1>9, <1>10, <2>1, <3>1, KeptBefore
  <2>3. PICK j \in 1..Len(tape) :
              tape[j].kind = "header" /\ tape[j].log = Current /\ tape[j].at % Block = 0
    BY <1>1, <1>10, <2>2 DEF Ended
  <2>4. j \in 1..Len(tape') /\ tape'[j] = tape[j] /\ j \in DOMAIN tape
    BY <1>10, <1>13 DEF Longer
  <2>5. o + n <= z
    <3>1. ~(offset'[Current] > size[Current])
      BY <2>1, <2>3 DEF Kept
    <3> QED
      BY <1>3, <1>9, <3>1 DEF z
  <2>6. tape[j].at \in Nat /\ tape[j].from = z
    BY <1>10, <2>3, <2>4, Segments DEF Headed, z
  <2>7. o < z
    BY <1>1, <1>3, <2>5
  <2>8. remaining = z - o
    BY <1>1, <2>7 DEF MixInv, Counted, o, z
  <2>9. pos = tape[j].at + Block + o
    BY <1>1, <2>3, <2>4, <2>7 DEF MixInv, InPlace, Placed, o, z
  <2>10. ASSUME o + n >= z PROVE pos' = After(tape[j])
    <3>1. o + n = z /\ remaining = n
      BY <1>3, <2>5, <2>8, <2>10
    <3>2. remaining' = 0
      BY <1>2, <1>3, <1>5, <3>1, MinusFits
    <3>3. pos + n = tape[j].at + Block + z
      <4> DEFINE a == tape[j].at
      <4>1. a \in Nat /\ pos = a + Block + o /\ o + n = z /\ o \in Nat /\ n \in Nat
        BY <1>3, <2>6, <2>9, <3>1
      <4> HIDE DEF a
      <4>2. pos + n = a + Block + z
        BY <4>1 DEF Block
      <4> QED
        BY <4>2 DEF a
    <3>4. pos' = tape[j].at + Block + z + PaddingAt(tape[j].at + Block + z)
      BY <1>5, <3>2, <3>3 DEF pad
    <3> QED
      BY <1>3, <2>3, <2>6, <3>4, PaddedIsAfter DEF After
  <2> QED
    BY <2>3, <2>4, <2>10
<1> QED
  BY <1>13, <1>15, <1>16 DEF LinkInv

\* The inductive invariant of the archive as a chain of headers.
LEMMA LinkInvHolds == Spec => [](FramedInv /\ MixInv /\ LinkInv)
<1>1. Init => LinkInv
  <2> SUFFICES ASSUME Init PROVE LinkInv
    OBVIOUS
  <2>1. tape = <<>> /\ pos = 0 /\ pc # "copy" /\ DOMAIN tape = {}
    BY DEF Init
  <2>2. Leads(tape, Len(tape), pos)
    BY <2>1 DEF Leads
  <2> QED
    BY <2>1, <2>2 DEF LinkInv, Ordered, Headed, Linked, Ended
<1>2. FramedInv /\ MixInv /\ LinkInv /\ [Next]_vars => LinkInv'
  <2> SUFFICES ASSUME FramedInv, MixInv, LinkInv, [Next]_vars PROVE LinkInv'
    OBVIOUS
  <2>0. Numbers /\ Untouched
    BY DEF FramedInv
  <2>1. ASSUME UNCHANGED <<pc, copying, archive>> PROVE LinkInv'
    BY <2>1 DEF LinkInv, Ended, Current, copying, archive
  <2>2. CASE (\E l \in Log : Grow(l)) \/ Reading \/ UNCHANGED vars
    BY <2>1, <2>2 DEF Grow, Reading, ReaderFinds, ReaderNext, ReaderReads, vars
  <2>3. CASE Measure
    <3>1. /\ UNCHANGED <<tape, pos, offset>> /\ pc = "measure"
          /\ pc' \in {"measure", "open", "finalize"} /\ cur \in 1..Len(Order)
          /\ size' = [size EXCEPT ![Current] = length[Current]]
      BY <2>0, <2>3 DEF Measure, Advance, Numbers, archive
    <3>2. ASSUME NEW i \in 1..Len(tape), tape[i].kind = "header"
          PROVE  size'[tape[i].log] = size[tape[i].log]
      <4>1. i \in DOMAIN tape
        BY DEF MixInv, Laid
      <4>2. PICK k \in 1..Len(Order) : Order[k] = tape[i].log /\ k < cur
        BY <3>1, <3>2, <4>1 DEF MixInv, HeadersBegun
      <4>3. tape[i].log \in Log /\ tape[i].log # Current
        BY <3>1, <4>2, OrderFacts DEF Current
      <4> QED
        BY <2>0, <3>1, <4>3 DEF Numbers
    <3> QED
      BY <2>0, <3>1, <3>2, LinkOnwards
  <2>4. CASE OpenFails
    <3>1. UNCHANGED <<tape, pos, offset, size>> /\ pc = "open" /\ pc' \in {"measure", "finalize"}
      BY <2>4 DEF OpenFails, Advance, archive
    <3> QED
      BY <2>0, <3>1, LinkOnwards
  <2>5. CASE CopyEnds
    <3>1. /\ UNCHANGED <<tape, pos, offset, size>> /\ pc = "copy"
          /\ pc' \in {"measure", "finalize"} /\ cur \in 1..Len(Order)
      BY <2>0, <2>5 DEF CopyEnds, Advance, Numbers, archive
    <3>2. Current \in Log
      BY <3>1, OrderFacts DEF Current
    <3>3. offset[Current] >= size[Current]
      <4>1. CASE eof
        BY <3>1, <4>1 DEF MixInv, Counted
      <4>2. CASE offset[Current] = length[Current]
        BY <2>0, <3>2, <4>2 DEF Untouched
      <4> QED
        BY <2>5, <4>1, <4>2 DEF CopyEnds
    <3> QED
      BY <2>0, <3>1, <3>3, LinkOnwards
  <2>6. CASE Finalize
    <3> DEFINE s == NullSegment(2 * Block, pos)
    <3>1. /\ tape' = Append(tape, s) /\ pc' = "read"
          /\ UNCHANGED <<size, offset>>
      BY <2>6 DEF Finalize, copying
    <3>2. s \in Segment /\ s.at = pos /\ s.kind # "header"
      BY <2>0 DEF NullSegment, Segment, Numbers, Block
    <3> HIDE DEF s
    <3>3. Ordered(tape') /\ Longer(tape', tape)
      BY <3>1, <3>2, AppendLonger DEF MixInv, LinkInv
    <3>4. Headed(tape', size') /\ Linked(tape', size', offset')
      BY <3>1, <3>3, LongerStays DEF LinkInv
    <3>5. Ended'
      BY <3>1 DEF Ended
    <3> QED
      BY <3>3, <3>4, <3>5 DEF LinkInv
  <2> QED
    BY <2>2, <2>3, <2>4, <2>5, <2>6, LinkOpen, LinkCopy DEF Next, Writing
<1> QED
  BY <1>1, <1>2, MixInvHolds, FramedInvHolds, PTL DEF Spec

\* A header of the archive is read where it is, and none other.
LEMMA HeaderFound ==
    ASSUME NEW t, NEW p, Laid(t, p), NEW z, Ordered(t), Headed(t, z),
           NEW i \in DOMAIN t, t[i].kind = "header"
    PROVE  HeaderStatus(t, t[i].at) = "ESUCCESS" /\ Header(t, t[i].at) = t[i]
<1>1. t \in Seq(Segment) /\ TapeEnd(t) = p /\ p \in Nat /\ t[i].at + t[i].len <= p /\ t[i].len = Block
  BY DEF Laid, Headed
<1>2. t[i].at \in Nat
  BY <1>1, Segments
<1>3. i \in HeaderAt(t, t[i].at)
  BY DEF HeaderAt
<1>4. ~(t[i].at + Block > TapeEnd(t))
  BY <1>1, <1>2 DEF Block
<1>5. HeaderStatus(t, t[i].at) = "ESUCCESS"
  BY <1>3, <1>4 DEF HeaderStatus
<1>6. ASSUME NEW k \in HeaderAt(t, t[i].at) PROVE k = i
  <2>1. k \in DOMAIN t /\ t[k].kind = "header" /\ t[k].at = t[i].at /\ t[k].len = Block
    BY DEF HeaderAt, Headed
  <2>2. ~(k < i)
    <3>1. k < i => t[i].at + Block <= t[i].at
      BY <2>1 DEF Ordered
    <3> QED
      BY <1>2, <3>1 DEF Block
  <2>3. ~(i < k)
    <3>1. i < k => t[i].at + Block <= t[i].at
      BY <1>1, <2>1 DEF Ordered
    <3> QED
      BY <1>2, <3>1 DEF Block
  <2>4. i \in Nat /\ k \in Nat
    BY <1>1, <2>1
  <2> QED
    BY <2>2, <2>3, <2>4
<1>7. HeaderAt(t, t[i].at) = {i}
  BY <1>3, <1>6
<1>8. (CHOOSE k \in HeaderAt(t, t[i].at) : TRUE) = i
  BY <1>7
<1> QED
  BY <1>5, <1>8 DEF Header

\* The walk of mtar_find from the beginning comes by every header that no log before
\* it pushed out of its place.
LEMMA Walk ==
    ASSUME NEW t, NEW p, Laid(t, p), NEW z, NEW o, Ordered(t), Headed(t, z), Linked(t, z, o),
           NEW tar \in Tars, NEW i \in DOMAIN t, t[i].kind = "header", Kept(t, i - 1, z, o)
    PROVE  /\ Find(t, tar, t[i].log).err = "ESUCCESS"
           /\ Find(t, tar, t[i].log).tar.pos = t[i].at
<1> DEFINE l == t[i].log
<1>1. t \in Seq(Segment) /\ DOMAIN t = 1..Len(t) /\ Len(t) \in Nat /\ i \in Nat
  BY DEF Laid
<1>2. PICK f : IsSearch(f, t, tar, l) /\ Find(t, tar, l) = f[0]
  <2> HIDE DEF l
  <2> QED
    BY <1>1, FindSearches
<1>3. ASSUME NEW k \in DOMAIN t, t[k].kind = "header"
      PROVE  /\ t[k].at \in Nat
             /\ Turns(f[t[k].at], t, l, f, t[k].at)
             /\ HeaderStatus(t, t[k].at) = "ESUCCESS" /\ Header(t, t[k].at) = t[k]
  <2>1. t[k].at \in Nat
    BY <1>1, Segments
  <2>2. HeaderStatus(t, t[k].at) = "ESUCCESS" /\ Header(t, t[k].at) = t[k]
    BY <1>3, HeaderFound
  <2> HIDE DEF l
  <2>3. Turns(f[t[k].at], t, l, f, t[k].at)
    BY <1>1, <1>2, <2>1, SearchTurns
  <2> QED
    BY <2>1, <2>2, <2>3
<1>4. \A j \in DOMAIN t : t[j].kind = "header" /\ j # i => t[j].log # l
  BY DEF Headed
<1> DEFINE Missed == {k \in DOMAIN t : t[k].kind = "header" /\ k <= i /\ f[0] # f[t[k].at]}
<1>5. Missed = {}
  <2> SUFFICES ASSUME Missed # {} PROVE FALSE
    OBVIOUS
  <2>1. Missed \in SUBSET Nat
    BY <1>1
  <2>2. PICK m \in Missed : \A k \in Missed : m <= k
    <3> HIDE DEF Missed
    <3> QED
      BY <2>1, Least
  <2>3. m \in DOMAIN t /\ t[m].kind = "header" /\ m <= i /\ f[0] # f[t[m].at] /\ m \in Nat
    BY <2>1
  <2>4. Kept(t, m - 1, z, o)
    BY <1>1, <2>3 DEF Kept
  <2>5. Leads(t, m - 1, t[m].at)
    BY <2>3, <2>4 DEF Linked
  <2>6. PICK j \in 1..(m - 1) : t[j].kind = "header" /\ t[m].at = After(t[j])
    BY <2>3, <2>5 DEF Leads
  <2>7. j \in DOMAIN t /\ j < m /\ j <= i /\ j # i
    BY <1>1, <2>3, <2>6
  <2>8. j \notin Missed
    <3>1. ~(m <= j)
      BY <2>3, <2>7
    <3> HIDE DEF Missed
    <3> QED
      BY <2>2, <3>1
  <2>9. f[0] = f[t[j].at]
    BY <2>6, <2>7, <2>8
  <2>10. f[t[j].at] = f[After(t[j])]
    <3>1. /\ Turns(f[t[j].at], t, l, f, t[j].at)
          /\ HeaderStatus(t, t[j].at) = "ESUCCESS" /\ Header(t, t[j].at) = t[j]
      BY <1>3, <2>6, <2>7
    <3>2. t[j].log # l
      BY <1>4, <2>6, <2>7
    <3> HIDE DEF l
    <3> QED
      BY <3>1, <3>2 DEF Turns
  <2> QED
    BY <2>3, <2>6, <2>9, <2>10
<1>6. f[0] = f[t[i].at]
  <2>1. i <= i
    BY <1>1
  <2> QED
    BY <1>5, <2>1
<1>7. f[t[i].at].err = "ESUCCESS" /\ f[t[i].at].tar.pos = t[i].at
  <2>1. /\ f[t[i].at].err = "ESUCCESS"
        /\ f[t[i].at].tar = [pos |-> t[i].at, remaining |-> 0, last |-> t[i].at]
    BY <1>3 DEF Turns
  <2> QED
    BY <2>1
<1> QED
  BY <1>2, <1>6, <1>7

\* What the header of a log says of it, once the archive is complete.
LEMMA HeaderTells ==
    ASSUME MixInv, LinkInv, pc = "read", NEW p, LogAt(p) # NoLog
    PROVE  /\ HeaderStatus(tape, p) = "ESUCCESS" /\ Header(tape, p).log = LogAt(p)
           /\ LogAt(p) \in Log
           /\ Header(tape, p).from = size[LogAt(p)]
           /\ Holds(tape, p + Block, size[LogAt(p)], LogAt(p), 0)
<1>1. HeaderStatus(tape, p) = "ESUCCESS" /\ Header(tape, p).log = LogAt(p)
  BY DEF LogAt
<1>2. tape \in Seq(Segment) /\ Headed(tape, size)
  BY DEF MixInv, LinkInv, Laid
<1>3. PICK i \in HeaderAt(tape, p) : Header(tape, p) = tape[i]
  BY <1>1, <1>2, HeaderRead
<1>4. i \in DOMAIN tape /\ tape[i].kind = "header" /\ tape[i].at = p
  BY DEF HeaderAt
<1>5. tape[i].log \in Log /\ tape[i].from = size[tape[i].log]
  BY <1>2, <1>4 DEF Headed
<1>6. PICK k \in 1..Len(Order) : Order[k] = tape[i].log /\ k < cur
  BY <1>4 DEF MixInv, HeadersBegun
<1>7. Past(tape[i].log)
  BY <1>6, OrderFacts DEF Past
<1>8. Holds(tape, p + Block, tape[i].from, tape[i].log, 0)
  BY <1>4, <1>7 DEF MixInv, NeverMixed
<1> QED
  BY <1>1, <1>3, <1>5, <1>8

\* The bytes behind those that have been read.
LEMMA HoldsRest ==
    ASSUME NEW t \in Seq(Segment), NEW h \in Nat, NEW n \in Nat, NEW g \in 0..n, NEW l,
           Holds(t, h, n, l, 0)
    PROVE  Holds(t, h + g, n - g, l, g)
<1>1. h + g + (n - g) = h + n
  OBVIOUS
<1>2. h + g + (n - g) <= TapeEnd(t)
  BY <1>1 DEF Holds
<1>3. ASSUME NEW i \in DOMAIN t,
             t[i].at < h + g + (n - g), h + g < t[i].at + t[i].len
      PROVE  t[i].kind = "data" /\ t[i].log = l /\ t[i].from - t[i].at = g - (h + g)
  <2>1. t[i].at \in Nat /\ t[i].len \in Nat
    BY Segments
  <2>2. t[i].at < h + n /\ h < t[i].at + t[i].len
    BY <1>1, <1>3, <2>1
  <2>3. t[i].kind = "data" /\ t[i].log = l /\ t[i].from - t[i].at = 0 - h
    BY <2>2 DEF Holds
  <2>4. g - (h + g) = 0 - h
    OBVIOUS
  <2> QED
    BY <2>3, <2>4
<1> QED
  BY <1>2, <1>3 DEF Holds

\* A reader asks for n bytes of a log of which it has got fewer than all.
LEMMA ReadsOn ==
    ASSUME Numbers, MixInv, LinkInv, ReaderInv, NEW n \in Nat \ {0}, ReaderReads(n)
    PROVE  ReaderInv'
<1> DEFINE z == size[found]
           r == ReadData(tape, rd, n)
<1>1. /\ pc = "read" /\ found # NoLog /\ got + n <= z /\ r.err = "ESUCCESS" /\ rd' = r.tar
      /\ got' = got + n /\ UNCHANGED <<pc, found, size, tape>>
  BY DEF ReaderReads, copying, archive
<1>2. /\ found \in Log /\ got \in Nat /\ rd.pos \in Nat /\ rd.remaining \in Nat /\ rd.last \in Nat
      /\ rd = [pos |-> rd.pos, remaining |-> rd.remaining, last |-> rd.last]
  <2>1. rd \in [pos : Nat, remaining : Nat, last : Nat] /\ found \in Log \cup {NoLog} /\ got \in Nat
    BY DEF ReaderInv
  <2> QED
    BY <1>1, <2>1
<1>3. z \in Nat /\ n \in Nat /\ n > 0 /\ got < z
  <2>1. z \in 0..MaxLength /\ MaxLength \in Nat
    BY <1>2, ArchiveAssumption DEF Numbers, ArchiveAssumption
  <2> HIDE DEF z
  <2> QED
    BY <1>1, <1>2, <2>1
<1> DEFINE h == IF got = 0 THEN rd.pos ELSE rd.last
           start == IF rd.remaining = 0 THEN ReadHeader(tape, rd) ELSE [err |-> "ESUCCESS", tar |-> rd]
           ready == IF rd.remaining = 0
                      THEN [start.tar EXCEPT !.pos = @ + Block, !.remaining = Header(tape, rd.pos).from]
                      ELSE rd
           done == [ready EXCEPT !.pos = @ + n, !.remaining = Minus(@, n)]
<1>4. LogAt(h) = found /\ h \in Nat
  <2>1. got = 0 => LogAt(rd.pos) = found
    BY <1>1 DEF ReaderInv
  <2>2. got # 0 => LogAt(rd.last) = found
    BY <1>1, <1>3 DEF ReaderInv, z
  <2> QED
    BY <1>2, <2>1, <2>2
<1>5. ready = [pos |-> h + Block + got, remaining |-> z - got, last |-> h] /\ start.err = "ESUCCESS"
  <2>1. CASE got = 0
    <3>1. rd.remaining = 0
      BY <1>1, <2>1 DEF ReaderInv
    <3>2. /\ HeaderStatus(tape, rd.pos) = "ESUCCESS" /\ Header(tape, rd.pos).from = z
          /\ ~(rd.pos + Block > TapeEnd(tape))
      <4>1. LogAt(rd.pos) # NoLog /\ LogAt(rd.pos) = found
        BY <1>1, <1>4, <2>1
      <4>2. HeaderStatus(tape, rd.pos) = "ESUCCESS" /\ Header(tape, rd.pos).from = z
        BY <1>1, <4>1, HeaderTells
      <4> QED
        BY <4>2 DEF HeaderStatus
    <3>3. start.tar = [pos |-> rd.pos, remaining |-> 0, last |-> rd.pos] /\ start.err = "ESUCCESS"
      <4>1. start = ReadHeader(tape, rd)
        BY <3>1
      <4>2. ReadHeader(tape, rd) = [err |-> HeaderStatus(tape, rd.pos),
                                    tar |-> [rd EXCEPT !.last = rd.pos, !.pos = rd.pos]]
        BY <3>2 DEF ReadHeader
      <4>3. [rd EXCEPT !.last = rd.pos, !.pos = rd.pos] = [pos |-> rd.pos, remaining |-> 0, last |-> rd.pos]
        <5> DEFINE x == rd.pos
                   y == rd.last
        <5>1. rd = [pos |-> x, remaining |-> 0, last |-> y]
          BY <1>2, <3>1
        <5> HIDE DEF x, y
        <5> DEFINE b == [rd EXCEPT !.last = x]
        <5>2. b = [pos |-> x, remaining |-> 0, last |-> x]
          BY <5>1
        <5>3. [rd EXCEPT !.last = x, !.pos = x] = [b EXCEPT !.pos = x]
          OBVIOUS
        <5> HIDE DEF b
        <5>4. [b EXCEPT !.pos = x] = [pos |-> x, remaining |-> 0, last |-> x]
          BY <5>2
        <5> QED
          BY <5>3, <5>4 DEF x
      <4> HIDE DEF start
      <4> QED
        BY <3>2, <4>1, <4>2, <4>3
    <3>4. ready = [start.tar EXCEPT !.pos = @ + Block, !.remaining = Header(tape, rd.pos).from]
      BY <3>1
    <3> HIDE DEF start, ready
    <3>5. ready = [pos |-> rd.pos + Block, remaining |-> z, last |-> rd.pos]
      <4> DEFINE a == start.tar
                 x == rd.pos
      <4>1. a = [pos |-> x, remaining |-> 0, last |-> x]
        BY <3>3
      <4>2. ready = [a EXCEPT !.pos = @ + Block, !.remaining = z]
        BY <3>2, <3>4
      <4> HIDE DEF a, x
      <4>3. ready = [pos |-> x + Block, remaining |-> z, last |-> x]
        BY <4>1, <4>2
      <4> QED
        BY <4>3 DEF x
    <3>6. rd.pos + Block + 0 = rd.pos + Block /\ z - 0 = z /\ h = rd.pos
      BY <1>2, <1>3, <2>1 DEF Block
    <3> QED
      BY <2>1, <3>3, <3>5, <3>6
  <2>2. CASE got # 0
    <3>1. /\ rd.remaining = z - got /\ rd.pos = rd.last + Block + got
      BY <1>1, <1>3, <2>2 DEF ReaderInv
    <3>2. rd.remaining # 0
      <4> HIDE DEF z
      <4> QED
        BY <1>2, <1>3, <3>1
    <3>3. ready = rd /\ start.err = "ESUCCESS" /\ h = rd.last
      BY <2>2, <3>2
    <3> HIDE DEF start, ready, h
    <3> QED
      BY <1>2, <3>1, <3>3
  <2> QED
    BY <2>1, <2>2
<1>6. r.tar = IF done.remaining = 0 THEN Seek(done, done.last) ELSE done
  <2>1. r = IF start.err # "ESUCCESS" THEN start
            ELSE IF ready.pos + n > TapeEnd(tape)
                   THEN [err |-> "EREADFAIL", tar |-> [ready EXCEPT !.pos = @ + n]]
            ELSE [err |-> "ESUCCESS",
                  tar |-> IF done.remaining = 0 THEN Seek(done, done.last) ELSE done]
    BY DEF ReadData
  <2> HIDE DEF start, ready, done, r
  <2>2. ~(ready.pos + n > TapeEnd(tape))
    <3>1. ready.pos + n > TapeEnd(tape) => r.err = "EREADFAIL"
      BY <1>5, <2>1
    <3> QED
      BY <1>1, <3>1
  <2>3. r = [err |-> "ESUCCESS",
             tar |-> IF done.remaining = 0 THEN Seek(done, done.last) ELSE done]
    BY <1>5, <2>1, <2>2
  <2> QED
    BY <2>3
<1> DEFINE left == z - (got + n)
<1>7. done = [pos |-> h + Block + (got + n), remaining |-> left, last |-> h]
  <2>1. Minus(z - got, n) = left
    <3> HIDE DEF z, r
    <3>1. n <= z - got
      BY <1>1, <1>2, <1>3
    <3>2. Minus(z - got, n) = (z - got) - n
      BY <3>1 DEF Minus
    <3> QED
      BY <1>2, <1>3, <3>2
  <2>2. h + Block + got + n = h + Block + (got + n)
    <3> HIDE DEF h
    <3> QED
      BY <1>2, <1>3, <1>4 DEF Block
  <2> HIDE DEF ready, h, left, z
  <2>3. done = [ready EXCEPT !.pos = h + Block + got + n, !.remaining = Minus(z - got, n)]
    BY <1>5
  <2> HIDE DEF done
  <2> QED
    BY <1>5, <2>1, <2>2, <2>3
<1> HIDE DEF h, done, ready, start, z, r
<1>8. left \in Nat /\ (left = 0 <=> got' = z) /\ got' # 0 /\ got' \in Nat /\ got' <= z
      /\ h + Block + got' \in Nat
  BY <1>1, <1>2, <1>3, <1>4 DEF Block
<1>9. h + Block + got' = h + Block + (got + n) /\ left = z - got'
  BY <1>1
<1> HIDE DEF left
<1>10. CASE got' = z
  <2>1. rd' = [pos |-> h, remaining |-> 0, last |-> h]
    <3>1. rd' = [done EXCEPT !.pos = done.last]
      BY <1>1, <1>6, <1>7, <1>8, <1>10 DEF Seek
    <3> QED
      BY <1>7, <1>8, <1>10, <3>1
  <2>2. rd' \in [pos : Nat, remaining : Nat, last : Nat] /\ rd'.remaining = 0 /\ rd'.pos = h
    BY <1>4, <2>1
  <2> QED
    BY <1>1, <1>2, <1>4, <1>8, <1>10, <2>2 DEF ReaderInv, LogAt, z
<1>11. CASE got' # z
  <2>1. rd' = [pos |-> h + Block + got', remaining |-> z - got', last |-> h]
    BY <1>1, <1>6, <1>7, <1>8, <1>9, <1>11
  <2>2. /\ rd' \in [pos : Nat, remaining : Nat, last : Nat]
        /\ rd'.remaining = z - got' /\ rd'.pos = h + Block + got' /\ rd'.last = h
    BY <1>4, <1>8, <1>9, <2>1
  <2> QED
    BY <1>1, <1>2, <1>4, <1>8, <1>11, <2>2 DEF ReaderInv, LogAt, z
<1> QED
  BY <1>10, <1>11

LEMMA ReaderInvHolds == Spec => []ReaderInv
<1>1. Init => ReaderInv
  BY DEF Init, ReaderInv
<1>2. FramedInv /\ MixInv /\ LinkInv /\ ReaderInv /\ [Next]_vars => ReaderInv'
  <2> SUFFICES ASSUME FramedInv, MixInv, LinkInv, ReaderInv, [Next]_vars PROVE ReaderInv'
    OBVIOUS
  <2>0. Numbers /\ tape \in Seq(Segment)
    BY DEF FramedInv, MixInv, Laid
  <2>1. CASE (\E l \in Log : Grow(l)) \/ Writing
    <3>1. pc # "read" /\ UNCHANGED <<rd, found, got>>
      BY <2>1 DEF Grow, Writing, Measure, OpenFails, Open, Copy, CopyEnds, Finalize, reader
    <3>2. found = NoLog /\ rd \in [pos : Nat, remaining : Nat, last : Nat] /\ got \in Nat
      BY <3>1 DEF ReaderInv
    <3> QED
      BY <3>1, <3>2 DEF ReaderInv
  <2>2. CASE UNCHANGED vars
    BY <2>2 DEF ReaderInv, LogAt, vars, copying, archive, reader
  <2>3. ASSUME NEW l \in Log, ReaderFinds(l) PROVE ReaderInv'
    <3> DEFINE r == Find(tape, rd, l)
    <3>1. /\ pc = "read" /\ rd' = r.tar /\ got' = 0 /\ UNCHANGED <<pc, size, tape>>
          /\ found' = IF r.err = "ESUCCESS" THEN l ELSE NoLog
      BY <2>3 DEF ReaderFinds, copying, archive
    <3>2. Answers(r, tape, l)
      <4>1. rd \in Tars
        BY DEF ReaderInv, Tars
      <4> QED
        BY <2>0, <4>1, FindAnswers
    <3> HIDE DEF r
    <3>3. rd' \in [pos : Nat, remaining : Nat, last : Nat] /\ rd'.remaining = 0
      BY <3>1, <3>2 DEF Answers, Tars
    <3>4. found' # NoLog => LogAt(rd.pos)' = l /\ found' = l
      <4>1. found' # NoLog => r.err = "ESUCCESS" /\ found' = l
        BY <3>1
      <4> QED
        BY <3>1, <3>2, <4>1 DEF Answers, LogAt
    <3>5. size[l] >= 0
      BY <2>0 DEF Numbers
    <3> QED
      BY <3>1, <3>3, <3>4, <3>5 DEF ReaderInv, LogAt
  <2>4. CASE ReaderNext
    <3>1. /\ pc = "read" /\ found # NoLog /\ got \in {0, size[found]} /\ rd' = NextRecord(tape, rd).tar
          /\ found' = LogAt(NextRecord(tape, rd).tar.pos) /\ got' = 0 /\ UNCHANGED <<pc, size, tape>>
      BY <2>4 DEF ReaderNext, copying, archive
    <3>2. rd.remaining = 0 /\ LogAt(rd.pos) = found /\ rd \in Tars
      BY <3>1 DEF ReaderInv, Tars
    <3>3. HeaderStatus(tape, rd.pos) = "ESUCCESS"
      BY <3>1, <3>2 DEF LogAt
    <3>4. /\ rd' = [pos |-> After(Header(tape, rd.pos)), remaining |-> rd.remaining, last |-> rd.pos]
          /\ After(Header(tape, rd.pos)) \in Nat
      BY <2>0, <3>1, <3>2, <3>3, NextFrom
    <3>5. rd' \in [pos : Nat, remaining : Nat, last : Nat] /\ rd'.remaining = 0
      BY <3>2, <3>4 DEF Tars
    <3>6. found' = LogAt(rd.pos)'
      BY <3>1 DEF LogAt
    <3>7. found' # NoLog => found' \in Log /\ size[found'] >= 0
      <4> DEFINE p == NextRecord(tape, rd).tar.pos
      <4>1. found' = LogAt(p)
        BY <3>1
      <4> HIDE DEF p
      <4>2. LogAt(p) # NoLog => LogAt(p) \in Log
        BY <3>1, HeaderTells
      <4> QED
        BY <2>0, <4>1, <4>2 DEF Numbers
    <3> QED
      BY <3>1, <3>5, <3>6, <3>7 DEF ReaderInv
  <2>5. ASSUME NEW n \in Pieces, ReaderReads(n) PROVE ReaderInv'
    <3>1. n \in Nat \ {0}
      BY ArchiveAssumption DEF ArchiveAssumption
    <3> QED
      BY <2>0, <2>5, <3>1, ReadsOn
  <2> QED
    BY <2>1, <2>2, <2>3, <2>4, <2>5 DEF Next, Reading
<1> QED
  BY <1>1, <1>2, LinkInvHolds, PTL DEF Spec

\* Whatever a reader of the archive finds, reads and passes over, in whatever order
\* and in pieces of whatever size, the next bytes mtar_read_data gives it are the next
\* bytes of the log that mtar_find or mtar_next led it to, and at its end the reader
\* stands at the header again: also when logs grew while GET /logs copied them.
THEOREM ReaderGetsTheLog == Spec => []ReadsTheLog
<1>1. MixInv /\ LinkInv /\ ReaderInv => ReadsTheLog
  <2> SUFFICES ASSUME MixInv, LinkInv, ReaderInv, found # NoLog, got \notin {0, size[found]}
               PROVE  Holds(tape, rd.pos, rd.remaining, found, got)
    BY DEF ReadsTheLog, ReaderInv
  <2>1. /\ pc = "read" /\ got <= size[found] /\ rd.remaining = size[found] - got
        /\ LogAt(rd.last) = found /\ rd.pos = rd.last + Block + got
        /\ got \in Nat /\ rd.last \in Nat
    BY DEF ReaderInv
  <2>2. Holds(tape, rd.last + Block, size[found], found, 0) /\ size[found] = Header(tape, rd.last).from
    BY <2>1, HeaderTells
  <2>3. tape \in Seq(Segment) /\ HeaderStatus(tape, rd.last) = "ESUCCESS"
    BY <2>1, HeaderTells DEF MixInv, Laid
  <2>4. size[found] \in Nat
    BY <2>2, <2>3, HeaderRead
  <2>5. got \in 0..size[found] /\ rd.last + Block \in Nat
    BY <2>1, <2>4 DEF Block
  <2> QED
    BY <2>1, <2>2, <2>3, <2>4, <2>5, HoldsRest
<1> QED
  BY <1>1, LinkInvHolds, ReaderInvHolds, PTL

\* mtar_find gets to every archived log before which none outgrew its header, for every
\* set of logs and however they grow: only what comes after a log that grew is lost.
THEOREM LogsAreFound == Spec => []FoundUnlessPushed
<1>1. MixInv /\ LinkInv /\ ReaderInv => FoundUnlessPushed
  <2> SUFFICES ASSUME MixInv, LinkInv, ReaderInv,
                      NEW i \in DOMAIN tape, tape[i].kind = "header",
                      \A j \in 1..(i - 1) : tape[j].kind = "header" => ~Outgrew(tape[j].log)
               PROVE  /\ Find(tape, rd, tape[i].log).err = "ESUCCESS"
                      /\ Find(tape, rd, tape[i].log).tar.pos = tape[i].at
    BY DEF FoundUnlessPushed
  <2>1. Kept(tape, i - 1, size, offset)
    BY DEF Kept, Outgrew
  <2>2. rd \in Tars
    BY DEF ReaderInv, Tars
  <2> QED
    BY <2>1, <2>2, Walk DEF MixInv, LinkInv
<1> QED
  BY <1>1, LinkInvHolds, ReaderInvHolds, PTL

\* The reader has nothing in hand that it was not led to.
Idle == found = NoLog => rd.remaining = 0 /\ got = 0

LEMMA IdleHolds == Spec => []Idle
<1>1. Init => Idle
  BY DEF Init, Idle
<1>2. FramedInv /\ MixInv /\ ReaderInv /\ Idle /\ [Next]_vars => Idle'
  <2> SUFFICES ASSUME FramedInv, MixInv, ReaderInv, Idle, [Next]_vars PROVE Idle'
    OBVIOUS
  <2>0. tape \in Seq(Segment) /\ rd \in Tars
    BY DEF MixInv, Laid, ReaderInv, Tars
  <2>1. CASE (\E l \in Log : Grow(l)) \/ Writing
    BY <2>1 DEF Grow, Writing, Measure, OpenFails, Open, Copy, CopyEnds, Finalize, reader, Idle
  <2>2. CASE UNCHANGED vars
    BY <2>2 DEF Idle, vars, reader
  <2>3. ASSUME NEW l \in Log, ReaderFinds(l) PROVE Idle'
    <3> DEFINE r == Find(tape, rd, l)
    <3>1. rd' = r.tar /\ got' = 0
      BY <2>3 DEF ReaderFinds
    <3>2. Answers(r, tape, l)
      BY <2>0, FindAnswers
    <3> HIDE DEF r
    <3> QED
      BY <3>1, <3>2 DEF Answers, Idle
  <2>4. CASE ReaderNext
    <3>1. found # NoLog /\ got \in {0, size[found]} /\ rd' = NextRecord(tape, rd).tar /\ got' = 0
      BY <2>4 DEF ReaderNext
    <3>2. rd.remaining = 0 /\ HeaderStatus(tape, rd.pos) = "ESUCCESS"
      BY <3>1 DEF ReaderInv, LogAt
    <3>3. rd' = [pos |-> After(Header(tape, rd.pos)), remaining |-> rd.remaining, last |-> rd.pos]
      BY <2>0, <3>1, <3>2, NextFrom
    <3> QED
      BY <3>1, <3>2, <3>3 DEF Idle
  <2>5. ASSUME NEW n \in Pieces, ReaderReads(n) PROVE Idle'
    BY <2>5 DEF ReaderReads, Idle
  <2> QED
    BY <2>1, <2>2, <2>3, <2>4, <2>5 DEF Next, Reading
<1> QED
  BY <1>1, <1>2, LinkInvHolds, ReaderInvHolds, PTL DEF Spec

\* The route goes through the logs one by one.
InTurn == cur \in 1..(Len(Order) + 1)

LEMMA InTurnHolds == Spec => []InTurn
<1>0. Len(Order) \in Nat /\ (Order # <<>> => Len(Order) > 0)
  BY OrderFacts
<1>1. Init => InTurn
  BY <1>0 DEF Init, InTurn
<1>2. FramedInv /\ InTurn /\ [Next]_vars => InTurn'
  <2> SUFFICES ASSUME FramedInv, InTurn, [Next]_vars PROVE InTurn'
    OBVIOUS
  <2>1. pc \in {"measure", "open", "copy"} => cur \in 1..Len(Order)
    BY DEF FramedInv, Numbers
  <2>2. CASE pc \in {"measure", "open", "copy"} /\ cur' = cur + 1
    BY <1>0, <2>1, <2>2 DEF InTurn
  <2>3. CASE UNCHANGED cur
    BY <2>3 DEF InTurn
  <2>4. UNCHANGED cur \/ (pc \in {"measure", "open", "copy"} /\ cur' = cur + 1)
    BY DEF Next, Grow, Writing, Measure, OpenFails, Open, Copy, CopyEnds, Finalize, Reading,
           ReaderFinds, ReaderNext, ReaderReads, Advance, copying, vars
  <2> QED
    BY <2>2, <2>3, <2>4
<1> QED
  BY <1>1, <1>2, LinkInvHolds, PTL DEF Spec

\* The variables stay in their types: remaining_data, which is unsigned, wraps around
\* in no reader, and never holds more than a header announced.
THEOREM ArchiveTyping == Spec => []TypeOK
<1>1. FramedInv /\ MixInv /\ ReaderInv /\ Idle /\ InTurn => TypeOK
  <2> SUFFICES ASSUME FramedInv, MixInv, ReaderInv, Idle, InTurn PROVE TypeOK
    OBVIOUS
  <2>1. Numbers /\ tape \in Seq(Segment)
    BY DEF FramedInv, MixInv, Laid
  <2>2. MaxLength \in Nat /\ MaxLength < Word /\ Word \in Nat
    BY ArchiveAssumption, WordAssumption DEF ArchiveAssumption, WordAssumption
  <2>3. CASE found = NoLog
    <3>1. got \in 0..MaxLength /\ rd.remaining \in 0..(Word - 1)
      BY <2>2, <2>3 DEF Idle
    <3>2. rd \in [pos : Nat, remaining : 0..(Word - 1), last : Nat]
      BY <3>1 DEF ReaderInv
    <3> QED
      BY <2>1, <2>3, <3>1, <3>2 DEF TypeOK, Numbers, InTurn
  <2>4. CASE found # NoLog
    <3>1. found \in Log /\ got \in Nat /\ got <= size[found]
      BY <2>4 DEF ReaderInv
    <3>2. size[found] \in 0..MaxLength
      BY <2>1, <3>1 DEF Numbers
    <3>3. rd.remaining = 0 \/ rd.remaining = size[found] - got
      BY <2>4 DEF ReaderInv
    <3>4. got \in 0..MaxLength /\ rd.remaining \in 0..(Word - 1)
      BY <2>2, <3>1, <3>2, <3>3
    <3>5. rd \in [pos : Nat, remaining : 0..(Word - 1), last : Nat]
      BY <3>4 DEF ReaderInv
    <3> QED
      BY <2>1, <3>1, <3>4, <3>5 DEF TypeOK, Numbers, InTurn
  <2> QED
    BY <2>3, <2>4
<1> QED
  BY <1>1, LinkInvHolds, ReaderInvHolds, IdleHolds, InTurnHolds, PTL
=============================================================================
