------------------------------ MODULE LogArchive ------------------------------
(***************************************************************************)
(* GET /logs (server.cpp) archives the logs of tinyphone while tinyphone    *)
(* writes them.  Each log is measured, then copied until its end is         *)
(* reached.  A log can grow at any time.  Afterwards somebody reads the     *)
(* archive through the other half of microtar.cpp.                          *)
(*                                                                         *)
(* `length' is how long each log is; `pc', `cur', `eof' where the route is; *)
(* `size' what a log measured, `offset' how far it has been read, `written'  *)
(* what was put into the archive for it; `tape', `pos' and `remaining' the   *)
(* mtar_t that writes.  `rd', `found' and `got' are the reader: its mtar_t,  *)
(* the log it stands at, how much of that it has read.                      *)
(***************************************************************************)
EXTENDS Microtar

CONSTANTS Order,      \* the logs in the order in which they are archived
          Lengths,    \* how long a log may be to begin with
          Growths,    \* what may be added to a log at once
          MaxLength,  \* bound: a log grows no longer
          Pieces      \* how much a reader asks for at once

ASSUME ArchiveAssumption ==
    /\ Order \in Seq(Log)
    /\ \A i, j \in DOMAIN Order : Order[i] = Order[j] => i = j
    /\ Lengths \subseteq Nat
    /\ Growths \subseteq Nat \ {0}
    /\ MaxLength \in Nat /\ MaxLength < Word
    /\ \A n \in Lengths : n <= MaxLength
    /\ Pieces \subseteq Nat \ {0}

Chunk == 1024  \* sizeof buf

VARIABLES length, pc, cur, eof, size, offset, written, tape, pos, remaining,
          rd, found, got

copying == <<cur, eof, size, offset, written>>
archive == <<tape, pos, remaining>>
reader == <<rd, found, got>>
vars == <<length, pc, copying, archive, reader>>

TypeOK ==
    /\ length \in [Log -> 0..MaxLength]
    /\ pc \in {"measure", "open", "copy", "finalize", "read"}
    /\ cur \in 1..(Len(Order) + 1)
    /\ eof \in BOOLEAN
    /\ size \in [Log -> 0..MaxLength]
    /\ offset \in [Log -> 0..MaxLength]
    /\ written \in [Log -> Nat]
    /\ tape \in Seq(Segment)
    /\ pos \in Nat
    /\ remaining \in 0..(Word - 1)
    /\ rd \in [pos : Nat, remaining : 0..(Word - 1), last : Nat]
    /\ found \in Log \cup {NoLog}
    /\ got \in 0..MaxLength

Min2(a, b) == IF a <= b THEN a ELSE b

Current == Order[cur]

\* mtar_open for writing.
Init ==
    /\ length \in [Log -> Lengths]
    /\ pc = IF Order = <<>> THEN "finalize" ELSE "measure"
    /\ cur = 1
    /\ eof = FALSE
    /\ size = [l \in Log |-> 0]
    /\ offset = [l \in Log |-> 0]
    /\ written = [l \in Log |-> 0]
    /\ tape = <<>>
    /\ pos = 0
    /\ remaining = 0
    /\ rd = [pos |-> 0, remaining |-> 0, last |-> 0]
    /\ found = NoLog
    /\ got = 0

\* Tinyphone writes to a log.
Grow(l) ==
    /\ pc # "read"
    /\ \E n \in Growths :
         /\ length[l] + n <= MaxLength
         /\ length' = [length EXCEPT ![l] = @ + n]
    /\ UNCHANGED <<pc, copying, archive, reader>>

\* The next log; the null records once there is none.
Advance ==
    /\ cur' = cur + 1
    /\ eof' = FALSE
    /\ pc' = IF cur = Len(Order) THEN "finalize" ELSE "measure"

\* filesize; nothing is written for an empty log.
Measure ==
    /\ pc = "measure"
    /\ size' = [size EXCEPT ![Current] = length[Current]]
    /\ IF length[Current] = 0
         THEN Advance
         ELSE pc' = "open" /\ UNCHANGED <<cur, eof>>
    /\ UNCHANGED <<length, offset, written, archive, reader>>

\* fopen fails: the error is ignored by the route.
OpenFails ==
    /\ pc = "open"
    /\ Advance
    /\ UNCHANGED <<length, size, offset, written, archive, reader>>

\* fopen, mtar_write_file_header, mtar_write_header.
Open ==
    /\ pc = "open"
    /\ pc' = "copy"
    /\ tape' = Append(tape, HeaderSegment(Current, size[Current], pos))
    /\ pos' = pos + Block
    /\ remaining' = size[Current]
    /\ UNCHANGED <<length, copying, reader>>

\* Variation: no padding.
NoPaddingAt(p) == 0

\* Null bytes up to the next multiple of a block.
PaddingAt(p) == RoundUp(p, Block) - p

Padded(t, p) == IF PaddingAt(p) = 0 THEN t ELSE Append(t, NullSegment(PaddingAt(p), p))

\* mtar_write_data: n bytes, and the padding if they are the last.
WriteData(n) ==
    LET after == Append(tape, DataSegment(Current, offset[Current], n, pos))
        left == Minus(remaining, n)
    IN  /\ remaining' = left
        /\ tape' = IF left = 0 THEN Padded(after, pos + n) ELSE after
        /\ pos' = IF left = 0 THEN pos + n + PaddingAt(pos + n) ELSE pos + n

\* A turn of the loop of mtar_write_file by name.  It does not look at how much
\* has been written.  After a read that was cut short by the end of the log, a
\* library may or may not look for more.
Copy ==
    LET n == Min2(Chunk, length[Current] - offset[Current]) IN
    /\ pc = "copy"
    /\ n > 0
    /\ WriteData(n)
    /\ offset' = [offset EXCEPT ![Current] = @ + n]
    /\ written' = [written EXCEPT ![Current] = @ + n]
    /\ eof' = (n < Chunk)
    /\ UNCHANGED <<length, pc, cur, size, reader>>

\* Variation: a log is copied with one read.
CopyEndsAfterOneRead ==
    /\ pc = "copy"
    /\ offset[Current] > 0
    /\ Advance
    /\ UNCHANGED <<length, size, offset, written, archive, reader>>

\* fread returns nothing.
CopyEnds ==
    /\ pc = "copy"
    /\ eof \/ offset[Current] = length[Current]
    /\ Advance
    /\ UNCHANGED <<length, size, offset, written, archive, reader>>

\* mtar_finalize and mtar_close; the archive is sent.
Finalize ==
    /\ pc = "finalize"
    /\ tape' = Append(tape, NullSegment(2 * Block, pos))
    /\ pos' = pos + 2 * Block
    /\ pc' = "read"
    /\ UNCHANGED <<length, copying, remaining, reader>>

Writing == Measure \/ OpenFails \/ Open \/ Copy \/ CopyEnds \/ Finalize

-----------------------------------------------------------------------------
(* The reader.  It asks for no more than is left of a log, and goes to the  *)
(* next record only from a header.                                          *)

LogAt(p) == IF HeaderStatus(tape, p) = "ESUCCESS" THEN Header(tape, p).log ELSE NoLog

\* mtar_find.
ReaderFinds(l) ==
    LET r == Find(tape, rd, l) IN
    /\ pc = "read"
    /\ rd' = r.tar
    /\ found' = IF r.err = "ESUCCESS" THEN l ELSE NoLog
    /\ got' = 0
    /\ UNCHANGED <<length, pc, copying, archive>>

\* mtar_next.
ReaderNext ==
    LET r == NextRecord(tape, rd) IN
    /\ pc = "read"
    /\ found # NoLog
    /\ got \in {0, size[found]}
    /\ rd' = r.tar
    /\ found' = LogAt(r.tar.pos)
    /\ got' = 0
    /\ UNCHANGED <<length, pc, copying, archive>>

\* mtar_read_data.
ReaderReads(n) ==
    LET r == ReadData(tape, rd, n) IN
    /\ pc = "read"
    /\ found # NoLog
    /\ got + n <= size[found]
    /\ r.err = "ESUCCESS"
    /\ rd' = r.tar
    /\ got' = got + n
    /\ UNCHANGED <<length, pc, copying, archive, found>>

Reading ==
    \/ \E l \in Log : ReaderFinds(l)
    \/ ReaderNext
    \/ \E n \in Pieces : ReaderReads(n)

Next == (\E l \in Log : Grow(l)) \/ Writing \/ Reading

Spec == Init /\ [][Next]_vars

-----------------------------------------------------------------------------
(* Properties *)

\* Log l has been copied, or is not to be: the route is past it.
Past(l) == \E i \in DOMAIN Order : Order[i] = l /\ i < cur

\* More of log l was read than its header says, since it grew.
Outgrew(l) == offset[l] > size[l]

\* As long as no log has outgrown its header, each header begins at a multiple of
\* a block (mtar_write_data and its padding): this is where a reader expects it.
Framed ==
    pc # "copy" /\ (\A l \in Log : ~Outgrew(l)) => pos % Block = 0

\* The bytes that follow the header of a log are the beginning of that log, as
\* many as the header says, even when the log grew and the archive can no longer
\* be walked: no log shows up in another one.
NeverMixed ==
    \A i \in DOMAIN tape :
        tape[i].kind = "header" /\ Past(tape[i].log)
        => Holds(tape, tape[i].at + Block, tape[i].from, tape[i].log, 0)

\* mtar_find finds every archived log that no log before it pushed out of its
\* place by growing: a log that grows damages only what comes after it.
FoundUnlessPushed ==
    pc = "read" =>
        \A i \in DOMAIN tape :
            /\ tape[i].kind = "header"
            /\ \A j \in 1..(i - 1) : tape[j].kind = "header" => ~Outgrew(tape[j].log)
            => LET r == Find(tape, rd, tape[i].log)
               IN  r.err = "ESUCCESS" /\ r.tar.pos = tape[i].at

\* Wherever a reader has got to in a log, by whatever finds, reads and changes of
\* its mind, the next bytes it gets are the next bytes of that log; and at its end
\* the reader is back at the header (mtar_read_data).
ReadsTheLog ==
    found # NoLog =>
        IF got \in {0, size[found]}
          THEN rd.remaining = 0 /\ LogAt(rd.pos) = found
          ELSE /\ rd.remaining = size[found] - got
               /\ Holds(tape, rd.pos, rd.remaining, found, got)
=============================================================================
