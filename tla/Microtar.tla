------------------------------- MODULE Microtar -------------------------------
(***************************************************************************)
(* The tar format as microtar.cpp writes and reads it.  An archive, a tape, *)
(* is a sequence of segments, each with its place: a raw header, bytes of a *)
(* log, or null bytes.  A mtar_t that reads is a record: `pos' (where the   *)
(* stream stands), `remaining' (remaining_data) and `last' (last_header).   *)
(*                                                                         *)
(* A 512-byte record that is not a header of the archive never carries a    *)
(* checksum that fits it: text of a log read as a header is refused.        *)
(***************************************************************************)
EXTENDS Integers, Sequences

CONSTANTS Log,    \* the logs that can be archived
          NoLog,  \* not one of them
          Word    \* the modulus of unsigned arithmetic, 2^32 in the code

Block == 512             \* sizeof(mtar_raw_header_t), and the unit of the format
ChecksumAt == 148        \* offsetof(mtar_raw_header_t, checksum)

ASSUME WordAssumption == NoLog \notin Log /\ Word \in Nat /\ Word > Block

\* What a segment holds: bytes `from' to `from + len - 1' of a log, a header
\* that announces `from' bytes of a log, or null bytes.
Segment == [kind : {"header", "data", "null"}, log : Log \cup {NoLog},
            from : Nat, at : Nat, len : Nat]

HeaderSegment(l, size, at) == [kind |-> "header", log |-> l, from |-> size, at |-> at, len |-> Block]
DataSegment(l, from, n, at) == [kind |-> "data", log |-> l, from |-> from, at |-> at, len |-> n]
NullSegment(n, at) == [kind |-> "null", log |-> NoLog, from |-> 0, at |-> at, len |-> n]

RoundUp(n, incr) == n + ((incr - (n % incr)) % incr)

\* Unsigned subtraction.
Minus(a, b) == IF b <= a THEN a - b ELSE a - b + Word

-----------------------------------------------------------------------------
(* Reading *)

TapeEnd(tape) == IF tape = <<>> THEN 0 ELSE tape[Len(tape)].at + tape[Len(tape)].len

Covers(s, p) == s.at <= p /\ p < s.at + s.len

HeaderAt(tape, p) == {i \in DOMAIN tape : tape[i].kind = "header" /\ tape[i].at = p}

\* mtar_read_header: what the record at p is.  It leaves the stream at p, except
\* when the archive ends before the record does.
HeaderStatus(tape, p) ==
    IF p + Block > TapeEnd(tape) THEN "EREADFAIL"
    ELSE IF HeaderAt(tape, p) # {} THEN "ESUCCESS"
    ELSE IF \E i \in DOMAIN tape : tape[i].kind = "null" /\ Covers(tape[i], p + ChecksumAt)
         THEN "ENULLRECORD"
    ELSE "EBADCHKSUM"

ReadHeader(tape, tar) ==
    [err |-> HeaderStatus(tape, tar.pos),
     tar |-> [tar EXCEPT !.last = tar.pos,
                         !.pos = IF tar.pos + Block > TapeEnd(tape) THEN @ + Block ELSE @]]

Header(tape, p) == tape[CHOOSE i \in HeaderAt(tape, p) : TRUE]

Seek(tar, p) == [tar EXCEPT !.pos = p]

\* Variation: the rest of a read that was not finished is kept.
RewindKeeps(tar) == [tar EXCEPT !.pos = 0, !.last = 0]

\* mtar_rewind.
Rewind(tar) == [tar EXCEPT !.pos = 0, !.remaining = 0, !.last = 0]

\* Variation: the padding is forgotten.
NextUnpadded(tape, tar) ==
    LET r == ReadHeader(tape, tar) IN
    IF r.err # "ESUCCESS" THEN r
    ELSE [r EXCEPT !.tar = Seek(@, @.pos + Header(tape, @.pos).from + Block)]

\* mtar_next: to the record that follows the one at tar.pos.
NextRecord(tape, tar) ==
    LET r == ReadHeader(tape, tar) IN
    IF r.err # "ESUCCESS" THEN r
    ELSE [r EXCEPT !.tar = Seek(@, @.pos + RoundUp(Header(tape, @.pos).from, Block) + Block)]

\* mtar_find: the headers from the beginning, until one has the name or cannot be
\* read.
Find(tape, tar, l) ==
    LET search[p \in Nat] ==
          LET here == ReadHeader(tape, Seek(Rewind(tar), p)) IN
          IF here.err # "ESUCCESS"
            THEN [here EXCEPT !.err = IF @ = "ENULLRECORD" THEN "ENOTFOUND" ELSE @]
          ELSE IF Header(tape, p).log = l THEN here
          ELSE search[NextRecord(tape, here.tar).tar.pos]
    IN  search[0]

\* mtar_read_data of n bytes.  With nothing remaining it starts at the header under
\* the stream; when it has read all of it, it goes back there.
ReadData(tape, tar, n) ==
    LET first == tar.remaining = 0
        start == IF first THEN ReadHeader(tape, tar) ELSE [err |-> "ESUCCESS", tar |-> tar]
        ready == IF first
                   THEN [start.tar EXCEPT !.pos = @ + Block,
                                          !.remaining = Header(tape, tar.pos).from]
                   ELSE tar
        done  == [ready EXCEPT !.pos = @ + n, !.remaining = Minus(@, n)]
    IN  IF start.err # "ESUCCESS" THEN start
        ELSE IF ready.pos + n > TapeEnd(tape)
               THEN [err |-> "EREADFAIL", tar |-> [ready EXCEPT !.pos = @ + n]]
        ELSE [err |-> "ESUCCESS",
              tar |-> IF done.remaining = 0 THEN Seek(done, done.last) ELSE done]

-----------------------------------------------------------------------------
\* The n bytes of the tape from p on are those of log l from `from' on.
Holds(tape, p, n, l, from) ==
    /\ p + n <= TapeEnd(tape)
    /\ \A i \in DOMAIN tape :
         tape[i].at < p + n /\ p < tape[i].at + tape[i].len
           => /\ tape[i].kind = "data"
              /\ tape[i].log = l
              /\ tape[i].from - tape[i].at = from - p
=============================================================================
