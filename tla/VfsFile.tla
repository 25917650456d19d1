------------------------------- MODULE VfsFile -------------------------------
(***************************************************************************)
(* The cursor of an open file of a ZIP entry (vfs_file.c:395).  A cached   *)
(* file reads anywhere, from a cache it may share with other files of the  *)
(* entry; a streaming one reads on from where it is.  Sizes and positions  *)
(* are unsigned and distances signed integers of the same width.           *)
(***************************************************************************)
EXTENDS Integers

CONSTANTS Cached,    \* files of the entry that share its cache
          Streamed,  \* files that inflate it on their own
          MaxInt     \* the largest signed integer (2^63 - 1)

ASSUME MaxIntAssumption == MaxInt \in Nat \ {0}
ASSUME KindsAssumption == Cached \cap Streamed = {}

MinInt   == -MaxInt - 1
Modulus  == 2 * (MaxInt + 1)
Unsigned(i) == i % Modulus

OpenFiles == Cached \cup Streamed
NoAnswer == [op |-> "none"]

VARIABLES
    open,      \* the files a behaviour is about: those of the two kinds share nothing
    size,      \* of the entry
    decoded,   \* the cache holds it
    cursor,    \* position of each file
    taken,     \* bytes a stream has handed out
    reached,   \* stream_position, what the file knows of them
    failure,   \* error, of each file
    damaged,   \* a stream that reported an error, kept by the stream
    refused,   \* files one of whose reads failed for want of the data
    answered       \* the last call and its answer

cursorVars == <<open, size, decoded, cursor, taken, reached, failure, damaged, refused, answered>>

\* zip_package_file_size and zip_stream_open refuse a size above INT64_MAX.
VfsFileInit ==
    /\ open \in {Cached, Streamed}
    /\ size \in 0..MaxInt
    /\ decoded = FALSE
    /\ cursor = [f \in OpenFiles |-> 0]
    /\ taken = [f \in Streamed |-> 0]
    /\ reached = [f \in Streamed |-> 0]
    /\ failure = [f \in OpenFiles |-> FALSE]
    /\ damaged = [f \in Streamed |-> FALSE]
    /\ refused = {}
    /\ answered = NoAnswer

----------------------------------------------------------------------------
(* vfs_file_seek, in the integers of the machine.                           *)

Base(f, origin) ==
    IF origin = "begin" THEN 0 ELSE IF origin = "current" THEN cursor[f] ELSE size

\* The magnitude of a negative distance; MinInt has no positive counterpart.
Backwards(d) == Unsigned(-(d + 1) + 1)

\* Mutant: the sum is compared, after it has wrapped around.
SeekVerdictSummed(f, d, origin) ==
    LET base == Base(f, origin) IN
    IF d < 0 /\ Backwards(d) > base THEN "negative"
    ELSE IF d > 0 /\ Unsigned(base + d) < base THEN "invalid"
    ELSE "ok"

SeekVerdict(f, d, origin) ==
    LET base == Base(f, origin) IN
    IF d < 0 /\ Backwards(d) > base THEN "negative"
    ELSE IF d > 0 /\ d > Unsigned(MaxInt - base) THEN "invalid"
    ELSE "ok"

Target(f, d, origin) ==
    IF d < 0 THEN Unsigned(Base(f, origin) - Backwards(d))
    ELSE Unsigned(Base(f, origin) + d)

\* A stream can only be sought to where it is.
Seek(f, d, origin) ==
    LET verdict == SeekVerdict(f, d, origin)
        target == Target(f, d, origin)
        answer == IF verdict = "ok" /\ f \in Streamed /\ target # cursor[f]
                  THEN "unsupported" ELSE verdict
    IN
    /\ answered' = [op |-> "seek", file |-> f, answer |-> answer,
                exact |-> Base(f, origin) + d, from |-> cursor[f]]
    /\ cursor' = IF answer = "ok" THEN [cursor EXCEPT ![f] = target] ELSE cursor
    /\ UNCHANGED <<open, size, decoded, taken, reached, failure, damaged, refused>>

----------------------------------------------------------------------------
(* vfs_file_read_at; vfs_file_read is one at the cursor, which it moves.    *)

Smaller(a, b) == IF a < b THEN a ELSE b

\* What the call answered its caller: n bytes that lie at `at` in the entry.
Answers(f, offset, n, at, answer, moves) ==
    /\ answered' = [op |-> "read", file |-> f, offset |-> offset, got |-> n, at |-> at,
                answer |-> answer, before |-> f \in refused]
    /\ cursor' = IF moves THEN [cursor EXCEPT ![f] = @ + n] ELSE cursor

\* The first checks: no buffer, the error of an earlier read, a read of nothing.
ReadStops(f, offset, n, buffer, moves) ==
    /\ (n > 0 /\ ~buffer) \/ failure[f] \/ n = 0
    /\ Answers(f, offset, 0, offset,
                IF n > 0 /\ ~buffer THEN "invalid" ELSE IF failure[f] THEN "error" ELSE "ok", moves)
    /\ UNCHANGED <<open, size, decoded, taken, reached, failure, damaged, refused>>

\* Mutant: a stream hands out what comes next, wherever the caller wanted it from.
ReadStreamAnywhere(f, offset, n, moves) ==
    /\ f \in Streamed /\ n > 0 /\ ~failure[f]
    /\ \E m \in {Smaller(n, size - taken[f])} :
         /\ taken' = [taken EXCEPT ![f] = @ + m]
         /\ reached' = [reached EXCEPT ![f] = @ + m]
         /\ Answers(f, offset, m, taken[f], "ok", moves)
    /\ UNCHANGED <<open, size, decoded, failure, damaged, refused>>

\* A stream reads on, up to an error of its own; elsewhere it has no data.
ReadStream(f, offset, n, moves) ==
    /\ f \in Streamed /\ n > 0 /\ ~failure[f]
    /\ \/ /\ offset # reached[f]
          /\ Answers(f, offset, 0, offset, IF offset >= size THEN "ok" ELSE "unsupported", moves)
          /\ UNCHANGED <<taken, reached, damaged, refused>>
       \/ /\ offset = reached[f] /\ ~damaged[f]
          /\ \E m \in 0..Smaller(n, size - taken[f]), fails \in BOOLEAN :
               /\ ~fails => m = Smaller(n, size - taken[f])
               /\ taken' = [taken EXCEPT ![f] = @ + m]
               /\ reached' = [reached EXCEPT ![f] = @ + m]
               /\ damaged' = [damaged EXCEPT ![f] = fails]
               /\ refused' = IF fails THEN refused \cup {f} ELSE refused
               /\ Answers(f, offset, m, taken[f], IF fails THEN "error" ELSE "ok", moves)
       \/ /\ offset = reached[f] /\ damaged[f]
          /\ Answers(f, offset, 0, offset, "error", moves)
          /\ UNCHANGED <<taken, reached, damaged, refused>>
    /\ UNCHANGED <<open, size, decoded, failure>>

\* Mutant: the file that failed to decode does not remember it.
ReadCachedAgain(f, offset, n, moves) ==
    /\ f \in Cached /\ n > 0 /\ ~failure[f]
    /\ \/ /\ decoded' = TRUE
          /\ LET m == IF offset >= size THEN 0 ELSE Smaller(n, size - offset)
             IN Answers(f, offset, m, offset, "ok", moves)
          /\ UNCHANGED refused
       \/ /\ ~decoded
          /\ refused' = refused \cup {f}
          /\ Answers(f, offset, 0, offset, "error", moves)
          /\ UNCHANGED decoded
    /\ UNCHANGED <<open, size, taken, reached, failure, damaged>>

\* The first read of the entry decodes the cache for all its files, or fails for
\* this one; a cache on disk may also fail to be read.
ReadCached(f, offset, n, moves) ==
    /\ f \in Cached /\ n > 0 /\ ~failure[f]
    /\ \/ /\ decoded' = TRUE
          /\ \E m \in 0..(IF offset >= size THEN 0 ELSE Smaller(n, size - offset)), answer \in {"ok", "disk"} :
               /\ answer = "ok" => m = IF offset >= size THEN 0 ELSE Smaller(n, size - offset)
               /\ answer = "disk" => offset < size
               /\ Answers(f, offset, m, offset, answer, moves)
          /\ UNCHANGED <<failure, refused>>
       \/ /\ ~decoded
          /\ failure' = [failure EXCEPT ![f] = TRUE]
          /\ refused' = refused \cup {f}
          /\ Answers(f, offset, 0, offset, "error", moves)
          /\ UNCHANGED decoded
    /\ UNCHANGED <<open, size, taken, reached, damaged>>

ReadAt(f, offset, n, buffer, moves) ==
    \/ ReadStops(f, offset, n, buffer, moves)
    \/ buffer /\ ReadStream(f, offset, n, moves)
    \/ buffer /\ ReadCached(f, offset, n, moves)

ReadNext(f, n, buffer) == ReadAt(f, cursor[f], n, buffer, TRUE)

\* Nothing depends on an answer but its caller.
ForgetAnswer ==
    /\ answered' = NoAnswer
    /\ UNCHANGED <<open, size, decoded, cursor, taken, reached, failure, damaged, refused>>

VfsFileNext ==
    \/ answered # NoAnswer /\ ForgetAnswer
    \/ answered = NoAnswer /\ \E f \in open :
      \/ \E d \in MinInt..MaxInt, origin \in {"begin", "current", "end"} : Seek(f, d, origin)
      \/ \E n \in 0..MaxInt, buffer \in BOOLEAN :
           \/ ReadNext(f, n, buffer)
           \/ \E offset \in 0..(MaxInt + 1) : ReadAt(f, offset, n, buffer, FALSE)

VfsFileSpec == VfsFileInit /\ [][VfsFileNext]_cursorVars

----------------------------------------------------------------------------
\* A seek goes where the sum of integers says, or fails and moves nothing: behind
\* the start as a negative seek, above INT64_MAX as invalid, and for a stream
\* anywhere but where it is (vfs_file.c:463).
SeekIsExact ==
    answered.op = "seek" =>
        LET t == answered.exact IN
        /\ answered.answer = IF t < 0 THEN "negative" ELSE IF t > MaxInt THEN "invalid"
                         ELSE IF answered.file \in Streamed /\ t # answered.from THEN "unsupported" ELSE "ok"
        /\ cursor[answered.file] = IF answered.answer = "ok" THEN t ELSE answered.from

\* The bytes a read returns lie where the caller asked, inside the entry, also after
\* reads at other places and reads that broke off (vfs_file.c:425).
ReadsAreInPlace ==
    /\ \A f \in Streamed : reached[f] = taken[f]
    /\ answered.op = "read" /\ answered.got > 0 => answered.at = answered.offset /\ answered.at + answered.got <= size

\* A file that once failed for want of its data never returns any later, although
\* another file may have decoded the cache meanwhile (vfs_file.c:441): a reader that
\* ignores one error cannot join parts that do not belong together.
FailuresStick ==
    answered.op = "read" /\ answered.before => answered.got = 0

\* The cursor of an open file behaves like a disk file's, or refuses.
CursorsAreExact == SeekIsExact /\ ReadsAreInPlace /\ FailuresStick

=============================================================================
