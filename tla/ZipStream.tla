------------------------------ MODULE ZipStream ------------------------------
(***************************************************************************)
(* One stream over an entry of a ZIP package (zip_package.c): its opening  *)
(* against the local header, the loop that loads compressed data, inflates *)
(* it and looks for the end marker behind the last byte, its errors, and   *)
(* the references that keep the package open under it.                     *)
(*                                                                         *)
(* An entry's compressed data is a sequence of units: one that yields a    *)
(* byte, one that yields nothing, the end marker, or damage.  Whether the  *)
(* bytes are the right ones is the entry's crc.                            *)
(***************************************************************************)
EXTENDS Integers, Sequences, FiniteSets

CONSTANTS StreamEntries,      \* entries, as the central directory declares them
          Chunk,        \* units loaded, or stored bytes read, at once
          Requests,     \* sizes of reads
          NoEntry

ASSUME ChunkAssumption == Chunk \in Nat \ {0}
ASSUME RequestsAssumption == Requests \subseteq Nat
ASSUME EntriesAssumption ==
    /\ StreamEntries \subseteq [deflated : BOOLEAN, size : Nat, crc : BOOLEAN,
                              units : Seq({"byte", "skip", "end", "bad"})]
    /\ NoEntry \notin StreamEntries

VARIABLES
    owned,      \* the index holds its reference
    references, \* of the package; it is closed at 0
    entry,      \* the entry the stream reads, NoEntry before it is opened
    position,   \* bytes delivered
    loaded,     \* compressed units loaded
    avail,      \* units in the buffer the inflater has not taken
    pending,    \* bytes the inflater has decoded ahead
    finished,   \* it has seen the end marker
    ended,      \* ended, of the stream
    error,      \* its sticky error
    request,    \* the size of the read under way, cut at the declared size, or -1
    delivered,  \* its bytes so far
    answer,     \* how the last read ended
    faulted     \* the package's file could not be read

streamVars == <<owned, references, entry, position, loaded, avail, pending, finished,
                ended, error, request, delivered, answer, faulted>>

packageVars == <<owned, references>>
inflaterVars == <<loaded, avail, pending, finished>>
readVars    == <<request, delivered, answer>>

StreamInit ==
    /\ owned = TRUE /\ references = 1 /\ entry = NoEntry
    /\ position = 0 /\ loaded = 0 /\ avail = 0 /\ pending = 0 /\ finished = FALSE
    /\ ended = FALSE /\ error = "none"
    /\ request = -1 /\ delivered = 0 /\ answer = "none" /\ faulted = FALSE

Units == entry.units
Deflated == entry.deflated /\ ~(Units = <<>> /\ entry.size = 0)

\* An entry in the archive as it should be: miniz takes a deflated entry
\* without data for an empty one.
Sound(e) ==
    /\ e.crc
    /\ IF ~e.deflated \/ (e.units = <<>> /\ e.size = 0) THEN Len(e.units) = e.size
       ELSE \E n \in DOMAIN e.units :
              /\ e.units[n] = "end"
              /\ \A i \in 1..(n - 1) : e.units[i] \in {"byte", "skip"}
              /\ Cardinality({i \in 1..(n - 1) : e.units[i] = "byte"}) = e.size

----------------------------------------------------------------------------
(* The package and the stream.                                              *)

\* Mutant: the stream does not count as a reference.
OpenUncounted(e) ==
    /\ references > 0 /\ owned
    /\ entry = NoEntry
    /\ e.deflated \/ Len(e.units) = e.size
    /\ entry' = e
    /\ UNCHANGED <<references, owned, position, inflaterVars, ended, error, readVars, faulted>>

\* zip_stream_open retains the package.  A local header that does not fit, a
\* stored entry whose sizes differ, and lack of memory fail.
Open(e) ==
    /\ references > 0 /\ owned
    /\ entry = NoEntry
    /\ e.deflated \/ Len(e.units) = e.size
    /\ entry' = e
    /\ references' = references + 1
    /\ UNCHANGED <<owned, position, inflaterVars, ended, error, readVars, faulted>>

\* zip_package_close, by the index.
ClosePackage ==
    /\ owned
    /\ owned' = FALSE /\ references' = references - 1
    /\ UNCHANGED <<entry, position, inflaterVars, ended, error, readVars, faulted>>

\* zip_stream_close; the handle is gone with everything the stream knew.
Close ==
    /\ entry # NoEntry /\ request = -1
    /\ entry' = NoEntry
    /\ references' = references - 1
    /\ position' = 0 /\ loaded' = 0 /\ avail' = 0 /\ pending' = 0 /\ finished' = FALSE
    /\ ended' = FALSE /\ error' = "none" /\ delivered' = 0 /\ answer' = "none" /\ faulted' = FALSE
    /\ UNCHANGED <<owned, request>>

----------------------------------------------------------------------------
(* zip_stream_read.                                                         *)

Least(a, b) == IF a < b THEN a ELSE b

\* An earlier error is repeated; a read of nothing succeeds; the rest is cut at the
\* declared size.
BeginRead(n) ==
    /\ entry # NoEntry /\ request = -1
    /\ delivered' = 0
    /\ IF error # "none" THEN answer' = error /\ UNCHANGED request
       ELSE IF n = 0 THEN UNCHANGED <<answer, request>>
            ELSE /\ request' = Least(n, entry.size - position)
                 /\ answer' = "reading"
    /\ UNCHANGED <<packageVars, entry, position, inflaterVars, ended, error, faulted>>

Reading == request >= 0

EndRead(e) ==
    /\ answer' = IF e = "none" THEN "ok" ELSE e
    /\ error' = e
    /\ request' = -1

\* zip_stream_input failing: the error is kept although the disk may recover.
InputFails ==
    /\ faulted' = TRUE
    /\ EndRead("fault")

\* Stored bytes come in bounded chunks; behind the last one the crc is compared.
ReadStored ==
    /\ Reading /\ ~Deflated
    /\ \/ /\ delivered < request
          /\ LET n == Least(Chunk, request - delivered) IN
             /\ position' = position + n
             /\ delivered' = delivered + n
          /\ UNCHANGED <<error, request, answer, faulted>>
       \/ /\ delivered < request /\ InputFails
          /\ UNCHANGED <<position, delivered>>
       \/ /\ delivered = request
          /\ EndRead(IF position = entry.size /\ ~entry.crc THEN "crc" ELSE "none")
          /\ UNCHANGED <<position, delivered, faulted>>
    /\ UNCHANGED <<packageVars, entry, inflaterVars, ended>>

AtEnd == position = entry.size

\* Mutant: a read of exactly the declared size ends there.
EndUnseen ==
    /\ Reading /\ Deflated
    /\ ended \/ delivered = request
    /\ EndRead("none")
    /\ UNCHANGED <<packageVars, entry, position, inflaterVars, ended, delivered, faulted>>

\* The loop goes on behind the last byte until it has seen the end marker.
EndInflated ==
    /\ Reading /\ Deflated
    /\ ended \/ (delivered = request /\ ~AtEnd)
    /\ EndRead("none")
    /\ UNCHANGED <<packageVars, entry, position, inflaterVars, ended, delivered, faulted>>

Inflating == Reading /\ Deflated /\ ~ended /\ (delivered < request \/ AtEnd)
MustLoad == avail = 0 /\ loaded < Len(Units)

Load ==
    /\ Inflating /\ MustLoad
    /\ \/ LET n == Least(Chunk, Len(Units) - loaded) IN
          /\ loaded' = loaded + n /\ avail' = n
          /\ UNCHANGED <<error, request, answer, faulted>>
       \/ InputFails /\ UNCHANGED <<loaded, avail>>
    /\ UNCHANGED <<packageVars, entry, position, pending, finished, ended, delivered>>

\* What the next m units in the buffer are.
Ahead(m) == SubSeq(Units, loaded - avail + 1, loaded - avail + m)
BytesOf(s) == Cardinality({i \in DOMAIN s : s[i] = "byte"})

\* The inflater takes units until the output is full, the input is used up or the
\* stream ends; how far it decodes ahead of the output is its own choice.
MayTake(m, room) ==
    LET s == Ahead(m) IN
    /\ \A i \in 1..(m - 1) : s[i] \in {"byte", "skip"}
    /\ \/ m = avail
       \/ m > 0 /\ s[m] \in {"end", "bad"}
       \/ BytesOf(s) >= room

\* The stream's part after a call of mz_inflate that produced n bytes.
AfterInflate(n, status, progress) ==
    LET extra == AtEnd /\ n > 0 IN
    /\ position' = IF extra THEN position ELSE position + n
    /\ delivered' = IF extra THEN delivered ELSE delivered + n
    /\ ended' = (status = "end" /\ ~extra)
    /\ IF extra THEN EndRead("data")
       ELSE IF status = "end"
            THEN IF position' # entry.size THEN EndRead("data")
                 ELSE IF ~entry.crc THEN EndRead("crc") ELSE UNCHANGED <<error, request, answer>>
            ELSE IF status = "bad" \/ (n = 0 /\ ~progress) THEN EndRead("data")
                 ELSE UNCHANGED <<error, request, answer>>

Room == IF AtEnd THEN 1 ELSE request - delivered

\* What was decoded ahead comes first.
InflatePending ==
    /\ Inflating /\ ~MustLoad /\ pending > 0
    /\ LET n == Least(pending, Room) IN
       /\ pending' = pending - n
       /\ AfterInflate(n, IF finished /\ n = pending THEN "end" ELSE "ok", FALSE)
    /\ UNCHANGED <<packageVars, entry, loaded, avail, finished, faulted>>

Inflate ==
    /\ Inflating /\ ~MustLoad /\ pending = 0 /\ ~finished
    /\ \E m \in 0..avail :
         LET bytes == BytesOf(Ahead(m))
             n == Least(bytes, Room)
             last == IF m = 0 THEN "none" ELSE Ahead(m)[m]
         IN
         /\ MayTake(m, Room)
         /\ avail' = avail - m
         /\ pending' = bytes - n
         /\ finished' = (last = "end")
         /\ AfterInflate(n, IF last = "bad" THEN "bad"
                            ELSE IF last = "end" /\ bytes = n THEN "end" ELSE "ok", m > 0)
    /\ UNCHANGED <<packageVars, entry, loaded, faulted>>

Read == ReadStored \/ EndInflated \/ Load \/ InflatePending \/ Inflate

StreamNext ==
    \/ \E e \in StreamEntries : Open(e)
    \/ ClosePackage \/ Close
    \/ \E n \in Requests : BeginRead(n)
    \/ Read

StreamSpec == StreamInit /\ [][StreamNext]_streamVars

----------------------------------------------------------------------------
\* A caller that was given every declared byte of an entry without an error has
\* the entry as it was stored, however it cut its reads and however far the
\* inflater ran ahead (zip_package.c:372); an entry that is sound is never refused
\* unless the file could not be read.
VerdictsAreRight ==
    entry # NoEntry =>
        /\ answer = "ok" /\ AtEnd => Sound(entry)
        /\ error # "none" => ~Sound(entry) \/ faulted
        /\ request = -1 /\ error # "none" => answer = error

\* The package stays open for a stream after its index has let it go
\* (zip_package.c:329), and is closed with the last of them.
StreamsKeepTheirPackage ==
    references = (IF owned THEN 1 ELSE 0) + (IF entry # NoEntry THEN 1 ELSE 0)

\* A stream tells sound data from damaged, as long as it is open.
StreamsAreSound == VerdictsAreRight /\ StreamsKeepTheirPackage

=============================================================================
