----------------------------- MODULE MediaRanges -----------------------------
(***************************************************************************)
(* Byte ranges of the media routes: how a Range header is read, which      *)
(* bytes are sent and what the headers announce of them. The public        *)
(* service, the local storage and the admin controller each carry their    *)
(* own copy of the reading.                                                *)
(*                                                                         *)
(* A header is absent, malformed, or a pair of decimal numbers of which    *)
(* one may be missing. A number past MaxSafe is no safe integer: what the  *)
(* runtime makes of its digits is past MaxSafe too.                        *)
(***************************************************************************)
EXTENDS Integers

CONSTANTS MaxSafe,    \* Number.MAX_SAFE_INTEGER
          Open,       \* a bound the header leaves out
          NoHeader, Malformed,
          Gone        \* the row was deleted between the two reads of it

ASSUME RangeAssumption ==
    /\ MaxSafe \in Nat \ {0}
    /\ Open \notin Int /\ Gone \notin Int
    /\ NoHeader # Malformed
    /\ {NoHeader, Malformed} \cap [first : Nat \cup {Open}, last : Nat \cup {Open}] = {}

Specified == [first : Nat \cup {Open}, last : Nat \cup {Open}]
Headers == {NoHeader, Malformed} \cup Specified

Lesser(a, b) == IF a < b THEN a ELSE b
Greater(a, b) == IF a < b THEN b ELSE a

-----------------------------------------------------------------------------
\* The bounds the header asks for in a file of the size; a missing first bound
\* makes the last one the length of the tail.
AskedStart(size, h) == IF h.first = Open THEN Greater(size - h.last, 0) ELSE h.first
AskedEnd(size, h) == IF h.first = Open \/ h.last = Open THEN size - 1 ELSE h.last

Satisfiable(size, h) ==
    /\ h.first = Open => h.last # Open /\ h.last \in 1 .. MaxSafe
    /\ AskedStart(size, h) <= AskedEnd(size, h)
    /\ AskedEnd(size, h) <= MaxSafe
    /\ AskedStart(size, h) < size

Reading(status, start, end) ==
    [status |-> status, start |-> start, end |-> end, length |-> end - start + 1]
Unsatisfied == Reading(416, 0, -1)

\* PublicService.parseRangeHeader; null is a reading with status 416.
parseRangeHeader(size, h) ==
    IF h = NoHeader THEN Reading(200, 0, size - 1)
    ELSE IF h # Malformed /\ Satisfiable(size, h)
         THEN Reading(206, AskedStart(size, h), Lesser(AskedEnd(size, h), size - 1))
         ELSE Unsatisfied

\* LocalVideoStorageService.parseRangeHeader: an empty file is sent whole.
parseLocalRange(size, h) ==
    IF size <= 0 THEN [status |-> 200, start |-> 0, end |-> 0, length |-> 0]
    ELSE parseRangeHeader(size, h)

-----------------------------------------------------------------------------
(* Answers: the status, the bytes Content-Range names, Content-Length and   *)
(* the number of bytes sent.                                                *)

Response(reading, length, body) ==
    [status |-> reading.status,
     range  |-> IF reading.status = 206 THEN reading.start .. reading.end ELSE {},
     length |-> length,
     body   |-> body]
NotFound == [status |-> 404, range |-> {}, length |-> 0, body |-> 0]

\* What a read of length bytes from start returns of a file of stored bytes.
BytesFrom(stored, start, length) == Lesser(Greater(stored - start, 0), length)

\* The public database video: the size comes with the authorisation, the bytes with a
\* second query that sees what is stored by then.
DatabaseAnswer(size, stored, h, head) ==
    LET reading == parseRangeHeader(size, h)
        data == BytesFrom(stored, reading.start, reading.length)
    IN  IF size <= 0 THEN NotFound
        ELSE IF reading.status = 416 THEN Response(reading, 0, 0)
        ELSE IF head THEN Response(reading, reading.length, 0)
        ELSE IF stored = Gone THEN NotFound
        ELSE Response(reading, data, data)

\* The local video file, for the public and for an administrator: the size is that of
\* the file, which is written once under a key of its own.
LocalAnswer(size, h, head) ==
    LET reading == parseLocalRange(size, h)
        sent == BytesFrom(size, reading.start, reading.end - reading.start + 1)
    IN  Response(reading, reading.length, IF head \/ reading.status = 416 THEN 0 ELSE sent)

\* The administrator's database video: one query returns all the bytes.
AdminBinaryAnswer(size, h) ==
    LET reading == parseLocalRange(size, h)
    IN  Response(reading, reading.length, reading.length)

\* A thumbnail: the whole file, whatever the Range header says.
ThumbnailAnswer(size, head) ==
    [status |-> 200, range |-> {}, length |-> size, body |-> IF head THEN 0 ELSE size]

-----------------------------------------------------------------------------
(* What a range means, and what the answers promise.                        *)

\* The bytes of the file that the header asks for (RFC 9110, one range).
AskedBytes(size, h) ==
    {b \in 0 .. size - 1 :
        IF h.first = Open THEN h.last # Open /\ b >= size - h.last
        ELSE b >= h.first /\ (h.last = Open \/ b <= h.last)}

Safe(h) == \A n \in {h.first, h.last} : n = Open \/ n <= MaxSafe

\* A specified range is answered with exactly the bytes it asks for, and refused when
\* there is none.
ExactRange(size, h) ==
    LET reading == parseRangeHeader(size, h)
    IN  IF AskedBytes(size, h) = {} THEN reading.status = 416
        ELSE reading.status = 206 /\ reading.start .. reading.end = AskedBytes(size, h)

\* No reading leaves the file, and its length is that of its range.
ReadingFits(size, reading) ==
    \/ reading = Unsatisfied
    \/ /\ 0 <= reading.start /\ reading.start <= reading.end /\ reading.end < size
       /\ reading.length = reading.end - reading.start + 1

\* Content-Length is what follows, unless only the headers were asked for.
LengthIsSent(answer, head) == ~head => answer.length = answer.body
=============================================================================
