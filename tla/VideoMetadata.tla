---------------------------- MODULE VideoMetadata ----------------------------
(***************************************************************************)
(* The duration probe: which parts of a file it reads, what it takes from  *)
(* a remote server, and how it finds the movie header in what it has read. *)
(*                                                                         *)
(* A buffer is its length and what is read at each offset: the size word,  *)
(* the type ("mvhd", "container", "other", or "none" when no four          *)
(* printable characters), the large size, and the fields a movie header    *)
(* starting there would have.                                              *)
(***************************************************************************)
EXTENDS Integers

CONSTANTS ProbeChunk,     \* PROBE_CHUNK_BYTES
          MaxSeconds,     \* 2147483647
          MaxLarge,       \* Number.MAX_SAFE_INTEGER
          Nothing         \* null: no box, no duration, no declared length

ASSUME ProbeAssumption ==
    /\ ProbeChunk \in Nat \ {0} /\ MaxSeconds \in Nat \ {0} /\ MaxLarge \in Nat
    /\ Nothing \notin Int

HeaderBytes == 8
LargeHeaderBytes == 16
Deepest == 4

-----------------------------------------------------------------------------
(* Boxes.                                                                   *)

\* readBoxHeader: Nothing when no box that ends by end starts at the offset.
readBoxHeader(buffer, offset, end) ==
    LET at == buffer.at[offset]
        Box(size, header) == [size |-> size, type |-> at.type, header |-> header]
    IN  IF offset + HeaderBytes > end \/ at.type = "none" THEN Nothing
        ELSE IF at.size = 0 THEN Box(end - offset, HeaderBytes)
        ELSE IF at.size = 1
        THEN IF /\ offset + LargeHeaderBytes <= end
                /\ at.large \in LargeHeaderBytes .. MaxLarge
                /\ offset + at.large <= end
             THEN Box(at.large, LargeHeaderBytes) ELSE Nothing
        ELSE IF at.size >= HeaderBytes /\ offset + at.size <= end
             THEN Box(at.size, HeaderBytes) ELSE Nothing

\* normalizeDurationSeconds: rounded to the nearest second, a half up.
Seconds(duration, timescale) ==
    LET rounded == (2 * duration + timescale) \div (2 * timescale)
    IN  IF duration > 0 /\ timescale > 0 /\ rounded \in 1 .. MaxSeconds
        THEN rounded ELSE Nothing

\* The end of the duration field of a movie header of the version.
FieldsEnd(version) == IF version = 0 THEN 28 ELSE 40

\* parseMvhdDuration. The version is read at the first byte after the box header, which
\* the box need not reach.
parseMvhdDuration(buffer, start, size) ==
    LET at == buffer.at[start]
    IN  IF /\ start + HeaderBytes < buffer.length
           /\ at.version \in {0, 1}
           /\ FieldsEnd(at.version) <= size
           /\ at.version = 1 => at.duration <= MaxLarge
        THEN Seconds(at.duration, at.timescale) ELSE Nothing

\* findMp4DurationInRange: boxes one after another, the contents of containers down to
\* the deepest level, and the first movie header decides.
findMp4DurationFromBoxes(buffer) ==
    LET within == 0 .. buffer.length
        find[s \in within \X within \X (0 .. Deepest + 1)] ==
            LET offset == s[1]  end == s[2]  depth == s[3]
                box == readBoxHeader(buffer, offset, end)
                nested == IF box.type = "container"
                          THEN find[<<offset + box.header, offset + box.size, depth + 1>>]
                          ELSE Nothing
            IN  IF depth > Deepest \/ offset + HeaderBytes > end THEN Nothing
                ELSE IF box = Nothing THEN Nothing
                ELSE IF box.type = "mvhd" THEN parseMvhdDuration(buffer, offset, box.size)
                ELSE IF nested # Nothing THEN nested
                ELSE find[<<offset + box.size, end, depth>>]
    IN  find[<<0, buffer.length, 0>>]

\* findMp4DurationBySignature: the first offset that looks like a movie header and gives
\* a duration, whatever box it lies in.
Signatures(buffer) ==
    {start \in 0 .. buffer.length - 1 :
        /\ start + 4 + HeaderBytes < buffer.length
        /\ buffer.at[start].type = "mvhd"
        /\ buffer.at[start].size >= HeaderBytes
        /\ start + buffer.at[start].size <= buffer.length
        /\ parseMvhdDuration(buffer, start, buffer.at[start].size) # Nothing}
findMp4DurationBySignature(buffer) ==
    IF Signatures(buffer) = {} THEN Nothing
    ELSE LET start == CHOOSE s \in Signatures(buffer) : \A t \in Signatures(buffer) : s <= t
         IN  parseMvhdDuration(buffer, start, buffer.at[start].size)

parseMp4Metadata(buffer) ==
    IF findMp4DurationFromBoxes(buffer) # Nothing THEN findMp4DurationFromBoxes(buffer)
    ELSE findMp4DurationBySignature(buffer)

-----------------------------------------------------------------------------
(* Parts of a file.                                                         *)

Part(start, length) == [start |-> start, length |-> length]
Lower(a, b) == IF a < b THEN a ELSE b

\* The parts read of a file: its head, and its tail unless the head told the duration.
Parts(size, found) ==
    {Part(0, Lower(size, ProbeChunk))}
      \cup (IF ~found /\ size > ProbeChunk THEN {Part(size - ProbeChunk, ProbeChunk)} ELSE {})

probeLocalVideoFile(enabled, size, found) ==
    IF enabled /\ size > 0 THEN Parts(size, found) ELSE {}

\* isRemoteHostAllowed, and ensurePublicHost on the addresses the name has.
isRemoteHostAllowed(config, host) ==
    IF config.allowed = {} THEN ~config.production ELSE host.name \in config.allowed
IsPublicHost(host) ==
    /\ ~host.blocked
    /\ host.addresses # {}
    /\ \A address \in host.addresses : address.public
IsSafeUrl(url) == url.web /\ ~url.credentials

\* fetchRange: what of a reply is taken.
RangeAccepted(config, reply) ==
    /\ reply.status = 206
    /\ reply.total # Nothing => reply.total <= config.max
    /\ reply.declared # Nothing => reply.declared <= ProbeChunk
    /\ reply.bytes <= ProbeChunk

\* The parts asked of a remote server whose answer to HEAD is given.
probeRemoteVideoUrl(config, url, head, found) ==
    IF /\ config.enabled
       /\ IsSafeUrl(url)
       /\ isRemoteHostAllowed(config, url.host)
       /\ IsPublicHost(url.host)
       /\ head.ok
       /\ head.declared # Nothing => head.declared <= config.max
    THEN {Part(0, ProbeChunk)}
           \cup (IF ~found /\ head.declared # Nothing /\ head.declared > ProbeChunk
                 THEN {Part(head.declared - ProbeChunk, ProbeChunk)} ELSE {})
    ELSE {}

-----------------------------------------------------------------------------
(* What the probe promises.                                                 *)

\* A box lies in what holds it and is longer than its header: every step goes forward.
BoxFits(buffer, offset, end) ==
    LET box == readBoxHeader(buffer, offset, end)
    IN  box # Nothing => /\ box.header <= box.size
                         /\ offset + box.size <= end

\* The fields of a movie header are read only where the buffer has them.
FieldsAreRead(buffer, start, size) ==
    start + size <= buffer.length /\ parseMvhdDuration(buffer, start, size) # Nothing
        => start + FieldsEnd(buffer.at[start].version) <= buffer.length

\* The parts lie in the file, none is longer than a chunk, and a file of no more than two
\* chunks is read to the last byte when no duration is found.
PartsFit(size, found) ==
    /\ \A part \in Parts(size, found) :
          0 <= part.start /\ part.start + part.length <= size /\ part.length <= ProbeChunk
    /\ ~found /\ size <= 2 * ProbeChunk =>
          \A byte \in 0 .. size - 1 : \E part \in Parts(size, found) :
              byte \in part.start .. part.start + part.length - 1

\* A movie header the buffer holds whole is found, wherever its boxes lead, and what is
\* found is a duration the database can store.
HeaderIsFound(buffer) ==
    /\ Signatures(buffer) # {} => parseMp4Metadata(buffer) # Nothing
    /\ parseMp4Metadata(buffer) # Nothing => parseMp4Metadata(buffer) \in 1 .. MaxSeconds
=============================================================================
