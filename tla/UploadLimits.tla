----------------------------- MODULE UploadLimits -----------------------------
(***************************************************************************)
(* What an upload may weigh, and how a local upload is cut into chunks:    *)
(* the checks that come before anything is stored.                         *)
(*                                                                         *)
(* A file is its media type, its size and whether the temporary file of it *)
(* is there; None when the request carries none. Sizes are in bytes, the   *)
(* settings in megabytes.                                                  *)
(***************************************************************************)
EXTENDS Integers

CONSTANTS Megabyte,    \* 1024 * 1024; scaled for TLC
          NoFile,      \* a form without the file
          Unknown      \* a packet limit the database did not tell

ASSUME LimitsAssumption == Megabyte \in Nat \ {0} /\ Unknown \notin Int

\* What the transport of a route takes, before any setting is read; in megabytes.
Transport == [chunk |-> 100, thumbnail |-> 10, database |-> 100, cloud |-> 500]
Received(route, file) == file = NoFile \/ file.size <= Transport[route] * Megabyte

MostBytes == 1024 * Megabyte
MostChunks == 10000
MinOverhead == 5 * Megabyte    \* DATABASE_PACKET_MIN_OVERHEAD_BYTES

VideoTypes == {"video/mp4", "video/x-m4v", "video/quicktime", "video/webm",
               "video/x-matroska", "video/x-msvideo", "video/avi", "video/mpeg"}
Extensions == {".mp4", ".m4v", ".mov", ".webm", ".avi", ".mkv", ".mpeg", ".mpg"}
PosterTypes == {"image/jpeg", "image/png", "image/gif", "image/webp"}

-----------------------------------------------------------------------------
(* The plan of a local upload.                                              *)

\* InitLocalVideoUploadDto: what the request itself is bounded by.
Requested(plan) ==
    /\ plan.totalBytes \in 1 .. MostBytes
    /\ plan.totalChunks \in 1 .. MostChunks
    /\ plan.chunkSizeBytes \in 1 .. MostBytes

\* chunks = Math.ceil(bytes / size)
Ceiling(bytes, size, chunks) == (chunks - 1) * size < bytes /\ bytes <= chunks * size

\* validateLocalVideoUploadInit, after the types.
PlanFits(limits, plan) ==
    /\ plan.totalBytes <= limits.upload * Megabyte
    /\ plan.chunkSizeBytes <= limits.chunk * Megabyte
    /\ Ceiling(plan.totalBytes, plan.chunkSizeBytes, plan.totalChunks)

PlanAccepted(limits, plan) ==
    /\ Requested(plan)
    /\ plan.type \in VideoTypes
    /\ plan.extension \in Extensions
    /\ PlanFits(limits, plan)

\* validateLocalChunkRequest: the size the session expects of its chunk.
ExpectedSize(plan, index) ==
    IF index = plan.totalChunks - 1 THEN plan.totalBytes - plan.chunkSizeBytes * index
    ELSE plan.chunkSizeBytes

\* The transport, and validateLocalChunkFile.
ChunkFits(limits, size) ==
    /\ size <= Transport["chunk"] * Megabyte
    /\ size > 0 /\ size <= limits.chunk * Megabyte

ChunkAccepted(limits, plan, index, size) ==
    /\ ChunkFits(limits, size)
    /\ index < plan.totalChunks
    /\ size = ExpectedSize(plan, index)

-----------------------------------------------------------------------------
(* Room on the disk: the reserve must be left over.                         *)

ensureMinimumFreeSpace(limits, free) == free = Unknown \/ free >= limits.reserve * Megabyte
ensureAvailableCapacity(limits, free, bytes) ==
    free >= limits.reserve * Megabyte + (IF bytes < 0 THEN 0 ELSE bytes)

-----------------------------------------------------------------------------
(* The other uploads.                                                       *)

\* validateUploadFile and validateDatabaseUploadFile, each with its limit.
VideoFileAccepted(file, most) ==
    file # NoFile /\ file.video /\ file.stored /\ file.size <= most * Megabyte

\* validateThumbnailFile: any image but SVG.
ThumbnailAccepted(file, most) ==
    file = NoFile \/ (file.type \in PosterTypes \cup {"image/other"}
                      /\ file.size <= most * Megabyte)

\* validateLocalThumbnailFile, and validateLocalThumbnailMagicBytes on what was stored.
LocalThumbnailAccepted(file, most) ==
    file = NoFile \/ (file.type \in PosterTypes /\ file.stored /\ file.size <= most * Megabyte)
ThumbnailKept(file) == file.content = file.type

\* validateBunnyThumbnailUpload, which has the bytes in memory.
BunnyThumbnailAccepted(file, most) ==
    /\ file # NoFile
    /\ file.type \in PosterTypes
    /\ file.size > 0 /\ file.size <= most * Megabyte
    /\ file.content = file.type

\* estimateDatabasePacketBytes: 15 parts in a hundred, rounded up, and no less than the
\* least overhead.
Overhead(size) == LET share == (15 * size + 99) \div 100
                  IN  IF share < MinOverhead THEN MinOverhead ELSE share
ensureDatabaseCanAcceptBlob(size, packet) == packet = Unknown \/ size + Overhead(size) <= packet

-----------------------------------------------------------------------------
(* What the plan promises.                                                  *)

\* Every chunk a session expects can be sent: it is accepted at the size expected. The
\* validator keeps the setting within what the transport takes.
ChunksCanBeSent(limits, plan) ==
    limits.chunk <= Transport["chunk"] /\ PlanAccepted(limits, plan) =>
        \A index \in 0 .. plan.totalChunks - 1 :
            ChunkAccepted(limits, plan, index, ExpectedSize(plan, index))

\* The chunks that are accepted make up the file: where one ends the next begins, and the
\* last ends where the file does.
ChunksCover(limits, plan, size) ==
    PlanAccepted(limits, plan) =>
        \A index \in 0 .. plan.totalChunks - 1 :
            ChunkAccepted(limits, plan, index, size) =>
                plan.chunkSizeBytes * index + size =
                    IF index = plan.totalChunks - 1 THEN plan.totalBytes
                    ELSE plan.chunkSizeBytes * (index + 1)

\* A file accepted for the database fits its packet with the overhead left over.
BlobFitsPacket(size, packet) ==
    packet # Unknown /\ ensureDatabaseCanAcceptBlob(size, packet) => size + MinOverhead <= packet
=============================================================================
