---------------------------- MODULE MCLocalUpload ----------------------------
\* Instances of LocalUpload for TLC, and of what an upload is measured and probed by.
EXTENDS LocalUpload, UploadLimits, VideoMetadata, TLC

Interchangeable == Permutations(Keys) \cup Permutations(Requests)

-----------------------------------------------------------------------------
\* Plans around every bound; a megabyte is one byte here.
Limits == [upload : {3, 8}, chunk : {2, 8}, reserve : {2}]
Plans == [totalBytes : 0 .. 9, totalChunks : 0 .. 9, chunkSizeBytes : 0 .. 9,
          type : {"video/mp4"}, extension : {".mp4"}]
LargePlans == [totalBytes : {199, 200, 201, 1024}, totalChunks : {2, 3, 10, 11},
               chunkSizeBytes : {99, 100}, type : {"video/mp4"}, extension : {".mp4"}]
LargeLimits == [upload |-> 1024, chunk |-> 100, reserve |-> 2]

ASSUME PlansAreCut ==
    /\ \A limits \in Limits, plan \in Plans :
          /\ ChunksCanBeSent(limits, plan)
          /\ \A size \in 0 .. 9 : ChunksCover(limits, plan, size)
    /\ \A plan \in LargePlans : ChunksCanBeSent(LargeLimits, plan)
    /\ \E plan \in LargePlans : PlanAccepted(LargeLimits, plan)
ASSUME BlobsFit ==
    \A size \in 0 .. 60, packet \in {Unknown} \cup 0 .. 80 : BlobFitsPacket(size, packet)

-----------------------------------------------------------------------------
\* Buffers of up to 64 bytes with what three places of them read; nothing else is a type.
Reads == [size : {0, 1, 8, 28}, type : {"mvhd", "container", "other"}, large : {16, 48},
          version : {0, 1}, duration : {0, 3}, timescale : {2}]
Unreadable == [size |-> 9, type |-> "none", large |-> 0, version |-> 0, duration |-> 0,
               timescale |-> 0]
Places == {0, 8, 16}
Few(type) == {read \in Reads : /\ read.type = type
                               /\ type # "mvhd" => read.duration = 0 /\ read.version = 0
                               /\ read.size # 1 => read.large = 16}
Buffers ==
    {[length |-> length,
      at |-> [offset \in 0 .. 63 |->
                 CASE offset = 0 -> a [] offset = 8 -> b [] offset = 16 -> c
                   [] OTHER -> Unreadable]] :
        length \in {8, 27, 64}, a \in Few("container") \cup Few("other"),
        b \in Few("container") \cup Few("mvhd"), c \in Few("mvhd") \cup {Unreadable}}

ASSUME BoxesFit ==
    \A buffer \in Buffers, offset \in Places, end \in {8, 24, 27, 64} :
        end <= buffer.length =>
            BoxFits(buffer, offset, end) /\ FieldsAreRead(buffer, offset, end - offset)
ASSUME HeadersAreFound == \A buffer \in Buffers : HeaderIsFound(buffer)
ASSUME SomeHeaderIsFound ==
    /\ \E buffer \in Buffers : findMp4DurationFromBoxes(buffer) # Nothing
    /\ \E buffer \in Buffers : /\ findMp4DurationFromBoxes(buffer) = Nothing
                               /\ Signatures(buffer) # {}
ASSUME ProbedPartsFit ==
    \A size \in 1 .. 3 * ProbeChunk, found \in BOOLEAN : PartsFit(size, found)
=============================================================================
