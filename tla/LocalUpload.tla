----------------------------- MODULE LocalUpload -----------------------------
(***************************************************************************)
(* One chunked upload of a LOCAL_FILE video: the session's row and the     *)
(* rows of its chunks in the database, the parts and the final file on the *)
(* local disk, and the requests that work on both (chunk, complete, cancel *)
(* and the sweep of stale sessions that every upload request begins with). *)
(*                                                                         *)
(* Nothing spans the database and the disk.  A step of the model is one    *)
(* query, transaction or file operation; what other requests do between    *)
(* two of them, a process that dies there, a write whose answer is lost    *)
(* and a clean-up that fails are all part of the model.                    *)
(***************************************************************************)
EXTENDS Integers

CONSTANTS
    TotalChunks,  \* VideoUploadSession.totalChunks
    Keys,         \* storage keys of parts; each is generated once
    Requests,     \* requests that may be in flight
    None

\* What a part holds: the bytes of the client's file, or others.
Contents == {"good", "bad"}

ASSUME UploadAssumption ==
    /\ TotalChunks \in Nat \ {0}
    /\ None \notin Keys \cup Contents

Indexes == 0..TotalChunks - 1

Statuses == {"NONE", "ACTIVE", "COMPLETING", "COMPLETED", "ABORTED", "EXPIRED",
             "FAILED"}

\* cleanupStatuses
Open == {"ACTIVE", "FAILED"}

VARIABLES
    status,    \* VideoUploadSession.status
    sum,       \* the session was started with the checksum of the client's file
    rows,      \* VideoUploadSessionChunk: the key of each index, or None
    data,      \* what was ever written under each key, or None
    disk,      \* the keys of the temp directory that are on the disk
    final,     \* the final file: what each chunk of it holds, or None
    video,     \* the VideoAsset and its VideoLocalFileAsset exist
    expired,   \* expiresAt has passed
    request,   \* the requests in flight
    compared,  \* history: the checksum the merged file was compared with, or None
    mishaps    \* history: what went wrong besides the races

vars == <<status, sum, rows, data, disk, final, video, expired, request, compared,
          mishaps>>

Steps == {"idle", "save", "verify", "commit", "discard", "expire", "lapse", "claim",
          "merge", "publish", "check", "record", "undo", "fail", "cancel", "sweep",
          "remove"}

RequestState ==
    [pc : Steps, index : Indexes, content : Contents,
     key : Keys \cup {None}, parts : [Indexes -> Keys \cup {None}],
     merged : 0..TotalChunks]

NoParts == [i \in Indexes |-> None]
Idle == [pc |-> "idle", index |-> 0, content |-> "good",
         key |-> None, parts |-> NoParts, merged |-> 0]

TypeOK ==
    /\ status \in Statuses
    /\ sum \in BOOLEAN
    /\ rows \in [Indexes -> Keys \cup {None}]
    /\ data \in [Keys -> Contents \cup {None}]
    /\ disk \subseteq Keys
    /\ final \in [Indexes -> Contents] \cup {None}
    /\ video \in BOOLEAN
    /\ expired \in BOOLEAN
    /\ request \in [Requests -> RequestState]
    /\ compared \in Contents \cup {None}
    /\ mishaps \subseteq {"death", "lost", "left"}

Init ==
    /\ status = "NONE"
    /\ sum = FALSE
    /\ rows = NoParts
    /\ data = [k \in Keys |-> None]
    /\ disk = {}
    /\ final = None
    /\ video = FALSE
    /\ expired = FALSE
    /\ request = [r \in Requests |-> Idle]
    /\ compared = None
    /\ mishaps = {}

-----------------------------------------------------------------------------

At(r, step) == request[r].pc = step
Goto(r, step) == request' = [request EXCEPT ![r].pc = step]
End(r) == request' = [request EXCEPT ![r] = Idle]

session == <<status, sum, rows>>
storage == <<data, disk, final>>

\* initLocalVideoUpload
StartUpload ==
    /\ status = "NONE"
    /\ status' = "ACTIVE"
    /\ sum' \in BOOLEAN
    /\ UNCHANGED <<rows, storage, video, expired, compared, request, mishaps>>

-----------------------------------------------------------------------------
(* uploadLocalVideoChunk.                                                   *)

\* The session and its chunks are read: getOwnedActiveUploadSession, the checks of
\* the request, and the answer for an index that is already there.
ChunkRead(r, i, content) ==
    /\ At(r, "idle")
    /\ status = "ACTIVE"
    /\ expired \/ rows[i] = None
    /\ request' = [request EXCEPT ![r] =
          [Idle EXCEPT !.pc = IF expired THEN "expire" ELSE "save",
                       !.index = i, !.content = content]]
    /\ UNCHANGED <<session, storage, video, expired, compared, mishaps>>

\* The session had expired when it was read: its row is set to EXPIRED by id,
\* whatever it says by now, and the directory is removed.
ChunkExpire(r) ==
    /\ At(r, "expire")
    /\ status' = "EXPIRED"
    /\ Goto(r, "remove")
    /\ UNCHANGED <<sum, rows, storage, video, expired, compared, mishaps>>

\* Mutant: the key is made from the index, as buildChunkKey makes it.
ChunkSaveByIndex(r) ==
    /\ At(r, "save")
    /\ \E k \in Keys :
          /\ data[k] = None \/ k = rows[request[r].index]
          /\ data' = [data EXCEPT ![k] = request[r].content]
          /\ disk' = disk \cup {k}
          /\ request' = [request EXCEPT ![r].pc = "verify", ![r].key = k]
    /\ UNCHANGED <<session, final, video, expired, compared, mishaps>>

\* saveUploadedChunk copies the part to a key of its own.
ChunkSave(r) ==
    /\ At(r, "save")
    /\ \E k \in Keys :
          /\ data[k] = None
          /\ data' = [data EXCEPT ![k] = request[r].content]
          /\ disk' = disk \cup {k}
          /\ request' = [request EXCEPT ![r].pc = "verify", ![r].key = k]
    /\ UNCHANGED <<session, final, video, expired, compared, mishaps>>

\* The part is read back; a directory removed meanwhile ends the request here, and
\* so does a wrong part if the client sent the checksum of it.
ChunkVerify(r) ==
    LET q == request[r] IN
    /\ At(r, "verify")
    /\ \/ q.key \notin disk /\ End(r)
       \/ q.key \in disk /\ q.content = "bad" /\ Goto(r, "discard")
       \/ q.key \in disk /\ Goto(r, "commit")
    /\ UNCHANGED <<session, storage, video, expired, compared, mishaps>>

\* The transaction inserts the row (unique per index) and counts it on a session
\* that has to be ACTIVE still.
ChunkCommit(r) ==
    LET q == request[r] IN
    /\ At(r, "commit")
    /\ rows[q.index] = None
    /\ status = "ACTIVE"
    /\ rows' = [rows EXCEPT ![q.index] = q.key]
    /\ \/ End(r) /\ UNCHANGED mishaps
       \/ Goto(r, "discard") /\ mishaps' = mishaps \cup {"lost"}
    /\ UNCHANGED <<status, sum, storage, video, expired, compared>>

\* Mutant: the part stays when the transaction is rolled back.
ChunkRollbackKeepsPart(r) ==
    /\ At(r, "commit")
    /\ End(r)
    /\ UNCHANGED <<session, storage, video, expired, compared, mishaps>>

\* It is rolled back: another part has the index, the session is no longer ACTIVE,
\* or the database failed.
ChunkRollback(r) ==
    /\ At(r, "commit")
    /\ Goto(r, "discard")
    /\ UNCHANGED <<session, storage, video, expired, compared, mishaps>>

\* deleteStorageKeyBestEffort on the part the request wrote.
ChunkDiscard(r) ==
    /\ At(r, "discard")
    /\ \/ disk' = disk \ {request[r].key} /\ UNCHANGED mishaps
       \/ mishaps' = mishaps \cup {"left"} /\ UNCHANGED disk
    /\ End(r)
    /\ UNCHANGED <<session, data, final, video, expired, compared>>

-----------------------------------------------------------------------------
(* completeLocalVideoUpload.                                                *)

\* ensureAllUploadChunksPresent
AllPresent == \A i \in Indexes : rows[i] # None

\* The session and its chunks are read.  A COMPLETED session answers its video and
\* any other that is not ACTIVE is refused: neither changes anything.
CompleteRead(r) ==
    /\ At(r, "idle")
    /\ status = "ACTIVE"
    /\ expired \/ AllPresent
    /\ request' = [request EXCEPT ![r] =
          [Idle EXCEPT !.pc = IF expired THEN "lapse" ELSE "claim", !.parts = rows]]
    /\ UNCHANGED <<session, storage, video, expired, compared, mishaps>>

\* It had expired: EXPIRED if still ACTIVE.  The directory stays.
CompleteLapse(r) ==
    /\ At(r, "lapse")
    /\ status' = IF status = "ACTIVE" THEN "EXPIRED" ELSE status
    /\ End(r)
    /\ UNCHANGED <<sum, rows, storage, video, expired, compared, mishaps>>

\* Mutant: the claim does not ask whether the session is still ACTIVE.
ClaimableAny == status \in {"ACTIVE", "COMPLETING"}

\* The where clause of the claim.
Claimable == status = "ACTIVE"

\* The claim makes this request the only one to complete the session.
CompleteClaim(r) ==
    /\ At(r, "claim")
    /\ IF Claimable
       THEN /\ status' = "COMPLETING"
            /\ \/ Goto(r, "merge") /\ UNCHANGED mishaps
               \/ End(r) /\ mishaps' = mishaps \cup {"lost"}
       ELSE /\ End(r)
            /\ UNCHANGED <<status, mishaps>>
    /\ UNCHANGED <<sum, rows, storage, video, expired, compared>>

\* Mutant: the loop runs once too often.
CompleteMergePastTheEnd(r) ==
    LET q == request[r] IN
    /\ At(r, "merge")
    /\ request' = [request EXCEPT ![r].merged = @ + 1,
                      ![r].pc = IF q.merged = TotalChunks THEN "publish" ELSE @]
    /\ UNCHANGED <<session, storage, video, expired, compared, mishaps>>

\* mergeChunksToFinalFile appends one part after the other to a staging file.
CompleteMerge(r) ==
    LET q == request[r] IN
    /\ At(r, "merge")
    /\ q.merged < TotalChunks
    /\ q.parts[q.merged] \in disk
    /\ request' = [request EXCEPT ![r].merged = @ + 1,
                      ![r].pc = IF q.merged + 1 = TotalChunks THEN "publish" ELSE @]
    /\ UNCHANGED <<session, storage, video, expired, compared, mishaps>>

\* The staging file is renamed to the final key.
CompletePublish(r) ==
    /\ At(r, "publish")
    /\ final' = [i \in Indexes |-> data[request[r].parts[i]]]
    /\ Goto(r, "check")
    /\ UNCHANGED <<session, data, disk, video, expired, compared, mishaps>>

\* The checksum asked for: the one the completion brings, which may be that of other
\* bytes, or else the session's.
RequestedChecksum(own) == IF own # None THEN own ELSE IF sum THEN "good" ELSE None

\* Mutant: the checksum of the whole file is not compared.
IsIntactAny(checksum) == TRUE

\* It is compared with the checksum of the merged file.
IsIntact(checksum) ==
    checksum # None => (checksum = "good" <=> \A i \in Indexes : final[i] = "good")

\* The checksum, the magic bytes, the thumbnail and the duration.
CompleteCheck(r) ==
    /\ At(r, "check")
    /\ \E own \in Contents \cup {None} :
          /\ IsIntact(RequestedChecksum(own))
          /\ compared' = RequestedChecksum(own)
    /\ Goto(r, "record")
    /\ UNCHANGED <<session, storage, video, expired, mishaps>>

\* The transaction creates the video, deletes the chunk rows and closes the session,
\* which has to be COMPLETING still.
CompleteRecord(r) ==
    /\ At(r, "record")
    /\ status = "COMPLETING"
    /\ status' = "COMPLETED"
    /\ video' = TRUE
    /\ rows' = NoParts
    /\ \/ Goto(r, "remove") /\ UNCHANGED mishaps
       \/ Goto(r, "undo") /\ mishaps' = mishaps \cup {"lost"}
    /\ UNCHANGED <<sum, storage, expired, compared>>

\* Anything that throws after the claim: a part that is gone, a full disk, a checksum
\* that differs, a transaction that lost the session or the database.
CompleteThrows(r) ==
    /\ request[r].pc \in {"merge", "publish", "check", "record"}
    /\ Goto(r, "undo")
    /\ UNCHANGED <<session, storage, video, expired, compared, mishaps>>

\* The catch block: the final file is deleted, as well as it can be.
CompleteUndo(r) ==
    /\ At(r, "undo")
    /\ \/ final' = None /\ UNCHANGED mishaps
       \/ mishaps' = mishaps \cup {"left"} /\ UNCHANGED final
    /\ Goto(r, "fail")
    /\ UNCHANGED <<session, data, disk, video, expired, compared>>

\* And the session is FAILED if it is COMPLETING.
CompleteFail(r) ==
    /\ At(r, "fail")
    /\ \/ /\ status' = IF status = "COMPLETING" THEN "FAILED" ELSE status
          /\ UNCHANGED mishaps
       \/ /\ mishaps' = mishaps \cup {"left"}
          /\ UNCHANGED status
    /\ End(r)
    /\ UNCHANGED <<sum, rows, storage, video, expired, compared>>

-----------------------------------------------------------------------------
(* cancelLocalVideoUpload and cleanupStaleLocalUploadSessions.              *)

CancelRead(r) ==
    /\ At(r, "idle")
    /\ status \in Open \cup {"ABORTED", "EXPIRED"}
    /\ Goto(r, IF status \in Open THEN "cancel" ELSE "remove")
    /\ UNCHANGED <<session, storage, video, expired, compared, mishaps>>

Cancel(r) ==
    /\ At(r, "cancel")
    /\ IF status \in Open
       THEN status' = "ABORTED" /\ Goto(r, "remove")
       ELSE End(r) /\ UNCHANGED status
    /\ UNCHANGED <<sum, rows, storage, video, expired, compared, mishaps>>

\* The sweep of any upload request finds this session among the stale ones: its
\* expiresAt has passed, or its createdAt lies before a cutoff that is configured
\* apart and that nothing else depends on, so that it may at any time.
SweepFind(r) ==
    /\ At(r, "idle")
    /\ status \in Open
    /\ Goto(r, "sweep")
    /\ UNCHANGED <<session, storage, video, expired, compared, mishaps>>

\* The row is EXPIRED if it is still one of those, and in any case the directory is
\* removed next.
Sweep(r) ==
    /\ At(r, "sweep")
    /\ status' = IF status \in Open THEN "EXPIRED" ELSE status
    /\ Goto(r, "remove")
    /\ UNCHANGED <<sum, rows, storage, video, expired, compared, mishaps>>

\* deleteDirectoryBestEffort on the temp directory.
RemoveDirectory(r) ==
    /\ At(r, "remove")
    /\ \/ disk' = {} /\ UNCHANGED mishaps
       \/ mishaps' = mishaps \cup {"left"} /\ UNCHANGED disk
    /\ End(r)
    /\ UNCHANGED <<session, data, final, video, expired, compared>>

-----------------------------------------------------------------------------
(* Failures and time.                                                       *)

\* A query before anything was done fails and the request ends.
QueryFails(r) ==
    /\ request[r].pc \in {"save", "expire", "lapse", "claim", "cancel", "sweep"}
    /\ End(r)
    /\ UNCHANGED <<session, storage, video, expired, compared, mishaps>>

\* The process dies; rows and files stay as they are.
Die ==
    /\ \E r \in Requests : ~At(r, "idle")
    /\ request' = [r \in Requests |-> Idle]
    /\ mishaps' = mishaps \cup {"death"}
    /\ UNCHANGED <<session, storage, video, expired, compared>>

\* expiresAt passes.
Expire ==
    /\ status # "NONE"
    /\ ~expired
    /\ expired' = TRUE
    /\ UNCHANGED <<session, storage, video, compared, request, mishaps>>

Chunk(r) ==
    \/ \E i \in Indexes, c \in Contents : ChunkRead(r, i, c)
    \/ ChunkExpire(r) \/ ChunkSave(r) \/ ChunkVerify(r)
    \/ ChunkCommit(r) \/ ChunkRollback(r) \/ ChunkDiscard(r)

Complete(r) ==
    \/ CompleteRead(r) \/ CompleteLapse(r) \/ CompleteClaim(r)
    \/ CompleteMerge(r) \/ CompletePublish(r) \/ CompleteCheck(r)
    \/ CompleteRecord(r) \/ CompleteThrows(r) \/ CompleteUndo(r) \/ CompleteFail(r)

Clean(r) ==
    \/ CancelRead(r) \/ Cancel(r) \/ SweepFind(r) \/ Sweep(r)
    \/ RemoveDirectory(r) \/ QueryFails(r)

Next ==
    \/ \E r \in Requests : Chunk(r) \/ Complete(r) \/ Clean(r)
    \/ StartUpload \/ Expire \/ Die

Spec == Init /\ [][Next]_vars

-----------------------------------------------------------------------------
(* Properties.                                                              *)

\* The request that owns the completion.
Owner(r) == request[r].pc \in {"merge", "publish", "check", "record", "undo", "fail"}

\* A video in the catalogue has its file, whole, whatever cancelled, swept or retried
\* meanwhile.  Its bytes are the client's where they were compared with the checksum of
\* the client's file, and they were compared if the session has one, unless the
\* completion brought that of other bytes; only a commit reported as failed can take
\* the file away.
VideoHasItsFile ==
    video /\ "lost" \notin mishaps =>
        /\ final \in [Indexes -> Contents]
        /\ sum => compared # None
        /\ compared = "good" => \A i \in Indexes : final[i] = "good"

\* While the session is ACTIVE every chunk the client was told is stored is on the
\* disk: retries, losers of a race and late sweeps never take one away.
AcknowledgedChunksAreStored ==
    status = "ACTIVE" /\ "lost" \notin mishaps =>
        \A i \in Indexes : rows[i] # None => rows[i] \in disk

\* One request completes at a time, and a session is COMPLETING only while one
\* does: it gets stuck there only if the process died, the claim's answer was lost
\* or the write of FAILED failed.
CompletionIsOwned ==
    /\ \A r, s \in Requests : Owner(r) /\ Owner(s) => r = s
    /\ status = "COMPLETING" /\ mishaps = {} => \E r \in Requests : Owner(r)

\* When nothing is in flight and nothing failed, a final file without a video and a
\* part of a closed upload are not left behind.  A session that expired is left
\* out: completeLocalVideoUpload expires one without removing its directory.
NothingIsLeftBehind ==
    mishaps = {} /\ (\A r \in Requests : At(r, "idle")) =>
        /\ final # None => video
        /\ status \in {"COMPLETED", "ABORTED"} => disk = {}

\* upload-concurrency.test.ts: "does not expire or delete a session that is already
\* COMPLETING".
CompletingIsLeftAlone ==
    [][status = "COMPLETING" /\ mishaps = {} =>
          /\ status' # "EXPIRED"
          /\ \A i \in Indexes : rows[i] \in disk => rows[i] \in disk']_vars
=============================================================================
