----------------------- MODULE VideoLifecycles_proofs -----------------------
(* Theorems about the life of a video: its chunked upload (LocalUpload), for   *)
(* any number of chunks, keys and requests, and the lifecycle it shares with   *)
(* its links (ShareLinkLifecycle), for any number of videos, links, requests   *)
(* and synchronisations; and about how any upload is cut (UploadLimits) and    *)
(* any buffer is probed (VideoMetadata).                                       *)
EXTENDS LocalUpload, ShareLinkLifecycle, UploadLimits, VideoMetadata,
        WellFoundedInduction, TLAPS

-----------------------------------------------------------------------------
(* LocalUpload.                                                             *)

\* One request at most owns the completion, and only of a session that has left
\* ACTIVE for good.
Ownership ==
    /\ \A r, s \in Requests : Owner(r) /\ Owner(s) => r = s
    /\ \A r \in Requests : Owner(r) => status \notin {"NONE", "ACTIVE"}
    /\ status = "COMPLETING" /\ mishaps = {} => \E r \in Requests : Owner(r)

\* A request that has written a part and not yet given it away or discarded it.
Holding(r) == request[r].pc \in {"verify", "commit", "discard"}
Merging(r) == request[r].pc \in {"claim", "merge", "publish", "check", "record"}

\* Keys are written once: what a request holds is held by nobody else and, unless
\* an answer was lost, not recorded; what is recorded or merged was written.
KeysAreOwn ==
    /\ \A i \in Indexes : rows[i] # None => data[rows[i]] # None
    /\ \A r \in Requests : Holding(r) =>
        request[r].key # None /\ data[request[r].key] # None
    /\ \A r, s \in Requests : Holding(r) /\ Holding(s) /\ r # s =>
        request[r].key # request[s].key
    /\ "lost" \notin mishaps => \A r \in Requests : Holding(r) =>
        \A i \in Indexes : rows[i] # request[r].key
    /\ \A r \in Requests : Merging(r) => \A i \in Indexes :
        request[r].parts[i] # None /\ data[request[r].parts[i]] # None

\* While the session is ACTIVE no request is about to remove the directory, and a
\* verified part is on the disk.
Stored ==
    /\ status = "NONE" =>
        (\A r \in Requests : At(r, "idle")) /\ \A i \in Indexes : rows[i] = None
    /\ \A r \in Requests : At(r, "remove") => status \notin {"NONE", "ACTIVE"}
    /\ status = "ACTIVE" => \A r \in Requests :
        At(r, "commit") => request[r].key \in disk
    /\ AcknowledgedChunksAreStored

\* The final file is whole from its check on, and once the video exists no request
\* is left that would touch it.
Files ==
    /\ \A r \in Requests : request[r].pc \in {"check", "record"} =>
        final \in [Indexes -> Contents]
    /\ \A r \in Requests : At(r, "record") =>
        /\ sum => compared # None
        /\ compared = "good" => \A i \in Indexes : final[i] = "good"
    /\ video => status \notin {"NONE", "ACTIVE"}
    /\ video /\ "lost" \notin mishaps => \A r \in Requests : ~Owner(r)
    /\ VideoHasItsFile

\* A final file without a video is in the hands of the request that completes.
FinalHasOwner ==
    mishaps = {} /\ final # None =>
        video \/ \E r \in Requests : request[r].pc \in {"check", "record", "undo"}

\* Once the upload is closed a request is about to remove the directory, or every
\* part in it is in the hands of the request that wrote it.
DiskHasOwner ==
    mishaps = {} /\ status \in {"COMPLETED", "ABORTED"} =>
        \/ \E r \in Requests : At(r, "remove")
        \/ \A k \in disk : \E r \in Requests : Holding(r) /\ request[r].key = k

-----------------------------------------------------------------------------

\* How a request moves: one field changes, or all of them at its end; the other
\* requests stay as they are.
LEMMA GotoFacts ==
    ASSUME TypeOK, NEW r \in Requests, NEW step \in Steps, Goto(r, step)
    PROVE  /\ request' \in [Requests -> RequestState]
           /\ request'[r].pc = step
           /\ request'[r].key = request[r].key
           /\ request'[r].content = request[r].content
           /\ request'[r].parts = request[r].parts
           /\ \A s \in Requests : s # r => request'[s] = request[s]
<1>1. request[r] \in RequestState
    BY DEF TypeOK
<1>2. request' = [request EXCEPT ![r] = [request[r] EXCEPT !.pc = step]]
    BY DEF Goto
<1>3. [request[r] EXCEPT !.pc = step] \in RequestState
    BY <1>1 DEF RequestState
<1> QED
    BY <1>1, <1>2, <1>3 DEF TypeOK, RequestState

LEMMA Moves ==
    ASSUME TypeOK, NEW r \in Requests, NEW step, Goto(r, step)
    PROVE  /\ request'[r].pc = step
           /\ request'[r].key = request[r].key
           /\ request'[r].parts = request[r].parts
           /\ \A s \in Requests : s # r => request'[s] = request[s]
BY DEF Goto, TypeOK, RequestState

LEMMA IdleFacts == Idle \in RequestState /\ Idle.pc = "idle"
BY UploadAssumption DEF Idle, RequestState, Steps, Indexes, Contents, NoParts

LEMMA EndFacts ==
    ASSUME TypeOK, NEW r \in Requests, End(r)
    PROVE  /\ request' \in [Requests -> RequestState]
           /\ request'[r].pc = "idle"
           /\ \A s \in Requests : s # r => request'[s] = request[s]
BY IdleFacts DEF End, TypeOK

LEMMA ChunkReadFacts ==
    ASSUME TypeOK, NEW r \in Requests, NEW i \in Indexes, NEW c \in Contents,
           ChunkRead(r, i, c)
    PROVE  /\ request' \in [Requests -> RequestState]
           /\ request'[r].pc \in {"expire", "save"}
           /\ \A s \in Requests : s # r => request'[s] = request[s]
           /\ At(r, "idle") /\ status = "ACTIVE"
           /\ UNCHANGED <<status, sum, rows, data, disk, final, video, expired,
                           compared, mishaps>>
<1> DEFINE new == [Idle EXCEPT !.pc = IF expired THEN "expire" ELSE "save",
                               !.index = i, !.content = c]
<1>1. new \in RequestState /\ new.pc \in {"expire", "save"}
    BY IdleFacts DEF RequestState, Steps
<1>2. request' = [request EXCEPT ![r] = new]
    BY DEF ChunkRead
<1>3. /\ At(r, "idle") /\ status = "ACTIVE"
      /\ UNCHANGED <<status, sum, rows, data, disk, final, video, expired, compared,
                      mishaps>>
    BY DEF ChunkRead, session, storage
<1> QED
    BY <1>2, <1>1, <1>3 DEF TypeOK

LEMMA ChunkSaveFacts ==
    ASSUME TypeOK, NEW r \in Requests, ChunkSave(r)
    PROVE  \E k \in Keys :
           /\ data[k] = None
           /\ data' = [data EXCEPT ![k] = request[r].content]
           /\ disk' = disk \cup {k}
           /\ request[r].content \in Contents
           /\ request' \in [Requests -> RequestState]
           /\ request'[r].pc = "verify" /\ request'[r].key = k
           /\ \A s \in Requests : s # r => request'[s] = request[s]
<1>1. PICK k \in Keys :
          /\ data[k] = None
          /\ data' = [data EXCEPT ![k] = request[r].content]
          /\ disk' = disk \cup {k}
          /\ request' = [request EXCEPT ![r].pc = "verify", ![r].key = k]
    BY DEF ChunkSave
<1>2. request[r] \in RequestState
    BY DEF TypeOK
<1> DEFINE new == [request[r] EXCEPT !.pc = "verify", !.key = k]
<1>3. new \in RequestState /\ new.pc = "verify" /\ new.key = k
    BY <1>2 DEF RequestState, Steps
<1>4. request' = [request EXCEPT ![r] = new]
    BY <1>1, <1>2 DEF RequestState, TypeOK
<1>5. request[r].content \in Contents
    BY <1>2 DEF RequestState
<1>6. /\ request' \in [Requests -> RequestState]
      /\ request'[r] = new
      /\ \A s \in Requests : s # r => request'[s] = request[s]
    BY <1>3, <1>4 DEF TypeOK
<1> QED
    BY <1>1, <1>3, <1>5, <1>6

LEMMA CompleteReadFacts ==
    ASSUME TypeOK, NEW r \in Requests, CompleteRead(r)
    PROVE  /\ request' \in [Requests -> RequestState]
           /\ request'[r].pc \in {"lapse", "claim"}
           /\ request'[r].pc = "claim" => \A i \in Indexes : rows[i] # None
           /\ request'[r].parts = rows
           /\ \A s \in Requests : s # r => request'[s] = request[s]
<1> DEFINE new == [Idle EXCEPT !.pc = IF expired THEN "lapse" ELSE "claim",
                               !.parts = rows]
<1>1. /\ new \in RequestState /\ new.pc \in {"lapse", "claim"} /\ new.parts = rows
      /\ new.pc = "claim" => ~expired
    BY IdleFacts DEF RequestState, Steps, TypeOK
<1>2. request' = [request EXCEPT ![r] = new] /\ (expired \/ AllPresent)
    BY DEF CompleteRead
<1> QED
    BY <1>1, <1>2 DEF TypeOK, AllPresent

LEMMA CompleteMergeFacts ==
    ASSUME TypeOK, NEW r \in Requests, CompleteMerge(r)
    PROVE  /\ request' \in [Requests -> RequestState]
           /\ request'[r].pc \in {"merge", "publish"}
           /\ request'[r].parts = request[r].parts
           /\ \A s \in Requests : s # r => request'[s] = request[s]
<1> DEFINE q == request[r]
           new == [q EXCEPT !.merged = @ + 1,
                     !.pc = IF q.merged + 1 = TotalChunks THEN "publish" ELSE @]
<1>1. q \in RequestState /\ q.pc = "merge" /\ q.merged < TotalChunks
    BY DEF TypeOK, CompleteMerge, At
<1>2. q.merged + 1 \in 0..TotalChunks
    BY <1>1, UploadAssumption DEF RequestState
<1>3. /\ new \in RequestState /\ new.pc \in {"merge", "publish"}
      /\ new.parts = q.parts
    BY <1>1, <1>2 DEF RequestState, Steps
<1>4. request' = [request EXCEPT ![r] = new]
    BY <1>1 DEF CompleteMerge, TypeOK, RequestState
<1> QED
    BY <1>3, <1>4 DEF TypeOK

LEMMA DieFacts ==
    ASSUME TypeOK, Die
    PROVE  /\ request' \in [Requests -> RequestState]
           /\ \A s \in Requests : request'[s].pc = "idle"
BY IdleFacts DEF Die

LEMMA ClaimFacts ==
    ASSUME TypeOK, NEW r \in Requests, CompleteClaim(r)
    PROVE  /\ UNCHANGED <<sum, rows, data, disk, final, video, expired, compared>>
           /\ request[r].pc = "claim"
           /\ \A s \in Requests : s # r => request'[s] = request[s]
           /\ \/ /\ status = "ACTIVE" /\ status' = "COMPLETING"
                 /\ request'[r].pc = "merge" /\ mishaps' = mishaps
              \/ /\ status = "ACTIVE" /\ status' = "COMPLETING"
                 /\ request'[r].pc = "idle" /\ mishaps' = mishaps \cup {"lost"}
              \/ /\ status' = status
                 /\ request'[r].pc = "idle" /\ mishaps' = mishaps
BY Moves, EndFacts DEF CompleteClaim, Claimable, At, storage

LEMMA Fields ==
    ASSUME TypeOK
    PROVE  \A r \in Requests :
              /\ request[r].pc \in Steps
              /\ request[r].key \in Keys \cup {None}
              /\ request[r].content \in Contents
              /\ request[r].index \in Indexes
              /\ request[r].parts \in [Indexes -> Keys \cup {None}]
BY DEF TypeOK, RequestState

LEMMA TypeStep == TypeOK /\ KeysAreOwn /\ [Next]_vars => TypeOK'
<1> SUFFICES ASSUME TypeOK, KeysAreOwn, [Next]_vars PROVE TypeOK'
    OBVIOUS
<1> USE UploadAssumption DEF At, session, storage, TypeOK, Statuses, Steps, Contents, NoParts
<1>0. \A r \in Requests :
         /\ request[r].key \in Keys \cup {None}
         /\ request[r].content \in Contents
         /\ request[r].parts \in [Indexes -> Keys \cup {None}]
    BY Fields
<1>1. ASSUME NEW r \in Requests, NEW i \in Indexes, NEW c \in Contents,
            ChunkRead(r, i, c)
     PROVE  TypeOK'
    BY <1>1, <1>0, ChunkReadFacts DEF ChunkRead
<1>2. ASSUME NEW r \in Requests, ChunkExpire(r) PROVE TypeOK'
    BY <1>2, <1>0, GotoFacts, EndFacts DEF ChunkExpire
<1>3. ASSUME NEW r \in Requests, ChunkSave(r) PROVE TypeOK'
    BY <1>3, <1>0, ChunkSaveFacts DEF ChunkSave
<1>4. ASSUME NEW r \in Requests, ChunkVerify(r) PROVE TypeOK'
    BY <1>4, <1>0, GotoFacts, EndFacts DEF ChunkVerify
<1>5. ASSUME NEW r \in Requests, ChunkCommit(r) PROVE TypeOK'
    BY <1>5, <1>0, GotoFacts, EndFacts DEF ChunkCommit
<1>6. ASSUME NEW r \in Requests, ChunkRollback(r) PROVE TypeOK'
    BY <1>6, <1>0, GotoFacts, EndFacts DEF ChunkRollback
<1>7. ASSUME NEW r \in Requests, ChunkDiscard(r) PROVE TypeOK'
    BY <1>7, <1>0, GotoFacts, EndFacts DEF ChunkDiscard
<1>8. ASSUME NEW r \in Requests, CompleteRead(r) PROVE TypeOK'
    BY <1>8, <1>0, CompleteReadFacts DEF CompleteRead, AllPresent
<1>9. ASSUME NEW r \in Requests, CompleteLapse(r) PROVE TypeOK'
    BY <1>9, <1>0, GotoFacts, EndFacts DEF CompleteLapse
<1>10. ASSUME NEW r \in Requests, CompleteClaim(r) PROVE TypeOK'
    BY <1>10, <1>0, GotoFacts, EndFacts DEF CompleteClaim, Claimable
<1>11. ASSUME NEW r \in Requests, CompleteMerge(r) PROVE TypeOK'
    BY <1>11, <1>0, CompleteMergeFacts DEF CompleteMerge
<1>12. ASSUME NEW r \in Requests, CompletePublish(r) PROVE TypeOK'
    <2>1. \A j \in Indexes : data[request[r].parts[j]] \in Contents
        BY <1>12, <1>0 DEF CompletePublish, KeysAreOwn, Merging
    <2>2. final' \in [Indexes -> Contents]
        BY <1>12, <2>1 DEF CompletePublish
    <2> QED  BY <1>12, <2>2, GotoFacts DEF CompletePublish
<1>13. ASSUME NEW r \in Requests, CompleteCheck(r) PROVE TypeOK'
    BY <1>13, <1>0, GotoFacts, EndFacts DEF CompleteCheck, RequestedChecksum
<1>14. ASSUME NEW r \in Requests, CompleteRecord(r) PROVE TypeOK'
    BY <1>14, <1>0, GotoFacts, EndFacts DEF CompleteRecord
<1>15. ASSUME NEW r \in Requests, CompleteThrows(r) PROVE TypeOK'
    BY <1>15, <1>0, GotoFacts, EndFacts DEF CompleteThrows
<1>16. ASSUME NEW r \in Requests, CompleteUndo(r) PROVE TypeOK'
    BY <1>16, <1>0, GotoFacts, EndFacts DEF CompleteUndo
<1>17. ASSUME NEW r \in Requests, CompleteFail(r) PROVE TypeOK'
    BY <1>17, <1>0, GotoFacts, EndFacts DEF CompleteFail
<1>18. ASSUME NEW r \in Requests, CancelRead(r) PROVE TypeOK'
    BY <1>18, <1>0, GotoFacts, EndFacts DEF CancelRead, Open
<1>19. ASSUME NEW r \in Requests, Cancel(r) PROVE TypeOK'
    BY <1>19, <1>0, GotoFacts, EndFacts DEF Cancel, Open
<1>20. ASSUME NEW r \in Requests, SweepFind(r) PROVE TypeOK'
    BY <1>20, <1>0, GotoFacts, EndFacts DEF SweepFind, Open
<1>21. ASSUME NEW r \in Requests, Sweep(r) PROVE TypeOK'
    BY <1>21, <1>0, GotoFacts, EndFacts DEF Sweep, Open
<1>22. ASSUME NEW r \in Requests, RemoveDirectory(r) PROVE TypeOK'
    BY <1>22, <1>0, GotoFacts, EndFacts DEF RemoveDirectory
<1>23. ASSUME NEW r \in Requests, QueryFails(r) PROVE TypeOK'
    BY <1>23, <1>0, GotoFacts, EndFacts DEF QueryFails
<1>24. ASSUME StartUpload PROVE TypeOK'
    BY <1>24, <1>0 DEF StartUpload
<1>25. ASSUME Expire PROVE TypeOK'
    BY <1>25, <1>0 DEF Expire
<1>26. ASSUME Die PROVE TypeOK'
    BY <1>26, <1>0, DieFacts DEF Die
<1>27. ASSUME UNCHANGED vars PROVE TypeOK'
    BY <1>27, <1>0 DEF vars
<1> HIDE DEF TypeOK
<1> QED
    BY <1>1, <1>2, <1>3, <1>4, <1>5, <1>6, <1>7, <1>8, <1>9, <1>10, <1>11,
       <1>12, <1>13, <1>14, <1>15, <1>16, <1>17, <1>18, <1>19, <1>20, <1>21,
       <1>22, <1>23, <1>24, <1>25, <1>26, <1>27
    DEF Next, Chunk, Complete, Clean

LEMMA KeysStep == TypeOK /\ KeysAreOwn /\ [Next]_vars => KeysAreOwn'
<1> SUFFICES ASSUME TypeOK, KeysAreOwn, [Next]_vars PROVE KeysAreOwn'
    OBVIOUS
<1> USE UploadAssumption DEF At, session, storage, KeysAreOwn, Holding, Merging, NoParts, Contents
<1>0. \A r \in Requests :
         /\ request[r].key \in Keys \cup {None}
         /\ request[r].content \in Contents
         /\ request[r].parts \in [Indexes -> Keys \cup {None}]
    BY Fields
<1>00. /\ rows \in [Indexes -> Keys \cup {None}]
      /\ data \in [Keys -> Contents \cup {None}]
    BY DEF TypeOK
<1>1. ASSUME NEW r \in Requests, NEW i \in Indexes, NEW c \in Contents,
            ChunkRead(r, i, c)
     PROVE  KeysAreOwn'
    BY <1>1, <1>0, <1>00, ChunkReadFacts
<1>2. ASSUME NEW r \in Requests, ChunkExpire(r) PROVE KeysAreOwn'
    BY <1>2, <1>0, <1>00, Moves, EndFacts DEF ChunkExpire
<1>3. ASSUME NEW r \in Requests, ChunkSave(r) PROVE KeysAreOwn'
    <2>1. PICK k \in Keys :
             /\ data[k] = None
             /\ data' = [data EXCEPT ![k] = request[r].content]
             /\ disk' = disk \cup {k}
             /\ request'[r].pc = "verify" /\ request'[r].key = k
             /\ \A s \in Requests : s # r => request'[s] = request[s]
        BY <1>3, ChunkSaveFacts
    <2>2. UNCHANGED <<rows, mishaps>>
        BY <1>3 DEF ChunkSave
    <2>3. k # None /\ request[r].content # None /\ data'[k] = request[r].content
        BY <1>0, <1>00, <2>1, UploadAssumption DEF Contents
    <2>4. \A j \in Keys : data[j] # None => data'[j] # None /\ j # k
        BY <1>00, <2>1, <2>3
    <2> QED  BY <1>0, <1>00, <2>1, <2>2, <2>3, <2>4
<1>4. ASSUME NEW r \in Requests, ChunkVerify(r) PROVE KeysAreOwn'
    BY <1>4, <1>0, <1>00, Moves, EndFacts DEF ChunkVerify
<1>5. ASSUME NEW r \in Requests, ChunkCommit(r) PROVE KeysAreOwn'
    BY <1>5, <1>0, <1>00, Moves, EndFacts DEF ChunkCommit
<1>6. ASSUME NEW r \in Requests, ChunkRollback(r) PROVE KeysAreOwn'
    BY <1>6, <1>0, <1>00, Moves, EndFacts DEF ChunkRollback
<1>7. ASSUME NEW r \in Requests, ChunkDiscard(r) PROVE KeysAreOwn'
    BY <1>7, <1>0, <1>00, Moves, EndFacts DEF ChunkDiscard
<1>8. ASSUME NEW r \in Requests, CompleteRead(r) PROVE KeysAreOwn'
    BY <1>8, <1>0, <1>00, CompleteReadFacts DEF CompleteRead, AllPresent
<1>9. ASSUME NEW r \in Requests, CompleteLapse(r) PROVE KeysAreOwn'
    BY <1>9, <1>0, <1>00, Moves, EndFacts DEF CompleteLapse
<1>10. ASSUME NEW r \in Requests, CompleteClaim(r) PROVE KeysAreOwn'
    BY <1>10, <1>0, <1>00, Moves, EndFacts DEF CompleteClaim, Claimable
<1>11. ASSUME NEW r \in Requests, CompleteMerge(r) PROVE KeysAreOwn'
    <2>1. /\ request'[r].pc \in {"merge", "publish"}
          /\ request'[r].parts = request[r].parts
          /\ \A s \in Requests : s # r => request'[s] = request[s]
        BY <1>11, CompleteMergeFacts
    <2>2. /\ At(r, "merge")
          /\ UNCHANGED <<status, sum, rows, data, disk, final, video, expired, mishaps>>
        BY <1>11 DEF CompleteMerge
    <2> QED  BY <1>0, <1>00, <2>1, <2>2
<1>12. ASSUME NEW r \in Requests, CompletePublish(r) PROVE KeysAreOwn'
    BY <1>12, <1>0, <1>00, Moves, EndFacts DEF CompletePublish
<1>13. ASSUME NEW r \in Requests, CompleteCheck(r) PROVE KeysAreOwn'
    BY <1>13, <1>0, <1>00, Moves, EndFacts DEF CompleteCheck
<1>14. ASSUME NEW r \in Requests, CompleteRecord(r) PROVE KeysAreOwn'
    BY <1>14, <1>0, <1>00, Moves, EndFacts DEF CompleteRecord
<1>15. ASSUME NEW r \in Requests, CompleteThrows(r) PROVE KeysAreOwn'
    BY <1>15, <1>0, <1>00, Moves, EndFacts DEF CompleteThrows
<1>16. ASSUME NEW r \in Requests, CompleteUndo(r) PROVE KeysAreOwn'
    BY <1>16, <1>0, <1>00, Moves, EndFacts DEF CompleteUndo
<1>17. ASSUME NEW r \in Requests, CompleteFail(r) PROVE KeysAreOwn'
    BY <1>17, <1>0, <1>00, Moves, EndFacts DEF CompleteFail
<1>18. ASSUME NEW r \in Requests, CancelRead(r) PROVE KeysAreOwn'
    BY <1>18, <1>0, <1>00, Moves, EndFacts DEF CancelRead, Open
<1>19. ASSUME NEW r \in Requests, Cancel(r) PROVE KeysAreOwn'
    BY <1>19, <1>0, <1>00, Moves, EndFacts DEF Cancel, Open
<1>20. ASSUME NEW r \in Requests, SweepFind(r) PROVE KeysAreOwn'
    BY <1>20, <1>0, <1>00, Moves, EndFacts DEF SweepFind, Open
<1>21. ASSUME NEW r \in Requests, Sweep(r) PROVE KeysAreOwn'
    BY <1>21, <1>0, <1>00, Moves, EndFacts DEF Sweep, Open
<1>22. ASSUME NEW r \in Requests, RemoveDirectory(r) PROVE KeysAreOwn'
    BY <1>22, <1>0, <1>00, Moves, EndFacts DEF RemoveDirectory
<1>23. ASSUME NEW r \in Requests, QueryFails(r) PROVE KeysAreOwn'
    BY <1>23, <1>0, <1>00, Moves, EndFacts DEF QueryFails
<1>24. ASSUME StartUpload PROVE KeysAreOwn'
    BY <1>24, <1>0, <1>00 DEF StartUpload
<1>25. ASSUME Expire PROVE KeysAreOwn'
    BY <1>25, <1>0, <1>00 DEF Expire
<1>26. ASSUME Die PROVE KeysAreOwn'
    BY <1>26, <1>0, <1>00, DieFacts DEF Die
<1>27. ASSUME UNCHANGED vars PROVE KeysAreOwn'
    BY <1>27, <1>0, <1>00 DEF vars
<1> HIDE DEF KeysAreOwn
<1> QED
    BY <1>1, <1>2, <1>3, <1>4, <1>5, <1>6, <1>7, <1>8, <1>9, <1>10, <1>11,
       <1>12, <1>13, <1>14, <1>15, <1>16, <1>17, <1>18, <1>19, <1>20, <1>21,
       <1>22, <1>23, <1>24, <1>25, <1>26, <1>27
    DEF Next, Chunk, Complete, Clean

LEMMA OwnershipStep == TypeOK /\ Ownership /\ [Next]_vars => Ownership'
<1> SUFFICES ASSUME TypeOK, Ownership, [Next]_vars PROVE Ownership'
    OBVIOUS
<1> USE UploadAssumption DEF At, session, storage, Ownership, Owner
<1>0. \A r \in Requests :
         /\ request[r].key \in Keys \cup {None}
         /\ request[r].content \in Contents
         /\ request[r].parts \in [Indexes -> Keys \cup {None}]
    BY Fields
<1>00. /\ rows \in [Indexes -> Keys \cup {None}]
      /\ data \in [Keys -> Contents \cup {None}]
    BY DEF TypeOK
<1>1. ASSUME NEW r \in Requests, NEW i \in Indexes, NEW c \in Contents,
            ChunkRead(r, i, c)
     PROVE  Ownership'
    BY <1>1, <1>0, <1>00, ChunkReadFacts DEF ChunkRead
<1>2. ASSUME NEW r \in Requests, ChunkExpire(r) PROVE Ownership'
    BY <1>2, <1>0, <1>00, Moves, EndFacts DEF ChunkExpire
<1>3. ASSUME NEW r \in Requests, ChunkSave(r) PROVE Ownership'
    <2>1. PICK k \in Keys :
             /\ data[k] = None
             /\ data' = [data EXCEPT ![k] = request[r].content]
             /\ disk' = disk \cup {k}
             /\ request'[r].pc = "verify" /\ request'[r].key = k
             /\ \A s \in Requests : s # r => request'[s] = request[s]
        BY <1>3, ChunkSaveFacts
    <2>2. At(r, "save") /\ UNCHANGED <<status, sum, rows, final, video, expired, mishaps>>
        BY <1>3 DEF ChunkSave
    <2> QED  BY <1>0, <1>00, <2>1, <2>2
<1>4. ASSUME NEW r \in Requests, ChunkVerify(r) PROVE Ownership'
    BY <1>4, <1>0, <1>00, Moves, EndFacts DEF ChunkVerify
<1>5. ASSUME NEW r \in Requests, ChunkCommit(r) PROVE Ownership'
    BY <1>5, <1>0, <1>00, Moves, EndFacts DEF ChunkCommit
<1>6. ASSUME NEW r \in Requests, ChunkRollback(r) PROVE Ownership'
    BY <1>6, <1>0, <1>00, Moves, EndFacts DEF ChunkRollback
<1>7. ASSUME NEW r \in Requests, ChunkDiscard(r) PROVE Ownership'
    BY <1>7, <1>0, <1>00, Moves, EndFacts DEF ChunkDiscard
<1>8. ASSUME NEW r \in Requests, CompleteRead(r) PROVE Ownership'
    BY <1>8, <1>0, <1>00, CompleteReadFacts DEF CompleteRead, AllPresent
<1>9. ASSUME NEW r \in Requests, CompleteLapse(r) PROVE Ownership'
    BY <1>9, <1>0, <1>00, Moves, EndFacts DEF CompleteLapse
<1>10. ASSUME NEW r \in Requests, CompleteClaim(r) PROVE Ownership'
    BY <1>10, <1>0, <1>00, ClaimFacts
<1>11. ASSUME NEW r \in Requests, CompleteMerge(r) PROVE Ownership'
    <2>1. /\ request'[r].pc \in {"merge", "publish"}
          /\ request'[r].parts = request[r].parts
          /\ \A s \in Requests : s # r => request'[s] = request[s]
        BY <1>11, CompleteMergeFacts
    <2>2. /\ At(r, "merge")
          /\ UNCHANGED <<status, sum, rows, data, disk, final, video, expired, mishaps>>
        BY <1>11 DEF CompleteMerge
    <2> QED  BY <1>0, <1>00, <2>1, <2>2
<1>12. ASSUME NEW r \in Requests, CompletePublish(r) PROVE Ownership'
    BY <1>12, <1>0, <1>00, Moves, EndFacts DEF CompletePublish
<1>13. ASSUME NEW r \in Requests, CompleteCheck(r) PROVE Ownership'
    BY <1>13, <1>0, <1>00, Moves, EndFacts DEF CompleteCheck
<1>14. ASSUME NEW r \in Requests, CompleteRecord(r) PROVE Ownership'
    BY <1>14, <1>0, <1>00, Moves, EndFacts DEF CompleteRecord
<1>15. ASSUME NEW r \in Requests, CompleteThrows(r) PROVE Ownership'
    BY <1>15, <1>0, <1>00, Moves, EndFacts DEF CompleteThrows
<1>16. ASSUME NEW r \in Requests, CompleteUndo(r) PROVE Ownership'
    BY <1>16, <1>0, <1>00, Moves, EndFacts DEF CompleteUndo
<1>17. ASSUME NEW r \in Requests, CompleteFail(r) PROVE Ownership'
    BY <1>17, <1>0, <1>00, Moves, EndFacts DEF CompleteFail
<1>18. ASSUME NEW r \in Requests, CancelRead(r) PROVE Ownership'
    BY <1>18, <1>0, <1>00, Moves, EndFacts DEF CancelRead, Open
<1>19. ASSUME NEW r \in Requests, Cancel(r) PROVE Ownership'
    BY <1>19, <1>0, <1>00, Moves, EndFacts DEF Cancel, Open
<1>20. ASSUME NEW r \in Requests, SweepFind(r) PROVE Ownership'
    BY <1>20, <1>0, <1>00, Moves, EndFacts DEF SweepFind, Open
<1>21. ASSUME NEW r \in Requests, Sweep(r) PROVE Ownership'
    BY <1>21, <1>0, <1>00, Moves, EndFacts DEF Sweep, Open
<1>22. ASSUME NEW r \in Requests, RemoveDirectory(r) PROVE Ownership'
    BY <1>22, <1>0, <1>00, Moves, EndFacts DEF RemoveDirectory
<1>23. ASSUME NEW r \in Requests, QueryFails(r) PROVE Ownership'
    BY <1>23, <1>0, <1>00, Moves, EndFacts DEF QueryFails
<1>24. ASSUME StartUpload PROVE Ownership'
    BY <1>24, <1>0, <1>00 DEF StartUpload
<1>25. ASSUME Expire PROVE Ownership'
    BY <1>25, <1>0, <1>00 DEF Expire
<1>26. ASSUME Die PROVE Ownership'
    BY <1>26, <1>0, <1>00, DieFacts DEF Die
<1>27. ASSUME UNCHANGED vars PROVE Ownership'
    BY <1>27, <1>0, <1>00 DEF vars
<1> HIDE DEF Ownership
<1> QED
    BY <1>1, <1>2, <1>3, <1>4, <1>5, <1>6, <1>7, <1>8, <1>9, <1>10, <1>11,
       <1>12, <1>13, <1>14, <1>15, <1>16, <1>17, <1>18, <1>19, <1>20, <1>21,
       <1>22, <1>23, <1>24, <1>25, <1>26, <1>27
    DEF Next, Chunk, Complete, Clean

LEMMA StoredStep == TypeOK /\ KeysAreOwn /\ Stored /\ [Next]_vars => Stored'
<1> SUFFICES ASSUME TypeOK, KeysAreOwn, Stored, [Next]_vars PROVE Stored'
    OBVIOUS
<1> USE UploadAssumption DEF At, session, storage, Stored, AcknowledgedChunksAreStored, KeysAreOwn, Holding, NoParts
<1>0. \A r \in Requests :
         /\ request[r].key \in Keys \cup {None}
         /\ request[r].content \in Contents
         /\ request[r].parts \in [Indexes -> Keys \cup {None}]
    BY Fields
<1>00. /\ rows \in [Indexes -> Keys \cup {None}]
      /\ data \in [Keys -> Contents \cup {None}]
    BY DEF TypeOK
<1>1. ASSUME NEW r \in Requests, NEW i \in Indexes, NEW c \in Contents,
            ChunkRead(r, i, c)
     PROVE  Stored'
    BY <1>1, <1>0, <1>00, ChunkReadFacts DEF ChunkRead
<1>2. ASSUME NEW r \in Requests, ChunkExpire(r) PROVE Stored'
    BY <1>2, <1>0, <1>00, Moves, EndFacts DEF ChunkExpire
<1>3. ASSUME NEW r \in Requests, ChunkSave(r) PROVE Stored'
    <2>1. PICK k \in Keys :
             /\ data[k] = None
             /\ data' = [data EXCEPT ![k] = request[r].content]
             /\ disk' = disk \cup {k}
             /\ request'[r].pc = "verify" /\ request'[r].key = k
             /\ \A s \in Requests : s # r => request'[s] = request[s]
        BY <1>3, ChunkSaveFacts
    <2>2. At(r, "save") /\ UNCHANGED <<status, sum, rows, final, video, expired, mishaps>>
        BY <1>3 DEF ChunkSave
    <2> QED  BY <1>0, <1>00, <2>1, <2>2
<1>4. ASSUME NEW r \in Requests, ChunkVerify(r) PROVE Stored'
    BY <1>4, <1>0, <1>00, Moves, EndFacts DEF ChunkVerify
<1>5. ASSUME NEW r \in Requests, ChunkCommit(r) PROVE Stored'
    BY <1>5, <1>0, <1>00, Moves, EndFacts DEF ChunkCommit
<1>6. ASSUME NEW r \in Requests, ChunkRollback(r) PROVE Stored'
    BY <1>6, <1>0, <1>00, Moves, EndFacts DEF ChunkRollback
<1>7. ASSUME NEW r \in Requests, ChunkDiscard(r) PROVE Stored'
    BY <1>7, <1>0, <1>00, Moves, EndFacts DEF ChunkDiscard
<1>8. ASSUME NEW r \in Requests, CompleteRead(r) PROVE Stored'
    BY <1>8, <1>0, <1>00, CompleteReadFacts DEF CompleteRead, AllPresent
<1>9. ASSUME NEW r \in Requests, CompleteLapse(r) PROVE Stored'
    BY <1>9, <1>0, <1>00, Moves, EndFacts DEF CompleteLapse
<1>10. ASSUME NEW r \in Requests, CompleteClaim(r) PROVE Stored'
    BY <1>10, <1>0, <1>00, Moves, EndFacts DEF CompleteClaim, Claimable
<1>11. ASSUME NEW r \in Requests, CompleteMerge(r) PROVE Stored'
    BY <1>11, <1>0, <1>00, CompleteMergeFacts DEF CompleteMerge
<1>12. ASSUME NEW r \in Requests, CompletePublish(r) PROVE Stored'
    BY <1>12, <1>0, <1>00, Moves, EndFacts DEF CompletePublish
<1>13. ASSUME NEW r \in Requests, CompleteCheck(r) PROVE Stored'
    BY <1>13, <1>0, <1>00, Moves, EndFacts DEF CompleteCheck
<1>14. ASSUME NEW r \in Requests, CompleteRecord(r) PROVE Stored'
    BY <1>14, <1>0, <1>00, Moves, EndFacts DEF CompleteRecord
<1>15. ASSUME NEW r \in Requests, CompleteThrows(r) PROVE Stored'
    BY <1>15, <1>0, <1>00, Moves, EndFacts DEF CompleteThrows
<1>16. ASSUME NEW r \in Requests, CompleteUndo(r) PROVE Stored'
    BY <1>16, <1>0, <1>00, Moves, EndFacts DEF CompleteUndo
<1>17. ASSUME NEW r \in Requests, CompleteFail(r) PROVE Stored'
    BY <1>17, <1>0, <1>00, Moves, EndFacts DEF CompleteFail
<1>18. ASSUME NEW r \in Requests, CancelRead(r) PROVE Stored'
    BY <1>18, <1>0, <1>00, Moves, EndFacts DEF CancelRead, Open
<1>19. ASSUME NEW r \in Requests, Cancel(r) PROVE Stored'
    BY <1>19, <1>0, <1>00, Moves, EndFacts DEF Cancel, Open
<1>20. ASSUME NEW r \in Requests, SweepFind(r) PROVE Stored'
    BY <1>20, <1>0, <1>00, Moves, EndFacts DEF SweepFind, Open
<1>21. ASSUME NEW r \in Requests, Sweep(r) PROVE Stored'
    <2>1. /\ status \in Open => status' = "EXPIRED"
          /\ status \notin Open => status' = status
          /\ request'[r].pc = "remove"
          /\ \A s \in Requests : s # r => request'[s] = request[s]
          /\ UNCHANGED <<rows, disk, mishaps>> /\ At(r, "sweep")
        BY <1>21, Moves DEF Sweep
    <2> QED  BY <1>0, <1>00, <2>1 DEF Open
<1>22. ASSUME NEW r \in Requests, RemoveDirectory(r) PROVE Stored'
    BY <1>22, <1>0, <1>00, Moves, EndFacts DEF RemoveDirectory
<1>23. ASSUME NEW r \in Requests, QueryFails(r) PROVE Stored'
    BY <1>23, <1>0, <1>00, Moves, EndFacts DEF QueryFails
<1>24. ASSUME StartUpload PROVE Stored'
    BY <1>24, <1>0, <1>00 DEF StartUpload
<1>25. ASSUME Expire PROVE Stored'
    BY <1>25, <1>0, <1>00 DEF Expire
<1>26. ASSUME Die PROVE Stored'
    BY <1>26, <1>0, <1>00, DieFacts DEF Die
<1>27. ASSUME UNCHANGED vars PROVE Stored'
    BY <1>27, <1>0, <1>00 DEF vars
<1> HIDE DEF Stored
<1> QED
    BY <1>1, <1>2, <1>3, <1>4, <1>5, <1>6, <1>7, <1>8, <1>9, <1>10, <1>11,
       <1>12, <1>13, <1>14, <1>15, <1>16, <1>17, <1>18, <1>19, <1>20, <1>21,
       <1>22, <1>23, <1>24, <1>25, <1>26, <1>27
    DEF Next, Chunk, Complete, Clean

LEMMA FilesStep == TypeOK /\ Ownership /\ KeysAreOwn /\ Files /\ [Next]_vars => Files'
<1> SUFFICES ASSUME TypeOK, Ownership, KeysAreOwn, Files, [Next]_vars PROVE Files'
    OBVIOUS
<1> USE UploadAssumption DEF At, session, storage, Files, VideoHasItsFile, Owner, Ownership
<1>0. \A r \in Requests :
         /\ request[r].key \in Keys \cup {None}
         /\ request[r].content \in Contents
         /\ request[r].parts \in [Indexes -> Keys \cup {None}]
    BY Fields
<1>00. /\ rows \in [Indexes -> Keys \cup {None}]
      /\ data \in [Keys -> Contents \cup {None}]
    BY DEF TypeOK
<1>1. ASSUME NEW r \in Requests, NEW i \in Indexes, NEW c \in Contents,
            ChunkRead(r, i, c)
     PROVE  Files'
    BY <1>1, <1>0, <1>00, ChunkReadFacts DEF ChunkRead
<1>2. ASSUME NEW r \in Requests, ChunkExpire(r) PROVE Files'
    BY <1>2, <1>0, <1>00, Moves, EndFacts DEF ChunkExpire
<1>3. ASSUME NEW r \in Requests, ChunkSave(r) PROVE Files'
    <2>1. /\ request'[r].pc \notin {"merge", "publish", "check", "record", "undo", "fail"}
          /\ \A s \in Requests : s # r => request'[s] = request[s]
          /\ UNCHANGED <<status, sum, final, video, compared, mishaps>>
        BY <1>3, ChunkSaveFacts DEF ChunkSave
    <2> QED  BY <2>1
<1>4. ASSUME NEW r \in Requests, ChunkVerify(r) PROVE Files'
    BY <1>4, <1>0, <1>00, Moves, EndFacts DEF ChunkVerify
<1>5. ASSUME NEW r \in Requests, ChunkCommit(r) PROVE Files'
    BY <1>5, <1>0, <1>00, Moves, EndFacts DEF ChunkCommit
<1>6. ASSUME NEW r \in Requests, ChunkRollback(r) PROVE Files'
    BY <1>6, <1>0, <1>00, Moves, EndFacts DEF ChunkRollback
<1>7. ASSUME NEW r \in Requests, ChunkDiscard(r) PROVE Files'
    BY <1>7, <1>0, <1>00, Moves, EndFacts DEF ChunkDiscard
<1>8. ASSUME NEW r \in Requests, CompleteRead(r) PROVE Files'
    BY <1>8, <1>0, <1>00, CompleteReadFacts DEF CompleteRead, AllPresent
<1>9. ASSUME NEW r \in Requests, CompleteLapse(r) PROVE Files'
    BY <1>9, <1>0, <1>00, Moves, EndFacts DEF CompleteLapse
<1>10. ASSUME NEW r \in Requests, CompleteClaim(r) PROVE Files'
    BY <1>10, <1>0, <1>00, ClaimFacts
<1>11. ASSUME NEW r \in Requests, CompleteMerge(r) PROVE Files'
    BY <1>11, <1>0, <1>00, CompleteMergeFacts DEF CompleteMerge
<1>12. ASSUME NEW r \in Requests, CompletePublish(r) PROVE Files'
    <2>1. \A j \in Indexes : data[request[r].parts[j]] \in Contents
        BY <1>12, <1>0, <1>00 DEF CompletePublish, KeysAreOwn, Merging, Contents
    <2>2. final' \in [Indexes -> Contents]
        BY <1>12, <2>1 DEF CompletePublish
    <2>3. /\ At(r, "publish") /\ request'[r].pc = "check"
          /\ \A s \in Requests : s # r => request'[s] = request[s]
          /\ UNCHANGED <<status, sum, video, compared, mishaps>>
        BY <1>12, Moves DEF CompletePublish
    <2> QED  BY <2>2, <2>3
<1>13. ASSUME NEW r \in Requests, CompleteCheck(r) PROVE Files'
    <2>1. PICK own \in Contents \cup {None} :
              IsIntact(RequestedChecksum(own)) /\ compared' = RequestedChecksum(own)
        BY <1>13 DEF CompleteCheck
    <2>2. sum => RequestedChecksum(own) # None
        BY DEF RequestedChecksum, Contents
    <2>3. compared' = "good" => \A i \in Indexes : final[i] = "good"
        BY <2>1 DEF IsIntact, Contents
    <2>4. /\ At(r, "check") /\ request'[r].pc = "record"
          /\ \A s \in Requests : s # r => request'[s] = request[s]
          /\ UNCHANGED <<status, sum, final, video, mishaps>>
        BY <1>13, Moves DEF CompleteCheck
    <2> QED  BY <2>1, <2>2, <2>3, <2>4
<1>14. ASSUME NEW r \in Requests, CompleteRecord(r) PROVE Files'
    BY <1>14, <1>0, <1>00, Moves, EndFacts DEF CompleteRecord
<1>15. ASSUME NEW r \in Requests, CompleteThrows(r) PROVE Files'
    BY <1>15, <1>0, <1>00, Moves, EndFacts DEF CompleteThrows
<1>16. ASSUME NEW r \in Requests, CompleteUndo(r) PROVE Files'
    BY <1>16, <1>0, <1>00, Moves, EndFacts DEF CompleteUndo
<1>17. ASSUME NEW r \in Requests, CompleteFail(r) PROVE Files'
    BY <1>17, <1>0, <1>00, Moves, EndFacts DEF CompleteFail
<1>18. ASSUME NEW r \in Requests, CancelRead(r) PROVE Files'
    BY <1>18, <1>0, <1>00, Moves, EndFacts DEF CancelRead, Open
<1>19. ASSUME NEW r \in Requests, Cancel(r) PROVE Files'
    BY <1>19, <1>0, <1>00, Moves, EndFacts DEF Cancel, Open
<1>20. ASSUME NEW r \in Requests, SweepFind(r) PROVE Files'
    BY <1>20, <1>0, <1>00, Moves, EndFacts DEF SweepFind, Open
<1>21. ASSUME NEW r \in Requests, Sweep(r) PROVE Files'
    BY <1>21, <1>0, <1>00, Moves, EndFacts DEF Sweep, Open
<1>22. ASSUME NEW r \in Requests, RemoveDirectory(r) PROVE Files'
    BY <1>22, <1>0, <1>00, Moves, EndFacts DEF RemoveDirectory
<1>23. ASSUME NEW r \in Requests, QueryFails(r) PROVE Files'
    BY <1>23, <1>0, <1>00, Moves, EndFacts DEF QueryFails
<1>24. ASSUME StartUpload PROVE Files'
    BY <1>24, <1>0, <1>00 DEF StartUpload
<1>25. ASSUME Expire PROVE Files'
    BY <1>25, <1>0, <1>00 DEF Expire
<1>26. ASSUME Die PROVE Files'
    BY <1>26, <1>0, <1>00, DieFacts DEF Die
<1>27. ASSUME UNCHANGED vars PROVE Files'
    BY <1>27, <1>0, <1>00 DEF vars
<1> HIDE DEF Files
<1> QED
    BY <1>1, <1>2, <1>3, <1>4, <1>5, <1>6, <1>7, <1>8, <1>9, <1>10, <1>11,
       <1>12, <1>13, <1>14, <1>15, <1>16, <1>17, <1>18, <1>19, <1>20, <1>21,
       <1>22, <1>23, <1>24, <1>25, <1>26, <1>27
    DEF Next, Chunk, Complete, Clean

LEMMA FinalStep == TypeOK /\ Ownership /\ FinalHasOwner /\ [Next]_vars => FinalHasOwner'
<1> SUFFICES ASSUME TypeOK, Ownership, FinalHasOwner, [Next]_vars PROVE FinalHasOwner'
    OBVIOUS
<1> USE UploadAssumption DEF At, session, storage, FinalHasOwner
<1>0. \A r \in Requests :
         /\ request[r].key \in Keys \cup {None}
         /\ request[r].content \in Contents
         /\ request[r].parts \in [Indexes -> Keys \cup {None}]
    BY Fields
<1>00. /\ rows \in [Indexes -> Keys \cup {None}]
      /\ data \in [Keys -> Contents \cup {None}]
    BY DEF TypeOK
<1>1. ASSUME NEW r \in Requests, NEW i \in Indexes, NEW c \in Contents,
            ChunkRead(r, i, c)
     PROVE  FinalHasOwner'
    BY <1>1, <1>0, <1>00, ChunkReadFacts
<1>2. ASSUME NEW r \in Requests, ChunkExpire(r) PROVE FinalHasOwner'
    BY <1>2, <1>0, <1>00, Moves, EndFacts DEF ChunkExpire
<1>3. ASSUME NEW r \in Requests, ChunkSave(r) PROVE FinalHasOwner'
    <2>1. PICK k \in Keys :
             /\ data[k] = None
             /\ data' = [data EXCEPT ![k] = request[r].content]
             /\ disk' = disk \cup {k}
             /\ request'[r].pc = "verify" /\ request'[r].key = k
             /\ \A s \in Requests : s # r => request'[s] = request[s]
        BY <1>3, ChunkSaveFacts
    <2>2. At(r, "save") /\ UNCHANGED <<status, sum, rows, final, video, expired, mishaps>>
        BY <1>3 DEF ChunkSave
    <2> QED  BY <1>0, <1>00, <2>1, <2>2
<1>4. ASSUME NEW r \in Requests, ChunkVerify(r) PROVE FinalHasOwner'
    BY <1>4, <1>0, <1>00, Moves, EndFacts DEF ChunkVerify
<1>5. ASSUME NEW r \in Requests, ChunkCommit(r) PROVE FinalHasOwner'
    BY <1>5, <1>0, <1>00, Moves, EndFacts DEF ChunkCommit
<1>6. ASSUME NEW r \in Requests, ChunkRollback(r) PROVE FinalHasOwner'
    BY <1>6, <1>0, <1>00, Moves, EndFacts DEF ChunkRollback
<1>7. ASSUME NEW r \in Requests, ChunkDiscard(r) PROVE FinalHasOwner'
    BY <1>7, <1>0, <1>00, Moves, EndFacts DEF ChunkDiscard
<1>8. ASSUME NEW r \in Requests, CompleteRead(r) PROVE FinalHasOwner'
    BY <1>8, <1>0, <1>00, CompleteReadFacts DEF CompleteRead, AllPresent
<1>9. ASSUME NEW r \in Requests, CompleteLapse(r) PROVE FinalHasOwner'
    BY <1>9, <1>0, <1>00, Moves, EndFacts DEF CompleteLapse
<1>10. ASSUME NEW r \in Requests, CompleteClaim(r) PROVE FinalHasOwner'
    BY <1>10, <1>0, <1>00, ClaimFacts
<1>11. ASSUME NEW r \in Requests, CompleteMerge(r) PROVE FinalHasOwner'
    <2>1. /\ request'[r].pc \in {"merge", "publish"}
          /\ request'[r].parts = request[r].parts
          /\ \A s \in Requests : s # r => request'[s] = request[s]
        BY <1>11, CompleteMergeFacts
    <2>2. /\ At(r, "merge")
          /\ UNCHANGED <<status, sum, rows, data, disk, final, video, expired, mishaps>>
        BY <1>11 DEF CompleteMerge
    <2> QED  BY <1>0, <1>00, <2>1, <2>2
<1>12. ASSUME NEW r \in Requests, CompletePublish(r) PROVE FinalHasOwner'
    BY <1>12, <1>0, <1>00, Moves, EndFacts DEF CompletePublish
<1>13. ASSUME NEW r \in Requests, CompleteCheck(r) PROVE FinalHasOwner'
    BY <1>13, <1>0, <1>00, Moves, EndFacts DEF CompleteCheck
<1>14. ASSUME NEW r \in Requests, CompleteRecord(r) PROVE FinalHasOwner'
    BY <1>14, <1>0, <1>00, Moves, EndFacts DEF CompleteRecord
<1>15. ASSUME NEW r \in Requests, CompleteThrows(r) PROVE FinalHasOwner'
    BY <1>15, <1>0, <1>00, Moves, EndFacts DEF CompleteThrows
<1>16. ASSUME NEW r \in Requests, CompleteUndo(r) PROVE FinalHasOwner'
    BY <1>16, <1>0, <1>00, Moves, EndFacts DEF CompleteUndo
<1>17. ASSUME NEW r \in Requests, CompleteFail(r) PROVE FinalHasOwner'
    BY <1>17, <1>0, <1>00, Moves, EndFacts DEF CompleteFail
<1>18. ASSUME NEW r \in Requests, CancelRead(r) PROVE FinalHasOwner'
    BY <1>18, <1>0, <1>00, Moves, EndFacts DEF CancelRead, Open
<1>19. ASSUME NEW r \in Requests, Cancel(r) PROVE FinalHasOwner'
    BY <1>19, <1>0, <1>00, Moves, EndFacts DEF Cancel, Open
<1>20. ASSUME NEW r \in Requests, SweepFind(r) PROVE FinalHasOwner'
    BY <1>20, <1>0, <1>00, Moves, EndFacts DEF SweepFind, Open
<1>21. ASSUME NEW r \in Requests, Sweep(r) PROVE FinalHasOwner'
    BY <1>21, <1>0, <1>00, Moves, EndFacts DEF Sweep, Open
<1>22. ASSUME NEW r \in Requests, RemoveDirectory(r) PROVE FinalHasOwner'
    BY <1>22, <1>0, <1>00, Moves, EndFacts DEF RemoveDirectory
<1>23. ASSUME NEW r \in Requests, QueryFails(r) PROVE FinalHasOwner'
    BY <1>23, <1>0, <1>00, Moves, EndFacts DEF QueryFails
<1>24. ASSUME StartUpload PROVE FinalHasOwner'
    BY <1>24, <1>0, <1>00 DEF StartUpload
<1>25. ASSUME Expire PROVE FinalHasOwner'
    BY <1>25, <1>0, <1>00 DEF Expire
<1>26. ASSUME Die PROVE FinalHasOwner'
    BY <1>26, <1>0, <1>00, DieFacts DEF Die
<1>27. ASSUME UNCHANGED vars PROVE FinalHasOwner'
    BY <1>27, <1>0, <1>00 DEF vars
<1> HIDE DEF FinalHasOwner
<1> QED
    BY <1>1, <1>2, <1>3, <1>4, <1>5, <1>6, <1>7, <1>8, <1>9, <1>10, <1>11,
       <1>12, <1>13, <1>14, <1>15, <1>16, <1>17, <1>18, <1>19, <1>20, <1>21,
       <1>22, <1>23, <1>24, <1>25, <1>26, <1>27
    DEF Next, Chunk, Complete, Clean

LEMMA DiskStep == TypeOK /\ DiskHasOwner /\ [Next]_vars => DiskHasOwner'
<1> SUFFICES ASSUME TypeOK, DiskHasOwner, [Next]_vars PROVE DiskHasOwner'
    OBVIOUS
<1> USE UploadAssumption DEF At, session, storage, DiskHasOwner, Holding
<1>0. \A r \in Requests :
         /\ request[r].key \in Keys \cup {None}
         /\ request[r].content \in Contents
         /\ request[r].parts \in [Indexes -> Keys \cup {None}]
    BY Fields
<1>00. /\ rows \in [Indexes -> Keys \cup {None}]
      /\ data \in [Keys -> Contents \cup {None}]
    BY DEF TypeOK
<1>1. ASSUME NEW r \in Requests, NEW i \in Indexes, NEW c \in Contents,
            ChunkRead(r, i, c)
     PROVE  DiskHasOwner'
    BY <1>1, <1>0, <1>00, ChunkReadFacts
<1>2. ASSUME NEW r \in Requests, ChunkExpire(r) PROVE DiskHasOwner'
    BY <1>2, <1>0, <1>00, Moves, EndFacts DEF ChunkExpire
<1>3. ASSUME NEW r \in Requests, ChunkSave(r) PROVE DiskHasOwner'
    <2>1. PICK k \in Keys :
             /\ data[k] = None
             /\ data' = [data EXCEPT ![k] = request[r].content]
             /\ disk' = disk \cup {k}
             /\ request'[r].pc = "verify" /\ request'[r].key = k
             /\ \A s \in Requests : s # r => request'[s] = request[s]
        BY <1>3, ChunkSaveFacts
    <2>2. At(r, "save") /\ UNCHANGED <<status, sum, rows, final, video, expired, mishaps>>
        BY <1>3 DEF ChunkSave
    <2> QED  BY <1>0, <1>00, <2>1, <2>2
<1>4. ASSUME NEW r \in Requests, ChunkVerify(r) PROVE DiskHasOwner'
    BY <1>4, <1>0, <1>00, Moves, EndFacts DEF ChunkVerify
<1>5. ASSUME NEW r \in Requests, ChunkCommit(r) PROVE DiskHasOwner'
    BY <1>5, <1>0, <1>00, Moves, EndFacts DEF ChunkCommit
<1>6. ASSUME NEW r \in Requests, ChunkRollback(r) PROVE DiskHasOwner'
    BY <1>6, <1>0, <1>00, Moves, EndFacts DEF ChunkRollback
<1>7. ASSUME NEW r \in Requests, ChunkDiscard(r) PROVE DiskHasOwner'
    BY <1>7, <1>0, <1>00, Moves, EndFacts DEF ChunkDiscard
<1>8. ASSUME NEW r \in Requests, CompleteRead(r) PROVE DiskHasOwner'
    BY <1>8, <1>0, <1>00, CompleteReadFacts DEF CompleteRead, AllPresent
<1>9. ASSUME NEW r \in Requests, CompleteLapse(r) PROVE DiskHasOwner'
    BY <1>9, <1>0, <1>00, Moves, EndFacts DEF CompleteLapse
<1>10. ASSUME NEW r \in Requests, CompleteClaim(r) PROVE DiskHasOwner'
    BY <1>10, <1>0, <1>00, ClaimFacts
<1>11. ASSUME NEW r \in Requests, CompleteMerge(r) PROVE DiskHasOwner'
    <2>1. /\ request'[r].pc \in {"merge", "publish"}
          /\ request'[r].parts = request[r].parts
          /\ \A s \in Requests : s # r => request'[s] = request[s]
        BY <1>11, CompleteMergeFacts
    <2>2. /\ At(r, "merge")
          /\ UNCHANGED <<status, sum, rows, data, disk, final, video, expired, mishaps>>
        BY <1>11 DEF CompleteMerge
    <2> QED  BY <1>0, <1>00, <2>1, <2>2
<1>12. ASSUME NEW r \in Requests, CompletePublish(r) PROVE DiskHasOwner'
    BY <1>12, <1>0, <1>00, Moves, EndFacts DEF CompletePublish
<1>13. ASSUME NEW r \in Requests, CompleteCheck(r) PROVE DiskHasOwner'
    BY <1>13, <1>0, <1>00, Moves, EndFacts DEF CompleteCheck
<1>14. ASSUME NEW r \in Requests, CompleteRecord(r) PROVE DiskHasOwner'
    BY <1>14, <1>0, <1>00, Moves, EndFacts DEF CompleteRecord
<1>15. ASSUME NEW r \in Requests, CompleteThrows(r) PROVE DiskHasOwner'
    BY <1>15, <1>0, <1>00, Moves, EndFacts DEF CompleteThrows
<1>16. ASSUME NEW r \in Requests, CompleteUndo(r) PROVE DiskHasOwner'
    BY <1>16, <1>0, <1>00, Moves, EndFacts DEF CompleteUndo
<1>17. ASSUME NEW r \in Requests, CompleteFail(r) PROVE DiskHasOwner'
    BY <1>17, <1>0, <1>00, Moves, EndFacts DEF CompleteFail
<1>18. ASSUME NEW r \in Requests, CancelRead(r) PROVE DiskHasOwner'
    BY <1>18, <1>0, <1>00, Moves, EndFacts DEF CancelRead, Open
<1>19. ASSUME NEW r \in Requests, Cancel(r) PROVE DiskHasOwner'
    BY <1>19, <1>0, <1>00, Moves, EndFacts DEF Cancel, Open
<1>20. ASSUME NEW r \in Requests, SweepFind(r) PROVE DiskHasOwner'
    BY <1>20, <1>0, <1>00, Moves, EndFacts DEF SweepFind, Open
<1>21. ASSUME NEW r \in Requests, Sweep(r) PROVE DiskHasOwner'
    BY <1>21, <1>0, <1>00, Moves, EndFacts DEF Sweep, Open
<1>22. ASSUME NEW r \in Requests, RemoveDirectory(r) PROVE DiskHasOwner'
    BY <1>22, <1>0, <1>00, Moves, EndFacts DEF RemoveDirectory
<1>23. ASSUME NEW r \in Requests, QueryFails(r) PROVE DiskHasOwner'
    BY <1>23, <1>0, <1>00, Moves, EndFacts DEF QueryFails
<1>24. ASSUME StartUpload PROVE DiskHasOwner'
    BY <1>24, <1>0, <1>00 DEF StartUpload
<1>25. ASSUME Expire PROVE DiskHasOwner'
    BY <1>25, <1>0, <1>00 DEF Expire
<1>26. ASSUME Die PROVE DiskHasOwner'
    BY <1>26, <1>0, <1>00, DieFacts DEF Die
<1>27. ASSUME UNCHANGED vars PROVE DiskHasOwner'
    BY <1>27, <1>0, <1>00 DEF vars
<1> HIDE DEF DiskHasOwner
<1> QED
    BY <1>1, <1>2, <1>3, <1>4, <1>5, <1>6, <1>7, <1>8, <1>9, <1>10, <1>11,
       <1>12, <1>13, <1>14, <1>15, <1>16, <1>17, <1>18, <1>19, <1>20, <1>21,
       <1>22, <1>23, <1>24, <1>25, <1>26, <1>27
    DEF Next, Chunk, Complete, Clean

-----------------------------------------------------------------------------
(* The theorems.                                                            *)

\* The inductive invariant.
IInv == TypeOK /\ KeysAreOwn /\ Ownership /\ Stored /\ Files /\ FinalHasOwner
        /\ DiskHasOwner

LEMMA InitInv == Init => IInv
<1> SUFFICES ASSUME Init PROVE IInv
    OBVIOUS
<1>1. TypeOK
    BY IdleFacts, UploadAssumption
    DEF Init, TypeOK, NoParts, Statuses, Contents
<1>2. \A r \in Requests : request[r].pc = "idle"
    BY IdleFacts DEF Init
<1> QED
    BY <1>1, <1>2 DEF Init, IInv, KeysAreOwn, Ownership, Stored, Files,
       FinalHasOwner, DiskHasOwner, Holding, Merging, Owner, At, NoParts,
       VideoHasItsFile, AcknowledgedChunksAreStored

\* The conjunction is kept by every step: the types need that keys are written
\* once, the files that one request completes, the parts that keys are not shared.
THEOREM Invariance == Spec => []IInv
<1>1. IInv /\ [Next]_vars => IInv'
    BY TypeStep, KeysStep, OwnershipStep, StoredStep, FilesStep, FinalStep,
       DiskStep DEF IInv
<1> QED
    BY <1>1, InitInv, PTL DEF Spec

\* The rows, the parts, the final file and the requests keep their types.
THEOREM TypeCorrect == Spec => []TypeOK
BY Invariance, PTL DEF IInv

\* completeLocalVideoUpload: a catalogued video has its file, whole and intact.
THEOREM FilesAreKept == Spec => []VideoHasItsFile
BY Invariance, PTL DEF IInv, Files

\* uploadLocalVideoChunk: what the client was told is stored stays stored.
THEOREM AcknowledgementsHold == Spec => []AcknowledgedChunksAreStored
BY Invariance, PTL DEF IInv, Stored

\* The claim of completeLocalVideoUpload admits one owner.
THEOREM OneOwner == Spec => []CompletionIsOwned
<1>1. IInv => CompletionIsOwned
    BY DEF IInv, Ownership, CompletionIsOwned
<1> QED
    BY <1>1, Invariance, PTL

\* The clean-up of completeLocalVideoUpload, cancel and discard is complete.
THEOREM NothingIsLost == Spec => []NothingIsLeftBehind
<1>1. IInv => NothingIsLeftBehind
    BY DEF IInv, FinalHasOwner, DiskHasOwner, NothingIsLeftBehind, At, Holding
<1> QED
    BY <1>1, Invariance, PTL

-----------------------------------------------------------------------------
(* ShareLinkLifecycle.                                                      *)

-----------------------------------------------------------------------------
(* Type correctness.                                                       *)

LEMMA SweepType ==
    ASSUME LifecycleTypeOK, NEW v \in Videos, DisableActiveShareLinksForVideo(v)
    PROVE  linkStatus' \in [Links -> LinkStatus \cup {"NONE"}]
BY DEF LifecycleTypeOK, DisableActiveShareLinksForVideo, LinkStatus

\* Every step keeps every variable within its type.
LEMMA LifecycleTypeStep == LifecycleTypeOK /\ [LifecycleNext]_lifecycleVars => LifecycleTypeOK'
<1> SUFFICES ASSUME LifecycleTypeOK, [LifecycleNext]_lifecycleVars PROVE LifecycleTypeOK'
    OBVIOUS
<1> USE ConstantsAssumption DEF LifecycleTypeOK, LinkStatus, lifecycleRows, requests, history
<1>1. ASSUME NEW a \in Assigns, NEW S \in SUBSET Videos, AssignRead(a, S)
      PROVE  LifecycleTypeOK'
    BY <1>1 DEF AssignRead, AssignState
<1>2. ASSUME NEW a \in Assigns, AssignWrite(a) PROVE LifecycleTypeOK'
    <2>1. assign[a].videos \subseteq Videos
        BY <1>2 DEF AssignWrite, AssignState, IdleAssign
    <2>2. assign' \in [Assigns -> AssignState]
        BY <1>2 DEF AssignWrite, AssignState
    <2> QED  BY <1>2, <2>1, <2>2 DEF AssignWrite
<1>3. ASSUME NEW a \in Assigns, AssignFail(a) PROVE LifecycleTypeOK'
    BY <1>3 DEF AssignFail, AssignState
<1>4. ASSUME NEW A \in SUBSET Videos, NEW R \in SUBSET Videos, UpdateVideoAssignments(A, R)
      PROVE  LifecycleTypeOK'
    BY <1>4 DEF UpdateVideoAssignments
<1>5. ASSUME NEW l \in Links, NEW S \in SUBSET Videos, CreateShareLink(l, S)
      PROVE  LifecycleTypeOK'
    BY <1>5 DEF CreateShareLink
<1>6. ASSUME NEW l \in Links, RevokeShareLink(l) PROVE LifecycleTypeOK'
    BY <1>6 DEF RevokeShareLink
<1>7. ASSUME NEW p \in Patches, NEW v \in Videos, NEW to \in Targets,
             PatchRead(p, v, to)
      PROVE  LifecycleTypeOK'
    <2>1. videoStatus[v] \in VideoStatus
        BY <1>7 DEF PatchRead, Exists
    <2>2. patch' \in [Patches -> PatchState]
        BY <1>7, <2>1 DEF PatchRead, PatchState
    <2> QED  BY <1>7, <2>2 DEF PatchRead
<1>8. ASSUME NEW p \in Patches, PatchOpen(p) PROVE LifecycleTypeOK'
    <2>1. patch[p].video \in Videos
        BY <1>8 DEF PatchOpen, PatchState, IdlePatch
    <2>2. RevivableWith(patch[p].video) \in SUBSET Links
        BY DEF RevivableWith, LinksWith
    <2>3. patch' \in [Patches -> PatchState]
        BY <1>8, <2>1, <2>2 DEF PatchOpen, PatchState
    <2> QED  BY <1>8, <2>3 DEF PatchOpen
<1>9. ASSUME NEW p \in Patches, PatchRestore(p) PROVE LifecycleTypeOK'
    <2>1. videoStatus' \in [Videos -> VideoStatus \cup {Gone}]
        BY <1>9 DEF PatchRestore, VideoStatus
    <2>2. patch' \in [Patches -> PatchState]
        BY <1>9 DEF PatchRestore, PatchState
    <2>3. stranded' \subseteq Links
        BY <1>9 DEF PatchRestore, LeftOut, LinksWith
    <2> QED  BY <1>9, <2>1, <2>2, <2>3 DEF PatchRestore
<1>10. ASSUME NEW p \in Patches, PatchUpdate(p) PROVE LifecycleTypeOK'
    <2>1. patch[p].video \in Videos /\ patch[p].to \in VideoStatus
        BY <1>10 DEF PatchUpdate, PatchState, IdlePatch
    <2>2. linkStatus' \in [Links -> LinkStatus \cup {"NONE"}]
        BY <1>10, <2>1, SweepType DEF PatchUpdate
    <2>3. raced' \subseteq Links /\ stranded' \subseteq Links
        BY <1>10, <2>1 DEF PatchUpdate, RecordRace, RecordSweep, RecordLeaving, LeftOut,
                           LeftDark, LinksWith
    <2>4. videoStatus' \in [Videos -> VideoStatus \cup {Gone}]
        BY <1>10, <2>1 DEF PatchUpdate
    <2>5. patch' \in [Patches -> PatchState]
        BY <1>10 DEF PatchUpdate, PatchState
    <2>6. unswept' \subseteq BlobVideos
        BY <1>10 DEF PatchUpdate
    <2> QED  BY <1>10, <2>2, <2>3, <2>4, <2>5, <2>6 DEF PatchUpdate
<1>11. ASSUME NEW p \in Patches, PatchAbort(p) PROVE LifecycleTypeOK'
    BY <1>11 DEF PatchAbort, PatchState
<1>12. ASSUME NEW v \in Videos, DisableVideo(v) PROVE LifecycleTypeOK'
    <2>1. linkStatus' \in [Links -> LinkStatus \cup {"NONE"}]
        BY <1>12, SweepType DEF DisableVideo
    <2>2. raced' \subseteq Links /\ stranded' \subseteq Links
        BY <1>12 DEF DisableVideo, RecordRace, RecordSweep, LinksWith
    <2>3. videoStatus' \in [Videos -> VideoStatus \cup {Gone}]
        BY <1>12 DEF DisableVideo, VideoStatus
    <2> QED  BY <1>12, <2>1, <2>2, <2>3 DEF DisableVideo
<1>13. ASSUME NEW v \in Videos, PurgeVideo(v) PROVE LifecycleTypeOK'
    <2>1. linkStatus' \in [Links -> LinkStatus \cup {"NONE"}]
        BY <1>13, SweepType DEF PurgeVideo
    <2>2. videoStatus' \in [Videos -> VideoStatus \cup {Gone}]
        BY <1>13 DEF PurgeVideo
    <2>3. stranded' \subseteq Links
        BY <1>13 DEF PurgeVideo, RecordLeaving, LeftOut, LeftDark, LinksWith
    <2> QED  BY <1>13, <2>1, <2>2, <2>3 DEF PurgeVideo
<1>14. ASSUME NEW r \in Replaces, NEW v \in BlobVideos, NEW next \in VideoStatus,
              ReplaceRead(r, v, next)
       PROVE  LifecycleTypeOK'
    <2>1. replace' \in [Replaces -> ReplaceState]
        BY <1>14 DEF ReplaceRead, ReplaceState
    <2> QED  BY <1>14, <2>1 DEF ReplaceRead
<1>15. ASSUME NEW r \in Replaces, ReplaceWrite(r) PROVE LifecycleTypeOK'
    <2>1. replace[r].video \in BlobVideos /\ replace[r].next \in VideoStatus
        BY <1>15 DEF ReplaceWrite, ReplaceState, IdleReplace
    <2>2. videoStatus' \in [Videos -> VideoStatus \cup {Gone}]
        BY <1>15, <2>1 DEF ReplaceWrite
    <2>3. raced' \subseteq Links /\ stranded' \subseteq Links
        BY <1>15 DEF ReplaceWrite, RecordRace, RecordLeaving, LeftOut, LeftDark, LinksWith
    <2>4. unswept' \subseteq BlobVideos
        BY <1>15, <2>1 DEF ReplaceWrite
    <2>5. replace' \in [Replaces -> ReplaceState]
        BY <1>15 DEF ReplaceWrite, ReplaceState
    <2> QED  BY <1>15, <2>2, <2>3, <2>4, <2>5 DEF ReplaceWrite
<1>16. ASSUME NEW r \in Replaces, ReplaceFail(r) PROVE LifecycleTypeOK'
    BY <1>16 DEF ReplaceFail, ReplaceState
<1>17. ASSUME NEW s \in Syncs, NEW v \in BunnyVideos, SyncRead(s, v) PROVE LifecycleTypeOK'
    <2>1. videoStatus[v] \in VideoStatus
        BY <1>17 DEF SyncRead, Exists
    <2>2. sync' \in [Syncs -> SyncState]
        BY <1>17, <2>1 DEF SyncRead, SyncState
    <2> QED  BY <1>17, <2>2 DEF SyncRead
<1>18. ASSUME NEW s \in Syncs, NEW answer \in Answers, SyncWrite(s, answer)
       PROVE  LifecycleTypeOK'
    <2>1. sync[s].video \in BunnyVideos /\ sync[s].seen \in VideoStatus
        BY <1>18 DEF SyncWrite, SyncState, IdleSync
    <2>2. NextStatus(sync[s].seen, answer) \in VideoStatus
        BY <2>1 DEF NextStatus, ResolveBunnyLocalStatus, Answers,
                    ResolveBunnyRemoteMissingStatus, VideoStatus
    <2>3. videoStatus' \in [Videos -> VideoStatus \cup {Gone}]
        BY <1>18, <2>1, <2>2 DEF SyncWrite
    <2>4. remoteMissing' \subseteq BunnyVideos
        BY <1>18, <2>1 DEF SyncWrite
    <2>5. sync' \in [Syncs -> SyncState]
        BY <1>18 DEF SyncWrite, SyncState
    <2>6. stranded' \subseteq Links
        BY <1>18 DEF SyncWrite, RecordLeaving, LeftOut, LeftDark, LinksWith
    <2> QED  BY <1>18, <2>3, <2>4, <2>5, <2>6 DEF SyncWrite
<1>19. ASSUME NEW s \in Syncs, SyncFail(s) PROVE LifecycleTypeOK'
    BY <1>19 DEF SyncFail, SyncState
<1>20. ASSUME NEW batch \in SUBSET Links, ReconcileRead(batch) PROVE LifecycleTypeOK'
    BY <1>20 DEF ReconcileRead
<1>21. ASSUME NEW l \in Links, ReconcileApply(l) PROVE LifecycleTypeOK'
    BY <1>21 DEF ReconcileApply
<1>22. ASSUME ReconcileStop PROVE LifecycleTypeOK'
    BY <1>22 DEF ReconcileStop
<1>23. ASSUME UNCHANGED lifecycleVars PROVE LifecycleTypeOK'
    BY <1>23 DEF lifecycleVars
<1> QED
    BY <1>1, <1>2, <1>3, <1>4, <1>5, <1>6, <1>7, <1>8, <1>9, <1>10, <1>11, <1>12,
       <1>13, <1>14, <1>15, <1>16, <1>17, <1>18, <1>19, <1>20, <1>21, <1>22, <1>23
    DEF LifecycleNext, Restore, Synchronise

LEMMA InitType == LifecycleInit => LifecycleTypeOK
<1> SUFFICES ASSUME LifecycleInit PROVE LifecycleTypeOK
    OBVIOUS
<1>1. videoStatus \in [Videos -> VideoStatus \cup {Gone}]
    BY ConstantsAssumption DEF LifecycleInit, VideoStatus
<1>2. /\ patch \in [Patches -> PatchState] /\ sync \in [Syncs -> SyncState]
      /\ assign \in [Assigns -> AssignState] /\ replace \in [Replaces -> ReplaceState]
    BY DEF LifecycleInit, PatchState, SyncState, AssignState, ReplaceState
<1> QED  BY <1>1, <1>2 DEF LifecycleInit, LifecycleTypeOK, LinkStatus

\* Type correctness of the rows and of the requests in flight.
THEOREM LifecycleTypeCorrect == LifecycleSpec => []LifecycleTypeOK
<1>1. LifecycleInit => LifecycleTypeOK
    BY InitType
<1>2. LifecycleTypeOK /\ [LifecycleNext]_lifecycleVars => LifecycleTypeOK'
    BY LifecycleTypeStep
<1> QED  BY <1>1, <1>2, PTL DEF LifecycleSpec

-----------------------------------------------------------------------------
(* The safety of revival.                                                  *)

Safety ==
    /\ DarkUnlessRaced
    /\ EmptiedLinkIsDark
    /\ PendingRevivalsAreSound

LEMMA InitSafety == LifecycleInit => Safety
BY DEF LifecycleInit, Safety, DarkUnlessRaced, EmptiedLinkIsDark, PendingRevivalsAreSound,
       IdlePatch

LEMMA SafetyStep == LifecycleTypeOK /\ Safety /\ [LifecycleNext]_lifecycleVars => Safety'
<1> SUFFICES ASSUME LifecycleTypeOK, Safety, [LifecycleNext]_lifecycleVars PROVE Safety'
    OBVIOUS
<1> USE DEF Safety, DarkUnlessRaced, EmptiedLinkIsDark, PendingRevivalsAreSound, Exists,
            LinksWith, Gone
<1> USE ConstantsAssumption DEF LifecycleTypeOK, lifecycleRows, requests, history
<1>1. ASSUME NEW a \in Assigns, NEW S \in SUBSET Videos, AssignRead(a, S) PROVE Safety'
    BY <1>1 DEF AssignRead
<1>2. ASSUME NEW a \in Assigns, AssignWrite(a) \/ AssignFail(a) PROVE Safety'
    BY <1>2 DEF AssignWrite, AssignFail
<1>3. ASSUME NEW A \in SUBSET Videos, NEW R \in SUBSET Videos, UpdateVideoAssignments(A, R)
      PROVE  Safety'
    BY <1>3 DEF UpdateVideoAssignments
<1>4. ASSUME NEW l \in Links, NEW S \in SUBSET Videos, CreateShareLink(l, S)
      PROVE  Safety'
    BY <1>4 DEF CreateShareLink
<1>5. ASSUME NEW l \in Links, RevokeShareLink(l) PROVE Safety'
    BY <1>5 DEF RevokeShareLink
<1>6. ASSUME NEW p \in Patches, NEW v \in Videos, NEW to \in Targets,
             PatchRead(p, v, to)
      PROVE  Safety'
    BY <1>6 DEF PatchRead
<1>7. ASSUME NEW p \in Patches, PatchOpen(p) PROVE Safety'
    BY <1>7 DEF PatchOpen, RevivableWith, PatchState, IdlePatch
<1>8. ASSUME NEW p \in Patches, PatchRestore(p) PROVE Safety'
    BY <1>8 DEF PatchRestore, PatchState, IdlePatch
<1>9. ASSUME NEW p \in Patches, PatchUpdate(p) PROVE Safety'
    <2> DEFINE v == patch[p].video
    <2>1. v \in Videos /\ patch[p].to \in VideoStatus /\ videoStatus[v] # "PURGED"
        BY <1>9 DEF PatchUpdate, PatchState, IdlePatch
    <2>2. \A q \in Patches : patch'[q].pc = "tx" => patch'[q] = patch[q]
        BY <1>9 DEF PatchUpdate, IdlePatch
    <2>3. /\ videoStatus' = [videoStatus EXCEPT ![v] = patch[p].to]
          /\ unswept' = unswept \ {v}
          /\ UNCHANGED <<remoteMissing, assigned, members, scan>>
        BY <1>9 DEF PatchUpdate
    <2>4. CASE patch[p].to = "DISABLED"
        <3>1. DisableActiveShareLinksForVideo(v) /\ RecordRace(v)
            BY <1>9, <2>4 DEF PatchUpdate
        <3>2. (DarkUnlessRaced /\ EmptiedLinkIsDark)'
            BY <2>1, <2>3, <2>4, <3>1 DEF DisableActiveShareLinksForVideo, RecordRace
        <3>3. PendingRevivalsAreSound'
            BY <2>1, <2>2, <2>3, <2>4, <3>1, <1>9
            DEF DisableActiveShareLinksForVideo, RecordRace, ChosenToRevive,
                PatchState, IdlePatch
        <3> QED  BY <3>2, <3>3
    <2>5. CASE patch[p].to # "DISABLED"
        <3>1. UNCHANGED <<linkStatus, raced>>
            BY <1>9, <2>5 DEF PatchUpdate
        <3> QED
            BY <2>1, <2>2, <2>3, <2>5, <3>1 DEF PatchState, IdlePatch, VideoStatus
    <2> QED  BY <2>4, <2>5
<1>10. ASSUME NEW p \in Patches, PatchAbort(p) PROVE Safety'
    BY <1>10 DEF PatchAbort, IdlePatch
<1>11. ASSUME NEW v \in Videos, DisableVideo(v) PROVE Safety'
    BY <1>11 DEF DisableVideo, DisableActiveShareLinksForVideo, RecordRace,
                 ChosenToRevive, PatchState, IdlePatch
<1>12. ASSUME NEW v \in Videos, PurgeVideo(v) PROVE Safety'
    BY <1>12 DEF PurgeVideo, DisableActiveShareLinksForVideo, PatchState, IdlePatch
<1>13. ASSUME NEW r \in Replaces, NEW v \in BlobVideos, NEW next \in VideoStatus,
              ReplaceRead(r, v, next)
       PROVE  Safety'
    BY <1>13 DEF ReplaceRead
<1>14. ASSUME NEW r \in Replaces, ReplaceWrite(r) PROVE Safety'
    <2> DEFINE v == replace[r].video
               next == replace[r].next
    <2>1. v \in BlobVideos /\ next \in VideoStatus /\ videoStatus[v] # "PURGED"
        BY <1>14 DEF ReplaceWrite, ReplaceState, IdleReplace
    <2>2. /\ videoStatus' = [videoStatus EXCEPT ![v] = next]
          /\ UNCHANGED <<linkStatus, members, patch, scan>>
        BY <1>14 DEF ReplaceWrite
    <2>3. CASE next = "DISABLED" /\ videoStatus[v] # "DISABLED"
        <3>1. RecordRace(v) /\ unswept' = unswept \cup {v}
            BY <1>14, <2>3 DEF ReplaceWrite
        <3>2. (DarkUnlessRaced /\ EmptiedLinkIsDark)'
            BY <2>1, <2>2, <2>3, <3>1 DEF RecordRace
        <3>3. PendingRevivalsAreSound'
            BY <2>1, <2>2, <2>3, <3>1 DEF RecordRace, ChosenToRevive, PatchState, IdlePatch
        <3> QED  BY <3>2, <3>3
    <2>4. CASE ~(next = "DISABLED" /\ videoStatus[v] # "DISABLED")
        <3>1. /\ unswept' = IF next = "DISABLED" THEN unswept ELSE unswept \ {v}
              /\ UNCHANGED raced
            BY <1>14, <2>4 DEF ReplaceWrite
        <3> QED  BY <2>1, <2>2, <2>4, <3>1 DEF PatchState, IdlePatch, VideoStatus
    <2> QED  BY <2>3, <2>4
<1>15. ASSUME NEW r \in Replaces, ReplaceFail(r) PROVE Safety'
    BY <1>15 DEF ReplaceFail
<1>16. ASSUME NEW s \in Syncs, NEW v \in BunnyVideos, SyncRead(s, v) PROVE Safety'
    BY <1>16 DEF SyncRead
<1>17. ASSUME NEW s \in Syncs, NEW answer \in Answers, SyncWrite(s, answer)
       PROVE  Safety'
    BY <1>17 DEF SyncWrite, SyncState, IdleSync, NextStatus, Answers,
                 ResolveBunnyLocalStatus, ResolveBunnyRemoteMissingStatus
<1>18. ASSUME NEW s \in Syncs, SyncFail(s) PROVE Safety'
    BY <1>18 DEF SyncFail
<1>19. ASSUME NEW batch \in SUBSET Links, ReconcileRead(batch) PROVE Safety'
    BY <1>19 DEF ReconcileRead, Restorable
<1>20. ASSUME NEW l \in Links, ReconcileApply(l) PROVE Safety'
    BY <1>20 DEF ReconcileApply
<1>21. ASSUME ReconcileStop PROVE Safety'
    BY <1>21 DEF ReconcileStop
<1>22. ASSUME UNCHANGED lifecycleVars PROVE Safety'
    BY <1>22 DEF lifecycleVars
<1> QED
    BY <1>1, <1>2, <1>3, <1>4, <1>5, <1>6, <1>7, <1>8, <1>9, <1>10, <1>11, <1>12,
       <1>13, <1>14, <1>15, <1>16, <1>17, <1>18, <1>19, <1>20, <1>21, <1>22
    DEF LifecycleNext, Restore, Synchronise

LEMMA SafetyHolds == LifecycleSpec => [](LifecycleTypeOK /\ Safety)
<1>1. LifecycleInit => LifecycleTypeOK /\ Safety
    BY InitType, InitSafety
<1>2. LifecycleTypeOK /\ Safety /\ [LifecycleNext]_lifecycleVars => (LifecycleTypeOK /\ Safety)'
    BY LifecycleTypeStep, SafetyStep
<1> QED  BY <1>1, <1>2, PTL DEF LifecycleSpec

\* A publicly resolvable link carries no disabled video, for any interleaving of the
\* requests, unless a disable overtook a pending revival or the video was disabled by a
\* replacement of its file.
THEOREM DarknessIsKept == LifecycleSpec => []DarkUnlessRaced
<1>1. Safety => DarkUnlessRaced
    BY DEF Safety
<1> QED  BY <1>1, SafetyHolds, PTL

\* A link that lost all its videos to purges is dark, unless a disable overtook a
\* pending revival.
THEOREM EmptiedStaysDark == LifecycleSpec => []EmptiedLinkIsDark
<1>1. Safety => EmptiedLinkIsDark
    BY DEF Safety
<1> QED  BY <1>1, SafetyHolds, PTL

-----------------------------------------------------------------------------
(* The completeness of revival.                                            *)

Reasons == DarkForAReason /\ PendingRestoresAreComplete

LEMMA InitReasons == LifecycleInit => Reasons
BY DEF LifecycleInit, Reasons, DarkForAReason, PendingRestoresAreComplete, IdlePatch

\* A status is written and no link is touched.
LEMMA StatusWriteKeepsReasons ==
    ASSUME LifecycleTypeOK, Reasons, NEW v \in Videos, NEW to \in VideoStatus,
           videoStatus' = [videoStatus EXCEPT ![v] = to],
           UNCHANGED <<linkStatus, members>>,
           \A q \in Patches : patch'[q].pc = "tx" => patch'[q] = patch[q],
           stranded \subseteq stranded',
           videoStatus[v] = "DISABLED" /\ to # "DISABLED" =>
               LeftOut(v) \cup LeftDark(v) \subseteq stranded'
    PROVE  Reasons'
<1> USE DEF LifecycleTypeOK, LinksWith
<1>1. DarkForAReason'
    BY DEF Reasons, DarkForAReason, LeftDark
<1>2. PendingRestoresAreComplete'
    BY DEF Reasons, PendingRestoresAreComplete, LeftOut, RestoringAny
<1> QED  BY <1>1, <1>2 DEF Reasons

\* A video is disabled and its links are swept.
LEMMA SweepKeepsReasons ==
    ASSUME LifecycleTypeOK, Reasons, NEW v \in Videos,
           videoStatus' = [videoStatus EXCEPT ![v] = "DISABLED"],
           UNCHANGED members,
           \A q \in Patches : patch'[q].pc = "tx" => patch'[q] = patch[q],
           DisableActiveShareLinksForVideo(v), RecordSweep(v)
    PROVE  Reasons'
<1> USE DEF LifecycleTypeOK, LinksWith, DisableActiveShareLinksForVideo, RecordSweep
<1>1. DarkForAReason'
    BY DEF Reasons, DarkForAReason
<1>2. PendingRestoresAreComplete'
    BY DEF Reasons, PendingRestoresAreComplete, RestoringAny
<1> QED  BY <1>1, <1>2 DEF Reasons

LEMMA ReasonsStep == LifecycleTypeOK /\ Reasons /\ [LifecycleNext]_lifecycleVars => Reasons'
<1> SUFFICES ASSUME LifecycleTypeOK, Reasons, [LifecycleNext]_lifecycleVars PROVE Reasons'
    OBVIOUS
<1> USE ConstantsAssumption DEF lifecycleRows, requests, history
<1>1. ASSUME UNCHANGED <<videoStatus, linkStatus, members, stranded>>,
             \A q \in Patches : patch'[q].pc = "tx" => patch'[q] = patch[q]
      PROVE  Reasons'
    BY <1>1 DEF Reasons, DarkForAReason, PendingRestoresAreComplete, LinksWith
<1>2. ASSUME NEW l \in Links, NEW S \in SUBSET Videos, CreateShareLink(l, S) PROVE Reasons'
    BY <1>2 DEF CreateShareLink, Reasons, DarkForAReason, PendingRestoresAreComplete,
                LinksWith, LifecycleTypeOK
<1>3. ASSUME NEW l \in Links, RevokeShareLink(l) PROVE Reasons'
    BY <1>3 DEF RevokeShareLink, Reasons, DarkForAReason, PendingRestoresAreComplete,
                LinksWith, LifecycleTypeOK
<1>4. ASSUME NEW p \in Patches, NEW v \in Videos, NEW to \in Targets, PatchRead(p, v, to)
      PROVE  Reasons'
    BY <1>4, <1>1 DEF PatchRead, LifecycleTypeOK
<1>5. ASSUME NEW p \in Patches, PatchOpen(p) PROVE Reasons'
    <2>1. DarkForAReason'
        BY <1>5 DEF PatchOpen, Reasons, DarkForAReason
    <2>2. PendingRestoresAreComplete'
        BY <1>5 DEF PatchOpen, RevivableWith, Reasons, PendingRestoresAreComplete, LinksWith,
                    LifecycleTypeOK, PatchState, IdlePatch
    <2> QED  BY <2>1, <2>2 DEF Reasons
<1>6. ASSUME NEW p \in Patches, PatchRestore(p) PROVE Reasons'
    <2> DEFINE v == patch[p].video
    <2>1. v \in Videos /\ patch[p].picks \subseteq Links
        BY <1>6 DEF PatchRestore, LifecycleTypeOK, PatchState, IdlePatch
    <2>2. \A q \in Patches : patch'[q].pc = "tx" => patch'[q] = patch[q] /\ q # p
        BY <1>6 DEF PatchRestore, LifecycleTypeOK, IdlePatch
    <2>3. /\ patch[p].pc = "tx"
          /\ videoStatus' = [videoStatus EXCEPT ![v] = "READY"]
          /\ linkStatus' = [l \in Links |->
                               IF l \in patch[p].picks THEN "ACTIVE" ELSE linkStatus[l]]
          /\ stranded' = (stranded \ patch[p].picks) \cup
                             IF videoStatus[v] = "DISABLED" THEN LeftOut(v) ELSE {}
          /\ UNCHANGED members
        BY <1>6 DEF PatchRestore
    <2>4. DarkForAReason'
        BY <2>1, <2>3 DEF Reasons, DarkForAReason, PendingRestoresAreComplete, LinksWith,
                          LifecycleTypeOK
    <2>5. PendingRestoresAreComplete'
        BY <2>1, <2>2, <2>3 DEF Reasons, PendingRestoresAreComplete, LeftOut, RestoringAny,
                                LinksWith, LifecycleTypeOK
    <2> QED  BY <2>4, <2>5 DEF Reasons
<1>7. ASSUME NEW p \in Patches, PatchUpdate(p) PROVE Reasons'
    <2> DEFINE v == patch[p].video
    <2>1. v \in Videos /\ patch[p].to \in VideoStatus
        BY <1>7 DEF PatchUpdate, LifecycleTypeOK, PatchState, IdlePatch
    <2>2. \A q \in Patches : patch'[q].pc = "tx" => patch'[q] = patch[q]
        BY <1>7 DEF PatchUpdate, LifecycleTypeOK, IdlePatch
    <2>3. videoStatus' = [videoStatus EXCEPT ![v] = patch[p].to] /\ UNCHANGED members
        BY <1>7 DEF PatchUpdate
    <2>4. CASE patch[p].to = "DISABLED"
        <3>1. DisableActiveShareLinksForVideo(v) /\ RecordSweep(v)
            BY <1>7, <2>4 DEF PatchUpdate
        <3> QED  BY <2>1, <2>2, <2>3, <2>4, <3>1, SweepKeepsReasons
    <2>5. CASE patch[p].to # "DISABLED"
        <3>1. UNCHANGED linkStatus /\ RecordLeaving(v, videoStatus[v] = "DISABLED")
            BY <1>7, <2>5 DEF PatchUpdate
        <3>2. /\ stranded \subseteq stranded'
              /\ videoStatus[v] = "DISABLED" => LeftOut(v) \cup LeftDark(v) \subseteq stranded'
            BY <3>1 DEF RecordLeaving
        <3> QED  BY <2>1, <2>2, <2>3, <3>1, <3>2, StatusWriteKeepsReasons
    <2> QED  BY <2>4, <2>5
<1>8. ASSUME NEW p \in Patches, PatchAbort(p) PROVE Reasons'
    BY <1>8, <1>1 DEF PatchAbort, LifecycleTypeOK, IdlePatch
<1>9. ASSUME NEW v \in Videos, DisableVideo(v) PROVE Reasons'
    <2>1. \A q \in Patches : patch'[q].pc = "tx" => patch'[q] = patch[q]
        BY <1>9 DEF DisableVideo
    <2> QED  BY <1>9, <2>1, SweepKeepsReasons DEF DisableVideo
<1>10. ASSUME NEW v \in Videos, PurgeVideo(v) PROVE Reasons'
    <2>1. /\ videoStatus' = [videoStatus EXCEPT ![v] = Gone]
          /\ members' = [l \in Links |-> members[l] \ {v}]
          /\ DisableActiveShareLinksForVideo(v)
          /\ stranded' = stranded \cup LeftOut(v) \cup LeftDark(v)
          /\ UNCHANGED patch
        BY <1>10 DEF PurgeVideo, RecordLeaving
    <2>2. DarkForAReason'
        BY <2>1 DEF Reasons, DarkForAReason, LeftDark, DisableActiveShareLinksForVideo,
                    LinksWith, LifecycleTypeOK
    <2>3. PendingRestoresAreComplete'
        BY <2>1 DEF Reasons, PendingRestoresAreComplete, LeftOut, RestoringAny,
                    DisableActiveShareLinksForVideo, LinksWith, LifecycleTypeOK
    <2> QED  BY <2>2, <2>3 DEF Reasons
<1>11. ASSUME NEW r \in Replaces, ReplaceWrite(r) PROVE Reasons'
    <2> DEFINE v == replace[r].video
               next == replace[r].next
    <2>1. v \in Videos /\ next \in VideoStatus
        BY <1>11 DEF ReplaceWrite, LifecycleTypeOK, ReplaceState, IdleReplace
    <2>2. /\ videoStatus' = [videoStatus EXCEPT ![v] = next]
          /\ UNCHANGED <<linkStatus, members, patch>>
        BY <1>11 DEF ReplaceWrite
    <2>3. /\ stranded \subseteq stranded'
          /\ videoStatus[v] = "DISABLED" /\ next # "DISABLED" =>
                 LeftOut(v) \cup LeftDark(v) \subseteq stranded'
        BY <1>11 DEF ReplaceWrite, RecordLeaving
    <2> HIDE DEF v, next
    <2> QED  BY <2>1, <2>2, <2>3, StatusWriteKeepsReasons
<1>12. ASSUME NEW s \in Syncs, NEW answer \in Answers, SyncWrite(s, answer) PROVE Reasons'
    <2> DEFINE v == sync[s].video
               next == NextStatus(sync[s].seen, answer)
               written == IF next = sync[s].seen THEN videoStatus[v] ELSE next
    <2>1. v \in Videos /\ sync[s].seen \in VideoStatus
        BY <1>12 DEF SyncWrite, LifecycleTypeOK, SyncState, IdleSync
    <2>2. next \in VideoStatus /\ (sync[s].seen = "DISABLED" => next = "DISABLED")
        BY <2>1 DEF NextStatus, ResolveBunnyLocalStatus, Answers,
                    ResolveBunnyRemoteMissingStatus, VideoStatus
    <2> HIDE DEF next
    <2>3. /\ Exists(v)
          /\ videoStatus' = IF next = sync[s].seen THEN videoStatus
                            ELSE [videoStatus EXCEPT ![v] = next]
          /\ RecordLeaving(v, /\ sync[s].seen # "DISABLED"
                              /\ next # sync[s].seen
                              /\ videoStatus[v] = "DISABLED")
          /\ UNCHANGED <<linkStatus, members, patch>>
        BY <1>12 DEF SyncWrite, next
    <2>4. written \in VideoStatus /\ videoStatus' = [videoStatus EXCEPT ![v] = written]
        BY <2>1, <2>2, <2>3 DEF Exists, LifecycleTypeOK
    <2>5. /\ stranded \subseteq stranded'
          /\ videoStatus[v] = "DISABLED" /\ written # "DISABLED" =>
                 LeftOut(v) \cup LeftDark(v) \subseteq stranded'
        BY <2>2, <2>3 DEF RecordLeaving
    <2> HIDE DEF v, written
    <2> QED  BY <2>1, <2>3, <2>4, <2>5, StatusWriteKeepsReasons
<1>13. ASSUME NEW l \in Links, ReconcileApply(l) PROVE Reasons'
    BY <1>13 DEF ReconcileApply, Reasons, DarkForAReason, PendingRestoresAreComplete,
                 LinksWith, LifecycleTypeOK
<1> QED
    BY <1>1, <1>2, <1>3, <1>4, <1>5, <1>6, <1>7, <1>8, <1>9, <1>10, <1>11, <1>12, <1>13
    DEF LifecycleNext, Restore, Synchronise, AssignRead, AssignWrite, AssignFail,
        UpdateVideoAssignments, ReplaceRead, ReplaceFail, SyncRead, SyncFail, ReconcileRead,
        ReconcileStop, lifecycleVars

\* A dark link that still has videos has a disabled one, or is stranded for a known
\* reason, for any number of restores, disables, purges and other requests at once.
THEOREM DarknessHasAReason == LifecycleSpec => []DarkForAReason
<1>1. LifecycleInit => LifecycleTypeOK /\ Reasons
    BY InitType, InitReasons
<1>2. LifecycleTypeOK /\ Reasons /\ [LifecycleNext]_lifecycleVars =>
          (LifecycleTypeOK /\ Reasons)'
    BY LifecycleTypeStep, ReasonsStep
<1>3. LifecycleTypeOK /\ Reasons => DarkForAReason
    BY DEF Reasons
<1> QED  BY <1>1, <1>2, <1>3, PTL DEF LifecycleSpec

-----------------------------------------------------------------------------
(* Revocation.                                                             *)

RevokedStays ==
    \A l \in Links : linkStatus[l] = "REVOKED" => linkStatus'[l] = "REVOKED"

LEMMA SweepKeepsRevoked ==
    ASSUME NEW v \in Videos, DisableActiveShareLinksForVideo(v)
    PROVE  RevokedStays
BY DEF DisableActiveShareLinksForVideo, RevokedStays

\* Only two steps write ACTIVE: a restore, which fails on a row changed since its
\* snapshot, and the script, whose write asks for a row that is still DISABLED.
LEMMA RevokedStep ==
    FirstUpdaterWins /\ LifecycleTypeOK /\ [LifecycleNext]_lifecycleVars => RevokedStays
<1> SUFFICES ASSUME FirstUpdaterWins, LifecycleTypeOK, [LifecycleNext]_lifecycleVars PROVE RevokedStays
    OBVIOUS
<1> USE DEF LifecycleTypeOK, lifecycleRows, requests, history, RevokedStays
<1>1. ASSUME NEW p \in Patches, PatchRestore(p) PROVE RevokedStays
    BY <1>1 DEF PatchRestore, WritesAreCurrent
<1>2. ASSUME NEW p \in Patches, PatchUpdate(p) PROVE RevokedStays
    <2>1. patch[p].video \in Videos
        BY <1>2 DEF PatchUpdate, PatchState, IdlePatch
    <2> QED  BY <1>2, <2>1, SweepKeepsRevoked DEF PatchUpdate
<1>3. ASSUME NEW v \in Videos, DisableVideo(v) \/ PurgeVideo(v) PROVE RevokedStays
    BY <1>3, SweepKeepsRevoked DEF DisableVideo, PurgeVideo
<1>4. ASSUME NEW l \in Links, ReconcileApply(l) PROVE RevokedStays
    BY <1>4 DEF ReconcileApply
<1>5. ASSUME NEW l \in Links, NEW S \in SUBSET Videos, CreateShareLink(l, S)
      PROVE  RevokedStays
    BY <1>5 DEF CreateShareLink
<1>6. ASSUME NEW l \in Links, RevokeShareLink(l) PROVE RevokedStays
    BY <1>6 DEF RevokeShareLink
<1>7. ASSUME UNCHANGED linkStatus PROVE RevokedStays
    BY <1>7
<1> QED
    BY <1>1, <1>2, <1>3, <1>4, <1>5, <1>6, <1>7
    DEF LifecycleNext, Restore, Synchronise, AssignRead, AssignWrite, AssignFail,
        UpdateVideoAssignments, PatchRead, PatchOpen, PatchAbort, ReplaceRead, ReplaceWrite,
        ReplaceFail, SyncRead, SyncWrite, SyncFail, ReconcileRead, ReconcileStop, lifecycleVars

\* On an engine where the first updater wins, no request revives a revoked link.
THEOREM RevocationHolds ==
    ASSUME FirstUpdaterWins
    PROVE  LifecycleSpec => RevocationIsFinal
<1>1. LifecycleTypeOK /\ [LifecycleNext]_lifecycleVars => [RevokedStays]_lifecycleVars
    BY RevokedStep
<1>2. LifecycleSpec => []LifecycleTypeOK
    BY LifecycleTypeCorrect
<1>3. LifecycleSpec => [][RevokedStays]_lifecycleVars
    BY <1>1, <1>2, PTL DEF LifecycleSpec
<1> QED  BY <1>3 DEF RevocationIsFinal, RevokedStays

-----------------------------------------------------------------------------
(* What may be uploaded, and how it is cut.                                 *)

Plans == [totalBytes : Int, totalChunks : Int, chunkSizeBytes : Int,
          type : STRING, extension : STRING]
Limits == [upload : Nat, chunk : Nat, reserve : Nat]

\* All but the last chunk of an accepted plan are of the planned size, and something is
\* left for the last one, which is no larger.
LEMMA ExpectedSizes ==
    ASSUME NEW limits \in Limits, NEW plan \in Plans, PlanAccepted(limits, plan),
           NEW index \in 0 .. plan.totalChunks - 1
    PROVE  /\ ExpectedSize(plan, index) \in 1 .. plan.chunkSizeBytes
           /\ plan.chunkSizeBytes * index + ExpectedSize(plan, index) =
                  IF index = plan.totalChunks - 1 THEN plan.totalBytes
                  ELSE plan.chunkSizeBytes * (index + 1)
<1> DEFINE size == plan.chunkSizeBytes
           chunks == plan.totalChunks
           bytes == plan.totalBytes
<1>1. /\ size \in Nat \ {0} /\ chunks \in Nat \ {0} /\ bytes \in Nat \ {0}
      /\ (chunks - 1) * size < bytes /\ bytes <= chunks * size
      /\ index \in Nat
    BY LimitsAssumption DEF Plans, PlanAccepted, Requested, PlanFits, Ceiling, MostBytes, MostChunks
<1> HIDE DEF size, chunks, bytes
<1>2. ExpectedSize(plan, index) = IF index = chunks - 1 THEN bytes - size * index ELSE size
    BY DEF ExpectedSize, size, chunks, bytes
<1>3. (chunks - 1) * size = chunks * size - size /\ size * (index + 1) = size * index + size
    BY <1>1
<1>4. size * index \in Nat /\ chunks * size \in Nat
    BY <1>1
<1>5. CASE index = chunks - 1
  <2>1. size * index = (chunks - 1) * size
    BY <1>1, <1>5
  <2>2. bytes - size * index \in 1 .. size
    BY <1>1, <1>3, <1>4, <2>1
  <2> QED
    BY <1>1, <1>2, <1>4, <1>5, <2>2 DEF size, chunks, bytes
<1>6. CASE index # chunks - 1
    BY <1>1, <1>2, <1>3, <1>4, <1>6 DEF size, chunks, bytes
<1> QED
    BY <1>5, <1>6

\* Every chunk of an accepted plan is accepted at the size the session expects of it, so
\* that the upload can be completed.
THEOREM PlansCanBeSent ==
    ASSUME NEW limits \in Limits, NEW plan \in Plans
    PROVE  ChunksCanBeSent(limits, plan)
<1> SUFFICES ASSUME limits.chunk <= Transport["chunk"], PlanAccepted(limits, plan),
                    NEW index \in 0 .. plan.totalChunks - 1
             PROVE  ChunkAccepted(limits, plan, index, ExpectedSize(plan, index))
    BY DEF ChunksCanBeSent
<1> DEFINE expected == ExpectedSize(plan, index)
<1>1. expected \in 1 .. plan.chunkSizeBytes
    BY ExpectedSizes
<1>2. /\ plan.chunkSizeBytes \in Nat /\ plan.totalChunks \in Nat
      /\ plan.chunkSizeBytes <= limits.chunk * Megabyte
    BY LimitsAssumption DEF Plans, Limits, PlanAccepted, Requested, PlanFits, MostBytes, MostChunks
<1>3. limits.chunk * Megabyte <= 100 * Megabyte /\ limits.chunk * Megabyte \in Nat
  <2>1. limits.chunk \in 0 .. 100 /\ Megabyte \in Nat
    BY LimitsAssumption DEF Limits, Transport
  <2> QED
    BY <2>1
<1>4. expected > 0 /\ expected <= limits.chunk * Megabyte /\ expected <= Transport["chunk"] * Megabyte
    BY <1>1, <1>2, <1>3, LimitsAssumption DEF Transport
<1> QED
    BY <1>2, <1>4 DEF ChunkAccepted, ChunkFits

\* The chunks that are accepted make up the file, without a gap or an overlap.
THEOREM ChunksMakeUpTheFile ==
    ASSUME NEW limits \in Limits, NEW plan \in Plans, NEW size \in Int
    PROVE  ChunksCover(limits, plan, size)
BY ExpectedSizes DEF ChunksCover, ChunkAccepted

-----------------------------------------------------------------------------
(* The duration probe.                                                      *)

\* Induction, as the absence of a smallest counterexample.
LEMMA SmallestNumber ==
    ASSUME NEW T, T \subseteq Nat, T # {}
    PROVE  \E n \in T : \A m \in T : n <= m
<1>1. PICK n \in T : \A m \in T : <<m, n>> \notin OpToRel(<, Nat)
    BY NatLessThanWellFounded, WFMin
<1>2. \A m \in T : ~(m < n)
    BY <1>1 DEF OpToRel
<1> QED
    BY <1>2

\* The parts that are read lie in the file and are no longer than a chunk, and no byte of
\* a file of up to two chunks is missed.
THEOREM ProbedPartsFit ==
    ASSUME NEW size \in Nat, NEW found \in BOOLEAN
    PROVE  PartsFit(size, found)
<1>1. size \in Nat /\ ProbeChunk \in Nat \ {0}
    BY ProbeAssumption
<1> DEFINE head == Part(0, Lower(size, ProbeChunk))
           tail == Part(size - ProbeChunk, ProbeChunk)
<1>2. Parts(size, found) = {head} \cup (IF ~found /\ size > ProbeChunk THEN {tail} ELSE {})
    BY DEF Parts
<1>3. /\ head.start = 0 /\ head.length = IF size < ProbeChunk THEN size ELSE ProbeChunk
      /\ tail.start = size - ProbeChunk /\ tail.length = ProbeChunk
    BY DEF Part, Lower
<1> HIDE DEF head, tail
<1>4. ASSUME NEW part \in Parts(size, found)
      PROVE  /\ 0 <= part.start /\ part.start + part.length <= size
             /\ part.length <= ProbeChunk
    BY <1>1, <1>2, <1>3, <1>4
<1>5. ASSUME ~found, size <= 2 * ProbeChunk, NEW byte \in 0 .. size - 1
      PROVE  \E part \in Parts(size, found) :
                 byte \in part.start .. part.start + part.length - 1
  <2>1. CASE byte < ProbeChunk
    <3>1. byte \in head.start .. head.start + head.length - 1
      BY <1>1, <1>3, <2>1
    <3> QED
      BY <1>2, <3>1
  <2>2. CASE byte >= ProbeChunk
    <3>1. byte \in tail.start .. tail.start + tail.length - 1 /\ size > ProbeChunk
      BY <1>1, <1>3, <1>5, <2>2
    <3> QED
      BY <1>2, <1>5, <3>1
  <2> QED
    BY <1>1, <2>1, <2>2
<1> QED
    BY <1>4, <1>5 DEF PartsFit

\* What is read at one offset of a buffer.
Read == [size : Nat, large : Nat, type : STRING, version : Nat, duration : Nat, timescale : Nat]
IsBuffer(buffer) ==
    /\ buffer.length \in Nat
    /\ \A offset \in 0 .. buffer.length - 1 : buffer.at[offset] \in Read

\* Every box the search takes a step over ends where what holds it does, or before.
LEMMA BoxesFit ==
    ASSUME NEW buffer, IsBuffer(buffer), NEW offset \in Nat, NEW end \in 0 .. buffer.length,
           readBoxHeader(buffer, offset, end) # Nothing
    PROVE  LET box == readBoxHeader(buffer, offset, end)
           IN  /\ box.size \in Nat /\ box.header \in {8, 16}
               /\ box.header <= box.size /\ offset + box.size <= end
<1> DEFINE at == buffer.at[offset]
           Box(size, header) == [size |-> size, type |-> at.type, header |-> header]
           box == readBoxHeader(buffer, offset, end)
<1>1. offset + 8 <= end
    BY DEF readBoxHeader, HeaderBytes
<1>2. at.size \in Nat /\ MaxLarge \in Nat
    BY <1>1, ProbeAssumption DEF IsBuffer, Read
<1>3. \/ box = Box(end - offset, 8)
      \/ box = Box(at.large, 16) /\ at.large \in 16 .. MaxLarge /\ offset + at.large <= end
      \/ box = Box(at.size, 8) /\ at.size >= 8 /\ offset + at.size <= end
    BY DEF readBoxHeader, HeaderBytes, LargeHeaderBytes
<1> HIDE DEF at, box
<1>4. /\ box.size \in Nat /\ box.header \in {8, 16}
      /\ box.header <= box.size /\ offset + box.size <= end
    BY <1>1, <1>2, <1>3
<1> QED
    BY <1>4 DEF box

\* The search, on what is left of a buffer at some depth.
Spans(buffer) == (0 .. buffer.length) \X (0 .. buffer.length) \X (0 .. Deepest + 1)
SearchStep(buffer, find, s) ==
    LET offset == s[1]  end == s[2]  depth == s[3]
        box == readBoxHeader(buffer, offset, end)
        nested == IF box.type = "container"
                  THEN find[<<offset + box.header, offset + box.size, depth + 1>>]
                  ELSE Nothing
    IN  IF depth > Deepest \/ offset + HeaderBytes > end THEN Nothing
        ELSE IF box = Nothing THEN Nothing
        ELSE IF box.type = "mvhd" THEN parseMvhdDuration(buffer, offset, box.size)
        ELSE IF nested # Nothing THEN nested
        ELSE find[<<offset + box.size, end, depth>>]
Searches(buffer, find) == find = [s \in Spans(buffer) |-> SearchStep(buffer, find, s)]
SearchesUpTo(buffer, find, n) ==
    \A s \in Spans(buffer) : s[2] - s[1] <= n => find[s] = SearchStep(buffer, find, s)

LEMMA SearchIsOfSteps ==
    ASSUME NEW buffer
    PROVE  findMp4DurationFromBoxes(buffer) =
               (CHOOSE find : Searches(buffer, find))[<<0, buffer.length, 0>>]
BY DEF findMp4DurationFromBoxes, Searches, Spans, SearchStep

\* The spans a step looks at next: what the box holds, and what follows it.
Inner(s, box) == <<s[1] + box.header, s[1] + box.size, s[3] + 1>>
Rest(s, box) == <<s[1] + box.size, s[2], s[3]>>

LEMMA StepsShorten ==
    ASSUME NEW buffer, IsBuffer(buffer), NEW s \in Spans(buffer), s[3] <= Deepest,
           readBoxHeader(buffer, s[1], s[2]) # Nothing
    PROVE  LET box == readBoxHeader(buffer, s[1], s[2])
           IN  \A t \in {Inner(s, box), Rest(s, box)} :
                  t \in Spans(buffer) /\ t[2] - t[1] < s[2] - s[1]
<1> DEFINE box == readBoxHeader(buffer, s[1], s[2])
<1>1. /\ s[1] \in Nat /\ s[2] \in 0 .. buffer.length /\ s[3] \in 0 .. Deepest + 1
      /\ buffer.length \in Nat
    BY DEF Spans, IsBuffer
<1>2. /\ box.size \in Nat /\ box.header \in {8, 16}
      /\ box.header <= box.size /\ s[1] + box.size <= s[2]
    BY <1>1, BoxesFit
<1> HIDE DEF box
<1>3. Inner(s, box) \in Spans(buffer) /\ Rest(s, box) \in Spans(buffer)
    BY <1>1, <1>2 DEF Spans, Deepest, Inner, Rest
<1>4. /\ Inner(s, box)[2] - Inner(s, box)[1] < s[2] - s[1]
      /\ Rest(s, box)[2] - Rest(s, box)[1] < s[2] - s[1]
    BY <1>1, <1>2 DEF Inner, Rest
<1> QED
    BY <1>3, <1>4 DEF box

\* A step depends on the shorter spans only.
LEMMA StepsDepend ==
    ASSUME NEW buffer, IsBuffer(buffer), NEW s \in Spans(buffer), NEW f, NEW g,
           \A t \in Spans(buffer) : t[2] - t[1] < s[2] - s[1] => f[t] = g[t]
    PROVE  SearchStep(buffer, f, s) = SearchStep(buffer, g, s)
<1> DEFINE box == readBoxHeader(buffer, s[1], s[2])
<1>1. CASE s[3] > Deepest \/ s[1] + HeaderBytes > s[2] \/ box = Nothing
    BY <1>1 DEF SearchStep
<1>2. CASE ~(s[3] > Deepest \/ s[1] + HeaderBytes > s[2] \/ box = Nothing)
  <2>1. s[3] <= Deepest
    BY <1>2 DEF Spans, Deepest
  <2>2. f[Inner(s, box)] = g[Inner(s, box)] /\ f[Rest(s, box)] = g[Rest(s, box)]
    BY <1>2, <2>1, StepsShorten
  <2> QED
    BY <1>2, <2>2 DEF SearchStep, Inner, Rest
<1> QED
    BY <1>1, <1>2

\* The search ends, on every buffer: its recursion has a solution.
LEMMA SearchEnds ==
    ASSUME NEW buffer, IsBuffer(buffer)
    PROVE  \E find : Searches(buffer, find)
<1> DEFINE Missing == {n \in Nat : ~\E find : SearchesUpTo(buffer, find, n)}
           next(find) == [s \in Spans(buffer) |-> SearchStep(buffer, find, s)]
<1>1. \A s \in Spans(buffer) : /\ s[1] \in Nat /\ s[2] \in Nat /\ buffer.length \in Nat
                               /\ s[2] - s[1] <= buffer.length
    BY DEF Spans, IsBuffer
<1>2. ASSUME NEW find, NEW n \in Nat, SearchesUpTo(buffer, find, n)
      PROVE  SearchesUpTo(buffer, next(find), n + 1)
  <2> SUFFICES ASSUME NEW s \in Spans(buffer), s[2] - s[1] <= n + 1
               PROVE  next(find)[s] = SearchStep(buffer, next(find), s)
    BY DEF SearchesUpTo
  <2>1. next(find)[s] = SearchStep(buffer, find, s)
    OBVIOUS
  <2>2. \A t \in Spans(buffer) : t[2] - t[1] < s[2] - s[1] => find[t] = next(find)[t]
    BY <1>1, <1>2 DEF SearchesUpTo
  <2> HIDE DEF next
  <2>3. SearchStep(buffer, find, s) = SearchStep(buffer, next(find), s)
    BY <2>2, StepsDepend
  <2> QED
    BY <2>1, <2>3
<1>3. SearchesUpTo(buffer, [s \in Spans(buffer) |-> Nothing], 0)
  <2> SUFFICES ASSUME NEW s \in Spans(buffer), s[2] - s[1] <= 0
               PROVE  SearchStep(buffer, [t \in Spans(buffer) |-> Nothing], s) = Nothing
    BY DEF SearchesUpTo
  <2>1. s[1] + HeaderBytes > s[2]
    BY <1>1 DEF HeaderBytes
  <2> QED
    BY <2>1 DEF SearchStep
<1>4. Missing = {}
  <2> SUFFICES ASSUME Missing # {} PROVE FALSE
    OBVIOUS
  <2>1. PICK n \in Missing : \A m \in Missing : n <= m
    BY SmallestNumber
  <2>2. CASE n = 0
    BY <1>3, <2>2
  <2>3. CASE n # 0
    <3>1. n - 1 \in Nat /\ n - 1 \notin Missing /\ (n - 1) + 1 = n
      BY <2>1, <2>3
    <3>2. PICK find : SearchesUpTo(buffer, find, n - 1)
      BY <3>1
    <3>3. SearchesUpTo(buffer, next(find), (n - 1) + 1)
      BY <1>2, <3>1, <3>2
    <3> HIDE DEF next
    <3> QED
      BY <3>1, <3>3
  <2> QED
    BY <2>2, <2>3
<1>5. PICK find : SearchesUpTo(buffer, find, buffer.length)
    BY <1>4 DEF IsBuffer
<1>6. \A s \in Spans(buffer) : find[s] = SearchStep(buffer, find, s)
    BY <1>1, <1>5 DEF SearchesUpTo
<1>7. \A s \in Spans(buffer) : SearchStep(buffer, next(find), s) = SearchStep(buffer, find, s)
  <2>1. \A t \in Spans(buffer) : next(find)[t] = find[t]
    BY <1>6
  <2> HIDE DEF next
  <2> QED
    BY <2>1, StepsDepend
<1>8. Searches(buffer, next(find))
    BY <1>7 DEF Searches
<1> QED
    BY <1>8

Durations == {Nothing} \cup 1 .. MaxSeconds

LEMMA SearchFindsDurations ==
    ASSUME NEW buffer, IsBuffer(buffer), NEW find, Searches(buffer, find)
    PROVE  \A s \in Spans(buffer) : find[s] \in Durations
<1> DEFINE Bad(s) == s \in Spans(buffer) /\ find[s] \notin Durations
           BadLengths == {n \in Nat : \E s \in Spans(buffer) : Bad(s) /\ s[2] - s[1] = n}
<1>1. \A s \in Spans(buffer) : /\ find[s] = SearchStep(buffer, find, s)
                               /\ s[1] \in Nat /\ s[2] \in Nat
                               /\ s[3] \in 0 .. Deepest + 1
    BY DEF Searches, Spans, IsBuffer
<1>2. Nothing \in Durations /\ \A offset, size : parseMvhdDuration(buffer, offset, size) \in Durations
    BY DEF parseMvhdDuration, Seconds, Durations
<1>3. ASSUME NEW s \in Spans(buffer), Bad(s)
      PROVE  /\ s[2] - s[1] \in Nat
             /\ \E t \in Spans(buffer) : Bad(t) /\ t[2] - t[1] < s[2] - s[1]
  <2> DEFINE box == readBoxHeader(buffer, s[1], s[2])
  <2>1. /\ ~(s[3] > Deepest) /\ ~(s[1] + HeaderBytes > s[2]) /\ box # Nothing
        /\ find[s] \in {find[Inner(s, box)], find[Rest(s, box)]}
    BY <1>1, <1>2, <1>3 DEF SearchStep, Inner, Rest
  <2>2. s[3] <= Deepest /\ s[2] - s[1] \in Nat
    BY <1>1, <2>1 DEF Deepest, HeaderBytes
  <2>3. \A t \in {Inner(s, box), Rest(s, box)} :
           t \in Spans(buffer) /\ t[2] - t[1] < s[2] - s[1]
    BY <2>1, <2>2, StepsShorten
  <2> QED
    BY <1>3, <2>1, <2>2, <2>3
<1>4. BadLengths = {}
  <2> SUFFICES ASSUME BadLengths # {} PROVE FALSE
    OBVIOUS
  <2>1. PICK n \in BadLengths : \A m \in BadLengths : n <= m
    BY SmallestNumber
  <2>2. PICK s \in Spans(buffer) : Bad(s) /\ s[2] - s[1] = n
    OBVIOUS
  <2>3. PICK t \in Spans(buffer) : Bad(t) /\ t[2] - t[1] < n
    BY <1>3, <2>2
  <2>4. t[2] - t[1] \in Nat
    BY <1>3, <2>3
  <2> QED
    BY <2>1, <2>3, <2>4
<1> QED
    BY <1>3, <1>4

\* A movie header that the buffer holds whole is found, wherever its boxes lead, and what
\* is found is a duration the database can store.
THEOREM HeadersAreFound ==
    ASSUME NEW buffer, IsBuffer(buffer)
    PROVE  HeaderIsFound(buffer)
<1>1. findMp4DurationFromBoxes(buffer) \in Durations
  <2>1. PICK find : /\ Searches(buffer, find)
                    /\ findMp4DurationFromBoxes(buffer) = find[<<0, buffer.length, 0>>]
    BY SearchIsOfSteps, SearchEnds
  <2>2. <<0, buffer.length, 0>> \in Spans(buffer)
    BY DEF Spans, IsBuffer, Deepest
  <2> QED
    BY <2>1, <2>2, SearchFindsDurations
<1>2. findMp4DurationBySignature(buffer) \in Durations
      /\ (Signatures(buffer) # {} => findMp4DurationBySignature(buffer) # Nothing)
  <2>1. \A offset, size : parseMvhdDuration(buffer, offset, size) \in Durations
    BY DEF parseMvhdDuration, Seconds, Durations
  <2>2. CASE Signatures(buffer) = {}
    BY <2>2 DEF findMp4DurationBySignature, Durations
  <2>3. CASE Signatures(buffer) # {}
    <3> DEFINE first == CHOOSE s \in Signatures(buffer) : \A t \in Signatures(buffer) : s <= t
    <3>1. Signatures(buffer) \subseteq Nat
      BY DEF Signatures, IsBuffer
    <3>2. \E s \in Signatures(buffer) : \A t \in Signatures(buffer) : s <= t
      BY <2>3, <3>1, SmallestNumber
    <3>3. first \in Signatures(buffer)
      BY <3>2
    <3>4. findMp4DurationBySignature(buffer) =
             parseMvhdDuration(buffer, first, buffer.at[first].size)
      BY <2>3 DEF findMp4DurationBySignature
    <3> HIDE DEF first
    <3>5. parseMvhdDuration(buffer, first, buffer.at[first].size) # Nothing
      BY <3>3 DEF Signatures
    <3> QED
      BY <2>1, <3>4, <3>5
  <2> QED
    BY <2>2, <2>3
<1> QED
    BY <1>1, <1>2 DEF HeaderIsFound, parseMp4Metadata, Durations
=============================================================================
