---------------------------- MODULE VideoStorage -----------------------------
(***************************************************************************)
(* Video rows and the things outside the database that they name: the      *)
(* Bunny video, the Cloudinary video, the local file, and the poster (a    *)
(* Cloudinary image, or a local file).  Requests store something, write a  *)
(* row, and delete something, in steps between which other requests run,   *)
(* an answer is lost or the process stops.                                 *)
(*                                                                         *)
(* A row names what purgeVideo would recognise as its own.  Links to what  *)
(* others own are not modelled, and neither is the blob inside the         *)
(* database, which lives and dies with its row.                            *)
(***************************************************************************)
EXTENDS FiniteSets

CONSTANTS
    Videos,    \* VideoAsset rows
    Assets,    \* things stored outside the database; a name is used once
    Requests,  \* administrators' requests that may be in flight
    None

\* bunny, cloud (Cloudinary upload) and file name an asset; plain is every other source.
Sources == {"bunny", "cloud", "file", "plain"}

Row == [source : Sources, disabled : BOOLEAN,
        asset : Assets \cup {None}, thumb : Assets \cup {None},
        restored : BOOLEAN]  \* history: it was disabled and is not any more

\* History: why something is stored though no row names it ...
Strays == {"unanswered", "uncompensated", "unconfirmed", "overtaken", "disowned", "kept", "crash"}
\* ... or is gone though a row names it.
Losses == {"purged", "undone", "vanished"}

ASSUME StorageAssumption ==
    None \notin Videos \cup Assets \cup Row \cup Strays \cup Losses

Steps == {"idle", "thumb", "insert", "replace", "swap", "remote", "commit", "sweep"}

RequestState ==
    [pc : Steps, source : Sources, video : Videos \cup {None},
     asset : Assets \cup {None},   \* stored for a new row, or to be purged remotely
     thumb : Assets \cup {None},   \* stored for the row
     old : Assets \cup {None},     \* the thumb that the row named when it was read
     asked : BOOLEAN,              \* deleteRemoteAsset
     doomed : SUBSET Assets]       \* still to be deleted, best effort

Idle == [pc |-> "idle", source |-> "plain", video |-> None, asset |-> None, thumb |-> None,
         old |-> None, asked |-> FALSE, doomed |-> {}]

VARIABLES row, stored, fate, request

vars == <<row, stored, fate, request>>

TypeOK ==
    /\ row \in [Videos -> Row \cup {None}]
    /\ stored \in SUBSET Assets
    /\ fate \in [Assets -> Strays \cup Losses \cup {None}]
    /\ request \in [Requests -> RequestState]

Init ==
    /\ row = [v \in Videos |-> None]
    /\ stored = {}
    /\ fate = [a \in Assets |-> None]
    /\ request = [r \in Requests |-> Idle]

-----------------------------------------------------------------------------

At(r, step) == request[r].pc = step
Exists(v) == row[v] # None
\* What classifyBunnyVideoAsset, or the row's file, recognises ...
OwnAsset(v) == IF Exists(v) THEN {row[v].asset} \ {None} ELSE {}
\* ... and readOwnedCloudinaryThumbnailMetadata, or the row's poster file.
OwnThumb(v) == IF Exists(v) THEN {row[v].thumb} \ {None} ELSE {}
Names(v) == OwnAsset(v) \cup OwnThumb(v)
Named == UNION {Names(v) : v \in Videos}

\* What a request has stored for a row, or is about to delete.
Holds(me) == (me.doomed \cup {me.thumb}
              \cup (IF me.pc \in {"thumb", "insert"} THEN {me.asset} ELSE {})) \ {None}
Held == UNION {Holds(request[r]) : r \in Requests}

Mentions(me) == me.doomed \cup {me.asset, me.thumb, me.old}
Fresh(a) == a \notin stored \cup Named \cup UNION {Mentions(request[r]) : r \in Requests}
NewVideo(v) == ~Exists(v) /\ \A r \in Requests : request[r].video # v

Becomes(r, me) == request' = [request EXCEPT ![r] = me]

\* What is in S and stored is written off.
WriteOff(S, why) == [a \in Assets |-> IF a \in S \cap stored THEN why ELSE fate[a]]

\* After its row was written a request only deletes.
Sweeping(S) == IF S \ {None} = {} THEN Idle
               ELSE [Idle EXCEPT !.pc = "sweep", !.doomed = S \ {None}]

-----------------------------------------------------------------------------
(* createVideo, createEmbedVideo, uploadVideo, uploadDatabaseVideo and       *)
(* initBunnyVideoUpload.                                                     *)

\* A source that stores nothing outside.
BeginPlain(r) ==
    /\ At(r, "idle")
    /\ Becomes(r, [Idle EXCEPT !.pc = "thumb"])
    /\ UNCHANGED <<row, stored, fate>>

\* Something new is stored, under a name of its own.
Store(a) ==
    /\ Fresh(a)
    /\ stored' = stored \cup {a}

\* uploadVideo: the video goes to Cloudinary first.
UploadVideo(r, a) ==
    /\ At(r, "idle")
    /\ Store(a)
    /\ Becomes(r, [Idle EXCEPT !.pc = "thumb", !.source = "cloud", !.asset = a])
    /\ UNCHANGED <<row, fate>>

\* initBunnyVideoUpload: the video is created at Bunny, and there is no poster.
CreateAtBunny(r, a) ==
    /\ At(r, "idle")
    /\ Store(a)
    /\ Becomes(r, [Idle EXCEPT !.pc = "insert", !.source = "bunny", !.asset = a])
    /\ UNCHANGED <<row, fate>>

\* The provider stored it, but the answer did not arrive, or could not be read.
StoreUnanswered(r, a) ==
    /\ request[r].pc \in {"idle", "thumb", "replace"}
    /\ Store(a)
    /\ fate' = [WriteOff(Holds(request[r]), "uncompensated") EXCEPT ![a] = "unanswered"]
    /\ Becomes(r, Idle)
    /\ UNCHANGED row

\* A poster is uploaded to Cloudinary, or, for a local video, moved into its storage.
StoreThumb(r, a) ==
    /\ request[r].pc \in {"thumb", "replace"}
    /\ request[r].source # "file"
    /\ Store(a)
    /\ Becomes(r, [request[r] EXCEPT !.pc = IF At(r, "thumb") THEN "insert" ELSE "swap",
                                     !.thumb = a])
    /\ UNCHANGED <<row, fate>>

StoreLocalThumb(r, a) ==
    /\ At(r, "replace")
    /\ request[r].source = "file"
    /\ Store(a)
    /\ Becomes(r, [request[r] EXCEPT !.pc = "swap", !.thumb = a])
    /\ UNCHANGED <<row, fate>>

\* No poster, or a link.
NoThumb(r) ==
    /\ At(r, "thumb")
    /\ Becomes(r, [request[r] EXCEPT !.pc = "insert"])
    /\ UNCHANGED <<row, stored, fate>>

NewRow(me) == [source |-> me.source, disabled |-> FALSE, asset |-> me.asset, thumb |-> me.thumb,
               restored |-> FALSE]

Insert(r, v) ==
    /\ At(r, "insert")
    /\ NewVideo(v)
    /\ row' = [row EXCEPT ![v] = NewRow(request[r])]
    /\ Becomes(r, Idle)
    /\ UNCHANGED <<stored, fate>>

\* Mutant: what was created at Bunny is left there.
InsertFailsAndForgets(r) ==
    /\ request[r].pc \in {"thumb", "insert"}
    /\ Becomes(r, Idle)
    /\ fate' = IF request[r].source = "bunny" THEN fate
               ELSE WriteOff(Holds(request[r]), "uncompensated")
    /\ UNCHANGED <<row, stored>>

\* Only what was created at Bunny is deleted when the insert fails ...
InsertFails(r) ==
    LET me == request[r]
    IN  /\ me.pc \in {"thumb", "insert"}
        /\ \/ /\ me.source = "bunny"
              /\ Becomes(r, Sweeping({me.asset}))
              /\ UNCHANGED fate
           \/ /\ me.source # "bunny"
              /\ Becomes(r, Idle)
              /\ fate' = WriteOff(Holds(me), "uncompensated")
        /\ UNCHANGED <<row, stored>>

\* ... or seems to: the row is there, but the database's answer was lost.
InsertUnanswered(r, v) ==
    /\ At(r, "insert")
    /\ request[r].source = "bunny"
    /\ NewVideo(v)
    /\ row' = [row EXCEPT ![v] = NewRow(request[r])]
    /\ fate' = [fate EXCEPT ![request[r].asset] = "undone"]
    /\ Becomes(r, Sweeping({request[r].asset}))
    /\ UNCHANGED stored

\* completeLocalVideoUpload as a whole (LocalUpload).
CompleteUpload(v, a, b) ==
    /\ NewVideo(v)
    /\ Fresh(a)
    /\ b # None => Fresh(b) /\ b # a
    /\ stored' = stored \cup ({a, b} \ {None})
    /\ row' = [row EXCEPT ![v] = [source |-> "file", disabled |-> FALSE, asset |-> a,
                                  thumb |-> b, restored |-> FALSE]]
    /\ UNCHANGED <<fate, request>>

-----------------------------------------------------------------------------
(* updateLocalVideoThumbnail, replaceDatabaseVideoBinary, updateVideo.       *)

\* The row is read; a new poster is to be stored, or (PATCH) none.
ReplaceLook(r, v) ==
    /\ At(r, "idle")
    /\ Exists(v)
    /\ \E pc \in {"replace", "swap"} :
          /\ pc = "replace" => row[v].source \in {"file", "plain"}
          /\ pc = "swap" => row[v].source # "file" /\ row[v].thumb # None
          /\ Becomes(r, [Idle EXCEPT !.pc = pc, !.source = row[v].source, !.video = v,
                                     !.old = row[v].thumb])
    /\ UNCHANGED <<row, stored, fate>>

\* The row takes the new poster.  What it named until now is deleted next, if it is what
\* was read; another request's poster is nobody's any more.
Swapped(me) ==
    /\ Exists(me.video)
    /\ row' = [row EXCEPT ![me.video].thumb = me.thumb]
    /\ LET previous == row[me.video].thumb
       IN  fate' = [a \in Assets |->
                      IF a # previous THEN fate[a]
                      ELSE IF a \notin stored THEN None
                      ELSE IF a = me.old THEN fate[a] ELSE "overtaken"]
    /\ UNCHANGED stored

Swap(r) ==
    /\ At(r, "swap")
    /\ Swapped(request[r])
    /\ Becomes(r, Sweeping({request[r].old}))

\* Mutant: the wrong one of the two posters is deleted.
SwapFailsDropsOld(r) ==
    /\ request[r].pc \in {"replace", "swap"}
    /\ request[r].source = "file"
    /\ Becomes(r, Sweeping({request[r].old}))
    /\ fate' = WriteOff({request[r].thumb}, "uncompensated")
    /\ UNCHANGED <<row, stored>>

\* A local poster is deleted when the update failed, another one is not.
SwapFails(r) ==
    LET me == request[r]
    IN  /\ me.pc \in {"replace", "swap"}
        /\ \/ /\ me.source = "file"
              /\ Becomes(r, Sweeping({me.thumb}))
              /\ UNCHANGED fate
           \/ /\ me.source # "file"
              /\ Becomes(r, Idle)
              /\ fate' = WriteOff({me.thumb}, "uncompensated")
        /\ UNCHANGED <<row, stored>>

\* The update was committed but its answer was lost: the old poster stays where it is, and
\* a new one in the local storage is deleted.
SwapUnanswered(r) ==
    LET me == request[r]
    IN  /\ At(r, "swap")
        /\ Exists(me.video)
        /\ row' = [row EXCEPT ![me.video].thumb = me.thumb]
        /\ fate' = [a \in Assets |->
                      IF a = row[me.video].thumb
                      THEN IF a \in stored THEN "uncompensated" ELSE None
                      ELSE IF a = me.thumb /\ me.source = "file" THEN "undone" ELSE fate[a]]
        /\ Becomes(r, IF me.source = "file" THEN Sweeping({me.thumb}) ELSE Idle)
        /\ UNCHANGED stored

\* A PATCH of provider, providerAssetId or metadataJson: the row no longer names its own.
Disown(v, S) ==
    /\ Exists(v)
    /\ row[v].source # "file"
    /\ S \subseteq Names(v)
    /\ S # {}
    /\ row' = [row EXCEPT ![v].asset = IF row[v].asset \in S THEN None ELSE row[v].asset,
                          ![v].source = IF row[v].asset \in S THEN "plain" ELSE row[v].source,
                          ![v].thumb = IF row[v].thumb \in S THEN None ELSE row[v].thumb]
    /\ fate' = [a \in Assets |-> IF a \notin S THEN fate[a]
                                 ELSE IF a \in stored THEN "disowned" ELSE None]
    /\ UNCHANGED <<stored, request>>

\* disableVideo, or a PATCH of the status.
SetStatus(v) ==
    /\ Exists(v)
    /\ row' = [row EXCEPT ![v].disabled = ~row[v].disabled, ![v].restored = row[v].disabled]
    /\ UNCHANGED <<stored, fate, request>>

-----------------------------------------------------------------------------
(* purgeVideo.                                                              *)

\* Mutant: only the transaction looks at the status.
PurgeLookAnyStatus(r, v, asked) ==
    LET remote == asked /\ row[v].source = "bunny"
    IN  /\ At(r, "idle")
        /\ Exists(v)
        /\ Becomes(r, [Idle EXCEPT !.pc = IF remote THEN "remote" ELSE "commit",
                                   !.video = v, !.asked = asked,
                                   !.asset = IF remote THEN row[v].asset ELSE None])
        /\ UNCHANGED <<row, stored, fate>>

\* prepareBunnyRemoteDelete: a remote deletion is asked for only for a DISABLED video.
PurgeLook(r, v, asked) ==
    LET remote == asked /\ row[v].source = "bunny"
    IN  /\ At(r, "idle")
        /\ Exists(v)
        /\ remote => row[v].disabled
        /\ Becomes(r, [Idle EXCEPT !.pc = IF remote THEN "remote" ELSE "commit",
                                   !.video = v, !.asked = asked,
                                   !.asset = IF remote THEN row[v].asset ELSE None])
        /\ UNCHANGED <<row, stored, fate>>

Deleted(a, why) ==
    /\ stored' = stored \ {a}
    /\ fate' = [fate EXCEPT ![a] = IF a \notin Named THEN None
                                   ELSE IF a \in stored THEN why ELSE fate[a]]

\* Confirmed, or a 404.
DeleteRemote(r) ==
    /\ At(r, "remote")
    /\ Deleted(request[r].asset, "purged")
    /\ Becomes(r, [request[r] EXCEPT !.pc = "commit"])
    /\ UNCHANGED row

\* Mutant: the purge goes on without Bunny's answer.
RemoteUnconfirmedGoesOn(r) ==
    /\ At(r, "remote")
    /\ Becomes(r, [request[r] EXCEPT !.pc = "commit"])
    /\ UNCHANGED <<row, stored, fate>>

\* Anything else ends the purge, whatever Bunny did.
RemoteUnconfirmed(r) ==
    /\ At(r, "remote")
    /\ \/ Deleted(request[r].asset, "purged")
       \/ UNCHANGED <<stored, fate>>
    /\ Becomes(r, Idle)
    /\ UNCHANGED row

\* The transaction looks again at the status and deletes the row.
PurgeCommit(r) ==
    LET v == request[r].video
        doomed == {row[v].thumb}
                  \cup (IF row[v].source = "file" \/ (row[v].source = "cloud" /\ request[r].asked)
                        THEN {row[v].asset} ELSE {})
    IN  /\ At(r, "commit")
        /\ Exists(v)
        /\ row[v].disabled
        /\ row' = [row EXCEPT ![v] = None]
        /\ fate' = [a \in Assets |-> IF a \notin Names(v) THEN fate[a]
                                     ELSE IF a \in stored \ doomed /\ ~request[r].asked
                                     THEN "kept" ELSE None]
        /\ Becomes(r, Sweeping(doomed))
        /\ UNCHANGED stored

PurgeRefused(r) ==
    /\ At(r, "commit")
    /\ Becomes(r, Idle)
    /\ UNCHANGED <<row, stored, fate>>

-----------------------------------------------------------------------------

\* One of the deletions that may fail without consequence for the request.
Sweep(r, a) ==
    /\ At(r, "sweep")
    /\ a \in request[r].doomed
    /\ Deleted(a, fate[a])
    /\ Becomes(r, Sweeping(request[r].doomed \ {a}))
    /\ UNCHANGED row

SweepFails(r, a) ==
    /\ At(r, "sweep")
    /\ a \in request[r].doomed
    /\ fate' = IF a \in Named THEN fate ELSE WriteOff({a}, "unconfirmed")
    /\ Becomes(r, Sweeping(request[r].doomed \ {a}))
    /\ UNCHANGED <<row, stored>>

\* Somebody deletes a Bunny video at Bunny.
Vanish(v) ==
    /\ Exists(v)
    /\ row[v].source = "bunny"
    /\ row[v].asset \in stored
    /\ Deleted(row[v].asset, "vanished")
    /\ UNCHANGED <<row, request>>

\* The process stops; nothing of what was under way is remembered.
Crash ==
    /\ \E r \in Requests : ~At(r, "idle")
    /\ request' = [r \in Requests |-> Idle]
    /\ fate' = [a \in Assets |-> IF a \in (Held \cap stored) \ Named /\ fate[a] \notin Strays
                                 THEN "crash" ELSE fate[a]]
    /\ UNCHANGED <<row, stored>>

Next ==
    \/ \E r \in Requests :
          \/ BeginPlain(r)
          \/ \E a \in Assets :
                \/ UploadVideo(r, a)
                \/ CreateAtBunny(r, a)
                \/ StoreUnanswered(r, a)
                \/ StoreThumb(r, a)
                \/ StoreLocalThumb(r, a)
                \/ Sweep(r, a)
                \/ SweepFails(r, a)
          \/ NoThumb(r)
          \/ InsertFails(r)
          \/ Swap(r)
          \/ SwapFails(r)
          \/ SwapUnanswered(r)
          \/ DeleteRemote(r)
          \/ RemoteUnconfirmed(r)
          \/ PurgeCommit(r)
          \/ PurgeRefused(r)
          \/ \E v \in Videos :
                \/ Insert(r, v)
                \/ InsertUnanswered(r, v)
                \/ ReplaceLook(r, v)
                \/ \E asked \in BOOLEAN : PurgeLook(r, v, asked)
    \/ \E v \in Videos :
          \/ \E a \in Assets, b \in Assets \cup {None} : CompleteUpload(v, a, b)
          \/ \E S \in SUBSET Assets : Disown(v, S)
          \/ SetStatus(v)
          \/ Vanish(v)
    \/ Crash

Spec == Init /\ [][Next]_vars

-----------------------------------------------------------------------------

\* What a row names is stored, unless a purge deleted it and did not get to the row, the
\* request that wrote the row took the write for failed, or it was deleted at Bunny.
RowsAreBacked == \A v \in Videos : \A a \in Names(v) : a \in stored \/ fate[a] \in Losses

\* What no row names is in somebody's hands or was written off for a known reason, and
\* what was written off is named by no row.
StraysAreAccounted ==
    /\ \A a \in stored : a \in Named \cup Held \/ fate[a] \in Strays
    /\ \A a \in Named : fate[a] \notin Strays

\* A purge deletes the remote asset of no video that is in use; a video whose asset was
\* purged is in use only after somebody restored it.
OnlyDisabledIsEmptied ==
    \A v \in Videos : Exists(v) /\ row[v].source = "bunny" /\ fate[row[v].asset] = "purged"
                          => row[v].disabled \/ row[v].restored

\* The row of a Bunny video goes only after its remote asset, or with the asset kept on
\* purpose.
NoInvisibleOrphan ==
    [][\A v \in Videos :
          (Exists(v) /\ row'[v] = None /\ row[v].source = "bunny")
              => row[v].asset \notin stored \/ fate'[row[v].asset] = "kept"]_vars
=============================================================================
