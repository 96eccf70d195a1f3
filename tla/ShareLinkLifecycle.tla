------------------------- MODULE ShareLinkLifecycle -------------------------
(***************************************************************************)
(* The lifecycle of the share links of one website and of the videos they  *)
(* carry, as the concurrent requests of the admin API and the two offline  *)
(* reconciliation scripts move them through the database.                  *)
(*                                                                         *)
(* A link goes dark (DISABLED) when one of its videos is disabled and is   *)
(* meant to come back when the video is restored; a revoked link is meant  *)
(* never to come back.  Both are read-then-write transactions, and the     *)
(* status that decides is sometimes read before the transaction, or before *)
(* a request to the video provider.  The model keeps those reads apart     *)
(* from the writes they justify.                                           *)
(*                                                                         *)
(* One committed database transaction is one step.  The transactions that  *)
(* read a snapshot and write later what it justified are two steps.        *)
(***************************************************************************)
EXTENDS FiniteSets

CONSTANTS
    Videos,            \* rows of VideoAsset
    BunnyVideos,       \* those that are backed by Bunny Stream
    BlobVideos,        \* those whose file is in the database (DB_BLOB)
    Links,             \* rows of ShareLink
    Patches,           \* PATCH /admin/videos/:id requests that may be in flight
    Syncs,             \* Bunny status synchronisations that may be in flight
    Assigns,           \* PATCH /admin/websites/:id/videos requests in flight
    Replaces,          \* PATCH /admin/videos/:id/binary requests in flight
    Targets,           \* the statuses a request may ask for
    FirstUpdaterWins   \* a transaction that writes a row changed since its
                       \* snapshot fails (MariaDB 11.8) or overwrites (MySQL 8.0)

VideoStatus == {"DRAFT", "PROCESSING", "READY", "FAILED", "DISABLED"}
Gone == "PURGED"       \* the row was deleted by purgeVideo

ASSUME ConstantsAssumption ==
    /\ BunnyVideos \subseteq Videos
    /\ BlobVideos \subseteq Videos \ BunnyVideos
    /\ Targets \subseteq VideoStatus
    /\ FirstUpdaterWins \in BOOLEAN

VARIABLES
    videoStatus,    \* VideoAsset.status, or Gone
    remoteMissing,  \* videos whose metadataJson carries the remoteMissing mark
    assigned,       \* videos with an ACTIVE WebsiteVideo row of the website
    linkStatus,     \* ShareLink.status, or "NONE" before the row exists
    members,        \* the ShareLinkVideo rows of the link
    issued,         \* the members the link was created with (its audit record)
    patch,          \* the PATCH requests in flight
    sync,           \* the Bunny synchronisations in flight
    assign,         \* the assignments of videos to the website in flight
    replace,        \* the replacements of a file in the database in flight
    scan,           \* links the reconciliation script has chosen to revive
    raced,          \* history: links that lost a member to a disable while a
                    \* restore or the script had already chosen to revive them
    unswept,        \* history: videos that a replacement disabled, which leaves
                    \* their links alone
    stranded        \* history: dark links that no restore is left to light

lifecycleRows == <<videoStatus, remoteMissing, assigned, linkStatus, members, issued>>
requests == <<patch, sync, assign, replace, scan>>
history == <<raced, unswept, stranded>>
lifecycleVars == <<lifecycleRows, requests, history>>

LinkStatus == {"ACTIVE", "DISABLED", "REVOKED"}
IdlePatch == [pc |-> "idle"]
IdleSync == [pc |-> "idle"]
IdleAssign == [pc |-> "idle"]
IdleReplace == [pc |-> "idle"]

PatchState ==
    {IdlePatch}
    \cup [pc : {"read"}, video : Videos, to : Targets, seen : VideoStatus]
    \cup [pc : {"tx"}, video : Videos, base : VideoStatus \cup {Gone},
          picks : SUBSET Links]

SyncState ==
    {IdleSync}
    \cup [pc : {"asked"}, video : BunnyVideos, seen : VideoStatus,
          marked : BOOLEAN]

AssignState == {IdleAssign} \cup [pc : {"read"}, videos : SUBSET Videos]

ReplaceState ==
    {IdleReplace} \cup [pc : {"read"}, video : BlobVideos, next : VideoStatus]

LifecycleTypeOK ==
    /\ videoStatus \in [Videos -> VideoStatus \cup {Gone}]
    /\ remoteMissing \subseteq BunnyVideos
    /\ assigned \subseteq Videos
    /\ linkStatus \in [Links -> LinkStatus \cup {"NONE"}]
    /\ members \in [Links -> SUBSET Videos]
    /\ issued \in [Links -> SUBSET Videos]
    /\ patch \in [Patches -> PatchState]
    /\ sync \in [Syncs -> SyncState]
    /\ assign \in [Assigns -> AssignState]
    /\ replace \in [Replaces -> ReplaceState]
    /\ scan \subseteq Links
    /\ raced \subseteq Links
    /\ unswept \subseteq BlobVideos
    /\ stranded \subseteq Links

\* Videos just created: createVideo, createEmbedVideo and the uploads take the status
\* from the request, initBunnyVideoUpload sets PROCESSING.  No assignment, no link.
LifecycleInit ==
    /\ videoStatus \in [Videos -> Targets \cup {"PROCESSING"}]
    /\ remoteMissing = {}
    /\ assigned = {}
    /\ linkStatus = [l \in Links |-> "NONE"]
    /\ members = [l \in Links |-> {}]
    /\ issued = [l \in Links |-> {}]
    /\ patch = [p \in Patches |-> IdlePatch]
    /\ sync = [s \in Syncs |-> IdleSync]
    /\ assign = [a \in Assigns |-> IdleAssign]
    /\ replace = [r \in Replaces |-> IdleReplace]
    /\ scan = {}
    /\ raced = {}
    /\ unswept = {}
    /\ stranded = {}

-----------------------------------------------------------------------------
(* What the transactions share.                                            *)

Exists(v) == videoStatus[v] # Gone
LinksWith(v) == {l \in Links : v \in members[l]}

\* disableActiveShareLinksForVideo: one updateMany on the ACTIVE links of v.
DisableActiveShareLinksForVideo(v) ==
    linkStatus' = [l \in Links |->
        IF l \in LinksWith(v) /\ linkStatus[l] = "ACTIVE" THEN "DISABLED"
        ELSE linkStatus[l]]

\* The links an uncommitted restore or the script will turn ACTIVE.
ChosenToRevive ==
    scan \cup UNION {patch[p].picks : p \in {q \in Patches : patch[q].pc = "tx"}}

\* History only: v becomes unavailable under the feet of a pending revival.
RecordRace(v) == raced' = raced \cup (ChosenToRevive \cap LinksWith(v))

\* History only: the transaction of a restore of some video of V is open.
RestoringAny(V) == \E p \in Patches : patch[p].pc = "tx" /\ patch[p].video \in V

\* History only: a sweep that an open restore does not see, its snapshot being older.
RecordSweep(v) ==
    stranded' = stranded \cup
        {l \in LinksWith(v) : linkStatus[l] = "ACTIVE" /\ RestoringAny(members[l])}

\* History only: the dark links that an open restore of another member has left out on
\* account of v, which stops being DISABLED.
LeftOut(v) ==
    {l \in LinksWith(v) : linkStatus'[l] = "DISABLED" /\ RestoringAny(members[l] \ {v})}

\* History only: the dark links that v was the last to keep dark, when it stops being
\* DISABLED in another way than by a restore.
LeftDark(v) ==
    {l \in LinksWith(v) :
        /\ linkStatus'[l] = "DISABLED"
        /\ \A m \in members[l] \ {v} : videoStatus[m] # "DISABLED"}

RecordLeaving(v, leaves) ==
    stranded' = IF leaves THEN stranded \cup LeftOut(v) \cup LeftDark(v) ELSE stranded

\* Mutant: the restore forgets that another member may still be disabled.
RevivableWithAnyMember(v) == {l \in LinksWith(v) : linkStatus[l] = "DISABLED"}

\* Mutant: the restore asks for members that are READY, not for none that is disabled.
RevivableWithReadyMembers(v) ==
    {l \in LinksWith(v) :
        /\ linkStatus[l] = "DISABLED"
        /\ \A m \in members[l] \ {v} : videoStatus[m] = "READY"}

\* reactivateShareLinksDisabledWithVideo, its findMany: v itself already reads
\* as READY, the transaction having written it.
RevivableWith(v) ==
    {l \in LinksWith(v) :
        /\ linkStatus[l] = "DISABLED"
        /\ \A m \in members[l] \ {v} : videoStatus[m] # "DISABLED"}

-----------------------------------------------------------------------------
(* Admin websites: assignments, creation and revocation of links.          *)

\* assignVideos looks the videos up before its transaction; all of them must be READY.
AssignRead(a, S) ==
    /\ assign[a].pc = "idle"
    /\ \A v \in S : videoStatus[v] = "READY"
    /\ assign' = [assign EXCEPT ![a] = [pc |-> "read", videos |-> S]]
    /\ UNCHANGED <<lifecycleRows, patch, sync, replace, scan, history>>

\* The transaction replaces the website's assignments as a whole, without a second
\* look at the videos; the foreign key asks for rows that exist.
AssignWrite(a) ==
    /\ assign[a].pc = "read"
    /\ \A v \in assign[a].videos : Exists(v)
    /\ assigned' = assign[a].videos
    /\ assign' = [assign EXCEPT ![a] = IdleAssign]
    /\ UNCHANGED <<videoStatus, remoteMissing, linkStatus, members, issued,
                   patch, sync, replace, scan, history>>

\* A video is gone, or the database failed: the old assignments stay.
AssignFail(a) ==
    /\ assign[a].pc = "read"
    /\ assign' = [assign EXCEPT ![a] = IdleAssign]
    /\ UNCHANGED <<lifecycleRows, patch, sync, replace, scan, history>>

\* updateVideoAssignments: one Serializable transaction that assigns some videos, all
\* READY, and unassigns others (assignSingleVideo assigns one).
UpdateVideoAssignments(A, R) ==
    /\ A \cap R = {}
    /\ \A v \in A \cup R : Exists(v)
    /\ \A v \in A : videoStatus[v] = "READY"
    /\ assigned' = (assigned \cup A) \ R
    /\ UNCHANGED <<videoStatus, remoteMissing, linkStatus, members, issued,
                   requests, history>>

\* createShareLink: a Serializable transaction re-validates that every selected
\* video is READY and actively assigned, then inserts the link and its members.
CreateShareLink(l, S) ==
    /\ linkStatus[l] = "NONE"
    /\ S # {}
    /\ \A v \in S : v \in assigned /\ videoStatus[v] = "READY"
    /\ linkStatus' = [linkStatus EXCEPT ![l] = "ACTIVE"]
    /\ members' = [members EXCEPT ![l] = S]
    /\ issued' = [issued EXCEPT ![l] = S]
    /\ UNCHANGED <<videoStatus, remoteMissing, assigned, requests, history>>

\* revokeShareLink: an unconditional write, whatever the link's status.
RevokeShareLink(l) ==
    /\ linkStatus[l] # "NONE"
    /\ linkStatus' = [linkStatus EXCEPT ![l] = "REVOKED"]
    /\ UNCHANGED <<videoStatus, remoteMissing, assigned, members, issued,
                   requests, history>>

-----------------------------------------------------------------------------
(* Videos: PATCH (which is also restore), disable, purge.                  *)

\* updateVideo reads the row before its transaction.
PatchRead(p, v, to) ==
    /\ patch[p].pc = "idle"
    /\ Exists(v)
    /\ patch' = [patch EXCEPT ![p] =
                    [pc |-> "read", video |-> v, to |-> to, seen |-> videoStatus[v]]]
    /\ UNCHANGED <<lifecycleRows, sync, assign, replace, scan, history>>

\* The PATCH is a restore by the status read BEFORE the transaction.
Restoring(p) == patch[p].to = "READY" /\ patch[p].seen = "DISABLED"

\* The restore's transaction opens: its snapshot decides which links to revive.
PatchOpen(p) ==
    /\ patch[p].pc = "read"
    /\ Restoring(p)
    /\ LET v == patch[p].video IN
        patch' = [patch EXCEPT ![p] =
                     [pc |-> "tx", video |-> v, base |-> videoStatus[v],
                      picks |-> RevivableWith(v)]]
    /\ UNCHANGED <<lifecycleRows, sync, assign, replace, scan, history>>

\* With snapshot isolation enforced on writes, the rows this transaction writes
\* must still be the ones its snapshot showed.
WritesAreCurrent(p) ==
    /\ videoStatus[patch[p].video] = patch[p].base
    /\ \A l \in patch[p].picks : linkStatus[l] = "DISABLED"

\* The restore commits: the video, then every chosen link by its id alone.
PatchRestore(p) ==
    /\ patch[p].pc = "tx"
    /\ Exists(patch[p].video)
    /\ FirstUpdaterWins => WritesAreCurrent(p)
    /\ videoStatus' = [videoStatus EXCEPT ![patch[p].video] = "READY"]
    /\ linkStatus' = [l \in Links |->
                         IF l \in patch[p].picks THEN "ACTIVE" ELSE linkStatus[l]]
    /\ patch' = [patch EXCEPT ![p] = IdlePatch]
    /\ unswept' = unswept \ {patch[p].video}
    /\ stranded' = (stranded \ patch[p].picks) \cup
                      IF videoStatus[patch[p].video] = "DISABLED"
                      THEN LeftOut(patch[p].video) ELSE {}
    /\ UNCHANGED <<remoteMissing, assigned, members, issued,
                   sync, assign, replace, scan, raced>>

\* Every other status change by PATCH is one transaction; only DISABLED sweeps.
PatchUpdate(p) ==
    /\ patch[p].pc = "read"
    /\ ~Restoring(p)
    /\ LET v == patch[p].video IN
        /\ Exists(v)
        /\ videoStatus' = [videoStatus EXCEPT ![v] = patch[p].to]
        /\ IF patch[p].to = "DISABLED"
           THEN /\ DisableActiveShareLinksForVideo(v)
                /\ RecordRace(v)
                /\ RecordSweep(v)
           ELSE /\ UNCHANGED <<linkStatus, raced>>
                /\ RecordLeaving(v, videoStatus[v] = "DISABLED")
        /\ unswept' = unswept \ {v}
    /\ patch' = [patch EXCEPT ![p] = IdlePatch]
    /\ UNCHANGED <<remoteMissing, assigned, members, issued,
                   sync, assign, replace, scan>>

\* The request fails or its transaction is rolled back: the row is gone, the
\* engine reports a conflict or a deadlock, or the process stops.
PatchAbort(p) ==
    /\ patch[p].pc # "idle"
    /\ patch' = [patch EXCEPT ![p] = IdlePatch]
    /\ UNCHANGED <<lifecycleRows, sync, assign, replace, scan, history>>

\* disableVideo: reads and writes in one transaction, sweeps even when the video
\* was DISABLED already.
DisableVideo(v) ==
    /\ Exists(v)
    /\ videoStatus' = [videoStatus EXCEPT ![v] = "DISABLED"]
    /\ DisableActiveShareLinksForVideo(v)
    /\ RecordRace(v)
    /\ RecordSweep(v)
    /\ unswept' = unswept \ {v}
    /\ UNCHANGED <<remoteMissing, assigned, members, issued, requests>>

\* purgeVideo, its local transaction: the links are swept while the video is still
\* their member, then its row is deleted.  The foreign keys cascade, so that its
\* memberships and assignments go with it; the code deletes them first to count them.
PurgeVideo(v) ==
    /\ videoStatus[v] = "DISABLED"
    /\ DisableActiveShareLinksForVideo(v)
    /\ members' = [l \in Links |-> members[l] \ {v}]
    /\ assigned' = assigned \ {v}
    /\ remoteMissing' = remoteMissing \ {v}
    /\ videoStatus' = [videoStatus EXCEPT ![v] = Gone]
    /\ RecordLeaving(v, TRUE)
    /\ unswept' = unswept \ {v}
    /\ UNCHANGED <<issued, requests, raced>>

-----------------------------------------------------------------------------
(* replaceDatabaseVideoBinary: a new file for a video kept in the database. *)

\* The row is read; the status to write is the one asked for, or the one read.  Then
\* the file is read, probed and hashed.
ReplaceRead(r, v, next) ==
    /\ replace[r].pc = "idle"
    /\ Exists(v)
    /\ next \in Targets \cup {videoStatus[v]}
    /\ replace' = [replace EXCEPT ![r] = [pc |-> "read", video |-> v, next |-> next]]
    /\ UNCHANGED <<lifecycleRows, patch, sync, assign, scan, history>>

\* File and status are written by id.  No link is swept and none is revived.
ReplaceWrite(r) ==
    /\ replace[r].pc = "read"
    /\ LET v == replace[r].video
           next == replace[r].next
       IN
        /\ Exists(v)
        /\ videoStatus' = [videoStatus EXCEPT ![v] = next]
        /\ UNCHANGED linkStatus
        /\ IF next = "DISABLED" /\ videoStatus[v] # "DISABLED"
           THEN RecordRace(v) /\ unswept' = unswept \cup {v} /\ UNCHANGED stranded
           ELSE /\ RecordLeaving(v, videoStatus[v] = "DISABLED" /\ next # "DISABLED")
                /\ unswept' = IF next = "DISABLED" THEN unswept ELSE unswept \ {v}
                /\ UNCHANGED raced
    /\ replace' = [replace EXCEPT ![r] = IdleReplace]
    /\ UNCHANGED <<remoteMissing, assigned, members, issued, patch, sync, assign, scan>>

\* The row is gone, the file was refused or the database failed.
ReplaceFail(r) ==
    /\ replace[r].pc = "read"
    /\ replace' = [replace EXCEPT ![r] = IdleReplace]
    /\ UNCHANGED <<lifecycleRows, patch, sync, assign, scan, history>>

-----------------------------------------------------------------------------
(* Bunny synchronisation: read the row, ask the provider, write the row.    *)
(* The endpoint and the reconciliation script share this shape.             *)

Answers == {"PROCESSING", "READY", "FAILED", "NOT_FOUND"}

\* resolveBunnyLocalStatus: DISABLED and READY are kept, the rest follows Bunny.
ResolveBunnyLocalStatus(current, answer) ==
    IF current \in {"DISABLED", "READY"} THEN current ELSE answer

\* resolveBunnyRemoteMissingStatus: only DISABLED survives a 404.
ResolveBunnyRemoteMissingStatus(current) ==
    IF current = "DISABLED" THEN "DISABLED" ELSE "FAILED"

NextStatus(current, answer) ==
    IF answer = "NOT_FOUND" THEN ResolveBunnyRemoteMissingStatus(current)
    ELSE ResolveBunnyLocalStatus(current, answer)

\* The row as it was before the request to Bunny.
SyncRead(s, v) ==
    /\ sync[s].pc = "idle"
    /\ Exists(v)
    /\ sync' = [sync EXCEPT ![s] =
                   [pc |-> "asked", video |-> v, seen |-> videoStatus[v],
                    marked |-> v \in remoteMissing]]
    /\ UNCHANGED <<lifecycleRows, patch, assign, replace, scan, history>>

\* The answer is applied to the row as it was read: the status is written only
\* if it differs from the one READ, the mark only if it has to change.
SyncWrite(s, answer) ==
    /\ sync[s].pc = "asked"
    /\ LET v == sync[s].video
           next == NextStatus(sync[s].seen, answer)
       IN
        /\ Exists(v)
        /\ videoStatus' = IF next = sync[s].seen THEN videoStatus
                          ELSE [videoStatus EXCEPT ![v] = next]
        /\ remoteMissing' =
               IF answer = "NOT_FOUND"
               THEN IF sync[s].marked THEN remoteMissing ELSE remoteMissing \cup {v}
               ELSE IF sync[s].marked THEN remoteMissing \ {v} ELSE remoteMissing
        /\ UNCHANGED linkStatus
        /\ RecordLeaving(v, /\ sync[s].seen # "DISABLED"
                            /\ next # sync[s].seen
                            /\ videoStatus[v] = "DISABLED")
    /\ sync' = [sync EXCEPT ![s] = IdleSync]
    /\ UNCHANGED <<assigned, members, issued, patch, assign, replace, scan,
                   raced, unswept>>

\* A transient provider failure, or the row was purged meanwhile: nothing changes.
SyncFail(s) ==
    /\ sync[s].pc = "asked"
    /\ sync' = [sync EXCEPT ![s] = IdleSync]
    /\ UNCHANGED <<lifecycleRows, patch, assign, replace, scan, history>>

-----------------------------------------------------------------------------
(* reconcile:share-links, the offline script that revives stranded links.  *)

\* Mutant: the script trusts the members that are left.
RestorableWithoutProvenance(l) ==
    /\ linkStatus[l] = "DISABLED"
    /\ \A v \in members[l] :
        videoStatus[v] = "READY" /\ v \notin remoteMissing /\ v \in assigned

\* classifyShareLink = RESTORABLE (expiry and view budget are not modelled here).
Restorable(l) ==
    /\ linkStatus[l] = "DISABLED"
    /\ members[l] # {}
    /\ members[l] = issued[l]
    /\ \A v \in members[l] :
        videoStatus[v] = "READY" /\ v \notin remoteMissing /\ v \in assigned

\* One batch is read; the links that are expired or used up are left out.
ReconcileRead(batch) ==
    /\ scan = {}
    /\ batch # {}
    /\ \A l \in batch : Restorable(l)
    /\ scan' = batch
    /\ UNCHANGED <<lifecycleRows, patch, sync, assign, replace, history>>

\* Mutant: the write no longer asks for a row that is still DISABLED.
ReconcileApplyBlindly(l) ==
    /\ l \in scan
    /\ linkStatus' = [linkStatus EXCEPT ![l] = "ACTIVE"]
    /\ scan' = scan \ {l}
    /\ stranded' = stranded \ {l}
    /\ UNCHANGED <<videoStatus, remoteMissing, assigned, members, issued,
                   patch, sync, assign, replace, raced, unswept>>

\* Later each chosen link is revived, provided it is still DISABLED.
ReconcileApply(l) ==
    /\ l \in scan
    /\ linkStatus' = [linkStatus EXCEPT
                         ![l] = IF @ = "DISABLED" THEN "ACTIVE" ELSE @]
    /\ scan' = scan \ {l}
    /\ stranded' = stranded \ {l}
    /\ UNCHANGED <<videoStatus, remoteMissing, assigned, members, issued,
                   patch, sync, assign, replace, raced, unswept>>

\* The script stops between two links.
ReconcileStop ==
    /\ scan # {}
    /\ scan' = {}
    /\ UNCHANGED <<lifecycleRows, patch, sync, assign, replace, history>>

-----------------------------------------------------------------------------
Restore == \E p \in Patches : PatchRestore(p)
Synchronise == \E s \in Syncs, answer \in Answers : SyncWrite(s, answer)

LifecycleNext ==
    \/ \E a \in Assigns, S \in SUBSET Videos : AssignRead(a, S)
    \/ \E a \in Assigns : AssignWrite(a)
    \/ \E a \in Assigns : AssignFail(a)
    \/ \E A, R \in SUBSET Videos : UpdateVideoAssignments(A, R)
    \/ \E l \in Links, S \in SUBSET Videos : CreateShareLink(l, S)
    \/ \E l \in Links : RevokeShareLink(l)
    \/ \E p \in Patches, v \in Videos, to \in Targets : PatchRead(p, v, to)
    \/ \E p \in Patches : PatchOpen(p)
    \/ Restore
    \/ \E p \in Patches : PatchUpdate(p)
    \/ \E p \in Patches : PatchAbort(p)
    \/ \E v \in Videos : DisableVideo(v)
    \/ \E v \in Videos : PurgeVideo(v)
    \/ \E r \in Replaces, v \in BlobVideos, next \in VideoStatus : ReplaceRead(r, v, next)
    \/ \E r \in Replaces : ReplaceWrite(r)
    \/ \E r \in Replaces : ReplaceFail(r)
    \/ \E s \in Syncs, v \in BunnyVideos : SyncRead(s, v)
    \/ Synchronise
    \/ \E s \in Syncs : SyncFail(s)
    \/ \E batch \in SUBSET Links : ReconcileRead(batch)
    \/ \E l \in Links : ReconcileApply(l)
    \/ ReconcileStop

LifecycleSpec == LifecycleInit /\ [][LifecycleNext]_lifecycleVars

-----------------------------------------------------------------------------
(* What the lifecycle promises, as far as the code keeps it.               *)

\* A link that resolves publicly carries no disabled video, with two exceptions: the
\* video was disabled between the moment a restore (or the script) chose the link and
\* the moment it wrote it, or it was disabled by a replacement of its file, which
\* sweeps no link, and not disabled again since.
DarkUnlessRaced ==
    \A l \in Links \ raced :
        linkStatus[l] = "ACTIVE" =>
            \A v \in members[l] : videoStatus[v] = "DISABLED" => v \in unswept

\* A link that lost all its videos to purges is dark, unless one of them was disabled
\* between the moment a revival chose the link and the moment it wrote it.
EmptiedLinkIsDark ==
    \A l \in Links \ raced : linkStatus[l] = "ACTIVE" => members[l] # {}

\* Why the two hold: what a restore or the script has chosen and not yet written
\* is still fit to be revived, unless it is marked as raced.
PendingRevivalsAreSound ==
    /\ \A p \in Patches : patch[p].pc = "tx" =>
        \A l \in patch[p].picks :
            /\ linkStatus[l] # "NONE"
            /\ l \notin raced =>
                /\ patch[p].video \in members[l] \/ ~Exists(patch[p].video)
                /\ \A m \in members[l] \ {patch[p].video} : videoStatus[m] # "DISABLED"
    /\ \A l \in scan :
        /\ linkStatus[l] # "NONE"
        /\ l \notin raced =>
            members[l] # {} /\ \A m \in members[l] : videoStatus[m] # "DISABLED"

\* A dark link that still has videos has one that is disabled, for which a restore will
\* come back to it, or is known to be stranded: its last disabled video was purged or
\* left DISABLED otherwise than by a restore (a PATCH to another status or one decided by
\* an older status, a replacement of the file, a synchronisation that read the row
\* before it was disabled), or a restore's snapshot missed a change of another member
\* or a sweep: of two restores at once each may find the other's video DISABLED.
DarkForAReason ==
    \A l \in Links \ stranded :
        linkStatus[l] = "DISABLED" /\ members[l] # {} =>
            \E v \in members[l] : videoStatus[v] = "DISABLED"

\* Why it holds: an open restore has chosen every dark link of its video that nothing
\* else keeps dark.
PendingRestoresAreComplete ==
    \A p \in Patches : patch[p].pc = "tx" =>
        \A l \in LinksWith(patch[p].video) \ stranded :
            linkStatus[l] = "DISABLED" =>
                \/ l \in patch[p].picks
                \/ \E m \in members[l] \ {patch[p].video} : videoStatus[m] = "DISABLED"

\* Revocation is final: nothing a later or concurrent request does revives the
\* link.  It needs an engine on which the first updater wins.
RevocationIsFinal ==
    [][\A l \in Links : linkStatus[l] = "REVOKED" => linkStatus'[l] = "REVOKED"]_lifecycleVars
=============================================================================
