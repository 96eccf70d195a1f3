# Verification of bom-media-api

TLA+ specifications of the core of the API, the TLC configurations that check them on small instances, and TLAPS
proofs of their main invariants. Everything is translated from the code; `PROJECT.json` maps each definition to the
lines it stands for.

    tlc -config ShareLinkLifecycle.cfg MCShareLinkLifecycle     # one run
    tlapm VideoLifecycles_proofs.tla                            # one proof module

## 1. The system

The API publishes videos to reviewers through share links. Administrators manage accounts, websites, domains, videos
and links; reviewers open a link on a website's host and watch. The process is single-threaded Node (NestJS); every
`await` is a point where other requests run, and the database (MariaDB 11.8 in production, MySQL 8.0 locally) is
shared with offline scripts and possibly other processes. Files of LOCAL_FILE videos lie on the local disk.

| Component | State | Operations | Interacts with | Hard behaviour | Module |
|---|---|---|---|---|---|
| Share-link and video lifecycle (`videos.service.ts`, `admin-websites.service.ts`, two reconciliation scripts) | `VideoAsset.status`, `ShareLink.status`, memberships, assignments | assign, update assignments, create link, revoke, PATCH, disable, replace file, purge, Bunny sync, reconcile | shared rows; Bunny over HTTP | reads outside or before the transaction that acts on them | ShareLinkLifecycle |
| Admin authentication (`admin-auth`) | accounts, sessions, refresh tokens | register, login, refresh, logout, change password, guard | rows shared with account management; cookies in browsers | replayed and racing refresh tokens, slow password hash between read and write | AdminAuth |
| Admin accounts (`admin-accounts`) | accounts | edit, suspend, reset password, delete, by the owner | revokes sessions | two owners' requests, version check, re-authentication before the transaction | AdminAuth |
| Public watch (`public.service.ts`, resume and media grants) | `currentViews`, watch cache, signed grants | resolve `#k`, exchange `?r=`, resume | lifecycle rows; memory cache | stale cache, last view of a budget, expiry | PublishedLink, PublicWatch, PublicSources |
| Public media (`public.service.ts`) | media cache | local file, poster, blob, view report | grants and tokens minted by watch | a cache hit asks nothing; invalidation races a fill; boundaries of ranges | PublishedLink, PublicMedia, MediaRanges, PublicSources |
| Chunked local upload (`videos.service.ts`, `local-video-storage.service.ts`) | session and chunk rows, parts, final file | init, chunk, complete, cancel, sweep | database and disk, no common transaction | retries, sweep against completion, crash, lost acknowledgement | LocalUpload, UploadLimits |
| Canonical share links (`canonical-share-link.service.ts`) | one mapping per (website, video) | create-or-get, adopt, ensure alias | share links, domains | pair race, retry, history that must not be resurrected | CanonicalShareLink |
| Websites and domains (`admin-websites.service.ts`) | status, assignment, primary mark of domains | create, update, assign, activate, disable, release | CORS and public caches | looks and counts outside the transaction that writes by id | WebsiteDomains, PublishedHosts |
| View growth (`video-view-growth.service.ts`) | events, hourly buckets, counter | record | public media; purge | concurrent transactions on snapshots, unique keys, partial undo | ViewGrowth |
| Memory cache (`memory-cache.service.ts`), dynamic CORS origins (`cors-origin.service.ts`) | entries, in-flight loads; the host list | get, set, getOrSet, delete; look up, clear | all readers; domain changes | loads that end after an invalidation, shared loads, expiry | ReadThroughCaches |
| Purge (remote half), other video sources (`videos.service.ts`), Bunny and Cloudinary clients | rows; assets at Bunny and Cloudinary, files, posters | create, replace, PATCH, purge | external services, disk | remote first, local second; lost answers; compensations that fail | VideoStorage |
| Configuration (`env.validation.ts`, `app.config.ts`, the services' own readers) | none | validate, read again | every service | two readings of one variable with different bounds | Configuration, ConfigurationReaders |
| Video metadata probe (`video-metadata.service.ts`) | none | probe file, buffer, URL | uploads | box sizes of untrusted files, boundaries of buffers | VideoMetadata |
| HTTP surface, diagnostics, schema and migrations, scripts | none | | | | not modelled (section 6) |

What makes each correct: a link that carries an unavailable video or was revoked does not resolve; a session dies with
the password, status or account it was opened under, and a refresh token is spent once; a positive answer to a
reviewer was justified at a moment of the request and never exceeds the view budget; bytes are sent only to who may
have them and a revocation takes hold; a catalogued video has its file; a pair never gets a second canonical link nor
a replacement for a revoked one; a domain serves one website and changes hands only through release; an hour of views
never exceeds its cap and counter, buckets and events agree; a cache is stale only for known reasons and not for long;
a row names what is stored, and what is stored and unnamed can be explained; a setting is read the way it was validated.

## 2. Modules

### ShareLinkLifecycle

Rows: `videoStatus`, `remoteMissing` (a mark in `metadataJson`), `assigned`, `linkStatus`, `members`, `issued` (the
number of videos the creation audit recorded, from which the reconciliation script decides whether a link is still
complete). Requests that read before they write: `patch` (read, then possibly a restore transaction with a snapshot),
`sync` (row read, Bunny asked, row written), `assign` (videos looked up, then the website's assignments replaced as a
whole, without a second look), `replace` (row read, file read and hashed, file and status written), `scan` (links the
script chose). History: `raced` (links that lost a member to a disable while a revival of them was pending), `unswept`
(videos a replacement disabled), `stranded` (dark links that no restore is left to light).

- A committed transaction is one step; `disableVideo`, `purgeVideo`, `createShareLink`, `revokeShareLink` and
  `updateVideoAssignments` (Serializable) have no gap that matters between their reads and writes. The sweep of links
  is one `updateMany`.
- These are all the writers of `VideoAsset.status` in the repository besides the creations of a row, which are `Init`:
  a row starts with the status the request gives, or PROCESSING (`initBunnyVideoUpload`).
- Deleting a video's row removes its memberships and assignments by cascade (`schema.prisma:445`, `507`); that
  `purgeVideo` deletes them itself makes no difference to what is left, and the model has one removal. What is left to
  the code is that the sweep, which finds the links by their members, comes before: `EmptiedLinkIsDark` rests on it.
- A restore is two steps: the transaction's snapshot (`PatchOpen`, non-locking reads) and its writes (`PatchRestore`).
- `FirstUpdaterWins` says whether writing a row changed since the snapshot fails. MariaDB 11.8 (production) does; it
  is TRUE in every configuration. On the MySQL 8.0 of `docker-compose.local.yml` it is not: the restore updates its
  links by id alone (`videos.service.ts`, `tx.shareLink.update`), so there a revocation committed after the snapshot
  is overwritten with ACTIVE; setting the constant to FALSE shows `RevocationIsFinal` violated. The check of the
  snapshot (`WritesAreCurrent`) compares values, not versions: it admits a superset of what the engine admits.
- `EmptiedLinkIsDark` is what a purge does to the last member of a link; it is stated apart from `DarkUnlessRaced`
  because an empty link satisfies every statement about its videos.
- `DarkForAReason` is the other direction of the restore: a dark link with videos has a disabled one, for whose restore
  it waits. What the code leaves dark all the same is in `stranded`, by cause: the last disabled member left DISABLED
  otherwise than by a restore, or a restore overlapped a change its snapshot missed (section 4).
- The specification is `LifecycleSpec`, and its parts carry the prefix, because one proof module is about this module
  and LocalUpload; so are the `Caches` names of PublishedHosts and ReadThroughCaches.
- Expiry and view budget of links, whether a READY video has an address to play (which the checks of
  `isPublicPlayableVideo` also ask), and the fields of a PATCH other than `status`, are abstracted.
- `bunny-stream.md` 9.2 still says that a video must have no ACTIVE assignment to be purged; the code deletes the
  assignments, as its own comment explains. The model follows the code.

### AdminAuth

Accounts (role, status, password version), sessions, refresh tokens, and requests in flight: `Logins`, `Refreshes`,
`PasswordChanges`, `OwnerRequests`. `updatedAt` is a version number, bounded by `MaxVersion`: two writes of one account
never fall in the same millisecond. Expiry is "the request may fail". Revoking transactions are atomic (InnoDB row
locks). The owner's list and re-authentication are one step, `OwnerVerify`. Not modelled: the mustChangePassword gate
of the guard, the uploads that block a deletion, and the script `cleanup:admin-sessions`, which deletes the rows of
sessions and tokens that expired or were revoked a retention time ago (90 days, at least one): rows of the model stay.

### PublishedLink, PublicWatch, PublicMedia

`PublishedLink` is what both public modules read: the site (host and website), the link, which videos are READY and
listed, the terms the link was created with, the kill switch `compat`, and the administrator's changes, made through
this process (`ChangeHere`, then `Invalidate`) or behind its back (`ChangeElsewhere`: another process, a script, SQL,
or a request that fails after its commit). One link on one host per instance: cache keys contain both, so other links
matter only through `Evict`. Times are relative: seconds left, counted down by `Tick`, -1 for none or run out, 0 still
usable (`exp >= now`). No clock bound is needed.

`PublicWatch` models the three resolutions, each as the chain of its awaits (`site`, `link`, `claim`, `log`, `gate`),
the watch cache, view claims, the session grant and the media tokens. `PublicMedia` models the media routes with the
LOCAL_FILE cache; its action `Exchange` stands for a successful resolution. The rows of link and videos come from one
query and are read in one step. A change of the kill switch is a `Restart`.

### LocalUpload

One upload session (sessions share nothing but the sweep, which is a request here): its row, chunk rows, parts, final
file, and the requests chunk, complete, cancel and sweep, each step one query, transaction or file operation. Storage
keys are unique and generated per save. `mishaps` records what went wrong besides the races: the process died, a
write was reported as failed although it had committed, a clean-up failed; properties that cannot survive one say so.
A completion names a checksum of the whole file (right or wrong) or leaves it to the session's, if it has one
(`RequestedChecksum`; the session's is taken to be the right one); `compared` is the one that was compared.
Abstracted: owner id, free space, staging files after a crash, chunk checksums other than right or wrong.
`completeLocalVideoUpload` marks an expired session EXPIRED without removing its directory; `NothingIsLeftBehind`
leaves that state out on purpose.

### CanonicalShareLink, WriteOnceIdentity

One website; the calls `Requests` (createOrGetCanonical, also behind `POST share-links` for one video) and `Operators`
(adoptExistingShareLink, the offline script), each made once. A call is its steps: `Load` of the mapping, `Create*`
(the Serializable transaction, one step with five outcomes: refused, the unique key hit, a retried write conflict, the
newest old link pinned, a link minted), `Check` (assertReusable), `Claim` and `Reread` (ensureTransportAlias). The reads
of `Check` are one step because each of them can only refuse; the status and contract of the link are looked at when
the row is loaded (`Reuse`), as in the code, so a link revoked after that may still be answered by that call. The
adoption reads link (`AdoptBegin`), video and domain (`AdoptRead`), then writes (`AdoptWrite`).

- `mapping` is the CanonicalVideoShareLink row. `Exact` and `Newest` are the candidates and the choice among them; link
  numbers stand for createdAt and id. `pinnable` gathers what a link must have besides its members: alias, no expiry,
  no view limit. The transport alias is named by the call that minted it. `evidence` is the fingerprint.
- Administrators revoke, create bundles, disable, restore, purge, reassign and edit videos, and change website and
  domains, each in one step except where a count precedes the write: `PurgeCount`/`PurgeCommit` and
  `MoveCount`/`UnassignDomain`, `RenameDomain`. The races inside disable and restore are ShareLinkLifecycle's.
- The foreign key and unique keys of the schema decide `Insertable` and `Deletable`.
- `dark` and `revoked` of a call are history: the state of the pair when the call began.
- A purge shrinks a bundle to its other videos; a bundle of two may thereby become the newest single-video link of a
  pair whose own link was revoked, and is then pinned. `RevokedPairStaysDark` names that case instead of denying it.
- `WriteOnceIdentity` is what is promised: a register per pair, written once, and answers that only repeat it.

### MediaRanges, PublicSources

Pure operators, no state. `MediaRanges` is the reading of a Range header, in its three copies (public service, local
storage, admin controller), and the status, range and length each route then announces and sends; a number past
`MaxSafe` is one the runtime cannot hold exactly. `PublicSources` decides, for one row, whether a video is listed,
which address each field of the answer carries, what the poster route does, and what the relay of a Bunny poster lets
through (redirects, types, declared and actual sizes). They are compared with reference definitions by the ASSUMEs of
`MCPublicMedia`, which takes the second one as `Addresses == INSTANCE PublicSources`; most of these statements are also
theorems of `PublicMedia_proofs`, there for files of any size and any row.

### ViewGrowth

One video (nothing is shared between videos): counter, buckets by hour, events by (viewer, window), and the reports in
flight. A report is a transaction under REPEATABLE READ, one step per query: `Read` takes everything from the snapshot
of the first query (`most`, and `after`, the events it contained); conditional updates and unique keys see the latest
rows; a written row makes the others wait (`BucketIsFree`, `KeyIsFree`, `SharesVideo`). Writes show at `Commit`. A
deadlock is `Abort` at any point. `viewCount` is counted from what an administrator last set. `Pace` are the three
steps of `computeTimeBasedMaxIncrement`. When the feature is off the service only reads.

### WebsiteDomains, PublishedHosts

`site` and `domain` rows, and the administrators' requests. A request looks at rows (`*Look`), decides, and later
writes by id without looking again: each look, write or transaction, and the invalidation at the end, is one
step. Request state carries the decision. `overtaken` is history: a write was carried out although a row its decision
rested on had changed. The rules of one domain per website hold while it is FALSE; the code does not keep them
otherwise, and says nowhere that it does. `PublishedHosts` is what the caches rely on: the set of live hosts changes
only together with a debt (`owed`), which the request settles by invalidating. WebsiteDomains implements it
(`LiveHostsAreAnnounced`). Domain groups are an attribute that no access depends on; that a canonical link anchors a
domain is a refusal here (CanonicalShareLink models it).

### ReadThroughCaches

EXTENDS PublishedHosts, so that the writers are what WebsiteDomains was shown to be. Two caches over the same rows: the
host list of `CorsOriginService`, which any number of lookups may be filling (`Ask`, `ReadHosts`, `StoreHosts`), and a
list behind `getOrSet`, whose loads (`Start`, `ReadList`, `StoreList`) are joined through the in-flight promise. The
host list lives from when the clock was read before the query, the other from when it is stored; the model keeps that
difference. `lost` (an invalidation that was never made), `gone` (how long ago a host was last live), `dropped` and
`overlapped` are history. What of the database is cached is, for both, the set of live hosts.

### VideoStorage

Rows against what they name outside the database: a Bunny video, a Cloudinary video, a local file, a poster. Requests
create, replace a poster, PATCH, and purge, each call of a provider, query and file operation a step; every call may
also be done and not answered (`StoreUnanswered`, `InsertUnanswered`, `SwapUnanswered`, `RemoteUnconfirmed`). `fate`
is history: why something is stored though nothing names it (`Strays`), or gone though a row names it (`Losses`).
`Crash` forgets every request, which is what the process does: nothing about them is persisted. `CompleteUpload` is
LocalUpload as one step. Links to what others own, and the blob in the database, which lives and dies with its row, are
left out. Names of assets are used once; a freed one may stand for a new asset.

### Configuration, ConfigurationReaders

`Configuration` is `validateEnv` setting by setting: the tables of integers with default and bounds, switches, secrets,
origins, and what is required together (`Accepted`). `ConfigurationReaders` is the second reading of the same variables
by `apiConfig` and by the services, each with defaults and bounds of its own. `CoveringReaderKeepsValue` says when a
second reading changes nothing; `ReadersAgree` that all of them are of that kind. Evaluated by the ASSUMEs of
`MCViewGrowth` (the growth settings are where the two meet) around every bound of every setting. The order in which
`.env` files are merged is not modelled.

### UploadLimits, VideoMetadata

Pure operators for what comes before an upload is stored: `UploadLimits` is the plan of a chunked upload (sizes, number
and length of chunks, free space) and the limits of the other routes, the packet limit of the database included;
`VideoMetadata` is the search for the MP4 movie header, in boxes or by signature, with the parts of a file that are
read and what is taken from a remote server. Evaluated by the ASSUMEs of `MCLocalUpload`, and proved for plans, files
and buffers of any size in `VideoLifecycles_proofs`, the packet limit excepted.

## 3. Runs

| Run | Instance | What it shows |
|---|---|---|
| `lifecycle` | 2 videos (1 Bunny, 1 in the database), 1 link, 2 PATCHes, 1 sync, 1 assignment, 1 replacement, the script; at most 2 in flight | which links are dark and why, what a purge leaves, revocation, under every interleaving |
| `admin` | 2 accounts, 2 sessions, 3 tokens, 1 login, 2 refreshes, 1 password change, 2 owner requests, at most 3 requests at once | sessions are current, tokens form a chain, one owner, edits of what was seen, deletion final |
| `watch` | 1 Bunny video, 2 reviewers; unlimited, expiring (2 s) and budgeted (2 views) links | fresh answers, budget, life of tokens |
| `media` | 2 videos (1 local), 1 reviewer; life 2 and budget 1 | authorization of every stream, when an entry may be stale; its ASSUMEs: ranges and addresses |
| `media_revocation` | 1 video, TTL 2, fairness | a revocation takes hold in the end |
| `upload` | 2 chunks, 3 saves, 2 requests | file, parts and rows stay consistent; its ASSUMEs: sizes, chunks, the probe |
| `canonical` | 2 videos, 3 links of which 2 old, 2 calls, 1 adoption, 2 attempts, 1 administrative operation | one identity for the pair, exact anchors, revocations honoured, dark pairs stay dark |
| `replace_strands_anchor` | same, 2 domains | replacing a domain leaves the canonical links anchored to it without one |
| `view_growth` | 2 viewers, 2 reports, hours of 4 minutes, windows of 2, cap 5 (4 per event), 5 minutes | cap, pace, and books that agree; its ASSUMEs: the configuration |
| `website_domains` | 2 websites, 2 domains, 2 hosts, 2 requests | the rules of domains, no takeover, every change announced |
| `read_through_caches` | 1 host, 1 writer, 2 lookups, 2 loads, TTLs of 1, fairness | recent hosts, shared loads, reasons for stale entries, recovery |
| `video_storage` | 2 videos, 3 assets, 2 requests | rows are backed, strays are accounted for, purges spare what is in use |

**Bounds.** Every race described needs two actors and one object they share; a third actor would repeat the part of one
of the two. Links are independent of one another except through a shared video, and two videos suffice for "another
member". Two chunks are the fewest for which merging has an order, and three saves the fewest for a retry beside two
stored chunks. TTLs of 1 and 2 distinguish "expires between" from "still valid"; `MaxVersion` 4 lets each of the
requests in flight be overtaken, and the constraint `AFewAtOnce` bounds how many are. In `lifecycle` the same constraint
lets two requests be between a read and a write, beside the requests of one step, which are always possible; two PATCHes
are needed for two restores at once, and they are interchangeable. In `canonical` the calls are about
one video (`Asked`); the other is what bundles and foreign anchors need. `MaxActs` counts the administrative operations
that start something; restores and purges are free, and every old history of two links is an initial state, so that what
would take several operations before the calls (revoke, bundle, disable) need not be counted; longer sequences are
covered by the proofs. In `view_growth` the clock passes from one hour to the next, the cap is not a multiple of the
increments, and the scaled pace has its three steps inside one hour. Two assets are the least for a video with a poster,
and the third is what the other request stores. One host is enough for the caches, which treat each host alike. Where
symmetry is used (`Interchangeable`) the run has no liveness property.

The type invariant of every specification is a theorem; only `watch` and `media` check theirs as well.

**Deadlock.** Checked everywhere but in `upload`, where a closed session admits no request that changes it, in the
canonical runs, where each call is made once and the operations are bounded, and in `view_growth`, whose clock stops.

**Fairness.** `PublicMedia!FairSpec`: weak fairness of `Tick` (the clock advances) and of `Answer(u)` (a query is
answered or fails, and the event loop runs its continuation). `ReadThroughCaches!Fairness`: the same of `Tick`, of the
answers to lookups and loads and of what their continuations store. Nothing is assumed of administrators, reviewers
or writers, nor that a cache is ever asked.

## 4. Findings

`replace_strands_anchor`: assigning a domain with replaceExisting takes the old one from the website
(`admin-websites.service.ts:2431`) without asking for canonical links anchored to it, which the runbook
(`canonical-share-link-runbook.md:70`) says is blocked.

Observations without a run. On interleavings:

- A Bunny sync writes over a DISABLED committed while it waited for the provider.
- A media request in flight while a link is revoked through the API refills the cache after it was dropped
  (`StaleOnlyIfUnnoticed` counts it among the known reasons).
- The sweep of expired uploads removes a directory even if its conditional update matched nothing, so also that of a
  session that is completing.
- Whether a PATCH is a restore is decided by a status read before (`videos.service.ts:2296`): a disable in between is
  undone for the video and not for its links. A second member disabled between a restore's snapshot and its write ends
  with an ACTIVE link (`raced` marks it, `DarkUnlessRaced` is the rest).
- Two restores of two members of one link at once: each snapshot shows the other video DISABLED, neither revives the
  link, and it stays dark with nothing disabled in it (`stranded`).
- A replacement of a database file without a status writes back the one it read before it read the file
  (`videos.service.ts:2051`): a disable or a restore committed meanwhile is undone for the video and not for its links.
- `assignVideos` may assign a video that is no longer READY: it was when the videos were looked up.
- Two assignments that both found a website without a domain leave it with two (`overtaken`).
- `getPublicDatabaseVideoBinary` reads size and bytes in two queries: a replacement in between mixes them.

On single requests:

- A replacement of a database file with status DISABLED (`videos.service.ts:2051`) sweeps no link, so that ACTIVE links
  carry a disabled video, where `share-links.md` (section 5) has disabling a video sweep them (`unswept`).
- A video that leaves DISABLED otherwise than by DISABLED to READY in one PATCH (to FAILED and then READY, by a
  replacement, or by a purge that leaves the link other members) leaves its links dark with nothing disabled in them;
  `reconcile:share-links` lights those, except where a member was purged, and so does disabling and restoring a member
  once more (`stranded`).
- `VideoMetadataService.fetchWithTimeout` clears its timer when the headers are there, so that the body is not bounded
  by `VIDEO_METADATA_PROBE_TIMEOUT_MS`; without a Content-Length the size is compared after everything was read.
- `ADMIN_REGISTER_ENABLED` is on by default outside production, but `validateEnv` does not require
  `ADMIN_REGISTER_SECRET`; its lack shows when it is used.
- A READY video whose playback URL is an administrator's endpoint, or whose remote is missing, is listed without a source.
- The poster address of a stale cached row may be advertised and answer 404.
- `VIDEO_UPLOAD_MAX_MB` may be set above the 500 MB that the route's transport takes.

## 5. Proofs

For every value of the constants that satisfies the named assumptions. Every invariant, action property and refinement
that a passing run checks is a theorem; what is left to TLC is at the end of the section.

**VideoLifecycles_proofs, on ShareLinkLifecycle.** `DarkUnlessRaced` is not inductive: a restore writes what it chose
earlier. The invariant adds `PendingRevivalsAreSound` (what is chosen and not yet written is fit, or marked) and the
type invariant. `DarkForAReason` adds `PendingRestoresAreComplete`: what an open restore has left out is kept dark by
another disabled member, or is marked; each way a status changes has a lemma about what it marks. `EmptiedLinkIsDark`
needs the pending revivals as well: a restore must not revive a link emptied meanwhile. `RevocationIsFinal` follows for
`FirstUpdaterWins`: the snapshot's links are still DISABLED when written.

**VideoLifecycles_proofs, on LocalUpload.** `IInv` is the type invariant and six parts. `KeysAreOwn`: a storage key
holds the attempt that wrote it, so no two attempts share a file; the types of the merged file need it, because the file
is read back from the parts. `Ownership`: a completion past its claim is the only one, because the claim asks for ACTIVE
and no transition returns to it; `CompletionIsOwned` follows. `Stored`: while the session is ACTIVE nobody is about to
remove the directory, and what a request is about to commit is on disk; `AcknowledgedChunksAreStored` follows. `Files`:
the final file is whole and was compared from its check on, and no request that completes is left once the video exists;
`VideoHasItsFile` follows. `FinalHasOwner` and `DiskHasOwner`: without mishaps a final file without a video belongs to
the request that completes, and a closed upload's parts to a request that removes them; `NothingIsLeftBehind` follows.
Each part has one lemma, with one step per action.

**VideoLifecycles_proofs, on UploadLimits and VideoMetadata.** An accepted plan can be sent (`PlansCanBeSent`) and its
chunks, at the sizes the session expects, add up to the file with none left over (`ChunksMakeUpTheFile`), for all limits
and plans: `ExpectedSizes` computes the last chunk from `totalChunks` being the quotient rounded up. `ProbedPartsFit`
says the same of the parts of a file the probe reads. `HeadersAreFound` is about the box search, a recursive function on
<<offset, end, depth>>: every box ends within what holds it (`BoxesFit`), so that both what it holds and what follows it
leave fewer bytes to search (`StepsShorten`); that there is a function that solves the equation (`SearchEnds`), and that
its values are durations, is proved by taking the smallest number of bytes at which either failed. The hypothesis
`IsBuffer` is that what is read at an offset are natural numbers and a type.

**AdminAuth_proofs.** Type correctness, and the safety invariants listed in `PROJECT.json`, from one inductive invariant
that relates a session to the version of the account it was opened under and to the requests in flight.
`LiveTokenIsBacked` and `TokensFormAChain` follow from it together: the conditional update spends a token once.

**PublicWatch_proofs.** Three invariants, each with the types. `FreshInv`: the history `seen` of a request in flight is
compared with the present (`Seeing`: what is true now has been seen) and with how far the request is (`Examined`: what
it read or claimed has been seen). `AnswersAreFresh` is not inductive without the first, because a later change of the
rows would otherwise find the history behind, nor without the second, because an answer is given one step after the last
read. A request answered from the entry has read nothing, and owes all it promises to the claim. `BudgetInv`: on a
budgeted link the answers given and the requests between claim and answer (`Claimed`, a finite set that each claim
enlarges by one and each answer or failure reduces) together do not exceed `views`, and nobody holds a session or
resumes one, which would pass the claim by. `SessionInv`: on a link without terms every exchange in flight has a session
and every resumption one no longer than the reviewer's; `TokensDieWithSession` follows since the token is the lesser.

**PublicMedia_proofs.** `AuthorizedInv` adds to `StreamsAreAuthorized` the same two comparisons of history, present and
progress, and `EntriesAreBounded`: a hit asks the database nothing, so that its authorization is that of the entry,
which exists only for a link without a budget and for less time than the link has left. `StaleInv`: what a request has
read while filling an entry still holds (`StillAdmitted`), unless a change was noticed (`Noticed`: about to be
invalidated, made elsewhere, or overtaken by an invalidation that came first); that is `StaleOnlyIfUnnoticed` before the
entry exists. Of MediaRanges: a well-formed header is answered with exactly the bytes it asks for (`RangesAreExact`, for
sizes and numbers up to `MaxSafe`), and every route sends as many bytes as it announces (`AnswersAreWhole`, also if the
row is replaced or deleted between its two reads). Of PublicSources, for any configuration and row:
`ListedVideosHaveSources`, `AdvertisedPostersAreServed`, `SignaturesAreCurrent` and `NothingRawIsAnswered`. Their
hypothesis `IsRow` is that `None` is no address, and that a row's embed and poster are none of the addresses the API
makes when it answers.

**CanonicalShareLink_proofs.** `IInv` is the type invariant and seven parts. Three summaries carry the argument, each
proved once per action: `RowsEvolve` (revocations, rows, aliases and purges are for good; a row is born as a bundle or
together with the mapping of its pair), `Anchoring` (a mapping is only added, to the operator's choice, the newest link
or a fresh one) and `Moved` (the ten ways a call moves); the parts of the invariant follow from them alone.
`LoadedIsAnchor`: what a call has read of the identity never goes stale, since mappings do not change; it gives the
refinement, `IdentityIsKept`. `ChosenIsExact`: a chosen link shows the video until a purge, and a purge makes
`Insertable` false. `DarkIsBarred`: the revoked link of a dark pair (`Bars`) is newer than every link that was issued
for the pair alone, so what is pinned later is that link, which is refused, or is `Excused`; this needs the links
numbered (`Links` a set of naturals), `members` within `issued`, and that a fresh link needs an empty history.

**ViewGrowth_proofs.** `HourInv` is the type invariant, `Sound` (how far a transaction is and what it holds by then; the
committed total and the increment of whoever holds the bucket fit the cap together) and `Exclusive` (one holder per
hour), so that `HourIsCapped` survives `Commit`. `PaceInv` adds that a report's `most` respects every event in `after`
(`Paced`), and that those events stay, under keys no other event has or will get (`KeysInv`). `BooksInv` is `BooksAgree`
with `Standing` (a report past its snapshot has a bucket or has opened one, and adds nothing to a bucket it does not
hold) and finiteness of the events. `Increments`, the sum over a set of events, is a recursive function on sets: that it
is the sum, whichever element is taken first, and grows by the increment of an event that is added, are lemmas whose
induction is over the smallest set that is a counterexample (`SmallestSet`, from the library's theorem that strict
subset on finite sets is well-founded). `Commit` then adds the same increment to counter, bucket and events, and a purge
takes all three away. The module also proves, of ConfigurationReaders, that a reader that covers the validated bounds
with the same default keeps the value, that all readers do, and that the growth settings of every accepted environment
satisfy `ValidSettings`, the assumption of the model.

**PublishedHosts_proofs, on WebsiteDomains.** `IInv` is the types, `Grounded` (the rows a request has in hand exist,
whatever became of them since), `Fresh` (what it found still holds, unless others have written since it looked:
`passed`), `Placed` (a domain is assigned to a website that exists) and, while nothing was overtaken, `Order`. A write
by a request that was passed sets `overtaken`; the others write what `Fresh` says they found, which keeps `Order`. The
refinement (`LiveHostsAreAnnounced`) needs that every step that changes the live hosts leaves its request at the
invalidation, and that a request with an invalidation to do writes nothing.

**PublishedHosts_proofs, on ReadThroughCaches.** `CachesInv` is the types, `Recent` (what a lookup has read, and what is
cached, was live no longer ago than its list has lived), `Joined` (the promise belongs to the one running load that
nothing has dropped) and `Accurate` (what was read since the last invalidation is current, unless one is owed or lost).
The writers of the model are any that satisfy `PublishedHosts`; `WritersPublish` shows that the composed specification
implements it, so that `LiveHostsAreAnnounced` of WebsiteDomains is all that is asked of the administrators' requests.

**VideoStorage_proofs.** `IInv` is the types, `RequestSound` of each request (what it has in hand agrees with the rows,
although others have written since), `Apart` of each two requests (none touches what another has stored), `RowsSound`
(no two rows name one asset) and `AssetSound` of each asset (named and backed, or held, or written off). The steps are
gathered in summaries (`RowlessKeeps`, `RowingKeeps`, `EditKeeps`, `WorldKeeps`), each proved once about what a step
takes, brings and leaves; each action is shown to be one of them.

**Only model-checked.** Liveness (`RevocationTakesHold`, `CachesCatchUp`): the prover treats neither fairness nor
ENABLED. Of the pure operators, only evaluated by the ASSUMEs of the MC modules: own posters and relays
(`OwnPosterIsServed`, `RelayIsCapped`), the packet limit of blobs (`BlobsFit`), the two fields the probe reads of a
header, and, of `validateEnv`, what is required together, the comparisons between settings and the single throttler. The
library's induction rules cannot be instantiated here; where induction was needed (sums, the box search) it is the
absence of a smallest counterexample. That the assumptions can be met is seen in the runs, which satisfy each of them.

## 6. Plan

Done: every module above, and proofs for every module that keeps state. What would come next:

1. The statements about pure operators that are only evaluated, and `Accepted` for every environment.
2. The order of `.env` files, and path safety of the local storage, as pure operators.

**Not modelled.**

- HTTP surface (controllers' decorators, filters, cookies, request metadata): maps requests to the services and keeps no
  state; what of it matters (limits of transports, throttle profiles, who may call) is in the guards.
- Diagnostics, health, and the audit, backup, smoke and storage scripts: they read or copy; nothing of what the
  modules keep depends on them. The two reconciliation scripts, which write, are in ShareLinkLifecycle.
- Schema and migrations: the unique and foreign keys are in the guards; the migrations are SQL that runs once.
- Domain groups and the metadata of videos and websites: attributes that no decision of the modelled code reads.
- The signature of grants, tokens and embeds, passwords, and the texts of requests: a credential is held or not.
- Engine internals: statements are atomic, and locks are modelled where the code's result depends on who waits.
