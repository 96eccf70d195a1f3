------------------------- MODULE CanonicalShareLink -------------------------
(***************************************************************************)
(* The canonical share link of a website and a video: the one public URL   *)
(* that takedown records and reviewers' bookmarks are built on.            *)
(*                                                                         *)
(* createOrGetCanonical reuses the pair's mapping, pins the newest old     *)
(* link, or mints a link, in Serializable transactions that race with each *)
(* other, with the operator's adoption, and with everything an             *)
(* administrator does meanwhile to links, videos and domains.              *)
(*                                                                         *)
(* One website.  A Serializable transaction is one step; the reads before  *)
(* and after it are steps of their own.  Each request runs once.           *)
(***************************************************************************)
EXTENDS Integers, FiniteSets

CONSTANTS
    Videos,       \* rows of VideoAsset
    Links,        \* rows of ShareLink, numbered in the order of createdAt, id
    Legacy,       \* the single-video links older than the canonical mapping
    Domains,      \* rows of WebsiteDomain
    Hosts,        \* what their domain column may hold
    Evidence,     \* fingerprints of a video's identity
    Requests,     \* calls of createOrGetCanonical
    Operators,    \* calls of adoptExistingShareLink
    Asked,        \* bound: the videos calls are about
    MaxAttempts,  \* CANONICAL_CREATE_MAX_ATTEMPTS
    MaxActs,      \* bound: administrative operations, but restores and purges
    None

ASSUME CanonicalAssumption ==
    /\ Links \subseteq Nat
    /\ Legacy \subseteq Links
    /\ Requests \cap Operators = {}
    /\ Asked \subseteq Videos
    /\ MaxAttempts \in Nat \ {0}
    /\ MaxActs \in Nat
    /\ None \notin Links \cup Domains \cup Hosts \cup Evidence \cup Videos
                    \cup Requests \cup Operators
    /\ None \notin [link : Links, domain : Domains, host : Hosts,
                    evidence : Evidence, by : Requests \cup Operators]

VARIABLES
    website,      \* the website is ACTIVE
    videoStatus,  \* READY (and playable), DISABLED or PURGED
    assigned,     \* videos with an ACTIVE assignment to the website
    evidence,     \* fingerprint of the video, None while it is incomplete
    purging,      \* purges that counted no mapping and have not committed
    linkStatus,   \* ShareLink.status, NONE before the row exists
    members,      \* its ShareLinkVideo rows
    issued,       \* the members it was created with
    pinnable,     \* links with an alias, without expiry and view limit
    token,        \* transportAlias: None or the request that minted it
    mapping,      \* the CanonicalVideoShareLink row of the video, or None
    held,         \* domains assigned to the website
    enabled,      \* domains that are ACTIVE
    host,         \* the domain column
    moving,       \* domain updates that counted no mapping, not yet written
    acts,         \* administrative operations so far
    request       \* the calls

videoRows == <<videoStatus, assigned, evidence, purging>>
linkRows == <<linkStatus, members, issued, pinnable, token>>
domainRows == <<held, enabled, host, moving>>
vars == <<website, videoRows, linkRows, domainRows, mapping, acts, request>>

Callers == Requests \cup Operators
LinkStatus == {"NONE", "ACTIVE", "DISABLED", "REVOKED"}
Mapping == [link : Links, domain : Domains, host : Hosts, evidence : Evidence,
            by : Callers]
Request == [pc : {"idle", "load", "create", "conflict", "check", "claim", "reread",
                  "adoptRead", "adopt", "answered", "refused"},
            video : Videos \cup {None}, attempt : 1..MaxAttempts,
            link : Links \cup {None}, token : Callers \cup {None},
            domain : Domains \cup {None}, host : Hosts \cup {None},
            evidence : Evidence \cup {None},
            revoked : SUBSET Links,  \* history: revoked when the call began
            dark : BOOLEAN]          \* history: the pair was, see Dark
Idle == [pc |-> "idle", video |-> None, attempt |-> 1, link |-> None,
         token |-> None, domain |-> None, host |-> None,
         evidence |-> None, revoked |-> {}, dark |-> FALSE]

TypeOK ==
    /\ website \in BOOLEAN
    /\ videoStatus \in [Videos -> {"READY", "DISABLED", "PURGED"}]
    /\ assigned \subseteq Videos
    /\ evidence \in [Videos -> Evidence \cup {None}]
    /\ purging \subseteq Videos
    /\ linkStatus \in [Links -> LinkStatus]
    /\ members \in [Links -> SUBSET Videos]
    /\ issued \in [Links -> SUBSET Videos]
    /\ pinnable \subseteq Links
    /\ token \in [Links -> Callers \cup {None}]
    /\ mapping \in [Videos -> Mapping \cup {None}]
    /\ held \subseteq Domains
    /\ enabled \subseteq Domains
    /\ host \in [Domains -> Hosts]
    /\ moving \in [Domains -> {"still", "unassign", "rename"}]
    /\ acts \in 0..MaxActs
    /\ request \in [Callers -> Request]

\* A catalogue from before the mapping existed: single-video links that work or
\* are revoked, no transport alias, one domain on the website.
Init ==
    /\ website = TRUE
    /\ videoStatus = [v \in Videos |-> "READY"]
    /\ assigned = Videos
    /\ evidence \in {[v \in Videos |-> e] : e \in Evidence \cup {None}}
    /\ purging = {}
    /\ linkStatus \in [Links -> {"NONE", "ACTIVE", "REVOKED"}]
    /\ \A l \in Links : linkStatus[l] = "NONE" <=> l \notin Legacy
    /\ members \in [Links -> {{}} \cup {{v} : v \in Videos}]
    /\ \A l \in Links : members[l] = {} <=> l \notin Legacy
    /\ issued = members
    /\ pinnable \in SUBSET Legacy
    /\ token = [l \in Links |-> None]
    /\ mapping = [v \in Videos |-> None]
    /\ held \in {{d} : d \in Domains}
    /\ enabled = Domains
    /\ host \in [Domains -> Hosts]
    /\ \A d, e \in Domains : host[d] = host[e] => d = e
    /\ moving = [d \in Domains |-> "still"]
    /\ acts = 0
    /\ request = [r \in Callers |-> Idle]

-----------------------------------------------------------------------------
(* What the requests read.                                                 *)

\* validateShareLinkVideoEligibility for one video.
Eligible(v) == videoStatus[v] = "READY" /\ v \in assigned

\* The website's ACTIVE domains; which of several is first depends on isPrimary.
Anchors == {d \in held \cap enabled : website}

\* findExactSingleVideoCandidates: whatever their status.
Exact(v) == {l \in Links : linkStatus[l] # "NONE" /\ members[l] = {v}}

\* selectCanonicalHistoricalWinner: the newest of them.
Newest(l, v) == l \in Exact(v) /\ \A m \in Exact(v) : m <= l

Anchored(l, v) == mapping[v] # None /\ mapping[v].link = l

\* assessHistoricalWinnerPinnability.
Pinnable(l, v) ==
    l \in pinnable /\ \A w \in Videos \ {v} : ~Anchored(l, w)

\* The next row to be created.
Fresh(l) ==
    linkStatus[l] = "NONE" /\ \A m \in Links : m < l => linkStatus[m] # "NONE"

At(r, pc) == request[r].pc = pc
Video(r) == request[r].video
Goto(r, pc) == request' = [request EXCEPT ![r].pc = pc]

Revoked(v) == {l \in Links : linkStatus[l] = "REVOKED" /\ v \in members[l]}

\* The pair has no mapping and its newest link was revoked.
Dark(v) ==
    mapping[v] = None /\ \E l \in Links : Newest(l, v) /\ linkStatus[l] = "REVOKED"

\* Mutant: the status is not looked at.
UsableAny(l, v) == l \in pinnable /\ members[l] = {v}

\* assertReusable on the loaded row: its status, then its contract.
Usable(l, v) == linkStatus[l] = "ACTIVE" /\ l \in pinnable /\ members[l] = {v}

\* isCompatibilityUrlEligible: what the answer says of the transport alias.
Compatibility(l, v) == IF Usable(l, v) THEN token[l] ELSE None

\* An exception ends the call, toResponse ends it with the link and the transport
\* alias it was told of; what else it had read is gone.
Refuse(r) == request' = [request EXCEPT ![r] = [Idle EXCEPT !.pc = "refused"]]
Answer(r, l, t) ==
    request' = [request EXCEPT ![r] =
        [Idle EXCEPT !.pc = "answered", !.video = Video(r), !.link = l, !.token = t,
                     !.revoked = request[r].revoked, !.dark = request[r].dark]]

\* reuseCanonical on the row m of the pair, as it is read now.
Reuse(r, m) ==
    IF Usable(m.link, Video(r))
    THEN request' = [request EXCEPT ![r] = [@ EXCEPT
            !.pc = "check", !.link = m.link, !.token = token[m.link],
            !.domain = m.domain, !.host = m.host, !.evidence = m.evidence]]
    ELSE Refuse(r)

-----------------------------------------------------------------------------
(* createOrGetCanonical.                                                   *)

\* ensureActiveWebsite.
Begin(r, v) ==
    /\ At(r, "idle")
    /\ website
    /\ request' = [request EXCEPT ![r] = [Idle EXCEPT
          !.pc = "load", !.video = v,
          !.revoked = Revoked(v), !.dark = Dark(v)]]
    /\ UNCHANGED <<website, videoRows, linkRows, domainRows, mapping, acts>>

\* loadCanonical, before the first transaction and before every retry.
Load(r) ==
    /\ At(r, "load")
    /\ UNCHANGED <<website, videoRows, linkRows, domainRows, mapping, acts>>
    /\ LET m == mapping[Video(r)] IN
        IF m = None THEN Goto(r, "create") ELSE Reuse(r, m)

\* The transaction finds a precondition gone, or a newest link that cannot be
\* pinned, and writes nothing.
CreateRefused(r) ==
    /\ At(r, "create")
    /\ LET v == Video(r) IN
        \/ ~Eligible(v) \/ Anchors = {} \/ evidence[v] = None
        \/ \E l \in Links : Newest(l, v) /\ ~Pinnable(l, v)
    /\ Refuse(r)
    /\ UNCHANGED <<website, videoRows, linkRows, domainRows, mapping, acts>>

\* The unique key on the pair: somebody wrote the mapping first.
CreateConflict(r) ==
    /\ At(r, "create")
    /\ LET v == Video(r) IN
        /\ Eligible(v) /\ Anchors # {} /\ evidence[v] # None
        /\ \A l \in Links : Newest(l, v) => Pinnable(l, v)
        /\ mapping[v] # None
    /\ Goto(r, "conflict")
    /\ UNCHANGED <<website, videoRows, linkRows, domainRows, mapping, acts>>

\* The winner is loaded and reused.  It is there: no mapping is ever deleted.
ConflictLoad(r) ==
    /\ At(r, "conflict")
    /\ mapping[Video(r)] # None
    /\ UNCHANGED <<website, videoRows, linkRows, domainRows, mapping, acts>>
    /\ Reuse(r, mapping[Video(r)])

\* Mutant: the attempts are not counted out.
CreateRetryForever(r) ==
    /\ At(r, "create")
    /\ request' = [request EXCEPT ![r].pc = "load", ![r].attempt = @ + 1]
    /\ UNCHANGED <<website, videoRows, linkRows, domainRows, mapping, acts>>

\* A write conflict (P2034) or a token collision: five attempts at most.
CreateRetry(r) ==
    /\ At(r, "create")
    /\ IF request[r].attempt < MaxAttempts
       THEN request' = [request EXCEPT ![r].pc = "load", ![r].attempt = @ + 1]
       ELSE Refuse(r)
    /\ UNCHANGED <<website, videoRows, linkRows, domainRows, mapping, acts>>

Row(r, l, d) == [link |-> l, domain |-> d, host |-> host[d],
                 evidence |-> evidence[Video(r)], by |-> r]

\* The mapping to the newest old link is committed; reuseCanonical decides after
\* that whether the link may be handed out.
CreatePin(r, l, d) ==
    /\ At(r, "create")
    /\ LET v == Video(r) IN
        /\ Eligible(v) /\ d \in Anchors /\ evidence[v] # None
        /\ Newest(l, v) /\ Pinnable(l, v)
        /\ mapping[v] = None
        /\ mapping' = [mapping EXCEPT ![v] = Row(r, l, d)]
    /\ UNCHANGED <<website, videoRows, linkRows, domainRows, acts>>
    /\ Reuse(r, Row(r, l, d))

\* Mutant: links that do not work are no candidates.
HasNoWorkingHistory(v) == \A l \in Exact(v) : linkStatus[l] # "ACTIVE"

\* No candidate at all.
HasNoHistory(v) == Exact(v) = {}

\* A pair without any history gets a link of its own.
CreateMint(r, l, d) ==
    /\ At(r, "create")
    /\ LET v == Video(r) IN
        /\ Eligible(v) /\ d \in Anchors /\ evidence[v] # None
        /\ HasNoHistory(v) /\ mapping[v] = None
        /\ Fresh(l)
        /\ linkStatus' = [linkStatus EXCEPT ![l] = "ACTIVE"]
        /\ members' = [members EXCEPT ![l] = {v}]
        /\ issued' = [issued EXCEPT ![l] = {v}]
        /\ mapping' = [mapping EXCEPT ![v] = Row(r, l, d)]
    /\ pinnable' = pinnable \cup {l}
    /\ token' = [token EXCEPT ![l] = r]
    /\ Answer(r, l, r)
    /\ UNCHANGED <<website, videoRows, domainRows, acts>>

\* assertReusable goes on with the recorded domain, the video and its fingerprint:
\* three reads, each of which can only refuse.  A link with a transport alias is
\* then answered from the row as loaded.
Check(r) ==
    /\ At(r, "check")
    /\ LET q == request[r]
           reusable ==
            /\ q.domain \in held \cap enabled /\ host[q.domain] = q.host
            /\ Eligible(q.video)
            /\ evidence[q.video] = q.evidence
       IN  \/ ~reusable /\ Refuse(r)
           \/ reusable /\ q.token = None /\ Goto(r, "claim")
           \/ reusable /\ q.token # None /\ Answer(r, q.link, q.token)
    /\ UNCHANGED <<website, videoRows, linkRows, domainRows, mapping, acts>>

\* Mutant: the update does not ask that the alias is still missing.
ClaimAnyway(r) ==
    /\ At(r, "claim")
    /\ LET l == request[r].link IN
        token' = IF linkStatus[l] = "ACTIVE" THEN [token EXCEPT ![l] = r] ELSE token
    /\ Goto(r, "reread")
    /\ UNCHANGED <<website, videoRows, linkStatus, members, issued, pinnable,
                   domainRows, mapping, acts>>

\* ensureTransportAlias: the conditional update; who loses it changes nothing.
Claim(r) ==
    /\ At(r, "claim")
    /\ LET l == request[r].link IN
        token' = IF token[l] = None /\ linkStatus[l] = "ACTIVE"
                 THEN [token EXCEPT ![l] = r] ELSE token
    /\ Goto(r, "reread")
    /\ UNCHANGED <<website, videoRows, linkStatus, members, issued, pinnable,
                   domainRows, mapping, acts>>

\* The row is read again and is what the answer says.
Reread(r) ==
    /\ At(r, "reread")
    /\ LET m == mapping[Video(r)] IN
        m # None /\ Answer(r, m.link, Compatibility(m.link, Video(r)))
    /\ UNCHANGED <<website, videoRows, linkRows, domainRows, mapping, acts>>

-----------------------------------------------------------------------------
(* adoptExistingShareLink: what it asks for is read before its transaction. *)

AdoptBegin(o, v, l) ==
    /\ At(o, "idle")
    /\ website
    /\ Usable(l, v)
    /\ request' = [request EXCEPT ![o] = [Idle EXCEPT
          !.pc = "adoptRead", !.video = v, !.link = l,
          !.revoked = Revoked(v)]]
    /\ UNCHANGED <<website, videoRows, linkRows, domainRows, mapping, acts>>

\* The video, the domain and the evidence, as they will be recorded.
AdoptRead(o) ==
    /\ At(o, "adoptRead")
    /\ LET v == Video(o) IN
        \/ /\ ~Eligible(v) \/ Anchors = {} \/ evidence[v] = None
           /\ Refuse(o)
        \/ /\ Eligible(v) /\ evidence[v] # None
           /\ \E d \in Anchors : request' = [request EXCEPT ![o] = [@ EXCEPT
                !.pc = "adopt", !.domain = d, !.host = host[d],
                !.evidence = evidence[v]]]
    /\ UNCHANGED <<website, videoRows, linkRows, domainRows, mapping, acts>>

\* Mutant: a pair may be mapped again.
InsertableAgain(v, l) ==
    videoStatus[v] # "PURGED" /\ \A w \in Videos \ {v} : ~Anchored(l, w)

\* The unique keys on the pair and on the link, and the reference to the video.
Insertable(v, l) ==
    /\ mapping[v] = None
    /\ videoStatus[v] # "PURGED"
    /\ \A w \in Videos : ~Anchored(l, w)

AdoptWrite(o) ==
    /\ At(o, "adopt")
    /\ LET v == Video(o)
           q == request[o] IN
        IF Insertable(v, q.link)
        THEN /\ mapping' = [mapping EXCEPT ![v] =
                    [link |-> q.link, domain |-> q.domain, host |-> q.host,
                     evidence |-> q.evidence, by |-> o]]
             /\ Answer(o, q.link, Compatibility(q.link, v))
        ELSE Refuse(o) /\ UNCHANGED mapping
    /\ UNCHANGED <<website, videoRows, linkRows, domainRows, acts>>

-----------------------------------------------------------------------------
(* What administrators do meanwhile.  ShareLinkLifecycle has the races      *)
(* inside the first four; here each is one step.                            *)

Act == acts < MaxActs /\ acts' = acts + 1

RevokeShareLink(l) ==
    /\ Act
    /\ linkStatus[l] \in {"ACTIVE", "DISABLED"}
    /\ linkStatus' = [linkStatus EXCEPT ![l] = "REVOKED"]
    /\ UNCHANGED <<website, videoRows, members, issued, pinnable, token,
                   domainRows, mapping, request>>

\* createShareLink for several videos, with or without an expiry or a view
\* limit.  Bound: a row stays free for each pair that may need one minted.
CreateBundle(l, S) ==
    /\ Act
    /\ website /\ Anchors # {}
    /\ Cardinality(S) > 1 /\ \A v \in S : Eligible(v)
    /\ Fresh(l)
    /\ Cardinality({m \in Links : linkStatus[m] = "NONE"})
         > Cardinality({v \in Asked : HasNoHistory(v)})
    /\ linkStatus' = [linkStatus EXCEPT ![l] = "ACTIVE"]
    /\ members' = [members EXCEPT ![l] = S]
    /\ issued' = [issued EXCEPT ![l] = S]
    /\ pinnable' \in {pinnable, pinnable \cup {l}}
    /\ UNCHANGED <<website, videoRows, token, domainRows, mapping, request>>

\* PATCH to DISABLED: the ACTIVE links of the video go dark.
DisableVideo(v) ==
    /\ Act
    /\ videoStatus[v] = "READY"
    /\ videoStatus' = [videoStatus EXCEPT ![v] = "DISABLED"]
    /\ linkStatus' = [l \in Links |->
          IF v \in members[l] /\ linkStatus[l] = "ACTIVE" THEN "DISABLED"
          ELSE linkStatus[l]]
    /\ UNCHANGED <<website, assigned, evidence, purging, members, issued,
                   pinnable, token, domainRows, mapping, request>>

\* PATCH back to READY: the DISABLED links whose other videos are not disabled.
RestoreVideo(v) ==
    /\ videoStatus[v] = "DISABLED"
    /\ videoStatus' = [videoStatus EXCEPT ![v] = "READY"]
    /\ linkStatus' = [l \in Links |->
          IF v \in members[l] /\ linkStatus[l] = "DISABLED"
             /\ \A w \in members[l] \ {v} : videoStatus[w] # "DISABLED"
          THEN "ACTIVE" ELSE linkStatus[l]]
    /\ UNCHANGED <<website, assigned, evidence, purging, members, issued,
                   pinnable, token, domainRows, mapping, acts, request>>

\* updateVideoAssignments.
Reassign(v) ==
    /\ Act
    /\ IF v \in assigned THEN assigned' = assigned \ {v}
       ELSE videoStatus[v] = "READY" /\ assigned' = assigned \cup {v}
    /\ UNCHANGED <<website, videoStatus, evidence, purging, linkRows, domainRows,
                   mapping, request>>

\* An edit that changes the fingerprint: title, source, checksum.
EditVideo(v, e) ==
    /\ Act
    /\ videoStatus[v] # "PURGED"
    /\ evidence[v] # e
    /\ evidence' = [evidence EXCEPT ![v] = e]
    /\ UNCHANGED <<website, videoStatus, assigned, purging, linkRows, domainRows,
                   mapping, request>>

\* purgeVideo counts the mappings of the video first.
PurgeCount(v) ==
    /\ videoStatus[v] # "PURGED" /\ v \notin purging
    /\ mapping[v] = None
    /\ purging' = purging \cup {v}
    /\ UNCHANGED <<website, videoStatus, assigned, evidence, linkRows, domainRows,
                   mapping, acts, request>>

\* Mutant: the count made before the transaction is all there is.
DeletableAsCounted(v) == videoStatus[v] = "DISABLED"

\* ON DELETE RESTRICT of the mapping's reference to the video.
Deletable(v) == videoStatus[v] = "DISABLED" /\ mapping[v] = None

\* Then its transaction detaches the video from every link and deletes it, or is
\* rolled back as a whole.
PurgeCommit(v) ==
    /\ v \in purging
    /\ purging' = purging \ {v}
    /\ IF Deletable(v)
       THEN /\ videoStatus' = [videoStatus EXCEPT ![v] = "PURGED"]
            /\ assigned' = assigned \ {v}
            /\ linkStatus' = [l \in Links |->
                  IF v \in members[l] /\ linkStatus[l] = "ACTIVE" THEN "DISABLED"
                  ELSE linkStatus[l]]
            /\ members' = [l \in Links |-> members[l] \ {v}]
       ELSE UNCHANGED <<videoStatus, assigned, linkStatus, members>>
    /\ UNCHANGED <<website, evidence, issued, pinnable, token, domainRows, mapping,
                   acts, request>>

\* disableWebsite, and updateWebsite back to ACTIVE.
ToggleWebsite ==
    /\ Act
    /\ website' = ~website
    /\ UNCHANGED <<videoRows, linkRows, domainRows, mapping, request>>

\* unassignDomainFromWebsite and a change of host: the mappings anchored to the
\* domain are counted, the update follows.
MoveCount(d, what) ==
    /\ Act
    /\ moving[d] = "still"
    /\ what = "unassign" => d \in held
    /\ \A v \in Videos : mapping[v] # None => mapping[v].domain # d
    /\ moving' = [moving EXCEPT ![d] = what]
    /\ UNCHANGED <<website, videoRows, linkRows, held, enabled, host, mapping,
                   request>>

UnassignDomain(d) ==
    /\ moving[d] = "unassign"
    /\ held' = held \ {d}
    /\ moving' = [moving EXCEPT ![d] = "still"]
    /\ UNCHANGED <<website, videoRows, linkRows, enabled, host, mapping, acts,
                   request>>

\* The domain column is unique.
RenameDomain(d, h) ==
    /\ moving[d] = "rename"
    /\ \A e \in Domains : host[e] # h
    /\ host' = [host EXCEPT ![d] = h]
    /\ moving' = [moving EXCEPT ![d] = "still"]
    /\ UNCHANGED <<website, videoRows, linkRows, held, enabled, mapping, acts,
                   request>>

\* assignDomainToWebsite, with replaceExisting where there is another domain; two
\* assignments at a time are left out.
AssignDomain(d) ==
    /\ Act
    /\ website
    /\ d \in enabled \ held
    /\ held' = {d}
    /\ UNCHANGED <<website, videoRows, linkRows, enabled, host, moving, mapping,
                   request>>

\* disableStandaloneDomain wants it unassigned; activateStandaloneDomain does not.
ToggleDomain(d) ==
    /\ Act
    /\ IF d \in enabled THEN d \notin held /\ enabled' = enabled \ {d}
       ELSE enabled' = enabled \cup {d}
    /\ UNCHANGED <<website, videoRows, linkRows, held, host, moving, mapping,
                   request>>

-----------------------------------------------------------------------------

CallStep(r) ==
    \/ Load(r) \/ CreateRefused(r) \/ CreateConflict(r) \/ ConflictLoad(r)
    \/ CreateRetry(r)
    \/ \E l \in Links, d \in Domains : CreatePin(r, l, d) \/ CreateMint(r, l, d)
    \/ Check(r) \/ Claim(r) \/ Reread(r)

AdoptStep(o) == AdoptRead(o) \/ AdoptWrite(o)

Administration ==
    \/ \E l \in Links : RevokeShareLink(l)
    \/ \E l \in Links, S \in SUBSET Videos : CreateBundle(l, S)
    \/ \E v \in Videos :
        \/ DisableVideo(v) \/ RestoreVideo(v) \/ Reassign(v)
        \/ PurgeCount(v) \/ PurgeCommit(v)
        \/ \E e \in Evidence : EditVideo(v, e)
    \/ ToggleWebsite
    \/ \E d \in Domains :
        \/ MoveCount(d, "unassign") \/ MoveCount(d, "rename")
        \/ UnassignDomain(d) \/ AssignDomain(d) \/ ToggleDomain(d)
        \/ \E h \in Hosts : RenameDomain(d, h)

Next ==
    \/ \E r \in Requests : CallStep(r) \/ \E v \in Asked : Begin(r, v)
    \/ \E o \in Operators :
        AdoptStep(o) \/ \E v \in Asked, l \in Links : AdoptBegin(o, v, l)
    \/ Administration

Spec == Init /\ [][Next]_vars

-----------------------------------------------------------------------------
(* Properties.                                                             *)

\* The pair's identity is a register that is written once, and every answer ever
\* given for the pair is that identity, whoever raced: see WriteOnceIdentity.
answers ==
    {<<Video(r), request[r].link>> : r \in {c \in Callers : At(c, "answered")}}
Identity == INSTANCE WriteOnceIdentity
              WITH identity <- [v \in Videos |->
                      IF mapping[v] = None THEN None ELSE mapping[v].link]
IdentityIsWriteOnce == Identity!Spec

\* An anchored link is what the record says of it, for good: it shows exactly the
\* video, which is still there, it can be handed out, and it anchors one pair.
\* Purges count before their transaction, the operator reads before its own.
AnchorIsExact ==
    \A v \in Videos : mapping[v] # None =>
        /\ members[mapping[v].link] = {v}
        /\ mapping[v].link \in pinnable
        /\ videoStatus[v] # "PURGED"
        /\ \A w \in Videos \ {v} : ~Anchored(mapping[v].link, w)

\* A revocation committed before a call began holds for the call: it is never
\* answered with that link.
RevocationIsHonoured ==
    \A r \in Callers : At(r, "answered") => request[r].link \notin request[r].revoked

\* A pair whose newest link was revoked gets no replacement: a call that begins
\* then is answered only if the operator chose a link, or if a purge had meanwhile
\* shrunk a newer bundle to this one video.
RevokedPairStaysDark ==
    \A r \in Requests : At(r, "answered") /\ request[r].dark =>
        \/ mapping[Video(r)].by \in Operators
        \/ issued[request[r].link] # {Video(r)}

\* The transport alias a caller was told of is the link's for good, whoever else
\* was filling it in at the time.
TransportAliasIsStable ==
    \A r \in Callers : At(r, "answered") =>
        request[r].token \in {None, token[request[r].link]}

\* canonical-share-link-runbook.md: "domain host rename / unassign | BLOCKED ...
\* disable/transfer are transitively blocked because they require unassign first".
AnchorKeepsItsDomain ==
    [][\A v \in Videos :
          mapping[v] # None /\ mapping[v].domain \in held
            => mapping[v].domain \in held']_vars
=============================================================================
