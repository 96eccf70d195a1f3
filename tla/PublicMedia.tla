----------------------------- MODULE PublicMedia -----------------------------
(***************************************************************************)
(* The routes that deliver one video of a resolved link: the file or the   *)
(* poster of a LOCAL_FILE video, the binary of a DB_BLOB video, a Bunny    *)
(* poster, and the view report.  The credential is the link's own (#k) or  *)
(* the media token of an alias-free session; a link with a view budget     *)
(* also asks for the media grant minted when the view was claimed.         *)
(*                                                                         *)
(* PublicWatch resolves the link and mints those credentials; here one     *)
(* action, Exchange, stands for a resolution that succeeds.  The module's  *)
(* subject is the cache in front of the LOCAL_FILE routes, whose hits are  *)
(* answered without any query, and what may be in it at which time.        *)
(***************************************************************************)
EXTENDS PublishedLink

CONSTANTS
    LocalVideos,  \* LOCAL_FILE videos; the others are DB_BLOB or Bunny
    Reviewers,    \* media requests that may be in flight
    CacheTtl,     \* mediaMetadataTtlSeconds
    TokenTtl      \* PUBLIC_MEDIA_GRANT_TTL_SECONDS: media tokens and grants

ASSUME MediaAssumption ==
    /\ LocalVideos \subseteq Videos
    /\ CacheTtl \in Nat \ {0}
    /\ TokenTtl \in Nat

VARIABLES
    request,   \* the media request of each reviewer
    token,     \* seconds left of the newest media token of each video, or -1
    grant,     \* seconds left of the newest media grant of each video, or -1
    cache,     \* media:metadata entries: seconds left by credential and video
    outside,   \* history: the rows were changed behind this process' back since
               \* it last dropped its entries with no request in flight
    raced,     \* history: a request was in flight when the entries were dropped
    seen       \* history: what was true since each request began

vars == <<linkVars, request, token, grant, cache, outside, raced, seen>>

Credentials == {"alias", "rmv1"}
Routes == {"file", "poster", "view"}
Idle == [pc |-> "idle"]
Left(n) == -1..n

RequestState ==
    {Idle} \cup [pc : {"site", "link", "rows", "stream"}, route : Routes,
                 credential : Credentials, video : Videos]

Sights == [site : BOOLEAN, row : BOOLEAN, unexpired : BOOLEAN, token : BOOLEAN,
           grant : BOOLEAN]

TypeOK ==
    /\ LinkTypeOK
    /\ request \in [Reviewers -> RequestState]
    /\ token \in [Videos -> Left(TokenTtl)]
    /\ grant \in [Videos -> Left(TokenTtl)]
    /\ cache \in [Credentials \X LocalVideos -> 0..CacheTtl]
    /\ outside \in BOOLEAN
    /\ raced \in BOOLEAN
    /\ seen \in [Reviewers -> Sights]

Nothing == [site |-> FALSE, row |-> FALSE, unexpired |-> FALSE, token |-> FALSE,
            grant |-> FALSE]
Empty == [e \in Credentials \X LocalVideos |-> 0]

Init ==
    /\ LinkInit
    /\ request = [u \in Reviewers |-> Idle]
    /\ token = [v \in Videos |-> -1]
    /\ grant = [v \in Videos |-> -1]
    /\ cache = Empty
    /\ outside = FALSE
    /\ raced = FALSE
    /\ seen = [u \in Reviewers |-> Nothing]

-----------------------------------------------------------------------------

At(u, step) == request[u].pc = step
InFlight(u) == ~At(u, "idle")
Streaming(u) == At(u, "stream")
Resolving(u) == InFlight(u) /\ ~Streaming(u)

End(u) ==
    /\ request' = [request EXCEPT ![u] = Idle]
    /\ seen' = [seen EXCEPT ![u] = Nothing]

\* resolveMediaCredentialKind: a media token needs a capable host and time left.
TokenIsGood(v) == compat /\ token[v] >= 0

\* hasValidMediaGrant: asked for only where there is a budget.
GrantIsGood(v) == maxViews # None => grant[v] >= 0

\* The row of an ACTIVE link with the playable video v.
RowAdmits(v) == link = "ACTIVE" /\ v \in Playable

Sight(v) == [site |-> site, row |-> RowAdmits(v), unexpired |-> ~Expired,
             token |-> TokenIsGood(v), grant |-> GrantIsGood(v)]

\* History: what is true now counts for every request in flight.
SeenToo ==
    [u \in Reviewers |->
        IF Resolving(u)
        THEN LET v == request[u].video IN
             [site |-> seen[u].site \/ site',
              row |-> seen[u].row \/ (link' = "ACTIVE" /\ v \in Playable'),
              unexpired |-> seen[u].unexpired,
              token |-> seen[u].token \/ (compat /\ token'[v] >= 0),
              grant |-> seen[u].grant \/ (maxViews # None => grant'[v] >= 0)]
        ELSE seen[u]]

\* Mutant: the grant runs as long as the link does.
GrantForLinkLife == life

\* PublicMediaGrantService.issue: its own time, never longer than the link.
GrantLife == Least(TokenTtl, life)

\* A resolution of the link succeeds: a fresh media token for a session, a media
\* grant where the link has a budget.
Exchange ==
    /\ site /\ LinkAdmits
    /\ \/ compat /\ token' = [v \in Videos |-> IF v \in Playable THEN TokenTtl
                                              ELSE token[v]]
       \/ UNCHANGED token
    /\ grant' = IF maxViews = None THEN grant
                ELSE [v \in Videos |-> IF v \in Playable THEN GrantLife
                                       ELSE grant[v]]
    /\ UNCHANGED <<linkVars, request, cache, outside, raced>>
    /\ seen' = SeenToo

-----------------------------------------------------------------------------
(* The routes.                                                              *)

\* The routes of a LOCAL_FILE video look into the cache before anything else.
Cached(route, v, credential) ==
    route # "view" /\ v \in LocalVideos /\ cache[<<credential, v>>] > 0

\* Mutant: the entry of a media token is read (and written) like any other.
ReadsCacheAlways(credential) == TRUE

\* "AN RMV1 TOKEN IS NEVER SERVED FROM THIS CACHE."
ReadsCache(credential) == credential = "alias"

\* Mutant: a hit gives the entry its full time again.
HitSlides(u, route, v, credential) ==
    /\ At(u, "idle")
    /\ Cached(route, v, credential) /\ ReadsCache(credential)
    /\ request' = [request EXCEPT ![u] =
          [pc |-> "stream", route |-> route, credential |-> credential, video |-> v]]
    /\ seen' = [seen EXCEPT ![u] = Sight(v)]
    /\ cache' = [cache EXCEPT ![<<credential, v>>] = CacheTtl]
    /\ UNCHANGED <<linkVars, token, grant, outside, raced>>

\* A hit: no query, no grant check; the file is opened at once.
Hit(u, route, v, credential) ==
    /\ At(u, "idle")
    /\ Cached(route, v, credential) /\ ReadsCache(credential)
    /\ request' = [request EXCEPT ![u] =
          [pc |-> "stream", route |-> route, credential |-> credential, video |-> v]]
    /\ seen' = [seen EXCEPT ![u] = Sight(v)]
    /\ UNCHANGED <<linkVars, token, grant, cache, outside, raced>>

\* A miss: the query for the domain and its website is sent.
Begin(u, route, v, credential) ==
    /\ At(u, "idle")
    /\ ~(Cached(route, v, credential) /\ ReadsCache(credential))
    /\ request' = [request EXCEPT ![u] =
          [pc |-> "site", route |-> route, credential |-> credential, video |-> v]]
    /\ seen' = [seen EXCEPT ![u] = Sight(v)]
    /\ UNCHANGED <<linkVars, token, grant, cache, outside, raced>>

\* The domain's row is there; the credential is examined in the same step.
ReadSite(u) ==
    /\ At(u, "site")
    /\ IF site /\ (request[u].credential = "rmv1" => TokenIsGood(request[u].video))
       THEN /\ request' = [request EXCEPT ![u].pc = "link"]
            /\ UNCHANGED seen
       ELSE End(u)
    /\ UNCHANGED <<linkVars, token, grant, cache, outside, raced>>

\* The database evaluates the query for the link and the video.
ReadLink(u) ==
    /\ At(u, "link")
    /\ IF RowAdmits(request[u].video)
       THEN /\ request' = [request EXCEPT ![u].pc = "rows"]
            /\ UNCHANGED seen
       ELSE End(u)
    /\ UNCHANGED <<linkVars, token, grant, cache, outside, raced>>

\* getDeniedReasonForMediaPlayback and hasValidMediaGrant when the rows arrive;
\* the view report needs no grant.
Authorized(r) ==
    /\ ~Expired
    /\ r.route # "view" => GrantIsGood(r.video)

\* The poster route runs the chain only to learn that the video is a local file;
\* its local branch starts over, from the cache if it can.
PosterOfLocalFile(r) == r.route = "poster" /\ r.video \in LocalVideos

\* Only the local branch writes an entry.
Keeps(r) ==
    /\ r.route = "file"
    /\ r.video \in LocalVideos
    /\ ReadsCache(r.credential)
    /\ MayCache("ACTIVE", CacheTtl)

\* The rows arrive: the answer, and the entry for the next request.
Deliver(u) ==
    LET r == request[u] IN
    /\ At(u, "rows")
    /\ IF ~Authorized(r)
       THEN End(u) /\ UNCHANGED cache
       ELSE /\ request' = [request EXCEPT ![u] =
                 IF PosterOfLocalFile(r)
                 THEN [@ EXCEPT !.route = "file",
                                !.pc = IF /\ Cached("file", r.video, r.credential)
                                          /\ ReadsCache(r.credential)
                                       THEN "stream" ELSE "site"]
                 ELSE [@ EXCEPT !.pc = "stream"]]
            /\ cache' = IF Keeps(r)
                        THEN [cache EXCEPT ![<<r.credential, r.video>>] = CacheTtl]
                        ELSE cache
            /\ UNCHANGED seen
    /\ UNCHANGED <<linkVars, token, grant, outside, raced>>

\* The file was sent, the reviewer left, or a query failed.
Finish(u) ==
    /\ InFlight(u)
    /\ End(u)
    /\ UNCHANGED <<linkVars, token, grant, cache, outside, raced>>

-----------------------------------------------------------------------------
(* The administrator, the clock, the cache's other users, the process.      *)

\* Through this process: the change commits before the entries are dropped.
ChangeHere ==
    /\ ChangeRows
    /\ pending' = TRUE
    /\ UNCHANGED <<request, token, grant, cache, outside, raced>>
    /\ seen' = SeenToo

\* Another process, a script, SQL, or a request that fails after its commit.
ChangeElsewhere ==
    /\ ChangeRows
    /\ outside' = TRUE
    /\ UNCHANGED <<pending, request, token, grant, cache, raced>>
    /\ seen' = SeenToo

\* Mutant: only the watch entries are dropped.
InvalidateWatchOnly ==
    /\ pending
    /\ pending' = FALSE
    /\ raced' = \E u \in Reviewers : Resolving(u)
    /\ outside' = (outside /\ \E u \in Reviewers : Resolving(u))
    /\ UNCHANGED <<facts, compat, request, token, grant, cache, seen>>

\* invalidatePublicAccessCaches
Invalidate ==
    /\ pending
    /\ pending' = FALSE
    /\ cache' = Empty
    /\ raced' = \E u \in Reviewers : Resolving(u)
    /\ outside' = (outside /\ \E u \in Reviewers : Resolving(u))
    /\ UNCHANGED <<facts, compat, request, token, grant, seen>>

Evict(e) ==
    /\ cache[e] > 0
    /\ cache' = [cache EXCEPT ![e] = 0]
    /\ UNCHANGED <<linkVars, request, token, grant, outside, raced, seen>>

Tick ==
    /\ life' = LifeOneLess(life)
    /\ token' = [v \in Videos |-> OneLess(token[v])]
    /\ grant' = [v \in Videos |-> OneLess(grant[v])]
    /\ cache' = [e \in Credentials \X LocalVideos |->
                    IF cache[e] = 0 THEN 0 ELSE cache[e] - 1]
    /\ UNCHANGED <<site, link, ready, listed, maxViews, compat, pending, request,
                   outside, raced, seen>>

\* A restart, possibly with another list of compatible hosts.
Restart ==
    /\ compat' \in BOOLEAN
    /\ request' = [u \in Reviewers |-> Idle]
    /\ seen' = [u \in Reviewers |-> Nothing]
    /\ cache' = Empty
    /\ pending' = FALSE
    /\ outside' = FALSE
    /\ raced' = FALSE
    /\ UNCHANGED <<facts, token, grant>>

Answer(u) == ReadSite(u) \/ ReadLink(u) \/ Deliver(u) \/ Finish(u)

Next ==
    \/ \E u \in Reviewers, r \in Routes, v \in Videos, c \in Credentials :
          Hit(u, r, v, c) \/ Begin(u, r, v, c)
    \/ \E u \in Reviewers : Answer(u)
    \/ \E e \in Credentials \X LocalVideos : Evict(e)
    \/ Exchange \/ ChangeHere \/ ChangeElsewhere \/ Invalidate
    \/ Tick \/ Restart

Spec == Init /\ [][Next]_vars

\* The clock does not stop, and every query is answered or fails.
FairSpec ==
    /\ Spec
    /\ WF_vars(Tick)
    /\ \A u \in Reviewers : WF_vars(Answer(u))

-----------------------------------------------------------------------------
(* Properties.                                                              *)

\* What is being sent was authorized while the request resolved.  An alias-free
\* request saw its token good and the site, the row and the expiry admit the
\* video; so did every request for something the cache never holds.  A hit of
\* the cache is only ever for an unexpired link; and where the link has a view
\* budget nothing is sent without a grant that was good in that time.
StreamsAreAuthorized ==
    \A u \in Reviewers : Streaming(u) =>
        LET r == request[u] IN
        /\ seen[u].unexpired
        /\ r.credential = "rmv1" => seen[u].token
        /\ r.credential = "rmv1" \/ r.route = "view" \/ r.video \notin LocalVideos
              => seen[u].site /\ seen[u].row
        /\ r.route # "view" => seen[u].grant

\* SECURITY_MODEL 4.2: only links without a budget are cached, and an entry never
\* outlives the link.
EntriesAreBounded ==
    \A e \in Credentials \X LocalVideos : cache[e] > 0 =>
        /\ maxViews = None
        /\ life = None \/ life > cache[e]

\* The rows as they are now admit v.
Admitted(v) == site /\ RowAdmits(v)

\* An entry answers for rows that would refuse now only if the change was made
\* behind the process' back, is about to drop the entries, or met a request
\* that was still resolving when it dropped them.
StaleOnlyIfUnnoticed ==
    \A v \in LocalVideos : cache[<<"alias", v>>] > 0 =>
        Admitted(v) \/ pending \/ outside \/ raced

\* However the link was revoked, in the end no entry answers for it, even if
\* reviewers keep asking.
RevocationTakesHold ==
    link = "REVOKED" ~> [](cache = Empty)

\* SECURITY_MODEL 4.2 on the window of stale entries: it is eliminated by revoking
\* through the admin API, "which invalidates in-process".
ApiRevocationIsImmediate ==
    link = "REVOKED" /\ ~pending /\ ~outside => cache = Empty
=============================================================================
