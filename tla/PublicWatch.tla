----------------------------- MODULE PublicWatch -----------------------------
(***************************************************************************)
(* Resolving a share link for a reviewer: GET and POST /public/watch (the  *)
(* #k credential), the email-safe compatibility exchange (?r=) and the     *)
(* resumption of a review session, with the metadata cache in front of the *)
(* first and the session grant and media tokens the other two hand out.    *)
(*                                                                         *)
(* A request is a chain of database round trips; every await is a point    *)
(* where other requests, the administrator and the clock move.  One step   *)
(* of the model is what runs between two awaits.                           *)
(***************************************************************************)
EXTENDS PublishedLink

CONSTANTS
    BunnyVideos,  \* videos whose playback URL has to be signed for Bunny
    Reviewers,    \* browser sessions; each has at most one request in flight
    WatchTtl,     \* publicWatchMetadataTtlSeconds
    SessionTtl,   \* PUBLIC_WATCH_RESUME_TTL_SECONDS
    MediaTtl      \* PUBLIC_MEDIA_GRANT_TTL_SECONDS, the ceiling of media tokens

ASSUME WatchAssumption ==
    /\ BunnyVideos \subseteq Videos
    /\ WatchTtl \in Nat \ {0}
    /\ SessionTtl \in Nat
    /\ MediaTtl \in Nat

VARIABLES
    request,    \* the request of each reviewer
    grant,      \* seconds left of the session grant each reviewer holds, or -1
    token,      \* seconds left of the media tokens each reviewer holds, or -1
    cache,      \* the public:watch entry of the link
    views,      \* ShareLink.currentViews (kept only where a budget reads it)
    served,     \* history: positive answers given on a budgeted link
    seen        \* history: what was true of the rows at some time since the
                \* request of each reviewer began

vars == <<linkVars, request, grant, token, cache, views, served, seen>>

Origins == {"watch", "compat", "resume"}
Idle == [pc |-> "idle"]
NoEntry == [videos |-> {}, left |-> 0]
Steps == {"site", "link", "claim", "log", "gate"}
Left(n) == -1..n

RequestState ==
    {Idle} \cup
    [pc : Steps, origin : Origins, videos : SUBSET Videos, cached : BOOLEAN,
     cacheable : BOOLEAN, session : Left(SessionTtl) \cup {None}]

Sights == [site : BOOLEAN, active : BOOLEAN, unexpired : BOOLEAN,
           playable : SUBSET Videos, ready : SUBSET Videos]

TypeOK ==
    /\ LinkTypeOK
    /\ request \in [Reviewers -> RequestState]
    /\ grant \in [Reviewers -> Left(SessionTtl)]
    /\ token \in [Reviewers -> Left(MediaTtl)]
    /\ cache \in [videos : SUBSET Videos, left : 0..WatchTtl]
    /\ views \in Nat
    /\ served \in Nat
    /\ seen \in [Reviewers -> Sights]

Nothing == [site |-> FALSE, active |-> FALSE, unexpired |-> FALSE,
            playable |-> {}, ready |-> {}]

Init ==
    /\ LinkInit
    /\ request = [u \in Reviewers |-> Idle]
    /\ grant = [u \in Reviewers |-> -1]
    /\ token = [u \in Reviewers |-> -1]
    /\ cache = NoEntry
    /\ views = 0
    /\ served = 0
    /\ seen = [u \in Reviewers |-> Nothing]

-----------------------------------------------------------------------------

At(u, step) == request[u].pc = step
InFlight(u) == ~At(u, "idle")

End(u) ==
    /\ request' = [request EXCEPT ![u] = Idle]
    /\ seen' = [seen EXCEPT ![u] = Nothing]

Sight == [site |-> site, active |-> link = "ACTIVE", unexpired |-> ~Expired,
          playable |-> Playable, ready |-> ready]

\* History: what is true now counts for every request in flight.
SeenToo ==
    [u \in Reviewers |->
        IF InFlight(u)
        THEN [site |-> seen[u].site \/ site',
              active |-> seen[u].active \/ link' = "ACTIVE",
              unexpired |-> seen[u].unexpired,
              playable |-> seen[u].playable \cup Playable',
              ready |-> seen[u].ready \cup ready']
        ELSE seen[u]]

\* The request reaches its first query.
Start(u, origin, session) ==
    /\ request' = [request EXCEPT ![u] =
          [pc |-> "site", origin |-> origin, videos |-> {}, cached |-> FALSE,
           cacheable |-> FALSE, session |-> session]]
    /\ seen' = [seen EXCEPT ![u] = Sight]

\* resolvePublicWatch without a usable entry; an entry of a link that has
\* expired is dropped on the way.
WatchMiss(u) ==
    /\ At(u, "idle")
    /\ cache = NoEntry \/ Expired
    /\ cache' = NoEntry
    /\ Start(u, "watch", None)
    /\ UNCHANGED <<linkVars, grant, token, views, served>>

\* resolveCachedPublicWatch: the cached rows decide everything but the view.
WatchHit(u) ==
    /\ At(u, "idle")
    /\ cache # NoEntry
    /\ ~Expired
    /\ request' = [request EXCEPT ![u] =
          [pc |-> "claim", origin |-> "watch", videos |-> cache.videos,
           cached |-> TRUE, cacheable |-> FALSE, session |-> None]]
    /\ seen' = [seen EXCEPT ![u] = Sight]
    /\ UNCHANGED <<linkVars, grant, token, cache, views, served>>

\* Mutant: the compatibility exchange uses the entry too.
CompatHit(u) ==
    /\ At(u, "idle")
    /\ compat
    /\ IF cache = NoEntry
       THEN Start(u, "compat", None)
       ELSE /\ request' = [request EXCEPT ![u] =
                  [pc |-> "claim", origin |-> "compat", videos |-> cache.videos,
                   cached |-> TRUE, cacheable |-> FALSE, session |-> SessionTtl]]
            /\ seen' = [seen EXCEPT ![u] = Sight]
    /\ UNCHANGED <<linkVars, grant, token, cache, views, served>>

\* resolvePublicWatchCompatible: the kill switch, the alias, the full chain.
CompatBegin(u) ==
    /\ At(u, "idle")
    /\ compat
    /\ Start(u, "compat", None)
    /\ UNCHANGED <<linkVars, grant, token, cache, views, served>>

\* resolvePublicWatchResume: the kill switch, the grant, the full chain.
ResumeBegin(u) ==
    /\ At(u, "idle")
    /\ compat
    /\ grant[u] >= 0
    /\ Start(u, "resume", grant[u])
    /\ UNCHANGED <<linkVars, grant, token, cache, views, served>>

\* The query for the domain and its website.
ReadSite(u) ==
    /\ At(u, "site")
    /\ IF site
       THEN /\ request' = [request EXCEPT ![u].pc = "link"]
            /\ UNCHANGED seen
       ELSE End(u)
    /\ UNCHANGED <<linkVars, grant, token, cache, views, served>>

\* getDeniedReason over the row, and NO_VIDEOS.
Denied ==
    \/ ~LinkAdmits
    \/ maxViews # None /\ views >= maxViews
    \/ Playable = {}

\* Mutant: a session is granted whatever the link's budget.
SessionForAny(r) == IF r.origin = "compat" THEN SessionTtl ELSE r.session

\* Mutant: an expiring link gets a session too, as long as the link lives.
SessionForLinkLife(r) ==
    IF r.origin = "compat"
    THEN IF maxViews # None THEN None ELSE IF life = None THEN SessionTtl ELSE life
    ELSE r.session

\* mintResumeGrantIfEligible and resumeNotAfter: the life of the session the
\* answer belongs to, counted from the moment the row was read.
Session(r) ==
    IF r.origin = "compat"
    THEN IF maxViews = None /\ life = None THEN SessionTtl ELSE None
    ELSE r.session

\* The query for the link and its playable videos; a resume claims no view and
\* goes on in the same step.
ReadLink(u) ==
    /\ At(u, "link")
    /\ IF Denied
       THEN End(u)
       ELSE /\ request' = [request EXCEPT ![u] =
                 [@ EXCEPT
                    !.pc = IF request[u].origin = "resume" THEN "log" ELSE "claim",
                    !.videos = Playable,
                    !.cacheable = MayCache(link, WatchTtl),
                    !.session = Session(request[u])]]
            /\ UNCHANGED seen
    /\ UNCHANGED <<linkVars, grant, token, cache, views, served>>

\* The budget as the conditional update states it.  The expiry it also states
\* was captured with the row and cannot decide otherwise a second time.
BudgetLeft == maxViews # None => views < maxViews

\* Mutant: the update no longer asks for an ACTIVE row.
ClaimsAnyStatus == BudgetLeft

\* incrementShareLinkView, its where clause.
Claims == link = "ACTIVE" /\ BudgetLeft

\* The view is claimed; the access log is written next.
Claim(u) ==
    /\ At(u, "claim")
    /\ Claims
    /\ views' = IF maxViews = None THEN views ELSE views + 1
    /\ request' = [request EXCEPT ![u].pc = "log"]
    /\ UNCHANGED <<linkVars, grant, token, cache, served, seen>>

\* No view left or the link no longer ACTIVE: a request answered from the cache
\* drops the entry and starts over, any other is denied.
ClaimFails(u) ==
    /\ At(u, "claim")
    /\ ~Claims
    /\ IF request[u].cached
       THEN /\ cache' = NoEntry
            /\ request' = [request EXCEPT ![u].pc = "site",
                                          ![u].cached = FALSE, ![u].videos = {}]
            /\ UNCHANGED seen
       ELSE /\ End(u)
            /\ UNCHANGED cache
    /\ UNCHANGED <<linkVars, grant, token, views, served>>

\* The log is written; the rows read at the start go into the cache now.
WriteCache(u) ==
    /\ At(u, "log")
    /\ cache' = IF request[u].cacheable
                THEN [videos |-> request[u].videos, left |-> WatchTtl]
                ELSE cache
    /\ request' = [request EXCEPT ![u].pc = "gate"]
    /\ UNCHANGED <<linkVars, grant, token, views, served, seen>>

\* loadSignableBunnyVideoIds: what a Bunny video offers is decided by its row as
\* it is when the answer is built.
Offered(u) == {v \in request[u].videos : v \in BunnyVideos => v \in ready}

\* Mutant: media tokens run for their own time, not the session's.
MediaTokenUnclamped(session) == MediaTtl

\* issueMediaToken: the shorter of its own time and what the session has left.
MediaToken(session) == Least(MediaTtl, session)

\* The gate has read the Bunny rows; credentials are minted and the answer sent.
Respond(u) ==
    LET r == request[u] IN
    /\ At(u, "gate")
    /\ served' = IF maxViews = None THEN served ELSE served + 1
    /\ grant' = IF r.origin = "compat" /\ r.session # None
                THEN [grant EXCEPT ![u] = r.session] ELSE grant
    /\ token' = IF r.origin = "watch" THEN token
                ELSE [token EXCEPT ![u] = MediaToken(r.session)]
    /\ End(u)
    /\ UNCHANGED <<linkVars, cache, views>>

\* A query fails; a view already claimed stays claimed.
Abort(u) ==
    /\ InFlight(u)
    /\ End(u)
    /\ UNCHANGED <<linkVars, grant, token, cache, views, served>>

-----------------------------------------------------------------------------
(* The administrator, the clock, the cache's other users, the process.      *)

\* Through this process: revoke, assign, disable commit before they invalidate.
ChangeHere ==
    /\ ChangeRows
    /\ pending' = TRUE
    /\ seen' = SeenToo
    /\ UNCHANGED <<request, grant, token, cache, views, served>>

ChangeElsewhere ==
    /\ ChangeRows
    /\ seen' = SeenToo
    /\ UNCHANGED <<pending, request, grant, token, cache, views, served>>

\* invalidatePublicAccessCaches
Invalidate ==
    /\ pending
    /\ pending' = FALSE
    /\ cache' = NoEntry
    /\ UNCHANGED <<facts, compat, request, grant, token, views, served, seen>>

\* Another key pushes the entry out.
Evict ==
    /\ cache # NoEntry
    /\ cache' = NoEntry
    /\ UNCHANGED <<linkVars, request, grant, token, views, served, seen>>

Tick ==
    /\ life' = LifeOneLess(life)
    /\ grant' = [u \in Reviewers |-> OneLess(grant[u])]
    /\ token' = [u \in Reviewers |-> OneLess(token[u])]
    /\ cache' = IF cache.left <= 1 THEN NoEntry
                ELSE [cache EXCEPT !.left = @ - 1]
    /\ request' = [u \in Reviewers |->
          IF InFlight(u) THEN [request[u] EXCEPT !.session = OneLess(@)] ELSE Idle]
    /\ UNCHANGED <<site, link, ready, listed, maxViews, compat, pending, views,
                   served, seen>>

\* A restart, possibly with another list of compatible hosts.
Restart ==
    /\ compat' \in BOOLEAN
    /\ request' = [u \in Reviewers |-> Idle]
    /\ seen' = [u \in Reviewers |-> Nothing]
    /\ cache' = NoEntry
    /\ pending' = FALSE
    /\ UNCHANGED <<facts, grant, token, views, served>>

Reviewer(u) ==
    \/ WatchMiss(u) \/ WatchHit(u) \/ CompatBegin(u) \/ ResumeBegin(u)
    \/ ReadSite(u) \/ ReadLink(u) \/ Claim(u) \/ ClaimFails(u)
    \/ WriteCache(u) \/ Respond(u) \/ Abort(u)

Next ==
    \/ \E u \in Reviewers : Reviewer(u)
    \/ ChangeHere \/ ChangeElsewhere \/ Invalidate
    \/ Evict \/ Tick \/ Restart

Spec == Init /\ [][Next]_vars

-----------------------------------------------------------------------------
(* Properties.                                                              *)

\* Every positive answer, from the cache or not, was given to a link that was
\* ACTIVE at some time while the request was in flight, and unexpired at some time
\* (not always the same: a cached row is claimed after its expiry was read), and
\* offers Bunny playback only for videos that were READY in that time.  The two origins
\* without an alias also saw the site ACTIVE and every video playable in that
\* time, and only ever run while the host may redeem (public.service.ts: "THE
\* CACHE MAY CACHE DATA. IT MUST NOT CACHE AUTHORITY.").
AnswersAreFresh ==
    \A u \in Reviewers : At(u, "gate") =>
        /\ seen[u].active /\ seen[u].unexpired
        /\ Offered(u) \cap BunnyVideos \subseteq seen[u].ready
        /\ request[u].origin # "watch" =>
            /\ compat
            /\ seen[u].site
            /\ request[u].videos \subseteq seen[u].playable

\* A link never gives more positive answers than maxViews, whatever mixture of
\* #k, compatibility and resumed requests race for the last view.
BudgetIsRespected == maxViews # None => served <= maxViews

\* On the links the email-safe URL is made for, the media tokens of a reviewer
\* never outlive the session grant they came with, however late the session was
\* resumed or the answer was sent.
TokensDieWithSession ==
    maxViews = None /\ life = None =>
        \A u \in Reviewers : token[u] <= grant[u]
=============================================================================
