-------------------------- MODULE PublicWatch_proofs ---------------------------
(* Theorems about PublicWatch, for any number of videos and reviewers, any     *)
(* terms of the link and any times to live.                                    *)
EXTENDS PublicWatch, FiniteSetTheorems, TLAPS

Sessions == Left(SessionTtl) \cup {None}
Requested == [pc : Steps, origin : Origins, videos : SUBSET Videos, cached : BOOLEAN,
              cacheable : BOOLEAN, session : Sessions]
EntryState == [videos : SUBSET Videos, left : 0..WatchTtl]

USE LinkAssumption, WatchAssumption

LEMMA InFlightType ==
    ASSUME TypeOK, NEW u \in Reviewers
    PROVE  /\ InFlight(u) <=> request[u] \in Requested
           /\ ~InFlight(u) <=> request[u] = Idle
           /\ request[u].pc \in Steps => request[u] \in Requested
BY DEF TypeOK, RequestState, Requested, Sessions, InFlight, At, Idle, Steps

LEMMA NothingType == Nothing \in Sights /\ Idle \in RequestState /\ NoEntry \in EntryState
BY DEF Nothing, Sights, RequestState, NoEntry, EntryState

LEMMA SightType == ASSUME LinkTypeOK PROVE Sight \in Sights
<1>1. /\ (link = "ACTIVE") \in BOOLEAN
      /\ (~Expired) \in BOOLEAN
      /\ site \in BOOLEAN
      /\ Playable \in SUBSET Videos
      /\ ready \in SUBSET Videos
    BY DEF LinkTypeOK, Playable
<1> QED
    BY <1>1 DEF Sight, Sights

LEMMA ChangedRowsType ==
    ASSUME LinkTypeOK, ChangeRows, pending' \in BOOLEAN
    PROVE  LinkTypeOK'
<1>1. site' \in BOOLEAN /\ link' \in LinkStatus /\ ready' \subseteq Videos /\ listed' \subseteq Videos
  <2>1. CASE ChangeSite
    BY <2>1 DEF ChangeSite, LinkTypeOK
  <2>2. CASE ChangeLink
    BY <2>2 DEF ChangeLink, LinkTypeOK
  <2>3. ASSUME NEW v \in Videos, ChangeReady(v) \/ ChangeListed(v)
        PROVE  site' \in BOOLEAN /\ link' \in LinkStatus /\ ready' \subseteq Videos /\ listed' \subseteq Videos
    BY <2>3 DEF ChangeReady, ChangeListed, LinkTypeOK
  <2> QED
    BY <2>1, <2>2, <2>3 DEF ChangeRows
<1> QED
    BY <1>1 DEF LinkTypeOK, ChangeRows

\* What a request in flight has seen when the rows change.
LEMMA SeenTooSees ==
    ASSUME TypeOK, LinkTypeOK', NEW u \in Reviewers, InFlight(u), NEW s, s = SeenToo[u]
    PROVE  /\ s \in Sights
           /\ site' \/ seen[u].site => s.site
           /\ link' = "ACTIVE" \/ seen[u].active => s.active
           /\ s.unexpired = seen[u].unexpired
           /\ Playable' \cup seen[u].playable \subseteq s.playable
           /\ ready' \cup seen[u].ready \subseteq s.ready
<1> DEFINE isActive == link' = "ACTIVE"
<1>1. s = [site |-> seen[u].site \/ site', active |-> seen[u].active \/ isActive,
           unexpired |-> seen[u].unexpired,
           playable |-> seen[u].playable \cup Playable', ready |-> seen[u].ready \cup ready']
    BY DEF SeenToo
<1>2. /\ seen[u].site \in BOOLEAN /\ seen[u].active \in BOOLEAN /\ seen[u].unexpired \in BOOLEAN
      /\ seen[u].playable \subseteq Videos /\ seen[u].ready \subseteq Videos
      /\ Playable' \subseteq Videos /\ ready' \subseteq Videos
    BY DEF TypeOK, Sights, LinkTypeOK, Playable
<1> HIDE DEF isActive
<1>3. (seen[u].site \/ site') \in BOOLEAN /\ (seen[u].active \/ isActive) \in BOOLEAN
    OBVIOUS
<1>4. s \in Sights
    BY <1>1, <1>2, <1>3 DEF Sights
<1>5. /\ s.site = (seen[u].site \/ site')
      /\ s.active = (seen[u].active \/ isActive)
    BY <1>1
<1>6. /\ site' \/ seen[u].site => s.site
      /\ isActive \/ seen[u].active => s.active
    BY <1>5, Zenon
<1>7. /\ s.unexpired = seen[u].unexpired
      /\ s.playable = seen[u].playable \cup Playable'
      /\ s.ready = seen[u].ready \cup ready'
    BY <1>1
<1> QED
    BY <1>4, <1>6, <1>7 DEF isActive

LEMMA SeenTooType ==
    ASSUME TypeOK, LinkTypeOK' PROVE SeenToo \in [Reviewers -> Sights]
<1>1. ASSUME NEW u \in Reviewers PROVE SeenToo[u] \in Sights
  <2>1. CASE InFlight(u)
    BY <2>1, SeenTooSees
  <2>2. CASE ~InFlight(u)
    BY <2>2 DEF SeenToo, TypeOK
  <2> QED
    BY <2>1, <2>2
<1> QED
    BY <1>1, Zenon DEF SeenToo

-----------------------------------------------------------------------------
(* Types.                                                                   *)

LEMMA SessionType ==
    ASSUME NEW r \in Requested PROVE Session(r) \in Sessions
BY DEF Session, Sessions, Requested, Left

LEMMA MediaTokenType ==
    ASSUME NEW s \in Sessions
    PROVE  MediaToken(s) \in Left(MediaTtl) /\ (s # None => MediaToken(s) <= s)
BY DEF MediaToken, Least, Sessions, Left

LEMMA EndType ==
    ASSUME TypeOK, NEW u \in Reviewers, End(u)
    PROVE  /\ request' \in [Reviewers -> RequestState]
           /\ seen' \in [Reviewers -> Sights]
BY NothingType DEF End, TypeOK

LEMMA LinkKept == ASSUME LinkTypeOK, UNCHANGED linkVars PROVE LinkTypeOK'
BY DEF LinkTypeOK, linkVars, facts

\* The request of one reviewer moves to a state r.
LEMMA MoveType ==
    ASSUME TypeOK, NEW u \in Reviewers, NEW r \in Requested, NEW s \in Sights,
           request' = [request EXCEPT ![u] = r], seen' = [seen EXCEPT ![u] = s],
           cache' \in EntryState, views' \in Nat,
           UNCHANGED <<linkVars, grant, token, served>>
    PROVE  TypeOK'
<1>1. r \in RequestState
    BY DEF RequestState, Requested, Sessions
<1>2. request' \in [Reviewers -> RequestState] /\ seen' \in [Reviewers -> Sights]
    BY <1>1 DEF TypeOK
<1> QED
    BY <1>2, LinkKept DEF TypeOK, EntryState

LEMMA TypeStep == ASSUME TypeOK, [Next]_vars PROVE TypeOK'
<1>1. LinkTypeOK /\ cache \in EntryState /\ NoEntry \in EntryState /\ Sight \in Sights
    BY SightType, NothingType DEF TypeOK, EntryState
<1>2. ASSUME NEW u \in Reviewers, NEW origin \in Origins, NEW session \in Sessions,
             Start(u, origin, session), cache' \in EntryState,
             UNCHANGED <<linkVars, grant, token, views, served>>
      PROVE  TypeOK'
  <2>1. [pc |-> "site", origin |-> origin, videos |-> {}, cached |-> FALSE,
         cacheable |-> FALSE, session |-> session] \in Requested
    BY DEF Requested, Steps
  <2> QED
    BY <1>1, <1>2, <2>1, MoveType DEF Start, TypeOK
<1>3. ASSUME NEW u \in Reviewers,
             WatchMiss(u) \/ WatchHit(u) \/ CompatBegin(u) \/ ResumeBegin(u)
      PROVE  TypeOK'
  <2>1. None \in Sessions /\ grant[u] \in Sessions /\ Origins = {"watch", "compat", "resume"}
    BY DEF Sessions, TypeOK, Origins
  <2>2. CASE WatchMiss(u)
    BY <1>1, <1>2, <2>1, <2>2 DEF WatchMiss
  <2>3. CASE WatchHit(u)
    <3>1. [pc |-> "claim", origin |-> "watch", videos |-> cache.videos, cached |-> TRUE,
           cacheable |-> FALSE, session |-> None] \in Requested
      BY <1>1, <2>1 DEF Requested, Steps, EntryState
    <3> QED
      BY <1>1, <2>3, <3>1, MoveType DEF WatchHit, TypeOK
  <2>4. CASE CompatBegin(u)
    BY <1>1, <1>2, <2>1, <2>4 DEF CompatBegin
  <2>5. CASE ResumeBegin(u)
    BY <1>1, <1>2, <2>1, <2>5 DEF ResumeBegin
  <2> QED
    BY <1>3, <2>2, <2>3, <2>4, <2>5
<1>4. ASSUME NEW u \in Reviewers, End(u), UNCHANGED <<linkVars, grant, token, cache, views, served>>
      PROVE  TypeOK'
    BY <1>4, EndType, LinkKept DEF TypeOK
<1>5. ASSUME NEW u \in Reviewers,
             \/ (ReadSite(u) \/ ReadLink(u) \/ ClaimFails(u)) /\ ~End(u)
             \/ Claim(u) \/ WriteCache(u)
      PROVE  TypeOK'
  <2> DEFINE r == request[u]
  <2>1. r \in Requested /\ seen[u] \in Sights /\ seen' = [seen EXCEPT ![u] = seen[u]]
    <3>1. At(u, "site") \/ At(u, "link") \/ At(u, "claim") \/ At(u, "log")
      BY <1>5 DEF ReadSite, ReadLink, Claim, ClaimFails, WriteCache
    <3>2. seen' = seen
      BY <1>5 DEF ReadSite, ReadLink, Claim, ClaimFails, WriteCache
    <3> QED
      BY <3>1, <3>2, InFlightType DEF At, Steps, TypeOK
  <2>2. ASSUME NEW pc \in Steps, request' = [request EXCEPT ![u].pc = pc]
        PROVE  \E q \in Requested : request' = [request EXCEPT ![u] = q]
    <3>1. [r EXCEPT !.pc = pc] \in Requested
      BY <2>1, <2>2 DEF Requested
    <3> QED
      BY <2>2, <3>1
  <2>3. \E q \in Requested : request' = [request EXCEPT ![u] = q]
    <3>1. CASE ReadSite(u) /\ ~End(u)
      BY <2>2, <3>1 DEF ReadSite, Steps
    <3>2. CASE ReadLink(u) /\ ~End(u)
      <4> DEFINE q == [r EXCEPT !.pc = IF request[u].origin = "resume" THEN "log" ELSE "claim",
                                !.videos = Playable,
                                !.cacheable = MayCache(link, WatchTtl),
                                !.session = Session(request[u])]
      <4>1. request' = [request EXCEPT ![u] = q]
        BY <3>2 DEF ReadLink
      <4>2. MayCache(link, WatchTtl) \in BOOLEAN /\ Playable \in SUBSET Videos /\ Session(r) \in Sessions
        BY <1>1, <2>1, SessionType DEF MayCache, Playable, LinkTypeOK
      <4>3. q \in Requested
        BY <2>1, <4>2 DEF Requested, Steps
      <4> QED
        BY <4>1, <4>3
    <3>3. CASE Claim(u)
      BY <2>2, <3>3 DEF Claim, Steps
    <3>4. CASE ClaimFails(u) /\ ~End(u)
      <4> DEFINE q == [r EXCEPT !.pc = "site", !.cached = FALSE, !.videos = {}]
      <4>1. request' = [request EXCEPT ![u] = q]
        BY <2>1, <3>4 DEF ClaimFails, TypeOK
      <4>2. q \in Requested
        BY <2>1 DEF Requested, Steps
      <4> QED
        BY <4>1, <4>2
    <3>5. CASE WriteCache(u)
      BY <2>2, <3>5 DEF WriteCache, Steps
    <3> QED
      BY <1>5, <3>1, <3>2, <3>3, <3>4, <3>5
  <2>4. cache' \in EntryState
    <3>1. [videos |-> r.videos, left |-> WatchTtl] \in EntryState
      BY <2>1 DEF Requested, EntryState
    <3> QED
      BY <1>1, <1>5, <3>1 DEF ReadSite, ReadLink, Claim, ClaimFails, WriteCache
  <2>5. views' \in Nat /\ UNCHANGED <<linkVars, grant, token, served>>
    BY <1>5 DEF ReadSite, ReadLink, Claim, ClaimFails, WriteCache, TypeOK
  <2> QED
    BY <2>1, <2>3, <2>4, <2>5, MoveType
<1>6. ASSUME NEW u \in Reviewers, ClaimFails(u), End(u) PROVE TypeOK'
  <2>1. /\ cache' \in EntryState
        /\ UNCHANGED <<linkVars, grant, token, views, served>>
    BY <1>1, <1>6 DEF ClaimFails
  <2> QED
    BY <1>6, <2>1, EndType, LinkKept DEF TypeOK, EntryState
<1>7. ASSUME NEW u \in Reviewers, Respond(u) PROVE TypeOK'
  <2> DEFINE r == request[u]
  <2>1. r \in Requested
    BY <1>7, InFlightType DEF Respond, At, Steps
  <2>2. r.session \in Sessions /\ MediaToken(r.session) \in Left(MediaTtl)
    BY <2>1, MediaTokenType DEF Requested
  <2>3. grant' \in [Reviewers -> Left(SessionTtl)]
    BY <1>7, <2>2 DEF Respond, TypeOK, Sessions
  <2>4. token' \in [Reviewers -> Left(MediaTtl)]
    BY <1>7, <2>2 DEF Respond, TypeOK
  <2>5. served' \in Nat /\ End(u) /\ UNCHANGED <<linkVars, cache, views>>
    BY <1>7 DEF Respond, TypeOK
  <2> QED
    BY <2>3, <2>4, <2>5, EndType, LinkKept DEF TypeOK
<1>8. ASSUME NEW u \in Reviewers, Reviewer(u) PROVE TypeOK'
  <2>1. CASE (ReadSite(u) \/ ReadLink(u) \/ ClaimFails(u)) /\ End(u)
    BY <1>4, <1>6, <2>1 DEF ReadSite, ReadLink
  <2>2. CASE Abort(u)
    BY <1>4, <2>2 DEF Abort
  <2> QED
    BY <1>3, <1>5, <1>7, <1>8, <2>1, <2>2 DEF Reviewer
<1>9. CASE ChangeHere \/ ChangeElsewhere
  <2>1. LinkTypeOK'
    BY <1>1, <1>9, ChangedRowsType DEF ChangeHere, ChangeElsewhere, LinkTypeOK
  <2> QED
    BY <1>9, <2>1, SeenTooType DEF ChangeHere, ChangeElsewhere, TypeOK
<1>10. CASE Invalidate \/ Evict
  <2>1. LinkTypeOK' /\ cache' \in EntryState /\ UNCHANGED <<request, grant, token, views, served, seen>>
    BY <1>1, <1>10 DEF Invalidate, Evict, LinkTypeOK, linkVars, facts
  <2> QED
    BY <2>1 DEF TypeOK, EntryState
<1>11. CASE Tick
  <2>1. LinkTypeOK'
    BY <1>1, <1>11 DEF Tick, LinkTypeOK, LifeOneLess
  <2>2. /\ \A n \in Left(SessionTtl) : OneLess(n) \in Left(SessionTtl)
        /\ \A n \in Left(MediaTtl) : OneLess(n) \in Left(MediaTtl)
        /\ \A n \in Sessions : OneLess(n) \in Sessions
    BY DEF Left, OneLess, Sessions
  <2>3. grant' \in [Reviewers -> Left(SessionTtl)] /\ token' \in [Reviewers -> Left(MediaTtl)]
    BY <1>11, <2>2 DEF Tick, TypeOK
  <2>4. cache' \in EntryState
    <3>1. CASE cache.left <= 1
      BY <1>1, <1>11, <3>1 DEF Tick
    <3>2. CASE ~(cache.left <= 1)
      BY <1>1, <1>11, <3>2 DEF Tick, EntryState
    <3> QED
      BY <3>1, <3>2
  <2>5. request' \in [Reviewers -> RequestState]
    <3>1. ASSUME NEW u \in Reviewers
          PROVE  (IF InFlight(u) THEN [request[u] EXCEPT !.session = OneLess(@)] ELSE Idle) \in RequestState
      <4>1. CASE InFlight(u)
        <5>1. request[u] \in Requested
          BY <4>1, InFlightType
        <5>2. [request[u] EXCEPT !.session = OneLess(@)] \in Requested
          BY <2>2, <5>1 DEF Requested
        <5> QED
          BY <4>1, <5>2 DEF Requested, RequestState, Sessions
      <4> QED
        BY <4>1, NothingType
    <3> QED
      BY <1>11, <3>1, Zenon DEF Tick
  <2> QED
    BY <1>11, <2>1, <2>3, <2>4, <2>5 DEF Tick, TypeOK, EntryState
<1>12. CASE Restart
  <2>1. LinkTypeOK'
    BY <1>1, <1>12 DEF Restart, facts, LinkTypeOK
  <2>2. request' \in [Reviewers -> RequestState] /\ seen' \in [Reviewers -> Sights]
    BY <1>12, NothingType DEF Restart
  <2>3. cache' \in EntryState /\ UNCHANGED <<grant, token, views, served>>
    BY <1>1, <1>12 DEF Restart
  <2> QED
    BY <2>1, <2>2, <2>3 DEF TypeOK, EntryState
<1>13. CASE UNCHANGED vars
    BY <1>13, LinkKept DEF vars, TypeOK
<1> QED
    BY <1>8, <1>9, <1>10, <1>11, <1>12, <1>13 DEF Next

LEMMA TypeInit == Init => TypeOK
<1>1. \A t \in Terms : t[1] \in Nat \cup {None} /\ t[2] \in (Nat \ {0}) \cup {None}
    BY DEF LinkAssumption
<1>2. LinkInit => LinkTypeOK
    BY <1>1 DEF LinkInit, LinkTypeOK, LinkStatus
<1>3. Init => /\ request \in [Reviewers -> RequestState]
              /\ seen \in [Reviewers -> Sights]
              /\ grant \in [Reviewers -> Left(SessionTtl)]
              /\ token \in [Reviewers -> Left(MediaTtl)]
              /\ cache \in EntryState
    BY NothingType DEF Init, Left
<1> QED
    BY <1>2, <1>3 DEF Init, TypeOK, EntryState

\* The link's rows, the requests, the credentials and the entry keep their types; in
\* particular no credential counts down past -1 and the entry ends with its time.
THEOREM TypeCorrect == Spec => []TypeOK
BY TypeInit, TypeStep, PTL DEF Spec

-----------------------------------------------------------------------------
(* Answers are fresh.  As long as a request is in flight its history holds    *)
(* what is true now (Seeing); what was read or claimed is in the history from *)
(* then on (Examined).  A request answered from the entry has read nothing:   *)
(* it owes its freshness to the claim, and it never has an origin without an  *)
(* alias.                                                                     *)

Seeing(u) ==
    InFlight(u) =>
        /\ site => seen[u].site
        /\ link = "ACTIVE" => seen[u].active
        /\ ~Expired => seen[u].unexpired
        /\ Playable \subseteq seen[u].playable
        /\ ready \subseteq seen[u].ready

Admission == {"claim", "log", "gate"}

Examined(u) ==
    LET r == request[u]
    IN  InFlight(u) =>
            /\ r.cached => r.origin = "watch" /\ r.pc \in Admission
            /\ r.origin # "watch" => compat
            /\ r.pc # "site" /\ ~r.cached => seen[u].site
            /\ r.pc \in Admission =>
                  /\ seen[u].unexpired
                  /\ ~r.cached => seen[u].active /\ r.videos \subseteq seen[u].playable
            /\ r.pc \in {"log", "gate"} => seen[u].active

Fresh(u) == Seeing(u) /\ Examined(u)

FreshInv == TypeOK /\ \A u \in Reviewers : Fresh(u)

\* A video of a Bunny answer is offered for its row as it is, and the history holds that.
LEMMA FreshAnswers == FreshInv => AnswersAreFresh
<1> SUFFICES ASSUME FreshInv, NEW u \in Reviewers, At(u, "gate")
             PROVE  /\ seen[u].active /\ seen[u].unexpired
                    /\ Offered(u) \cap BunnyVideos \subseteq seen[u].ready
                    /\ request[u].origin # "watch" =>
                        /\ compat
                        /\ seen[u].site
                        /\ request[u].videos \subseteq seen[u].playable
    BY DEF AnswersAreFresh
<1>1. InFlight(u) /\ Seeing(u) /\ Examined(u) /\ request[u].pc = "gate"
    BY DEF FreshInv, Fresh, InFlight, At
<1> QED
    BY <1>1 DEF Seeing, Examined, Admission, Offered

LEMMA Undisturbed ==
    ASSUME NEW u \in Reviewers, Fresh(u), request'[u] = request[u], seen'[u] = seen[u],
           UNCHANGED <<site, link, ready, listed, compat>>, Expired => Expired'
    PROVE  Fresh(u)'
BY DEF Fresh, Seeing, Examined, InFlight, At, Playable

LEMMA IdleIsFresh ==
    ASSUME NEW u \in Reviewers, request'[u] = Idle PROVE Fresh(u)'
BY DEF Fresh, Seeing, Examined, InFlight, At, Idle

\* One request moves; the rows do not.
LEMMA OneMoves ==
    ASSUME TypeOK, NEW w \in Reviewers, NEW r, NEW s,
           request' = [request EXCEPT ![w] = r], seen' = [seen EXCEPT ![w] = s],
           UNCHANGED <<site, link, ready, listed, life, compat>>,
           \A u \in Reviewers : Fresh(u), r = Idle \/ Fresh(w)'
    PROVE  \A u \in Reviewers : Fresh(u)'
<1> SUFFICES ASSUME NEW u \in Reviewers PROVE Fresh(u)'
    OBVIOUS
<1>1. CASE u = w
    BY <1>1, IdleIsFresh DEF TypeOK
<1>2. CASE u # w
    BY <1>2, Undisturbed DEF TypeOK, Expired
<1> QED
    BY <1>1, <1>2

\* A request that has just begun sees what is true now.
LEMMA BegunSees ==
    ASSUME NEW u \in Reviewers, seen'[u] = Sight,
           UNCHANGED <<site, link, ready, listed, life>>
    PROVE  Seeing(u)'
<1>1. /\ seen'[u].site = site
      /\ seen'[u].active = (link = "ACTIVE")
      /\ seen'[u].unexpired = (~Expired)
      /\ seen'[u].playable = Playable
      /\ seen'[u].ready = ready
    BY DEF Sight
<1>2. /\ site => seen'[u].site
      /\ link = "ACTIVE" => seen'[u].active
      /\ ~Expired => seen'[u].unexpired
    BY <1>1, Zenon
<1> QED
    BY <1>1, <1>2 DEF Seeing, Expired, Playable

LEMMA FreshStep == ASSUME FreshInv, [Next]_vars PROVE FreshInv'
<1>1. TypeOK /\ LinkTypeOK /\ TypeOK' /\ LinkTypeOK' /\ \A u \in Reviewers : Fresh(u)
    BY TypeStep DEF FreshInv, TypeOK
<1> SUFFICES \A u \in Reviewers : Fresh(u)'
    BY <1>1 DEF FreshInv
<1>2. ASSUME NEW u \in Reviewers,
             WatchMiss(u) \/ CompatBegin(u) \/ ResumeBegin(u)
      PROVE  \A w \in Reviewers : Fresh(w)'
  <2>1. PICK origin, session :
            Start(u, origin, session) /\ (origin # "watch" => compat) /\ UNCHANGED linkVars
    BY <1>2 DEF WatchMiss, CompatBegin, ResumeBegin
  <2>2. /\ request'[u] = [pc |-> "site", origin |-> origin, videos |-> {}, cached |-> FALSE,
                         cacheable |-> FALSE, session |-> session]
        /\ seen'[u] = Sight
    BY <1>1, <2>1 DEF Start, TypeOK
  <2>3. Seeing(u)'
    BY <2>1, <2>2, BegunSees DEF linkVars, facts
  <2>4. Fresh(u)'
    BY <2>1, <2>2, <2>3 DEF Fresh, Examined, Admission, linkVars
  <2> QED
    BY <1>1, <2>1, <2>4, OneMoves DEF Start, linkVars, facts
<1>3. ASSUME NEW u \in Reviewers, WatchHit(u) PROVE \A w \in Reviewers : Fresh(w)'
  <2>1. /\ request'[u] = [pc |-> "claim", origin |-> "watch", videos |-> cache.videos,
                         cached |-> TRUE, cacheable |-> FALSE, session |-> None]
        /\ seen'[u] = Sight /\ UNCHANGED linkVars /\ ~Expired
    BY <1>1, <1>3 DEF WatchHit, TypeOK
  <2>2. Seeing(u)'
    BY <2>1, BegunSees DEF linkVars, facts
  <2>3. seen'[u].unexpired = (~Expired)
    BY <2>1 DEF Sight
  <2>4. seen'[u].unexpired
    BY <2>1, <2>3, Zenon
  <2>5. Fresh(u)'
    BY <2>1, <2>2, <2>4 DEF Fresh, Examined, Admission
  <2> QED
    BY <1>1, <1>3, <2>1, <2>5, OneMoves DEF WatchHit, linkVars, facts
<1>4. ASSUME NEW u \in Reviewers, End(u), UNCHANGED linkVars PROVE \A w \in Reviewers : Fresh(w)'
    BY <1>1, <1>4, OneMoves DEF End, linkVars, facts
<1>5. ASSUME NEW u \in Reviewers,
             \/ (ReadSite(u) \/ ReadLink(u) \/ ClaimFails(u)) /\ ~End(u)
             \/ Claim(u) \/ WriteCache(u)
      PROVE  \A w \in Reviewers : Fresh(w)'
  <2> DEFINE r == request[u]
  <2>1. UNCHANGED linkVars /\ seen' = seen
    BY <1>5 DEF ReadSite, ReadLink, Claim, ClaimFails, WriteCache
  <2>2. r \in Requested /\ Seeing(u) /\ Examined(u) /\ InFlight(u)
    <3>1. At(u, "site") \/ At(u, "link") \/ At(u, "claim") \/ At(u, "log")
      BY <1>5 DEF ReadSite, ReadLink, Claim, ClaimFails, WriteCache
    <3> QED
      BY <1>1, <3>1, InFlightType DEF At, Steps, Fresh, InFlight
  <2>3. ASSUME NEW q, request'[u] = q, q.pc \in Steps PROVE Seeing(u)'
    BY <2>1, <2>2, <2>3 DEF Seeing, Expired, Playable, linkVars, facts
  <2>4. \E q : request' = [request EXCEPT ![u] = q] /\ Fresh(u)'
    <3>1. CASE ReadSite(u) /\ ~End(u)
      <4> DEFINE q == [r EXCEPT !.pc = "link"]
      <4>1. request' = [request EXCEPT ![u] = q] /\ site /\ r.pc = "site"
        BY <3>1 DEF ReadSite, At
      <4>2. request'[u] = q /\ q.pc = "link" /\ q.cached = r.cached /\ q.origin = r.origin
        BY <1>1, <2>2, <4>1 DEF Requested, TypeOK
      <4>3. Seeing(u)'
        BY <2>3, <4>2 DEF Steps
      <4>4. Examined(u)'
        BY <2>1, <2>2, <4>1, <4>2 DEF Examined, Seeing, Admission, linkVars
      <4> QED
        BY <4>1, <4>3, <4>4 DEF Fresh
    <3>2. CASE ReadLink(u) /\ ~End(u)
      <4> DEFINE q == [r EXCEPT !.pc = IF request[u].origin = "resume" THEN "log" ELSE "claim",
                                !.videos = Playable,
                                !.cacheable = MayCache(link, WatchTtl),
                                !.session = Session(request[u])]
      <4>1. request' = [request EXCEPT ![u] = q] /\ ~Denied /\ r.pc = "link"
        BY <3>2 DEF ReadLink, At
      <4>2. /\ request'[u] = q /\ q.pc \in {"log", "claim"}
            /\ q.cached = r.cached /\ q.origin = r.origin /\ q.videos = Playable
        BY <1>1, <2>2, <4>1 DEF Requested, TypeOK
      <4>3. Seeing(u)'
        BY <2>3, <4>2 DEF Steps
      <4>4. link = "ACTIVE" /\ ~Expired /\ ~r.cached
        BY <2>2, <4>1 DEF Denied, LinkAdmits, Examined, Admission
      <4>5. seen[u].active /\ seen[u].unexpired /\ seen[u].site /\ Playable \subseteq seen[u].playable
        BY <2>2, <4>1, <4>4 DEF Seeing, Examined
      <4>6. Examined(u)'
        BY <2>1, <2>2, <4>2, <4>4, <4>5 DEF Examined, Admission, linkVars
      <4> QED
        BY <4>1, <4>3, <4>6 DEF Fresh
    <3>3. CASE ClaimFails(u) /\ ~End(u)
      <4> DEFINE q == [r EXCEPT !.pc = "site", !.cached = FALSE, !.videos = {}]
      <4>1. request' = [request EXCEPT ![u] = q] /\ r.cached
        BY <1>1, <2>2, <3>3 DEF ClaimFails, TypeOK
      <4>2. request'[u] = q /\ q.pc = "site" /\ q.cached = FALSE /\ q.origin = r.origin
        BY <1>1, <2>2, <4>1 DEF Requested, TypeOK
      <4>3. Seeing(u)'
        BY <2>3, <4>2 DEF Steps
      <4>4. Examined(u)'
        BY <2>1, <2>2, <4>1, <4>2 DEF Examined, Admission, linkVars
      <4> QED
        BY <4>1, <4>3, <4>4 DEF Fresh
    <3>4. CASE Claim(u)
      <4> DEFINE q == [r EXCEPT !.pc = "log"]
      <4>1. request' = [request EXCEPT ![u] = q] /\ link = "ACTIVE" /\ r.pc = "claim"
        BY <3>4 DEF Claim, Claims, At
      <4>2. /\ request'[u] = q /\ q.pc = "log" /\ q.cached = r.cached /\ q.origin = r.origin
            /\ q.videos = r.videos
        BY <1>1, <2>2, <4>1 DEF Requested, TypeOK
      <4>3. Seeing(u)'
        BY <2>3, <4>2 DEF Steps
      <4>4. Examined(u)'
        BY <2>1, <2>2, <4>1, <4>2 DEF Examined, Seeing, Admission, linkVars
      <4> QED
        BY <4>1, <4>3, <4>4 DEF Fresh
    <3>5. CASE WriteCache(u)
      <4> DEFINE q == [r EXCEPT !.pc = "gate"]
      <4>1. request' = [request EXCEPT ![u] = q] /\ r.pc = "log"
        BY <3>5 DEF WriteCache, At
      <4>2. /\ request'[u] = q /\ q.pc = "gate" /\ q.cached = r.cached /\ q.origin = r.origin
            /\ q.videos = r.videos
        BY <1>1, <2>2, <4>1 DEF Requested, TypeOK
      <4>3. Seeing(u)'
        BY <2>3, <4>2 DEF Steps
      <4>4. Examined(u)'
        BY <2>1, <2>2, <4>1, <4>2 DEF Examined, Admission, linkVars
      <4> QED
        BY <4>1, <4>3, <4>4 DEF Fresh
    <3> QED
      BY <1>5, <3>1, <3>2, <3>3, <3>4, <3>5
  <2>5. seen' = [seen EXCEPT ![u] = seen[u]]
    BY <1>1, <2>1 DEF TypeOK
  <2> QED
    BY <1>1, <2>1, <2>4, <2>5, OneMoves DEF linkVars, facts
<1>6. ASSUME NEW u \in Reviewers, Reviewer(u) PROVE \A w \in Reviewers : Fresh(w)'
  <2>1. CASE (ReadSite(u) \/ ReadLink(u) \/ ClaimFails(u)) /\ End(u)
    BY <1>4, <2>1 DEF ReadSite, ReadLink, ClaimFails
  <2>2. CASE Respond(u) \/ Abort(u)
    BY <1>4, <2>2 DEF Respond, Abort
  <2> QED
    BY <1>2, <1>3, <1>5, <1>6, <2>1, <2>2 DEF Reviewer
<1>7. CASE ChangeHere \/ ChangeElsewhere
  <2>1. seen' = SeenToo /\ UNCHANGED <<request, compat, life>>
    BY <1>7 DEF ChangeHere, ChangeElsewhere, ChangeRows
  <2> SUFFICES ASSUME NEW u \in Reviewers PROVE Fresh(u)'
    OBVIOUS
  <2>2. CASE InFlight(u)
    <3>1. /\ site' \/ seen[u].site => seen'[u].site
          /\ link' = "ACTIVE" \/ seen[u].active => seen'[u].active
          /\ seen'[u].unexpired = seen[u].unexpired
          /\ Playable' \cup seen[u].playable \subseteq seen'[u].playable
          /\ ready' \cup seen[u].ready \subseteq seen'[u].ready
      BY <1>1, <2>1, <2>2, SeenTooSees
    <3>2. Seeing(u) /\ Examined(u)
      BY <1>1 DEF Fresh
    <3>3. Seeing(u)'
      BY <2>1, <2>2, <3>1, <3>2 DEF Seeing, Expired
    <3>4. Examined(u)'
      BY <2>1, <2>2, <3>1, <3>2 DEF Examined
    <3> QED
      BY <3>3, <3>4 DEF Fresh
  <2>3. CASE ~InFlight(u)
    BY <2>1, <2>3 DEF Fresh, Seeing, Examined, InFlight, At
  <2> QED
    BY <2>2, <2>3
<1>8. CASE Invalidate \/ Evict
  <2>1. UNCHANGED <<facts, compat, request, seen>>
    BY <1>8 DEF Invalidate, Evict, linkVars
  <2> QED
    BY <1>1, <2>1, Undisturbed DEF facts, Expired
<1>9. CASE Tick
  <2> SUFFICES ASSUME NEW u \in Reviewers PROVE Fresh(u)'
    OBVIOUS
  <2>1. UNCHANGED <<site, link, ready, listed, compat, seen>> /\ (Expired => Expired')
    BY <1>9 DEF Tick, Expired, LifeOneLess
  <2>2. request'[u] = IF InFlight(u) THEN [request[u] EXCEPT !.session = OneLess(@)] ELSE Idle
    BY <1>9 DEF Tick
  <2>3. CASE InFlight(u)
    <3> DEFINE r == request[u]
    <3>1. r \in Requested
      BY <1>1, <2>3, InFlightType
    <3>2. /\ request'[u].pc = r.pc /\ request'[u].origin = r.origin
          /\ request'[u].cached = r.cached /\ request'[u].videos = r.videos
      BY <2>2, <2>3, <3>1 DEF Requested
    <3>3. Seeing(u) /\ Examined(u)
      BY <1>1 DEF Fresh
    <3>4. Seeing(u)'
      BY <2>1, <2>3, <3>2, <3>3 DEF Seeing, Playable
    <3>5. Examined(u)'
      BY <2>1, <2>3, <3>2, <3>3 DEF Examined
    <3> QED
      BY <3>4, <3>5 DEF Fresh
  <2>4. CASE ~InFlight(u)
    BY <2>2, <2>4, IdleIsFresh
  <2> QED
    BY <2>3, <2>4
<1>10. CASE Restart
    BY <1>10, IdleIsFresh DEF Restart
<1>11. CASE UNCHANGED vars
    BY <1>1, <1>11, Undisturbed DEF vars, linkVars, facts, Expired
<1> QED
    BY <1>6, <1>7, <1>8, <1>9, <1>10, <1>11 DEF Next

\* Every positive answer was given to a link that was ACTIVE and unexpired while the
\* request was in flight; one without an alias also saw the site and every video it
\* offers ("THE CACHE MAY CACHE DATA. IT MUST NOT CACHE AUTHORITY.").
THEOREM AnswersFresh == Spec => []AnswersAreFresh
<1>1. Init => FreshInv
  <2>1. Init => \A u \in Reviewers : Fresh(u)
    BY DEF Init, Idle, Fresh, Seeing, Examined, InFlight, At
  <2> QED
    BY <2>1, TypeInit DEF FreshInv
<1> QED
    BY <1>1, FreshStep, FreshAnswers, PTL DEF Spec

-----------------------------------------------------------------------------
(* The view budget.  Every request between its claim and its answer holds one *)
(* of the views claimed; on a budgeted link nobody holds a session, so nobody *)
(* gets there without a claim.                                                *)

Claimed == {u \in Reviewers : request[u].pc \in {"log", "gate"}}

NoSession(u) ==
    /\ grant[u] = -1
    /\ InFlight(u) => request[u].origin # "resume" /\ request[u].session = None

Counted ==
    /\ IsFiniteSet(Claimed)
    /\ served + Cardinality(Claimed) <= views
    /\ views <= maxViews

BudgetInv ==
    /\ TypeOK
    /\ maxViews # None => Counted /\ \A u \in Reviewers : NoSession(u)

LEMMA BudgetHolds == BudgetInv => BudgetIsRespected
<1> SUFFICES ASSUME BudgetInv, maxViews # None PROVE served <= maxViews
    BY DEF BudgetIsRespected
<1>1. Counted /\ served \in Nat /\ views \in Nat /\ maxViews \in Nat
    BY DEF BudgetInv, TypeOK, LinkTypeOK
<1>2. Cardinality(Claimed) \in Nat
    BY <1>1, FS_CardinalityType DEF Counted
<1> QED
    BY <1>1, <1>2 DEF Counted

\* One request moves; it joins or leaves the requests that hold a view.
LEMMA ClaimedMoves ==
    ASSUME TypeOK, NEW u \in Reviewers, NEW q, request' = [request EXCEPT ![u] = q],
           IsFiniteSet(Claimed)
    PROVE  /\ IsFiniteSet(Claimed')
           /\ Cardinality(Claimed) \in Nat /\ Cardinality(Claimed') \in Nat
           /\ q.pc \in {"log", "gate"} =>
                Cardinality(Claimed') = IF u \in Claimed THEN Cardinality(Claimed)
                                        ELSE Cardinality(Claimed) + 1
           /\ q.pc \notin {"log", "gate"} =>
                Cardinality(Claimed') = IF u \in Claimed THEN Cardinality(Claimed) - 1
                                        ELSE Cardinality(Claimed)
<1>1. request'[u] = q /\ \A w \in Reviewers \ {u} : request'[w] = request[w]
    BY DEF TypeOK
<1>2. CASE q.pc \in {"log", "gate"}
  <2>1. Claimed' = Claimed \cup {u}
    BY <1>1, <1>2 DEF Claimed
  <2> QED
    BY <1>2, <2>1, FS_AddElement, FS_CardinalityType
<1>3. CASE q.pc \notin {"log", "gate"}
  <2>1. Claimed' = Claimed \ {u}
    BY <1>1, <1>3 DEF Claimed
  <2> QED
    BY <1>3, <2>1, FS_RemoveElement, FS_CardinalityType
<1> QED
    BY <1>2, <1>3

\* Nothing that is counted moves, or some requests give up the view they hold.
LEMMA CountKept ==
    ASSUME TypeOK, maxViews \in Nat, Counted, UNCHANGED <<views, served, maxViews>>,
           IsFiniteSet(Claimed'), Cardinality(Claimed') <= Cardinality(Claimed)
    PROVE  Counted'
<1>1. Cardinality(Claimed) \in Nat /\ Cardinality(Claimed') \in Nat
    BY FS_CardinalityType DEF Counted
<1> QED
    BY <1>1 DEF Counted, TypeOK

LEMMA FewerClaimed ==
    ASSUME IsFiniteSet(Claimed), Claimed' \subseteq Claimed
    PROVE  IsFiniteSet(Claimed') /\ Cardinality(Claimed') <= Cardinality(Claimed)
BY FS_Subset

LEMMA BudgetStep == ASSUME BudgetInv, [Next]_vars PROVE BudgetInv'
<1>1. TypeOK /\ TypeOK' /\ LinkTypeOK
    BY TypeStep DEF BudgetInv, TypeOK
<1>2. maxViews' = maxViews
    BY DEF Next, Reviewer, WatchMiss, WatchHit, CompatBegin, ResumeBegin, ReadSite, ReadLink, Claim,
       ClaimFails, WriteCache, Respond, Abort, ChangeHere, ChangeElsewhere, ChangeRows, Invalidate,
       Evict, Tick, Restart, vars, linkVars, facts
<1> SUFFICES ASSUME maxViews # None
             PROVE  Counted' /\ \A u \in Reviewers : NoSession(u)'
    BY <1>1, <1>2 DEF BudgetInv
<1>3. /\ Counted /\ maxViews \in Nat
      /\ \A u \in Reviewers : NoSession(u)
    BY <1>1 DEF BudgetInv, LinkTypeOK
<1>4. ASSUME NEW u \in Reviewers, NEW q, request' = [request EXCEPT ![u] = q],
             UNCHANGED <<grant, views, served>>,
             q.pc \in {"log", "gate"} => u \in Claimed,
             q.pc # "idle" => q.origin # "resume" /\ q.session = None
      PROVE  Counted' /\ \A w \in Reviewers : NoSession(w)'
  <2>1. IsFiniteSet(Claimed') /\ Cardinality(Claimed') <= Cardinality(Claimed)
    <3>1. IsFiniteSet(Claimed)
      BY <1>3 DEF Counted
    <3> DEFINE before == Cardinality(Claimed)
               after == Cardinality(Claimed')
    <3>2. /\ IsFiniteSet(Claimed') /\ before \in Nat /\ after \in Nat
          /\ q.pc \in {"log", "gate"} => after = IF u \in Claimed THEN before ELSE before + 1
          /\ q.pc \notin {"log", "gate"} => after = IF u \in Claimed THEN before - 1 ELSE before
      BY <1>1, <1>4, <3>1, ClaimedMoves
    <3> HIDE DEF before, after
    <3>3. after <= before
      BY <1>4, <3>2
    <3> QED
      BY <3>2, <3>3 DEF before, after
  <2>2. Counted'
    BY <1>1, <1>2, <1>3, <1>4, <2>1, CountKept
  <2>3. request'[u] = q /\ \A w \in Reviewers \ {u} : request'[w] = request[w]
    BY <1>1, <1>4 DEF TypeOK
  <2>4. ASSUME NEW w \in Reviewers PROVE NoSession(w)'
    BY <1>3, <1>4, <2>3 DEF NoSession, InFlight, At
  <2> QED
    BY <2>2, <2>4
<1>5. ASSUME NEW u \in Reviewers, End(u), UNCHANGED <<grant, views, served>>
      PROVE  Counted' /\ \A w \in Reviewers : NoSession(w)'
    BY <1>4, <1>5 DEF End, Idle
<1>6. ASSUME NEW u \in Reviewers,
             WatchMiss(u) \/ WatchHit(u) \/ CompatBegin(u) \/ ResumeBegin(u)
      PROVE  Counted' /\ \A w \in Reviewers : NoSession(w)'
  <2>1. ~ResumeBegin(u)
    BY <1>3 DEF ResumeBegin, NoSession
  <2>2. UNCHANGED <<grant, views, served>>
    BY <1>6, <2>1 DEF WatchMiss, WatchHit, CompatBegin
  <2>3. CASE WatchMiss(u) \/ CompatBegin(u)
    BY <1>4, <2>2, <2>3 DEF WatchMiss, CompatBegin, Start
  <2>4. CASE WatchHit(u)
    BY <1>4, <2>2, <2>4 DEF WatchHit
  <2> QED
    BY <1>6, <2>1, <2>3, <2>4
<1>7. ASSUME NEW u \in Reviewers,
             \/ (ReadSite(u) \/ ReadLink(u) \/ ClaimFails(u)) /\ ~End(u)
             \/ WriteCache(u)
      PROVE  Counted' /\ \A w \in Reviewers : NoSession(w)'
  <2> DEFINE r == request[u]
  <2>1. UNCHANGED <<grant, views, served>>
    BY <1>7 DEF ReadSite, ReadLink, ClaimFails, WriteCache
  <2>2. r \in Requested /\ r.origin # "resume" /\ r.session = None
    <3>1. At(u, "site") \/ At(u, "link") \/ At(u, "claim") \/ At(u, "log")
      BY <1>7 DEF ReadSite, ReadLink, ClaimFails, WriteCache
    <3> QED
      BY <1>1, <1>3, <3>1, InFlightType DEF At, Steps, NoSession, InFlight
  <2>3. CASE ReadSite(u) /\ ~End(u)
    <3> DEFINE q == [r EXCEPT !.pc = "link"]
    <3>1. request' = [request EXCEPT ![u] = q]
      BY <2>3 DEF ReadSite
    <3>2. q.pc = "link" /\ q.origin = r.origin /\ q.session = r.session
      BY <2>2 DEF Requested
    <3> QED
      BY <1>4, <2>1, <2>2, <3>1, <3>2
  <2>4. CASE ReadLink(u) /\ ~End(u)
    <3> DEFINE q == [r EXCEPT !.pc = IF request[u].origin = "resume" THEN "log" ELSE "claim",
                              !.videos = Playable,
                              !.cacheable = MayCache(link, WatchTtl),
                              !.session = Session(request[u])]
    <3>1. request' = [request EXCEPT ![u] = q]
      BY <2>4 DEF ReadLink
    <3>2. Session(r) = None
      BY <2>2 DEF Session
    <3>3. q.pc = "claim" /\ q.origin = r.origin /\ q.session = None
      BY <2>2, <3>2 DEF Requested
    <3> HIDE DEF q
    <3> QED
      BY <1>4, <2>1, <2>2, <3>1, <3>3
  <2>5. CASE ClaimFails(u) /\ ~End(u)
    <3> DEFINE q == [r EXCEPT !.pc = "site", !.cached = FALSE, !.videos = {}]
    <3>1. request' = [request EXCEPT ![u] = q]
      BY <1>1, <2>2, <2>5 DEF ClaimFails, TypeOK
    <3>2. q.pc = "site" /\ q.origin = r.origin /\ q.session = r.session
      BY <2>2 DEF Requested
    <3> HIDE DEF q
    <3> QED
      BY <1>4, <2>1, <2>2, <3>1, <3>2
  <2>6. CASE WriteCache(u)
    <3> DEFINE q == [r EXCEPT !.pc = "gate"]
    <3>1. request' = [request EXCEPT ![u] = q] /\ u \in Claimed
      BY <2>6 DEF WriteCache, At, Claimed
    <3>2. q.pc = "gate" /\ q.origin = r.origin /\ q.session = r.session
      BY <2>2 DEF Requested
    <3> HIDE DEF q
    <3> QED
      BY <1>4, <2>1, <2>2, <3>1, <3>2
  <2> QED
    BY <1>7, <2>3, <2>4, <2>5, <2>6
<1>8. ASSUME NEW u \in Reviewers, Claim(u)
      PROVE  Counted' /\ \A w \in Reviewers : NoSession(w)'
  <2> DEFINE r == request[u]
             q == [r EXCEPT !.pc = "log"]
  <2>1. /\ request' = [request EXCEPT ![u] = q] /\ r.pc = "claim" /\ views < maxViews
        /\ views' = views + 1 /\ UNCHANGED <<grant, served>>
    BY <1>8 DEF Claim, Claims, BudgetLeft, At
  <2>2. r \in Requested
    BY <1>1, <2>1, InFlightType DEF Steps
  <2>3. q.pc = "log" /\ q.origin = r.origin /\ q.session = r.session
    BY <2>2 DEF Requested
  <2> HIDE DEF q
  <2>4. u \notin Claimed
    BY <2>1 DEF Claimed
  <2>5. Counted'
    <3>1. /\ IsFiniteSet(Claimed') /\ Cardinality(Claimed) \in Nat
          /\ Cardinality(Claimed') = Cardinality(Claimed) + 1
      BY <1>1, <1>3, <2>1, <2>3, <2>4, ClaimedMoves DEF Counted
    <3> QED
      BY <1>1, <1>2, <1>3, <2>1, <3>1 DEF Counted, TypeOK
  <2>6. request'[u] = q /\ \A w \in Reviewers \ {u} : request'[w] = request[w]
    BY <1>1, <2>1 DEF TypeOK
  <2>7. ASSUME NEW w \in Reviewers PROVE NoSession(w)'
    <3>1. NoSession(u) /\ InFlight(u) /\ NoSession(w)
      BY <1>3, <2>1 DEF InFlight, At
    <3> QED
      BY <2>1, <2>3, <2>6, <3>1 DEF NoSession, InFlight, At
  <2> QED
    BY <2>5, <2>7
<1>9. ASSUME NEW u \in Reviewers, Respond(u)
      PROVE  Counted' /\ \A w \in Reviewers : NoSession(w)'
  <2>1. /\ request' = [request EXCEPT ![u] = Idle] /\ u \in Claimed
        /\ served' = served + 1 /\ UNCHANGED views
    BY <1>9 DEF Respond, End, At, Claimed
  <2>2. Counted'
    <3>1. /\ IsFiniteSet(Claimed') /\ Cardinality(Claimed) \in Nat
          /\ Cardinality(Claimed') = Cardinality(Claimed) - 1
      <4>1. IsFiniteSet(Claimed) /\ Idle.pc \notin {"log", "gate"}
        BY <1>3 DEF Counted, Idle
      <4> QED
        BY <1>1, <2>1, <4>1, ClaimedMoves
    <3> QED
      BY <1>1, <1>2, <1>3, <2>1, <3>1 DEF Counted, TypeOK
  <2>3. request[u].session = None
    BY <1>3, <1>9 DEF Respond, NoSession, InFlight, At
  <2>4. grant' = grant
    BY <1>9, <2>3 DEF Respond
  <2>5. ASSUME NEW w \in Reviewers PROVE NoSession(w)'
    BY <1>1, <1>3, <2>1, <2>4 DEF NoSession, InFlight, At, Idle, TypeOK
  <2> QED
    BY <2>2, <2>5
<1>10. ASSUME NEW u \in Reviewers, Reviewer(u)
       PROVE  Counted' /\ \A w \in Reviewers : NoSession(w)'
  <2>1. CASE (ReadSite(u) \/ ReadLink(u) \/ ClaimFails(u)) /\ End(u)
    BY <1>5, <2>1 DEF ReadSite, ReadLink, ClaimFails
  <2>2. CASE Abort(u)
    BY <1>5, <2>2 DEF Abort
  <2> QED
    BY <1>6, <1>7, <1>8, <1>9, <1>10, <2>1, <2>2 DEF Reviewer
<1>11. CASE UNCHANGED <<request, grant, views, served>>
  <2>1. Claimed' = Claimed
    BY <1>11 DEF Claimed
  <2> QED
    BY <1>2, <1>3, <1>11, <2>1 DEF Counted, NoSession, InFlight, At
<1>12. CASE Tick
  <2>1. \A u \in Reviewers : /\ request'[u] = IF InFlight(u) THEN [request[u] EXCEPT !.session = OneLess(@)] ELSE Idle
                             /\ grant'[u] = OneLess(grant[u])
    BY <1>12 DEF Tick
  <2>2. ASSUME NEW u \in Reviewers
        PROVE  request'[u].pc = request[u].pc /\ NoSession(u)'
    <3>1. NoSession(u) /\ grant'[u] = -1
      BY <1>3, <2>1 DEF NoSession, OneLess
    <3>2. CASE InFlight(u)
      <4>1. request[u] \in Requested
        BY <1>1, <3>2, InFlightType
      <4>2. /\ request'[u].pc = request[u].pc /\ request'[u].origin = request[u].origin
            /\ request'[u].session = OneLess(request[u].session)
        BY <2>1, <3>2, <4>1 DEF Requested
      <4>3. request[u].origin # "resume" /\ request[u].session = None
        BY <3>1, <3>2 DEF NoSession
      <4>4. request'[u].session = None
        BY <4>2, <4>3 DEF OneLess
      <4> QED
        BY <3>1, <4>2, <4>3, <4>4 DEF NoSession
    <3>3. CASE ~InFlight(u)
      <4>1. request'[u] = Idle
        BY <2>1, <3>3
      <4> QED
        BY <3>1, <3>3, <4>1 DEF NoSession, InFlight, At, Idle
    <3> QED
      BY <3>2, <3>3
  <2>3. Claimed' = Claimed
    BY <2>2 DEF Claimed
  <2>4. Counted'
    BY <1>2, <1>3, <1>12, <2>3 DEF Tick, Counted
  <2> QED
    BY <2>2, <2>4
<1>13. CASE Restart
  <2>1. \A u \in Reviewers : request'[u] = Idle
    BY <1>13 DEF Restart
  <2>2. Claimed' \subseteq Claimed
    BY <2>1 DEF Claimed, Idle
  <2>3. IsFiniteSet(Claimed') /\ Cardinality(Claimed') <= Cardinality(Claimed)
    BY <1>3, <2>2, FewerClaimed DEF Counted
  <2>4. Counted'
    BY <1>1, <1>2, <1>3, <1>13, <2>3, CountKept DEF Restart
  <2> QED
    BY <1>3, <1>13, <2>1, <2>4 DEF Restart, NoSession, InFlight, At, Idle
<1>14. (ChangeHere \/ ChangeElsewhere \/ Invalidate \/ Evict \/ UNCHANGED vars) =>
            UNCHANGED <<request, grant, views, served>>
    BY DEF ChangeHere, ChangeElsewhere, Invalidate, Evict, vars
<1> QED
    BY <1>10, <1>11, <1>12, <1>13, <1>14 DEF Next

LEMMA BudgetInit == Init => BudgetInv
<1> SUFFICES ASSUME Init, maxViews # None PROVE BudgetInv
    BY TypeInit DEF BudgetInv
<1>1. TypeOK /\ maxViews \in Nat
    BY TypeInit DEF TypeOK, LinkTypeOK
<1>2. Claimed = {}
    BY DEF Init, Claimed, Idle
<1>3. Counted
    BY <1>1, <1>2, FS_EmptySet DEF Init, Counted
<1>4. \A u \in Reviewers : NoSession(u)
    BY DEF Init, NoSession, InFlight, At, Idle
<1> QED
    BY <1>1, <1>3, <1>4 DEF BudgetInv

\* A link never gives more positive answers than maxViews, whatever mixture of #k,
\* compatibility and resumed requests races for the last view.
THEOREM BudgetRespected == Spec => []BudgetIsRespected
BY BudgetInit, BudgetStep, BudgetHolds, PTL DEF Spec

-----------------------------------------------------------------------------
(* Media tokens die with the session.  On a link without terms the exchange   *)
(* gives every answer a session, a resumption carries what is left of it, and *)
(* both end no later than the grant the reviewer holds.                       *)

WithinSession(u) ==
    LET r == request[u]
    IN  /\ token[u] <= grant[u]
        /\ r.pc \in Admission /\ r.origin = "compat" => r.session # None
        /\ r.pc \in Steps /\ r.origin = "resume" => r.session # None /\ r.session <= grant[u]

SessionInv ==
    /\ TypeOK
    /\ maxViews = None /\ life = None => \A u \in Reviewers : WithinSession(u)

LEMMA SessionStep == ASSUME SessionInv, [Next]_vars PROVE SessionInv'
<1>1. TypeOK /\ TypeOK' /\ LinkTypeOK
    BY TypeStep DEF SessionInv, TypeOK
<1>2. maxViews' = maxViews /\ (life' = None => life = None)
  <2>1. maxViews' = maxViews /\ (life' = life \/ Tick)
    BY DEF Next, Reviewer, WatchMiss, WatchHit, CompatBegin, ResumeBegin, ReadSite, ReadLink, Claim,
       ClaimFails, WriteCache, Respond, Abort, ChangeHere, ChangeElsewhere, ChangeRows, Invalidate,
       Evict, Tick, Restart, vars, linkVars, facts
  <2> QED
    BY <1>1, <2>1 DEF Tick, LifeOneLess, LinkTypeOK
<1> SUFFICES ASSUME maxViews = None, life = None
             PROVE  \A u \in Reviewers : WithinSession(u)'
    BY <1>1, <1>2 DEF SessionInv
<1>3. \A u \in Reviewers : WithinSession(u)
    BY DEF SessionInv
<1>4. ASSUME NEW u \in Reviewers, NEW q, request' = [request EXCEPT ![u] = q],
             UNCHANGED <<grant, token>>,
             q.pc \in Admission /\ q.origin = "compat" => q.session # None,
             q.pc \in Steps /\ q.origin = "resume" => q.session # None /\ q.session <= grant[u]
      PROVE  \A w \in Reviewers : WithinSession(w)'
  <2>1. request'[u] = q /\ \A w \in Reviewers \ {u} : request'[w] = request[w]
    BY <1>1, <1>4 DEF TypeOK
  <2> QED
    BY <1>3, <1>4, <2>1 DEF WithinSession
<1>5. ASSUME NEW u \in Reviewers, End(u), UNCHANGED <<grant, token>>
      PROVE  \A w \in Reviewers : WithinSession(w)'
  <2>1. Idle.pc \notin Steps /\ Idle.pc \notin Admission
    BY DEF Idle, Steps, Admission
  <2> QED
    BY <1>4, <1>5, <2>1 DEF End
<1>6. ASSUME NEW u \in Reviewers,
             WatchMiss(u) \/ WatchHit(u) \/ CompatBegin(u) \/ ResumeBegin(u)
      PROVE  \A w \in Reviewers : WithinSession(w)'
  <2>1. grant[u] # None /\ grant[u] <= grant[u]
    BY <1>1 DEF TypeOK, Left
  <2>2. CASE WatchMiss(u) \/ CompatBegin(u) \/ ResumeBegin(u)
    BY <1>4, <2>1, <2>2 DEF WatchMiss, CompatBegin, ResumeBegin, Start, Admission
  <2>3. CASE WatchHit(u)
    BY <1>4, <2>3 DEF WatchHit
  <2> QED
    BY <1>6, <2>2, <2>3
<1>7. ASSUME NEW u \in Reviewers,
             \/ (ReadSite(u) \/ ReadLink(u) \/ ClaimFails(u)) /\ ~End(u)
             \/ Claim(u) \/ WriteCache(u)
      PROVE  \A w \in Reviewers : WithinSession(w)'
  <2> DEFINE r == request[u]
  <2>1. UNCHANGED <<grant, token>>
    BY <1>7 DEF ReadSite, ReadLink, Claim, ClaimFails, WriteCache
  <2>2. r \in Requested /\ WithinSession(u) /\ r.pc \in Steps
    <3>1. At(u, "site") \/ At(u, "link") \/ At(u, "claim") \/ At(u, "log")
      BY <1>7 DEF ReadSite, ReadLink, Claim, ClaimFails, WriteCache
    <3> QED
      BY <1>1, <1>3, <3>1, InFlightType DEF At, Steps
  <2>3. CASE ReadLink(u) /\ ~End(u)
    <3> DEFINE q == [r EXCEPT !.pc = IF request[u].origin = "resume" THEN "log" ELSE "claim",
                              !.videos = Playable,
                              !.cacheable = MayCache(link, WatchTtl),
                              !.session = Session(request[u])]
    <3>1. request' = [request EXCEPT ![u] = q]
      BY <2>3 DEF ReadLink
    <3>2. /\ r.origin = "compat" => Session(r) # None
          /\ r.origin = "resume" => Session(r) = r.session
      BY DEF Session
    <3>3. q.origin = r.origin /\ q.session = Session(r)
      BY <2>2 DEF Requested
    <3> HIDE DEF q
    <3> QED
      BY <1>4, <2>1, <2>2, <3>1, <3>2, <3>3 DEF WithinSession
  <2>4. CASE ClaimFails(u) /\ ~End(u)
    <3> DEFINE q == [r EXCEPT !.pc = "site", !.cached = FALSE, !.videos = {}]
    <3>1. request' = [request EXCEPT ![u] = q]
      BY <1>1, <2>2, <2>4 DEF ClaimFails, TypeOK
    <3>2. q.pc = "site" /\ q.origin = r.origin /\ q.session = r.session
      BY <2>2 DEF Requested
    <3> HIDE DEF q
    <3> QED
      BY <1>4, <2>1, <2>2, <3>1, <3>2 DEF WithinSession, Admission
  <2>5. CASE (ReadSite(u) /\ ~End(u)) \/ Claim(u) \/ WriteCache(u)
    <3>1. PICK pc : /\ request' = [request EXCEPT ![u] = [r EXCEPT !.pc = pc]]
                    /\ pc \in Admission => r.pc \in Admission
      BY <2>5 DEF ReadSite, Claim, WriteCache, Admission, At
    <3> DEFINE q == [r EXCEPT !.pc = pc]
    <3>2. q.pc = pc /\ q.origin = r.origin /\ q.session = r.session
      BY <2>2 DEF Requested
    <3>3. request' = [request EXCEPT ![u] = q]
      BY <3>1
    <3> HIDE DEF q
    <3> QED
      BY <1>4, <2>1, <2>2, <3>1, <3>2, <3>3 DEF WithinSession
  <2> QED
    BY <1>7, <2>3, <2>4, <2>5
<1>8. ASSUME NEW u \in Reviewers, Respond(u) PROVE \A w \in Reviewers : WithinSession(w)'
  <2> DEFINE r == request[u]
             s == request[u].session
  <2>1. r \in Requested /\ WithinSession(u) /\ r.pc = "gate" /\ request' = [request EXCEPT ![u] = Idle]
    BY <1>1, <1>3, <1>8, InFlightType DEF Respond, At, Steps, End
  <2>2. s \in Sessions /\ MediaToken(s) \in Left(MediaTtl) /\ (s # None => MediaToken(s) <= s)
    BY <2>1, MediaTokenType DEF Requested
  <2>3. r.origin \in {"watch", "compat", "resume"}
    BY <2>1 DEF Requested, Origins
  <2>4. token'[u] <= grant'[u]
    <3>1. grant[u] \in Int
      BY <1>1 DEF TypeOK, Left
    <3>2. CASE r.origin = "watch"
      BY <1>1, <1>8, <2>1, <3>2 DEF Respond, WithinSession
    <3>3. CASE r.origin = "compat"
      <4>1. s # None
        BY <2>1, <3>3 DEF WithinSession, Admission
      <4>2. token'[u] = MediaToken(s) /\ grant'[u] = s
        BY <1>1, <1>8, <3>3, <4>1 DEF Respond, TypeOK
      <4> QED
        BY <2>2, <4>1, <4>2
    <3>4. CASE r.origin = "resume"
      <4>1. s # None /\ s <= grant[u]
        BY <2>1, <3>4 DEF WithinSession, Steps
      <4>2. token'[u] = MediaToken(s) /\ grant'[u] = grant[u]
        BY <1>1, <1>8, <3>4 DEF Respond, TypeOK
      <4> QED
        BY <2>2, <3>1, <4>1, <4>2 DEF Sessions, Left
    <3> QED
      BY <2>3, <3>2, <3>3, <3>4
  <2>5. ASSUME NEW w \in Reviewers \ {u}
        PROVE  token'[w] = token[w] /\ grant'[w] = grant[w] /\ request'[w] = request[w]
    BY <1>1, <1>8, <2>1 DEF Respond, TypeOK
  <2>6. request'[u] = Idle
    BY <1>1, <2>1 DEF TypeOK
  <2>7. WithinSession(u)'
    BY <2>4, <2>6 DEF WithinSession, Idle, Admission, Steps
  <2>8. ASSUME NEW w \in Reviewers \ {u} PROVE WithinSession(w)'
    BY <1>3, <2>5 DEF WithinSession
  <2> QED
    BY <2>7, <2>8
<1>9. ASSUME NEW u \in Reviewers, Reviewer(u) PROVE \A w \in Reviewers : WithinSession(w)'
  <2>1. CASE (ReadSite(u) \/ ReadLink(u) \/ ClaimFails(u)) /\ End(u)
    BY <1>5, <2>1 DEF ReadSite, ReadLink, ClaimFails
  <2>2. CASE Abort(u)
    BY <1>5, <2>2 DEF Abort
  <2> QED
    BY <1>6, <1>7, <1>8, <1>9, <2>1, <2>2 DEF Reviewer
<1>10. CASE UNCHANGED <<request, grant, token>>
    BY <1>3, <1>10 DEF WithinSession
<1>11. CASE Tick
  <2> SUFFICES ASSUME NEW u \in Reviewers PROVE WithinSession(u)'
    OBVIOUS
  <2>1. /\ request'[u] = IF InFlight(u) THEN [request[u] EXCEPT !.session = OneLess(@)] ELSE Idle
        /\ grant'[u] = OneLess(grant[u]) /\ token'[u] = OneLess(token[u])
    BY <1>11 DEF Tick
  <2>2. /\ grant[u] \in Left(SessionTtl) /\ token[u] \in Left(MediaTtl) /\ WithinSession(u)
    BY <1>1, <1>3 DEF TypeOK
  <2>3. \A m \in Sessions \cup Left(MediaTtl), n \in Left(SessionTtl) :
            m # None /\ m <= n => OneLess(m) # None /\ OneLess(m) <= OneLess(n)
    BY DEF OneLess, Sessions, Left
  <2>4. grant'[u] >= token'[u]
    BY <2>1, <2>2, <2>3 DEF WithinSession, Left
  <2>5. CASE InFlight(u)
    <3>1. request[u] \in Requested
      BY <1>1, <2>5, InFlightType
    <3>2. /\ request'[u].pc = request[u].pc /\ request'[u].origin = request[u].origin
          /\ request'[u].session = OneLess(request[u].session)
          /\ request[u].session \in Sessions
      BY <2>1, <2>5, <3>1 DEF Requested
    <3>3. request[u].session # None => request'[u].session # None
      BY <3>2 DEF OneLess, Sessions, Left
    <3>4. request[u].session # None /\ request[u].session <= grant[u] =>
            request'[u].session <= grant'[u]
      BY <2>1, <2>2, <2>3, <3>2
    <3> QED
      BY <2>2, <2>4, <3>2, <3>3, <3>4 DEF WithinSession
  <2>6. CASE ~InFlight(u)
    BY <2>1, <2>4, <2>6 DEF WithinSession, Idle, Admission, Steps
  <2> QED
    BY <2>5, <2>6
<1>12. CASE Restart
    BY <1>3, <1>12 DEF Restart, WithinSession, Idle, Admission, Steps
<1>13. (ChangeHere \/ ChangeElsewhere \/ Invalidate \/ Evict \/ UNCHANGED vars) =>
            UNCHANGED <<request, grant, token>>
    BY DEF ChangeHere, ChangeElsewhere, Invalidate, Evict, vars
<1> QED
    BY <1>9, <1>10, <1>11, <1>12, <1>13 DEF Next

\* Where links keep an email-safe URL, no media token outlives the session grant it came
\* with, however late the session was resumed or the answer was sent.
THEOREM TokensWithinSession == Spec => []TokensDieWithSession
<1>1. Init => SessionInv
  <2>1. Init => \A u \in Reviewers : WithinSession(u)
    BY DEF Init, WithinSession, Idle, Admission, Steps
  <2> QED
    BY <2>1, TypeInit DEF SessionInv
<1>2. SessionInv => TokensDieWithSession
    BY DEF SessionInv, WithinSession, TokensDieWithSession
<1> QED
    BY <1>1, <1>2, SessionStep, PTL DEF Spec
=============================================================================
