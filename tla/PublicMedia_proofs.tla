-------------------------- MODULE PublicMedia_proofs ---------------------------
(* Theorems about PublicMedia, for any number of videos and reviewers, any     *)
(* terms of the link and any times to live; and about what its answers are     *)
(* made of: the bytes of any range (MediaRanges) and the addresses of any row  *)
(* (PublicSources).                                                            *)
EXTENDS PublicMedia, MediaRanges, TLAPS

Requested == [pc : {"site", "link", "rows", "stream"}, route : Routes,
              credential : Credentials, video : Videos]
Entries == Credentials \X LocalVideos

USE LinkAssumption, MediaAssumption

LEMMA InFlightType ==
    ASSUME TypeOK, NEW u \in Reviewers
    PROVE  /\ InFlight(u) <=> request[u] \in Requested
           /\ ~InFlight(u) <=> request[u] = Idle
           /\ Resolving(u) <=> request[u] \in Requested /\ request[u].pc # "stream"
           /\ request[u].pc \in {"site", "link", "rows", "stream"} => request[u] \in Requested
BY DEF TypeOK, RequestState, Requested, InFlight, At, Idle, Resolving, Streaming

LEMMA ChangedRowsType ==
    ASSUME LinkTypeOK, ChangeRows, pending' \in BOOLEAN
    PROVE  LinkTypeOK'
<1>1. site' \in BOOLEAN /\ link' \in LinkStatus /\ ready' \subseteq Videos /\ listed' \subseteq Videos
  <2>1. CASE ChangeSite
    BY <2>1 DEF ChangeSite, LinkTypeOK
  <2>2. CASE ChangeLink
    BY <2>2 DEF ChangeLink, LinkTypeOK
  <2>3. ASSUME NEW v \in Videos, ChangeReady(v) \/ ChangeListed(v)
        PROVE  site' \in BOOLEAN /\ link' \in LinkStatus /\ ready' \subseteq Videos /\ listed' \subseteq Videos
    BY <2>3 DEF ChangeReady, ChangeListed, LinkTypeOK
  <2> QED
    BY <2>1, <2>2, <2>3 DEF ChangeRows
<1> QED
    BY <1>1 DEF LinkTypeOK, ChangeRows

LEMMA SightType ==
    ASSUME LinkTypeOK, NEW v \in Videos PROVE Sight(v) \in Sights
<1>1. /\ RowAdmits(v) \in BOOLEAN
      /\ TokenIsGood(v) \in BOOLEAN
      /\ GrantIsGood(v) \in BOOLEAN
      /\ (~Expired) \in BOOLEAN
      /\ site \in BOOLEAN
    BY DEF RowAdmits, TokenIsGood, GrantIsGood, LinkTypeOK
<1> QED
    BY <1>1 DEF Sight, Sights

\* What the others have seen, when the rows, the tokens or the grants change.
LEMMA SeenTooType ==
    ASSUME TypeOK, LinkTypeOK' PROVE SeenToo \in [Reviewers -> Sights]
<1>1. ASSUME NEW u \in Reviewers, Resolving(u) PROVE SeenToo[u] \in Sights
  <2> DEFINE v == request[u].video
             tokenIsGood == compat /\ token'[v] >= 0
             grantIsGood == maxViews # None => grant'[v] >= 0
             rowAdmits == link' = "ACTIVE" /\ v \in Playable'
  <2>1. /\ seen[u] \in Sights
        /\ site' \in BOOLEAN
    BY DEF TypeOK, LinkTypeOK
  <2>2. /\ (seen[u].site \/ site') \in BOOLEAN
        /\ (seen[u].row \/ rowAdmits) \in BOOLEAN
        /\ seen[u].unexpired \in BOOLEAN
        /\ (seen[u].token \/ tokenIsGood) \in BOOLEAN
        /\ (seen[u].grant \/ grantIsGood) \in BOOLEAN
    BY <2>1 DEF Sights
  <2> HIDE DEF tokenIsGood, grantIsGood, rowAdmits
  <2>3. [site |-> seen[u].site \/ site', row |-> seen[u].row \/ rowAdmits,
         unexpired |-> seen[u].unexpired, token |-> seen[u].token \/ tokenIsGood,
         grant |-> seen[u].grant \/ grantIsGood] \in Sights
    BY <2>2 DEF Sights
  <2> QED
    BY <1>1, <2>3 DEF SeenToo, tokenIsGood, grantIsGood, rowAdmits
<1>2. ASSUME NEW u \in Reviewers, ~Resolving(u) PROVE SeenToo[u] \in Sights
    BY <1>2 DEF SeenToo, TypeOK
<1> QED
    BY <1>1, <1>2, Zenon DEF SeenToo

-----------------------------------------------------------------------------
(* Types.                                                                   *)

LEMMA EndType ==
    ASSUME TypeOK, NEW u \in Reviewers, End(u)
    PROVE  /\ request' \in [Reviewers -> RequestState]
           /\ seen' \in [Reviewers -> Sights]
<1>1. Nothing \in Sights /\ Idle \in RequestState
    BY DEF Nothing, Sights, RequestState
<1> QED
    BY <1>1 DEF End, TypeOK

\* A request moves and nothing else but the cache.
LEMMA MoveType ==
    ASSUME TypeOK, NEW u \in Reviewers, NEW r \in RequestState,
           request' = [request EXCEPT ![u] = r],
           seen' \in [Reviewers -> Sights],
           cache' \in [Entries -> 0..CacheTtl],
           UNCHANGED <<linkVars, token, grant, outside, raced>>
    PROVE  TypeOK'
BY DEF TypeOK, LinkTypeOK, linkVars, facts, Entries

LEMMA TypeStep == ASSUME TypeOK, [Next]_vars PROVE TypeOK'
<1>1. LinkTypeOK /\ cache \in [Entries -> 0..CacheTtl] /\ CacheTtl \in 0..CacheTtl
    BY DEF TypeOK, Entries
<1>2. ASSUME NEW u \in Reviewers, NEW route \in Routes, NEW v \in Videos, NEW c \in Credentials,
             Hit(u, route, v, c) \/ Begin(u, route, v, c)
      PROVE  TypeOK'
  <2>1. PICK pc \in {"site", "stream"} :
            /\ request' = [request EXCEPT ![u] =
                  [pc |-> pc, route |-> route, credential |-> c, video |-> v]]
            /\ seen' = [seen EXCEPT ![u] = Sight(v)]
            /\ UNCHANGED <<linkVars, token, grant, cache, outside, raced>>
    BY <1>2 DEF Hit, Begin
  <2>2. [pc |-> pc, route |-> route, credential |-> c, video |-> v] \in RequestState
    BY DEF RequestState
  <2>3. seen' \in [Reviewers -> Sights]
    BY <1>1, <2>1, SightType DEF TypeOK
  <2> QED
    BY <1>1, <2>1, <2>2, <2>3, MoveType
<1>3. ASSUME NEW u \in Reviewers, Answer(u) PROVE TypeOK'
  <2>1. CASE End(u) /\ UNCHANGED <<linkVars, token, grant, cache, outside, raced>>
    BY <2>1, EndType DEF TypeOK, LinkTypeOK, linkVars, facts
  <2>2. ASSUME UNCHANGED <<linkVars, token, grant, outside, raced, seen>>,
               cache' \in [Entries -> 0..CacheTtl],
               NEW pc \in {"site", "link", "rows", "stream"}, NEW route \in Routes,
               request[u] \in Requested,
               request' = [request EXCEPT ![u] = [request[u] EXCEPT !.pc = pc, !.route = route]]
        PROVE  TypeOK'
    <3>1. [request[u] EXCEPT !.pc = pc, !.route = route] \in RequestState
      BY <2>2 DEF Requested, RequestState
    <3>2. seen' \in [Reviewers -> Sights]
      BY <2>2 DEF TypeOK
    <3> QED
      BY <2>2, <3>1, <3>2, MoveType
  <2>3. ASSUME NEW pc \in {"site", "link", "rows", "stream"}, request[u] \in Requested,
               request' = [request EXCEPT ![u].pc = pc]
        PROVE  request' = [request EXCEPT ![u] =
                   [request[u] EXCEPT !.pc = pc, !.route = request[u].route]]
    BY <2>3 DEF Requested
  <2>4. request[u].pc \in {"site", "link", "rows"} =>
            request[u] \in Requested /\ request[u].route \in Routes
    BY InFlightType DEF Requested
  <2>5. CASE ReadSite(u)
    BY <1>1, <2>1, <2>2, <2>3, <2>4, <2>5 DEF ReadSite, At, Routes
  <2>6. CASE ReadLink(u)
    BY <1>1, <2>1, <2>2, <2>3, <2>4, <2>6 DEF ReadLink, At
  <2>7. CASE Deliver(u)
    <3> DEFINE r == request[u]
    <3>1. CASE ~Authorized(r)
      BY <2>1, <2>7, <3>1 DEF Deliver
    <3>2. CASE Authorized(r)
      <4>1. cache' \in [Entries -> 0..CacheTtl]
        BY <1>1, <2>7, <3>2 DEF Deliver
      <4>2. r \in Requested /\ r.route \in Routes /\ "file" \in Routes
        BY <2>4, <2>7 DEF Deliver, At, Routes
      <4>3. UNCHANGED <<linkVars, token, grant, outside, raced, seen>>
        BY <2>7, <3>2 DEF Deliver
      <4>4. CASE PosterOfLocalFile(r)
        <5> DEFINE pc == IF Cached("file", r.video, r.credential) /\ ReadsCache(r.credential)
                         THEN "stream" ELSE "site"
        <5>1. request' = [request EXCEPT ![u] = [request[u] EXCEPT !.route = "file", !.pc = pc]]
          BY <2>7, <3>2, <4>4 DEF Deliver
        <5>2. [request[u] EXCEPT !.route = "file", !.pc = pc] =
                  [request[u] EXCEPT !.pc = pc, !.route = "file"]
          BY <4>2 DEF Requested
        <5> QED
          BY <2>2, <4>1, <4>2, <4>3, <5>1, <5>2
      <4>5. CASE ~PosterOfLocalFile(r)
        BY <2>2, <2>3, <2>7, <3>2, <4>1, <4>2, <4>3, <4>5 DEF Deliver
      <4> QED
        BY <4>4, <4>5
    <3> QED
      BY <3>1, <3>2
  <2>8. CASE Finish(u)
    BY <2>1, <2>8 DEF Finish
  <2> QED
    BY <1>3, <2>5, <2>6, <2>7, <2>8 DEF Answer
<1>4. ASSUME NEW e \in Credentials \X LocalVideos, Evict(e) PROVE TypeOK'
    BY <1>1, <1>4 DEF Evict, TypeOK, LinkTypeOK, linkVars, facts
<1>5. CASE Exchange
  <2>1. GrantLife \in Left(TokenTtl) /\ TokenTtl \in Left(TokenTtl)
    BY <1>1 DEF GrantLife, Least, Left, LinkTypeOK
  <2>2. LinkTypeOK'
    BY <1>1, <1>5 DEF Exchange, linkVars, facts, LinkTypeOK
  <2>3. token' \in [Videos -> Left(TokenTtl)] /\ grant' \in [Videos -> Left(TokenTtl)]
    BY <1>5, <2>1 DEF Exchange, TypeOK
  <2> QED
    BY <1>5, <2>2, <2>3, SeenTooType DEF Exchange, TypeOK
<1>6. CASE ChangeHere \/ ChangeElsewhere
  <2>1. LinkTypeOK'
    BY <1>1, <1>6, ChangedRowsType DEF ChangeHere, ChangeElsewhere, LinkTypeOK
  <2> QED
    BY <1>6, <2>1, SeenTooType DEF ChangeHere, ChangeElsewhere, TypeOK
<1>7. CASE Invalidate
  <2> DEFINE someone == \E u \in Reviewers : Resolving(u)
  <2>1. someone \in BOOLEAN
    OBVIOUS
  <2>2. raced' = someone /\ outside' = (outside /\ someone)
    BY <1>7 DEF Invalidate
  <2> HIDE DEF someone
  <2>3. raced' \in BOOLEAN /\ outside' \in BOOLEAN
    BY <2>1, <2>2, Zenon
  <2>4. cache' \in [Credentials \X LocalVideos -> 0..CacheTtl]
    BY <1>1, <1>7 DEF Invalidate, Empty
  <2>5. LinkTypeOK' /\ UNCHANGED <<request, token, grant, seen>>
    BY <1>1, <1>7 DEF Invalidate, facts, LinkTypeOK
  <2> QED
    BY <2>3, <2>4, <2>5 DEF TypeOK
<1>8. CASE Tick
  <2>1. LinkTypeOK'
    BY <1>1, <1>8 DEF Tick, LinkTypeOK, LifeOneLess
  <2>2. \A n \in Left(TokenTtl) : OneLess(n) \in Left(TokenTtl)
    BY DEF Left, OneLess
  <2>3. token' \in [Videos -> Left(TokenTtl)] /\ grant' \in [Videos -> Left(TokenTtl)]
    BY <1>8, <2>2 DEF Tick, TypeOK
  <2>4. cache' \in [Entries -> 0..CacheTtl]
    <3>1. ASSUME NEW e \in Entries
          PROVE  (IF cache[e] = 0 THEN 0 ELSE cache[e] - 1) \in 0..CacheTtl
      BY <1>1
    <3> QED
      BY <1>8, <3>1, Zenon DEF Tick, Entries
  <2> QED
    BY <1>8, <2>1, <2>3, <2>4 DEF Tick, TypeOK, Entries
<1>9. CASE Restart
  <2>1. Nothing \in Sights /\ Idle \in RequestState
    BY DEF Nothing, Sights, RequestState
  <2>2. /\ request' \in [Reviewers -> RequestState]
        /\ seen' \in [Reviewers -> Sights]
    BY <1>9, <2>1 DEF Restart
  <2>3. cache' \in [Credentials \X LocalVideos -> 0..CacheTtl]
    BY <1>1, <1>9 DEF Restart, Empty
  <2>4. LinkTypeOK'
    BY <1>1, <1>9 DEF Restart, facts, LinkTypeOK
  <2>5. UNCHANGED <<token, grant>> /\ outside' \in BOOLEAN /\ raced' \in BOOLEAN
    BY <1>9 DEF Restart
  <2> QED
    BY <2>2, <2>3, <2>4, <2>5 DEF TypeOK
<1>10. CASE UNCHANGED vars
    BY <1>10 DEF vars, linkVars, facts, TypeOK, LinkTypeOK
<1> QED
    BY <1>2, <1>3, <1>4, <1>5, <1>6, <1>7, <1>8, <1>9, <1>10 DEF Next

LEMMA TypeInit == Init => TypeOK
<1>1. Nothing \in Sights /\ Idle \in RequestState /\ -1 \in Left(TokenTtl)
  BY DEF Nothing, Sights, RequestState, Left
<1>2. \A t \in Terms : t[1] \in Nat \cup {None} /\ t[2] \in (Nat \ {0}) \cup {None}
  BY DEF LinkAssumption
<1>3. LinkInit => LinkTypeOK
  BY <1>2 DEF LinkInit, LinkTypeOK, LinkStatus
<1>4. Init => cache \in [Credentials \X LocalVideos -> 0..CacheTtl]
  BY DEF Init, Empty
<1>5. Init => /\ request \in [Reviewers -> RequestState]
              /\ seen \in [Reviewers -> Sights]
              /\ token \in [Videos -> Left(TokenTtl)]
              /\ grant \in [Videos -> Left(TokenTtl)]
  BY <1>1 DEF Init
<1> QED
  BY <1>3, <1>4, <1>5 DEF Init, TypeOK

\* The link's rows, the credentials, the entries and the requests in flight keep their
\* types; in particular nothing that counts down ends below -1 or, in the cache, below 0.
THEOREM TypeCorrect == Spec => []TypeOK
BY TypeInit, TypeStep, PTL DEF Spec

-----------------------------------------------------------------------------
(* Streams are authorized.  While a request resolves, its history holds what  *)
(* is true now (Seeing); what a query has answered is in the history from     *)
(* then on, whatever changes later (Examined); a hit needs no query because   *)
(* the entry it finds is for a link without a budget that has not expired     *)
(* (EntriesAreBounded).                                                       *)

Seeing(u) ==
    LET v == request[u].video
    IN  Resolving(u) =>
            /\ site => seen[u].site
            /\ RowAdmits(v) => seen[u].row
            /\ ~Expired => seen[u].unexpired
            /\ TokenIsGood(v) => seen[u].token
            /\ GrantIsGood(v) => seen[u].grant

Examined(u) ==
    LET r == request[u]
    IN  /\ r.pc \in {"link", "rows"} =>
              seen[u].site /\ (r.credential = "rmv1" => seen[u].token)
        /\ r.pc = "rows" => seen[u].row

\* StreamsAreAuthorized, of one request.
Justified(u) ==
    LET r == request[u]
    IN  Streaming(u) =>
            /\ seen[u].unexpired
            /\ r.credential = "rmv1" => seen[u].token
            /\ r.credential = "rmv1" \/ r.route = "view" \/ r.video \notin LocalVideos
                  => seen[u].site /\ seen[u].row
            /\ r.route # "view" => seen[u].grant

Sound(u) == Seeing(u) /\ Examined(u) /\ Justified(u)

AuthorizedInv == TypeOK /\ EntriesAreBounded /\ \A u \in Reviewers : Sound(u)

LEMMA JustifiedStreams == StreamsAreAuthorized <=> \A u \in Reviewers : Justified(u)
BY DEF StreamsAreAuthorized, Justified

\* A request that does not move while neither the rows nor the credentials change.
LEMMA Undisturbed ==
    ASSUME NEW u \in Reviewers, Sound(u), request'[u] = request[u], seen'[u] = seen[u],
           UNCHANGED <<linkVars, token, grant>>
    PROVE  Sound(u)'
BY DEF Sound, Seeing, Examined, Justified, Resolving, InFlight, Streaming, At, RowAdmits,
       Playable, Expired, TokenIsGood, GrantIsGood, linkVars, facts

\* A request that has ended.
LEMMA IdleIsSound ==
    ASSUME NEW u \in Reviewers, request'[u] = Idle PROVE Sound(u)'
BY DEF Sound, Seeing, Examined, Justified, Resolving, InFlight, Streaming, At, Idle

LEMMA EndKeepsSound ==
    ASSUME TypeOK, NEW w \in Reviewers, End(w), UNCHANGED <<linkVars, token, grant>>,
           \A u \in Reviewers : Sound(u)
    PROVE  \A u \in Reviewers : Sound(u)'
<1> SUFFICES ASSUME NEW u \in Reviewers PROVE Sound(u)'
    OBVIOUS
<1>1. CASE u = w
    BY <1>1, IdleIsSound DEF End, TypeOK
<1>2. CASE u # w
    BY <1>2, Undisturbed DEF End, TypeOK
<1> QED
    BY <1>1, <1>2

\* Where the request of one reviewer moves on, only its own history is at stake.
LEMMA OneMoves ==
    ASSUME TypeOK, NEW w \in Reviewers, NEW r, NEW s,
           request' = [request EXCEPT ![w] = r], seen' = [seen EXCEPT ![w] = s],
           UNCHANGED <<linkVars, token, grant>>,
           \A u \in Reviewers : Sound(u), Sound(w)'
    PROVE  \A u \in Reviewers : Sound(u)'
<1> SUFFICES ASSUME NEW u \in Reviewers PROVE Sound(u)'
    OBVIOUS
<1>1. CASE u = w
    BY <1>1
<1>2. CASE u # w
    BY <1>2, Undisturbed DEF TypeOK
<1> QED
    BY <1>1, <1>2

\* Entries when only some of them are dropped or grow older.
LEMMA EntriesKept ==
    ASSUME EntriesAreBounded, UNCHANGED <<maxViews, life>>,
           \A e \in Entries : cache'[e] = 0 \/ cache'[e] = cache[e]
    PROVE  EntriesAreBounded'
BY DEF EntriesAreBounded, Entries

\* What is true after the change is in every history that goes on.
LEMMA SeenTooSees ==
    ASSUME TypeOK, LinkTypeOK', NEW u \in Reviewers, Resolving(u), seen' = SeenToo,
           NEW v, v = request[u].video
    PROVE  /\ site' \/ seen[u].site => seen'[u].site
           /\ (link' = "ACTIVE" /\ v \in Playable') \/ seen[u].row => seen'[u].row
           /\ seen'[u].unexpired = seen[u].unexpired
           /\ (compat /\ token'[v] >= 0) \/ seen[u].token => seen'[u].token
           /\ (maxViews # None => grant'[v] >= 0) \/ seen[u].grant => seen'[u].grant
<1> DEFINE tokenIsGood == compat /\ token'[v] >= 0
           grantIsGood == maxViews # None => grant'[v] >= 0
           rowAdmits == link' = "ACTIVE" /\ v \in Playable'
<1>1. seen'[u] = [site |-> seen[u].site \/ site', row |-> seen[u].row \/ rowAdmits,
                  unexpired |-> seen[u].unexpired, token |-> seen[u].token \/ tokenIsGood,
                  grant |-> seen[u].grant \/ grantIsGood]
    BY DEF SeenToo
<1> HIDE DEF tokenIsGood, grantIsGood, rowAdmits
<1>2. /\ seen'[u].site = (seen[u].site \/ site')
      /\ seen'[u].row = (seen[u].row \/ rowAdmits)
      /\ seen'[u].unexpired = seen[u].unexpired
      /\ seen'[u].token = (seen[u].token \/ tokenIsGood)
      /\ seen'[u].grant = (seen[u].grant \/ grantIsGood)
    BY <1>1
<1>3. /\ site' \/ seen[u].site => seen'[u].site
      /\ rowAdmits \/ seen[u].row => seen'[u].row
      /\ seen'[u].unexpired = seen[u].unexpired
      /\ tokenIsGood \/ seen[u].token => seen'[u].token
      /\ grantIsGood \/ seen[u].grant => seen'[u].grant
    BY <1>2, Zenon
<1> QED
    BY <1>3 DEF tokenIsGood, grantIsGood, rowAdmits

\* Rows, tokens or grants change while every history takes note.
LEMMA SeenTooKeepsSound ==
    ASSUME TypeOK, LinkTypeOK', UNCHANGED <<request, compat, maxViews, life>>, seen' = SeenToo,
           \A u \in Reviewers : Sound(u)
    PROVE  \A u \in Reviewers : Sound(u)'
<1> SUFFICES ASSUME NEW u \in Reviewers PROVE Sound(u)'
    OBVIOUS
<1>1. CASE Resolving(u)
  <2> DEFINE v == request[u].video
  <2>1. Seeing(u) /\ Examined(u)
    BY DEF Sound
  <2>2. Resolving(u)' /\ ~Streaming(u)'
    BY <1>1 DEF Resolving, InFlight, Streaming, At
  <2>3. /\ site' \/ seen[u].site => seen'[u].site
        /\ RowAdmits(v)' \/ seen[u].row => seen'[u].row
        /\ seen'[u].unexpired = seen[u].unexpired
        /\ TokenIsGood(v)' \/ seen[u].token => seen'[u].token
        /\ GrantIsGood(v)' \/ seen[u].grant => seen'[u].grant
    BY <1>1, SeenTooSees DEF RowAdmits, TokenIsGood, GrantIsGood
  <2>4. Seeing(u)'
    BY <1>1, <2>1, <2>3 DEF Seeing, Expired
  <2>5. Examined(u)'
    BY <2>1, <2>3 DEF Examined
  <2> QED
    BY <2>2, <2>4, <2>5 DEF Sound, Justified
<1>2. CASE ~Resolving(u)
  <2>1. seen'[u] = seen[u] /\ request'[u] = request[u]
    BY <1>2 DEF SeenToo
  <2> QED
    BY <1>2, <2>1 DEF Sound, Seeing, Examined, Justified, Resolving, InFlight, Streaming, At
<1> QED
    BY <1>1, <1>2

\* Where an authorized request goes: to its stream, or, for the poster of a local
\* file, back to the start of the file route.
Moved(u, q) ==
    LET r == request[u]
    IN  /\ request' = [request EXCEPT ![u] = q]
        /\ q.video = r.video /\ q.credential = r.credential
        /\ q.pc \in {"stream", "site"}
        /\ q.route = "view" <=> r.route = "view"

LEMMA Delivered ==
    ASSUME TypeOK, NEW u \in Reviewers, request[u] \in Requested, Deliver(u),
           Authorized(request[u])
    PROVE  \E q : Moved(u, q)
<1> DEFINE r == request[u]
<1>1. CASE PosterOfLocalFile(r)
  <2> DEFINE pc == IF Cached("file", r.video, r.credential) /\ ReadsCache(r.credential)
                   THEN "stream" ELSE "site"
             q == [r EXCEPT !.route = "file", !.pc = pc]
  <2>1. request' = [request EXCEPT ![u] = q]
    BY <1>1 DEF Deliver
  <2>2. /\ q.video = r.video /\ q.credential = r.credential
        /\ q.pc \in {"stream", "site"}
        /\ q.route = "file" /\ r.route = "poster"
    BY <1>1 DEF Requested, PosterOfLocalFile
  <2> QED
    BY <2>1, <2>2 DEF Moved
<1>2. CASE ~PosterOfLocalFile(r)
  <2> DEFINE q == [r EXCEPT !.pc = "stream"]
  <2>1. request' = [request EXCEPT ![u] = q]
    BY <1>2 DEF Deliver
  <2>2. q.video = r.video /\ q.credential = r.credential /\ q.pc = "stream" /\ q.route = r.route
    BY DEF Requested
  <2> QED
    BY <2>1, <2>2 DEF Moved
<1> QED
    BY <1>1, <1>2

LEMMA AuthorizedStep == ASSUME AuthorizedInv, [Next]_vars PROVE AuthorizedInv'
<1>1. /\ TypeOK /\ LinkTypeOK /\ TypeOK' /\ LinkTypeOK' /\ EntriesAreBounded
      /\ \A u \in Reviewers : Sound(u)
    BY TypeStep DEF AuthorizedInv, TypeOK
<1> SUFFICES EntriesAreBounded' /\ \A u \in Reviewers : Sound(u)'
    BY <1>1 DEF AuthorizedInv
<1>2. ASSUME NEW u \in Reviewers, NEW route \in Routes, NEW v \in Videos, NEW c \in Credentials,
             Hit(u, route, v, c)
      PROVE  EntriesAreBounded' /\ \A w \in Reviewers : Sound(w)'
  <2>1. /\ UNCHANGED <<linkVars, token, grant, cache>>
        /\ request' = [request EXCEPT ![u] = [pc |-> "stream", route |-> route, credential |-> c, video |-> v]]
        /\ seen' = [seen EXCEPT ![u] = Sight(v)]
    BY <1>2 DEF Hit
  <2>2. maxViews = None /\ ~Expired /\ c = "alias" /\ v \in LocalVideos /\ route # "view"
    <3>1. c = "alias" /\ v \in LocalVideos /\ cache[<<c, v>>] > 0 /\ route # "view"
      BY <1>2 DEF Hit, Cached, ReadsCache
    <3>2. <<c, v>> \in Credentials \X LocalVideos
      BY <3>1
    <3>3. maxViews = None /\ (life = None \/ life > cache[<<c, v>>])
      BY <1>1, <3>1, <3>2 DEF EntriesAreBounded
    <3>4. cache[<<c, v>>] \in 0..CacheTtl
      BY <1>1, <3>2 DEF TypeOK
    <3> QED
      BY <3>1, <3>3, <3>4 DEF Expired
  <2>3. request'[u] = [pc |-> "stream", route |-> route, credential |-> c, video |-> v] /\ seen'[u] = Sight(v)
    BY <1>1, <2>1 DEF TypeOK
  <2>4. seen'[u].unexpired /\ seen'[u].grant
    <3>1. seen'[u].unexpired = (~Expired) /\ seen'[u].grant = GrantIsGood(v)
      BY <2>3 DEF Sight
    <3>2. GrantIsGood(v)
      BY <2>2 DEF GrantIsGood
    <3> QED
      BY <2>2, <3>1, <3>2, Zenon
  <2>5. Sound(u)'
    BY <2>2, <2>3, <2>4 DEF Sound, Seeing, Examined, Justified, Resolving, InFlight, Streaming, At
  <2>6. EntriesAreBounded'
    BY <1>1, <2>1, EntriesKept DEF linkVars, facts
  <2> QED
    BY <1>1, <2>1, <2>5, <2>6, OneMoves
<1>3. ASSUME NEW u \in Reviewers, NEW route \in Routes, NEW v \in Videos, NEW c \in Credentials,
             Begin(u, route, v, c)
      PROVE  EntriesAreBounded' /\ \A w \in Reviewers : Sound(w)'
  <2>1. /\ UNCHANGED <<linkVars, token, grant, cache>>
        /\ request' = [request EXCEPT ![u] = [pc |-> "site", route |-> route, credential |-> c, video |-> v]]
        /\ seen' = [seen EXCEPT ![u] = Sight(v)]
    BY <1>3 DEF Begin
  <2>2. request'[u] = [pc |-> "site", route |-> route, credential |-> c, video |-> v] /\ seen'[u] = Sight(v)
    BY <1>1, <2>1 DEF TypeOK
  <2>3. /\ seen'[u].site = site
        /\ seen'[u].row = RowAdmits(v)
        /\ seen'[u].unexpired = (~Expired)
        /\ seen'[u].token = TokenIsGood(v)
        /\ seen'[u].grant = GrantIsGood(v)
    BY <2>2 DEF Sight
  <2>4. /\ site => seen'[u].site
        /\ RowAdmits(v) => seen'[u].row
        /\ ~Expired => seen'[u].unexpired
        /\ TokenIsGood(v) => seen'[u].token
        /\ GrantIsGood(v) => seen'[u].grant
    BY <2>3, Zenon
  <2>5. Seeing(u)'
    BY <2>1, <2>2, <2>4 DEF Seeing, RowAdmits, TokenIsGood, GrantIsGood, Expired, Playable,
       linkVars, facts
  <2>6. Sound(u)'
    BY <2>2, <2>5 DEF Sound, Examined, Justified, Streaming, At
  <2>7. EntriesAreBounded'
    BY <1>1, <2>1, EntriesKept DEF linkVars, facts
  <2> QED
    BY <1>1, <2>1, <2>6, <2>7, OneMoves
<1>4. ASSUME NEW u \in Reviewers, ReadSite(u) \/ ReadLink(u) \/ Finish(u)
      PROVE  EntriesAreBounded' /\ \A w \in Reviewers : Sound(w)'
  <2>1. UNCHANGED <<linkVars, token, grant, cache>>
    BY <1>4 DEF ReadSite, ReadLink, Finish
  <2>2. EntriesAreBounded'
    BY <1>1, <2>1, EntriesKept DEF linkVars, facts
  <2>3. CASE End(u)
    BY <1>1, <2>1, <2>2, <2>3, EndKeepsSound
  <2>4. CASE ~End(u)
    <3> DEFINE r == request[u]
    <3>1. seen' = seen /\ r \in Requested /\ Resolving(u) /\ Sound(u)
      <4>1. r.pc \in {"site", "link"} /\ seen' = seen
        BY <1>4, <2>4 DEF ReadSite, ReadLink, Finish, At
      <4> QED
        BY <1>1, <4>1, InFlightType
    <3>2. PICK pc \in {"link", "rows"} : request' = [request EXCEPT ![u].pc = pc]
      BY <1>4, <2>4 DEF ReadSite, ReadLink, Finish
    <3>3. request'[u] = [r EXCEPT !.pc = pc]
      BY <1>1, <3>2 DEF TypeOK
    <3>4. /\ request'[u].pc = pc /\ request'[u].video = r.video
          /\ request'[u].route = r.route /\ request'[u].credential = r.credential
      BY <3>1, <3>3 DEF Requested
    <3>5. Seeing(u)'
      <4>1. Seeing(u)
        BY <3>1 DEF Sound
      <4> QED
        BY <2>1, <3>1, <3>4, <4>1 DEF Seeing, RowAdmits, Playable, Expired, TokenIsGood,
           GrantIsGood, linkVars, facts
    <3>6. Examined(u)'
      <4>1. Examined(u) /\ Seeing(u)
        BY <3>1 DEF Sound
      <4>2. CASE ReadSite(u)
        <5>1. pc = "link"
          BY <1>1, <2>4, <3>1, <3>4, <4>2 DEF ReadSite, TypeOK, Requested
        <5>2. site /\ (r.credential = "rmv1" => TokenIsGood(r.video))
          BY <2>4, <4>2 DEF ReadSite
        <5> QED
          BY <3>1, <3>4, <4>1, <5>1, <5>2 DEF Examined, Seeing
      <4>3. CASE ReadLink(u)
        <5>1. RowAdmits(r.video) /\ r.pc = "link"
          BY <2>4, <4>3 DEF ReadLink, At
        <5> QED
          BY <3>1, <3>4, <4>1, <5>1 DEF Examined, Seeing
      <4> QED
        BY <1>4, <2>4, <4>2, <4>3 DEF Finish
    <3>7. Sound(u)'
      BY <3>4, <3>5, <3>6 DEF Sound, Justified, Streaming, At
    <3>8. /\ request' = [request EXCEPT ![u] = [r EXCEPT !.pc = pc]]
          /\ seen' = [seen EXCEPT ![u] = seen[u]]
      BY <1>1, <3>1, <3>2 DEF TypeOK
    <3> QED
      BY <1>1, <2>1, <2>2, <3>7, <3>8, OneMoves
  <2> QED
    BY <2>3, <2>4
<1>5. ASSUME NEW u \in Reviewers, Deliver(u)
      PROVE  EntriesAreBounded' /\ \A w \in Reviewers : Sound(w)'
  <2> DEFINE r == request[u]
  <2>1. UNCHANGED <<linkVars, token, grant>> /\ r.pc = "rows" /\ r \in Requested /\ Resolving(u)
    BY <1>1, <1>5, InFlightType DEF Deliver, At
  <2>2. CASE ~Authorized(r)
    <3>1. End(u) /\ UNCHANGED cache
      BY <1>5, <2>2 DEF Deliver
    <3>2. EntriesAreBounded'
      BY <1>1, <2>1, <3>1, EntriesKept DEF linkVars, facts
    <3> QED
      BY <1>1, <2>1, <3>1, <3>2, EndKeepsSound
  <2>3. CASE Authorized(r)
    <3>1. seen' = seen /\ (cache' = IF Keeps(r)
                        THEN [cache EXCEPT ![<<r.credential, r.video>>] = CacheTtl]
                        ELSE cache)
      BY <1>5, <2>3 DEF Deliver
    <3>2. EntriesAreBounded'
      <4>1. CASE Keeps(r)
        <5>1. maxViews = None /\ (life = None \/ life > CacheTtl)
          BY <4>1 DEF Keeps, MayCache
        <5>2. \A e \in Credentials \X LocalVideos : cache'[e] = CacheTtl \/ cache'[e] = cache[e]
          BY <1>1, <3>1, <4>1 DEF TypeOK
        <5> QED
          BY <1>1, <2>1, <5>1, <5>2 DEF EntriesAreBounded, linkVars, facts
      <4>2. CASE ~Keeps(r)
        BY <1>1, <2>1, <3>1, <4>2, EntriesKept DEF linkVars, facts
      <4> QED
        BY <4>1, <4>2
    <3>3. PICK q : Moved(u, q)
      BY <1>1, <1>5, <2>1, <2>3, Delivered
    <3>4. request'[u] = q /\ seen'[u] = seen[u]
      BY <1>1, <3>1, <3>3 DEF TypeOK, Moved
    <3>5. /\ q.video = r.video /\ q.credential = r.credential
          /\ q.pc \in {"stream", "site"}
          /\ q.route = "view" <=> r.route = "view"
      BY <3>3 DEF Moved
    <3>6. Seeing(u) /\ Examined(u)
      BY <1>1 DEF Sound
    <3>7. /\ seen[u].unexpired /\ seen[u].site /\ seen[u].row
          /\ r.credential = "rmv1" => seen[u].token
          /\ r.route # "view" => seen[u].grant
      BY <2>1, <2>3, <3>6 DEF Authorized, Seeing, Examined
    <3>8. Seeing(u)'
      BY <2>1, <3>4, <3>5, <3>6 DEF Seeing, RowAdmits, Playable, Expired, TokenIsGood,
         GrantIsGood, linkVars, facts
    <3>9. Justified(u)'
      BY <3>4, <3>5, <3>7 DEF Justified
    <3>10. Examined(u)'
      BY <3>4, <3>5 DEF Examined
    <3>11. seen' = [seen EXCEPT ![u] = seen[u]]
      BY <1>1, <3>1 DEF TypeOK
    <3>12. Sound(u)'
      BY <3>8, <3>9, <3>10 DEF Sound
    <3> QED
      BY <1>1, <2>1, <3>2, <3>3, <3>11, <3>12, OneMoves DEF Moved
  <2> QED
    BY <2>2, <2>3
<1>6. CASE Exchange \/ ChangeHere \/ ChangeElsewhere
  <2>1. UNCHANGED <<request, compat, maxViews, life, cache>> /\ seen' = SeenToo
    BY <1>6 DEF Exchange, ChangeHere, ChangeElsewhere, ChangeRows, linkVars, facts
  <2>2. EntriesAreBounded'
    BY <1>1, <2>1, EntriesKept
  <2> QED
    BY <1>1, <2>1, <2>2, SeenTooKeepsSound
<1>7. ASSUME (\E e \in Credentials \X LocalVideos : Evict(e)) \/ Invalidate
      PROVE  EntriesAreBounded' /\ \A w \in Reviewers : Sound(w)'
  <2>1. /\ UNCHANGED <<facts, compat, request, token, grant, seen>>
        /\ \A e \in Entries : cache'[e] = 0 \/ cache'[e] = cache[e]
    BY <1>1, <1>7 DEF Evict, Invalidate, TypeOK, Entries, Empty, linkVars
  <2>2. EntriesAreBounded'
    BY <1>1, <2>1, EntriesKept DEF facts
  <2>3. ASSUME NEW u \in Reviewers PROVE Sound(u)'
    BY <1>1, <2>1 DEF Sound, Seeing, Examined, Justified, Resolving, InFlight, Streaming, At,
       RowAdmits, Playable, Expired, TokenIsGood, GrantIsGood, facts
  <2> QED
    BY <2>2, <2>3
<1>8. CASE Tick
  <2>1. EntriesAreBounded'
    <3> SUFFICES ASSUME NEW e \in Credentials \X LocalVideos, cache'[e] > 0
                 PROVE  maxViews' = None /\ (life' = None \/ life' > cache'[e])
      BY DEF EntriesAreBounded
    <3>1. cache[e] \in 0..CacheTtl /\ life \in Nat \cup {None}
      BY <1>1 DEF TypeOK, LinkTypeOK
    <3>2. cache'[e] = IF cache[e] = 0 THEN 0 ELSE cache[e] - 1
      BY <1>8 DEF Tick
    <3>3. maxViews = None /\ (life = None \/ life > cache[e])
      BY <1>1, <3>1, <3>2 DEF EntriesAreBounded
    <3> QED
      BY <1>8, <3>1, <3>2, <3>3 DEF Tick, LifeOneLess
  <2>2. ASSUME NEW u \in Reviewers PROVE Sound(u)'
    <3>1. Sound(u) /\ UNCHANGED <<site, link, ready, listed, maxViews, compat, request, seen>>
      BY <1>1, <1>8 DEF Tick
    <3>2. Expired => Expired'
      BY <1>8 DEF Tick, Expired, LifeOneLess
    <3>3. ASSUME Resolving(u)
          PROVE  /\ TokenIsGood(request[u].video)' => TokenIsGood(request[u].video)
                 /\ GrantIsGood(request[u].video)' => GrantIsGood(request[u].video)
      <4>1. request[u].video \in Videos
        BY <1>1, <3>3, InFlightType DEF Requested
      <4>2. PICK v \in Videos : v = request[u].video
        BY <4>1
      <4>3. \A n \in Left(TokenTtl) : OneLess(n) >= 0 => n >= 0
        BY DEF OneLess, Left
      <4>4. /\ token'[v] >= 0 => token[v] >= 0
            /\ grant'[v] >= 0 => grant[v] >= 0
        BY <1>1, <1>8, <4>3 DEF Tick, TypeOK
      <4> QED
        BY <3>1, <4>2, <4>4 DEF TokenIsGood, GrantIsGood
    <3>4. Seeing(u)'
      BY <3>1, <3>2, <3>3 DEF Sound, Seeing, Resolving, InFlight, Streaming, At, RowAdmits, Playable
    <3> QED
      BY <3>1, <3>4 DEF Sound, Examined, Justified, Streaming, At
  <2> QED
    BY <2>1, <2>2
<1>9. CASE Restart
  <2>1. EntriesAreBounded'
    BY <1>9 DEF Restart, Empty, EntriesAreBounded
  <2> QED
    BY <1>9, <2>1, IdleIsSound DEF Restart
<1>10. CASE UNCHANGED vars
  <2>1. EntriesAreBounded'
    BY <1>1, <1>10, EntriesKept DEF vars, linkVars, facts
  <2> QED
    BY <1>1, <1>10, <2>1, Undisturbed DEF vars
<1> QED
    BY <1>2, <1>3, <1>4, <1>5, <1>6, <1>7, <1>8, <1>9, <1>10 DEF Next, Answer

LEMMA AuthorizedInit == Init => AuthorizedInv
<1>1. Init => EntriesAreBounded
    BY DEF Init, Empty, EntriesAreBounded
<1>2. Init => \A u \in Reviewers : Sound(u)
    BY DEF Init, Idle, Sound, Seeing, Examined, Justified, Resolving, InFlight, Streaming, At
<1> QED
    BY <1>1, <1>2, TypeInit DEF AuthorizedInv

\* What is being sent was authorized while the request resolved: the expiry, the media
\* token, the view grant and, for all that the cache never holds, the site and the row.
THEOREM StreamsAuthorized == Spec => []StreamsAreAuthorized
<1>1. AuthorizedInv => StreamsAreAuthorized
    BY JustifiedStreams DEF AuthorizedInv, Sound
<1> QED
    BY <1>1, AuthorizedInit, AuthorizedStep, PTL DEF Spec

\* SECURITY_MODEL 4.2: an entry is only ever kept for a link without a budget, and for
\* less time than the link has left.
THEOREM EntriesBounded == Spec => []EntriesAreBounded
<1>1. AuthorizedInv => EntriesAreBounded
    BY DEF AuthorizedInv
<1> QED
    BY <1>1, AuthorizedInit, AuthorizedStep, PTL DEF Spec

-----------------------------------------------------------------------------
(* Stale entries are noticed.  What a request has read still holds when its   *)
(* answer goes into the cache, unless a change was noticed: made through this  *)
(* process and about to drop the entries, made elsewhere, or made before the   *)
(* entries were dropped while the request was in flight.                       *)

Noticed == pending \/ outside \/ raced

StillAdmitted(u) ==
    /\ request[u].pc \in {"link", "rows"} => site \/ Noticed
    /\ request[u].pc = "rows" => Admitted(request[u].video) \/ Noticed

StaleInv ==
    /\ TypeOK
    /\ \A u \in Reviewers : StillAdmitted(u)
    /\ StaleOnlyIfUnnoticed

LEMMA NoticedStale ==
    StaleOnlyIfUnnoticed <=>
        \A v \in LocalVideos : cache[<<"alias", v>>] > 0 => Admitted(v) \/ Noticed
BY DEF StaleOnlyIfUnnoticed, Noticed

\* Nothing that the invariant is about gets better or worse, but one request that
\* ends or begins, or entries that go.
LEMMA NothingNewStale ==
    ASSUME StaleInv, TypeOK', UNCHANGED <<site, link, ready, listed, pending, outside, raced>>,
           \A u \in Reviewers : request'[u].pc \in {"link", "rows"} => request'[u] = request[u],
           \A e \in Entries : cache'[e] > 0 => cache[e] > 0
    PROVE  StaleInv'
<1>1. \A u \in Reviewers : StillAdmitted(u)'
    BY DEF StaleInv, StillAdmitted, Noticed, Admitted, RowAdmits, Playable
<1>2. ASSUME NEW v \in LocalVideos, cache'[<<"alias", v>>] > 0
      PROVE  Admitted(v)' \/ Noticed'
  <2>1. <<"alias", v>> \in Entries
    BY DEF Entries, Credentials
  <2> QED
    BY <1>2, <2>1, NoticedStale DEF StaleInv, Noticed, Admitted, RowAdmits, Playable
<1> QED
    BY <1>1, <1>2 DEF StaleInv, StaleOnlyIfUnnoticed, Noticed

\* Once a change has been noticed, everything is excused.
LEMMA NoticedExcuses == ASSUME TypeOK', Noticed' PROVE StaleInv'
BY DEF StaleInv, StillAdmitted, StaleOnlyIfUnnoticed, Noticed

LEMMA StaleStep == ASSUME StaleInv, [Next]_vars PROVE StaleInv'
<1>1. TypeOK /\ TypeOK' /\ \A u \in Reviewers : StillAdmitted(u)
    BY TypeStep DEF StaleInv
<1>2. ASSUME NEW u \in Reviewers, NEW route \in Routes, NEW v \in Videos, NEW c \in Credentials,
             Hit(u, route, v, c) \/ Begin(u, route, v, c)
      PROVE  StaleInv'
  <2>1. /\ UNCHANGED <<linkVars, cache, outside, raced>>
        /\ \A w \in Reviewers : request'[w] = request[w] \/ request'[w].pc \in {"site", "stream"}
    BY <1>1, <1>2 DEF Hit, Begin, TypeOK
  <2> QED
    BY <1>1, <2>1, NothingNewStale DEF linkVars, facts
<1>3. ASSUME NEW u \in Reviewers, End(u), UNCHANGED <<linkVars, cache, outside, raced>>
      PROVE  StaleInv'
  <2>1. \A w \in Reviewers : request'[w] = request[w] \/ request'[w] = Idle
    BY <1>1, <1>3 DEF End, TypeOK
  <2> QED
    BY <1>1, <1>3, <2>1, NothingNewStale DEF linkVars, facts, Idle
<1>4. ASSUME NEW u \in Reviewers, ReadSite(u) \/ ReadLink(u), ~End(u) PROVE StaleInv'
  <2> DEFINE r == request[u]
  <2>1. /\ UNCHANGED <<linkVars, cache, outside, raced>>
        /\ \A w \in Reviewers : w # u => request'[w] = request[w]
    BY <1>1, <1>4 DEF ReadSite, ReadLink, TypeOK
  <2>2. r.pc \in {"site", "link"} /\ r \in Requested
    BY <1>1, <1>4, InFlightType DEF ReadSite, ReadLink, At
  <2>3. StillAdmitted(u)'
    <3>1. CASE ReadSite(u)
      <4>1. site /\ request'[u].pc = "link"
        BY <1>1, <1>4, <2>2, <3>1 DEF ReadSite, TypeOK, Requested
      <4> QED
        BY <2>1, <4>1 DEF StillAdmitted, linkVars, facts
    <3>2. CASE ReadLink(u)
      <4>1. RowAdmits(r.video) /\ (site \/ Noticed)
        BY <1>1, <1>4, <3>2 DEF ReadLink, At, StillAdmitted
      <4>2. request'[u].pc = "rows" /\ request'[u].video = r.video
        BY <1>1, <1>4, <2>2, <3>2 DEF ReadLink, TypeOK, Requested
      <4> QED
        BY <2>1, <4>1, <4>2 DEF StillAdmitted, Admitted, Noticed, RowAdmits, Playable, linkVars, facts
    <3> QED
      BY <1>4, <3>1, <3>2
  <2>4. ASSUME NEW w \in Reviewers PROVE StillAdmitted(w)'
    <3>1. CASE w = u
      BY <2>3, <3>1
    <3>2. CASE w # u
      BY <1>1, <2>1, <3>2 DEF StillAdmitted, Admitted, Noticed, RowAdmits, Playable, linkVars, facts
    <3> QED
      BY <3>1, <3>2
  <2>5. StaleOnlyIfUnnoticed'
    BY <2>1 DEF StaleInv, StaleOnlyIfUnnoticed, Admitted, RowAdmits, Playable, linkVars, facts
  <2> QED
    BY <1>1, <2>4, <2>5 DEF StaleInv
<1>5. ASSUME NEW u \in Reviewers, Deliver(u), Authorized(request[u]) PROVE StaleInv'
  <2> DEFINE r == request[u]
  <2>1. UNCHANGED <<linkVars, outside, raced>> /\ r.pc = "rows" /\ r \in Requested
    BY <1>1, <1>5, InFlightType DEF Deliver, At
  <2>2. \A w \in Reviewers : request'[w] = request[w] \/ request'[w].pc \in {"site", "stream"}
    BY <1>1, <1>5, <2>1, Delivered DEF Moved, TypeOK
  <2>3. CASE ~Keeps(r)
    <3>1. cache' = cache
      BY <1>5, <2>3 DEF Deliver
    <3> QED
      BY <1>1, <2>1, <2>2, <3>1, NothingNewStale DEF linkVars, facts
  <2>4. CASE Keeps(r)
    <3>1. Admitted(r.video) \/ Noticed
      BY <1>1, <2>1 DEF StillAdmitted
    <3>2. cache' = [cache EXCEPT ![<<"alias", r.video>>] = CacheTtl]
      BY <1>5, <2>4 DEF Deliver, Keeps, ReadsCache
    <3>3. ASSUME NEW v \in LocalVideos, cache'[<<"alias", v>>] > 0
          PROVE  Admitted(v) \/ Noticed
      <4>1. <<"alias", v>> \in Credentials \X LocalVideos
        BY DEF Credentials
      <4>2. v = r.video \/ cache'[<<"alias", v>>] = cache[<<"alias", v>>]
        BY <1>1, <3>2, <4>1 DEF TypeOK
      <4> QED
        BY <3>1, <3>3, <4>2, NoticedStale DEF StaleInv
    <3>4. StaleOnlyIfUnnoticed'
      BY <2>1, <3>3 DEF StaleOnlyIfUnnoticed, Noticed, Admitted, RowAdmits, Playable, linkVars, facts
    <3>5. \A w \in Reviewers : StillAdmitted(w)'
      BY <1>1, <2>1, <2>2 DEF StillAdmitted, Admitted, Noticed, RowAdmits, Playable, linkVars, facts
    <3> QED
      BY <1>1, <3>4, <3>5 DEF StaleInv
  <2> QED
    BY <2>3, <2>4
<1>6. ASSUME NEW u \in Reviewers, Answer(u) PROVE StaleInv'
    BY <1>3, <1>4, <1>5, <1>6 DEF Answer, ReadSite, ReadLink, Deliver, Finish
<1>7. ASSUME NEW e \in Credentials \X LocalVideos, Evict(e) PROVE StaleInv'
  <2>1. \A d \in Entries : cache'[d] > 0 => cache[d] > 0
    BY <1>1, <1>7 DEF Evict, TypeOK, Entries
  <2> QED
    BY <1>1, <1>7, <2>1, NothingNewStale DEF Evict, linkVars, facts
<1>8. CASE Exchange
    BY <1>1, <1>8, NothingNewStale DEF Exchange, linkVars, facts
<1>9. CASE ChangeHere \/ ChangeElsewhere
    BY <1>1, <1>9, NoticedExcuses DEF ChangeHere, ChangeElsewhere, Noticed
<1>10. CASE Invalidate
  <2>1. CASE \E u \in Reviewers : Resolving(u)
    <3>1. raced'
      BY <1>10, <2>1 DEF Invalidate
    <3> QED
      BY <1>1, <3>1, NoticedExcuses DEF Noticed
  <2>2. CASE ~\E u \in Reviewers : Resolving(u)
    <3>1. \A u \in Reviewers : request'[u].pc \notin {"link", "rows"}
      BY <1>10, <2>2 DEF Invalidate, Resolving, InFlight, Streaming, At
    <3>2. \A v \in LocalVideos : cache'[<<"alias", v>>] = 0
      BY <1>10 DEF Invalidate, Empty, Credentials
    <3> QED
      BY <1>1, <3>1, <3>2 DEF StaleInv, StillAdmitted, StaleOnlyIfUnnoticed
  <2> QED
    BY <2>1, <2>2
<1>11. CASE Tick
  <2>1. \A e \in Entries : cache'[e] > 0 => cache[e] > 0
    <3> SUFFICES ASSUME NEW e \in Entries, cache'[e] > 0 PROVE cache[e] > 0
      OBVIOUS
    <3>1. cache'[e] = IF cache[e] = 0 THEN 0 ELSE cache[e] - 1
      BY <1>11 DEF Tick, Entries
    <3>2. cache[e] \in 0..CacheTtl
      BY <1>1 DEF TypeOK, Entries
    <3> QED
      BY <3>1, <3>2
  <2> QED
    BY <1>1, <1>11, <2>1, NothingNewStale DEF Tick
<1>12. CASE Restart
  <2>1. \A v \in LocalVideos : cache'[<<"alias", v>>] = 0
    BY <1>12 DEF Restart, Empty, Credentials
  <2>2. \A u \in Reviewers : request'[u].pc = "idle"
    BY <1>12 DEF Restart, Idle
  <2> QED
    BY <1>1, <2>1, <2>2 DEF StaleInv, StillAdmitted, StaleOnlyIfUnnoticed
<1>13. CASE UNCHANGED vars
    BY <1>1, <1>13, NothingNewStale DEF vars, linkVars, facts
<1> QED
    BY <1>2, <1>6, <1>7, <1>8, <1>9, <1>10, <1>11, <1>12, <1>13 DEF Next

LEMMA StaleInit == Init => StaleInv
<1>1. Init => StaleOnlyIfUnnoticed
    BY DEF Init, Empty, StaleOnlyIfUnnoticed, Credentials
<1>2. Init => \A u \in Reviewers : StillAdmitted(u)
    BY DEF Init, Idle, StillAdmitted
<1> QED
    BY <1>1, <1>2, TypeInit DEF StaleInv

\* An entry answers for rows that would refuse now only after a change made behind the
\* process' back, one whose entries are about to be dropped, or one that a request
\* already resolving has outrun.
THEOREM StaleIsUnnoticed == Spec => []StaleOnlyIfUnnoticed
<1>1. StaleInv => StaleOnlyIfUnnoticed
    BY DEF StaleInv
<1> QED
    BY <1>1, StaleInit, StaleStep, PTL DEF Spec

-----------------------------------------------------------------------------
(* Byte ranges, for files and headers of any size.                          *)

\* A well-formed Range header is answered with exactly the bytes of the file it asks for,
\* and refused when there are none, whichever of its bounds is missing.
THEOREM RangesAreExact ==
    ASSUME NEW size \in 0 .. MaxSafe, NEW h \in Specified, Safe(h)
    PROVE  ExactRange(size, h)
<1>1. /\ size \in Nat /\ MaxSafe \in Nat /\ Open \notin Int
      /\ h # NoHeader /\ h # Malformed
      /\ h.first \in Nat \cup {Open} /\ h.last \in Nat \cup {Open}
      /\ h.first = Open \/ h.first <= MaxSafe
      /\ h.last = Open \/ h.last <= MaxSafe
    BY RangeAssumption DEF Specified, Safe
<1>2. CASE h.first = Open
    BY <1>1, <1>2 DEF ExactRange, parseRangeHeader, Satisfiable, AskedStart, AskedEnd,
                      AskedBytes, Reading, Unsatisfied, Lesser, Greater
<1>3. CASE h.first # Open
    BY <1>1, <1>3 DEF ExactRange, parseRangeHeader, Satisfiable, AskedStart, AskedEnd,
                      AskedBytes, Reading, Unsatisfied, Lesser, Greater
<1> QED
    BY <1>2, <1>3

LEMMA ReadingsFit ==
    ASSUME NEW size \in Nat \ {0}, NEW h \in Headers
    PROVE  /\ ReadingFits(size, parseRangeHeader(size, h))
           /\ ReadingFits(size, parseLocalRange(size, h))
           /\ LET reading == parseLocalRange(size, h)
              IN  reading # Unsatisfied =>
                     reading.status # 416 /\ reading.start \in Nat /\ reading.end \in Nat
<1>1. h \notin {NoHeader, Malformed} =>
         h.first \in Nat \cup {Open} /\ h.last \in Nat \cup {Open}
    BY DEF Headers, Specified
<1>2. ReadingFits(size, parseRangeHeader(size, h))
    BY <1>1, RangeAssumption
       DEF ReadingFits, parseRangeHeader, Satisfiable, AskedStart, AskedEnd,
           Reading, Unsatisfied, Lesser, Greater
<1>3. LET reading == parseRangeHeader(size, h)
      IN  reading # Unsatisfied =>
             reading.status # 416 /\ reading.start \in Nat /\ reading.end \in Nat
    BY <1>1, RangeAssumption
       DEF parseRangeHeader, Satisfiable, AskedStart, AskedEnd, Reading, Lesser, Greater
<1>4. parseLocalRange(size, h) = parseRangeHeader(size, h)
    BY DEF parseLocalRange
<1> QED
    BY <1>2, <1>3, <1>4

\* Content-Length is the number of bytes that follow, on every route, also when the row
\* of a database video was replaced or deleted between the two reads of it.
THEOREM AnswersAreWhole ==
    ASSUME NEW size \in Nat, NEW h \in Headers, NEW head \in BOOLEAN,
           NEW stored \in Nat \cup {Gone}
    PROVE  /\ LengthIsSent(LocalAnswer(size, h, head), head)
           /\ LengthIsSent(AdminBinaryAnswer(size, h), FALSE)
           /\ LengthIsSent(ThumbnailAnswer(size, head), head)
           /\ LengthIsSent(DatabaseAnswer(size, stored, h, head), head)
<1>1. LengthIsSent(LocalAnswer(size, h, head), head)
  <2>1. CASE size = 0
    BY <2>1 DEF LengthIsSent, LocalAnswer, parseLocalRange, Response, BytesFrom, Lesser, Greater
  <2>2. CASE size # 0
    <3> DEFINE reading == parseLocalRange(size, h)
    <3>1. ReadingFits(size, reading)
      BY <2>2, ReadingsFit
    <3> HIDE DEF reading
    <3>2. CASE reading = Unsatisfied
      BY <3>2 DEF reading, LengthIsSent, LocalAnswer, Response, Unsatisfied, Reading
    <3>3. CASE reading # Unsatisfied
      <4>1. /\ 0 <= reading.start /\ reading.start <= reading.end /\ reading.end < size
            /\ reading.length = reading.end - reading.start + 1
            /\ reading.start \in Nat /\ reading.end \in Nat /\ reading.status # 416
        BY <2>2, <3>1, <3>3, ReadingsFit DEF ReadingFits, reading
      <4>2. BytesFrom(size, reading.start, reading.end - reading.start + 1) = reading.length
        BY <4>1 DEF BytesFrom, Lesser, Greater
      <4> QED
        BY <4>1, <4>2 DEF reading, LengthIsSent, LocalAnswer, Response
    <3> QED
      BY <3>2, <3>3
  <2> QED
    BY <2>1, <2>2
<1>2. LengthIsSent(AdminBinaryAnswer(size, h), FALSE)
    BY DEF LengthIsSent, AdminBinaryAnswer, Response
<1>3. LengthIsSent(ThumbnailAnswer(size, head), head)
    BY DEF LengthIsSent, ThumbnailAnswer
<1>4. LengthIsSent(DatabaseAnswer(size, stored, h, head), head)
    BY DEF LengthIsSent, DatabaseAnswer, Response, NotFound
<1> QED
    BY <1>1, <1>2, <1>3, <1>4

-----------------------------------------------------------------------------
(* Addresses, for any row and any configuration.                            *)
Addresses == INSTANCE PublicSources

\* None is no address, and a row stores none of those the API makes itself.
Made == {Addresses!Address(kind) :
            kind \in {"binary", "local", "thumbnail", "signed"}}
IsRow(video) == /\ None \notin Made
                /\ video # None
                /\ video.embed \notin Made /\ video.poster \notin Made

LEMMA MadeAddresses ==
    ASSUME NEW kind \in {"binary", "local", "thumbnail", "signed"}
    PROVE  Addresses!Address(kind) \in Made /\ ~Addresses!Parsed(Addresses!Address(kind))
BY DEF Made, Addresses!Parsed, Addresses!Address

\* A video the answer lists has an address it can be played at, whatever the row and the
\* configuration are, except for the two rows the code lists without one.
THEOREM ListedVideosHaveSources ==
    ASSUME NEW config, NEW video, IsRow(video)
    PROVE  Addresses!ListedHasSource(config, video)
<1> SUFFICES ASSUME Addresses!isPublicPlayableVideo(config, video),
                    ~Addresses!IsAdmin(video.url), ~Addresses!isBunnyRemoteMissing(video)
             PROVE  LET answer == Addresses!toPublicVideoResponse(config, video, Addresses!Signable(video))
                    IN  \E field \in {"playbackUrl", "publicPlaybackUrl", "embedUrl"} :
                            answer[field] # None
    BY DEF Addresses!ListedHasSource
<1>1. \A kind \in {"binary", "local", "thumbnail", "signed"} : Addresses!Address(kind) # None
    BY MadeAddresses DEF IsRow
<1> DEFINE answer == Addresses!toPublicVideoResponse(config, video, Addresses!Signable(video))
<1>2. /\ answer.playbackUrl = IF video.source \in {"DB_BLOB", "LOCAL_FILE"} THEN None
                              ELSE Addresses!toSafePublicMediaUrl(video.url)
      /\ answer.publicPlaybackUrl = CASE video.source = "DB_BLOB" -> Addresses!Address("binary")
                             [] video.source = "LOCAL_FILE" -> Addresses!Address("local")
                             [] OTHER -> None
      /\ answer.embedUrl = Addresses!resolvePublicEmbedUrl(config, video, Addresses!Signable(video))
    BY DEF Addresses!toPublicVideoResponse
<1> HIDE DEF answer
<1>3. CASE video.source = "EMBED"
  <2>1. answer.embedUrl # None
    BY <1>1, <1>2, <1>3 DEF IsRow, Addresses!isPublicPlayableVideo, Addresses!resolvePublicEmbedUrl,
       Addresses!Signable, Addresses!classifyBunnyVideoAsset
  <2> QED
    BY <2>1 DEF answer
<1>4. CASE video.source \in {"DB_BLOB", "LOCAL_FILE"}
  <2>1. answer.publicPlaybackUrl # None
    BY <1>1, <1>2, <1>4
  <2> QED
    BY <2>1 DEF answer
<1>5. CASE video.source \notin {"EMBED", "DB_BLOB", "LOCAL_FILE"}
  <2>1. answer.playbackUrl # None
    BY <1>2, <1>5 DEF Addresses!isPublicPlayableVideo, Addresses!toSafePublicMediaUrl
  <2> QED
    BY <2>1 DEF answer
<1> QED
    BY <1>3, <1>4, <1>5

\* A poster address in an answer leads to a route that serves the poster.
THEOREM AdvertisedPostersAreServed ==
    ASSUME NEW config, NEW video, NEW reply, IsRow(video)
    PROVE  Addresses!AdvertisedIsServed(config, video, reply)
<1> SUFFICES ASSUME Addresses!isPublicPlayableVideo(config, video),
                    Addresses!ThumbnailUrl(config, video, Addresses!Signable(video))
                       = Addresses!Address("thumbnail"),
                    Addresses!UpstreamHeaders(config) # None,
                    Addresses!ReplyAccepted(config, reply)
             PROVE  Addresses!PosterRoute(config, video, reply) \in {"file", "relayed"}
    BY DEF Addresses!AdvertisedIsServed
<1>1. Addresses!Address("thumbnail") # None /\ video.poster # Addresses!Address("thumbnail")
    BY MadeAddresses DEF IsRow
<1>2. CASE video.source = "LOCAL_FILE"
    BY <1>1, <1>2 DEF Addresses!isPublicPlayableVideo, Addresses!ThumbnailUrl, Addresses!PosterRoute
<1>3. CASE video.source # "LOCAL_FILE"
  <2>1. Addresses!toSafePublicBunnyAwareUrl(config, video) # Addresses!Address("thumbnail")
    BY <1>1 DEF Addresses!toSafePublicBunnyAwareUrl, Addresses!toSafePublicMediaUrl
  <2>2. Addresses!resolveBunnyThumbnailUpstream(config, video)
    BY <1>3, <2>1 DEF Addresses!ThumbnailUrl
  <2> QED
    BY <1>3, <2>2 DEF Addresses!isPublicPlayableVideo, Addresses!PosterRoute
<1> QED
    BY <1>2, <1>3

\* Whatever row the watch cache holds, playback is signed only for the Bunny video of the
\* current row, while that row is READY and not known to be missing.
THEOREM SignaturesAreCurrent ==
    ASSUME NEW config, NEW cached, NEW current, IsRow(cached)
    PROVE  Addresses!SignedIsCurrent(config, cached, current)
<1>1. Addresses!Address("signed") # None /\ cached.embed # Addresses!Address("signed")
    BY MadeAddresses DEF IsRow
<1> QED
    BY <1>1 DEF Addresses!SignedIsCurrent, Addresses!resolvePublicEmbedUrl,
       Addresses!Signable, Addresses!classifyBunnyVideoAsset

\* A video that claims to be Bunny's is never embedded unsigned and, when posters are
\* relayed, never answered with an address on the pull zone.
THEOREM NothingRawIsAnswered ==
    ASSUME NEW config, NEW video, NEW signable
    PROVE  Addresses!NothingRaw(config, video, signable)
<1> DEFINE answer == Addresses!toPublicVideoResponse(config, video, signable)
           kind == Addresses!classifyBunnyVideoAsset(video)
<1> SUFFICES ASSUME kind # "not-bunny"
             PROVE  /\ answer.embedUrl \in {None, Addresses!Address("signed")}
                    /\ config.proxy =>
                          ~(Addresses!Parsed(answer.thumbnailUrl)
                            /\ Addresses!isBunnyPullZoneUrl(config, answer.thumbnailUrl))
    BY DEF Addresses!NothingRaw
<1>1. kind \in {"bunny", "bunny-malformed"}
    BY DEF Addresses!classifyBunnyVideoAsset
<1>2. /\ answer.embedUrl = Addresses!resolvePublicEmbedUrl(config, video, signable)
      /\ answer.thumbnailUrl = Addresses!ThumbnailUrl(config, video, signable)
    BY DEF Addresses!toPublicVideoResponse
<1> HIDE DEF answer, kind
<1>3. answer.embedUrl \in {None, Addresses!Address("signed")}
    BY <1>1, <1>2 DEF kind, Addresses!resolvePublicEmbedUrl
<1>4. ASSUME config.proxy, Addresses!Parsed(answer.thumbnailUrl),
             Addresses!isBunnyPullZoneUrl(config, answer.thumbnailUrl)
      PROVE  FALSE
  <2>1. answer.thumbnailUrl = Addresses!toSafePublicBunnyAwareUrl(config, video)
    BY <1>2, <1>4, MadeAddresses DEF Addresses!ThumbnailUrl, Addresses!Parsed
  <2> QED
    BY <1>1, <1>4, <2>1
       DEF kind, Addresses!toSafePublicBunnyAwareUrl, Addresses!toSafePublicMediaUrl, Addresses!Parsed
<1> QED
    BY <1>3, <1>4
=============================================================================
