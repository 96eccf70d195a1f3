----------------------- MODULE CanonicalShareLink_proofs -----------------------
(* Theorems about CanonicalShareLink, for any number of videos, links, domains *)
(* and calls, any history of links and any number of attempts.                 *)
EXTENDS CanonicalShareLink, FiniteSetTheorems, TLAPS

Waiting == {"load", "create", "conflict"}
Holding == {"check", "claim", "reread"}
Adopting == {"adoptRead", "adopt"}

\* A row that does not exist yet carries nothing.
Unborn == \A l \in Links : linkStatus[l] = "NONE" => members[l] = {}

HasAnchor(r) == Anchored(request[r].link, Video(r))

\* What a call has read is still what the mapping says, because the mapping does
\* not change: loadCanonical is never stale about the identity.
LoadedIsAnchor ==
    \A r \in Callers :
        /\ request[r].pc \notin {"idle", "refused"} => Video(r) \in Videos
        /\ request[r].pc \in Holding \cup {"answered"} => HasAnchor(r)

\* The link an operator has chosen shows the video for as long as there is one.
ChosenIsExact ==
    \A o \in Callers : request[o].pc \in Adopting =>
        LET v == Video(o)
            l == request[o].link IN
        /\ l \in pinnable
        /\ videoStatus[v] = "PURGED" \/ members[l] = {v}
        /\ At(o, "adopt") => /\ request[o].domain # None /\ request[o].host # None
                             /\ request[o].evidence # None

\* A transport alias that a call has read is the link's.
TokenIsRead ==
    \A r \in Callers : request[r].pc \in {"check", "answered"} =>
        request[r].token \in {None, token[request[r].link]}

\* A link that was revoked stays so, and no call is on its way to answer with one
\* that was revoked when it began.
RevokedIsKept ==
    \A r \in Callers :
        /\ \A l \in request[r].revoked : linkStatus[l] = "REVOKED"
        /\ request[r].pc \in Holding \cup Adopting \cup {"answered"} =>
            request[r].link \notin request[r].revoked

\* The revoked link of a dark pair bars the way to a fresh or an older one: what
\* is pinned is that link, a newer one that was issued as a bundle, or the
\* operator's choice.
Bars(l, v) ==
    /\ linkStatus[l] = "REVOKED"
    /\ members[l] = {v} \/ videoStatus[v] = "PURGED"
    /\ \A m \in Links : m > l /\ v \in members[m] => issued[m] # {v}

Excused(v) ==
    mapping[v] # None /\ (mapping[v].by \in Operators \/ issued[mapping[v].link] # {v})

Sealed(v) ==
    \/ mapping[v] = None /\ \E l \in Links : Bars(l, v)
    \/ mapping[v] # None /\ linkStatus[mapping[v].link] = "REVOKED"
    \/ Excused(v)

DarkIsBarred ==
    /\ \A l \in Links : members[l] \subseteq issued[l]
    /\ \A r \in Requests : request[r].dark =>
        /\ request[r].pc \in Waiting => Sealed(Video(r))
        /\ request[r].pc \in Holding \cup {"answered"} => Excused(Video(r))

IInv ==
    /\ TypeOK /\ Unborn /\ AnchorIsExact
    /\ LoadedIsAnchor /\ ChosenIsExact /\ TokenIsRead /\ RevokedIsKept /\ DarkIsBarred

-----------------------------------------------------------------------------
(* How a call moves; the others stay where they are.                          *)

Others(r) == \A s \in Callers \ {r} : request'[s] = request[s]
Keeps(r) == /\ request'[r].video = request[r].video
            /\ request'[r].revoked = request[r].revoked
            /\ request'[r].dark = request[r].dark
KeepsLink(r) == /\ request'[r].link = request[r].link
                /\ request'[r].token = request[r].token
Gone(r) == /\ request'[r].pc = "refused" /\ request'[r].dark = FALSE
           /\ request'[r].revoked = {}

LEMMA IdleFacts == CanonicalAssumption => Idle \in Request /\ Idle.pc = "idle"
BY DEF CanonicalAssumption, Idle, Request

LEMMA GotoFacts ==
    ASSUME TypeOK, NEW r \in Callers,
           NEW pc \in {"create", "conflict", "claim", "reread"}, Goto(r, pc)
    PROVE  /\ request' \in [Callers -> Request] /\ Others(r)
           /\ request'[r].pc = pc /\ Keeps(r) /\ KeepsLink(r)
<1>1. request[r] \in Request
  BY DEF TypeOK
<1>2. [request[r] EXCEPT !.pc = pc] \in Request
  BY <1>1 DEF Request
<1> QED
  BY <1>1, <1>2 DEF Goto, TypeOK, Request, Others, Keeps, KeepsLink

LEMMA RefuseFacts ==
    ASSUME TypeOK, NEW r \in Callers, Refuse(r)
    PROVE  request' \in [Callers -> Request] /\ Others(r) /\ Gone(r)
<1>1. [Idle EXCEPT !.pc = "refused"] \in Request
  BY IdleFacts, CanonicalAssumption DEF Request
<1>2. request'[r] = [Idle EXCEPT !.pc = "refused"]
  BY DEF Refuse, TypeOK
<1>3. Gone(r)
  BY <1>2 DEF Gone, Idle
<1> QED
  BY <1>1, <1>3 DEF Refuse, TypeOK, Others

LEMMA AnswerFacts ==
    ASSUME TypeOK, NEW r \in Callers, NEW l \in Links \cup {None}, NEW t \in Callers \cup {None},
           Answer(r, l, t)
    PROVE  /\ request' \in [Callers -> Request] /\ Others(r)
           /\ request'[r].pc = "answered" /\ Keeps(r)
           /\ request'[r].link = l /\ request'[r].token = t
<1> DEFINE q == [Idle EXCEPT !.pc = "answered", !.video = Video(r), !.link = l,
                     !.token = t, !.revoked = request[r].revoked,
                     !.dark = request[r].dark]
<1>1. request[r] \in Request
  BY DEF TypeOK
<1>2. q \in Request
  BY <1>1, IdleFacts, CanonicalAssumption DEF Request, Video
<1>3. request' = [request EXCEPT ![r] = q]
  BY DEF Answer
<1>4. request'[r] = q
  BY <1>3 DEF TypeOK
<1>5. /\ q.pc = "answered" /\ q.video = request[r].video /\ q.link = l /\ q.token = t
      /\ q.revoked = request[r].revoked /\ q.dark = request[r].dark
  BY DEF Idle, Video
<1> HIDE DEF q
<1> QED
  BY <1>2, <1>3, <1>4, <1>5 DEF TypeOK, Others, Keeps

LEMMA ReuseFacts ==
    ASSUME TypeOK, NEW r \in Callers, NEW m \in Mapping, Reuse(r, m)
    PROVE  /\ request' \in [Callers -> Request] /\ Others(r)
           /\ \/ Gone(r)
              \/ /\ Usable(m.link, Video(r)) /\ request'[r].pc = "check" /\ Keeps(r)
                 /\ request'[r].link = m.link /\ request'[r].token = token[m.link]
<1>1. CASE ~Usable(m.link, Video(r))
  BY <1>1, RefuseFacts DEF Reuse
<1>2. CASE Usable(m.link, Video(r))
  <2> DEFINE q == [request[r] EXCEPT !.pc = "check", !.link = m.link,
                      !.token = token[m.link], !.domain = m.domain,
                      !.host = m.host, !.evidence = m.evidence]
  <2>1. request[r] \in Request /\ token[m.link] \in Callers \cup {None}
    BY DEF TypeOK, Mapping
  <2>2. q \in Request
    BY <2>1 DEF Request, Mapping
  <2>3. request' = [request EXCEPT ![r] = q]
    BY <1>2 DEF Reuse
  <2>4. request'[r] = q
    BY <2>3 DEF TypeOK
  <2>5. /\ q.pc = "check" /\ q.link = m.link /\ q.token = token[m.link]
        /\ q.video = request[r].video /\ q.revoked = request[r].revoked
        /\ q.dark = request[r].dark
    BY <2>1 DEF Request
  <2> HIDE DEF q
  <2> QED
    BY <1>2, <2>2, <2>3, <2>4, <2>5 DEF TypeOK, Others, Keeps
<1> QED
  BY <1>1, <1>2

LEMMA BeginFacts ==
    ASSUME TypeOK, NEW r \in Callers, NEW v \in Videos, Begin(r, v)
    PROVE  /\ request' \in [Callers -> Request] /\ Others(r)
           /\ request'[r].pc = "load" /\ request'[r].video = v
           /\ request'[r].revoked = Revoked(v) /\ request'[r].dark = Dark(v)
<1> DEFINE q == [Idle EXCEPT !.pc = "load", !.video = v,
                             !.revoked = Revoked(v), !.dark = Dark(v)]
<1>1. Revoked(v) \in SUBSET Links /\ Dark(v) \in BOOLEAN
  BY DEF Revoked, Dark
<1>2. q \in Request
  BY <1>1, IdleFacts, CanonicalAssumption DEF Request
<1>3. request' = [request EXCEPT ![r] = q]
  BY DEF Begin
<1>4. request'[r] = q
  BY <1>3 DEF TypeOK
<1>5. /\ q.pc = "load" /\ q.video = v /\ q.revoked = Revoked(v) /\ q.dark = Dark(v)
  BY DEF Idle
<1> HIDE DEF q
<1> QED
  BY <1>2, <1>3, <1>4, <1>5 DEF TypeOK, Others

LEMMA AdoptBeginFacts ==
    ASSUME TypeOK, NEW o \in Callers, NEW v \in Videos, NEW l \in Links,
           AdoptBegin(o, v, l)
    PROVE  /\ request' \in [Callers -> Request] /\ Others(o)
           /\ request'[o].pc = "adoptRead" /\ request'[o].video = v
           /\ request'[o].link = l /\ request'[o].dark = FALSE
           /\ request'[o].revoked = Revoked(v)
<1> DEFINE q == [Idle EXCEPT !.pc = "adoptRead", !.video = v, !.link = l,
                             !.revoked = Revoked(v)]
<1>1. Revoked(v) \in SUBSET Links
  BY DEF Revoked
<1>2. q \in Request
  BY <1>1, IdleFacts, CanonicalAssumption DEF Request
<1>3. request' = [request EXCEPT ![o] = q]
  BY DEF AdoptBegin
<1>4. request'[o] = q
  BY <1>3 DEF TypeOK
<1>5. /\ q.pc = "adoptRead" /\ q.video = v /\ q.link = l /\ q.revoked = Revoked(v)
      /\ q.dark = FALSE
  BY DEF Idle
<1> HIDE DEF q
<1> QED
  BY <1>2, <1>3, <1>4, <1>5 DEF TypeOK, Others

LEMMA RetryFacts ==
    ASSUME TypeOK, NEW r \in Callers, CreateRetry(r)
    PROVE  /\ request' \in [Callers -> Request] /\ Others(r)
           /\ \/ Gone(r)
              \/ request'[r].pc = "load" /\ Keeps(r) /\ KeepsLink(r)
<1>1. CASE request[r].attempt < MaxAttempts
  <2> DEFINE q == [request[r] EXCEPT !.pc = "load", !.attempt = @ + 1]
  <2>1. request[r] \in Request /\ request[r].attempt \in 1..MaxAttempts
    BY DEF TypeOK, Request
  <2>2. request[r].attempt + 1 \in 1..MaxAttempts
    BY <1>1, <2>1, CanonicalAssumption
  <2>3. q \in Request
    BY <2>1, <2>2 DEF Request
  <2>4. request' = [request EXCEPT ![r] = q]
    BY <1>1, <2>1 DEF CreateRetry, TypeOK, Request
  <2>5. request'[r] = q
    BY <2>4 DEF TypeOK
  <2>6. /\ q.pc = "load" /\ q.video = request[r].video /\ q.link = request[r].link
        /\ q.token = request[r].token /\ q.revoked = request[r].revoked
        /\ q.dark = request[r].dark
    BY <2>1 DEF Request
  <2> HIDE DEF q
  <2> QED
    BY <2>3, <2>4, <2>5, <2>6 DEF TypeOK, Others, Keeps, KeepsLink
<1>2. CASE ~(request[r].attempt < MaxAttempts)
  BY <1>2, RefuseFacts DEF CreateRetry
<1> QED
  BY <1>1, <1>2

LEMMA AdoptReadFacts ==
    ASSUME TypeOK, NEW o \in Callers, AdoptRead(o)
    PROVE  /\ request' \in [Callers -> Request] /\ Others(o)
           /\ \/ Gone(o)
              \/ /\ request'[o].pc = "adopt" /\ Keeps(o) /\ KeepsLink(o)
                 /\ request'[o].domain \in Domains /\ request'[o].host \in Hosts
                 /\ request'[o].evidence \in Evidence
<1>1. CASE Refuse(o)
  BY <1>1, RefuseFacts
<1>2. ASSUME NEW d \in Anchors, evidence[Video(o)] # None, Eligible(Video(o)),
             request' = [request EXCEPT ![o] = [@ EXCEPT
                !.pc = "adopt", !.domain = d, !.host = host[d],
                !.evidence = evidence[Video(o)]]]
      PROVE  /\ request' \in [Callers -> Request] /\ Others(o)
             /\ request'[o].pc = "adopt" /\ Keeps(o) /\ KeepsLink(o)
             /\ request'[o].domain \in Domains /\ request'[o].host \in Hosts
             /\ request'[o].evidence \in Evidence
  <2> DEFINE q == [request[o] EXCEPT !.pc = "adopt", !.domain = d,
                      !.host = host[d], !.evidence = evidence[Video(o)]]
  <2>1. request[o] \in Request
    BY DEF TypeOK
  <2>2. d \in Domains /\ host[d] \in Hosts
    BY <1>2 DEF TypeOK, Anchors
  <2>3. Video(o) \in Videos
    BY <1>2 DEF TypeOK, Eligible
  <2>4. evidence[Video(o)] \in Evidence
    BY <1>2, <2>3 DEF TypeOK
  <2>5. q \in Request
    BY <2>1, <2>2, <2>4 DEF Request
  <2>6. request'[o] = q /\ request' = [request EXCEPT ![o] = q]
    BY <1>2 DEF TypeOK
  <2>7. /\ q.pc = "adopt" /\ q.video = request[o].video /\ q.link = request[o].link
        /\ q.token = request[o].token /\ q.revoked = request[o].revoked
        /\ q.dark = request[o].dark /\ q.domain = d /\ q.host = host[d]
        /\ q.evidence = evidence[Video(o)]
    BY <2>1 DEF Request
  <2> HIDE DEF q
  <2> QED
    BY <2>2, <2>4, <2>5, <2>6, <2>7 DEF TypeOK, Others, Keeps, KeepsLink
<1> QED
  BY <1>1, <1>2 DEF AdoptRead

LEMMA CheckFacts ==
    ASSUME TypeOK, NEW r \in Callers, Check(r)
    PROVE  /\ request' \in [Callers -> Request] /\ Others(r)
           /\ \/ Gone(r)
              \/ /\ request'[r].pc \in {"claim", "answered"}
                 /\ Keeps(r) /\ KeepsLink(r)
<1>1. CASE Refuse(r)
  BY <1>1, RefuseFacts
<1>2. CASE Goto(r, "claim")
  BY <1>2, GotoFacts
<1>3. CASE Answer(r, request[r].link, request[r].token)
  <2>1. request[r].token \in Callers \cup {None} /\ request[r].link \in Links \cup {None}
    BY DEF TypeOK, Request
  <2> QED
    BY <1>3, <2>1, AnswerFacts DEF KeepsLink
<1> QED
  BY <1>1, <1>2, <1>3 DEF Check

LEMMA CompatibilityType ==
    ASSUME TypeOK, NEW l \in Links, NEW v
    PROVE  Compatibility(l, v) \in {None, token[l]} /\ token[l] \in Callers \cup {None}
BY DEF TypeOK, Compatibility

LEMMA MappingType ==
    ASSUME TypeOK, NEW v \in Videos, mapping[v] # None
    PROVE  mapping[v] \in Mapping /\ mapping[v].link \in Links
BY DEF TypeOK, Mapping

LEMMA RowType ==
    ASSUME TypeOK, NEW r \in Callers, NEW l \in Links, NEW d \in Anchors,
           Eligible(Video(r)), evidence[Video(r)] # None
    PROVE  /\ Video(r) \in Videos
           /\ Row(r, l, d) \in Mapping /\ Row(r, l, d) # None
           /\ Row(r, l, d).link = l /\ Row(r, l, d).by = r
<1>1. Video(r) \in Videos
  BY DEF TypeOK, Eligible
<1>2. d \in Domains /\ host[d] \in Hosts /\ evidence[Video(r)] \in Evidence
  BY <1>1 DEF TypeOK, Anchors
<1>3. Row(r, l, d) \in Mapping /\ Row(r, l, d).link = l /\ Row(r, l, d).by = r
  BY <1>2 DEF Row, Mapping
<1> QED
  BY <1>1, <1>3, CanonicalAssumption DEF Mapping, Callers

LEMMA RereadFacts ==
    ASSUME TypeOK, LoadedIsAnchor, NEW r \in Callers, Reread(r)
    PROVE  /\ request' \in [Callers -> Request] /\ Others(r)
           /\ request[r].pc = "reread" /\ request'[r].pc = "answered" /\ Keeps(r)
           /\ request'[r].link = request[r].link
           /\ request'[r].token \in {None, token[request[r].link]}
<1>1. request[r].pc = "reread" /\ Video(r) \in Videos
      /\ Anchored(request[r].link, Video(r))
  BY DEF Reread, At, LoadedIsAnchor, HasAnchor, Holding
<1>2. mapping[Video(r)] # None /\ mapping[Video(r)].link = request[r].link
      /\ request[r].link \in Links
  BY <1>1, MappingType DEF Anchored
<1>3. Answer(r, request[r].link, Compatibility(request[r].link, Video(r)))
  BY <1>2 DEF Reread
<1> QED
  BY <1>1, <1>2, <1>3, CompatibilityType, AnswerFacts

\* AdoptWrite either writes the row as it was read, or nothing.
LEMMA AdoptWriteFacts ==
    ASSUME TypeOK, LoadedIsAnchor, ChosenIsExact, NEW o \in Callers, AdoptWrite(o)
    PROVE  /\ request' \in [Callers -> Request] /\ Others(o)
           /\ request[o].pc = "adopt" /\ Video(o) \in Videos
           /\ \/ Gone(o) /\ mapping' = mapping
              \/ \E m \in Mapping :
                  /\ m # None /\ m.link = request[o].link /\ m.by = o
                  /\ Insertable(Video(o), m.link)
                  /\ m.link \in pinnable /\ members[m.link] = {Video(o)}
                  /\ mapping' = [mapping EXCEPT ![Video(o)] = m]
                  /\ request'[o].pc = "answered" /\ Keeps(o)
                  /\ request'[o].link = m.link
                  /\ request'[o].token \in {None, token[m.link]}
<1> DEFINE v == Video(o)
           q == request[o]
           m == [link |-> q.link, domain |-> q.domain, host |-> q.host,
                 evidence |-> q.evidence, by |-> o]
<1>1. q.pc = "adopt" /\ v \in Videos
  BY DEF AdoptWrite, At, LoadedIsAnchor
<1>2. /\ q.link \in pinnable /\ q.link \in Links
      /\ videoStatus[v] = "PURGED" \/ members[q.link] = {v}
      /\ q.domain \in Domains /\ q.host \in Hosts /\ q.evidence \in Evidence
  BY <1>1 DEF ChosenIsExact, Adopting, At, TypeOK, Request
<1>3. m \in Mapping /\ m.link = q.link /\ m.by = o
  BY <1>2 DEF Mapping
<1>4. m # None
  BY <1>3, CanonicalAssumption DEF Mapping, Callers
<1>5. CASE ~Insertable(v, q.link)
  BY <1>1, <1>5, RefuseFacts DEF AdoptWrite
<1>6. CASE Insertable(v, q.link)
  <2>1. /\ mapping' = [mapping EXCEPT ![v] = m]
        /\ Answer(o, q.link, Compatibility(q.link, v))
    BY <1>6 DEF AdoptWrite
  <2>2. /\ request' \in [Callers -> Request] /\ Others(o)
        /\ request'[o].pc = "answered" /\ Keeps(o)
        /\ request'[o].link = q.link
        /\ request'[o].token \in {None, token[q.link]}
    BY <1>2, <2>1, CompatibilityType, AnswerFacts
  <2>3. members[q.link] = {v}
    BY <1>2, <1>6 DEF Insertable
  <2> HIDE DEF m
  <2> QED
    BY <1>1, <1>2, <1>3, <1>4, <1>6, <2>1, <2>2, <2>3
<1> QED
  BY <1>5, <1>6

-----------------------------------------------------------------------------
(* Type correctness.                                                       *)

LEMMA CallType ==
    ASSUME TypeOK, LoadedIsAnchor, NEW r \in Requests, CallStep(r)
    PROVE  TypeOK'
<1> USE DEF linkRows, videoRows, domainRows
<1>0. r \in Callers
  BY DEF Callers
<1>1. ASSUME request' \in [Callers -> Request],
             UNCHANGED <<website, videoRows, linkRows, domainRows, mapping, acts>>
      PROVE  TypeOK'
  BY <1>1 DEF TypeOK
<1>2. CASE Load(r)
  <2>2. Video(r) \in Videos
    BY <1>0, <1>2 DEF Load, At, LoadedIsAnchor
  <2>3. CASE mapping[Video(r)] = None
    BY <1>0, <1>1, <1>2, <2>3, GotoFacts DEF Load
  <2>4. CASE mapping[Video(r)] # None
    BY <1>0, <1>1, <1>2, <2>2, <2>4, MappingType, ReuseFacts DEF Load
  <2> QED
    BY <2>3, <2>4
<1>3. CASE CreateRefused(r)
  BY <1>0, <1>1, <1>3, RefuseFacts DEF CreateRefused
<1>4. CASE CreateConflict(r)
  BY <1>0, <1>1, <1>4, GotoFacts DEF CreateConflict
<1>5. CASE ConflictLoad(r)
  <2>1. Video(r) \in Videos /\ mapping[Video(r)] # None
    BY <1>0, <1>5 DEF ConflictLoad, At, LoadedIsAnchor
  <2> QED
    BY <1>0, <1>1, <1>5, <2>1, MappingType, ReuseFacts DEF ConflictLoad
<1>6. CASE CreateRetry(r)
  BY <1>0, <1>1, <1>6, RetryFacts DEF CreateRetry
<1>7. ASSUME NEW l \in Links, NEW d \in Domains, CreatePin(r, l, d) PROVE TypeOK'
  <2>1. /\ d \in Anchors /\ Eligible(Video(r)) /\ evidence[Video(r)] # None
        /\ mapping' = [mapping EXCEPT ![Video(r)] = Row(r, l, d)]
        /\ UNCHANGED <<website, videoRows, linkRows, domainRows, acts>>
        /\ Reuse(r, Row(r, l, d))
    BY <1>7 DEF CreatePin
  <2>2. Row(r, l, d) \in Mapping /\ Video(r) \in Videos
    BY <1>0, <2>1, RowType
  <2>3. request' \in [Callers -> Request]
    BY <1>0, <2>1, <2>2, ReuseFacts
  <2> QED
    BY <2>1, <2>2, <2>3 DEF TypeOK
<1>8. ASSUME NEW l \in Links, NEW d \in Domains, CreateMint(r, l, d) PROVE TypeOK'
  <2> DEFINE v == Video(r)
  <2>1. d \in Anchors /\ Eligible(v) /\ evidence[v] # None
    BY <1>8 DEF CreateMint
  <2>2. Row(r, l, d) \in Mapping /\ v \in Videos
    BY <1>0, <2>1, RowType
  <2>3. /\ linkStatus' = [linkStatus EXCEPT ![l] = "ACTIVE"]
        /\ members' = [members EXCEPT ![l] = {v}]
        /\ issued' = [issued EXCEPT ![l] = {v}]
        /\ mapping' = [mapping EXCEPT ![v] = Row(r, l, d)]
        /\ pinnable' = pinnable \cup {l}
        /\ token' = [token EXCEPT ![l] = r]
        /\ Answer(r, l, r)
        /\ UNCHANGED <<website, videoRows, domainRows, acts>>
    BY <1>8 DEF CreateMint
  <2>4. request' \in [Callers -> Request]
    BY <1>0, <2>3, AnswerFacts
  <2>5. mapping' \in [Videos -> Mapping \cup {None}]
    BY <2>2, <2>3 DEF TypeOK
  <2> QED
    BY <1>0, <2>2, <2>3, <2>4, <2>5 DEF TypeOK, LinkStatus
<1>9. CASE Check(r)
  BY <1>0, <1>1, <1>9, CheckFacts DEF Check
<1>10. CASE Claim(r)
  <2>1. Goto(r, "reread")
    BY <1>10 DEF Claim
  <2>2. request' \in [Callers -> Request]
    BY <1>0, <2>1, GotoFacts
  <2>3. token' \in [Links -> Callers \cup {None}]
    BY <1>0, <1>10 DEF Claim, TypeOK
  <2> QED
    BY <1>10, <2>2, <2>3 DEF Claim, TypeOK
<1>11. CASE Reread(r)
  BY <1>0, <1>1, <1>11, RereadFacts DEF Reread
<1> QED
  BY <1>2, <1>3, <1>4, <1>5, <1>6, <1>7, <1>8, <1>9, <1>10, <1>11 DEF CallStep

LEMMA AdminType ==
    ASSUME TypeOK, Administration
    PROVE  TypeOK'
<1> USE CanonicalAssumption DEF TypeOK, linkRows, videoRows, domainRows, LinkStatus, Act
<1>1. ASSUME NEW l \in Links, RevokeShareLink(l) PROVE TypeOK'
  BY <1>1 DEF RevokeShareLink
<1>2. ASSUME NEW l \in Links, NEW S \in SUBSET Videos, CreateBundle(l, S) PROVE TypeOK'
  BY <1>2 DEF CreateBundle
<1>3. ASSUME NEW v \in Videos, DisableVideo(v) PROVE TypeOK'
  BY <1>3 DEF DisableVideo
<1>4. ASSUME NEW v \in Videos, RestoreVideo(v) PROVE TypeOK'
  BY <1>4 DEF RestoreVideo
<1>5. ASSUME NEW v \in Videos, Reassign(v) PROVE TypeOK'
  BY <1>5 DEF Reassign
<1>6. ASSUME NEW v \in Videos, NEW e \in Evidence, EditVideo(v, e) PROVE TypeOK'
  BY <1>6 DEF EditVideo
<1>7. ASSUME NEW v \in Videos, PurgeCount(v) PROVE TypeOK'
  BY <1>7 DEF PurgeCount
<1>8. ASSUME NEW v \in Videos, PurgeCommit(v) PROVE TypeOK'
  <2>1. CASE Deletable(v)
    BY <1>8, <2>1 DEF PurgeCommit
  <2>2. CASE ~Deletable(v)
    BY <1>8, <2>2 DEF PurgeCommit
  <2> QED
    BY <2>1, <2>2
<1>9. CASE ToggleWebsite
  BY <1>9 DEF ToggleWebsite
<1>10. ASSUME NEW d \in Domains, NEW what \in {"unassign", "rename"}, MoveCount(d, what)
       PROVE  TypeOK'
  BY <1>10 DEF MoveCount
<1>11. ASSUME NEW d \in Domains, UnassignDomain(d) PROVE TypeOK'
  BY <1>11 DEF UnassignDomain
<1>12. ASSUME NEW d \in Domains, NEW h \in Hosts, RenameDomain(d, h) PROVE TypeOK'
  BY <1>12 DEF RenameDomain
<1>13. ASSUME NEW d \in Domains, AssignDomain(d) PROVE TypeOK'
  BY <1>13 DEF AssignDomain
<1>14. ASSUME NEW d \in Domains, ToggleDomain(d) PROVE TypeOK'
  BY <1>14 DEF ToggleDomain
<1> QED
  BY <1>1, <1>2, <1>3, <1>4, <1>5, <1>6, <1>7, <1>8, <1>9, <1>10, <1>11, <1>12,
     <1>13, <1>14 DEF Administration

LEMMA TypeStep == IInv /\ [Next]_vars => TypeOK'
<1> SUFFICES ASSUME IInv, [Next]_vars PROVE TypeOK'
  OBVIOUS
<1> USE DEF linkRows, videoRows, domainRows
<1>0. TypeOK /\ LoadedIsAnchor /\ ChosenIsExact
  BY DEF IInv
<1>1. ASSUME NEW r \in Requests, CallStep(r) PROVE TypeOK'
  BY <1>0, <1>1, CallType
<1>2. ASSUME NEW r \in Requests, NEW v \in Asked, Begin(r, v) PROVE TypeOK'
  <2>1. request' \in [Callers -> Request]
    BY <1>0, <1>2, BeginFacts, CanonicalAssumption DEF Callers
  <2> QED
    BY <1>0, <1>2, <2>1 DEF Begin, TypeOK
<1>3. ASSUME NEW o \in Operators, NEW v \in Asked, NEW l \in Links, AdoptBegin(o, v, l)
      PROVE  TypeOK'
  <2>1. request' \in [Callers -> Request]
    BY <1>0, <1>3, AdoptBeginFacts, CanonicalAssumption DEF Callers
  <2> QED
    BY <1>0, <1>3, <2>1 DEF AdoptBegin, TypeOK
<1>4. ASSUME NEW o \in Operators, AdoptRead(o) PROVE TypeOK'
  <2>1. request' \in [Callers -> Request]
    BY <1>0, <1>4, AdoptReadFacts DEF Callers
  <2> QED
    BY <1>0, <1>4, <2>1 DEF AdoptRead, TypeOK
<1>5. ASSUME NEW o \in Operators, AdoptWrite(o) PROVE TypeOK'
  <2>1. /\ request' \in [Callers -> Request]
        /\ mapping' \in [Videos -> Mapping \cup {None}]
    BY <1>0, <1>5, AdoptWriteFacts DEF Callers, TypeOK
  <2> QED
    BY <1>0, <1>5, <2>1 DEF AdoptWrite, TypeOK
<1>6. CASE Administration
  BY <1>0, <1>6, AdminType
<1>7. CASE UNCHANGED vars
  BY <1>0, <1>7 DEF TypeOK, vars
<1> QED
  BY <1>1, <1>2, <1>3, <1>4, <1>5, <1>6, <1>7 DEF Next, AdoptStep

-----------------------------------------------------------------------------
(* What any step does to the rows.                                         *)

\* Revocations, rows, aliases and purges are for good; a row loses a video only
\* to its purge, which finds no mapping; a row is born as a bundle, or for a pair
\* that gets its mapping with it.
RowsEvolve ==
    /\ \A l \in Links :
        /\ linkStatus[l] = "REVOKED" => linkStatus'[l] = "REVOKED"
        /\ linkStatus[l] # "NONE" =>
            /\ linkStatus'[l] # "NONE"
            /\ issued'[l] = issued[l]
            /\ token[l] # None => token'[l] = token[l]
            /\ members'[l] \subseteq members[l]
            /\ \A v \in members[l] \ members'[l] :
                videoStatus'[v] = "PURGED" /\ mapping'[v] = None
        /\ linkStatus[l] = "NONE" =>
            \/ linkStatus'[l] = "NONE" /\ members'[l] = members[l] /\ issued'[l] = issued[l]
            \/ /\ linkStatus'[l] = "ACTIVE" /\ issued'[l] = members'[l]
               /\ \A v \in Videos : members'[l] = {v} =>
                    mapping[v] = None /\ mapping'[v] # None
    /\ pinnable \subseteq pinnable'
    /\ \A v \in Videos :
        /\ videoStatus[v] = "PURGED" => videoStatus'[v] = "PURGED"
        /\ videoStatus'[v] = "PURGED" => videoStatus[v] = "PURGED" \/ mapping'[v] = None

LEMMA StillRows ==
    ASSUME TypeOK, Unborn, UNCHANGED <<videoStatus, linkStatus, members, issued, pinnable>>,
           \A l \in Links : linkStatus[l] # "NONE" /\ token[l] # None => token'[l] = token[l]
    PROVE  RowsEvolve
BY DEF RowsEvolve, TypeOK

LEMMA CallRows ==
    ASSUME TypeOK, Unborn, NEW r \in Requests, CallStep(r)
    PROVE  RowsEvolve
<1> USE DEF linkRows, videoRows
<1>0. r \in Callers
  BY DEF Callers
<1>1. ASSUME UNCHANGED <<videoRows, linkRows>> PROVE RowsEvolve
  BY <1>1, StillRows
<1>2. CASE Claim(r)
  BY <1>2, StillRows DEF Claim, TypeOK
<1>3. ASSUME NEW l \in Links, NEW d \in Domains, CreateMint(r, l, d) PROVE RowsEvolve
  <2> DEFINE v == Video(r)
  <2>1. d \in Anchors /\ Eligible(v) /\ evidence[v] # None /\ mapping[v] = None
        /\ linkStatus[l] = "NONE"
    BY <1>3 DEF CreateMint, Fresh
  <2>2. Row(r, l, d) # None /\ v \in Videos
    BY <1>0, <2>1, RowType
  <2>3. /\ linkStatus' = [linkStatus EXCEPT ![l] = "ACTIVE"]
        /\ members' = [members EXCEPT ![l] = {v}]
        /\ issued' = [issued EXCEPT ![l] = {v}]
        /\ mapping' = [mapping EXCEPT ![v] = Row(r, l, d)]
        /\ pinnable' = pinnable \cup {l}
        /\ token' = [token EXCEPT ![l] = r]
        /\ UNCHANGED videoStatus
    BY <1>3 DEF CreateMint
  <2>4. mapping'[v] # None
    BY <2>2, <2>3 DEF TypeOK
  <2>5. /\ linkStatus'[l] = "ACTIVE" /\ issued'[l] = members'[l] /\ members'[l] = {v}
        /\ \A m \in Links \ {l} :
            /\ linkStatus'[m] = linkStatus[m] /\ members'[m] = members[m]
            /\ issued'[m] = issued[m] /\ token'[m] = token[m]
    BY <2>3 DEF TypeOK
  <2>6. ASSUME NEW m \in Links
        PROVE  /\ linkStatus[m] = "REVOKED" => linkStatus'[m] = "REVOKED"
               /\ linkStatus[m] # "NONE" =>
                   /\ linkStatus'[m] # "NONE"
                   /\ issued'[m] = issued[m]
                   /\ token[m] # None => token'[m] = token[m]
                   /\ members'[m] = members[m]
               /\ linkStatus[m] = "NONE" =>
                   \/ linkStatus'[m] = "NONE" /\ members'[m] = members[m] /\ issued'[m] = issued[m]
                   \/ /\ linkStatus'[m] = "ACTIVE" /\ issued'[m] = members'[m]
                      /\ \A w \in Videos : members'[m] = {w} =>
                           mapping[w] = None /\ mapping'[w] # None
    <3>1. CASE m = l
      BY <2>1, <2>4, <2>5, <3>1
    <3>2. CASE m # l
      BY <2>5, <3>2
    <3> QED
      BY <3>1, <3>2
  <2> QED
    BY <2>3, <2>6 DEF RowsEvolve
<1> QED
  BY <1>1, <1>2, <1>3 DEF CallStep, Load, CreateRefused, CreateConflict, ConflictLoad,
     CreateRetry, CreatePin, Check, Reread

LEMMA AdminRows ==
    ASSUME TypeOK, Unborn, Administration
    PROVE  RowsEvolve /\ UNCHANGED <<mapping, request, token>>
<1> USE DEF linkRows, videoRows, domainRows
<1>1. ASSUME UNCHANGED <<videoStatus, linkRows>> PROVE RowsEvolve
  BY <1>1, StillRows
<1>2. ASSUME NEW l \in Links, RevokeShareLink(l) PROVE RowsEvolve
  BY <1>2 DEF RevokeShareLink, RowsEvolve, TypeOK
<1>3. ASSUME NEW l \in Links, NEW S \in SUBSET Videos, CreateBundle(l, S)
      PROVE  RowsEvolve
  <2>1. Cardinality(S) > 1
    BY <1>3 DEF CreateBundle
  <2>2. ASSUME NEW v \in Videos, S = {v} PROVE FALSE
    <3>1. Cardinality({v}) = 1
      BY FS_Singleton
    <3> QED
      BY <2>1, <2>2, <3>1
  <2>3. /\ linkStatus[l] = "NONE"
        /\ linkStatus' = [linkStatus EXCEPT ![l] = "ACTIVE"]
        /\ members' = [members EXCEPT ![l] = S]
        /\ issued' = [issued EXCEPT ![l] = S]
        /\ pinnable \subseteq pinnable'
        /\ UNCHANGED <<videoStatus, token>>
    BY <1>3 DEF CreateBundle, Fresh
  <2> QED
    BY <2>2, <2>3 DEF RowsEvolve, TypeOK
<1>4. ASSUME NEW v \in Videos, DisableVideo(v) PROVE RowsEvolve
  <2>1. \A l \in Links : /\ linkStatus[l] = "REVOKED" <=> linkStatus'[l] = "REVOKED"
                         /\ linkStatus[l] = "NONE" <=> linkStatus'[l] = "NONE"
    BY <1>4 DEF DisableVideo, TypeOK
  <2> QED
    BY <1>4, <2>1 DEF DisableVideo, RowsEvolve, TypeOK
<1>5. ASSUME NEW v \in Videos, RestoreVideo(v) PROVE RowsEvolve
  <2>1. \A l \in Links : /\ linkStatus[l] = "REVOKED" <=> linkStatus'[l] = "REVOKED"
                         /\ linkStatus[l] = "NONE" <=> linkStatus'[l] = "NONE"
    BY <1>5 DEF RestoreVideo, TypeOK
  <2> QED
    BY <1>5, <2>1 DEF RestoreVideo, RowsEvolve, TypeOK
<1>6. ASSUME NEW v \in Videos, PurgeCommit(v) PROVE RowsEvolve
  <2>1. CASE ~Deletable(v)
    BY <1>1, <1>6, <2>1 DEF PurgeCommit
  <2>2. CASE Deletable(v)
    <3>1. /\ mapping[v] = None /\ mapping' = mapping
          /\ videoStatus' = [videoStatus EXCEPT ![v] = "PURGED"]
          /\ members' = [l \in Links |-> members[l] \ {v}]
          /\ UNCHANGED <<issued, pinnable, token>>
      BY <1>6, <2>2 DEF PurgeCommit, Deletable
    <3>2. \A l \in Links : /\ linkStatus[l] = "REVOKED" <=> linkStatus'[l] = "REVOKED"
                           /\ linkStatus[l] = "NONE" <=> linkStatus'[l] = "NONE"
      BY <1>6, <2>2 DEF PurgeCommit, TypeOK
    <3>3. \A l \in Links : /\ linkStatus[l] = "NONE" => members'[l] = members[l]
                           /\ members'[l] \subseteq members[l]
                           /\ \A w \in members[l] \ members'[l] : w = v
      BY <3>1 DEF Unborn
    <3>4. \A w \in Videos :
             /\ videoStatus[w] = "PURGED" => videoStatus'[w] = "PURGED"
             /\ videoStatus'[w] = "PURGED" => videoStatus[w] = "PURGED" \/ w = v
      BY <3>1 DEF TypeOK
    <3>5. videoStatus'[v] = "PURGED"
      BY <3>1 DEF TypeOK
    <3> QED
      BY <3>1, <3>2, <3>3, <3>4, <3>5 DEF RowsEvolve
  <2> QED
    BY <2>1, <2>2
<1>7. UNCHANGED <<mapping, request, token>>
  BY DEF Administration, RevokeShareLink, CreateBundle, DisableVideo, RestoreVideo,
     Reassign, PurgeCount, PurgeCommit, EditVideo, ToggleWebsite, MoveCount,
     UnassignDomain, AssignDomain, ToggleDomain, RenameDomain
<1> QED
  BY <1>1, <1>2, <1>3, <1>4, <1>5, <1>6, <1>7 DEF Administration, Reassign,
     PurgeCount, EditVideo, ToggleWebsite, MoveCount, UnassignDomain, AssignDomain,
     ToggleDomain, RenameDomain

LEMMA Evolution == IInv /\ [Next]_vars => RowsEvolve
<1> SUFFICES ASSUME IInv, [Next]_vars PROVE RowsEvolve
  OBVIOUS
<1>0. TypeOK /\ Unborn
  BY DEF IInv
<1>1. ASSUME UNCHANGED <<videoRows, linkRows>> PROVE RowsEvolve
  BY <1>0, <1>1, StillRows DEF videoRows, linkRows
<1>2. ASSUME NEW r \in Requests, CallStep(r) PROVE RowsEvolve
  BY <1>0, <1>2, CallRows
<1>3. CASE Administration
  BY <1>0, <1>3, AdminRows
<1> QED
  BY <1>1, <1>2, <1>3 DEF Next, AdoptStep, Begin, AdoptBegin, AdoptRead, AdoptWrite, vars

-----------------------------------------------------------------------------
(* What any step does to the mapping and to the calls.                     *)

\* A mapping is only ever added: to a link that shows exactly the video and anchors
\* no other, and which is the operator's choice, the newest, or fresh.
Anchoring(v) ==
    LET l == mapping'[v].link IN
    /\ mapping[v] = None /\ mapping'[v] # None /\ l \in Links
    /\ members'[l] = {v} /\ l \in pinnable' /\ videoStatus'[v] # "PURGED"
    /\ \A w \in Videos \ {v} : mapping'[w] = mapping[w] /\ ~Anchored(l, w)
    /\ \A s \in Callers :
        request'[s] # request[s] /\ request'[s].pc = "answered" => request'[s].video = v
    /\ \/ mapping'[v].by \in Operators
       \/ Newest(l, v) /\ UNCHANGED <<linkStatus, issued>>
       \/ Exact(v) = {}

LEMMA PinStep ==
    ASSUME TypeOK, NEW r \in Callers, NEW l \in Links, NEW d \in Domains,
           CreatePin(r, l, d)
    PROVE  Anchoring(Video(r))
<1> DEFINE v == Video(r)
<1>1. /\ d \in Anchors /\ Eligible(v) /\ evidence[v] # None /\ mapping[v] = None
      /\ mapping' = [mapping EXCEPT ![v] = Row(r, l, d)]
      /\ UNCHANGED <<videoStatus, linkStatus, members, issued, pinnable>>
      /\ Reuse(r, Row(r, l, d))
      /\ Newest(l, v) /\ Pinnable(l, v)
  BY DEF CreatePin, videoRows, linkRows
<1>2. /\ Row(r, l, d) \in Mapping /\ v \in Videos /\ Row(r, l, d) # None
      /\ Row(r, l, d).link = l
  BY <1>1, RowType
<1>3. mapping'[v] = Row(r, l, d) /\ \A w \in Videos \ {v} : mapping'[w] = mapping[w]
  BY <1>1, <1>2 DEF TypeOK
<1>4. members[l] = {v} /\ l \in pinnable /\ videoStatus[v] # "PURGED"
      /\ \A w \in Videos \ {v} : ~Anchored(l, w)
  BY <1>1 DEF Newest, Exact, Pinnable, Eligible
<1>5. \A s \in Callers : request'[s] # request[s] => request'[s].pc # "answered"
  BY <1>1, <1>2, ReuseFacts DEF Others, Gone
<1> QED
  BY <1>1, <1>2, <1>3, <1>4, <1>5 DEF Anchoring

LEMMA MintStep ==
    ASSUME TypeOK, Unborn, AnchorIsExact,
           NEW r \in Callers, NEW l \in Links, NEW d \in Domains, CreateMint(r, l, d)
    PROVE  /\ Anchoring(Video(r)) /\ mapping'[Video(r)].link = l
           /\ linkStatus[l] = "NONE" /\ linkStatus'[l] = "ACTIVE"
           /\ request[r].pc = "create" /\ request'[r].pc = "answered"
           /\ Others(r) /\ Keeps(r) /\ request'[r].link = l
           /\ request'[r].token = token'[l]
<1> DEFINE v == Video(r)
<1>1. /\ d \in Anchors /\ Eligible(v) /\ evidence[v] # None /\ mapping[v] = None
      /\ Exact(v) = {} /\ linkStatus[l] = "NONE"
      /\ linkStatus' = [linkStatus EXCEPT ![l] = "ACTIVE"]
      /\ members' = [members EXCEPT ![l] = {v}]
      /\ mapping' = [mapping EXCEPT ![v] = Row(r, l, d)]
      /\ pinnable' = pinnable \cup {l}
      /\ token' = [token EXCEPT ![l] = r]
      /\ UNCHANGED videoStatus
      /\ Answer(r, l, r) /\ request[r].pc = "create"
  BY DEF CreateMint, Fresh, HasNoHistory, videoRows, At
<1>2. v \in Videos /\ Row(r, l, d) # None /\ Row(r, l, d).link = l
  BY <1>1, RowType
<1>3. mapping'[v] = Row(r, l, d) /\ \A w \in Videos \ {v} : mapping'[w] = mapping[w]
  BY <1>1, <1>2 DEF TypeOK
<1>4. linkStatus'[l] = "ACTIVE" /\ members'[l] = {v} /\ l \in pinnable' /\ token'[l] = r
      /\ videoStatus'[v] # "PURGED"
  BY <1>1 DEF TypeOK, Eligible
<1>5. \A w \in Videos : ~Anchored(l, w)
  BY <1>1 DEF Unborn, AnchorIsExact, Anchored
<1>6. /\ Others(r) /\ Keeps(r) /\ request'[r].pc = "answered"
      /\ request'[r].link = l /\ request'[r].token = r
  BY <1>1, AnswerFacts
<1>7. \A s \in Callers : request'[s] # request[s] => request'[s].video = v
  BY <1>6 DEF Others, Keeps, Video
<1> QED
  BY <1>1, <1>2, <1>3, <1>4, <1>5, <1>6, <1>7 DEF Anchoring

LEMMA AdoptStepAnchors ==
    ASSUME TypeOK, LoadedIsAnchor, ChosenIsExact, NEW o \in Operators, AdoptWrite(o)
    PROVE  mapping' = mapping \/ Anchoring(Video(o))
<1> DEFINE v == Video(o)
<1>1. o \in Callers
  BY DEF Callers
<1>2. v \in Videos
  BY <1>1, AdoptWriteFacts
<1>3. ASSUME NEW m \in Mapping,
             m # None, m.link = request[o].link, m.by = o,
             Insertable(v, m.link),
             m.link \in pinnable, members[m.link] = {v},
             mapping' = [mapping EXCEPT ![v] = m],
             Others(o), Keeps(o)
      PROVE  Anchoring(v)
  <2>1. mapping'[v] = m /\ \A w \in Videos \ {v} : mapping'[w] = mapping[w]
    BY <1>2, <1>3 DEF TypeOK
  <2>2. m.link \in Links
    BY DEF Mapping
  <2>3. UNCHANGED <<videoStatus, members, pinnable>>
    BY DEF AdoptWrite, videoRows, linkRows
  <2>4. \A s \in Callers : request'[s] # request[s] => request'[s].video = v
    BY <1>3 DEF Others, Keeps, Video
  <2> QED
    BY <1>3, <2>1, <2>2, <2>3, <2>4 DEF Anchoring, Insertable
<1> QED
  BY <1>1, <1>3, AdoptWriteFacts

LEMMA AnchorStep ==
    IInv /\ [Next]_vars => mapping' = mapping \/ \E v \in Videos : Anchoring(v)
<1> SUFFICES ASSUME IInv, [Next]_vars
             PROVE  mapping' = mapping \/ \E v \in Videos : Anchoring(v)
  OBVIOUS
<1>0. TypeOK /\ Unborn /\ AnchorIsExact /\ LoadedIsAnchor /\ ChosenIsExact
  BY DEF IInv
<1>1. ASSUME NEW r \in Callers, request[r].pc = "create" \/ request[r].pc = "adopt"
      PROVE  Video(r) \in Videos
  BY <1>0, <1>1 DEF LoadedIsAnchor
<1>2. ASSUME NEW r \in Requests, NEW l \in Links, NEW d \in Domains, CreatePin(r, l, d)
      PROVE  \E v \in Videos : Anchoring(v)
  <2>1. r \in Callers /\ request[r].pc = "create"
    BY <1>2 DEF CreatePin, At, Callers
  <2> QED
    BY <1>0, <1>1, <1>2, <2>1, PinStep
<1>3. ASSUME NEW r \in Requests, NEW l \in Links, NEW d \in Domains, CreateMint(r, l, d)
      PROVE  \E v \in Videos : Anchoring(v)
  <2>1. r \in Callers /\ request[r].pc = "create"
    BY <1>3 DEF CreateMint, At, Callers
  <2> QED
    BY <1>0, <1>1, <1>3, <2>1, MintStep
<1>4. ASSUME NEW o \in Operators, AdoptWrite(o)
      PROVE  mapping' = mapping \/ \E v \in Videos : Anchoring(v)
  <2>1. o \in Callers /\ request[o].pc = "adopt"
    BY <1>4 DEF AdoptWrite, At, Callers
  <2> QED
    BY <1>0, <1>1, <1>4, <2>1, AdoptStepAnchors
<1>5. CASE Administration
  BY <1>0, <1>5, AdminRows
<1>6. CASE UNCHANGED vars
  BY <1>6 DEF vars
<1> QED
  BY <1>2, <1>3, <1>4, <1>5, <1>6 DEF Next, CallStep, AdoptStep, Begin, AdoptBegin,
     AdoptRead, Load, CreateRefused, CreateConflict, ConflictLoad, CreateRetry, Check,
     Claim, Reread

\* The ways a call moves.

Starts(r) ==
    /\ request[r].pc = "idle" /\ request'[r].pc = "load"
    /\ \E v \in Videos : /\ request'[r].video = v
                         /\ request'[r].revoked = Revoked(v) /\ request'[r].dark = Dark(v)

Selects(r) ==
    /\ r \in Operators
    /\ request[r].pc = "idle" /\ request'[r].pc = "adoptRead"
    /\ \E v \in Videos, l \in Links :
        /\ Usable(l, v) /\ request'[r].video = v /\ request'[r].link = l
        /\ request'[r].revoked = Revoked(v)

Waits(r) == request[r].pc \in Waiting /\ request'[r].pc \in Waiting /\ Keeps(r)

\* Reuse of the row of the mapping, which works.
Takes(r) ==
    /\ request[r].pc \in Waiting /\ request'[r].pc = "check" /\ Keeps(r)
    /\ HasAnchor(r)'
    /\ linkStatus'[request'[r].link] = "ACTIVE"
    /\ request'[r].token = token'[request'[r].link]

Holds(r) ==
    /\ request[r].pc \in Holding /\ request'[r].pc \in {"claim", "reread"}
    /\ Keeps(r) /\ KeepsLink(r)

Looks(r) ==
    /\ r \in Operators
    /\ request[r].pc = "adoptRead" /\ request'[r].pc = "adopt" /\ Keeps(r) /\ KeepsLink(r)
    /\ request'[r].domain # None /\ request'[r].host # None /\ request'[r].evidence # None

Tells(r) ==
    /\ request[r].pc \in Holding /\ request'[r].pc = "answered" /\ Keeps(r)
    /\ request'[r].link = request[r].link
    /\ request'[r].token \in {None, token'[request[r].link]}

Mints(r) ==
    /\ request[r].pc = "create" /\ request'[r].pc = "answered" /\ Keeps(r)
    /\ HasAnchor(r)'
    /\ linkStatus[request'[r].link] = "NONE" /\ linkStatus'[request'[r].link] = "ACTIVE"
    /\ request'[r].token = token'[request'[r].link]

Adopts(r) ==
    /\ r \in Operators
    /\ request[r].pc = "adopt" /\ request'[r].pc = "answered" /\ Keeps(r)
    /\ HasAnchor(r)'
    /\ request'[r].link = request[r].link
    /\ request'[r].token \in {None, token'[request'[r].link]}

Moved(r) ==
    /\ request[r].pc # "answered"
    /\ \/ Gone(r) \/ Starts(r) \/ Selects(r) \/ Waits(r) \/ Takes(r) \/ Holds(r)
       \/ Looks(r) \/ Tells(r) \/ Mints(r) \/ Adopts(r)

\* Reuse of a row that is, or has just become, the mapping of the pair.
LEMMA ReuseMoves ==
    ASSUME TypeOK, NEW r \in Callers, NEW m \in Mapping, Reuse(r, m),
           request[r].pc \in Waiting, m # None, mapping'[Video(r)] = m, UNCHANGED linkRows
    PROVE  Others(r) /\ Moved(r)
<1>1. CASE Gone(r)
  BY <1>1, ReuseFacts DEF Moved, Waiting
<1>2. CASE ~Gone(r)
  <2>1. /\ Usable(m.link, Video(r)) /\ request'[r].pc = "check" /\ Keeps(r)
        /\ request'[r].link = m.link /\ request'[r].token = token[m.link]
    BY <1>2, ReuseFacts
  <2>2. linkStatus'[m.link] = "ACTIVE" /\ token' = token
    BY <2>1 DEF Usable, linkRows
  <2>3. HasAnchor(r)'
    BY <2>1 DEF HasAnchor, Anchored, Keeps, Video
  <2> QED
    BY <2>1, <2>2, <2>3, ReuseFacts DEF Moved, Takes, Waiting
<1> QED
  BY <1>1, <1>2

LEMMA CallMoves ==
    ASSUME IInv, NEW r \in Requests, CallStep(r)
    PROVE  Others(r) /\ Moved(r)
<1>0. TypeOK /\ LoadedIsAnchor /\ Unborn /\ AnchorIsExact /\ TokenIsRead /\ r \in Callers
  BY DEF IInv, Callers
<1>1. CASE Load(r)
  <2>1. request[r].pc = "load" /\ Video(r) \in Videos
    BY <1>0, <1>1 DEF Load, At, LoadedIsAnchor
  <2>2. CASE mapping[Video(r)] = None
    BY <1>0, <1>1, <2>1, <2>2, GotoFacts DEF Load, Moved, Waits, Waiting
  <2>3. CASE mapping[Video(r)] # None
    <3>1. mapping[Video(r)] \in Mapping /\ Reuse(r, mapping[Video(r)])
          /\ UNCHANGED <<mapping, linkRows>>
      BY <1>0, <1>1, <2>1, <2>3, MappingType DEF Load
    <3> QED
      BY <1>0, <2>1, <2>3, <3>1, ReuseMoves DEF Waiting
  <2> QED
    BY <2>2, <2>3
<1>2. CASE CreateRefused(r)
  BY <1>0, <1>2, RefuseFacts DEF CreateRefused, At, Moved
<1>3. CASE CreateConflict(r)
  BY <1>0, <1>3, GotoFacts DEF CreateConflict, At, Moved, Waits, Waiting
<1>4. CASE ConflictLoad(r)
  <2>1. request[r].pc = "conflict" /\ Video(r) \in Videos /\ mapping[Video(r)] # None
        /\ Reuse(r, mapping[Video(r)]) /\ UNCHANGED <<mapping, linkRows>>
    BY <1>0, <1>4 DEF ConflictLoad, At, LoadedIsAnchor
  <2> QED
    BY <1>0, <2>1, MappingType, ReuseMoves DEF Waiting
<1>5. CASE CreateRetry(r)
  BY <1>0, <1>5, RetryFacts DEF CreateRetry, At, Moved, Waits, Waiting
<1>6. ASSUME NEW l \in Links, NEW d \in Domains, CreatePin(r, l, d)
      PROVE  Others(r) /\ Moved(r)
  <2>1. /\ d \in Anchors /\ Eligible(Video(r)) /\ evidence[Video(r)] # None
        /\ mapping' = [mapping EXCEPT ![Video(r)] = Row(r, l, d)]
        /\ UNCHANGED linkRows /\ Reuse(r, Row(r, l, d)) /\ request[r].pc = "create"
    BY <1>6 DEF CreatePin, At
  <2>2. Row(r, l, d) \in Mapping /\ Video(r) \in Videos /\ Row(r, l, d) # None
    BY <1>0, <2>1, RowType
  <2>3. mapping'[Video(r)] = Row(r, l, d)
    BY <1>0, <2>1, <2>2 DEF TypeOK
  <2> QED
    BY <1>0, <2>1, <2>2, <2>3, ReuseMoves DEF Waiting
<1>7. ASSUME NEW l \in Links, NEW d \in Domains, CreateMint(r, l, d)
      PROVE  Others(r) /\ Moved(r)
  <2>1. /\ Anchoring(Video(r)) /\ mapping'[Video(r)].link = l
        /\ linkStatus[l] = "NONE" /\ linkStatus'[l] = "ACTIVE"
        /\ request[r].pc = "create" /\ request'[r].pc = "answered"
        /\ Others(r) /\ Keeps(r) /\ request'[r].link = l
        /\ request'[r].token = token'[l]
    BY <1>0, <1>7, MintStep
  <2>2. HasAnchor(r)'
    BY <2>1 DEF Anchoring, HasAnchor, Anchored, Keeps, Video
  <2> QED
    BY <2>1, <2>2 DEF Moved, Mints
<1>8. CASE Check(r)
  <2>1. request[r].pc = "check" /\ UNCHANGED token
    BY <1>8 DEF Check, At, linkRows
  <2>2. request[r].token \in {None, token[request[r].link]}
    BY <1>0, <2>1 DEF TokenIsRead
  <2> QED
    BY <1>0, <1>8, <2>1, <2>2, CheckFacts DEF Moved, Holds, Tells, Holding, KeepsLink
<1>9. CASE Claim(r)
  BY <1>0, <1>9, GotoFacts DEF Claim, At, Moved, Holds, Holding
<1>10. CASE Reread(r)
  <2>1. UNCHANGED token
    BY <1>10 DEF Reread, linkRows
  <2> QED
    BY <1>0, <1>10, <2>1, RereadFacts DEF Moved, Tells, Holding
<1> QED
  BY <1>1, <1>2, <1>3, <1>4, <1>5, <1>6, <1>7, <1>8, <1>9, <1>10 DEF CallStep

LEMMA OperatorMoves ==
    ASSUME IInv, NEW o \in Operators,
           AdoptStep(o) \/ \E v \in Asked, l \in Links : AdoptBegin(o, v, l)
    PROVE  Others(o) /\ Moved(o)
<1>0. TypeOK /\ LoadedIsAnchor /\ ChosenIsExact /\ o \in Callers
  BY DEF IInv, Callers
<1>1. ASSUME NEW v \in Asked, NEW l \in Links, AdoptBegin(o, v, l)
      PROVE  Others(o) /\ Moved(o)
  <2>1. v \in Videos /\ request[o].pc = "idle" /\ Usable(l, v)
    BY <1>1, CanonicalAssumption DEF AdoptBegin, At
  <2> QED
    BY <1>0, <1>1, <2>1, AdoptBeginFacts DEF Moved, Selects
<1>2. CASE AdoptRead(o)
  <2>1. request[o].pc = "adoptRead"
    BY <1>2 DEF AdoptRead, At
  <2> QED
    BY <1>0, <1>2, <2>1, AdoptReadFacts, CanonicalAssumption DEF Moved, Looks
<1>3. CASE AdoptWrite(o)
  <2>1. CASE Gone(o)
    BY <1>0, <1>3, <2>1, AdoptWriteFacts DEF Moved
  <2>2. ASSUME ~Gone(o), NEW m \in Mapping,
               m # None, m.link = request[o].link,
               mapping' = [mapping EXCEPT ![Video(o)] = m],
               request'[o].pc = "answered", Keeps(o),
               request'[o].link = m.link,
               request'[o].token \in {None, token[m.link]}
        PROVE  Moved(o)
    <3>1. request[o].pc = "adopt" /\ Video(o) \in Videos
      BY <1>0, <1>3, AdoptWriteFacts
    <3>2. token' = token
      BY <1>3 DEF AdoptWrite, linkRows
    <3>3. mapping'[Video(o)] = m
      BY <1>0, <2>2, <3>1 DEF TypeOK
    <3>4. HasAnchor(o)'
      BY <2>2, <3>3 DEF HasAnchor, Anchored, Keeps, Video
    <3> QED
      BY <2>2, <3>1, <3>2, <3>4 DEF Moved, Adopts
  <2> QED
    BY <1>0, <1>3, <2>1, <2>2, AdoptWriteFacts
<1> QED
  BY <1>1, <1>2, <1>3 DEF AdoptStep

LEMMA MoveStep ==
    IInv /\ [Next]_vars =>
        request' = request \/ \E r \in Callers : Others(r) /\ Moved(r)
<1> SUFFICES ASSUME IInv, [Next]_vars
             PROVE  request' = request \/ \E r \in Callers : Others(r) /\ Moved(r)
  OBVIOUS
<1>0. TypeOK /\ Unborn /\ Requests \subseteq Callers /\ Operators \subseteq Callers
  BY DEF IInv, Callers
<1>1. ASSUME NEW r \in Requests, NEW v \in Asked, Begin(r, v)
      PROVE  Others(r) /\ Moved(r)
  <2>1. v \in Videos /\ request[r].pc = "idle"
    BY <1>1, CanonicalAssumption DEF Begin, At
  <2> QED
    BY <1>0, <1>1, <2>1, BeginFacts DEF Moved, Starts
<1>2. CASE Administration
  BY <1>0, <1>2, AdminRows
<1>3. CASE UNCHANGED vars
  BY <1>3 DEF vars
<1> QED
  BY <1>0, <1>1, <1>2, <1>3, CallMoves, OperatorMoves DEF Next

-----------------------------------------------------------------------------
(* The inductive invariant, part by part.                                  *)

LEMMA UnbornStep == IInv /\ [Next]_vars => Unborn'
BY Evolution DEF IInv, Unborn, RowsEvolve

\* A link that exists for a video: it stays its own until the purge of the video.
LEMMA StaysExact ==
    ASSUME IInv, RowsEvolve, NEW l \in Links, NEW v \in Videos, members[l] = {v}
    PROVE  /\ members'[l] = {v} \/ (videoStatus'[v] = "PURGED" /\ mapping'[v] = None)
           /\ linkStatus[l] # "NONE" /\ issued'[l] = issued[l]
<1>1. linkStatus[l] # "NONE"
  BY DEF IInv, Unborn
<1>2. /\ members'[l] \subseteq {v}
      /\ v \notin members'[l] => videoStatus'[v] = "PURGED" /\ mapping'[v] = None
      /\ issued'[l] = issued[l]
  BY <1>1 DEF RowsEvolve
<1> QED
  BY <1>1, <1>2

LEMMA AnchorStays ==
    ASSUME IInv, [Next]_vars, NEW v \in Videos, mapping[v] # None
    PROVE  /\ mapping'[v] = mapping[v]
           /\ mapping[v].link \in Links /\ linkStatus[mapping[v].link] # "NONE"
           /\ members'[mapping[v].link] = {v} /\ mapping[v].link \in pinnable'
           /\ videoStatus'[v] # "PURGED" /\ issued'[mapping[v].link] = issued[mapping[v].link]
<1>1. TypeOK /\ AnchorIsExact /\ RowsEvolve
  BY Evolution DEF IInv
<1>2. mapping'[v] = mapping[v]
  BY AnchorStep DEF Anchoring
<1>3. mapping[v].link \in Links
  BY <1>1, MappingType
<1>4. members[mapping[v].link] = {v} /\ mapping[v].link \in pinnable
      /\ videoStatus[v] # "PURGED"
  BY <1>1 DEF AnchorIsExact
<1>5. videoStatus'[v] # "PURGED" /\ mapping[v].link \in pinnable'
  BY <1>1, <1>2, <1>4 DEF RowsEvolve
<1> QED
  BY <1>1, <1>2, <1>3, <1>4, <1>5, StaysExact

LEMMA AnchorIsExactStep == IInv /\ [Next]_vars => AnchorIsExact'
<1> SUFFICES ASSUME IInv, [Next]_vars PROVE AnchorIsExact'
  OBVIOUS
<1>0. AnchorIsExact
  BY DEF IInv
<1>1. CASE mapping' = mapping
  BY <1>0, <1>1, AnchorStays DEF AnchorIsExact, Anchored
<1>2. ASSUME NEW u \in Videos, Anchoring(u) PROVE AnchorIsExact'
  <2>1. SUFFICES ASSUME NEW v \in Videos, mapping'[v] # None
                 PROVE  /\ members'[mapping'[v].link] = {v}
                        /\ mapping'[v].link \in pinnable'
                        /\ videoStatus'[v] # "PURGED"
                        /\ \A w \in Videos \ {v} : ~Anchored(mapping[v].link, w)'
    BY DEF AnchorIsExact
  <2>2. CASE v = u
    BY <1>2, <2>2 DEF Anchoring, Anchored
  <2>3. CASE v # u
    <3>1. mapping[v] # None /\ mapping'[v] = mapping[v]
      BY <1>2, <2>1, <2>3 DEF Anchoring
    <3>2. \A w \in Videos \ {v, u} : ~Anchored(mapping[v].link, w)'
      BY <1>0, <1>2, <2>1, <3>1 DEF AnchorIsExact, Anchoring, Anchored
    <3>3. ~Anchored(mapping[v].link, u)'
      BY <1>2, <2>3, <3>1 DEF Anchoring, Anchored
    <3> QED
      BY <3>1, <3>2, <3>3, AnchorStays
  <2> QED
    BY <2>2, <2>3
<1> QED
  BY <1>1, <1>2, AnchorStep

LEMMA HasAnchorStays ==
    ASSUME IInv, [Next]_vars, NEW r \in Callers, Video(r) \in Videos, HasAnchor(r),
           request'[r].video = request[r].video, request'[r].link = request[r].link
    PROVE  HasAnchor(r)'
BY AnchorStays DEF HasAnchor, Anchored, Video

LEMMA LoadedIsAnchorStep == IInv /\ [Next]_vars => LoadedIsAnchor'
<1> SUFFICES ASSUME IInv, [Next]_vars, NEW r \in Callers
             PROVE  /\ request'[r].pc \notin {"idle", "refused"} => Video(r)' \in Videos
                    /\ request'[r].pc \in Holding \cup {"answered"} => HasAnchor(r)'
  BY DEF LoadedIsAnchor, HasAnchor
<1>0. /\ request[r].pc \notin {"idle", "refused"} => Video(r) \in Videos
      /\ request[r].pc \in Holding \cup {"answered"} => HasAnchor(r)
  BY DEF IInv, LoadedIsAnchor, HasAnchor
<1>1. CASE request'[r] = request[r]
  <2>1. Video(r)' = Video(r)
    BY <1>1 DEF Video
  <2>2. CASE request[r].pc \in Holding \cup {"answered"}
    BY <1>0, <1>1, <2>1, <2>2, HasAnchorStays DEF Holding
  <2> QED
    BY <1>0, <1>1, <2>1, <2>2
<1>2. CASE Moved(r)
  <2> USE DEF Video, Holding, Waiting, Keeps
  <2>1. CASE Gone(r)
    BY <2>1 DEF Gone
  <2>2. CASE Starts(r)
    BY <2>2 DEF Starts
  <2>3. CASE Selects(r)
    BY <2>3 DEF Selects
  <2>4. CASE Waits(r)
    BY <1>0, <2>4 DEF Waits
  <2>5. CASE Takes(r)
    BY <1>0, <2>5 DEF Takes
  <2>6. CASE Holds(r)
    BY <1>0, <2>6, HasAnchorStays DEF Holds, KeepsLink
  <2>7. CASE Looks(r)
    BY <1>0, <2>7 DEF Looks
  <2>8. CASE Tells(r)
    BY <1>0, <2>8, HasAnchorStays DEF Tells
  <2>9. CASE Mints(r)
    BY <1>0, <2>9 DEF Mints
  <2>10. CASE Adopts(r)
    BY <1>0, <2>10 DEF Adopts
  <2> QED
    BY <1>2, <2>1, <2>2, <2>3, <2>4, <2>5, <2>6, <2>7, <2>8, <2>9, <2>10 DEF Moved
<1> QED
  BY <1>1, <1>2, MoveStep DEF Others

LEMMA ChosenIsExactStep == IInv /\ [Next]_vars => ChosenIsExact'
<1> SUFFICES ASSUME IInv, [Next]_vars, NEW o \in Callers, request'[o].pc \in Adopting
             PROVE  /\ request'[o].link \in pinnable'
                    /\ \/ videoStatus'[request'[o].video] = "PURGED"
                       \/ members'[request'[o].link] = {request'[o].video}
                    /\ request'[o].pc = "adopt" =>
                        /\ request'[o].domain # None /\ request'[o].host # None
                        /\ request'[o].evidence # None
  BY DEF ChosenIsExact, Video, At
<1>0. ChosenIsExact /\ LoadedIsAnchor /\ TypeOK /\ RowsEvolve
  BY Evolution DEF IInv
<1>1. ASSUME NEW l \in Links, NEW v \in Videos, l \in pinnable,
             videoStatus[v] = "PURGED" \/ members[l] = {v}
      PROVE  l \in pinnable' /\ (videoStatus'[v] = "PURGED" \/ members'[l] = {v})
  <2>1. l \in pinnable' /\ (videoStatus[v] = "PURGED" => videoStatus'[v] = "PURGED")
    BY <1>0, <1>1 DEF RowsEvolve
  <2> QED
    BY <1>0, <1>1, <2>1, StaysExact
<1>2. ASSUME request[o].pc \in Adopting,
             request'[o].link = request[o].link, request'[o].video = request[o].video
      PROVE  /\ request'[o].link \in pinnable'
             /\ \/ videoStatus'[request'[o].video] = "PURGED"
                \/ members'[request'[o].link] = {request'[o].video}
  <2>1. request[o].video \in Videos
    BY <1>0, <1>2 DEF LoadedIsAnchor, Adopting, Video
  <2>2. request[o].link \in pinnable /\ request[o].link \in Links
        /\ (videoStatus[request[o].video] = "PURGED"
             \/ members[request[o].link] = {request[o].video})
    BY <1>0, <1>2 DEF ChosenIsExact, Video, TypeOK
  <2> QED
    BY <1>1, <1>2, <2>1, <2>2
<1>3. CASE request'[o] = request[o]
  BY <1>0, <1>2, <1>3 DEF ChosenIsExact, At
<1>4. CASE Selects(o)
  <2>1. PICK v \in Videos, l \in Links :
            Usable(l, v) /\ request'[o].video = v /\ request'[o].link = l
    BY <1>4 DEF Selects
  <2>2. l \in pinnable /\ members[l] = {v} /\ request'[o].pc = "adoptRead"
    BY <1>4, <2>1 DEF Usable, Selects
  <2> QED
    BY <1>1, <2>1, <2>2
<1>5. CASE Looks(o)
  BY <1>2, <1>5 DEF Looks, Keeps, KeepsLink, Adopting
<1>6. CASE Moved(o) /\ ~Selects(o) /\ ~Looks(o)
  BY <1>6 DEF Moved, Gone, Starts, Waits, Takes, Holds, Tells, Mints, Adopts,
     Waiting, Holding, Adopting
<1> QED
  BY <1>3, <1>4, <1>5, <1>6, MoveStep DEF Others

\* An alias that is there stays, so what a call has read of it stays true.
LEMMA TokenIsReadStep == IInv /\ [Next]_vars => TokenIsRead'
<1> SUFFICES ASSUME IInv, [Next]_vars, NEW r \in Callers,
                    request'[r].pc \in {"check", "answered"}
             PROVE  request'[r].token \in {None, token'[request'[r].link]}
  BY DEF TokenIsRead
<1>0. TokenIsRead /\ LoadedIsAnchor /\ RowsEvolve
  BY Evolution DEF IInv
<1>1. CASE request'[r] = request[r]
  <2>1. Video(r) \in Videos /\ HasAnchor(r)
    BY <1>0, <1>1 DEF LoadedIsAnchor, HasAnchor, Holding
  <2>2. request[r].link \in Links /\ linkStatus[request[r].link] # "NONE"
    BY <2>1, AnchorStays DEF HasAnchor, Anchored
  <2>3. request[r].token \in {None, token[request[r].link]}
    BY <1>0, <1>1 DEF TokenIsRead
  <2> QED
    BY <1>0, <1>1, <2>2, <2>3 DEF RowsEvolve
<1>2. CASE Moved(r)
  BY <1>2 DEF Moved, Gone, Starts, Selects, Waits, Takes, Holds, Looks, Tells, Mints,
     Adopts, Waiting
<1> QED
  BY <1>1, <1>2, MoveStep DEF Others

LEMMA RevokedIsKeptStep == IInv /\ [Next]_vars => RevokedIsKept'
<1> DEFINE Carries == Holding \cup Adopting \cup {"answered"}
<1> SUFFICES ASSUME IInv, [Next]_vars, NEW r \in Callers
             PROVE  /\ \A l \in request'[r].revoked : linkStatus'[l] = "REVOKED"
                    /\ request'[r].pc \in Carries => request'[r].link \notin request'[r].revoked
  BY DEF RevokedIsKept
<1>0. /\ RevokedIsKept /\ RowsEvolve
      /\ request[r].revoked \subseteq Links
  BY Evolution DEF IInv, TypeOK, Request
<1>1. \A l \in request[r].revoked : linkStatus[l] = "REVOKED" /\ linkStatus'[l] = "REVOKED"
  BY <1>0 DEF RevokedIsKept, RowsEvolve
<1>2. request[r].pc \in Carries => request[r].link \notin request[r].revoked
  BY <1>0 DEF RevokedIsKept
<1>3. CASE request'[r] = request[r]
  BY <1>1, <1>2, <1>3
<1>4. CASE Gone(r)
  BY <1>4 DEF Gone, Holding, Adopting
<1>5. CASE Starts(r)
  <2>1. PICK v \in Videos : request'[r].revoked = Revoked(v)
    BY <1>5 DEF Starts
  <2>2. \A l \in Revoked(v) : linkStatus'[l] = "REVOKED"
    BY <1>0 DEF Revoked, RowsEvolve
  <2> QED
    BY <1>5, <2>1, <2>2 DEF Starts, Holding, Adopting
<1>6. CASE Selects(r)
  <2>1. PICK v \in Videos, l \in Links :
            Usable(l, v) /\ request'[r].revoked = Revoked(v) /\ request'[r].link = l
    BY <1>6 DEF Selects
  <2>2. (\A m \in Revoked(v) : linkStatus'[m] = "REVOKED") /\ l \notin Revoked(v)
    BY <1>0, <2>1 DEF Revoked, RowsEvolve, Usable
  <2> QED
    BY <2>1, <2>2
<1>7. CASE Takes(r) \/ Mints(r)
  BY <1>1, <1>7 DEF Takes, Mints, Keeps
<1>8. CASE Waits(r)
  BY <1>1, <1>8 DEF Waits, Keeps, Waiting, Holding, Adopting
<1>9. CASE Holds(r) \/ Looks(r) \/ Tells(r) \/ Adopts(r)
  BY <1>1, <1>2, <1>9 DEF Holds, Looks, Tells, Adopts, Keeps, KeepsLink, Holding, Adopting
<1> QED
  BY <1>3, <1>4, <1>5, <1>6, <1>7, <1>8, <1>9, MoveStep DEF Others, Moved

-----------------------------------------------------------------------------
(* Revoked pairs stay dark.                                                *)

LEMMA MembersAreIssued == IInv /\ [Next]_vars => (\A l \in Links : members[l] \subseteq issued[l])'
BY Evolution DEF IInv, DarkIsBarred, RowsEvolve

LEMMA DarkSeals ==
    ASSUME IInv, NEW v \in Videos, Dark(v)
    PROVE  Sealed(v)
<1>1. PICK l \in Links : Newest(l, v) /\ linkStatus[l] = "REVOKED"
  BY DEF Dark
<1>2. mapping[v] = None /\ members[l] = {v} /\ \A m \in Exact(v) : m <= l
  BY <1>1 DEF Dark, Newest, Exact
<1>3. ASSUME NEW m \in Links, m > l, v \in members[m], issued[m] = {v} PROVE FALSE
  <2>1. members[m] = {v} /\ linkStatus[m] # "NONE"
    BY <1>3 DEF IInv, DarkIsBarred, Unborn
  <2>2. m <= l
    BY <1>2, <2>1 DEF Exact
  <2> QED
    BY <1>3, <2>2, CanonicalAssumption
<1>4. Bars(l, v)
  BY <1>1, <1>2, <1>3 DEF Bars
<1> QED
  BY <1>2, <1>4 DEF Sealed

LEMMA ExcusedStays ==
    ASSUME IInv, [Next]_vars, NEW v \in Videos, Excused(v)
    PROVE  Excused(v)'
BY AnchorStays DEF Excused

\* A new row of the video while the pair has no mapping is a bundle.
LEMMA BarsStays ==
    ASSUME IInv, [Next]_vars, NEW v \in Videos, NEW l \in Links,
           Bars(l, v), mapping'[v] = None
    PROVE  Bars(l, v)'
<1>0. RowsEvolve
  BY Evolution
<1>1. linkStatus[l] = "REVOKED" /\ linkStatus'[l] = "REVOKED"
  BY <1>0 DEF Bars, RowsEvolve
<1>2. members'[l] = {v} \/ videoStatus'[v] = "PURGED"
  BY <1>0, StaysExact DEF Bars, RowsEvolve
<1>3. ASSUME NEW m \in Links, m > l, v \in members'[m] PROVE issued'[m] # {v}
  <2>1. CASE linkStatus[m] # "NONE"
    BY <1>0, <1>3, <2>1 DEF RowsEvolve, Bars
  <2>2. CASE linkStatus[m] = "NONE"
    <3>1. members[m] = {}
      BY <2>2 DEF IInv, Unborn
    <3> QED
      BY <1>0, <1>3, <2>2, <3>1 DEF RowsEvolve
  <2> QED
    BY <2>1, <2>2
<1> QED
  BY <1>1, <1>2, <1>3 DEF Bars

LEMMA SealedStays ==
    ASSUME IInv, [Next]_vars, NEW v \in Videos, Sealed(v)
    PROVE  Sealed(v)'
<1>0. RowsEvolve
  BY Evolution
<1>1. CASE Excused(v)
  BY <1>1, ExcusedStays DEF Sealed
<1>2. CASE mapping[v] # None /\ linkStatus[mapping[v].link] = "REVOKED"
  BY <1>0, <1>2, AnchorStays DEF Sealed, RowsEvolve
<1>3. ASSUME mapping[v] = None, NEW l \in Links, Bars(l, v) PROVE Sealed(v)'
  <2>1. CASE mapping'[v] = None
    BY <1>3, <2>1, BarsStays DEF Sealed
  <2>2. CASE mapping'[v] # None
    <3>1. Anchoring(v)
      BY <1>3, <2>2, AnchorStep DEF Anchoring
    <3>2. CASE mapping'[v].by \in Operators
      BY <2>2, <3>2 DEF Sealed, Excused
    <3>3. linkStatus[l] = "REVOKED" /\ members[l] = {v}
      BY <1>0, <1>3, <3>1 DEF Bars, Anchoring, RowsEvolve
    <3>4. l \in Exact(v)
      BY <3>3 DEF Exact
    <3>5. CASE Newest(mapping'[v].link, v) /\ UNCHANGED <<linkStatus, issued>>
      <4> DEFINE m == mapping'[v].link
      <4>1. m \in Links /\ l <= m /\ members[m] = {v}
        BY <3>4, <3>5 DEF Newest, Exact
      <4>2. CASE m = l
        BY <2>2, <3>3, <3>5, <4>2 DEF Sealed
      <4>3. CASE m # l
        <5> HIDE DEF m
        <5>0. m \in Nat /\ l \in Nat /\ l <= m /\ v \in members[m]
          BY <4>1, CanonicalAssumption
        <5>1. m > l /\ v \in members[m]
          BY <4>3, <5>0
        <5>2. issued[m] # {v}
          BY <1>3, <4>1, <5>1 DEF Bars
        <5>3. issued'[m] # {v}
          BY <3>5, <5>2
        <5> QED
          BY <2>2, <5>3 DEF Sealed, Excused, m
      <4> QED
        BY <4>2, <4>3
    <3> QED
      BY <3>1, <3>2, <3>4, <3>5 DEF Anchoring
  <2> QED
    BY <2>1, <2>2
<1> QED
  BY <1>1, <1>2, <1>3 DEF Sealed

\* The call finds the pair sealed until it takes a link, and a link that works is
\* then excused.
LEMMA DarkIsBarredStep == IInv /\ [Next]_vars => DarkIsBarred'
<1> SUFFICES ASSUME IInv, [Next]_vars, NEW r \in Requests, request'[r].dark
             PROVE  /\ request'[r].pc \in Waiting => Sealed(Video(r))'
                    /\ request'[r].pc \in Holding \cup {"answered"} => Excused(Video(r))'
  BY MembersAreIssued DEF DarkIsBarred, Sealed, Waiting
<1>0. /\ r \in Callers /\ r \notin Operators
      /\ request[r].pc \notin {"idle", "refused"} => Video(r) \in Videos
      /\ request[r].dark /\ request[r].pc \in Waiting => Sealed(Video(r))
      /\ request[r].dark /\ request[r].pc \in Holding \cup {"answered"} => Excused(Video(r))
  BY CanonicalAssumption DEF IInv, DarkIsBarred, LoadedIsAnchor, Callers, Sealed, Waiting
<1>1. ASSUME request'[r].video = request[r].video PROVE Video(r)' = Video(r)
  BY <1>1 DEF Video
<1>2. ASSUME NEW v \in Videos, Sealed(v), HasAnchor(r)', Video(r)' = v,
             linkStatus'[request'[r].link] = "ACTIVE"
      PROVE  Excused(Video(r))'
  BY <1>2, SealedStays DEF Sealed, HasAnchor, Anchored
<1>3. CASE request'[r] = request[r]
  <2>1. Video(r)' = Video(r)
    BY <1>3 DEF Video
  <2> QED
    BY <1>0, <1>3, <2>1, SealedStays, ExcusedStays DEF Waiting, Holding
<1>4. CASE Gone(r)
  BY <1>4 DEF Gone
<1>5. CASE Starts(r)
  <2>1. PICK v \in Videos : request'[r].video = v /\ request'[r].dark = Dark(v)
    BY <1>5 DEF Starts
  <2>2. Sealed(v)'
    BY <2>1, DarkSeals, SealedStays
  <2> QED
    BY <1>5, <2>1, <2>2 DEF Starts, Holding, Video
<1>6. CASE Waits(r)
  BY <1>0, <1>1, <1>6, SealedStays DEF Waits, Keeps, Waiting, Holding
<1>7. CASE Takes(r)
  BY <1>0, <1>1, <1>2, <1>7 DEF Takes, Keeps, Waiting, Holding
<1>8. CASE Mints(r)
  BY <1>0, <1>1, <1>2, <1>8 DEF Mints, Keeps, Waiting, Holding
<1>9. CASE Holds(r) \/ Tells(r)
  BY <1>0, <1>1, <1>9, ExcusedStays DEF Holds, Tells, Keeps, Waiting, Holding
<1> QED
  BY <1>0, <1>3, <1>4, <1>5, <1>6, <1>7, <1>8, <1>9, MoveStep
  DEF Others, Moved, Selects, Looks, Adopts

-----------------------------------------------------------------------------
(* The theorems.                                                           *)

LEMMA InitInvariant == Init => IInv
<1> SUFFICES ASSUME Init PROVE IInv
  OBVIOUS
<1>1. Idle \in Request /\ Idle.pc = "idle" /\ Idle.dark = FALSE /\ Idle.revoked = {}
  BY IdleFacts, CanonicalAssumption DEF Idle
<1>2. request = [r \in Callers |-> Idle]
  BY DEF Init
<1>3. \A r \in Callers : request[r].pc = "idle" /\ request[r].dark = FALSE
                         /\ request[r].revoked = {}
  BY <1>1, <1>2
<1>4. request \in [Callers -> Request]
  BY <1>1, <1>2
<1>5. TypeOK
  BY <1>4, CanonicalAssumption DEF Init, TypeOK, LinkStatus
<1>6. Unborn /\ AnchorIsExact /\ \A l \in Links : members[l] \subseteq issued[l]
  BY DEF Init, Unborn, AnchorIsExact
<1>7. LoadedIsAnchor /\ ChosenIsExact /\ TokenIsRead /\ RevokedIsKept
  BY <1>3 DEF LoadedIsAnchor, ChosenIsExact, TokenIsRead, RevokedIsKept, Holding, Adopting
<1>8. DarkIsBarred
  BY <1>3, <1>6 DEF DarkIsBarred, Callers
<1> QED
  BY <1>5, <1>6, <1>7, <1>8 DEF IInv

LEMMA StepInvariant == IInv /\ [Next]_vars => IInv'
BY TypeStep, UnbornStep, AnchorIsExactStep, LoadedIsAnchorStep, ChosenIsExactStep,
   TokenIsReadStep, RevokedIsKeptStep, DarkIsBarredStep DEF IInv

THEOREM Inductive == Spec => []IInv
BY InitInvariant, StepInvariant, PTL DEF Spec

\* Type correctness of the rows and of the calls in flight.
THEOREM TypeCorrect == Spec => []TypeOK
<1>1. IInv => TypeOK
  BY DEF IInv
<1> QED
  BY <1>1, Inductive, PTL

\* The anchored link of a pair shows exactly its video, can be handed out and
\* anchors no other pair, whatever purges and administrators do.
THEOREM AnchorsAreExact == Spec => []AnchorIsExact
<1>1. IInv => AnchorIsExact
  BY DEF IInv
<1> QED
  BY <1>1, Inductive, PTL

\* No call of createOrGetCanonical or adoptExistingShareLink is answered with a
\* link whose revocation was committed before the call began.
THEOREM RevocationsHold == Spec => []RevocationIsHonoured
<1>1. IInv => RevocationIsHonoured
  BY DEF IInv, RevokedIsKept, RevocationIsHonoured, At
<1> QED
  BY <1>1, Inductive, PTL

\* A pair that was dark when the call began is not given a replacement.
THEOREM DarkPairsStayDark == Spec => []RevokedPairStaysDark
<1>1. IInv => RevokedPairStaysDark
  <2> SUFFICES ASSUME IInv, NEW r \in Requests, At(r, "answered"), request[r].dark
               PROVE  \/ mapping[Video(r)].by \in Operators
                      \/ issued[request[r].link] # {Video(r)}
    BY DEF RevokedPairStaysDark
  <2>1. Excused(Video(r)) /\ Anchored(request[r].link, Video(r))
    BY DEF IInv, DarkIsBarred, LoadedIsAnchor, HasAnchor, At, Callers
  <2> QED
    BY <2>1 DEF Excused, Anchored
<1> QED
  BY <1>1, Inductive, PTL

\* The transport alias a caller was told of is the link's, for good.
THEOREM TransportAliasesHold == Spec => []TransportAliasIsStable
<1>1. IInv => TransportAliasIsStable
  BY DEF IInv, TokenIsRead, TransportAliasIsStable, At
<1> QED
  BY <1>1, Inductive, PTL

\* A step answers one call at most, with the anchored link of its pair.
LEMMA AnswerStep ==
    ASSUME IInv, IInv', [Next]_vars
    PROVE  \/ answers' = answers
           \/ \E v \in Videos :
                /\ mapping'[v] # None
                /\ answers' = answers \cup {<<v, mapping'[v].link>>}
                /\ \A u \in Videos : Anchoring(u) => u = v
<1>1. CASE request' = request
  BY <1>1 DEF answers, Video, At
<1>2. ASSUME NEW r \in Callers, Others(r), Moved(r), request'[r].pc # "answered"
      PROVE  answers' = answers
  BY <1>2 DEF answers, Video, At, Others, Moved
<1>3. ASSUME NEW r \in Callers, Others(r), Moved(r), request'[r].pc = "answered"
      PROVE  \E v \in Videos :
                /\ mapping'[v] # None
                /\ answers' = answers \cup {<<v, mapping'[v].link>>}
                /\ \A u \in Videos : Anchoring(u) => u = v
  <2> DEFINE v == request'[r].video
  <2>1. v \in Videos /\ mapping'[v] # None /\ mapping'[v].link = request'[r].link
    BY <1>3 DEF IInv, LoadedIsAnchor, HasAnchor, Video, Anchored
  <2>2. answers' = answers \cup {<<v, request'[r].link>>}
    BY <1>3 DEF answers, Video, At, Others, Moved
  <2>3. request'[r] # request[r]
    BY <1>3 DEF Moved
  <2>4. \A u \in Videos : Anchoring(u) => u = v
    BY <1>3, <2>3 DEF Anchoring
  <2> QED
    BY <2>1, <2>2, <2>4
<1> QED
  BY <1>1, <1>2, <1>3, MoveStep

LEMMA TellFacts ==
    ASSUME TypeOK', NEW v \in Videos, mapping'[v] # None,
           answers' = answers \cup {<<v, mapping'[v].link>>}
    PROVE  Identity!Tell(v)
<1> DEFINE id == [u \in Videos |-> IF mapping[u] = None THEN None ELSE mapping[u].link]
<1>1. id'[v] = mapping'[v].link
  OBVIOUS
<1>2. mapping'[v].link # None
  BY CanonicalAssumption DEF TypeOK, Mapping
<1> QED
  BY <1>1, <1>2 DEF Identity!Tell

LEMMA NextFacts ==
    ASSUME NEW v \in Videos, NEW l \in Links, Identity!Choose(v, l),
           answers' = answers \/ Identity!Tell(v)
    PROVE  Identity!Next
BY DEF Identity!Next

\* A link that is anchored now and was not is chosen.
LEMMA ChooseFacts ==
    ASSUME NEW v \in Videos, Anchoring(v), NEW l \in Links, l = mapping'[v].link
    PROVE  Identity!Choose(v, l)
<1> DEFINE id == [u \in Videos |-> IF mapping[u] = None THEN None ELSE mapping[u].link]
<1>1. /\ mapping[v] = None /\ mapping'[v] # None /\ l \in Links
      /\ \A w \in Videos \ {v} : mapping'[w] = mapping[w] /\ ~Anchored(l, w)
  BY DEF Anchoring
<1>2. l # None
  BY <1>1, CanonicalAssumption
<1>3. id[v] = None /\ \A w \in Videos : id[w] # l
  BY <1>1, <1>2 DEF Anchored
<1>4. id' = [id EXCEPT ![v] = l]
  <2>1. id'[v] = l /\ \A w \in Videos \ {v} : id'[w] = id[w]
    BY <1>1
  <2>2. id = [w \in Videos |-> id[w]] /\ id' = [w \in Videos |-> id'[w]]
    OBVIOUS
  <2> HIDE DEF id
  <2> QED
    BY <2>1, <2>2
<1> QED
  BY <1>1, <1>3, <1>4 DEF Identity!Choose

\* The canonical share links implement the write-once identity: one link is chosen
\* for a pair, once, shared with no other pair, and callers are told that one only.
THEOREM IdentityIsKept == Spec => IdentityIsWriteOnce
<1> DEFINE id == [v \in Videos |-> IF mapping[v] = None THEN None ELSE mapping[v].link]
<1>1. Init => Identity!Init
  <2> SUFFICES ASSUME Init PROVE Identity!Init
    OBVIOUS
  <2>1. \A r \in Callers : request[r].pc = "idle"
    BY DEF Init, Idle
  <2>2. answers = {}
    BY <2>1 DEF answers, At
  <2>3. \A v \in Videos : mapping[v] = None
    BY DEF Init
  <2> QED
    BY <2>2, <2>3 DEF Identity!Init
<1>2. IInv /\ IInv' /\ [Next]_vars => [Identity!Next]_(<<id, answers>>)
  <2> SUFFICES ASSUME IInv, IInv', [Next]_vars
               PROVE  Identity!Next \/ UNCHANGED <<id, answers>>
    OBVIOUS
  <2>1. CASE mapping' = mapping
    <3>1. id' = id
      BY <2>1
    <3>2. ASSUME NEW v \in Videos, Identity!Tell(v) PROVE Identity!Next
      BY <3>1, <3>2, Zenon DEF Identity!Next
    <3> QED
      BY <3>1, <3>2, AnswerStep, TellFacts DEF IInv
  <2>2. ASSUME NEW v \in Videos, Anchoring(v)
        PROVE  Identity!Next
    <3>0. PICK l \in Links : l = mapping'[v].link
      BY <2>2 DEF Anchoring
    <3>1. Identity!Choose(v, l) /\ mapping'[v] # None
      BY <2>2, <3>0, ChooseFacts DEF Anchoring
    <3>2. answers' = answers \/ answers' = answers \cup {<<v, l>>}
      BY <2>2, <3>0, AnswerStep
    <3>3. answers' = answers \/ Identity!Tell(v)
      BY <3>0, <3>1, <3>2, TellFacts DEF IInv
    <3> QED
      BY <3>1, <3>3, NextFacts
  <2> QED
    BY <2>1, <2>2, AnchorStep
<1> QED
  BY <1>1, <1>2, Inductive, PTL DEF Spec, IdentityIsWriteOnce, Identity!Spec
=============================================================================
