-------------------------- MODULE ViewGrowth_proofs ---------------------------
(* Theorems about ViewGrowth and the settings it runs with, for any number of *)
(* viewers and requests, any clock and any settings the validator accepts.    *)
EXTENDS ViewGrowth, ConfigurationReaders, FiniteSetTheorems, TLAPS

\* What a transaction that holds the hour's bucket may still commit fits the cap.
Granted(r) ==
    IF request[r].opened
    THEN bucket[HourOf(r)] = None /\ request[r].increment <= MaxPerHour
    ELSE bucket[HourOf(r)] \in Nat /\ bucket[HourOf(r)] + request[r].increment <= MaxPerHour

\* How far a transaction is, and what it holds by then.
Sound(r) ==
    /\ ~At(r, "idle") => request[r].viewer \in Viewers
    /\ request[r].increment <= request[r].most
    /\ request[r].pc \notin {"record", "commit"} => request[r].increment = 0
    /\ request[r].pc \in {"idle", "read", "open"} => ~request[r].locked
    /\ request[r].opened => request[r].locked
    /\ At(r, "raise") /\ request[r].locked => request[r].opened
    /\ request[r].locked => Granted(r)

\* One transaction at most holds the bucket of an hour.
Exclusive ==
    \A r, q \in Requests :
        request[r].locked /\ request[q].locked /\ HourOf(r) = HourOf(q) => r = q

HourInv ==
    /\ TypeOK
    /\ \A r \in Requests : Sound(r)
    /\ Exclusive
    /\ HourIsCapped

-----------------------------------------------------------------------------

LEMMA IdleFacts ==
    /\ Idle \in RequestState
    /\ Idle.pc = "idle" /\ Idle.increment = 0 /\ Idle.most = 0
    /\ ~Idle.locked /\ ~Idle.opened /\ Idle.after = {}
BY GrowthAssumption DEF Idle, RequestState, Minutes, ValidSettings

LEMMA HourFacts ==
    ASSUME TypeOK, NEW r \in Requests
    PROVE  HourOf(r) \in Hours /\ bucket[HourOf(r)] \in Nat \cup {None}
BY DEF TypeOK, RequestState, HourOf, Hours

\* When only one transaction moves, and gets hold of a bucket only while it is free,
\* what holds of the others and of the rows still does.
LEMMA OneMoves ==
    ASSUME HourInv, NEW r \in Requests,
           request' \in [Requests -> RequestState],
           \A q \in Requests : q # r => request'[q] = request[q],
           UNCHANGED <<clock, rows>>,
           Sound(r)',
           request'[r].locked => /\ request'[r].at = request[r].at
                                 /\ request[r].locked \/ BucketIsFree(r)
    PROVE  HourInv'
<1>1. TypeOK'
    BY DEF HourInv, TypeOK, rows
<1>2. ASSUME NEW q \in Requests PROVE Sound(q)'
  <2>1. CASE q = r
    BY <2>1
  <2>2. CASE q # r
    BY <2>2 DEF HourInv, Sound, Granted, At, HourOf, rows
  <2> QED
    BY <2>1, <2>2
<1>3. Exclusive'
  <2> SUFFICES ASSUME NEW p \in Requests, NEW q \in Requests,
                      request'[p].locked, request'[q].locked,
                      Hour(request'[p].at) = Hour(request'[q].at),
                      p # q
               PROVE  FALSE
    BY DEF Exclusive, HourOf
  <2>1. CASE p # r /\ q # r
    BY <2>1 DEF HourInv, Exclusive, HourOf
  <2>2. CASE p = r
    BY <2>2 DEF HourInv, Exclusive, HourOf, BucketIsFree
  <2>3. CASE q = r
    BY <2>3 DEF HourInv, Exclusive, HourOf, BucketIsFree
  <2> QED
    BY <2>1, <2>2, <2>3
<1>4. HourIsCapped'
    BY DEF HourInv, HourIsCapped, rows
<1> QED
    BY <1>1, <1>2, <1>3, <1>4 DEF HourInv

LEMMA EndKeeps ==
    ASSUME HourInv, NEW r \in Requests, End(r)
    PROVE  HourInv'
<1>1. request' = [request EXCEPT ![r] = Idle] /\ UNCHANGED <<clock, rows>>
    BY DEF End
<1>2. request' \in [Requests -> RequestState] /\ request'[r] = Idle
    BY <1>1, IdleFacts DEF HourInv, TypeOK
<1>3. \A q \in Requests : q # r => request'[q] = request[q]
    BY <1>1 DEF HourInv, TypeOK
<1>4. Sound(r)'
    BY <1>2, IdleFacts DEF Sound, At
<1> QED
    BY <1>1, <1>2, <1>3, <1>4, IdleFacts, OneMoves

LEMMA ReportKeeps ==
    ASSUME HourInv, NEW r \in Requests, NEW v \in Viewers, Report(r, v)
    PROVE  HourInv'
<1> DEFINE new == [Idle EXCEPT !.pc = "read", !.viewer = v, !.at = clock]
<1>1. request' = [request EXCEPT ![r] = new] /\ UNCHANGED <<clock, rows>>
    BY DEF Report
<1>2. /\ new \in RequestState /\ new.pc = "read" /\ new.viewer = v
      /\ new.increment = 0 /\ new.most = 0 /\ ~new.locked /\ ~new.opened
    BY IdleFacts DEF HourInv, TypeOK, RequestState
<1> HIDE DEF new
<1>3. request' \in [Requests -> RequestState] /\ request'[r] = new
    BY <1>1, <1>2 DEF HourInv, TypeOK
<1>4. \A q \in Requests : q # r => request'[q] = request[q]
    BY <1>1 DEF HourInv, TypeOK
<1>5. Sound(r)'
    BY <1>2, <1>3 DEF Sound, At
<1> QED
    BY <1>1, <1>2, <1>3, <1>4, <1>5, OneMoves

LEMMA TimeBasedMaxType ==
    ASSUME NEW E, NEW at PROVE TimeBasedMax(E, at) \in 0..MaxPerEvent
BY GrowthAssumption DEF TimeBasedMax, Lesser, ValidSettings

\* What a report may grow by after its snapshot.
LEMMA ReadFacts ==
    ASSUME TypeOK, NEW r \in Requests, Read(r)
    PROVE  /\ request' \in [Requests -> RequestState]
           /\ \A q \in Requests : q # r => request'[q] = request[q]
           /\ UNCHANGED <<clock, rows>>
           /\ At(r, "read")
           /\ request'[r].pc \in {"open", "raise"}
           /\ request'[r].viewer = request[r].viewer /\ request'[r].at = request[r].at
           /\ request'[r].increment = request[r].increment
           /\ request'[r].locked = request[r].locked
           /\ request'[r].opened = request[r].opened
           /\ request'[r].after = {Key(e) : e \in Counted(events)}
           /\ request'[r].most <= TimeBasedMax(Counted(events), request[r].at)
<1> DEFINE total == bucket[HourOf(r)]
           room == IF total = None THEN MaxPerHour
                   ELSE IF total > MaxPerHour THEN 0 ELSE MaxPerHour - total
           paced == TimeBasedMax(Counted(events), request[r].at)
           most == Lesser(Lesser(MaxPerEvent, room), paced)
           after == {Key(e) : e \in Counted(events)}
           step == IF total = None THEN "open" ELSE "raise"
<1>1. request' = [request EXCEPT ![r].pc = step, ![r].most = most, ![r].after = after]
    BY DEF Read
<1>2. /\ UNCHANGED <<clock, rows>> /\ At(r, "read")
    BY DEF Read
<1>3. room \in Nat
    BY HourFacts, GrowthAssumption DEF ValidSettings
<1>4. paced \in 0..MaxPerEvent
    BY TimeBasedMaxType
<1>5. most \in 0..MaxPerEvent /\ most <= paced
    BY <1>3, <1>4, GrowthAssumption DEF Lesser, ValidSettings
<1>6. after \subseteq EventKeys
    BY DEF TypeOK, Events, EventKeys, Key, Counted
<1>7. step \in {"open", "raise"}
    OBVIOUS
<1> HIDE DEF step, most, after, paced
<1> QED
    BY <1>1, <1>2, <1>5, <1>6, <1>7 DEF TypeOK, RequestState, after, paced

LEMMA ReadKeeps ==
    ASSUME HourInv, NEW r \in Requests, Read(r)
    PROVE  HourInv'
<1>1. TypeOK /\ Sound(r)
    BY DEF HourInv
<1>2. request'[r] \in RequestState
    BY <1>1, ReadFacts
<1>3. Sound(r)'
    BY <1>1, <1>2, ReadFacts DEF Sound, At, RequestState
<1> QED
    BY <1>1, <1>3, ReadFacts, OneMoves DEF Sound, At

LEMMA MoveFacts ==
    ASSUME TypeOK, NEW r \in Requests,
           OpenBucket(r) \/ NothingToRaise(r) \/ Record(r)
    PROVE  /\ request' \in [Requests -> RequestState]
           /\ \A q \in Requests : q # r => request'[q] = request[q]
           /\ UNCHANGED <<clock, rows>>
           /\ request'[r].viewer = request[r].viewer /\ request'[r].at = request[r].at
           /\ request'[r].most = request[r].most
           /\ request'[r].increment = request[r].increment
           /\ request'[r].after = request[r].after
           /\ OpenBucket(r) => /\ At(r, "open") /\ BucketIsFree(r) /\ video
                               /\ bucket[HourOf(r)] = None
                               /\ request'[r].pc = "raise"
                               /\ request'[r].locked /\ request'[r].opened
           /\ NothingToRaise(r) \/ Record(r) =>
                 /\ request'[r].locked = request[r].locked
                 /\ request'[r].opened = request[r].opened
           /\ NothingToRaise(r) => /\ At(r, "raise") /\ request'[r].pc = "record"
           /\ Record(r) => /\ At(r, "record") /\ request'[r].pc = "commit"
<1>1. CASE OpenBucket(r)
  <2>1. /\ At(r, "open") /\ BucketIsFree(r) /\ video /\ bucket[HourOf(r)] = None
        /\ UNCHANGED <<clock, rows>>
        /\ request' = [request EXCEPT ![r].pc = "raise", ![r].opened = TRUE,
                                      ![r].locked = TRUE]
    BY <1>1 DEF OpenBucket
  <2>2. ~NothingToRaise(r) /\ ~Record(r)
    BY <2>1 DEF NothingToRaise, Record, At
  <2> QED
    BY <2>1, <2>2 DEF TypeOK, RequestState
<1>2. CASE NothingToRaise(r)
    BY <1>2 DEF OpenBucket, NothingToRaise, Record, At, TypeOK, RequestState
<1>3. CASE Record(r)
    BY <1>3 DEF OpenBucket, NothingToRaise, Record, At, TypeOK, RequestState
<1> QED
    BY <1>1, <1>2, <1>3

LEMMA RaiseFacts ==
    ASSUME TypeOK, NEW r \in Requests, NEW increment \in 1..MaxPerEvent, Raise(r, increment)
    PROVE  /\ request' \in [Requests -> RequestState]
           /\ \A q \in Requests : q # r => request'[q] = request[q]
           /\ UNCHANGED <<clock, rows>>
           /\ At(r, "raise") /\ BucketIsFree(r)
           /\ request'[r].pc = "record"
           /\ request'[r].viewer = request[r].viewer /\ request'[r].at = request[r].at
           /\ request'[r].most = request[r].most
           /\ request'[r].opened = request[r].opened
           /\ request'[r].after = request[r].after
           /\ request'[r].increment <= request'[r].most
           /\ request[r].opened => request'[r].locked /\ request'[r].increment <= MaxPerHour
           /\ ~request[r].opened /\ request'[r].locked =>
                 /\ bucket[HourOf(r)] # None
                 /\ \/ request'[r].increment = 0
                    \/ bucket[HourOf(r)] + request'[r].increment <= MaxPerHour
<1> DEFINE total == IF request[r].opened THEN 0 ELSE bucket[HourOf(r)]
           grants == total # None /\ total <= MaxPerHour - increment
           locked == total # None
           granted == IF grants THEN increment ELSE 0
<1>1. /\ At(r, "raise") /\ BucketIsFree(r) /\ increment \in Picks(request[r].most)
      /\ UNCHANGED <<clock, rows>>
      /\ request' = [request EXCEPT ![r].pc = "record", ![r].locked = locked,
                                    ![r].increment = granted]
    BY DEF Raise
<1>2. request[r].most \in 0..MaxPerEvent
    BY DEF TypeOK, RequestState
<1>3. granted \in 0..MaxPerEvent /\ granted <= request[r].most
    BY <1>1, <1>2, GrowthAssumption DEF Picks, Lesser, ValidSettings
<1>4. None \notin Nat
    BY GrowthAssumption
<1>5. request[r].opened => locked /\ granted <= MaxPerHour
    BY <1>4, GrowthAssumption DEF ValidSettings
<1>6. ~request[r].opened /\ locked =>
         bucket[HourOf(r)] # None /\ (granted = 0 \/ bucket[HourOf(r)] + granted <= MaxPerHour)
    BY <1>4, HourFacts, GrowthAssumption DEF ValidSettings
<1>7. locked \in BOOLEAN
    OBVIOUS
<1> HIDE DEF locked, granted
<1> QED
    BY <1>1, <1>3, <1>5, <1>6, <1>7 DEF TypeOK, RequestState

LEMMA MoveKeeps ==
    ASSUME HourInv, NEW r \in Requests,
           OpenBucket(r) \/ NothingToRaise(r) \/ Record(r)
    PROVE  HourInv'
<1>1. TypeOK /\ Sound(r)
    BY DEF HourInv
<1>2. /\ request'[r].viewer = request[r].viewer /\ request'[r].at = request[r].at
      /\ request'[r].increment = request[r].increment
      /\ request'[r].most = request[r].most
      /\ UNCHANGED <<clock, rows>>
    BY <1>1, MoveFacts
<1>3. CASE OpenBucket(r)
  <2>1. /\ At(r, "open") /\ BucketIsFree(r) /\ bucket[HourOf(r)] = None
        /\ request'[r].pc = "raise" /\ request'[r].locked /\ request'[r].opened
    BY <1>1, <1>3, MoveFacts
  <2>2. Granted(r)'
    BY <1>1, <1>2, <2>1, GrowthAssumption DEF Sound, At, Granted, HourOf, rows, ValidSettings
  <2>3. Sound(r)'
    BY <1>1, <1>2, <2>1, <2>2 DEF Sound, At
  <2> QED
    BY <1>1, <1>2, <2>1, <2>3, MoveFacts, OneMoves
<1>4. CASE NothingToRaise(r) \/ Record(r)
  <2>1. /\ request'[r].locked = request[r].locked /\ request'[r].opened = request[r].opened
        /\ request[r].pc \in {"raise", "record"} /\ request'[r].pc \in {"record", "commit"}
    BY <1>1, <1>4, MoveFacts DEF At
  <2>2. Granted(r)' <=> Granted(r)
    BY <1>2, <2>1 DEF Granted, HourOf, rows
  <2>3. Sound(r)'
    BY <1>1, <1>2, <2>1, <2>2 DEF Sound, At
  <2> QED
    BY <1>1, <1>2, <2>1, <2>3, MoveFacts, OneMoves
<1> QED
    BY <1>3, <1>4

LEMMA RaiseKeeps ==
    ASSUME HourInv, NEW r \in Requests, NEW increment \in 1..MaxPerEvent, Raise(r, increment)
    PROVE  HourInv'
<1>1. TypeOK /\ Sound(r)
    BY DEF HourInv
<1>2. request'[r].locked => Granted(r)'
  <2>1. bucket' = bucket /\ HourOf(r)' = HourOf(r) /\ request'[r].opened = request[r].opened
    BY <1>1, RaiseFacts DEF HourOf, rows
  <2>2. CASE request[r].opened
    BY <1>1, <2>1, <2>2, RaiseFacts DEF Granted, Sound
  <2>3. CASE ~request[r].opened
    <3> SUFFICES ASSUME request'[r].locked
                 PROVE  /\ bucket[HourOf(r)] \in Nat
                        /\ bucket[HourOf(r)] + request'[r].increment <= MaxPerHour
      BY <2>1, <2>3 DEF Granted
    <3>1. /\ bucket[HourOf(r)] # None
          /\ \/ request'[r].increment = 0
             \/ bucket[HourOf(r)] + request'[r].increment <= MaxPerHour
      BY <1>1, <2>3, RaiseFacts
    <3>2. HourOf(r) \in Hours /\ bucket[HourOf(r)] \in Nat
      BY <1>1, <3>1, HourFacts
    <3>3. bucket[HourOf(r)] <= MaxPerHour
      BY <3>1, <3>2 DEF HourInv, HourIsCapped
    <3> QED
      BY <3>1, <3>2, <3>3
  <2> QED
    BY <2>2, <2>3
<1>3. Sound(r)'
  <2>1. /\ request'[r].pc = "record" /\ request'[r].viewer = request[r].viewer
        /\ At(r, "raise") /\ request'[r].increment <= request'[r].most
        /\ request'[r].opened = request[r].opened
        /\ request[r].opened => request'[r].locked
    BY <1>1, RaiseFacts
  <2> QED
    BY <1>1, <1>2, <2>1 DEF Sound, At
<1> QED
  <2>1. request'[r].at = request[r].at /\ BucketIsFree(r)
    BY <1>1, RaiseFacts
  <2> QED
    BY <1>1, <1>3, <2>1, RaiseFacts, OneMoves

\* The event a commit writes.
Written(r) ==
    [viewer |-> request[r].viewer, window |-> Window(request[r].at), at |-> request[r].at,
     increment |-> request[r].increment, after |-> request[r].after]

LEMMA CommitFacts ==
    ASSUME HourInv, NEW r \in Requests, Commit(r)
    PROVE  /\ Written(r) \in Events
           /\ events' = events \cup {Written(r)}
           /\ request' = [request EXCEPT ![r] = Idle]
           /\ bucket' \in [Hours -> Nat \cup {None}]
           /\ request[r].locked =>
                 bucket'[HourOf(r)] \in Nat /\ bucket'[HourOf(r)] <= MaxPerHour
           /\ \A h \in Hours : h # HourOf(r) \/ ~request[r].locked => bucket'[h] = bucket[h]
           /\ viewCount' \in Nat
           /\ At(r, "commit")
           /\ UNCHANGED <<clock, video>>
<1> DEFINE total == IF request[r].opened THEN 0 ELSE bucket[HourOf(r)]
           sum == total + request[r].increment
<1>1. /\ At(r, "commit") /\ Sound(r) /\ TypeOK
      /\ events' = events \cup {Written(r)}
      /\ bucket' = IF request[r].locked THEN [bucket EXCEPT ![HourOf(r)] = sum] ELSE bucket
      /\ viewCount' = viewCount + request[r].increment
      /\ request' = [request EXCEPT ![r] = Idle]
      /\ UNCHANGED <<clock, video>>
    BY DEF Commit, HourInv, Written
<1>2. request[r] \in RequestState /\ viewCount \in Nat
    BY <1>1 DEF TypeOK
<1>3. request[r].increment \in Nat /\ request[r].increment \in 0..MaxPerEvent
      /\ request[r].at \in Minutes /\ request[r].after \subseteq EventKeys
    BY <1>2, GrowthAssumption DEF RequestState, ValidSettings
<1>4. Written(r) \in Events
  <2>1. request[r].viewer \in Viewers
    BY <1>1 DEF Sound, At
  <2>2. Window(request[r].at) \in Windows
    BY <1>3 DEF Windows
  <2> QED
    BY <1>3, <2>1, <2>2 DEF Written, Events
<1>5. request[r].locked => sum \in Nat /\ sum <= MaxPerHour
    BY <1>1, <1>3 DEF Sound, Granted
<1>6. HourOf(r) \in Hours /\ bucket \in [Hours -> Nat \cup {None}]
    BY <1>1, HourFacts DEF TypeOK
<1>7. viewCount' \in Nat
    BY <1>1, <1>2, <1>3
<1> HIDE DEF sum
<1>8. bucket' \in [Hours -> Nat \cup {None}]
    BY <1>1, <1>5, <1>6
<1>9. request[r].locked => bucket'[HourOf(r)] = sum
    BY <1>1, <1>6
<1>10. \A h \in Hours : h # HourOf(r) \/ ~request[r].locked => bucket'[h] = bucket[h]
    BY <1>1, <1>6
<1> QED
    BY <1>1, <1>4, <1>5, <1>7, <1>8, <1>9, <1>10

LEMMA CommitKeeps ==
    ASSUME HourInv, NEW r \in Requests, Commit(r)
    PROVE  HourInv'
<1>1. /\ request' \in [Requests -> RequestState] /\ request'[r] = Idle
      /\ \A q \in Requests : q # r => request'[q] = request[q]
    BY CommitFacts, IdleFacts DEF HourInv, TypeOK
<1>2. TypeOK'
    BY <1>1, CommitFacts DEF HourInv, TypeOK
<1>3. ASSUME NEW q \in Requests PROVE Sound(q)'
  <2>1. CASE q = r
    BY <1>1, <2>1, IdleFacts DEF Sound, At
  <2>2. CASE q # r
    <3>1. request'[q] = request[q] /\ Sound(q) /\ HourOf(q) \in Hours /\ HourOf(q)' = HourOf(q)
      BY <1>1, <2>2, HourFacts DEF HourInv, HourOf
    <3>2. request[q].locked => bucket'[HourOf(q)] = bucket[HourOf(q)]
      BY <2>2, <3>1, CommitFacts DEF HourInv, Exclusive
    <3>3. request[q].locked => Granted(q)'
      BY <3>1, <3>2 DEF Sound, Granted
    <3> QED
      BY <3>1, <3>3 DEF Sound, At
  <2> QED
    BY <2>1, <2>2
<1>4. Exclusive'
    BY <1>1, IdleFacts DEF HourInv, Exclusive, HourOf
<1>5. HourIsCapped'
  <2> SUFFICES ASSUME NEW h \in Hours, bucket'[h] # None
               PROVE  bucket'[h] <= MaxPerHour
    BY DEF HourIsCapped
  <2>1. CASE h = HourOf(r) /\ request[r].locked
    BY <2>1, CommitFacts
  <2>2. CASE ~(h = HourOf(r) /\ request[r].locked)
    BY <2>2, CommitFacts DEF HourInv, HourIsCapped
  <2> QED
    BY <2>1, <2>2
<1> QED
    BY <1>2, <1>3, <1>4, <1>5 DEF HourInv

LEMMA PurgeKeeps == HourInv /\ Purge => HourInv'
<1> SUFFICES ASSUME HourInv, Purge PROVE HourInv'
    OBVIOUS
<1>1. /\ \A r \in Requests : ~request[r].locked
      /\ video' = FALSE /\ viewCount' = 0 /\ events' = {}
      /\ bucket' = [h \in Hours |-> None]
      /\ UNCHANGED <<clock, request>>
    BY DEF Purge
<1>2. TypeOK'
    BY <1>1 DEF HourInv, TypeOK
<1>3. \A r \in Requests : Sound(r)'
    BY <1>1 DEF HourInv, Sound, At
<1>4. Exclusive' /\ HourIsCapped'
    BY <1>1 DEF Exclusive, HourIsCapped
<1> QED
    BY <1>2, <1>3, <1>4 DEF HourInv

LEMMA TickKeeps == HourInv /\ (Tick \/ UNCHANGED vars) => HourInv'
<1> SUFFICES ASSUME HourInv, Tick \/ UNCHANGED vars PROVE HourInv'
    OBVIOUS
<1>1. UNCHANGED <<rows, request>> /\ clock' \in Minutes
    BY GrowthAssumption DEF Tick, vars, rows, HourInv, TypeOK, Minutes
<1>2. TypeOK'
    BY <1>1 DEF HourInv, TypeOK, rows
<1>3. \A r \in Requests : Sound(r)'
    BY <1>1 DEF HourInv, Sound, At, Granted, HourOf, rows
<1>4. Exclusive' /\ HourIsCapped'
    BY <1>1 DEF HourInv, Exclusive, HourIsCapped, HourOf, rows
<1> QED
    BY <1>2, <1>3, <1>4 DEF HourInv

LEMMA HourInit == Init => HourInv
<1> SUFFICES ASSUME Init PROVE HourInv
    OBVIOUS
<1>1. TypeOK
    BY IdleFacts, GrowthAssumption DEF Init, TypeOK, Minutes
<1>2. \A r \in Requests : request[r] = Idle
    BY DEF Init
<1>3. \A r \in Requests : Sound(r)
    BY <1>2, IdleFacts DEF Sound, At
<1>4. Exclusive /\ HourIsCapped
    BY <1>2, IdleFacts DEF Init, Exclusive, HourIsCapped
<1> QED
    BY <1>1, <1>3, <1>4 DEF HourInv

LEMMA HourNext == HourInv /\ [Next]_vars => HourInv'
<1> SUFFICES ASSUME HourInv, [Next]_vars PROVE HourInv'
    OBVIOUS
<1>1. ASSUME NEW r \in Requests, NEW v \in Viewers, Report(r, v) PROVE HourInv'
    BY <1>1, ReportKeeps
<1>2. ASSUME NEW r \in Requests,
             AlreadyCounted(r) \/ BucketTaken(r) \/ EventTaken(r) \/ Abort(r)
      PROVE  HourInv'
    BY <1>2, EndKeeps DEF AlreadyCounted, BucketTaken, EventTaken, Abort
<1>3. ASSUME NEW r \in Requests, Read(r) PROVE HourInv'
    BY <1>3, ReadKeeps
<1>4. ASSUME NEW r \in Requests, OpenBucket(r) \/ NothingToRaise(r) \/ Record(r)
      PROVE  HourInv'
    BY <1>4, MoveKeeps
<1>5. ASSUME NEW r \in Requests, NEW increment \in 1..MaxPerEvent, Raise(r, increment)
      PROVE  HourInv'
    BY <1>5, RaiseKeeps
<1>6. ASSUME NEW r \in Requests, Commit(r) PROVE HourInv'
    BY <1>6, CommitKeeps
<1>7. CASE Purge
    BY <1>7, PurgeKeeps
<1>8. CASE Tick \/ UNCHANGED vars
    BY <1>8, TickKeeps
<1> QED
    BY <1>1, <1>2, <1>3, <1>4, <1>5, <1>6, <1>7, <1>8 DEF Next

LEMMA HourInvariant == Spec => []HourInv
BY HourInit, HourNext, PTL DEF Spec

\* The counter, the buckets and the transactions in flight keep their types.
THEOREM TypeCorrect == Spec => []TypeOK
<1>1. HourInv => TypeOK
    BY DEF HourInv
<1> QED
    BY <1>1, HourInvariant, PTL

\* No hour grows past maxIncrementPerVideoHour, however many reports have read the
\* same bucket before one of them raises it.
THEOREM HourStaysCapped == Spec => []HourIsCapped
<1>1. HourInv => HourIsCapped
    BY DEF HourInv
<1> QED
    BY <1>1, HourInvariant, PTL

-----------------------------------------------------------------------------
(* Pace.                                                                    *)

\* A transaction will grow by no more than its snapshot allowed it.
Paced(r) ==
    \A f \in events, i \in 1..3 :
        Key(f) \in request[r].after /\ request[r].at - f.at < Pace[i].within
            => request[r].most <= Pace[i].most

\* What a snapshot contained is still there, under a key no other event has or will get.
KeysInv ==
    /\ \A e, f \in events : Key(e) = Key(f) => e = f
    /\ \A e \in events : \A k \in e.after : \E f \in events : Key(f) = k
    /\ \A r \in Requests : video => \A k \in request[r].after : \E f \in events : Key(f) = k
    /\ ~video => events = {}
    /\ \A r \in Requests : At(r, "commit") => video /\ \A e \in events : Key(e) # KeyOf(r)
    /\ \A r, q \in Requests :
          At(r, "commit") /\ At(q, "commit") /\ KeyOf(r) = KeyOf(q) => r = q

PaceInv ==
    /\ KeysInv
    /\ \A r \in Requests : Paced(r)
    /\ PaceIsKept

\* A step that leaves the rows alone and moves one transaction.
LEMMA OnePaced ==
    ASSUME HourInv, PaceInv, NEW r \in Requests,
           \A q \in Requests : q # r => request'[q] = request[q],
           UNCHANGED <<clock, rows>>,
           Paced(r)',
           video => \A k \in request'[r].after : \E f \in events : Key(f) = k,
           request'[r].pc = "commit" =>
               /\ Record(r)
               /\ request'[r].viewer = request[r].viewer /\ request'[r].at = request[r].at
    PROVE  PaceInv'
<1>1. events' = events /\ video' = video
    BY DEF rows
<1>2. \A q \in Requests : Paced(q)'
    BY <1>1 DEF PaceInv, Paced
<1>3. PaceIsKept'
    BY <1>1 DEF PaceInv, PaceIsKept
<1>4. KeysInv'
  <2>1. /\ \A e, f \in events : Key(e) = Key(f) => e = f
        /\ \A e \in events : \A k \in e.after : \E f \in events : Key(f) = k
        /\ ~video => events = {}
    BY DEF PaceInv, KeysInv
  <2>2. \A q \in Requests :
           video => \A k \in request'[q].after : \E f \in events : Key(f) = k
    BY DEF PaceInv, KeysInv
  <2>3. request'[r].pc = "commit" =>
           /\ video /\ KeyOf(r)' = KeyOf(r) /\ KeyIsFree(r)
           /\ \A e \in events : Key(e) # KeyOf(r)
    BY DEF Record, KeyOf
  <2>4. \A q \in Requests : q # r => KeyOf(q)' = KeyOf(q) /\ (At(q, "commit")' <=> At(q, "commit"))
    BY DEF KeyOf, At
  <2>5. \A q \in Requests : At(q, "commit")' => video /\ \A e \in events : Key(e) # KeyOf(q)'
    BY <2>3, <2>4 DEF PaceInv, KeysInv, At
  <2>6. \A p, q \in Requests :
           At(p, "commit")' /\ At(q, "commit")' /\ KeyOf(p)' = KeyOf(q)' => p = q
    BY <2>3, <2>4 DEF PaceInv, KeysInv, At, KeyIsFree
  <2> QED
    BY <1>1, <2>1, <2>2, <2>5, <2>6 DEF KeysInv
<1> QED
    BY <1>2, <1>3, <1>4 DEF PaceInv

LEMMA EndPaced ==
    ASSUME HourInv, PaceInv, NEW r \in Requests, End(r)
    PROVE  PaceInv'
<1>1. /\ request' = [request EXCEPT ![r] = Idle] /\ UNCHANGED <<clock, rows>>
    BY DEF End
<1>2. /\ request'[r].after = {} /\ request'[r].pc = "idle"
      /\ \A q \in Requests : q # r => request'[q] = request[q]
    BY <1>1, IdleFacts DEF HourInv, TypeOK
<1>3. Paced(r)'
    BY <1>2 DEF Paced
<1> QED
    BY <1>1, <1>2, <1>3, OnePaced

LEMMA ReportPaced ==
    ASSUME HourInv, PaceInv, NEW r \in Requests, NEW v \in Viewers, Report(r, v)
    PROVE  PaceInv'
<1> DEFINE new == [Idle EXCEPT !.pc = "read", !.viewer = v, !.at = clock]
<1>1. /\ request' = [request EXCEPT ![r] = new] /\ UNCHANGED <<clock, rows>>
    BY DEF Report
<1>2. new.after = {} /\ new.pc = "read"
    BY IdleFacts DEF RequestState
<1> HIDE DEF new
<1>3. /\ request'[r].after = {} /\ request'[r].pc = "read"
      /\ \A q \in Requests : q # r => request'[q] = request[q]
    BY <1>1, <1>2 DEF HourInv, TypeOK
<1>4. Paced(r)'
    BY <1>3 DEF Paced
<1> QED
    BY <1>1, <1>3, <1>4, OnePaced

\* The tightest limit of a recent event bounds the increment.
LEMMA TimeBasedMaxIsTight ==
    ASSUME NEW E, NEW at \in Int, NEW f \in E, NEW i \in 1..3, at - f.at < Pace[i].within
    PROVE  TimeBasedMax(E, at) <= Pace[i].most
<1>1. \A j \in 1..3 : Pace[j].within \in Nat /\ Pace[j].most \in Nat
    BY GrowthAssumption
<1>2. Recent(E, at, Pace[i].within)
    BY DEF Recent
<1>3. \A j \in 1..3 : j < i => Pace[j].most <= Pace[i].most
    BY GrowthAssumption
<1>4. \A j \in 1..3 : Lesser(MaxPerEvent, Pace[j].most) <= Pace[j].most
    BY <1>1, GrowthAssumption DEF Lesser, ValidSettings
<1>5. MaxPerEvent \in Nat
    BY GrowthAssumption DEF ValidSettings
<1>6. CASE i = 1
    BY <1>1, <1>2, <1>4, <1>6 DEF TimeBasedMax
<1>7. CASE i = 2
  <2>1. Lesser(MaxPerEvent, Pace[1].most) \in Nat /\ Lesser(MaxPerEvent, Pace[2].most) \in Nat
    BY <1>1, <1>5 DEF Lesser
  <2> QED
    BY <1>1, <1>2, <1>3, <1>4, <1>7, <2>1 DEF TimeBasedMax
<1>8. CASE i = 3
  <2>1. \A j \in 1..3 : Lesser(MaxPerEvent, Pace[j].most) \in Nat
    BY <1>1, <1>5 DEF Lesser
  <2> QED
    BY <1>1, <1>2, <1>3, <1>4, <1>8, <2>1 DEF TimeBasedMax
<1> QED
    BY <1>6, <1>7, <1>8

LEMMA ReadPaced ==
    ASSUME HourInv, PaceInv, NEW r \in Requests, Read(r)
    PROVE  PaceInv'
<1>1. /\ UNCHANGED <<clock, rows>>
      /\ \A q \in Requests : q # r => request'[q] = request[q]
      /\ request'[r].pc # "commit" /\ request'[r].at = request[r].at
      /\ request'[r].after = {Key(e) : e \in Counted(events)}
      /\ request'[r].most <= TimeBasedMax(Counted(events), request[r].at)
      /\ request'[r] \in RequestState /\ request[r] \in RequestState
    BY ReadFacts DEF HourInv, TypeOK
<1>2. events' = events
    BY <1>1 DEF rows
<1>3. Paced(r)'
  <2> SUFFICES ASSUME NEW f \in events, NEW i \in 1..3,
                      Key(f) \in request'[r].after,
                      request[r].at - f.at < Pace[i].within
               PROVE  request'[r].most <= Pace[i].most
    BY <1>1, <1>2 DEF Paced
  <2>1. f \in Counted(events)
    BY <1>1 DEF Counted, PaceInv, KeysInv
  <2>2. request[r].at \in Int /\ request'[r].most \in Int
    BY <1>1, GrowthAssumption DEF RequestState, Minutes, ValidSettings
  <2>3. TimeBasedMax(Counted(events), request[r].at) <= Pace[i].most
    BY <2>1, <2>2, TimeBasedMaxIsTight
  <2>4. TimeBasedMax(Counted(events), request[r].at) \in Int /\ Pace[i].most \in Int
    BY TimeBasedMaxType, GrowthAssumption DEF ValidSettings
  <2> QED
    BY <1>1, <2>2, <2>3, <2>4
<1>4. \A k \in request'[r].after : \E f \in events : Key(f) = k
    BY <1>1 DEF Counted
<1> QED
    BY <1>1, <1>3, <1>4, OnePaced

LEMMA MovePaced ==
    ASSUME HourInv, PaceInv, NEW r \in Requests,
           \/ OpenBucket(r) \/ NothingToRaise(r) \/ Record(r)
           \/ \E increment \in 1..MaxPerEvent : Raise(r, increment)
    PROVE  PaceInv'
<1>1. /\ UNCHANGED <<clock, rows>>
      /\ \A q \in Requests : q # r => request'[q] = request[q]
      /\ request'[r].viewer = request[r].viewer /\ request'[r].at = request[r].at
      /\ request'[r].after = request[r].after /\ request'[r].most = request[r].most
      /\ request'[r].pc = "commit" => Record(r)
  <2>1. CASE OpenBucket(r) \/ NothingToRaise(r) \/ Record(r)
    BY <2>1, MoveFacts DEF HourInv
  <2>2. CASE \E increment \in 1..MaxPerEvent : Raise(r, increment)
    BY <2>2, RaiseFacts DEF HourInv
  <2> QED
    BY <2>1, <2>2
<1>2. events' = events
    BY <1>1 DEF rows
<1>3. Paced(r)'
    BY <1>1, <1>2 DEF PaceInv, Paced
<1>4. video => \A k \in request'[r].after : \E f \in events : Key(f) = k
    BY <1>1 DEF PaceInv, KeysInv
<1> QED
    BY <1>1, <1>3, <1>4, OnePaced

LEMMA CommitPaced ==
    ASSUME HourInv, PaceInv, NEW r \in Requests, Commit(r)
    PROVE  PaceInv'
<1> DEFINE e0 == Written(r)
<1>1. /\ events' = events \cup {e0} /\ e0 \in Events
      /\ request' = [request EXCEPT ![r] = Idle]
      /\ At(r, "commit") /\ UNCHANGED <<clock, video>>
    BY CommitFacts
<1>2. /\ request'[r].after = {} /\ request'[r].pc = "idle"
      /\ \A q \in Requests : q # r => request'[q] = request[q]
    BY <1>1, IdleFacts DEF HourInv, TypeOK
<1>3. /\ Key(e0) = KeyOf(r) /\ e0.after = request[r].after /\ e0.at = request[r].at
      /\ e0.increment = request[r].increment
    BY DEF Written, Key, KeyOf
<1>4. /\ video /\ \A e \in events : Key(e) # KeyOf(r)
    BY <1>1 DEF PaceInv, KeysInv
<1> HIDE DEF e0
<1>5. \A q \in Requests : \A k \in request[q].after : k # Key(e0) /\ \E f \in events : Key(f) = k
    BY <1>3, <1>4 DEF PaceInv, KeysInv
<1>6. \A e \in events : Key(e0) \notin e.after
    BY <1>3, <1>4 DEF PaceInv, KeysInv
<1>7. KeysInv'
  <2>1. \A e, f \in events' : Key(e) = Key(f) => e = f
    BY <1>1, <1>3, <1>4 DEF PaceInv, KeysInv
  <2>2. \A e \in events' : \A k \in e.after : \E f \in events' : Key(f) = k
    BY <1>1, <1>3, <1>5 DEF PaceInv, KeysInv
  <2>3. \A q \in Requests : \A k \in request'[q].after : \E f \in events' : Key(f) = k
    BY <1>1, <1>2, <1>5
  <2>4. video'
    BY <1>1, <1>4
  <2>5. \A q \in Requests : q # r => KeyOf(q)' = KeyOf(q) /\ (At(q, "commit")' <=> At(q, "commit"))
    BY <1>2 DEF KeyOf, At
  <2>6. ~At(r, "commit")'
    BY <1>2 DEF At
  <2>7. \A q \in Requests : At(q, "commit")' => \A e \in events' : Key(e) # KeyOf(q)'
    BY <1>1, <1>3, <2>5, <2>6 DEF PaceInv, KeysInv
  <2>8. \A p, q \in Requests :
           At(p, "commit")' /\ At(q, "commit")' /\ KeyOf(p)' = KeyOf(q)' => p = q
    BY <2>5, <2>6 DEF PaceInv, KeysInv
  <2> QED
    BY <2>1, <2>2, <2>3, <2>4, <2>7, <2>8 DEF KeysInv
<1>8. ASSUME NEW q \in Requests PROVE Paced(q)'
  <2>1. CASE q = r
    BY <1>2, <2>1 DEF Paced
  <2>2. CASE q # r
    BY <1>1, <1>2, <1>5, <2>2 DEF PaceInv, Paced
  <2> QED
    BY <2>1, <2>2
<1>9. PaceIsKept'
  <2> SUFFICES ASSUME NEW e \in events', NEW f \in events', NEW i \in 1..3,
                      Key(f) \in e.after, e.at - f.at < Pace[i].within
               PROVE  e.increment <= Pace[i].most
    BY DEF PaceIsKept
  <2>1. f \in events
    BY <1>1, <1>3, <1>5, <1>6
  <2>2. CASE e \in events
    BY <2>1, <2>2 DEF PaceInv, PaceIsKept
  <2>3. CASE e = e0
    <3>1. request[r].most <= Pace[i].most
      BY <1>3, <2>1, <2>3 DEF PaceInv, Paced
    <3>2. request[r].increment <= request[r].most /\ request[r] \in RequestState
      BY DEF HourInv, Sound, TypeOK
    <3>3. request[r].increment \in Int /\ request[r].most \in Int /\ Pace[i].most \in Int
      BY <3>2, GrowthAssumption DEF RequestState, ValidSettings
    <3> QED
      BY <1>3, <2>3, <3>1, <3>2, <3>3
  <2> QED
    BY <1>1, <2>2, <2>3
<1> QED
    BY <1>7, <1>8, <1>9 DEF PaceInv

LEMMA PurgePaced == HourInv /\ PaceInv /\ Purge => PaceInv'
<1> SUFFICES ASSUME PaceInv, Purge PROVE PaceInv'
    OBVIOUS
<1>1. /\ \A r \in Requests : ~At(r, "commit")
      /\ video' = FALSE /\ events' = {} /\ UNCHANGED request
    BY DEF Purge, SharesVideo
<1> QED
    BY <1>1 DEF PaceInv, KeysInv, Paced, PaceIsKept, At

LEMMA TickPaced == PaceInv /\ (Tick \/ UNCHANGED vars) => PaceInv'
<1> SUFFICES ASSUME PaceInv, Tick \/ UNCHANGED vars PROVE PaceInv'
    OBVIOUS
<1>1. UNCHANGED <<video, events, request>>
    BY DEF Tick, vars, rows
<1> QED
    BY <1>1 DEF PaceInv, KeysInv, Paced, PaceIsKept, At, KeyOf

LEMMA PaceInit == Init => PaceInv
<1> SUFFICES ASSUME Init PROVE PaceInv
    OBVIOUS
<1>1. events = {} /\ video /\ \A r \in Requests : request[r] = Idle
    BY DEF Init
<1> QED
    BY <1>1, IdleFacts DEF PaceInv, KeysInv, Paced, PaceIsKept, At

LEMMA PaceNext == HourInv /\ PaceInv /\ [Next]_vars => PaceInv'
<1> SUFFICES ASSUME HourInv, PaceInv, [Next]_vars PROVE PaceInv'
    OBVIOUS
<1>1. ASSUME NEW r \in Requests, NEW v \in Viewers, Report(r, v) PROVE PaceInv'
    BY <1>1, ReportPaced
<1>2. ASSUME NEW r \in Requests,
             AlreadyCounted(r) \/ BucketTaken(r) \/ EventTaken(r) \/ Abort(r)
      PROVE  PaceInv'
    BY <1>2, EndPaced DEF AlreadyCounted, BucketTaken, EventTaken, Abort
<1>3. ASSUME NEW r \in Requests, Read(r) PROVE PaceInv'
    BY <1>3, ReadPaced
<1>4. ASSUME NEW r \in Requests,
             \/ OpenBucket(r) \/ NothingToRaise(r) \/ Record(r)
             \/ \E increment \in 1..MaxPerEvent : Raise(r, increment)
      PROVE  PaceInv'
    BY <1>4, MovePaced
<1>5. ASSUME NEW r \in Requests, Commit(r) PROVE PaceInv'
    BY <1>5, CommitPaced
<1>6. CASE Purge
    BY <1>6, PurgePaced
<1>7. CASE Tick \/ UNCHANGED vars
    BY <1>7, TickPaced
<1> QED
    BY <1>1, <1>2, <1>3, <1>4, <1>5, <1>6, <1>7 DEF Next

\* A report whose snapshot contained an event grows by no more than is allowed so soon
\* after it, whatever the other reports commit in the meantime.
THEOREM GrowthKeepsPace == Spec => []PaceIsKept
<1>1. Init => PaceInv
    BY PaceInit
<1>2. HourInv /\ PaceInv /\ [Next]_vars => PaceInv'
    BY PaceNext
<1>3. PaceInv => PaceIsKept
    BY DEF PaceInv
<1> QED
    BY <1>1, <1>2, <1>3, HourInvariant, PTL DEF Spec

-----------------------------------------------------------------------------
(* Sums of increments.                                                      *)

\* How Increments adds: one event after another, each chosen from those that are left.
Chosen(s) == CHOOSE x \in s : TRUE
OneMore(sum, s) == IF s = {} THEN 0 ELSE Chosen(s).increment + sum[s \ {Chosen(s)}]
Sums(S, sum) == sum = [s \in SUBSET S |-> OneMore(sum, s)]
\* As above, for the sets of at most n events.
SumsUpTo(S, sum, n) ==
    \A s \in SUBSET S : Cardinality(s) <= n => sum[s] = OneMore(sum, s)

LEMMA ChosenIsIn == ASSUME NEW s, s # {} PROVE Chosen(s) \in s
BY DEF Chosen

\* Induction, as the absence of a smallest counterexample.
LEMMA SmallestNumber ==
    ASSUME NEW T, T \subseteq Nat, T # {}
    PROVE  \E n \in T : \A m \in T : n <= m
<1>1. PICK n \in T : \A m \in T : <<m, n>> \notin OpToRel(<, Nat)
    BY NatLessThanWellFounded, WFMin
<1>2. \A m \in T : ~(m < n)
    BY <1>1 DEF OpToRel
<1> QED
    BY <1>2

LEMMA SmallestSet ==
    ASSUME NEW S, IsFiniteSet(S), NEW T, T \subseteq SUBSET S, T # {}
    PROVE  \E s \in T : \A t \in T : t \subseteq s => t = s
<1>1. T \subseteq FiniteSubsetsOf(S)
    BY FS_Subset DEF FiniteSubsetsOf
<1>2. PICK s \in T : \A t \in T : <<t, s>> \notin StrictSubsetOrdering(S)
    BY <1>1, FS_StrictSubsetOrderingWellFounded, WFMin
<1>3. \A t \in T : t \subseteq s => t = s
    BY <1>2 DEF StrictSubsetOrdering
<1> QED
    BY <1>3

\* The recursion of the fold has a solution on every finite set.
LEMMA SumsExist ==
    ASSUME NEW S, IsFiniteSet(S)
    PROVE  \E sum : Sums(S, sum)
<1> DEFINE Lacking == {n \in Nat : ~\E sum : SumsUpTo(S, sum, n)}
           next(sum) == [s \in SUBSET S |-> OneMore(sum, s)]
<1>1. \A s \in SUBSET S : IsFiniteSet(s) /\ Cardinality(s) \in Nat
    BY FS_Subset, FS_CardinalityType
<1>2. \A s \in SUBSET S : s # {} =>
         /\ s \ {Chosen(s)} \in SUBSET S
         /\ Cardinality(s \ {Chosen(s)}) = Cardinality(s) - 1
    BY <1>1, ChosenIsIn, FS_RemoveElement
<1>3. ASSUME NEW sum, NEW n \in Nat, SumsUpTo(S, sum, n)
      PROVE  SumsUpTo(S, next(sum), n + 1)
  <2> SUFFICES ASSUME NEW s \in SUBSET S, Cardinality(s) <= n + 1
               PROVE  next(sum)[s] = OneMore(next(sum), s)
    BY DEF SumsUpTo
  <2> DEFINE less == s \ {Chosen(s)}
  <2>1. CASE s = {}
    BY <2>1 DEF OneMore
  <2>2. CASE s # {}
    <3>1. less \in SUBSET S /\ Cardinality(less) <= n
      BY <1>1, <1>2, <2>2
    <3>2. sum[less] = OneMore(sum, less)
      BY <1>3, <3>1 DEF SumsUpTo
    <3>3. next(sum)[less] = sum[less]
      BY <3>1, <3>2
    <3> QED
      BY <2>2, <3>3 DEF OneMore
  <2> QED
    BY <2>1, <2>2
<1>4. SumsUpTo(S, next([s \in SUBSET S |-> 0]), 0)
  <2> SUFFICES ASSUME NEW s \in SUBSET S, Cardinality(s) <= 0
               PROVE  next([t \in SUBSET S |-> 0])[s] = OneMore(next([t \in SUBSET S |-> 0]), s)
    BY DEF SumsUpTo
  <2>1. s = {}
    BY <1>1, FS_EmptySet
  <2> QED
    BY <2>1 DEF OneMore
<1>5. Lacking = {}
  <2> SUFFICES ASSUME Lacking # {} PROVE FALSE
    OBVIOUS
  <2>1. PICK n \in Lacking : \A m \in Lacking : n <= m
    BY SmallestNumber
  <2>2. CASE n = 0
    BY <1>4, <2>2
  <2>3. CASE n # 0
    <3>1. n - 1 \in Nat /\ n - 1 \notin Lacking
      BY <2>1, <2>3
    <3>2. PICK sum : SumsUpTo(S, sum, n - 1)
      BY <3>1
    <3>3. SumsUpTo(S, next(sum), (n - 1) + 1)
      BY <1>3, <3>1, <3>2
    <3>4. (n - 1) + 1 = n
      BY <3>1
    <3> HIDE DEF next
    <3> QED
      BY <3>3, <3>4
  <2> QED
    BY <2>2, <2>3
<1>6. PICK sum : SumsUpTo(S, sum, Cardinality(S))
    BY <1>1, <1>5
<1>7. \A s \in SUBSET S : sum[s] = OneMore(sum, s)
    BY <1>1, <1>6, FS_Subset DEF SumsUpTo
<1>8. \A s \in SUBSET S : OneMore(next(sum), s) = OneMore(sum, s)
    BY <1>2, <1>7 DEF OneMore
<1>9. Sums(S, next(sum))
    BY <1>8 DEF Sums
<1> QED
    BY <1>9

LEMMA IncrementsAreSums ==
    ASSUME NEW E, IsFiniteSet(E)
    PROVE  \E sum : Sums(E, sum) /\ Increments(E) = sum[E]
<1>1. Increments(E) = (CHOOSE sum : Sums(E, sum))[E]
    BY DEF Increments, MapThenSumSet, MapThenFoldSet, Sums, OneMore, Chosen
<1> QED
    BY <1>1, SumsExist

LEMMA SumStep ==
    ASSUME NEW S, NEW sum, Sums(S, sum), NEW s \in SUBSET S
    PROVE  /\ s = {} => sum[s] = 0
           /\ s # {} => /\ Chosen(s) \in s
                        /\ sum[s] = Chosen(s).increment + sum[s \ {Chosen(s)}]
BY ChosenIsIn DEF Sums, OneMore

\* It does not matter in which order the increments are added.
LEMMA SumOfAny ==
    ASSUME NEW S, IsFiniteSet(S), NEW sum, Sums(S, sum), \A e \in S : e.increment \in Nat
    PROVE  \A s \in SUBSET S :
              /\ sum[s] \in Nat
              /\ \A x \in s : sum[s] = x.increment + sum[s \ {x}]
<1> DEFINE Good(s) == /\ sum[s] \in Nat
                      /\ \A x \in s : sum[s] = x.increment + sum[s \ {x}]
           Bad == {s \in SUBSET S : ~Good(s)}
<1> SUFFICES ASSUME Bad # {} PROVE FALSE
    OBVIOUS
<1>0. Bad \subseteq SUBSET S
    OBVIOUS
<1> HIDE DEF Bad
<1>1. PICK s \in Bad : \A t \in Bad : t \subseteq s => t = s
    BY <1>0, SmallestSet
<1>2. s \in SUBSET S /\ ~Good(s)
    BY <1>1 DEF Bad
<1>3. \A x \in s : s \ {x} \in SUBSET S /\ Good(s \ {x})
    BY <1>1, <1>2 DEF Bad
<1> HIDE DEF Good
<1>4. s # {}
  <2> SUFFICES ASSUME s = {} PROVE Good(s)
    BY <1>2
  <2>1. sum[s] = 0
    BY <1>2, SumStep
  <2> QED
    BY <2>1 DEF Good
<1> DEFINE c == Chosen(s)
<1>5. c \in s /\ sum[s] = c.increment + sum[s \ {c}]
    BY <1>2, <1>4, SumStep
<1> HIDE DEF c
<1>6. c.increment \in Nat /\ sum[s \ {c}] \in Nat
    BY <1>2, <1>3, <1>5 DEF Good
<1>7. sum[s] \in Nat
    BY <1>5, <1>6
<1>8. ASSUME NEW x \in s, x # c PROVE sum[s] = x.increment + sum[s \ {x}]
  <2> DEFINE rest == (s \ {c}) \ {x}
  <2>1. /\ rest = (s \ {x}) \ {c} /\ rest \in SUBSET S
        /\ x \in s \ {c} /\ c \in s \ {x} /\ x \in S
    BY <1>2, <1>5, <1>8
  <2>2. sum[s \ {c}] = x.increment + sum[rest]
    BY <1>3, <1>5, <2>1 DEF Good
  <2>3. sum[s \ {x}] = c.increment + sum[rest] /\ sum[s \ {x}] \in Nat
    BY <1>3, <2>1 DEF Good
  <2>4. sum[rest] \in Nat /\ x.increment \in Nat
    <3>1. rest \notin Bad
      BY <1>1, <1>5, <2>1
    <3> HIDE DEF rest
    <3> QED
      BY <2>1, <3>1 DEF Bad, Good
  <2> HIDE DEF rest
  <2> QED
    BY <1>5, <1>6, <2>2, <2>3, <2>4
<1> QED
    BY <1>2, <1>5, <1>7, <1>8 DEF Good

\* The sum of a set is the same in any set it is part of.
LEMMA SumsAgree ==
    ASSUME NEW S, IsFiniteSet(S), NEW T \in SUBSET S,
           NEW f, Sums(S, f), NEW g, Sums(T, g)
    PROVE  \A s \in SUBSET T : f[s] = g[s]
<1> DEFINE Bad == {s \in SUBSET T : f[s] # g[s]}
<1> SUFFICES ASSUME Bad # {} PROVE FALSE
    OBVIOUS
<1>0. Bad \subseteq SUBSET T /\ IsFiniteSet(T)
    BY FS_Subset
<1> HIDE DEF Bad
<1>1. PICK s \in Bad : \A t \in Bad : t \subseteq s => t = s
    BY <1>0, SmallestSet
<1> USE DEF Bad
<1>2. s \in SUBSET S /\ s \in SUBSET T
    OBVIOUS
<1>3. s # {}
    BY <1>1, <1>2, SumStep
<1>4. /\ Chosen(s) \in s
      /\ f[s] = Chosen(s).increment + f[s \ {Chosen(s)}]
      /\ g[s] = Chosen(s).increment + g[s \ {Chosen(s)}]
    BY <1>2, <1>3, SumStep
<1>5. f[s \ {Chosen(s)}] = g[s \ {Chosen(s)}]
    BY <1>1, <1>4
<1> QED
    BY <1>1, <1>4, <1>5

\* What the growth proofs use of Increments.
LEMMA IncrementsGrow ==
    ASSUME NEW E, IsFiniteSet(E), \A e \in E : e.increment \in Nat,
           NEW x, x \notin E, x.increment \in Nat
    PROVE  /\ Increments(E) \in Nat
           /\ Increments(E \cup {x}) = Increments(E) + x.increment
<1> DEFINE F == E \cup {x}
<1>1. IsFiniteSet(F) /\ E \in SUBSET F /\ F \ {x} = E
    BY FS_AddElement
<1>2. PICK f : Sums(F, f) /\ Increments(F) = f[F]
    BY <1>1, IncrementsAreSums
<1>3. PICK g : Sums(E, g) /\ Increments(E) = g[E]
    BY IncrementsAreSums
<1>4. f[E] = g[E]
    BY <1>1, <1>2, <1>3, SumsAgree
<1>5. \A e \in F : e.increment \in Nat
    OBVIOUS
<1>6. x \in F /\ F \in SUBSET F
    OBVIOUS
<1> HIDE DEF F
<1>7. f[F] = x.increment + f[F \ {x}] /\ f[E] \in Nat
    BY <1>1, <1>2, <1>5, <1>6, SumOfAny
<1>8. Increments(F) = Increments(E) + x.increment /\ Increments(E) \in Nat
  <2>1. /\ Increments(F) = x.increment + Increments(E)
        /\ Increments(E) \in Nat
    BY <1>1, <1>2, <1>3, <1>4, <1>7
  <2> QED
    BY <2>1
<1> QED
    BY <1>8 DEF F

LEMMA NothingSums == Increments({}) = 0
<1>1. PICK f : Sums({}, f) /\ Increments({}) = f[{}]
    BY FS_EmptySet, IncrementsAreSums
<1> QED
    BY <1>1, SumStep

-----------------------------------------------------------------------------
(* Books.                                                                   *)

\* What a report past its snapshot can count on while the video stands: its hour has a
\* bucket or it has opened one, and it adds nothing to a bucket it does not hold.
Standing(r) ==
    /\ request[r].opened => video
    /\ video /\ request[r].pc \in {"raise", "record", "commit"} =>
          request[r].opened \/ bucket[HourOf(r)] # None
    /\ request[r].increment > 0 => request[r].locked

EventsOf(h, E) == {e \in E : Hour(e.at) = h}

BooksInv ==
    /\ IsFiniteSet(events)
    /\ BooksAgree
    /\ \A r \in Requests : Standing(r)

\* A step that leaves the rows alone and moves one transaction.
LEMMA OneBooked ==
    ASSUME BooksInv, NEW r \in Requests,
           \A q \in Requests : q # r => request'[q] = request[q],
           UNCHANGED <<clock, rows>>,
           Standing(r)'
    PROVE  BooksInv'
<1>1. UNCHANGED <<video, viewCount, bucket, events>>
    BY DEF rows
<1>2. BooksAgree'
    BY <1>1 DEF BooksInv, BooksAgree
<1>3. ASSUME NEW q \in Requests PROVE Standing(q)'
  <2>1. CASE q # r
    BY <1>1, <2>1 DEF BooksInv, Standing, HourOf
  <2> QED
    BY <2>1
<1> QED
    BY <1>1, <1>2, <1>3 DEF BooksInv

LEMMA EndBooked ==
    ASSUME HourInv, BooksInv, NEW r \in Requests, End(r)
    PROVE  BooksInv'
<1>1. /\ request' = [request EXCEPT ![r] = Idle] /\ UNCHANGED <<clock, rows>>
    BY DEF End
<1>2. /\ request'[r] = Idle
      /\ \A q \in Requests : q # r => request'[q] = request[q]
    BY <1>1 DEF HourInv, TypeOK
<1>3. Standing(r)'
    BY <1>2, IdleFacts DEF Standing
<1> QED
    BY <1>1, <1>2, <1>3, OneBooked

LEMMA ReportBooked ==
    ASSUME HourInv, BooksInv, NEW r \in Requests, NEW v \in Viewers, Report(r, v)
    PROVE  BooksInv'
<1> DEFINE new == [Idle EXCEPT !.pc = "read", !.viewer = v, !.at = clock]
<1>1. /\ request' = [request EXCEPT ![r] = new] /\ UNCHANGED <<clock, rows>>
    BY DEF Report
<1>2. new.pc = "read" /\ new.increment = 0 /\ ~new.opened
    BY IdleFacts DEF RequestState
<1> HIDE DEF new
<1>3. /\ request'[r] = new
      /\ \A q \in Requests : q # r => request'[q] = request[q]
    BY <1>1 DEF HourInv, TypeOK
<1>4. Standing(r)'
    BY <1>2, <1>3 DEF Standing
<1> QED
    BY <1>1, <1>3, <1>4, OneBooked

LEMMA ReadBooked ==
    ASSUME HourInv, BooksInv, NEW r \in Requests, Read(r)
    PROVE  BooksInv'
<1>1. /\ UNCHANGED <<clock, rows>>
      /\ \A q \in Requests : q # r => request'[q] = request[q]
      /\ request'[r].at = request[r].at /\ request'[r].opened = request[r].opened
      /\ request'[r].increment = request[r].increment
      /\ request'[r].locked = request[r].locked
    BY ReadFacts DEF HourInv
<1>2. request'[r].pc = "raise" => bucket[HourOf(r)] # None
  <2>1. request'[r].pc = IF bucket[HourOf(r)] = None THEN "open" ELSE "raise"
    BY DEF Read, HourInv, TypeOK, RequestState
  <2> QED
    BY <2>1
<1>3. request'[r].pc \in {"open", "raise"} /\ video' = video
    BY ReadFacts DEF HourInv, rows
<1>4. HourOf(r)' = HourOf(r) /\ bucket' = bucket
    BY <1>1 DEF HourOf, rows
<1>5. Standing(r)'
    BY <1>1, <1>2, <1>3, <1>4 DEF BooksInv, Standing
<1> QED
    BY <1>1, <1>5, OneBooked

LEMMA MoveBooked ==
    ASSUME HourInv, BooksInv, NEW r \in Requests,
           OpenBucket(r) \/ NothingToRaise(r) \/ Record(r)
    PROVE  BooksInv'
<1>1. /\ UNCHANGED <<clock, rows>>
      /\ \A q \in Requests : q # r => request'[q] = request[q]
      /\ request'[r].at = request[r].at
      /\ request'[r].increment = request[r].increment
      /\ OpenBucket(r) => video /\ request'[r].locked /\ request'[r].opened
      /\ NothingToRaise(r) \/ Record(r) =>
            /\ request'[r].locked = request[r].locked
            /\ request'[r].opened = request[r].opened
            /\ request[r].pc \in {"raise", "record"}
    BY MoveFacts DEF HourInv, At
<1>2. UNCHANGED <<video, bucket>> /\ HourOf(r)' = HourOf(r)
    BY <1>1 DEF rows, HourOf
<1>3. Standing(r)'
    BY <1>1, <1>2 DEF BooksInv, Standing
<1> QED
    BY <1>1, <1>3, OneBooked

LEMMA RaiseBooked ==
    ASSUME HourInv, BooksInv, NEW r \in Requests, NEW increment \in 1..MaxPerEvent,
           Raise(r, increment)
    PROVE  BooksInv'
<1>1. /\ UNCHANGED <<clock, rows>>
      /\ \A q \in Requests : q # r => request'[q] = request[q]
      /\ request'[r].at = request[r].at
      /\ request'[r].opened = request[r].opened
      /\ At(r, "raise")
    BY RaiseFacts DEF HourInv
<1>2. request'[r].increment > 0 => request'[r].locked
  <2> DEFINE total == IF request[r].opened THEN 0 ELSE bucket[HourOf(r)]
             granted == IF total # None /\ total <= MaxPerHour - increment THEN increment ELSE 0
             locked == total # None
  <2>1. request' = [request EXCEPT ![r].pc = "record", ![r].locked = locked,
                                   ![r].increment = granted]
    BY DEF Raise
  <2>2. granted > 0 => locked
    OBVIOUS
  <2> HIDE DEF granted, locked
  <2>3. request'[r].locked = locked /\ request'[r].increment = granted
    BY <2>1 DEF HourInv, TypeOK, RequestState
  <2> QED
    BY <2>2, <2>3
<1>3. UNCHANGED <<video, bucket>> /\ HourOf(r)' = HourOf(r)
    BY <1>1 DEF rows, HourOf
<1>4. Standing(r)'
    BY <1>1, <1>2, <1>3 DEF BooksInv, Standing, At
<1> QED
    BY <1>1, <1>4, OneBooked

\* A commit writes one event that was not there before, into the books of its hour.
LEMMA CommitCounts ==
    ASSUME HourInv, PaceInv, BooksInv, NEW r \in Requests, Commit(r)
    PROVE  /\ video
           /\ IsFiniteSet(events')
           /\ Increments(events') = Increments(events) + request[r].increment
           /\ LET before == EventsOf(HourOf(r), events)
                  after == EventsOf(HourOf(r), events')
              IN  /\ Increments(before) \in Nat
                  /\ Increments(after) = Increments(before) + request[r].increment
           /\ \A h \in Hours : h # HourOf(r) => EventsOf(h, events') = EventsOf(h, events)
<1> DEFINE e0 == Written(r)
           before == EventsOf(HourOf(r), events)
           after == EventsOf(HourOf(r), events')
<1>1. events' = events \cup {e0} /\ e0 \in Events /\ At(r, "commit")
    BY CommitFacts
<1>2. /\ Key(e0) = KeyOf(r) /\ e0.increment = request[r].increment
      /\ Hour(e0.at) = HourOf(r)
    BY DEF Written, Key, KeyOf, HourOf
<1>3. video /\ e0 \notin events
    BY <1>1, <1>2 DEF PaceInv, KeysInv
<1> HIDE DEF e0
<1>4. e0.increment \in Nat /\ \A e \in events : e.increment \in Nat
    BY <1>1, GrowthAssumption DEF HourInv, TypeOK, Events, ValidSettings
<1>5. IsFiniteSet(events) /\ IsFiniteSet(events')
    BY <1>1, FS_AddElement DEF BooksInv
<1>6. Increments(events') = Increments(events) + e0.increment
    BY <1>1, <1>3, <1>4, <1>5, IncrementsGrow
<1>7. /\ after = before \cup {e0} /\ before \subseteq events
      /\ \A h \in Hours : h # HourOf(r) => EventsOf(h, events') = EventsOf(h, events)
    BY <1>1, <1>2 DEF EventsOf
<1>8. IsFiniteSet(before) /\ e0 \notin before /\ \A e \in before : e.increment \in Nat
    BY <1>3, <1>4, <1>5, <1>7, FS_Subset
<1> HIDE DEF before, after
<1>9. /\ Increments(before) \in Nat
      /\ Increments(after) = Increments(before) + e0.increment
    BY <1>4, <1>7, <1>8, IncrementsGrow
<1> QED
    BY <1>2, <1>3, <1>5, <1>6, <1>7, <1>9 DEF before, after

LEMMA CommitBooked ==
    ASSUME HourInv, PaceInv, BooksInv, NEW r \in Requests, Commit(r)
    PROVE  BooksInv'
<1> DEFINE here == HourOf(r)
           total == IF request[r].opened THEN 0 ELSE bucket[here]
           before == EventsOf(here, events)
           after == EventsOf(here, events')
<1>1. /\ bucket' = IF request[r].locked
                   THEN [bucket EXCEPT ![here] = total + request[r].increment] ELSE bucket
      /\ viewCount' = viewCount + request[r].increment
      /\ request' = [request EXCEPT ![r] = Idle]
      /\ UNCHANGED <<clock, video>>
      /\ At(r, "commit") /\ Sound(r) /\ Standing(r)
      /\ request[r].increment \in Nat
    BY GrowthAssumption DEF Commit, HourInv, BooksInv, TypeOK, RequestState, ValidSettings
<1>2. /\ bucket \in [Hours -> Nat \cup {None}] /\ here \in Hours /\ None \notin Nat
      /\ \A q \in Requests : HourOf(q) \in Hours
    BY HourFacts, GrowthAssumption DEF HourInv, TypeOK
<1>3. viewCount' = Increments(events')
    BY <1>1, CommitCounts DEF BooksInv, BooksAgree
<1>4. /\ Increments(before) \in Nat
      /\ Increments(after) = Increments(before) + request[r].increment
    BY CommitCounts
<1>5. IF bucket[here] = None THEN before = {} ELSE bucket[here] = Increments(before)
    BY <1>2 DEF BooksInv, BooksAgree, EventsOf
<1> HIDE DEF before, after
<1>6. bucket'[here] # None /\ bucket'[here] = Increments(after)
  <2>1. CASE request[r].locked /\ request[r].opened
    <3>1. bucket'[here] = request[r].increment
      BY <1>1, <1>2, <2>1
    <3>2. before = {}
      BY <1>1, <1>2, <1>5, <2>1 DEF Sound, Granted
    <3> QED
      BY <1>1, <1>2, <1>4, <3>1, <3>2, NothingSums
  <2>2. CASE request[r].locked /\ ~request[r].opened
    <3>1. bucket[here] \in Nat /\ bucket'[here] = bucket[here] + request[r].increment
      BY <1>1, <1>2, <2>2 DEF Sound, Granted
    <3> QED
      BY <1>1, <1>2, <1>4, <1>5, <3>1
  <2>3. CASE ~request[r].locked
    <3>1. request[r].increment = 0 /\ bucket' = bucket
      BY <1>1, <2>3 DEF Standing
    <3>2. bucket[here] # None
      BY <1>1, <2>3, CommitCounts DEF Standing, Sound, At
    <3> QED
      BY <1>4, <1>5, <3>1, <3>2
  <2> QED
    BY <2>1, <2>2, <2>3
<1>7. \A h \in Hours : h # here => bucket'[h] = bucket[h]
    BY <1>1, <1>2
<1>8. BooksAgree'
  <2> SUFFICES ASSUME NEW h \in Hours
               PROVE  IF bucket'[h] = None THEN EventsOf(h, events') = {}
                      ELSE bucket'[h] = Increments(EventsOf(h, events'))
    BY <1>3 DEF BooksAgree, EventsOf
  <2>1. CASE h = here
    BY <1>6, <2>1 DEF after
  <2>2. CASE h # here
    <3>1. EventsOf(h, events') = EventsOf(h, events)
      BY <2>2, CommitCounts
    <3>2. IF bucket[h] = None THEN EventsOf(h, events) = {}
          ELSE bucket[h] = Increments(EventsOf(h, events))
      BY DEF BooksInv, BooksAgree, EventsOf
    <3> QED
      BY <1>7, <2>2, <3>1, <3>2
  <2> QED
    BY <2>1, <2>2
<1>9. ASSUME NEW q \in Requests PROVE Standing(q)'
  <2>1. CASE q = r
    <3>1. request'[q] = Idle
      BY <1>1, <2>1 DEF HourInv, TypeOK
    <3> QED
      BY <3>1, IdleFacts DEF Standing
  <2>2. CASE q # r
    <3>1. request'[q] = request[q] /\ HourOf(q)' = HourOf(q) /\ Standing(q)
      BY <1>1, <2>2 DEF HourInv, TypeOK, HourOf, BooksInv
    <3>2. bucket[HourOf(q)] # None => bucket'[HourOf(q)] # None
      BY <1>2, <1>6, <1>7
    <3> QED
      BY <1>1, <3>1, <3>2 DEF Standing
  <2> QED
    BY <2>1, <2>2
<1>10. IsFiniteSet(events')
    BY CommitCounts
<1> QED
    BY <1>8, <1>9, <1>10 DEF BooksInv

LEMMA PurgeBooked == HourInv /\ BooksInv /\ Purge => BooksInv'
<1> SUFFICES ASSUME HourInv, BooksInv, Purge PROVE BooksInv'
    OBVIOUS
<1>1. /\ \A r \in Requests : ~request[r].locked
      /\ video' = FALSE /\ viewCount' = 0 /\ events' = {}
      /\ bucket' = [h \in Hours |-> None] /\ UNCHANGED request
    BY DEF Purge
<1>2. \A h \in Hours : {e \in events' : Hour(e.at) = h} = {}
    BY <1>1
<1>3. BooksAgree'
    BY <1>1, <1>2, NothingSums DEF BooksAgree
<1>4. \A r \in Requests : Standing(r)'
    BY <1>1 DEF HourInv, Sound, BooksInv, Standing
<1> QED
    BY <1>1, <1>3, <1>4, FS_EmptySet DEF BooksInv

LEMMA TickBooked == BooksInv /\ (Tick \/ UNCHANGED vars) => BooksInv'
<1> SUFFICES ASSUME BooksInv, Tick \/ UNCHANGED vars PROVE BooksInv'
    OBVIOUS
<1>1. UNCHANGED <<video, viewCount, bucket, events, request>>
    BY DEF Tick, vars, rows
<1> QED
    BY <1>1 DEF BooksInv, BooksAgree, Standing, HourOf

LEMMA BooksInit == Init => BooksInv
<1> SUFFICES ASSUME Init PROVE BooksInv
    OBVIOUS
<1>1. /\ events = {} /\ viewCount = 0 /\ \A r \in Requests : request[r] = Idle
      /\ \A h \in Hours : bucket[h] = None
    BY DEF Init
<1>2. \A h \in Hours : {e \in events : Hour(e.at) = h} = {}
    BY <1>1
<1>3. BooksAgree
    BY <1>1, <1>2, NothingSums DEF BooksAgree
<1>4. \A r \in Requests : Standing(r)
    BY <1>1, IdleFacts DEF Standing
<1> QED
    BY <1>1, <1>3, <1>4, FS_EmptySet DEF BooksInv

LEMMA BooksNext == HourInv /\ PaceInv /\ BooksInv /\ [Next]_vars => BooksInv'
<1> SUFFICES ASSUME HourInv, PaceInv, BooksInv, [Next]_vars PROVE BooksInv'
    OBVIOUS
<1>1. ASSUME NEW r \in Requests, NEW v \in Viewers, Report(r, v) PROVE BooksInv'
    BY <1>1, ReportBooked
<1>2. ASSUME NEW r \in Requests,
             AlreadyCounted(r) \/ BucketTaken(r) \/ EventTaken(r) \/ Abort(r)
      PROVE  BooksInv'
    BY <1>2, EndBooked DEF AlreadyCounted, BucketTaken, EventTaken, Abort
<1>3. ASSUME NEW r \in Requests, Read(r) PROVE BooksInv'
    BY <1>3, ReadBooked
<1>4. ASSUME NEW r \in Requests, OpenBucket(r) \/ NothingToRaise(r) \/ Record(r)
      PROVE  BooksInv'
    BY <1>4, MoveBooked
<1>5. ASSUME NEW r \in Requests, NEW increment \in 1..MaxPerEvent, Raise(r, increment)
      PROVE  BooksInv'
    BY <1>5, RaiseBooked
<1>6. ASSUME NEW r \in Requests, Commit(r) PROVE BooksInv'
    BY <1>6, CommitBooked
<1>7. CASE Purge
    BY <1>7, PurgeBooked
<1>8. CASE Tick \/ UNCHANGED vars
    BY <1>8, TickBooked
<1> QED
    BY <1>1, <1>2, <1>3, <1>4, <1>5, <1>6, <1>7, <1>8 DEF Next

\* The counter of the video is the sum of its events, and every bucket that of the events
\* of its hour: a report that loses a race, aborts or adds nothing leaves no trace in one
\* of them only.
THEOREM BooksStayInAgreement == Spec => []BooksAgree
<1>1. Init => PaceInv /\ BooksInv
    BY PaceInit, BooksInit
<1>2. HourInv /\ PaceInv /\ BooksInv /\ [Next]_vars => (PaceInv /\ BooksInv)'
    BY PaceNext, BooksNext
<1>3. BooksInv => BooksAgree
    BY DEF BooksInv
<1> QED
    BY <1>1, <1>2, <1>3, HourInvariant, PTL DEF Spec

-----------------------------------------------------------------------------
(* Settings.                                                                *)

\* A reader that covers a setting reads every value the validator lets through as the
\* validator did, in either way the program reads an integer again.
THEOREM CoveringReaderKeepsValue ==
    ASSUME NEW setting \in Setting, NEW reader \in Setting, NEW raw,
           Covers(reader, setting), 1 <= setting.min,
           InBounds(setting, setting.default), Accepts(setting, raw)
    PROVE  /\ SecondReading(reader, setting, raw) = Validated(setting, raw)
           /\ ServiceReading(reader, setting, raw) = Validated(setting, raw)
<1> DEFINE value == Validated(setting, raw)
<1>1. InBounds(setting, value)
    BY DEF Accepts, Validated
<1> HIDE DEF value
<1>2. value \in Nat \ {0} /\ reader.min <= value /\ value <= reader.max
    BY <1>1 DEF InBounds, Covers, Setting
<1>3. Clamped(value, reader.min, reader.max) = value
    BY <1>2 DEF Clamped, Larger, Smaller, Setting
<1>4. Parsed(reader, value) = value /\ ReadBounded(reader, value) = value
    BY <1>2, <1>3 DEF Parsed, ReadBounded
<1> QED
    BY <1>4 DEF SecondReading, ServiceReading, value

\* Every reader of the program covers the settings it reads.
LEMMA GrowthIsCovered == Agree(ApiGrowth, GrowthSettings)
BY RawAssumption DEF Agree, ApiGrowth, GrowthSettings, Covers, Positive, Within

\* What the service runs with, of the variable of an environment.
GrowthReading(env, key) == SecondReading(ApiGrowth[key], GrowthSettings[key], env[key])

\* The growth settings of every environment the process starts with are, as the service
\* reads them, such as ViewGrowth assumes of its constants.
THEOREM AcceptedGrowthIsValid ==
    ASSUME NEW env, GrowthAccepted(env),
           MaxPerEvent = GrowthReading(env, "VIDEO_VIEW_MAX_INCREMENT_PER_EVENT"),
           MaxPerHour = GrowthReading(env, "VIDEO_VIEW_MAX_INCREMENT_PER_VIDEO_HOUR"),
           WindowLength = GrowthReading(env, "VIDEO_VIEW_DEDUPE_WINDOW_MINUTES"),
           RandomMin = GrowthReading(env, "VIDEO_VIEW_RANDOM_MIN_INCREMENT")
    PROVE  ValidSettings
<1> DEFINE keys == DOMAIN GrowthSettings
<1>1. /\ "VIDEO_VIEW_MAX_INCREMENT_PER_EVENT" \in keys
      /\ "VIDEO_VIEW_MAX_INCREMENT_PER_VIDEO_HOUR" \in keys
      /\ "VIDEO_VIEW_DEDUPE_WINDOW_MINUTES" \in keys
      /\ "VIDEO_VIEW_RANDOM_MIN_INCREMENT" \in keys
    BY DEF GrowthSettings
<1>2. ASSUME NEW key \in keys
      PROVE  /\ GrowthReading(env, key) = GrowthValue(env, key)
             /\ GrowthValue(env, key) \in Nat \ {0}
  <2> DEFINE setting == GrowthSettings[key]
             reader == ApiGrowth[key]
  <2>1. /\ setting \in Setting /\ reader \in Setting
        /\ 1 <= setting.min /\ InBounds(setting, setting.default)
        /\ key \in DOMAIN ApiGrowth
    BY RawAssumption DEF GrowthSettings, ApiGrowth, Positive, Within, Setting, InBounds
  <2>2. Covers(reader, setting)
    BY <2>1, GrowthIsCovered DEF Agree
  <2>3. Accepts(setting, env[key])
    BY DEF GrowthAccepted, AllAccepted
  <2> HIDE DEF setting, reader
  <2>4. SecondReading(reader, setting, env[key]) = Validated(setting, env[key])
    BY <2>1, <2>2, <2>3, CoveringReaderKeepsValue
  <2>5. Validated(setting, env[key]) \in Nat \ {0}
    BY <2>1, <2>3 DEF Accepts, Validated, InBounds, Setting
  <2> QED
    BY <2>4, <2>5 DEF GrowthReading, GrowthValue, setting, reader
<1>3. GrowthValue(env, "VIDEO_VIEW_RANDOM_MIN_INCREMENT")
          <= GrowthValue(env, "VIDEO_VIEW_MAX_INCREMENT_PER_EVENT")
    BY DEF GrowthAccepted
<1> HIDE DEF keys
<1> QED
    BY <1>1, <1>2, <1>3 DEF ValidSettings

\* validateEnv and every reader after it agree on the bounds and on the default.
THEOREM AllReadersAgree == ReadersAgree
<1> USE RawAssumption DEF Agree, Covers, Positive, Within
<1>1. /\ Agree(ApiServer, ServerSettings) /\ Agree(ApiServer, OriginSettings)
      /\ Agree(ApiServer, ProxySettings) /\ Agree(ApiServer, AdminSettings)
    BY DEF ApiServer, ServerSettings, OriginSettings, ProxySettings, AdminSettings
<1>2. Agree(ApiCache, CacheSettings) /\ Agree(CacheService, CacheSettings)
    BY DEF ApiCache, CacheSettings, CacheService
<1>3. Agree(ApiThrottles, ThrottleSettings)
    BY DEF ApiThrottles, ThrottleSettings
<1>4. Agree(ApiGrowth, GrowthSettings)
    BY GrowthIsCovered
<1>5. Agree(ApiDatabase, DatabaseSettings)
    BY DEF ApiDatabase, DatabaseSettings
<1>6. Agree(ApiLocal, LocalSettings)
    BY DEF ApiLocal, LocalSettings
<1>7. /\ Agree(ApiBunny, BunnySettings) /\ Agree(BunnyStream, BunnySettings)
      /\ Agree(ApiBunny, ThumbnailSettings) /\ Agree(BunnyThumbnails, ThumbnailSettings)
    BY DEF ApiBunny, BunnySettings, BunnyStream, ThumbnailSettings, BunnyThumbnails
<1>8. Agree(MediaGrants, GrantSettings) /\ Agree(ReviewResume, GrantSettings)
    BY DEF MediaGrants, GrantSettings, ReviewResume
<1>9. Agree(AdminTokens, AdminSettings) /\ Agree(MetadataProbe, ProbeSettings)
    BY DEF AdminTokens, AdminSettings, MetadataProbe, ProbeSettings
<1>10. Agree(ThumbnailFiles, UploadSettings) /\ Agree(DatabaseFiles, UploadSettings)
    BY DEF ThumbnailFiles, UploadSettings, DatabaseFiles
<1> QED
    BY <1>1, <1>2, <1>3, <1>4, <1>5, <1>6, <1>7, <1>8, <1>9, <1>10 DEF ReadersAgree
=============================================================================
