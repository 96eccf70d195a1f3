----------------------------- MODULE ViewGrowth ------------------------------
(***************************************************************************)
(* The public view counter of one video: concurrent reports of playback,   *)
(* each one a transaction that reads a snapshot, opens or raises the       *)
(* hour's bucket, records the viewer's event and adds the increment to the *)
(* video.  Reads see the snapshot of the transaction's first query,        *)
(* conditional updates and unique keys see the latest committed rows, and  *)
(* a row written by one transaction keeps the others waiting until it      *)
(* ends (REPEATABLE READ).                                                 *)
(***************************************************************************)
EXTENDS Integers, FiniteSetsExt

CONSTANTS
    Viewers,       \* what buildViewerHash tells apart
    Requests,      \* reports that may be in flight
    HourLength,    \* minutes of a bucket
    WindowLength,  \* dedupeWindowMinutes
    MaxClock,      \* bound: the last minute of the model
    MaxPerEvent,   \* maxIncrementPerEvent
    MaxPerHour,    \* maxIncrementPerVideoHour
    RandomMin,     \* randomMinIncrement
    Pace,          \* computeTimeBasedMaxIncrement: within so long at most so many
    None

\* validateEnvironment refuses other settings.
ValidSettings ==
    /\ MaxPerEvent \in Nat \ {0}
    /\ MaxPerHour \in Nat \ {0}
    /\ RandomMin \in 1..MaxPerEvent
    /\ WindowLength \in Nat \ {0}

ASSUME GrowthAssumption ==
    /\ ValidSettings
    /\ HourLength \in Nat \ {0}
    /\ MaxClock \in Nat
    /\ Pace \in [1..3 -> [within : Nat, most : Nat]]
    /\ \A i, j \in 1..3 : i < j => Pace[i].within <= Pace[j].within
                                /\ Pace[i].most <= Pace[j].most
    /\ None \notin Nat

Minutes == 0..MaxClock
Hour(t) == t \div HourLength
Window(t) == t \div WindowLength
Hours == {Hour(t) : t \in Minutes}
Windows == {Window(t) : t \in Minutes}

\* The unique key of an event.
EventKeys == Viewers \X Windows

\* after: history, the counted events that the snapshot of this one contained.
Events == [viewer : Viewers, window : Windows, at : Minutes,
           increment : 0..MaxPerEvent, after : SUBSET EventKeys]

Key(e) == <<e.viewer, e.window>>
Counted(E) == {e \in E : e.increment > 0}

VARIABLES
    clock,      \* minutes
    video,      \* the VideoAsset exists
    viewCount,  \* VideoAsset.viewCount, from what it was at the start
    bucket,     \* VideoViewGrowthBucket.incrementTotal of each hour, or None
    events,     \* VideoViewGrowthEvent
    request     \* the transactions in flight

vars == <<clock, video, viewCount, bucket, events, request>>
rows == <<video, viewCount, bucket, events>>

RequestState ==
    [pc : {"idle", "read", "open", "raise", "record", "commit"},
     viewer : Viewers \cup {None}, at : Minutes,
     most : 0..MaxPerEvent,        \* maxIncrement
     increment : 0..MaxPerEvent,   \* what the bucket granted
     opened : BOOLEAN,             \* inserted the hour's bucket
     locked : BOOLEAN,             \* holds the hour's bucket
     after : SUBSET EventKeys]

Idle == [pc |-> "idle", viewer |-> None, at |-> 0, most |-> 0, increment |-> 0,
         opened |-> FALSE, locked |-> FALSE, after |-> {}]

TypeOK ==
    /\ clock \in Minutes
    /\ video \in BOOLEAN
    /\ viewCount \in Nat
    /\ bucket \in [Hours -> Nat \cup {None}]
    /\ events \subseteq Events
    /\ request \in [Requests -> RequestState]

Init ==
    /\ clock = 0
    /\ video = TRUE
    /\ viewCount = 0
    /\ bucket = [h \in Hours |-> None]
    /\ events = {}
    /\ request = [r \in Requests |-> Idle]

-----------------------------------------------------------------------------

Lesser(a, b) == IF a <= b THEN a ELSE b

\* An event younger than so many minutes: the latest one is, if any is.
Recent(E, at, minutes) == \E e \in E : at - e.at < minutes

\* Mutant: the widest limit is looked at first.
TimeBasedMaxWidestFirst(E, at) ==
    IF Recent(E, at, Pace[3].within) THEN Lesser(MaxPerEvent, Pace[3].most) ELSE MaxPerEvent

TimeBasedMax(E, at) ==
    IF Recent(E, at, Pace[1].within) THEN Lesser(MaxPerEvent, Pace[1].most)
    ELSE IF Recent(E, at, Pace[2].within) THEN Lesser(MaxPerEvent, Pace[2].most)
    ELSE IF Recent(E, at, Pace[3].within) THEN Lesser(MaxPerEvent, Pace[3].most)
    ELSE MaxPerEvent

\* What randomInt may return.
Picks(max) == IF max = 0 THEN {0} ELSE Lesser(RandomMin, max)..max

At(r, step) == request[r].pc = step
HourOf(r) == Hour(request[r].at)
KeyOf(r) == <<request[r].viewer, Window(request[r].at)>>
BucketIsFree(r) == \A q \in Requests \ {r} : ~(request[q].locked /\ HourOf(q) = HourOf(r))
\* A row that refers to the video shares the video's row until its transaction ends.
SharesVideo(q) == request[q].opened \/ At(q, "commit")

\* The transaction ends without a trace: rolled back, or it had nothing to write.
End(r) == request' = [request EXCEPT ![r] = Idle] /\ UNCHANGED <<clock, rows>>

\* The report was authorized and takes its time.
Report(r, v) ==
    /\ At(r, "idle")
    /\ video
    /\ request' = [request EXCEPT ![r] = [Idle EXCEPT !.pc = "read", !.viewer = v, !.at = clock]]
    /\ UNCHANGED <<clock, rows>>

\* The viewer was counted in this window: only the counter is read.
AlreadyCounted(r) ==
    /\ At(r, "read")
    /\ \E e \in events : Key(e) = KeyOf(r)
    /\ End(r)

\* The snapshot: no event of the viewer, the latest counted event, the bucket.
Read(r) ==
    LET total == bucket[HourOf(r)]
        room == IF total = None THEN MaxPerHour ELSE IF total > MaxPerHour THEN 0 ELSE MaxPerHour - total
    IN  /\ At(r, "read")
        /\ \A e \in events : Key(e) # KeyOf(r)
        /\ request' = [request EXCEPT
              ![r].pc = IF total = None THEN "open" ELSE "raise",
              ![r].most = Lesser(Lesser(MaxPerEvent, room),
                                 TimeBasedMax(Counted(events), request[r].at)),
              ![r].after = {Key(e) : e \in Counted(events)}]
        /\ UNCHANGED <<clock, rows>>

\* The upsert found no bucket in the snapshot and inserts one.
OpenBucket(r) ==
    /\ At(r, "open")
    /\ BucketIsFree(r)
    /\ video
    /\ bucket[HourOf(r)] = None
    /\ request' = [request EXCEPT ![r].pc = "raise", ![r].opened = TRUE, ![r].locked = TRUE]
    /\ UNCHANGED <<clock, rows>>

\* Another report opened it since (P2002): this one ends as if it had been counted.
BucketTaken(r) ==
    /\ At(r, "open")
    /\ BucketIsFree(r)
    /\ bucket[HourOf(r)] # None
    /\ End(r)

\* No budget, no update.
NothingToRaise(r) ==
    /\ At(r, "raise")
    /\ request[r].most = 0
    /\ request' = [request EXCEPT ![r].pc = "record"]
    /\ UNCHANGED <<clock, rows>>

\* Mutant: the update of the bucket has no condition.
RaiseAlways(r, increment) ==
    /\ At(r, "raise")
    /\ increment \in Picks(request[r].most)
    /\ increment > 0
    /\ BucketIsFree(r)
    /\ bucket[HourOf(r)] # None \/ request[r].opened
    /\ request' = [request EXCEPT ![r].pc = "record", ![r].locked = TRUE,
                                  ![r].increment = increment]
    /\ UNCHANGED <<clock, rows>>

\* The conditional update against the latest bucket; no row updated, no increment.
Raise(r, increment) ==
    LET total == IF request[r].opened THEN 0 ELSE bucket[HourOf(r)]
        grants == total # None /\ total <= MaxPerHour - increment
    IN  /\ At(r, "raise")
        /\ request[r].most > 0
        /\ increment \in Picks(request[r].most)
        /\ BucketIsFree(r)
        /\ request' = [request EXCEPT ![r].pc = "record",
                                      ![r].locked = total # None,
                                      ![r].increment = IF grants THEN increment ELSE 0]
        /\ UNCHANGED <<clock, rows>>

KeyIsFree(r) == \A q \in Requests \ {r} : ~(At(q, "commit") /\ KeyOf(q) = KeyOf(r))

\* The event is inserted.
Record(r) ==
    /\ At(r, "record")
    /\ KeyIsFree(r)
    /\ video
    /\ \A e \in events : Key(e) # KeyOf(r)
    /\ request' = [request EXCEPT ![r].pc = "commit"]
    /\ UNCHANGED <<clock, rows>>

\* Mutant: the refusal of the event does not roll the bucket back.
EventTakenKeepsBucket(r) ==
    /\ At(r, "record")
    /\ KeyIsFree(r)
    /\ \E e \in events : Key(e) = KeyOf(r)
    /\ bucket' = IF request[r].locked /\ bucket[HourOf(r)] # None
                 THEN [bucket EXCEPT ![HourOf(r)] = @ + request[r].increment]
                 ELSE bucket
    /\ request' = [request EXCEPT ![r] = Idle]
    /\ UNCHANGED <<clock, video, viewCount, events>>

\* The same viewer's other report was first (P2002): the bucket is rolled back as well.
EventTaken(r) ==
    /\ At(r, "record")
    /\ KeyIsFree(r)
    /\ \E e \in events : Key(e) = KeyOf(r)
    /\ End(r)

\* The increment is added to the video, whose row no other transaction may share, and
\* everything is committed.
Commit(r) ==
    LET me == request[r]
        total == IF me.opened THEN 0 ELSE bucket[HourOf(r)]
    IN  /\ At(r, "commit")
        /\ me.increment > 0 => \A q \in Requests \ {r} : ~SharesVideo(q)
        /\ events' = events \cup {[viewer |-> me.viewer, window |-> Window(me.at), at |-> me.at,
                                   increment |-> me.increment, after |-> me.after]}
        /\ bucket' = IF me.locked
                     THEN [bucket EXCEPT ![HourOf(r)] = total + me.increment]
                     ELSE bucket
        /\ viewCount' = viewCount + me.increment
        /\ request' = [request EXCEPT ![r] = Idle]
        /\ UNCHANGED <<clock, video>>

\* A deadlock, a timeout, a missing video or a lost connection: rolled back, rethrown.
Abort(r) ==
    /\ ~At(r, "idle")
    /\ End(r)

\* The video is purged with its buckets and events; whoever wrote one keeps it waiting.
Purge ==
    /\ video
    /\ \A r \in Requests : ~request[r].locked /\ ~SharesVideo(r)
    /\ video' = FALSE
    /\ viewCount' = 0
    /\ bucket' = [h \in Hours |-> None]
    /\ events' = {}
    /\ UNCHANGED <<clock, request>>

Tick ==
    /\ clock < MaxClock
    /\ clock' = clock + 1
    /\ UNCHANGED <<rows, request>>

Next ==
    \/ \E r \in Requests :
          \/ \E v \in Viewers : Report(r, v)
          \/ AlreadyCounted(r)
          \/ Read(r)
          \/ OpenBucket(r)
          \/ BucketTaken(r)
          \/ NothingToRaise(r)
          \/ \E increment \in 1..MaxPerEvent : Raise(r, increment)
          \/ Record(r)
          \/ EventTaken(r)
          \/ Commit(r)
          \/ Abort(r)
    \/ Purge
    \/ Tick

Spec == Init /\ [][Next]_vars

-----------------------------------------------------------------------------

\* No hour grows past its cap, however many reports read the same bucket before one of
\* them raised it.
HourIsCapped == \A h \in Hours : bucket[h] # None => bucket[h] <= MaxPerHour

Increments(E) == MapThenSumSet(LAMBDA e : e.increment, E)

\* The video's counter, the buckets and the events tell the same story: a report that
\* loses a race for the bucket or for its event leaves nothing in any of them.
BooksAgree ==
    /\ viewCount = Increments(events)
    /\ \A h \in Hours :
          LET mine == {e \in events : Hour(e.at) = h}
          IN  IF bucket[h] = None THEN mine = {} ELSE bucket[h] = Increments(mine)

\* Growth keeps its pace: a report that started after an event had been counted grows
\* by no more than is allowed so soon after it.
PaceIsKept ==
    \A e, f \in events, i \in 1..3 :
        (Key(f) \in e.after /\ e.at - f.at < Pace[i].within) => e.increment <= Pace[i].most
=============================================================================
