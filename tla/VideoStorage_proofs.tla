------------------------- MODULE VideoStorage_proofs --------------------------
(* Theorems about VideoStorage, for any number of videos, of things stored    *)
(* and of requests.  The invariant is stated over rows R, what is stored S    *)
(* and the history F, so that a lemma can speak of the state before a step    *)
(* and of the one after it.                                                   *)
EXTENDS VideoStorage, TLAPS

Has(R, v, a) == R[v] # None /\ a \in {R[v].asset, R[v].thumb}
NamedIn(R, a) == \E v \in Videos : Has(R, v, a)

\* purgeVideo may have deleted the remote asset of such a row.
Spent(r) == r.disabled \/ r.restored

\* What a request has stored and put in no row yet.
Carries(me) == (IF me.pc \in {"thumb", "insert"} THEN {me.asset, me.thumb}
                ELSE IF me.pc \in {"replace", "swap"} THEN {me.thumb} ELSE {}) \ {None}

Shape(me) ==
    /\ me.pc # "sweep" => me.doomed = {}
    /\ me.pc \notin {"insert", "swap"} => me.thumb = None
    /\ me.pc = "thumb" => me.source # "bunny"
    /\ me.pc \in {"thumb", "insert"} =>
          /\ me.source = "bunny" => me.asset \in Assets /\ me.thumb = None
          /\ me.source = "plain" => me.asset = None
          /\ me.asset # None => me.asset # me.thumb
    /\ me.pc \in {"replace", "swap", "remote", "commit"} => me.video \in Videos
    /\ me.pc = "swap" /\ me.old # None => me.old # me.thumb
    /\ me.pc = "remote" => me.asset \in Assets

\* What a request has in hand agrees with the rows, although others have written since.
RequestSound(me, R, S, F) ==
    /\ Shape(me)
    /\ \A a \in Carries(me) : a \in S /\ F[a] = None /\ ~NamedIn(R, a)
    /\ \A a \in me.doomed : NamedIn(R, a) => F[a] \in Losses
    /\ me.pc \in {"replace", "swap"} =>
          /\ R[me.video] # None => R[me.video].source # "bunny"
          /\ me.old # None => \A w \in Videos : Has(R, w, me.old) => w = me.video /\ R[w].asset # me.old
    /\ me.pc = "remote" =>
          /\ \A w \in Videos : R[w] # None /\ R[w].asset = me.asset => Spent(R[w])
          /\ R[me.video] # None /\ R[me.video].source = "bunny" => R[me.video].asset = me.asset
    /\ me.pc = "commit" /\ me.asked /\ R[me.video] # None /\ R[me.video].source = "bunny" =>
          R[me.video].asset \notin S

RowSound(r, F) ==
    /\ r.source = "bunny" => r.asset \in Assets /\ r.thumb = None
    /\ r.source = "plain" => r.asset = None
    /\ r.asset # None => r.asset # r.thumb
    /\ r.source = "bunny" /\ F[r.asset] = "purged" => Spent(r)

RowsSound(R, S, F) ==
    /\ \A v \in Videos : R[v] # None => RowSound(R[v], F)
    /\ \A v, w \in Videos, a \in Assets : Has(R, v, a) /\ Has(R, w, a) => v = w
    /\ \A a \in Assets : NamedIn(R, a) => (a \in S \/ F[a] \in Losses) /\ F[a] \notin Strays

\* What is in no row is not stored and has no history, or is in somebody's hands, or its
\* history says why it is still there.
AssetSound(a, R, S, F, held) ==
    /\ F[a] = "purged" => NamedIn(R, a) /\ a \notin S
    /\ ~NamedIn(R, a) /\ a \notin S => F[a] = None
    /\ ~NamedIn(R, a) /\ a \in S => F[a] \in Strays \/ held

HeldBy(Q, a) == \E r \in Requests : a \in Holds(Q[r])

\* No two requests have stored the same, and none touches what another one has stored.
Apart(me, you) == \A a \in Carries(me) : a \notin Mentions(you)

IInv ==
    /\ TypeOK
    /\ \A r \in Requests : RequestSound(request[r], row, stored, fate)
    /\ \A q, r \in Requests : q # r => Apart(request[q], request[r])
    /\ RowsSound(row, stored, fate)
    /\ \A a \in Assets : AssetSound(a, row, stored, fate, HeldBy(request, a))

-----------------------------------------------------------------------------
(* A step, as the other requests see it.                                    *)

\* Rows keep what they name, lose it, or take something that this request never saw.
WorldMoves(me, R, S, R2, S2) ==
    /\ \A v \in Videos : R2[v] # None =>
          \/ /\ R[v] # None
             /\ R2[v].source \in {R[v].source, "plain"}
             /\ R2[v].source = R[v].source => R2[v].asset = R[v].asset
             /\ R2[v].asset \in {R[v].asset, None}
             /\ R2[v].thumb \in {R[v].thumb, None} \/ R2[v].thumb \notin Mentions(me)
             /\ Spent(R[v]) => Spent(R2[v])
          \/ /\ R[v] = None
             /\ v # me.video
             /\ R2[v].asset = None \/ R2[v].asset \notin Mentions(me)
             /\ R2[v].thumb = None \/ R2[v].thumb \notin Mentions(me)
    /\ \A v \in Videos : R[v] # None /\ R[v].source = "bunny" /\ R[v].asset \notin S =>
          R[v].asset \notin S2

LEMMA NoneIsApart ==
    /\ None \notin Videos /\ None \notin Assets /\ None \notin Row
    /\ None \notin Strays /\ None \notin Losses
BY StorageAssumption

LEMMA StraysAndLosses == \A why \in Losses : why \notin Strays
BY DEF Strays, Losses

LEMMA CarriesMentioned ==
    ASSUME NEW me \in RequestState
    PROVE  /\ Carries(me) \subseteq Assets /\ Carries(me) \subseteq Mentions(me)
           /\ me.doomed \subseteq Assets /\ me.doomed \subseteq Mentions(me)
           /\ me.old \in Mentions(me) /\ me.asset \in Mentions(me)
BY DEF RequestState, Carries, Mentions

LEMMA HoldsIs ==
    ASSUME NEW me \in RequestState, Shape(me)
    PROVE  Holds(me) = me.doomed \cup Carries(me)
<1>1. None \notin me.doomed
    BY NoneIsApart DEF RequestState
<1> QED
    BY <1>1 DEF Shape, Holds, Carries, RequestState, Steps

LEMMA NamedBefore ==
    ASSUME NEW me \in RequestState, NEW R, NEW S, NEW R2, NEW S2, WorldMoves(me, R, S, R2, S2),
           NEW a \in Assets, a \in Mentions(me), NEW w \in Videos, Has(R2, w, a)
    PROVE  /\ Has(R, w, a)
           /\ R2[w].asset = a => R[w].asset = a
BY NoneIsApart DEF WorldMoves, Has

LEMMA OtherKept ==
    ASSUME NEW me \in RequestState, NEW R, NEW S, NEW F, NEW R2, NEW S2, NEW F2,
           RequestSound(me, R, S, F), WorldMoves(me, R, S, R2, S2),
           \A a \in Carries(me) : a \in S2 /\ F2[a] = None,
           \A a \in me.doomed : F[a] \in Losses /\ NamedIn(R2, a) => F2[a] \in Losses
    PROVE  RequestSound(me, R2, S2, F2)
<1>1. Shape(me)
    BY DEF RequestSound
<1>2. \A a \in Assets : a \in Mentions(me) /\ NamedIn(R2, a) => NamedIn(R, a)
    BY NamedBefore DEF NamedIn
<1>3. \A a \in Carries(me) : a \in S2 /\ F2[a] = None /\ ~NamedIn(R2, a)
    BY <1>2, CarriesMentioned DEF RequestSound
<1>4. \A a \in me.doomed : NamedIn(R2, a) => F2[a] \in Losses
    BY <1>2, CarriesMentioned DEF RequestSound
<1>5. ASSUME me.pc \in {"replace", "swap"}
      PROVE  /\ R2[me.video] # None => R2[me.video].source # "bunny"
             /\ me.old # None => \A w \in Videos : Has(R2, w, me.old) => w = me.video /\ R2[w].asset # me.old
  <2>1. me.video \in Videos
    BY <1>1, <1>5 DEF Shape
  <2>2. R2[me.video] # None => R2[me.video].source # "bunny"
    BY <1>5, <2>1 DEF WorldMoves, RequestSound
  <2>3. ASSUME me.old # None, NEW w \in Videos, Has(R2, w, me.old)
        PROVE  w = me.video /\ R2[w].asset # me.old
    <3>1. me.old \in Assets /\ me.old \in Mentions(me)
      BY <2>3, CarriesMentioned DEF RequestState
    <3>2. Has(R, w, me.old) /\ (R2[w].asset = me.old => R[w].asset = me.old)
      BY <2>3, <3>1, NamedBefore
    <3> QED
      BY <1>5, <2>3, <3>2 DEF RequestSound
  <2> QED
    BY <2>2, <2>3
<1>6. ASSUME me.pc = "remote"
      PROVE  /\ \A w \in Videos : R2[w] # None /\ R2[w].asset = me.asset => Spent(R2[w])
             /\ R2[me.video] # None /\ R2[me.video].source = "bunny" => R2[me.video].asset = me.asset
  <2>1. me.video \in Videos /\ me.asset \in Assets /\ me.asset \in Mentions(me)
    BY <1>1, <1>6, CarriesMentioned DEF Shape
  <2>2. ASSUME NEW w \in Videos, R2[w] # None, R2[w].asset = me.asset PROVE Spent(R2[w])
    <3>1. R[w] # None /\ R[w].asset = me.asset /\ (Spent(R[w]) => Spent(R2[w]))
      BY <2>1, <2>2, NoneIsApart DEF WorldMoves
    <3> QED
      BY <1>6, <3>1 DEF RequestSound
  <2>3. ASSUME R2[me.video] # None, R2[me.video].source = "bunny" PROVE R2[me.video].asset = me.asset
    <3>1. /\ R[me.video] # None /\ R[me.video].source = "bunny"
          /\ R2[me.video].asset = R[me.video].asset
      BY <2>1, <2>3 DEF WorldMoves
    <3> QED
      BY <1>6, <3>1 DEF RequestSound
  <2> QED
    BY <2>2, <2>3
<1>7. ASSUME me.pc = "commit", me.asked, R2[me.video] # None, R2[me.video].source = "bunny"
      PROVE  R2[me.video].asset \notin S2
  <2>1. me.video \in Videos
    BY <1>1, <1>7 DEF Shape
  <2>2. /\ R[me.video] # None /\ R[me.video].source = "bunny"
        /\ R2[me.video].asset = R[me.video].asset
    BY <1>7, <2>1 DEF WorldMoves
  <2>3. R[me.video].asset \notin S
    BY <1>7, <2>2, Zenon DEF RequestSound
  <2> QED
    BY <2>1, <2>2, <2>3 DEF WorldMoves
<1> QED
    BY <1>1, <1>3, <1>4, <1>5, <1>6, <1>7, Zenon DEF RequestSound

\* A step of one request.
LEMMA StepKeeps ==
    ASSUME IInv, NEW r \in Requests, NEW state \in RequestState,
           request' = [request EXCEPT ![r] = state],
           row' \in [Videos -> Row \cup {None}], stored' \in SUBSET Assets,
           fate' \in [Assets -> Strays \cup Losses \cup {None}],
           RequestSound(state, row', stored', fate'),
           \A q \in Requests \ {r} : RequestSound(request[q], row', stored', fate'),
           \A q \in Requests \ {r} : Apart(state, request[q]) /\ Apart(request[q], state),
           RowsSound(row', stored', fate'),
           \A a \in Assets : AssetSound(a, row', stored', fate',
               a \in Holds(state) \/ \E q \in Requests \ {r} : a \in Holds(request[q]))
    PROVE  IInv'
<1>1. /\ request \in [Requests -> RequestState]
      /\ request' \in [Requests -> RequestState] /\ request'[r] = state
      /\ \A q \in Requests \ {r} : request'[q] = request[q]
    BY DEF IInv, TypeOK
<1>2. TypeOK'
    BY <1>1 DEF TypeOK
<1>3. \A q \in Requests : RequestSound(request'[q], row', stored', fate')
    BY <1>1
<1>4. \A p, q \in Requests : p # q => Apart(request'[p], request'[q])
  <2> SUFFICES ASSUME NEW p \in Requests, NEW q \in Requests, p # q
               PROVE  Apart(request'[p], request'[q])
    OBVIOUS
  <2>1. CASE p = r
    BY <1>1, <2>1
  <2>2. CASE q = r
    BY <1>1, <2>2
  <2>3. CASE p # r /\ q # r
    BY <1>1, <2>3 DEF IInv
  <2> QED
    BY <2>1, <2>2, <2>3
<1>5. ASSUME NEW a \in Assets PROVE AssetSound(a, row', stored', fate', HeldBy(request', a))
  <2>1. (a \in Holds(state) \/ \E q \in Requests \ {r} : a \in Holds(request[q]))
            => HeldBy(request', a)
    BY <1>1 DEF HeldBy
  <2> QED
    BY <2>1 DEF AssetSound
<1> QED
    BY <1>2, <1>3, <1>4, <1>5 DEF IInv

-----------------------------------------------------------------------------
(* Requests that end, or go on to delete.                                   *)

LEMMA IdleFacts ==
    /\ Idle \in RequestState /\ Idle.pc = "idle" /\ Idle.source = "plain" /\ Idle.video = None
    /\ Idle.asset = None /\ Idle.thumb = None /\ Idle.old = None /\ ~Idle.asked /\ Idle.doomed = {}
BY DEF Idle, RequestState, Steps, Sources

LEMMA IdleSound ==
    ASSUME NEW R, NEW S, NEW F
    PROVE  RequestSound(Idle, R, S, F) /\ Holds(Idle) = {} /\ Carries(Idle) = {} /\ Mentions(Idle) = {None}
<1>1. Carries(Idle) = {}
    BY IdleFacts DEF Carries
<1>2. Shape(Idle)
    BY IdleFacts DEF Shape
<1>3. RequestSound(Idle, R, S, F)
    BY <1>1, <1>2, IdleFacts DEF RequestSound
<1>4. Holds(Idle) = {}
    BY IdleFacts DEF Holds
<1>5. Mentions(Idle) = {None}
    BY IdleFacts DEF Mentions
<1> QED
    BY <1>1, <1>3, <1>4, <1>5

LEMMA SweepingFacts ==
    ASSUME NEW D, D \subseteq Assets \cup {None}
    PROVE  /\ Sweeping(D) \in RequestState
           /\ Sweeping(D).pc \in {"idle", "sweep"} /\ Shape(Sweeping(D))
           /\ Sweeping(D).doomed = D \ {None}
           /\ Carries(Sweeping(D)) = {} /\ Holds(Sweeping(D)) = D \ {None}
           /\ \A a \in Assets : a \in Mentions(Sweeping(D)) => a \in D
<1>1. CASE D \ {None} = {}
  <2>1. Sweeping(D) = Idle
    BY <1>1 DEF Sweeping
  <2>2. Shape(Idle) /\ Holds(Idle) = {} /\ Carries(Idle) = {} /\ Mentions(Idle) = {None}
    BY IdleSound DEF RequestSound
  <2> QED
    BY <1>1, <2>1, <2>2, IdleFacts, NoneIsApart
<1>2. CASE D \ {None} # {}
  <2> DEFINE d == D \ {None}
             state == [Idle EXCEPT !.pc = "sweep", !.doomed = d]
  <2>1. Sweeping(D) = state /\ d \in SUBSET Assets
    BY <1>2 DEF Sweeping
  <2> HIDE DEF d
  <2>2. /\ state \in RequestState /\ state.pc = "sweep" /\ state.doomed = d
        /\ state.asset = None /\ state.thumb = None /\ state.old = None
    BY <2>1, IdleFacts DEF RequestState, Steps
  <2> HIDE DEF state
  <2>3. Shape(state) /\ Carries(state) = {}
    BY <2>2 DEF Shape, Carries
  <2>4. Holds(state) = d
    BY <2>1, <2>2, <2>3, HoldsIs
  <2>5. \A a \in Assets : a \in Mentions(state) => a \in d
    BY <2>2, NoneIsApart DEF Mentions
  <2> QED
    BY <2>1, <2>2, <2>3, <2>4, <2>5 DEF d
<1> QED
    BY <1>1, <1>2

LEMMA SweepingSound ==
    ASSUME NEW D, D \subseteq Assets \cup {None}, NEW R, NEW S, NEW F,
           \A a \in D \ {None} : NamedIn(R, a) => F[a] \in Losses
    PROVE  RequestSound(Sweeping(D), R, S, F)
BY SweepingFacts DEF RequestSound

\* Nothing but the request itself changes.
LEMMA LearnsKeeps ==
    ASSUME IInv, NEW r \in Requests, NEW state \in RequestState, Becomes(r, state),
           UNCHANGED <<row, stored, fate>>,
           RequestSound(state, row, stored, fate),
           Holds(request[r]) \subseteq Holds(state), Carries(state) \subseteq Carries(request[r]),
           \A a \in Assets : a \in Mentions(state) => a \in Mentions(request[r]) \/ NamedIn(row, a)
    PROVE  IInv'
<1>1. request' = [request EXCEPT ![r] = state]
    BY DEF Becomes
<1>2. /\ row' \in [Videos -> Row \cup {None}] /\ stored' \in SUBSET Assets
      /\ fate' \in [Assets -> Strays \cup Losses \cup {None}]
    BY DEF IInv, TypeOK
<1>3. \A q \in Requests \ {r} : RequestSound(request[q], row', stored', fate')
    BY DEF IInv
<1>4. ASSUME NEW q \in Requests \ {r}
      PROVE  Apart(state, request[q]) /\ Apart(request[q], state)
  <2>1. /\ Apart(request[r], request[q]) /\ Apart(request[q], request[r])
        /\ RequestSound(request[q], row, stored, fate) /\ request[q] \in RequestState
    BY DEF IInv, TypeOK
  <2>2. Apart(state, request[q])
    BY <2>1 DEF Apart
  <2>3. Apart(request[q], state)
    BY <2>1, CarriesMentioned DEF Apart, RequestSound
  <2> QED
    BY <2>2, <2>3
<1>5. RowsSound(row', stored', fate') /\ RequestSound(state, row', stored', fate')
    BY DEF IInv
<1>6. ASSUME NEW a \in Assets
      PROVE  AssetSound(a, row', stored', fate',
                 a \in Holds(state) \/ \E q \in Requests \ {r} : a \in Holds(request[q]))
  <2>1. HeldBy(request, a) => a \in Holds(state) \/ \E q \in Requests \ {r} : a \in Holds(request[q])
    BY DEF HeldBy
  <2>2. AssetSound(a, row, stored, fate, HeldBy(request, a))
    BY DEF IInv
  <2> QED
    BY <2>1, <2>2 DEF AssetSound
<1> QED
    BY <1>1, <1>2, <1>3, <1>4, <1>5, <1>6, StepKeeps

LEMMA InHand ==
    ASSUME IInv, NEW r \in Requests
    PROVE  /\ request[r] \in RequestState /\ Shape(request[r])
           /\ RequestSound(request[r], row, stored, fate)
           /\ Holds(request[r]) = request[r].doomed \cup Carries(request[r])
           /\ row \in [Videos -> Row \cup {None}] /\ RowsSound(row, stored, fate)
<1>1. request[r] \in RequestState /\ RequestSound(request[r], row, stored, fate)
    BY DEF IInv, TypeOK
<1>2. Shape(request[r])
    BY <1>1 DEF RequestSound
<1> QED
    BY <1>1, <1>2, HoldsIs DEF IInv, TypeOK

LEMMA BeginPlainKeeps ==
    ASSUME IInv, NEW r \in Requests, BeginPlain(r)
    PROVE  IInv'
<1> DEFINE state == [Idle EXCEPT !.pc = "thumb"]
<1>1. request[r].pc = "idle" /\ Becomes(r, state) /\ UNCHANGED <<row, stored, fate>>
    BY DEF BeginPlain, At
<1>2. /\ state \in RequestState /\ state.pc = "thumb" /\ state.source = "plain"
      /\ state.asset = None /\ state.thumb = None /\ state.old = None /\ state.doomed = {}
    BY IdleFacts DEF RequestState, Steps
<1> HIDE DEF state
<1>3. Carries(state) = {} /\ Shape(state)
    BY <1>2 DEF Carries, Shape
<1>4. RequestSound(state, row, stored, fate)
    BY <1>2, <1>3 DEF RequestSound
<1>5. Holds(request[r]) = {}
    BY <1>1, InHand DEF Shape, Carries
<1>6. \A a \in Assets : a \notin Mentions(state)
    BY <1>2, NoneIsApart DEF Mentions
<1> QED
    BY <1>1, <1>2, <1>3, <1>4, <1>5, <1>6, LearnsKeeps

LEMMA NoThumbKeeps ==
    ASSUME IInv, NEW r \in Requests, NoThumb(r)
    PROVE  IInv'
<1> DEFINE me == request[r]
           state == [me EXCEPT !.pc = "insert"]
<1>1. me.pc = "thumb" /\ Becomes(r, state) /\ UNCHANGED <<row, stored, fate>>
    BY DEF NoThumb, At
<1>2. me \in RequestState /\ Shape(me) /\ RequestSound(me, row, stored, fate)
    BY InHand
<1>3. /\ state \in RequestState /\ state.pc = "insert" /\ state.source = me.source
      /\ state.asset = me.asset /\ state.thumb = me.thumb /\ state.old = me.old
      /\ state.doomed = me.doomed
    BY <1>2 DEF RequestState, Steps
<1> HIDE DEF state, me
<1>4. Carries(state) = Carries(me)
    BY <1>1, <1>3 DEF Carries
<1>5. Shape(state)
    BY <1>1, <1>2, <1>3 DEF Shape
<1>6. RequestSound(state, row, stored, fate)
    BY <1>2, <1>3, <1>4, <1>5 DEF RequestSound
<1>7. Holds(state) = Holds(me)
    BY <1>1, <1>3 DEF Holds
<1>8. Mentions(state) = Mentions(me)
    BY <1>3 DEF Mentions
<1> QED
    BY <1>1, <1>3, <1>4, <1>6, <1>7, <1>8, LearnsKeeps DEF me

LEMMA NamedFacts ==
    ASSUME IInv, NEW v \in Videos, Exists(v)
    PROVE  /\ row[v] \in Row /\ RowSound(row[v], fate)
           /\ row[v].asset # None => row[v].asset \in Assets /\ NamedIn(row, row[v].asset)
           /\ row[v].thumb # None => row[v].thumb \in Assets /\ NamedIn(row, row[v].thumb)
           /\ \A w \in Videos : Exists(w) /\ row[v].asset # None =>
                  row[w].thumb # row[v].asset /\ (row[w].asset = row[v].asset => w = v)
           /\ \A w \in Videos : Exists(w) /\ row[v].thumb # None =>
                  row[w].asset # row[v].thumb /\ (row[w].thumb = row[v].thumb => w = v)
<1>1. row[v] \in Row /\ RowsSound(row, stored, fate)
    BY DEF IInv, TypeOK, Exists
<1>2. RowSound(row[v], fate)
    BY <1>1 DEF RowsSound, Exists
<1>3. /\ row[v].asset # None => row[v].asset \in Assets /\ Has(row, v, row[v].asset)
      /\ row[v].thumb # None => row[v].thumb \in Assets /\ Has(row, v, row[v].thumb)
    BY <1>1 DEF Row, Has, Exists
<1>4. ASSUME NEW w \in Videos, Exists(w), row[v].asset # None
      PROVE  row[w].thumb # row[v].asset /\ (row[w].asset = row[v].asset => w = v)
    BY <1>1, <1>2, <1>3, <1>4 DEF RowsSound, RowSound, Has, Exists
<1>5. ASSUME NEW w \in Videos, Exists(w), row[v].thumb # None
      PROVE  row[w].asset # row[v].thumb /\ (row[w].thumb = row[v].thumb => w = v)
    BY <1>1, <1>2, <1>3, <1>5 DEF RowsSound, RowSound, Has, Exists
<1> QED
    BY <1>1, <1>2, <1>3, <1>4, <1>5 DEF NamedIn

LEMMA ReplaceLookKeeps ==
    ASSUME IInv, NEW r \in Requests, NEW v \in Videos, ReplaceLook(r, v)
    PROVE  IInv'
<1> DEFINE state(pc) == [Idle EXCEPT !.pc = pc, !.source = row[v].source, !.video = v,
                                     !.old = row[v].thumb]
<1>1. PICK pc \in {"replace", "swap"} :
          /\ pc = "replace" => row[v].source \in {"file", "plain"}
          /\ pc = "swap" => row[v].thumb # None
          /\ Becomes(r, state(pc))
    BY DEF ReplaceLook
<1>2. /\ request[r].pc = "idle" /\ Exists(v) /\ UNCHANGED <<row, stored, fate>>
    BY DEF ReplaceLook, At
<1>3. row[v] \in Row /\ RowSound(row[v], fate)
    BY <1>2, NamedFacts
<1>4. /\ state(pc) \in RequestState /\ state(pc).pc = pc /\ state(pc).source = row[v].source
      /\ state(pc).video = v /\ state(pc).old = row[v].thumb
      /\ state(pc).asset = None /\ state(pc).thumb = None /\ state(pc).doomed = {}
    BY <1>3, IdleFacts DEF RequestState, Steps, Row
<1> HIDE DEF state
<1>5. Carries(state(pc)) = {} /\ Shape(state(pc))
    BY <1>1, <1>4 DEF Carries, Shape
<1>6. row[v].source # "bunny"
    BY <1>1, <1>3 DEF RowSound
<1>7. row[v].thumb # None =>
          \A w \in Videos : Has(row, w, row[v].thumb) => w = v /\ row[w].asset # row[v].thumb
    BY <1>2, NamedFacts DEF Has, Exists
<1>8. RequestSound(state(pc), row, stored, fate)
    BY <1>1, <1>4, <1>5, <1>6, <1>7 DEF RequestSound
<1>9. Holds(request[r]) = {}
    BY <1>2, InHand DEF Shape, Carries
<1>10. \A a \in Assets : a \in Mentions(state(pc)) => NamedIn(row, a)
    BY <1>2, <1>4, NoneIsApart, NamedFacts DEF Mentions
<1> QED
    BY <1>1, <1>2, <1>4, <1>5, <1>8, <1>9, <1>10, LearnsKeeps

LEMMA PurgeLookKeeps ==
    ASSUME IInv, NEW r \in Requests, NEW v \in Videos, NEW asked \in BOOLEAN, PurgeLook(r, v, asked)
    PROVE  IInv'
<1> DEFINE remote == asked /\ row[v].source = "bunny"
           pc == IF remote THEN "remote" ELSE "commit"
           asset == IF remote THEN row[v].asset ELSE None
           state == [Idle EXCEPT !.pc = pc, !.video = v, !.asked = asked, !.asset = asset]
<1>1. /\ request[r].pc = "idle" /\ Exists(v) /\ (remote => row[v].disabled)
      /\ Becomes(r, state) /\ UNCHANGED <<row, stored, fate>>
    BY DEF PurgeLook, At
<1>2. row[v] \in Row /\ RowSound(row[v], fate)
    BY <1>1, NamedFacts
<1>3. /\ pc \in {"remote", "commit"} /\ (pc = "remote" <=> remote)
      /\ remote => asset = row[v].asset /\ asset \in Assets
      /\ ~remote => asset = None
    BY <1>2 DEF RowSound
<1>4. remote => Spent(row[v])
    BY <1>1, Zenon DEF Spent
<1>5. ~remote => ~(asked /\ row[v].source = "bunny")
    OBVIOUS
<1> HIDE DEF pc, asset, remote
<1>6. /\ state \in RequestState /\ state.pc = pc /\ state.video = v /\ state.asked = asked
      /\ state.asset = asset /\ state.thumb = None /\ state.old = None /\ state.doomed = {}
    BY <1>3, IdleFacts DEF RequestState, Steps
<1> HIDE DEF state
<1>7. Carries(state) = {} /\ Shape(state)
    BY <1>3, <1>6 DEF Carries, Shape
<1>8. \A w \in Videos : remote /\ row[w] # None /\ row[w].asset = asset => w = v
    BY <1>1, <1>3, NoneIsApart, NamedFacts DEF Exists
<1>9. RequestSound(state, row, stored, fate)
  <2>1. pc = "remote" =>
            /\ \A w \in Videos : row[w] # None /\ row[w].asset = asset => Spent(row[w])
            /\ row[v].asset = asset
    BY <1>3, <1>4, <1>8
  <2>2. ~(state.pc = "commit" /\ state.asked /\ row[v].source = "bunny")
    BY <1>3, <1>5, <1>6, Zenon
  <2> QED
    BY <1>3, <1>6, <1>7, <2>1, <2>2 DEF RequestSound
<1>10. Holds(request[r]) = {}
    BY <1>1, InHand DEF Shape, Carries
<1>11. \A a \in Assets : a \in Mentions(state) => NamedIn(row, a)
    BY <1>1, <1>3, <1>6, NoneIsApart, NamedFacts DEF Mentions
<1> QED
    BY <1>1, <1>6, <1>7, <1>9, <1>10, <1>11, LearnsKeeps

LEMMA PurgeRefusedKeeps ==
    ASSUME IInv, NEW r \in Requests, PurgeRefused(r)
    PROVE  IInv'
<1>1. request[r].pc = "commit" /\ Becomes(r, Idle) /\ UNCHANGED <<row, stored, fate>>
    BY DEF PurgeRefused, At
<1>2. Holds(request[r]) = {}
    BY <1>1, InHand DEF Shape, Carries
<1>3. RequestSound(Idle, row, stored, fate) /\ Carries(Idle) = {} /\ Mentions(Idle) = {None}
    BY IdleSound
<1> QED
    BY <1>1, <1>2, <1>3, IdleFacts, NoneIsApart, LearnsKeeps

-----------------------------------------------------------------------------
(* Steps that write no row.                                                 *)

\* What such a step of r, which goes on as state, may do to an asset: nothing, unless it
\* is not held by r any more; store it; write it off; or delete it.
Left(a, me, state) ==
    /\ a \in stored' <=> a \in stored
    /\ fate'[a] = fate[a]
    /\ a \in Holds(me) /\ a \in stored /\ ~NamedIn(row, a) => a \in Holds(state) \/ fate[a] \in Strays

Unseen(a) == a \notin stored /\ ~NamedIn(row, a) /\ \A q \in Requests : a \notin Mentions(request[q])

Came(a, state) ==
    /\ Unseen(a)
    /\ a \in stored'
    /\ fate'[a] \in Strays \/ (fate'[a] = None /\ a \in Holds(state))

WrittenOff(a, me) ==
    /\ a \in Holds(me) /\ a \in stored /\ a \in stored' /\ ~NamedIn(row, a)
    /\ fate'[a] \in Strays

Removed(a, me) ==
    /\ a \notin stored'
    /\ a \in Mentions(me) \/ NamedIn(row, a)
    /\ NamedIn(row, a) => fate'[a] \in Losses
    /\ ~NamedIn(row, a) => fate'[a] = None
    /\ fate'[a] = "purged" =>
          \A w \in Videos : row[w] # None /\ row[w].source = "bunny" /\ row[w].asset = a => Spent(row[w])

LEMMA FreshIsUnseen ==
    ASSUME IInv, NEW a \in Assets, Fresh(a)
    PROVE  Unseen(a) /\ fate[a] = None
<1>1. a \notin stored /\ a \notin Named /\ \A q \in Requests : a \notin Mentions(request[q])
    BY DEF Fresh
<1>2. ~NamedIn(row, a)
    BY <1>1, NoneIsApart DEF Named, Names, OwnAsset, OwnThumb, NamedIn, Has, Exists
<1>3. AssetSound(a, row, stored, fate, HeldBy(request, a))
    BY DEF IInv
<1> QED
    BY <1>1, <1>2, <1>3 DEF Unseen, AssetSound

LEMMA NamedIsNamedIn ==
    ASSUME NEW a \in Assets
    PROVE  a \in Named <=> NamedIn(row, a)
BY NoneIsApart DEF Named, Names, OwnAsset, OwnThumb, NamedIn, Has, Exists

\* Whatever happens to an asset in such a step, the rows are as sound as before.
LEMMA RowsStaySound ==
    ASSUME IInv, NEW me, NEW state, row' = row,
           \A a \in Assets : Left(a, me, state) \/ Came(a, state) \/ WrittenOff(a, me) \/ Removed(a, me)
    PROVE  RowsSound(row', stored', fate')
<1>1. RowsSound(row, stored, fate) /\ row \in [Videos -> Row \cup {None}]
    BY DEF IInv, TypeOK
<1>2. ASSUME NEW a \in Assets, NamedIn(row, a)
      PROVE  (a \in stored' \/ fate'[a] \in Losses) /\ fate'[a] \notin Strays
  <2>1. (a \in stored \/ fate[a] \in Losses) /\ fate[a] \notin Strays
    BY <1>1, <1>2 DEF RowsSound
  <2>2. Left(a, me, state) \/ Removed(a, me)
    BY <1>2 DEF Came, Unseen, WrittenOff
  <2>3. CASE Left(a, me, state)
    BY <2>1, <2>3 DEF Left
  <2>4. CASE Removed(a, me)
    BY <1>2, <2>4, StraysAndLosses DEF Removed
  <2> QED
    BY <2>2, <2>3, <2>4
<1>3. ASSUME NEW v \in Videos, row[v] # None
      PROVE  RowSound(row[v], fate')
  <2>1. RowSound(row[v], fate)
    BY <1>1, <1>3 DEF RowsSound
  <2>2. ASSUME row[v].source = "bunny", fate'[row[v].asset] = "purged"
        PROVE  Spent(row[v])
    <3>1. row[v].asset \in Assets /\ NamedIn(row, row[v].asset)
      BY <1>3, <2>1, <2>2 DEF RowSound, NamedIn, Has
    <3>2. Left(row[v].asset, me, state) \/ Removed(row[v].asset, me)
      BY <3>1 DEF Came, Unseen, WrittenOff
    <3>3. CASE Left(row[v].asset, me, state)
      BY <2>1, <2>2, <3>3 DEF Left, RowSound
    <3>4. CASE Removed(row[v].asset, me)
      BY <1>3, <2>2, <3>4 DEF Removed
    <3> QED
      BY <3>2, <3>3, <3>4
  <2> QED
    BY <2>1, <2>2 DEF RowSound
<1> QED
    BY <1>1, <1>2, <1>3 DEF RowsSound

LEMMA OthersStaySound ==
    ASSUME IInv, NEW me, NEW state, row' = row, NEW q \in Requests,
           Carries(request[q]) \cap Mentions(me) = {},
           \A a \in Assets : Left(a, me, state) \/ Came(a, state) \/ WrittenOff(a, me) \/ Removed(a, me),
           \A a \in Assets : a \in Holds(me) => a \in Mentions(me)
    PROVE  RequestSound(request[q], row', stored', fate')
<1> DEFINE you == request[q]
<1>1. /\ you \in RequestState /\ RequestSound(you, row, stored, fate)
      /\ RowsSound(row, stored, fate) /\ row \in [Videos -> Row \cup {None}]
    BY DEF IInv, TypeOK
<1>2. /\ Carries(you) \subseteq Assets /\ Carries(you) \subseteq Mentions(you)
      /\ you.doomed \subseteq Assets /\ you.doomed \subseteq Mentions(you)
    BY <1>1, CarriesMentioned
<1>3. ASSUME NEW a \in Carries(you) PROVE a \in stored' /\ fate'[a] = None
  <2>1. a \in Assets /\ a \in stored /\ fate[a] = None /\ ~NamedIn(row, a) /\ a \notin Mentions(me)
    BY <1>1, <1>2, <1>3 DEF RequestSound
  <2>2. Left(a, me, state)
    BY <2>1 DEF Came, Unseen, WrittenOff, Removed
  <2> QED
    BY <2>1, <2>2 DEF Left
<1>4. ASSUME NEW a \in you.doomed, fate[a] \in Losses, NamedIn(row', a)
      PROVE  fate'[a] \in Losses
  <2>1. a \in Assets /\ NamedIn(row, a)
    BY <1>2, <1>4
  <2>2. Left(a, me, state) \/ Removed(a, me)
    BY <2>1 DEF Came, Unseen, WrittenOff
  <2> QED
    BY <1>4, <2>1, <2>2 DEF Left, Removed
<1>5. ASSUME NEW v \in Videos, row[v] # None, row[v].source = "bunny", row[v].asset \notin stored
      PROVE  row[v].asset \notin stored'
  <2>1. row[v].asset \in Assets /\ NamedIn(row, row[v].asset)
    BY <1>1, <1>5 DEF RowsSound, RowSound, NamedIn, Has
  <2>2. Left(row[v].asset, me, state) \/ Removed(row[v].asset, me)
    BY <2>1 DEF Came, Unseen, WrittenOff
  <2> QED
    BY <1>5, <2>2 DEF Left, Removed
<1>6. WorldMoves(you, row, stored, row', stored')
    BY <1>1, <1>5 DEF WorldMoves
<1> QED
    BY <1>1, <1>3, <1>4, <1>6, OtherKept

LEMMA AssetsStaySound ==
    ASSUME IInv, NEW r \in Requests, NEW state, row' = row, NEW a \in Assets,
           \/ Left(a, request[r], state) \/ Came(a, state)
           \/ WrittenOff(a, request[r]) \/ Removed(a, request[r])
    PROVE  AssetSound(a, row', stored', fate',
               a \in Holds(state) \/ \E q \in Requests \ {r} : a \in Holds(request[q]))
<1> DEFINE me == request[r]
           held == a \in Holds(state) \/ \E q \in Requests \ {r} : a \in Holds(request[q])
<1>1. AssetSound(a, row, stored, fate, HeldBy(request, a))
    BY DEF IInv
<1>2. CASE Left(a, me, state)
  <2>1. ~NamedIn(row, a) /\ a \in stored => fate[a] \in Strays \/ held
    BY <1>1, <1>2 DEF AssetSound, HeldBy, Left
  <2>2. /\ a \in stored' <=> a \in stored
        /\ fate'[a] = fate[a]
    BY <1>2 DEF Left
  <2> HIDE DEF held
  <2>3. AssetSound(a, row, stored', fate', held)
    BY <1>1, <2>1, <2>2 DEF AssetSound
  <2> QED
    BY <2>3 DEF held, AssetSound
<1>3. CASE Came(a, state)
    BY <1>3, NoneIsApart DEF AssetSound, Came, Unseen, Strays, Losses
<1>4. CASE WrittenOff(a, me)
    BY <1>4 DEF AssetSound, WrittenOff, Strays
<1>5. CASE Removed(a, me)
    BY <1>5, NoneIsApart DEF AssetSound, Removed, Losses
<1> QED
    BY <1>2, <1>3, <1>4, <1>5

LEMMA RowlessKeeps ==
    ASSUME IInv, NEW r \in Requests, NEW state \in RequestState, Becomes(r, state), row' = row,
           stored' \in SUBSET Assets, fate' \in [Assets -> Strays \cup Losses \cup {None}],
           RequestSound(state, row, stored', fate'),
           \A a \in Assets : a \in Mentions(state) => \/ a \in Mentions(request[r]) \/ NamedIn(row, a)
                                                      \/ Unseen(a),
           \A a \in Carries(state) : a \in Carries(request[r]) \/ Unseen(a),
           \A a \in Assets : \/ Left(a, request[r], state) \/ Came(a, state)
                             \/ WrittenOff(a, request[r]) \/ Removed(a, request[r])
    PROVE  IInv'
<1> DEFINE me == request[r]
<1>1. request' = [request EXCEPT ![r] = state]
    BY DEF Becomes
<1>2. /\ me \in RequestState /\ Shape(me) /\ Holds(me) = me.doomed \cup Carries(me)
      /\ Carries(me) \subseteq Mentions(me) /\ me.doomed \subseteq Mentions(me)
    BY InHand, CarriesMentioned
<1>3. RowsSound(row', stored', fate')
    BY RowsStaySound
<1>4. ASSUME NEW q \in Requests \ {r}
      PROVE  /\ RequestSound(request[q], row', stored', fate')
             /\ Apart(state, request[q]) /\ Apart(request[q], state)
  <2>1. Apart(me, request[q]) /\ Apart(request[q], me)
    BY DEF IInv
  <2>2. RequestSound(request[q], row, stored, fate) /\ Carries(request[q]) \subseteq Assets
    BY InHand, CarriesMentioned
  <2>3. Carries(request[q]) \cap Mentions(me) = {}
    BY <2>1 DEF Apart
  <2>4. RequestSound(request[q], row', stored', fate')
    BY <1>2, <2>3, OthersStaySound
  <2>5. Apart(state, request[q])
    BY <2>1 DEF Apart, Unseen
  <2>6. Apart(request[q], state)
    BY <2>1, <2>2 DEF Apart, Unseen, RequestSound
  <2> QED
    BY <2>4, <2>5, <2>6
<1>5. \A a \in Assets : AssetSound(a, row', stored', fate',
          a \in Holds(state) \/ \E q \in Requests \ {r} : a \in Holds(request[q]))
    BY AssetsStaySound
<1>6. row' \in [Videos -> Row \cup {None}]
    BY DEF IInv, TypeOK
<1>7. RequestSound(state, row', stored', fate')
    OBVIOUS
<1> HIDE DEF me
<1> QED
    BY <1>1, <1>3, <1>4, <1>5, <1>6, <1>7, StepKeeps

\* Something is stored and r has it in hand.
LEMMA StoringKeeps ==
    ASSUME IInv, NEW r \in Requests, NEW a \in Assets, NEW state \in RequestState,
           Becomes(r, state), Store(a), UNCHANGED <<row, fate>>,
           Shape(state), state.doomed = {}, request[r].doomed = {},
           state.pc \in {"thumb", "insert", "swap"},
           Carries(state) = Carries(request[r]) \cup {a},
           \A b \in Mentions(state) : b \in Mentions(request[r]) \cup {a, None},
           state.pc = "swap" => /\ request[r].pc = "replace" /\ state.video = request[r].video
                                /\ state.old = request[r].old
    PROVE  IInv'
<1> DEFINE me == request[r]
<1>1. /\ me \in RequestState /\ Shape(me) /\ RequestSound(me, row, stored, fate)
      /\ Holds(me) = me.doomed \cup Carries(me)
    BY InHand
<1>2. Unseen(a) /\ fate[a] = None /\ stored' = stored \cup {a}
    BY FreshIsUnseen DEF Store
<1>3. Holds(state) = Carries(me) \cup {a}
    BY HoldsIs
<1>4. RequestSound(state, row, stored', fate')
  <2>1. \A b \in Carries(state) : b \in stored' /\ fate[b] = None /\ ~NamedIn(row, b)
    BY <1>1, <1>2 DEF RequestSound, Unseen
  <2>2. state.pc = "swap" =>
          /\ row[state.video] # None => row[state.video].source # "bunny"
          /\ state.old # None =>
               \A w \in Videos : Has(row, w, state.old) => w = state.video /\ row[w].asset # state.old
    BY <1>1 DEF RequestSound
  <2> QED
    BY <2>1, <2>2 DEF RequestSound
<1>5. \A b \in Assets : Left(b, me, state) \/ Came(b, state)
  <2> SUFFICES ASSUME NEW b \in Assets PROVE Left(b, me, state) \/ Came(b, state)
    OBVIOUS
  <2>1. CASE b = a
    BY <1>2, <1>3, <2>1 DEF Came
  <2>2. CASE b # a
    BY <1>1, <1>2, <1>3, <2>2 DEF Left
  <2> QED
    BY <2>1, <2>2
<1>6. \A b \in Assets : b \in Mentions(state) => b \in Mentions(me) \/ NamedIn(row, b) \/ Unseen(b)
    BY <1>2, NoneIsApart
<1>7. \A b \in Carries(state) : b \in Carries(me) \/ Unseen(b)
    BY <1>2
<1>8. stored' \in SUBSET Assets /\ fate' \in [Assets -> Strays \cup Losses \cup {None}] /\ row' = row
    BY <1>2 DEF IInv, TypeOK
<1> QED
    BY <1>4, <1>5, <1>6, <1>7, <1>8, RowlessKeeps

LEMMA FirstStoreKeeps ==
    ASSUME IInv, NEW r \in Requests, NEW a \in Assets, UploadVideo(r, a) \/ CreateAtBunny(r, a)
    PROVE  IInv'
<1>1. PICK pc \in {"thumb", "insert"}, source \in {"cloud", "bunny"} :
          /\ request[r].pc = "idle" /\ Store(a) /\ UNCHANGED <<row, fate>>
          /\ pc = "thumb" => source = "cloud"
          /\ Becomes(r, [Idle EXCEPT !.pc = pc, !.source = source, !.asset = a])
    BY DEF UploadVideo, CreateAtBunny, At
<1> DEFINE state == [Idle EXCEPT !.pc = pc, !.source = source, !.asset = a]
<1>2. /\ state \in RequestState /\ state.pc = pc /\ state.source = source /\ state.asset = a
      /\ state.thumb = None /\ state.old = None /\ state.doomed = {} /\ Becomes(r, state)
    BY <1>1, IdleFacts DEF RequestState, Steps, Sources
<1> HIDE DEF state
<1>3. Carries(state) = {a} /\ Mentions(state) = {a, None} /\ Shape(state)
    BY <1>1, <1>2, NoneIsApart DEF Carries, Mentions, Shape
<1>4. Carries(request[r]) = {} /\ request[r].doomed = {}
    BY <1>1, InHand DEF Carries, Shape
<1> QED
    BY <1>1, <1>2, <1>3, <1>4, StoringKeeps

LEMMA ThumbStoreKeeps ==
    ASSUME IInv, NEW r \in Requests, NEW a \in Assets, StoreThumb(r, a) \/ StoreLocalThumb(r, a)
    PROVE  IInv'
<1> DEFINE me == request[r]
           pc == IF me.pc = "thumb" THEN "insert" ELSE "swap"
           state == [me EXCEPT !.pc = pc, !.thumb = a]
<1>1. /\ me.pc \in {"thumb", "replace"} /\ Store(a) /\ UNCHANGED <<row, fate>> /\ Becomes(r, state)
    BY DEF StoreThumb, StoreLocalThumb, At
<1>2. pc = (IF me.pc = "thumb" THEN "insert" ELSE "swap") /\ pc \in {"insert", "swap"}
    OBVIOUS
<1>3. me \in RequestState /\ Shape(me)
    BY InHand
<1> HIDE DEF pc, me
<1>4. /\ state \in RequestState /\ state.pc = pc /\ state.source = me.source /\ state.asset = me.asset
      /\ state.thumb = a /\ state.old = me.old /\ state.doomed = me.doomed /\ state.video = me.video
    BY <1>2, <1>3 DEF RequestState, Steps
<1> HIDE DEF state
<1>5. me.doomed = {} /\ me.thumb = None /\ a \notin Mentions(me)
  <2>1. a \notin Mentions(me)
    BY <1>1, FreshIsUnseen DEF Store, Unseen, me
  <2> QED
    BY <1>1, <1>3, <2>1 DEF Shape
<1>6. Carries(state) = Carries(me) \cup {a}
    BY <1>1, <1>2, <1>4, <1>5, NoneIsApart DEF Carries
<1>7. Mentions(state) = (Mentions(me) \ {None}) \cup {a} \cup ({me.asset, me.old} \cap {None})
    BY <1>4, <1>5 DEF Mentions
<1>8. Shape(state)
  <2>1. me.asset # a /\ me.old # a
    BY <1>5 DEF Mentions
  <2>2. state.pc = "insert" => me.pc = "thumb"
    BY <1>2, <1>4
  <2>3. state.pc = "swap" => me.pc = "replace"
    BY <1>1, <1>2, <1>4
  <2> QED
    BY <1>2, <1>3, <1>4, <1>5, <2>1, <2>2, <2>3, NoneIsApart DEF Shape
<1>9. state.pc = "swap" => me.pc = "replace"
    BY <1>1, <1>2, <1>4
<1>10. \A b \in Mentions(state) : b \in Mentions(me) \cup {a, None}
    BY <1>7
<1> QED
    BY <1>1, <1>2, <1>4, <1>5, <1>6, <1>8, <1>9, <1>10, StoringKeeps DEF me

\* What a request held is written off and it ends.
LEMMA WritingOff ==
    ASSUME IInv, NEW r \in Requests, NEW D, Holds(request[r]) \subseteq D, D \subseteq Holds(request[r]) \cup {None},
           request[r].doomed = {}, Becomes(r, Idle), UNCHANGED <<row, stored>>,
           fate' = WriteOff(D, "uncompensated")
    PROVE  IInv'
<1> DEFINE me == request[r]
<1>1. /\ me \in RequestState /\ RequestSound(me, row, stored, fate) /\ Holds(me) = Carries(me)
    BY InHand
<1>2. fate \in [Assets -> Strays \cup Losses \cup {None}] /\ stored \in SUBSET Assets
    BY DEF IInv, TypeOK
<1>3. fate' \in [Assets -> Strays \cup Losses \cup {None}]
    BY <1>2 DEF WriteOff, Strays
<1>4. ASSUME NEW a \in Assets PROVE Left(a, me, Idle) \/ WrittenOff(a, me)
  <2>1. CASE a \in Holds(me)
    <3>1. a \in stored /\ ~NamedIn(row, a)
      BY <1>1, <2>1 DEF RequestSound
    <3>2. fate'[a] \in Strays
      BY <2>1, <3>1 DEF WriteOff, Strays
    <3> QED
      BY <2>1, <3>1, <3>2 DEF WrittenOff
  <2>2. CASE a \notin Holds(me)
    <3>1. fate'[a] = fate[a]
      BY <2>2, NoneIsApart DEF WriteOff
    <3> QED
      BY <2>2, <3>1 DEF Left
  <2> QED
    BY <2>1, <2>2
<1>5. RequestSound(Idle, row, stored', fate') /\ Carries(Idle) = {} /\ Mentions(Idle) = {None}
    BY IdleSound
<1>6. \A a \in Assets : a \notin Mentions(Idle)
    BY <1>5, NoneIsApart
<1> QED
    BY <1>2, <1>3, <1>4, <1>5, <1>6, IdleFacts, RowlessKeeps

\* A request that has something in hand deletes it again.
LEMMA SweepingUp ==
    ASSUME IInv, NEW r \in Requests, NEW D, D \subseteq Assets \cup {None}, D \subseteq Mentions(request[r]) \cup {None},
           Holds(request[r]) \subseteq D, \A a \in D \ {None} : ~NamedIn(row, a),
           Becomes(r, Sweeping(D)), UNCHANGED <<row, stored, fate>>
    PROVE  IInv'
<1>1. /\ Sweeping(D) \in RequestState /\ Carries(Sweeping(D)) = {} /\ Holds(Sweeping(D)) = D \ {None}
      /\ \A a \in Assets : a \in Mentions(Sweeping(D)) => a \in D
    BY SweepingFacts
<1>2. RequestSound(Sweeping(D), row, stored, fate)
    BY SweepingSound
<1>3. Holds(request[r]) \subseteq Holds(Sweeping(D))
    BY <1>1 DEF Holds
<1>4. \A a \in Assets : a \in Mentions(Sweeping(D)) => a \in Mentions(request[r])
    BY <1>1, NoneIsApart
<1> QED
    BY <1>1, <1>2, <1>3, <1>4, LearnsKeeps

LEMMA InsertFailsKeeps ==
    ASSUME IInv, NEW r \in Requests, InsertFails(r)
    PROVE  IInv'
<1> DEFINE me == request[r]
<1>1. me.pc \in {"thumb", "insert"} /\ UNCHANGED <<row, stored>>
    BY DEF InsertFails
<1>2. /\ me \in RequestState /\ Shape(me) /\ RequestSound(me, row, stored, fate)
      /\ Holds(me) = me.doomed \cup Carries(me) /\ me.asset \in Mentions(me)
    BY InHand, CarriesMentioned
<1>3. CASE me.source = "bunny"
  <2>1. Becomes(r, Sweeping({me.asset})) /\ UNCHANGED fate
    BY <1>3 DEF InsertFails
  <2>2. me.asset \in Assets /\ Carries(me) = {me.asset} /\ me.doomed = {}
    BY <1>1, <1>2, <1>3, NoneIsApart DEF Shape, Carries
  <2>3. ~NamedIn(row, me.asset)
    BY <1>2, <2>2 DEF RequestSound
  <2> QED
    BY <1>1, <1>2, <2>1, <2>2, <2>3, SweepingUp
<1>4. CASE me.source # "bunny"
  <2>1. Becomes(r, Idle) /\ fate' = WriteOff(Holds(me), "uncompensated")
    BY <1>4 DEF InsertFails
  <2> QED
    BY <1>1, <1>2, <2>1, WritingOff DEF Shape
<1> QED
    BY <1>3, <1>4

LEMMA SwapFailsKeeps ==
    ASSUME IInv, NEW r \in Requests, SwapFails(r)
    PROVE  IInv'
<1> DEFINE me == request[r]
<1>1. me.pc \in {"replace", "swap"} /\ UNCHANGED <<row, stored>>
    BY DEF SwapFails
<1>2. /\ me \in RequestState /\ Shape(me) /\ RequestSound(me, row, stored, fate)
      /\ Holds(me) = me.doomed \cup Carries(me) /\ me.thumb \in Mentions(me)
      /\ me.thumb \in Assets \cup {None}
    BY InHand DEF RequestState, Mentions
<1>3. Holds(me) = {me.thumb} \ {None} /\ Carries(me) = {me.thumb} \ {None} /\ me.doomed = {}
    BY <1>1, <1>2 DEF Shape, Carries
<1>4. CASE me.source = "file"
  <2>1. Becomes(r, Sweeping({me.thumb})) /\ UNCHANGED fate
    BY <1>4 DEF SwapFails
  <2>2. \A a \in {me.thumb} \ {None} : ~NamedIn(row, a)
    BY <1>2, <1>3 DEF RequestSound
  <2>3. Holds(me) \subseteq {me.thumb} /\ {me.thumb} \subseteq Assets \cup {None} /\ {me.thumb} \subseteq Mentions(me) \cup {None}
    BY <1>2, <1>3
  <2> QED
    BY <1>1, <2>1, <2>2, <2>3, SweepingUp
<1>5. CASE me.source # "file"
  <2>1. Becomes(r, Idle) /\ fate' = WriteOff({me.thumb}, "uncompensated")
    BY <1>5 DEF SwapFails
  <2>2. Holds(me) \subseteq {me.thumb} /\ {me.thumb} \subseteq Holds(me) \cup {None}
    BY <1>3
  <2> QED
    BY <1>1, <1>3, <2>1, <2>2, WritingOff
<1> QED
    BY <1>4, <1>5

LEMMA StoreUnansweredKeeps ==
    ASSUME IInv, NEW r \in Requests, NEW a \in Assets, StoreUnanswered(r, a)
    PROVE  IInv'
<1> DEFINE me == request[r]
           off == WriteOff(Holds(me), "uncompensated")
<1>1. /\ me.pc \in {"idle", "thumb", "replace"} /\ row' = row /\ Becomes(r, Idle)
      /\ fate' = [off EXCEPT ![a] = "unanswered"]
      /\ Unseen(a) /\ stored' = stored \cup {a}
    BY FreshIsUnseen DEF StoreUnanswered, Store
<1>2. /\ me \in RequestState /\ Shape(me) /\ RequestSound(me, row, stored, fate)
      /\ Holds(me) = me.doomed \cup Carries(me) /\ Carries(me) \subseteq Mentions(me)
      /\ me.doomed = {}
    BY <1>1, InHand, CarriesMentioned DEF Shape
<1>3. fate \in [Assets -> Strays \cup Losses \cup {None}] /\ stored \in SUBSET Assets
    BY DEF IInv, TypeOK
<1>4. off \in [Assets -> Strays \cup Losses \cup {None}]
    BY <1>3 DEF WriteOff, Strays
<1>5. \A b \in Assets : off[b] = IF b \in Holds(me) \cap stored THEN "uncompensated" ELSE fate[b]
    BY DEF WriteOff
<1> HIDE DEF off
<1>6. /\ fate' \in [Assets -> Strays \cup Losses \cup {None}] /\ fate'[a] \in Strays
      /\ \A b \in Assets : b # a => fate'[b] = off[b]
    BY <1>1, <1>4 DEF Strays
<1>7. ASSUME NEW b \in Assets PROVE Left(b, me, Idle) \/ Came(b, Idle) \/ WrittenOff(b, me)
  <2>1. CASE b = a
    BY <1>1, <1>6, <2>1 DEF Came
  <2>2. CASE b # a /\ b \in Holds(me)
    <3>1. b \in stored /\ ~NamedIn(row, b)
      BY <1>2, <2>2 DEF RequestSound
    <3>2. fate'[b] \in Strays
      BY <1>5, <1>6, <2>2, <3>1 DEF Strays
    <3> QED
      BY <1>1, <2>2, <3>1, <3>2 DEF WrittenOff
  <2>3. CASE b # a /\ b \notin Holds(me)
    BY <1>1, <1>5, <1>6, <2>3 DEF Left
  <2> QED
    BY <2>1, <2>2, <2>3
<1>8. RequestSound(Idle, row, stored', fate') /\ Carries(Idle) = {} /\ Mentions(Idle) = {None}
    BY IdleSound
<1>9. \A b \in Assets : b \notin Mentions(Idle)
    BY <1>8, NoneIsApart
<1>10. row' = row /\ stored' \in SUBSET Assets /\ Becomes(r, Idle)
    BY <1>1, <1>3
<1> QED
    BY <1>6, <1>7, <1>8, <1>9, <1>10, IdleFacts, RowlessKeeps

LEMMA DeletedFacts ==
    ASSUME IInv, NEW a \in Assets, NEW why, Deleted(a, why),
           NamedIn(row, a) => why \in Losses
    PROVE  /\ stored' = stored \ {a} /\ stored' \in SUBSET Assets
           /\ fate' \in [Assets -> Strays \cup Losses \cup {None}]
           /\ \A b \in Assets : b # a => fate'[b] = fate[b]
           /\ ~NamedIn(row, a) => fate'[a] = None
           /\ NamedIn(row, a) => fate'[a] \in Losses /\ fate'[a] \in {why, fate[a]}
<1>1. fate \in [Assets -> Strays \cup Losses \cup {None}] /\ stored \in SUBSET Assets
    BY DEF IInv, TypeOK
<1>2. /\ stored' = stored \ {a}
      /\ fate' = [fate EXCEPT ![a] = IF a \notin Named THEN None
                                     ELSE IF a \in stored THEN why ELSE fate[a]]
    BY DEF Deleted
<1>3. fate'[a] = (IF a \notin Named THEN None ELSE IF a \in stored THEN why ELSE fate[a])
    BY <1>1, <1>2
<1>4. NamedIn(row, a) => a \in stored \/ fate[a] \in Losses
    BY DEF IInv, RowsSound
<1> QED
    BY <1>1, <1>2, <1>3, <1>4, NamedIsNamedIn

LEMMA RowsSpent ==
    ASSUME IInv, NEW a \in Assets, fate[a] = "purged", NEW w \in Videos,
           row[w] # None, row[w].source = "bunny", row[w].asset = a
    PROVE  Spent(row[w])
BY DEF IInv, RowsSound, RowSound

LEMMA RemoteKeeps ==
    ASSUME IInv, NEW r \in Requests, DeleteRemote(r) \/ RemoteUnconfirmed(r)
    PROVE  IInv'
<1> DEFINE me == request[r]
           a == me.asset
           committing == [me EXCEPT !.pc = "commit"]
<1>1. /\ me \in RequestState /\ Shape(me) /\ RequestSound(me, row, stored, fate)
      /\ Holds(me) = me.doomed \cup Carries(me)
      /\ row \in [Videos -> Row \cup {None}] /\ RowsSound(row, stored, fate)
    BY InHand
<1>2. me.pc = "remote" /\ row' = row
    BY DEF DeleteRemote, RemoteUnconfirmed, At
<1>3. a \in Assets /\ a \in Mentions(me) /\ Holds(me) = {} /\ Carries(me) = {} /\ me.doomed = {}
    BY <1>1, <1>2, CarriesMentioned DEF Shape, Carries
<1>4. \A w \in Videos : row[w] # None /\ row[w].asset = a => Spent(row[w])
    BY <1>1, <1>2 DEF RequestSound
<1>5. CASE Deleted(a, "purged")
  <2>1. /\ stored' = stored \ {a} /\ stored' \in SUBSET Assets
        /\ fate' \in [Assets -> Strays \cup Losses \cup {None}]
        /\ \A b \in Assets : b # a => fate'[b] = fate[b]
        /\ ~NamedIn(row, a) => fate'[a] = None
        /\ NamedIn(row, a) => fate'[a] \in Losses
    BY <1>3, <1>5, DeletedFacts DEF Losses
  <2>2. Removed(a, me)
    BY <1>3, <1>4, <2>1 DEF Removed
  <2>3. \A b \in Assets : Left(b, me, committing) \/ Removed(b, me)
    <3> SUFFICES ASSUME NEW b \in Assets, b # a PROVE Left(b, me, committing)
      BY <2>2
    <3> QED
      BY <1>3, <2>1 DEF Left
  <2>4. \A b \in Assets : Left(b, me, Idle) \/ Removed(b, me)
    <3> SUFFICES ASSUME NEW b \in Assets, b # a PROVE Left(b, me, Idle)
      BY <2>2
    <3> QED
      BY <1>3, <2>1 DEF Left
  <2>5. CASE Becomes(r, Idle)
    <3>1. RequestSound(Idle, row, stored', fate') /\ Carries(Idle) = {} /\ Mentions(Idle) = {None}
      BY IdleSound
    <3>2. \A b \in Assets : b \notin Mentions(Idle)
      BY <3>1, NoneIsApart
    <3> QED
      BY <1>2, <2>1, <2>4, <2>5, <3>1, <3>2, IdleFacts, RowlessKeeps
  <2>6. CASE Becomes(r, committing)
    <3>1. /\ committing \in RequestState /\ committing.pc = "commit" /\ committing.asset = a
          /\ committing.thumb = me.thumb /\ committing.old = me.old /\ committing.doomed = {}
          /\ committing.video = me.video
      BY <1>1, <1>3 DEF RequestState, Steps
    <3> HIDE DEF committing
    <3>2. Mentions(committing) = Mentions(me) /\ Carries(committing) = {} /\ Shape(committing)
      BY <1>1, <1>2, <1>3, <3>1 DEF Mentions, Carries, Shape
    <3>3. row[me.video] # None /\ row[me.video].source = "bunny" => row[me.video].asset \notin stored'
      BY <1>1, <1>2, <2>1 DEF RequestSound
    <3>4. RequestSound(committing, row, stored', fate')
      BY <3>1, <3>2, <3>3 DEF RequestSound
    <3> QED
      BY <1>2, <2>1, <2>3, <2>6, <3>1, <3>2, <3>4, RowlessKeeps
  <2> QED
    BY <2>5, <2>6 DEF DeleteRemote, RemoteUnconfirmed
<1>6. CASE UNCHANGED <<stored, fate>> /\ Becomes(r, Idle)
  <2>1. RequestSound(Idle, row, stored, fate) /\ Carries(Idle) = {} /\ Mentions(Idle) = {None}
    BY IdleSound
  <2>2. \A b \in Assets : b \notin Mentions(Idle)
    BY <2>1, NoneIsApart
  <2> QED
    BY <1>2, <1>3, <1>6, <2>1, <2>2, IdleFacts, LearnsKeeps
<1> QED
  <2>1. Deleted(a, "purged") \/ (UNCHANGED <<stored, fate>> /\ Becomes(r, Idle))
    BY DEF DeleteRemote, RemoteUnconfirmed
  <2> QED
    BY <1>5, <1>6, <2>1

LEMMA SweepKeeps ==
    ASSUME IInv, NEW r \in Requests, NEW a \in Assets, Sweep(r, a) \/ SweepFails(r, a)
    PROVE  IInv'
<1> DEFINE me == request[r]
           D == me.doomed \ {a}
           state == Sweeping(D)
<1>1. /\ me \in RequestState /\ Shape(me) /\ RequestSound(me, row, stored, fate)
      /\ Holds(me) = me.doomed \cup Carries(me)
    BY InHand
<1>2. me.pc = "sweep" /\ a \in me.doomed /\ Becomes(r, state) /\ row' = row
    BY DEF Sweep, SweepFails, At
<1>3. /\ me.doomed \subseteq Assets /\ me.doomed \subseteq Mentions(me)
      /\ D \subseteq Assets \cup {None} /\ D \ {None} = D
    BY <1>1, NoneIsApart, CarriesMentioned
<1>4. Carries(me) = {} /\ Holds(me) = me.doomed
    BY <1>1, <1>2 DEF Carries, Shape
<1>5. /\ state \in RequestState /\ Carries(state) = {} /\ Holds(state) = D
      /\ \A b \in Assets : b \in Mentions(state) => b \in D
    BY <1>3, SweepingFacts
<1>6. NamedIn(row, a) => fate[a] \in Losses
    BY <1>1, <1>2 DEF RequestSound
<1>7. fate \in [Assets -> Strays \cup Losses \cup {None}] /\ stored \in SUBSET Assets
    BY DEF IInv, TypeOK
<1>8. ASSUME \A b \in Assets : b # a => fate'[b] = fate[b] /\ (b \in stored' <=> b \in stored),
             NamedIn(row, a) => fate'[a] = fate[a],
             stored' \in SUBSET Assets, fate' \in [Assets -> Strays \cup Losses \cup {None}],
             Left(a, me, state) \/ WrittenOff(a, me) \/ Removed(a, me)
      PROVE  IInv'
  <2>1. \A b \in D \ {None} : NamedIn(row, b) => fate'[b] \in Losses
    BY <1>1, <1>3, <1>8 DEF RequestSound
  <2>2. RequestSound(state, row, stored', fate')
    BY <1>3, <2>1, SweepingSound
  <2>3. \A b \in Assets : b # a => Left(b, me, state)
    BY <1>4, <1>5, <1>8 DEF Left
  <2>4. \A b \in Assets : b \in Mentions(state) => b \in Mentions(me)
    BY <1>3, <1>5
  <2> HIDE DEF state, D
  <2> QED
    BY <1>2, <1>5, <1>8, <2>2, <2>3, <2>4, RowlessKeeps
<1>9. CASE Sweep(r, a)
  <2>1. Deleted(a, fate[a])
    BY <1>9 DEF Sweep
  <2>2. /\ stored' = stored \ {a} /\ stored' \in SUBSET Assets
        /\ fate' \in [Assets -> Strays \cup Losses \cup {None}]
        /\ \A b \in Assets : b # a => fate'[b] = fate[b]
        /\ ~NamedIn(row, a) => fate'[a] = None
        /\ NamedIn(row, a) => fate'[a] \in Losses /\ fate'[a] = fate[a]
    BY <1>6, <2>1, DeletedFacts
  <2>3. Removed(a, me)
    BY <1>2, <1>3, <2>2, RowsSpent, NoneIsApart DEF Removed, Losses
  <2> QED
    BY <1>8, <2>2, <2>3
<1>10. CASE SweepFails(r, a)
  <2>1. stored' = stored /\ fate' = IF a \in Named THEN fate ELSE WriteOff({a}, "unconfirmed")
    BY <1>10 DEF SweepFails
  <2>2. CASE NamedIn(row, a)
    <3>1. fate' = fate
      BY <2>1, <2>2, NamedIsNamedIn
    <3>2. Left(a, me, state)
      BY <2>1, <2>2, <3>1 DEF Left
    <3> QED
      BY <1>7, <1>8, <2>1, <3>1, <3>2
  <2>3. CASE ~NamedIn(row, a)
    <3>1. fate' = [b \in Assets |-> IF b \in {a} \cap stored THEN "unconfirmed" ELSE fate[b]]
      BY <2>1, <2>3, NamedIsNamedIn DEF WriteOff
    <3>2. fate' \in [Assets -> Strays \cup Losses \cup {None}]
      BY <1>7, <3>1 DEF Strays
    <3>3. Left(a, me, state) \/ WrittenOff(a, me)
      <4>1. CASE a \in stored
        BY <1>2, <1>4, <2>1, <2>3, <3>1, <4>1 DEF WrittenOff, Strays
      <4>2. CASE a \notin stored
        BY <2>1, <3>1, <4>2 DEF Left
      <4> QED
        BY <4>1, <4>2
    <3> QED
      BY <1>7, <1>8, <2>1, <2>3, <3>1, <3>2, <3>3
  <2> QED
    BY <2>2, <2>3
<1> QED
    BY <1>9, <1>10

-----------------------------------------------------------------------------
(* Steps that write a row.                                                  *)

Takes(n, a) == n # None /\ a \in {n.asset, n.thumb}

RowBecomes(v, n) ==
    /\ row' \in [Videos -> Row \cup {None}]
    /\ row'[v] = n
    /\ \A w \in Videos \ {v} : row'[w] = row[w]

\* What the other rows name is not touched.
Steady(v) == \A w \in Videos \ {v}, a \in Assets :
                 Has(row, w, a) => fate'[a] = fate[a] /\ (a \in stored' <=> a \in stored)

\* What v is to name was its own, or no row's, and is backed.
Backed(v, n) == \A a \in Assets : Takes(n, a) =>
                    /\ Has(row, v, a) \/ ~NamedIn(row, a)
                    /\ a \in stored' \/ fate'[a] \in Losses
                    /\ fate'[a] \notin Strays

\* A row changes in a way that a request has to expect.
RowMove(me, v, o, n) ==
    \/ /\ o # None
       /\ n.source \in {o.source, "plain"}
       /\ n.source = o.source => n.asset = o.asset
       /\ n.asset \in {o.asset, None}
       /\ n.thumb \in {o.thumb, None} \/ n.thumb \notin Mentions(me)
       /\ Spent(o) => Spent(n)
    \/ /\ o = None
       /\ v # me.video
       /\ n.asset = None \/ n.asset \notin Mentions(me)
       /\ n.thumb = None \/ n.thumb \notin Mentions(me)

LEMMA NamedAfter ==
    ASSUME NEW v \in Videos, NEW n, RowBecomes(v, n), NEW a \in Assets
    PROVE  /\ \A w \in Videos : Has(row', w, a) <=> IF w = v THEN Takes(n, a) ELSE Has(row, w, a)
           /\ NamedIn(row', a) <=> Takes(n, a) \/ \E w \in Videos \ {v} : Has(row, w, a)
           /\ NamedIn(row, a) <=> Has(row, v, a) \/ \E w \in Videos \ {v} : Has(row, w, a)
BY DEF RowBecomes, NamedIn, Has, Takes

LEMMA RowMovesSound ==
    ASSUME IInv, NEW v \in Videos, NEW n \in Row \cup {None}, RowBecomes(v, n),
           n # None => RowSound(n, fate'), Backed(v, n), Steady(v)
    PROVE  RowsSound(row', stored', fate')
<1>1. RowsSound(row, stored, fate) /\ row \in [Videos -> Row \cup {None}]
    BY DEF IInv, TypeOK
<1>2. ASSUME NEW w \in Videos, row'[w] # None PROVE RowSound(row'[w], fate')
  <2>1. CASE w = v
    BY <1>2, <2>1 DEF RowBecomes
  <2>2. CASE w # v
    <3>1. row'[w] = row[w] /\ RowSound(row[w], fate)
      BY <1>1, <1>2, <2>2 DEF RowBecomes, RowsSound
    <3>2. row[w].source = "bunny" => row[w].asset \in Assets /\ Has(row, w, row[w].asset)
      BY <1>2, <3>1 DEF RowSound, Has
    <3>3. row[w].source = "bunny" => fate'[row[w].asset] = fate[row[w].asset]
      BY <2>2, <3>2 DEF Steady
    <3> QED
      BY <3>1, <3>3 DEF RowSound
  <2> QED
    BY <2>1, <2>2
<1>3. ASSUME NEW w \in Videos, NEW x \in Videos, NEW a \in Assets, Has(row', w, a), Has(row', x, a)
      PROVE  w = x
  <2>1. Has(row, w, a) /\ Has(row, x, a) => w = x
    BY <1>1 DEF RowsSound
  <2>2. \/ w = v /\ Takes(n, a)
        \/ w # v /\ Has(row, w, a)
    BY <1>3, NamedAfter
  <2>3. \/ x = v /\ Takes(n, a)
        \/ x # v /\ Has(row, x, a)
    BY <1>3, NamedAfter
  <2>4. Takes(n, a) => Has(row, v, a) \/ ~NamedIn(row, a)
    BY DEF Backed
  <2> QED
    BY <2>1, <2>2, <2>3, <2>4 DEF NamedIn
<1>4. ASSUME NEW a \in Assets, NamedIn(row', a)
      PROVE  (a \in stored' \/ fate'[a] \in Losses) /\ fate'[a] \notin Strays
  <2>1. CASE Takes(n, a)
    BY <2>1 DEF Backed
  <2>2. CASE \E w \in Videos \ {v} : Has(row, w, a)
    <3>1. NamedIn(row, a) /\ fate'[a] = fate[a] /\ (a \in stored' <=> a \in stored)
      BY <2>2 DEF Steady, NamedIn
    <3> QED
      BY <1>1, <3>1 DEF RowsSound
  <2> QED
    BY <1>4, <2>1, <2>2, NamedAfter
<1> QED
    BY <1>2, <1>3, <1>4 DEF RowsSound

LEMMA OtherSeesRow ==
    ASSUME IInv, NEW q \in Requests, NEW v \in Videos, NEW n \in Row \cup {None}, RowBecomes(v, n),
           Steady(v),
           n # None => RowMove(request[q], v, row[v], n),
           row[v] # None /\ row[v].source = "bunny" /\ row[v].asset \notin stored => row[v].asset \notin stored',
           \A a \in Carries(request[q]) : a \in stored' /\ fate'[a] = None,
           \A a \in Assets : fate[a] \in Losses /\ NamedIn(row', a) => fate'[a] \in Losses
    PROVE  RequestSound(request[q], row', stored', fate')
<1> DEFINE you == request[q]
<1>1. /\ you \in RequestState /\ RequestSound(you, row, stored, fate) /\ RowsSound(row, stored, fate)
      /\ you.doomed \subseteq Assets
    BY InHand, CarriesMentioned
<1>2. ASSUME NEW w \in Videos, row[w] # None, row[w].source = "bunny", row[w].asset \notin stored
      PROVE  row[w].asset \notin stored'
  <2>1. row[w].asset \in Assets /\ Has(row, w, row[w].asset)
    BY <1>1, <1>2 DEF RowsSound, RowSound, Has
  <2> QED
    BY <1>2, <2>1 DEF Steady
<1>3. ASSUME NEW w \in Videos, row'[w] # None
      PROVE  RowMove(you, w, row[w], row'[w])
  <2>1. CASE w = v
    BY <1>3, <2>1 DEF RowBecomes
  <2>2. CASE w # v
    <3>1. row'[w] = row[w]
      BY <2>2 DEF RowBecomes
    <3> QED
      BY <1>3, <3>1 DEF RowMove
  <2> QED
    BY <2>1, <2>2
<1>4. WorldMoves(you, row, stored, row', stored')
    BY <1>2, <1>3 DEF WorldMoves, RowMove
<1> QED
    BY <1>1, <1>4, OtherKept

\* A request writes a row and then deletes D.
LEMMA RowingKeeps ==
    ASSUME IInv, NEW r \in Requests, NEW v \in Videos, NEW n \in Row \cup {None}, RowBecomes(v, n),
           NEW D \in SUBSET (Assets \cup {None}), Becomes(r, Sweeping(D)), stored' = stored,
           fate' \in [Assets -> Strays \cup Losses \cup {None}],
           n # None => RowSound(n, fate'), Backed(v, n),
           \A q \in Requests \ {r} : n # None => RowMove(request[q], v, row[v], n),
           \A a \in Assets : fate'[a] # fate[a] \/ Takes(n, a) => Has(row, v, a) \/ a \in Carries(request[r]),
           \A a \in Assets : fate[a] \in Losses /\ NamedIn(row', a) => fate'[a] \in Losses,
           \A a \in D \ {None} : a \in Mentions(request[r]) \/ NamedIn(row, a),
           \A a \in D \ {None} : NamedIn(row', a) => fate'[a] \in Losses,
           \A a \in Assets : Has(row, v, a) \/ a \in Holds(request[r]) =>
               AssetSound(a, row', stored, fate', a \in D)
    PROVE  IInv'
<1> DEFINE me == request[r]
           state == Sweeping(D)
<1>1. /\ me \in RequestState /\ Shape(me) /\ RequestSound(me, row, stored, fate)
      /\ RowsSound(row, stored, fate) /\ Carries(me) \subseteq Mentions(me)
      /\ Holds(me) = me.doomed \cup Carries(me)
    BY InHand, CarriesMentioned
<1>2. /\ state \in RequestState /\ Carries(state) = {} /\ Holds(state) = D \ {None}
      /\ \A a \in Assets : a \in Mentions(state) => a \in D
    BY SweepingFacts
<1>3. RequestSound(state, row', stored', fate')
    BY SweepingSound
<1>4. Steady(v)
  <2> SUFFICES ASSUME NEW w \in Videos \ {v}, NEW a \in Assets, Has(row, w, a)
               PROVE  fate'[a] = fate[a]
    BY DEF Steady
  <2>1. ~Has(row, v, a)
    BY <1>1 DEF RowsSound
  <2>2. a \notin Carries(me)
    BY <1>1 DEF RequestSound, NamedIn
  <2> QED
    BY <2>1, <2>2
<1>5. RowsSound(row', stored', fate')
    BY <1>4, RowMovesSound
<1>6. ASSUME NEW q \in Requests \ {r}
      PROVE  /\ RequestSound(request[q], row', stored', fate')
             /\ Apart(state, request[q]) /\ Apart(request[q], state)
  <2>1. /\ Apart(me, request[q]) /\ Apart(request[q], me)
        /\ RequestSound(request[q], row, stored, fate) /\ Carries(request[q]) \subseteq Assets
        /\ Carries(request[q]) \subseteq Mentions(request[q])
    BY InHand, CarriesMentioned DEF IInv
  <2>2. ASSUME NEW a \in Carries(request[q]) PROVE a \in stored' /\ fate'[a] = None
    <3>1. a \in Assets /\ ~NamedIn(row, a) /\ a \notin Carries(me) /\ fate[a] = None /\ a \in stored
      BY <1>1, <2>1 DEF RequestSound, Apart
    <3>2. fate'[a] = fate[a]
      BY <3>1 DEF NamedIn
    <3> QED
      BY <3>1, <3>2
  <2>3. RequestSound(request[q], row', stored', fate')
    BY <1>4, <2>2, OtherSeesRow
  <2>4. Apart(state, request[q])
    BY <1>2 DEF Apart
  <2>5. Apart(request[q], state)
    BY <1>2, <2>1, NoneIsApart DEF Apart, RequestSound
  <2> QED
    BY <2>3, <2>4, <2>5
<1>7. ASSUME NEW a \in Assets
      PROVE  AssetSound(a, row', stored', fate',
                 a \in Holds(state) \/ \E q \in Requests \ {r} : a \in Holds(request[q]))
  <2>1. a \in Holds(state) <=> a \in D
    BY <1>2, NoneIsApart
  <2>2. CASE Has(row, v, a) \/ a \in Holds(me)
    <3>1. AssetSound(a, row', stored, fate', a \in D)
      BY <2>2
    <3> QED
      BY <2>1, <3>1 DEF AssetSound
  <2>3. CASE ~Has(row, v, a) /\ a \notin Holds(me)
    <3>1. fate'[a] = fate[a] /\ ~Takes(n, a)
      BY <1>1, <2>3
    <3>2. NamedIn(row', a) <=> NamedIn(row, a)
      BY <2>3, <3>1, NamedAfter
    <3>3. AssetSound(a, row, stored, fate, HeldBy(request, a))
      BY DEF IInv
    <3>4. HeldBy(request, a) => \E q \in Requests \ {r} : a \in Holds(request[q])
      BY <2>3 DEF HeldBy
    <3> QED
      BY <3>1, <3>2, <3>3, <3>4 DEF AssetSound
  <2> QED
    BY <2>2, <2>3
<1>8. /\ request' = [request EXCEPT ![r] = state] /\ row' \in [Videos -> Row \cup {None}]
      /\ stored' \in SUBSET Assets
    BY DEF Becomes, RowBecomes, IInv, TypeOK
<1> HIDE DEF state, me
<1> QED
    BY <1>2, <1>3, <1>5, <1>6, <1>7, <1>8, StepKeeps

LEMMA InsertKeeps ==
    ASSUME IInv, NEW r \in Requests, NEW v \in Videos, Insert(r, v) \/ InsertUnanswered(r, v)
    PROVE  IInv'
<1> DEFINE me == request[r]
           n == NewRow(me)
           D == IF InsertUnanswered(r, v) THEN {me.asset} ELSE {}
<1>1. /\ me.pc = "insert" /\ row[v] = None /\ row' = [row EXCEPT ![v] = n] /\ stored' = stored
      /\ \A q \in Requests : request[q].video # v
    BY DEF Insert, InsertUnanswered, At, NewVideo, Exists
<1>2. /\ me \in RequestState /\ Shape(me) /\ RequestSound(me, row, stored, fate)
      /\ row \in [Videos -> Row \cup {None}]
    BY InHand
<1>3. /\ fate \in [Assets -> Strays \cup Losses \cup {None}]
      /\ \A q \in Requests \ {r} : Apart(me, request[q])
    BY DEF IInv, TypeOK
<1>4. /\ n \in Row /\ n.source = me.source /\ n.asset = me.asset /\ n.thumb = me.thumb
    BY <1>2 DEF NewRow, RequestState, Row
<1>5. D \in SUBSET (Assets \cup {None}) /\ (\A a \in D : a = me.asset) /\ Becomes(r, Sweeping(D))
  <2>1. CASE InsertUnanswered(r, v)
    BY <1>2, <2>1 DEF InsertUnanswered, RequestState
  <2>2. CASE ~InsertUnanswered(r, v)
    BY <2>2 DEF Insert, Sweeping
  <2> QED
    BY <2>1, <2>2
<1>6. ASSUME NEW a \in Assets
      PROVE  (fate'[a] = fate[a] /\ a \notin D) \/ (fate'[a] = "undone" /\ a = me.asset)
  <2>1. CASE InsertUnanswered(r, v)
    <3>1. fate' = [fate EXCEPT ![me.asset] = "undone"] /\ D = {me.asset}
      BY <2>1 DEF InsertUnanswered
    <3> QED
      BY <1>3, <3>1
  <2>2. CASE ~InsertUnanswered(r, v)
    BY <2>2 DEF Insert
  <2> QED
    BY <2>1, <2>2
<1>7. fate' \in [Assets -> Strays \cup Losses \cup {None}]
  <2>1. fate' = fate \/ fate' = [fate EXCEPT ![me.asset] = "undone"]
    BY DEF Insert, InsertUnanswered
  <2> QED
    BY <1>3, <2>1 DEF Losses
<1> HIDE DEF n, D, me
<1>8. RowBecomes(v, n) /\ n # None
    BY <1>1, <1>2, <1>4, NoneIsApart DEF RowBecomes
<1>9. Carries(me) = {me.asset, me.thumb} \ {None} /\ Holds(me) = Carries(me)
    BY <1>1, <1>2, HoldsIs DEF Carries, Shape
<1>10. ASSUME NEW a \in Assets, a \in {me.asset, me.thumb}
       PROVE  /\ a \in Carries(me) /\ a \in stored /\ fate[a] = None /\ ~NamedIn(row, a)
              /\ \A q \in Requests \ {r} : a \notin Mentions(request[q])
  <2>1. a \in Carries(me)
    BY <1>9, <1>10, NoneIsApart
  <2> QED
    BY <1>2, <1>3, <2>1 DEF RequestSound, Apart
<1>11. RowSound(n, fate')
  <2>1. me.source = "bunny" => fate'[me.asset] # "purged"
    <3>1. me.source = "bunny" => me.asset \in Assets
      BY <1>1, <1>2 DEF Shape
    <3> QED
      BY <1>6, <1>10, <3>1, NoneIsApart DEF Losses
  <2> QED
    BY <1>1, <1>2, <1>4, <2>1 DEF RowSound, Shape
<1>12. \A a \in Assets : Takes(n, a) <=> a \in {me.asset, me.thumb}
    BY <1>4, <1>8 DEF Takes
<1>13. Backed(v, n)
  <2> SUFFICES ASSUME NEW a \in Assets, Takes(n, a)
               PROVE  ~NamedIn(row, a) /\ a \in stored /\ fate'[a] \notin Strays
    BY <1>1 DEF Backed
  <2>1. "undone" \notin Strays /\ None \notin Strays
    BY NoneIsApart DEF Strays
  <2> QED
    BY <1>6, <1>10, <1>12, <2>1
<1>14. ASSUME NEW q \in Requests \ {r}
       PROVE  RowMove(request[q], v, row[v], n)
  <2>1. n.asset = None \/ n.asset \notin Mentions(request[q])
    BY <1>2, <1>4, <1>10 DEF RequestState
  <2>2. n.thumb = None \/ n.thumb \notin Mentions(request[q])
    BY <1>2, <1>4, <1>10 DEF RequestState
  <2> QED
    BY <1>1, <2>1, <2>2 DEF RowMove
<1>15. \A a \in Assets : fate'[a] # fate[a] \/ Takes(n, a) => a \in Carries(me)
    BY <1>6, <1>10, <1>12
<1>16. \A a \in Assets : fate[a] \in Losses /\ NamedIn(row', a) => fate'[a] \in Losses
    BY <1>6 DEF Losses
<1>17. \A a \in D \ {None} : a \in Mentions(me) /\ fate'[a] \in Losses
  <2>1. me.asset \in Mentions(me)
    BY DEF Mentions
  <2>2. \A a \in D \ {None} : a \in Assets
    BY <1>5
  <2> QED
    BY <1>5, <1>6, <2>1, <2>2 DEF Losses
<1>18. ASSUME NEW a \in Assets, Has(row, v, a) \/ a \in Holds(me)
       PROVE  AssetSound(a, row', stored, fate', a \in D)
  <2>1. a \in {me.asset, me.thumb}
    BY <1>1, <1>9, <1>18 DEF Has
  <2>2. NamedIn(row', a) /\ fate'[a] # "purged"
    BY <1>6, <1>8, <1>10, <1>12, <2>1, NamedAfter, NoneIsApart DEF Losses
  <2> QED
    BY <2>2 DEF AssetSound
<1> QED
    BY <1>1, <1>4, <1>5, <1>7, <1>8, <1>11, <1>13, <1>14, <1>15, <1>16, <1>17, <1>18, RowingKeeps DEF me

\* The row takes the poster that r has in hand, or none; the one it named until now is
\* written off, or r deletes it.
LEMMA SwappingKeeps ==
    ASSUME IInv, NEW r \in Requests, request[r].pc = "swap", Exists(request[r].video),
           row' = [row EXCEPT ![request[r].video].thumb = request[r].thumb], stored' = stored,
           fate' \in [Assets -> Strays \cup Losses \cup {None}],
           NEW D \in SUBSET (Assets \cup {None}), Becomes(r, Sweeping(D)),
           \A a \in Assets : a # row[request[r].video].thumb =>
               fate'[a] = fate[a] \/ (a = request[r].thumb /\ fate'[a] = "undone"),
           \A a \in Assets : a = row[request[r].video].thumb =>
               IF a \in stored THEN fate'[a] \in Strays \/ (a \in D /\ fate'[a] = fate[a])
                               ELSE fate'[a] = None,
           \A a \in D \ {None} : a = request[r].old \/ (a = request[r].thumb /\ fate'[a] = "undone")
    PROVE  IInv'
<1> DEFINE me == request[r]
           v == me.video
           o == row[v]
           n == [o EXCEPT !.thumb = me.thumb]
<1>1. /\ me \in RequestState /\ Shape(me) /\ RequestSound(me, row, stored, fate)
      /\ row \in [Videos -> Row \cup {None}] /\ Holds(me) = me.doomed \cup Carries(me)
    BY InHand
<1>2. v \in Videos /\ me.doomed = {} /\ Carries(me) = {me.thumb} \ {None}
    BY <1>1 DEF Shape, Carries
<1>3. /\ o \in Row /\ RowSound(o, fate) /\ o # None
      /\ o.asset # None => o.asset \in Assets /\ NamedIn(row, o.asset)
      /\ o.thumb # None => o.thumb \in Assets /\ NamedIn(row, o.thumb)
    BY <1>2, NamedFacts DEF Exists
<1>4. RowsSound(row, stored, fate) /\ \A q \in Requests \ {r} : Apart(me, request[q])
    BY DEF IInv
<1>5. /\ n \in Row /\ n.source = o.source /\ n.asset = o.asset /\ n.thumb = me.thumb
      /\ n.disabled = o.disabled /\ n.restored = o.restored
    BY <1>1, <1>3 DEF Row, RequestState
<1>6. Spent(o) => Spent(n)
    BY <1>5, Zenon DEF Spent
<1>7. row' = [row EXCEPT ![v] = n]
    BY <1>1, <1>2
<1> HIDE DEF n
<1>8. RowBecomes(v, n) /\ n # None
    BY <1>1, <1>2, <1>5, <1>7, NoneIsApart DEF RowBecomes
<1>9. me.thumb # None => /\ me.thumb \in Assets /\ me.thumb \in stored /\ fate[me.thumb] = None
                         /\ ~NamedIn(row, me.thumb)
                         /\ \A q \in Requests \ {r} : me.thumb \notin Mentions(request[q])
    BY <1>1, <1>2, <1>4 DEF RequestSound, RequestState, Apart
<1>10. o.source # "bunny" /\ (me.old # None => me.old # me.thumb
          /\ \A w \in Videos : Has(row, w, me.old) => w = v /\ row[w].asset # me.old)
    BY <1>1, <1>3 DEF RequestSound, Shape
<1>11. \A a \in Assets : /\ Takes(n, a) <=> a \in {o.asset, me.thumb}
                         /\ Has(row, v, a) <=> a \in {o.asset, o.thumb}
    BY <1>3, <1>5, <1>8 DEF Takes, Has
<1>12. ASSUME NEW a \in Assets, a = o.asset
       PROVE  a # o.thumb /\ a # me.thumb /\ fate'[a] = fate[a]
    BY <1>3, <1>9, <1>12, NoneIsApart DEF RowSound
<1>13. ASSUME NEW a \in Assets, a = me.thumb
       PROVE  a # o.thumb /\ a # o.asset /\ fate'[a] \in {None, "undone"} /\ a \in stored /\ ~NamedIn(row, a)
    BY <1>3, <1>9, <1>13, NoneIsApart
<1>14. ASSUME NEW a \in Assets, a = o.thumb PROVE ~NamedIn(row', a)
  <2>1. ~Takes(n, a)
    BY <1>11, <1>12, <1>13, <1>14
  <2>2. \A w \in Videos \ {v} : ~Has(row, w, a)
    BY <1>2, <1>4, <1>11, <1>14 DEF RowsSound
  <2> QED
    BY <1>2, <1>8, <2>1, <2>2, NamedAfter
<1>15. RowSound(n, fate')
    BY <1>3, <1>5, <1>10, <1>12 DEF RowSound
<1>16. Backed(v, n)
  <2> SUFFICES ASSUME NEW a \in Assets, Takes(n, a)
               PROVE  /\ Has(row, v, a) \/ ~NamedIn(row, a)
                      /\ a \in stored' \/ fate'[a] \in Losses
                      /\ fate'[a] \notin Strays
    BY DEF Backed
  <2>1. CASE a = o.asset
    <3>1. (a \in stored \/ fate[a] \in Losses) /\ fate[a] \notin Strays
      BY <1>3, <1>4, <2>1, NoneIsApart DEF RowsSound
    <3> QED
      BY <1>11, <1>12, <2>1, <3>1
  <2>2. CASE a = me.thumb
    BY <1>13, <2>2, NoneIsApart DEF Strays
  <2> QED
    BY <1>11, <2>1, <2>2
<1>17. ASSUME NEW q \in Requests \ {r} PROVE RowMove(request[q], v, row[v], n)
    BY <1>3, <1>5, <1>6, <1>9 DEF RowMove
<1>18. \A a \in Assets : fate'[a] # fate[a] \/ Takes(n, a) => Has(row, v, a) \/ a \in Carries(me)
    BY <1>2, <1>11, NoneIsApart
<1>19. \A a \in Assets : fate[a] \in Losses /\ NamedIn(row', a) => fate'[a] \in Losses
    BY <1>14 DEF Losses
<1>20. ASSUME NEW a \in D \ {None} PROVE a \in Mentions(me) /\ (NamedIn(row', a) => fate'[a] \in Losses)
  <2>1. CASE a = me.old
    <3>1. a \in Assets /\ a \in Mentions(me)
      BY <1>20, <2>1 DEF Mentions
    <3>2. ~Takes(n, a)
      <4>1. a # me.thumb
        BY <1>10, <2>1
      <4>2. a # o.asset
        BY <1>2, <1>10, <1>11, <2>1, <3>1, NoneIsApart
      <4> QED
        BY <1>11, <3>1, <4>1, <4>2
    <3>3. \A w \in Videos \ {v} : ~Has(row, w, a)
      BY <1>10, <2>1
    <3> QED
      BY <1>2, <1>8, <3>1, <3>2, <3>3, NamedAfter
  <2>2. CASE a = me.thumb /\ fate'[a] = "undone"
    BY <2>2 DEF Mentions, Losses
  <2> QED
    BY <2>1, <2>2
<1>21. ASSUME NEW a \in Assets, Has(row, v, a) \/ a \in Holds(me)
       PROVE  AssetSound(a, row', stored, fate', a \in D)
  <2>1. AssetSound(a, row, stored, fate, HeldBy(request, a))
    BY DEF IInv
  <2>2. a \in {o.asset, o.thumb, me.thumb}
    BY <1>1, <1>2, <1>11, <1>21
  <2>3. CASE a \in {o.asset, me.thumb}
    <3>1. NamedIn(row', a)
      BY <1>2, <1>8, <1>11, <2>3, NamedAfter
    <3>2. fate'[a] = "purged" => a \notin stored
      BY <1>12, <1>13, <2>1, <2>3, NoneIsApart DEF AssetSound, Losses
    <3> QED
      BY <3>1, <3>2 DEF AssetSound
  <2>4. CASE a = o.thumb
    <3>1. fate'[a] # "purged"
      BY <2>1, <2>4, NoneIsApart DEF AssetSound, Strays, Losses
    <3> QED
      BY <1>14, <2>4, <3>1 DEF AssetSound
  <2> QED
    BY <2>2, <2>3, <2>4
<1> HIDE DEF me
<1> QED
    BY <1>2, <1>5, <1>8, <1>15, <1>16, <1>17, <1>18, <1>19, <1>20, <1>21, RowingKeeps DEF me

LEMMA SwapKeeps ==
    ASSUME IInv, NEW r \in Requests, Swap(r) \/ SwapUnanswered(r)
    PROVE  IInv'
<1> DEFINE me == request[r]
           thumb == row[me.video].thumb
           D == IF Swap(r) THEN {me.old} ELSE IF me.source = "file" THEN {me.thumb} ELSE {}
<1>1. /\ me.pc = "swap" /\ Exists(me.video) /\ stored' = stored
      /\ row' = [row EXCEPT ![me.video].thumb = me.thumb]
    BY DEF Swap, SwapUnanswered, Swapped, At
<1>2. me \in RequestState /\ fate \in [Assets -> Strays \cup Losses \cup {None}]
    BY DEF IInv, TypeOK
<1>3. D \in SUBSET (Assets \cup {None})
    BY <1>2 DEF RequestState
<1>4. CASE Swap(r)
  <2>1. /\ fate' = [a \in Assets |-> IF a # thumb THEN fate[a]
                                     ELSE IF a \notin stored THEN None
                                     ELSE IF a = me.old THEN fate[a] ELSE "overtaken"]
        /\ Becomes(r, Sweeping({me.old})) /\ D = {me.old}
    BY <1>4 DEF Swap, Swapped
  <2>2. fate' \in [Assets -> Strays \cup Losses \cup {None}]
    BY <1>2, <2>1 DEF Strays
  <2>3. \A a \in Assets : a # thumb => fate'[a] = fate[a]
    BY <2>1
  <2>4. \A a \in Assets : a = thumb =>
            IF a \in stored THEN fate'[a] \in Strays \/ (a \in D /\ fate'[a] = fate[a]) ELSE fate'[a] = None
    BY <2>1 DEF Strays
  <2>5. \A a \in D \ {None} : a = me.old
    BY <2>1
  <2>6. Becomes(r, Sweeping(D))
    BY <2>1
  <2> HIDE DEF D
  <2> QED
    BY <1>1, <1>3, <2>2, <2>3, <2>4, <2>5, <2>6, SwappingKeeps
<1>5. CASE ~Swap(r)
  <2>1. /\ fate' = [a \in Assets |-> IF a = thumb THEN IF a \in stored THEN "uncompensated" ELSE None
                                     ELSE IF a = me.thumb /\ me.source = "file" THEN "undone" ELSE fate[a]]
        /\ Becomes(r, IF me.source = "file" THEN Sweeping({me.thumb}) ELSE Idle)
        /\ D = IF me.source = "file" THEN {me.thumb} ELSE {}
    BY <1>5 DEF SwapUnanswered
  <2>2. fate' \in [Assets -> Strays \cup Losses \cup {None}]
    BY <1>2, <2>1 DEF Strays, Losses
  <2>3. \A a \in Assets : a # thumb => fate'[a] = fate[a] \/ (a = me.thumb /\ fate'[a] = "undone")
    BY <2>1
  <2>4. \A a \in Assets : a = thumb =>
            IF a \in stored THEN fate'[a] \in Strays \/ (a \in D /\ fate'[a] = fate[a]) ELSE fate'[a] = None
    BY <2>1 DEF Strays
  <2>5. \A a \in D \ {None} : a = me.thumb /\ fate'[a] = "undone"
    <3> SUFFICES ASSUME NEW a \in D \ {None} PROVE a = me.thumb /\ fate'[a] = "undone"
      OBVIOUS
    <3>1. a = me.thumb /\ me.source = "file" /\ a \in Assets
      BY <1>3, <2>1
    <3>2. a # thumb
      <4>1. RequestSound(me, row, stored, fate) /\ Shape(me)
        BY InHand
      <4>2. ~NamedIn(row, a)
        BY <1>1, <3>1, <4>1, NoneIsApart DEF RequestSound, Carries
      <4> QED
        BY <1>1, <3>1, <4>1, <4>2 DEF NamedIn, Has, Shape, Exists
    <3> QED
      BY <2>1, <3>1, <3>2
  <2>6. Becomes(r, Sweeping(D))
    BY <2>1 DEF Sweeping
  <2> HIDE DEF D
  <2> QED
    BY <1>1, <1>3, <2>2, <2>3, <2>4, <2>5, <2>6, SwappingKeeps
<1> QED
    BY <1>4, <1>5

LEMMA PurgeCommitKeeps ==
    ASSUME IInv, NEW r \in Requests, PurgeCommit(r)
    PROVE  IInv'
<1> DEFINE me == request[r]
           v == me.video
           o == row[v]
           dropsAsset == o.source = "file" \/ (o.source = "cloud" /\ me.asked)
           D == {o.thumb} \cup (IF dropsAsset THEN {o.asset} ELSE {})
<1>1. /\ me.pc = "commit" /\ Exists(v) /\ row' = [row EXCEPT ![v] = None] /\ stored' = stored
      /\ Becomes(r, Sweeping(D))
      /\ fate' = [a \in Assets |-> IF a \notin Names(v) THEN fate[a]
                                   ELSE IF a \in stored \ D /\ ~me.asked THEN "kept" ELSE None]
    BY DEF PurgeCommit, At
<1>2. /\ me \in RequestState /\ Shape(me) /\ RequestSound(me, row, stored, fate)
      /\ row \in [Videos -> Row \cup {None}] /\ Holds(me) = me.doomed \cup Carries(me)
    BY InHand
<1>3. v \in Videos /\ Holds(me) = {}
    BY <1>1, <1>2 DEF Shape, Carries
<1>4. /\ o \in Row /\ RowSound(o, fate) /\ o # None
      /\ o.asset # None => o.asset \in Assets /\ NamedIn(row, o.asset)
      /\ o.thumb # None => o.thumb \in Assets /\ NamedIn(row, o.thumb)
    BY <1>1, <1>3, NamedFacts DEF Exists
<1>5. RowsSound(row, stored, fate) /\ fate \in [Assets -> Strays \cup Losses \cup {None}]
    BY DEF IInv, TypeOK
<1>6. me.asked /\ o.source = "bunny" => o.asset \notin stored
    BY <1>1, <1>2, <1>4, Zenon DEF RequestSound
<1>7. ~dropsAsset /\ me.asked => o.source \in {"bunny", "plain"}
    BY <1>4 DEF Row, Sources
<1>8. D \in SUBSET (Assets \cup {None}) /\ (\A a \in D : a \in {o.asset, o.thumb}) /\ o.thumb \in D
    BY <1>4 DEF Row
<1>9. o.asset \in D \/ (me.asked => o.asset = None \/ o.asset \notin stored)
    BY <1>4, <1>6, <1>7 DEF RowSound
<1>10. \A a \in Assets : /\ a \in Names(v) <=> a \in {o.asset, o.thumb}
                         /\ Has(row, v, a) <=> a \in {o.asset, o.thumb}
    BY <1>1, <1>4, NoneIsApart DEF Names, OwnAsset, OwnThumb, Has
<1>11. RowBecomes(v, None)
    BY <1>1, <1>2, <1>3 DEF RowBecomes
<1> DEFINE asked == me.asked
<1>12. asked \in BOOLEAN
    BY <1>2 DEF RequestState
<1>13. \A a \in Assets : fate'[a] = IF a \notin {o.asset, o.thumb} THEN fate[a]
                                   ELSE IF a \in stored \ D /\ ~asked THEN "kept" ELSE None
    BY <1>1, <1>10
<1>14. o.asset \in D \/ (asked => o.asset = None \/ o.asset \notin stored)
    BY <1>9
<1> HIDE DEF asked, D, dropsAsset
<1>15. fate' \in [Assets -> Strays \cup Losses \cup {None}]
  <2>1. fate' = [a \in Assets |-> fate'[a]]
    BY <1>1
  <2>2. \A a \in Assets : fate'[a] \in Strays \cup Losses \cup {None}
    BY <1>5, <1>13 DEF Strays
  <2> QED
    BY <2>1, <2>2
<1>16. \A a \in Assets : a \in {o.asset, o.thumb} => ~NamedIn(row', a)
  <2> SUFFICES ASSUME NEW a \in Assets, a \in {o.asset, o.thumb} PROVE ~NamedIn(row', a)
    OBVIOUS
  <2>1. ~Takes(None, a)
    BY DEF Takes
  <2>2. \A w \in Videos \ {v} : ~Has(row, w, a)
    BY <1>3, <1>5, <1>10 DEF RowsSound
  <2> QED
    BY <1>3, <1>11, <2>1, <2>2, NamedAfter
<1>17. Backed(v, None)
    BY DEF Backed, Takes
<1>18. \A a \in Assets : fate'[a] # fate[a] \/ Takes(None, a) => Has(row, v, a)
    BY <1>10, <1>13 DEF Takes
<1>19. \A a \in Assets : fate[a] \in Losses /\ NamedIn(row', a) => fate'[a] \in Losses
    BY <1>13, <1>16
<1>20. \A a \in D \ {None} : a \in Assets /\ NamedIn(row, a) /\ ~NamedIn(row', a)
    BY <1>4, <1>8, <1>16
<1>21. ASSUME NEW a \in Assets, Has(row, v, a) \/ a \in Holds(me)
       PROVE  AssetSound(a, row', stored, fate', a \in D)
  <2>1. a \in {o.asset, o.thumb} /\ ~NamedIn(row', a) /\ fate'[a] \in {"kept", None}
    BY <1>3, <1>10, <1>13, <1>16, <1>21
  <2>2. a \notin stored => fate'[a] = None
    BY <1>13, <2>1
  <2>3. a \in stored /\ a \notin D => fate'[a] = "kept"
    BY <1>8, <1>12, <1>13, <1>14, <2>1, NoneIsApart
  <2> QED
    BY <2>1, <2>2, <2>3, NoneIsApart DEF AssetSound, Strays, Losses
<1> DEFINE n == None
<1>22. n \in Row \cup {None} /\ n = None /\ RowBecomes(v, n) /\ Backed(v, n)
       /\ \A a \in Assets : fate'[a] # fate[a] \/ Takes(n, a) => Has(row, v, a)
    BY <1>11, <1>17, <1>18
<1>23. D \in SUBSET (Assets \cup {None}) /\ Becomes(r, Sweeping(D)) /\ stored' = stored
    BY <1>1, <1>8
<1> HIDE DEF me, n
<1> QED
    BY <1>3, <1>15, <1>19, <1>20, <1>21, <1>22, <1>23, RowingKeeps DEF me

-----------------------------------------------------------------------------
(* Steps of nobody in particular.                                           *)

LEMMA WorldKeeps ==
    ASSUME IInv, request' = request, row' \in [Videos -> Row \cup {None}], stored' \in SUBSET Assets,
           fate' \in [Assets -> Strays \cup Losses \cup {None}],
           \A q \in Requests : RequestSound(request[q], row', stored', fate'),
           RowsSound(row', stored', fate'),
           \A a \in Assets : AssetSound(a, row', stored', fate', HeldBy(request, a))
    PROVE  IInv'
<1>1. TypeOK'
    BY DEF IInv, TypeOK
<1>2. \A q \in Requests : RequestSound(request'[q], row', stored', fate')
    OBVIOUS
<1>3. \A p, q \in Requests : p # q => Apart(request'[p], request'[q])
    BY DEF IInv
<1>4. \A a \in Assets : AssetSound(a, row', stored', fate', HeldBy(request', a))
    OBVIOUS
<1> QED
    BY <1>1, <1>2, <1>3, <1>4 DEF IInv

LEMMA CompleteUploadKeeps ==
    ASSUME IInv, NEW v \in Videos, NEW a \in Assets, NEW b \in Assets \cup {None}, CompleteUpload(v, a, b)
    PROVE  IInv'
<1> DEFINE n == [source |-> "file", disabled |-> FALSE, asset |-> a, thumb |-> b, restored |-> FALSE]
<1>1. /\ row[v] = None /\ row' = [row EXCEPT ![v] = n] /\ fate' = fate /\ request' = request
      /\ stored' = stored \cup ({a, b} \ {None}) /\ b # a
      /\ \A q \in Requests : request[q].video # v
    BY NoneIsApart DEF CompleteUpload, NewVideo, Exists
<1>2. Fresh(a) /\ (b # None => Fresh(b))
    BY DEF CompleteUpload
<1>3. \A x \in {a, b} \ {None} : x \in Assets /\ Unseen(x) /\ fate[x] = None
    BY <1>2, FreshIsUnseen
<1>4. /\ n \in Row /\ n.source = "file" /\ n.asset = a /\ n.thumb = b
    BY DEF Row, Sources
<1>5. /\ row \in [Videos -> Row \cup {None}] /\ RowsSound(row, stored, fate) /\ stored \in SUBSET Assets
      /\ fate \in [Assets -> Strays \cup Losses \cup {None}]
    BY DEF IInv, TypeOK
<1> HIDE DEF n
<1>6. RowBecomes(v, n) /\ n # None
    BY <1>1, <1>4, <1>5, NoneIsApart DEF RowBecomes
<1>7. \A x \in Assets : Takes(n, x) <=> x \in {a, b} \ {None}
    BY <1>4, <1>6, NoneIsApart DEF Takes
<1>8. RowSound(n, fate')
    BY <1>1, <1>4, NoneIsApart DEF RowSound
<1>9. Backed(v, n)
    BY <1>1, <1>3, <1>7, NoneIsApart DEF Backed, Unseen
<1>10. Steady(v)
    BY <1>1, <1>3 DEF Steady, Unseen, NamedIn
<1>11. RowsSound(row', stored', fate')
    BY <1>4, <1>6, <1>8, <1>9, <1>10, RowMovesSound
<1>12. ASSUME NEW q \in Requests PROVE RequestSound(request[q], row', stored', fate')
  <2>1. RowMove(request[q], v, row[v], n)
    BY <1>1, <1>3, <1>4, NoneIsApart DEF RowMove, Unseen
  <2>2. \A x \in Carries(request[q]) : x \in stored' /\ fate'[x] = None
    BY <1>1, InHand DEF RequestSound
  <2> QED
    BY <1>1, <1>4, <1>6, <1>10, <2>1, <2>2, OtherSeesRow
<1>13. ASSUME NEW x \in Assets PROVE AssetSound(x, row', stored', fate', HeldBy(request, x))
  <2>1. CASE x \in {a, b}
    <3>1. NamedIn(row', x)
      BY <1>6, <1>7, <2>1, NoneIsApart, NamedAfter
    <3> QED
      BY <1>1, <1>3, <2>1, <3>1, NoneIsApart DEF AssetSound, Losses
  <2>2. CASE x \notin {a, b}
    <3>1. NamedIn(row', x) <=> NamedIn(row, x)
      BY <1>1, <1>6, <1>7, <2>2, NamedAfter DEF Has
    <3>2. AssetSound(x, row, stored, fate, HeldBy(request, x))
      BY DEF IInv
    <3> QED
      BY <1>1, <2>2, <3>1, <3>2 DEF AssetSound
  <2> QED
    BY <2>1, <2>2
<1>14. row' \in [Videos -> Row \cup {None}] /\ stored' \in SUBSET Assets
    BY <1>1, <1>5, <1>6 DEF RowBecomes
<1> QED
    BY <1>1, <1>5, <1>11, <1>12, <1>13, <1>14, WorldKeeps

\* An edit of the row v that stores and deletes nothing, and drops S from what v names.
LEMMA EditKeeps ==
    ASSUME IInv, NEW v \in Videos, NEW n \in Row, NEW S, RowBecomes(v, n), row[v] # None, stored' = stored,
           request' = request, fate' \in [Assets -> Strays \cup Losses \cup {None}],
           n.source \in {row[v].source, "plain"}, n.source = row[v].source => n.asset = row[v].asset,
           n.source = "plain" => n.asset = None,
           n.asset = IF row[v].asset \in S THEN None ELSE row[v].asset,
           n.thumb = IF row[v].thumb \in S THEN None ELSE row[v].thumb,
           Spent(row[v]) => Spent(n),
           \A a \in Assets : IF Has(row, v, a) /\ a \in S
                             THEN fate'[a] = IF a \in stored THEN "disowned" ELSE None
                             ELSE fate'[a] = fate[a]
    PROVE  IInv'
<1> DEFINE o == row[v]
<1>1. /\ o \in Row /\ RowSound(o, fate)
      /\ o.asset # None => o.asset \in Assets /\ NamedIn(row, o.asset)
      /\ o.thumb # None => o.thumb \in Assets /\ NamedIn(row, o.thumb)
    BY NamedFacts DEF Exists
<1>2. RowsSound(row, stored, fate) /\ stored \in SUBSET Assets
    BY DEF IInv, TypeOK
<1>3. n # None
    BY NoneIsApart
<1>4. \A a \in Assets : Takes(n, a) <=> Has(row, v, a) /\ a \notin S
    BY <1>3, NoneIsApart DEF Takes, Has
<1>5. \A a \in Assets : Takes(n, a) => fate'[a] = fate[a]
    BY <1>4
<1>6. RowSound(n, fate')
  <2>1. n.source = "bunny" => n.asset = o.asset /\ o.source = "bunny"
    OBVIOUS
  <2>2. n.source = "bunny" => n.asset \in Assets /\ n.thumb = None /\ fate'[n.asset] = fate[o.asset]
    BY <1>1, <1>3, <1>5, <2>1 DEF RowSound, Takes
  <2>3. n.asset # None => n.asset # n.thumb
    BY <1>1 DEF RowSound
  <2> QED
    BY <1>1, <2>1, <2>2, <2>3 DEF RowSound
<1>7. Backed(v, n)
    BY <1>2, <1>4, <1>5 DEF Backed, RowsSound, NamedIn
<1>8. Steady(v)
    BY <1>2 DEF Steady, RowsSound
<1>9. RowsSound(row', stored', fate')
    BY <1>6, <1>7, <1>8, RowMovesSound
<1>10. ASSUME NEW a \in Assets
       PROVE  NamedIn(row', a) <=> NamedIn(row, a) /\ ~(Has(row, v, a) /\ a \in S)
  <2>1. Has(row, v, a) => \A w \in Videos \ {v} : ~Has(row, w, a)
    BY <1>2 DEF RowsSound
  <2> QED
    BY <1>4, <2>1, NamedAfter
<1>11. ASSUME NEW q \in Requests PROVE RequestSound(request[q], row', stored', fate')
  <2>1. RowMove(request[q], v, row[v], n)
    BY <1>1 DEF RowMove
  <2>2. \A x \in Carries(request[q]) : x \in Assets /\ x \in stored' /\ fate'[x] = None
    BY InHand, CarriesMentioned DEF RequestSound, NamedIn
  <2>3. \A a \in Assets : fate[a] \in Losses /\ NamedIn(row', a) => fate'[a] \in Losses
    BY <1>10
  <2> QED
    BY <1>8, <2>1, <2>2, <2>3, OtherSeesRow
<1>12. ASSUME NEW a \in Assets PROVE AssetSound(a, row', stored', fate', HeldBy(request, a))
  <2>1. AssetSound(a, row, stored, fate, HeldBy(request, a))
    BY DEF IInv
  <2>2. CASE Has(row, v, a) /\ a \in S
    BY <1>10, <2>2, NoneIsApart DEF AssetSound, Strays, Losses
  <2>3. CASE ~(Has(row, v, a) /\ a \in S)
    BY <1>10, <2>1, <2>3 DEF AssetSound
  <2> QED
    BY <2>2, <2>3
<1>13. row' \in [Videos -> Row \cup {None}] /\ stored' \in SUBSET Assets
    BY <1>2 DEF RowBecomes
<1> QED
    BY <1>9, <1>11, <1>12, <1>13, WorldKeeps

LEMMA SetStatusKeeps ==
    ASSUME IInv, NEW v \in Videos, SetStatus(v)
    PROVE  IInv'
<1> DEFINE o == row[v]
           was == o.disabled
           is == ~was
           n == [o EXCEPT !.disabled = is, !.restored = was]
<1>1. /\ o # None /\ stored' = stored /\ fate' = fate /\ request' = request
      /\ row' = [row EXCEPT ![v].disabled = ~o.disabled, ![v].restored = o.disabled]
    BY DEF SetStatus, Exists
<1>2. /\ o \in Row /\ RowSound(o, fate) /\ row \in [Videos -> Row \cup {None}]
      /\ fate \in [Assets -> Strays \cup Losses \cup {None}]
    BY <1>1, NamedFacts DEF IInv, TypeOK, Exists
<1>3. was \in BOOLEAN /\ is \in BOOLEAN /\ (was \/ is)
    BY <1>2 DEF Row
<1>4. row' = [row EXCEPT ![v] = n]
    BY <1>1, <1>2
<1> HIDE DEF was, is
<1>5. /\ n \in Row /\ n.source = o.source /\ n.asset = o.asset /\ n.thumb = o.thumb
      /\ n.disabled = is /\ n.restored = was
    BY <1>2, <1>3 DEF Row
<1> HIDE DEF n
<1>6. Spent(n)
    BY <1>3, <1>5, Zenon DEF Spent
<1>7. RowBecomes(v, n)
    BY <1>2, <1>4, <1>5 DEF RowBecomes
<1>8. n.source = "plain" => n.asset = None
    BY <1>2, <1>5 DEF RowSound
<1> DEFINE S == {}
<1>9. /\ \A a \in Assets : a \notin S
      /\ n.asset = (IF o.asset \in S THEN None ELSE o.asset)
      /\ n.thumb = (IF o.thumb \in S THEN None ELSE o.thumb)
    BY <1>5
<1> HIDE DEF S
<1> QED
    BY <1>1, <1>2, <1>5, <1>6, <1>7, <1>8, <1>9, EditKeeps

LEMMA DisownKeeps ==
    ASSUME IInv, NEW v \in Videos, NEW S \in SUBSET Assets, Disown(v, S)
    PROVE  IInv'
<1> DEFINE o == row[v]
           source == IF o.asset \in S THEN "plain" ELSE o.source
           asset == IF o.asset \in S THEN None ELSE o.asset
           thumb == IF o.thumb \in S THEN None ELSE o.thumb
           n == [o EXCEPT !.asset = asset, !.source = source, !.thumb = thumb]
<1>1. /\ o # None /\ S \subseteq Names(v) /\ stored' = stored /\ request' = request
      /\ row' = [row EXCEPT ![v].asset = asset, ![v].source = source, ![v].thumb = thumb]
      /\ fate' = [a \in Assets |-> IF a \notin S THEN fate[a]
                                   ELSE IF a \in stored THEN "disowned" ELSE None]
    BY DEF Disown, Exists
<1>2. /\ o \in Row /\ RowSound(o, fate) /\ row \in [Videos -> Row \cup {None}]
      /\ fate \in [Assets -> Strays \cup Losses \cup {None}]
    BY <1>1, NamedFacts DEF IInv, TypeOK, Exists
<1>3. /\ asset = (IF o.asset \in S THEN None ELSE o.asset) /\ thumb = (IF o.thumb \in S THEN None ELSE o.thumb)
      /\ source \in {o.source, "plain"} /\ (source = o.source => o.asset \notin S \/ o.source = "plain")
      /\ source = "plain" => o.asset \in S \/ o.source = "plain"
    OBVIOUS
<1>4. row' = [row EXCEPT ![v] = n]
    BY <1>1, <1>2
<1> HIDE DEF source, asset, thumb
<1>5. /\ n \in Row /\ n.source = source /\ n.asset = asset /\ n.thumb = thumb
      /\ n.disabled = o.disabled /\ n.restored = o.restored
    BY <1>2, <1>3 DEF Row, Sources
<1> HIDE DEF n
<1>6. Spent(o) => Spent(n)
    BY <1>5, Zenon DEF Spent
<1>7. RowBecomes(v, n)
    BY <1>2, <1>4, <1>5 DEF RowBecomes
<1>8. \A a \in S : Has(row, v, a)
    BY <1>1 DEF Names, OwnAsset, OwnThumb, Has
<1>9. \A a \in Assets : IF Has(row, v, a) /\ a \in S
                        THEN fate'[a] = IF a \in stored THEN "disowned" ELSE None
                        ELSE fate'[a] = fate[a]
    BY <1>1, <1>8
<1>10. fate' \in [Assets -> Strays \cup Losses \cup {None}]
    BY <1>1, <1>2 DEF Strays
<1>11. /\ n.source = "plain" => n.asset = None
       /\ n.source = o.source => n.asset = o.asset
    BY <1>2, <1>3, <1>5 DEF RowSound
<1>12. n.source \in {o.source, "plain"}
    BY <1>3, <1>5
<1>13. n.asset = (IF o.asset \in S THEN None ELSE o.asset) /\ n.thumb = (IF o.thumb \in S THEN None ELSE o.thumb)
    BY <1>3, <1>5
<1> QED
    BY <1>1, <1>5, <1>6, <1>7, <1>9, <1>10, <1>11, <1>12, <1>13, EditKeeps

LEMMA VanishKeeps ==
    ASSUME IInv, NEW v \in Videos, Vanish(v)
    PROVE  IInv'
<1> DEFINE a == row[v].asset
<1>1. Exists(v) /\ Deleted(a, "vanished") /\ row' = row /\ request' = request /\ row[v].source = "bunny"
    BY DEF Vanish
<1>2. a \in Assets /\ NamedIn(row, a)
    BY <1>1, NoneIsApart, NamedFacts DEF RowSound
<1>3. /\ stored' = stored \ {a} /\ stored' \in SUBSET Assets
      /\ fate' \in [Assets -> Strays \cup Losses \cup {None}]
      /\ \A b \in Assets : b # a => fate'[b] = fate[b]
      /\ fate'[a] \in Losses /\ fate'[a] \in {"vanished", fate[a]}
    BY <1>1, <1>2, DeletedFacts DEF Losses
<1> HIDE DEF a
<1>4. Removed(a, Idle)
    BY <1>2, <1>3, RowsSpent DEF Removed
<1>5. Holds(Idle) = {} /\ Mentions(Idle) = {None}
    BY IdleSound
<1>6. \A b \in Assets : Left(b, Idle, Idle) \/ Removed(b, Idle)
  <2> SUFFICES ASSUME NEW b \in Assets, b # a PROVE Left(b, Idle, Idle)
    BY <1>4
  <2> QED
    BY <1>3, <1>5 DEF Left
<1>7. RowsSound(row', stored', fate')
    BY <1>1, <1>6, RowsStaySound
<1>8. ASSUME NEW q \in Requests PROVE RequestSound(request[q], row', stored', fate')
  <2>1. Carries(request[q]) \cap Mentions(Idle) = {}
    BY <1>5, InHand, CarriesMentioned, NoneIsApart
  <2> QED
    BY <1>1, <1>5, <1>6, <2>1, OthersStaySound
<1>9. ASSUME NEW b \in Assets PROVE AssetSound(b, row', stored', fate', HeldBy(request, b))
  <2>1. AssetSound(b, row, stored, fate, HeldBy(request, b))
    BY DEF IInv
  <2>2. CASE b = a
    BY <1>1, <1>2, <1>3, <2>2 DEF AssetSound
  <2>3. CASE b # a
    BY <1>1, <1>3, <2>1, <2>3 DEF AssetSound
  <2> QED
    BY <2>2, <2>3
<1>10. row' \in [Videos -> Row \cup {None}]
    BY <1>1 DEF IInv, TypeOK
<1> QED
    BY <1>1, <1>3, <1>7, <1>8, <1>9, <1>10, WorldKeeps

LEMMA CrashKeeps ==
    ASSUME IInv, Crash
    PROVE  IInv'
<1>1. /\ request' = [r \in Requests |-> Idle] /\ row' = row /\ stored' = stored
      /\ fate' = [a \in Assets |-> IF a \in (Held \cap stored) \ Named /\ fate[a] \notin Strays
                                   THEN "crash" ELSE fate[a]]
    BY DEF Crash
<1>2. /\ row \in [Videos -> Row \cup {None}] /\ stored \in SUBSET Assets
      /\ fate \in [Assets -> Strays \cup Losses \cup {None}] /\ RowsSound(row, stored, fate)
    BY DEF IInv, TypeOK
<1>3. \A a \in Assets : a \in Held <=> HeldBy(request, a)
    BY DEF Held, HeldBy
<1>4. \A a \in Assets : fate'[a] = IF /\ HeldBy(request, a) /\ a \in stored /\ ~NamedIn(row, a)
                                      /\ fate[a] \notin Strays
                                   THEN "crash" ELSE fate[a]
    BY <1>1, <1>3, NamedIsNamedIn
<1>5. fate' \in [Assets -> Strays \cup Losses \cup {None}]
    BY <1>1, <1>2 DEF Strays
<1>6. \A r \in Requests : request'[r] = Idle
    BY <1>1
<1>7. TypeOK'
    BY <1>1, <1>2, <1>5, IdleFacts DEF TypeOK
<1>8. \A r \in Requests : RequestSound(request'[r], row', stored', fate')
    BY <1>6, IdleSound
<1>9. \A q, r \in Requests : q # r => Apart(request'[q], request'[r])
    BY <1>6, IdleSound DEF Apart
<1>10. \A a \in Assets : NamedIn(row, a) => fate'[a] = fate[a]
    BY <1>4
<1>11. RowsSound(row', stored', fate')
  <2>1. ASSUME NEW v \in Videos, row[v] # None PROVE RowSound(row[v], fate')
    <3>1. RowSound(row[v], fate)
      BY <1>2, <2>1 DEF RowsSound
    <3>2. row[v].source = "bunny" => fate'[row[v].asset] = fate[row[v].asset]
      BY <1>10, <2>1, <3>1 DEF RowSound, NamedIn, Has
    <3> QED
      BY <3>1, <3>2 DEF RowSound
  <2> QED
    BY <1>1, <1>2, <1>10, <2>1 DEF RowsSound
<1>12. ASSUME NEW a \in Assets PROVE AssetSound(a, row', stored', fate', HeldBy(request', a))
  <2>1. AssetSound(a, row, stored, fate, HeldBy(request, a))
    BY DEF IInv
  <2>2. fate'[a] \in {fate[a], "crash"} /\ ("crash" \in Strays) /\ "crash" # "purged"
    BY <1>4 DEF Strays
  <2>3. ~NamedIn(row, a) /\ a \in stored => fate'[a] \in Strays
    BY <1>4, <2>1, <2>2 DEF AssetSound
  <2>4. (fate'[a] = "purged" => NamedIn(row, a) /\ a \notin stored)
        /\ (~NamedIn(row, a) /\ a \notin stored => fate'[a] = None)
    BY <1>4, <2>1, <2>2 DEF AssetSound
  <2> QED
    BY <1>1, <2>3, <2>4 DEF AssetSound
<1> QED
    BY <1>7, <1>8, <1>9, <1>11, <1>12 DEF IInv

-----------------------------------------------------------------------------
(* The theorems.                                                            *)

LEMMA InitKeeps == Init => IInv
<1> SUFFICES ASSUME Init PROVE IInv
    OBVIOUS
<1>1. /\ row = [v \in Videos |-> None] /\ stored = {} /\ fate = [a \in Assets |-> None]
      /\ request = [r \in Requests |-> Idle]
    BY DEF Init
<1>2. TypeOK
    BY <1>1, IdleFacts DEF TypeOK
<1>3. (\A v \in Videos : row[v] = None) /\ (\A a \in Assets : fate[a] = None) /\ \A a : ~NamedIn(row, a)
    BY <1>1 DEF NamedIn, Has
<1>4. \A r \in Requests : request[r] = Idle /\ RequestSound(request[r], row, stored, fate)
    BY <1>1, IdleSound
<1>5. \A q, r \in Requests : q # r => Apart(request[q], request[r])
    BY <1>4, IdleSound DEF Apart
<1>6. RowsSound(row, stored, fate)
    BY <1>3 DEF RowsSound, Has, NamedIn
<1>7. \A a \in Assets : AssetSound(a, row, stored, fate, HeldBy(request, a))
    BY <1>1, <1>3, NoneIsApart DEF AssetSound, Losses
<1> QED
    BY <1>2, <1>4, <1>5, <1>6, <1>7 DEF IInv

LEMMA NextKeeps == IInv /\ [Next]_vars => IInv'
<1> SUFFICES ASSUME IInv, [Next]_vars PROVE IInv'
    OBVIOUS
<1>1. CASE UNCHANGED vars
  <2>1. row' = row /\ stored' = stored /\ fate' = fate /\ request' = request
    BY <1>1 DEF vars
  <2> QED
    BY <2>1, WorldKeeps DEF IInv, TypeOK
<1>2. ASSUME NEW r \in Requests, BeginPlain(r) \/ NoThumb(r) \/ InsertFails(r) \/ SwapFails(r)
      PROVE  IInv'
    BY <1>2, BeginPlainKeeps, NoThumbKeeps, InsertFailsKeeps, SwapFailsKeeps
<1>3. ASSUME NEW r \in Requests, NEW a \in Assets,
             \/ UploadVideo(r, a) \/ CreateAtBunny(r, a) \/ StoreUnanswered(r, a)
             \/ StoreThumb(r, a) \/ StoreLocalThumb(r, a) \/ Sweep(r, a) \/ SweepFails(r, a)
      PROVE  IInv'
    BY <1>3, FirstStoreKeeps, StoreUnansweredKeeps, ThumbStoreKeeps, SweepKeeps
<1>4. ASSUME NEW r \in Requests,
             \/ Swap(r) \/ SwapUnanswered(r) \/ DeleteRemote(r) \/ RemoteUnconfirmed(r)
             \/ PurgeCommit(r) \/ PurgeRefused(r)
      PROVE  IInv'
    BY <1>4, SwapKeeps, RemoteKeeps, PurgeCommitKeeps, PurgeRefusedKeeps
<1>5. ASSUME NEW r \in Requests, NEW v \in Videos,
             \/ Insert(r, v) \/ InsertUnanswered(r, v) \/ ReplaceLook(r, v)
             \/ \E asked \in BOOLEAN : PurgeLook(r, v, asked)
      PROVE  IInv'
    BY <1>5, InsertKeeps, ReplaceLookKeeps, PurgeLookKeeps
<1>6. ASSUME NEW v \in Videos,
             \/ \E a \in Assets, b \in Assets \cup {None} : CompleteUpload(v, a, b)
             \/ \E S \in SUBSET Assets : Disown(v, S)
             \/ SetStatus(v) \/ Vanish(v)
      PROVE  IInv'
    BY <1>6, CompleteUploadKeeps, DisownKeeps, SetStatusKeeps, VanishKeeps
<1>7. CASE Crash
    BY <1>7, CrashKeeps
<1> QED
    BY <1>1, <1>2, <1>3, <1>4, <1>5, <1>6, <1>7 DEF Next

\* The invariant that the theorems are drawn from.
LEMMA Inductive == Spec => []IInv
<1> QED
    BY InitKeeps, NextKeeps, PTL DEF Spec

\* Type correctness: the rows, what is stored, its history and the requests stay in their
\* domains.
THEOREM TypeCorrect == Spec => []TypeOK
<1>1. IInv => TypeOK
    BY DEF IInv
<1> QED
    BY <1>1, Inductive, PTL

\* What a row names exists, unless it was purged, taken for a failed write, or deleted at
\* Bunny: no other handler deletes what another one's row names.
THEOREM NamedIsBacked == Spec => []RowsAreBacked
<1>1. ASSUME IInv PROVE RowsAreBacked
  <2> SUFFICES ASSUME NEW v \in Videos, NEW a \in Names(v) PROVE a \in stored \/ fate[a] \in Losses
    BY DEF RowsAreBacked
  <2>1. Exists(v) /\ (a = row[v].asset \/ a = row[v].thumb) /\ a # None
    BY DEF Names, OwnAsset, OwnThumb
  <2>2. a \in Assets /\ NamedIn(row, a)
    BY <1>1, <2>1, NamedFacts
  <2> QED
    BY <1>1, <2>2 DEF IInv, RowsSound
<1> QED
    BY <1>1, Inductive, PTL

\* Nothing stays behind without a reason that the code accepts, and nothing that a row
\* names was given up.
THEOREM StraysAreKnown == Spec => []StraysAreAccounted
<1>1. ASSUME IInv PROVE StraysAreAccounted
  <2>1. ASSUME NEW a \in stored PROVE a \in Named \cup Held \/ fate[a] \in Strays
    <3>1. a \in Assets /\ AssetSound(a, row, stored, fate, HeldBy(request, a))
      BY <1>1, <2>1 DEF IInv, TypeOK
    <3>2. HeldBy(request, a) => a \in Held
      BY DEF HeldBy, Held
    <3> QED
      BY <2>1, <3>1, <3>2, NamedIsNamedIn DEF AssetSound
  <2>2. ASSUME NEW a \in Named PROVE fate[a] \notin Strays
    <3>1. PICK v \in Videos : a \in Names(v)
      BY <2>2 DEF Named
    <3>2. Exists(v) /\ (a = row[v].asset \/ a = row[v].thumb) /\ a # None
      BY <3>1 DEF Names, OwnAsset, OwnThumb
    <3>3. a \in Assets /\ NamedIn(row, a)
      BY <1>1, <3>2, NamedFacts
    <3> QED
      BY <1>1, <3>3 DEF IInv, RowsSound
  <2> QED
    BY <2>1, <2>2 DEF StraysAreAccounted
<1> QED
    BY <1>1, Inductive, PTL

\* The remote half of a purge empties no video that is in use, unless it was restored
\* after the purge had looked at it.
THEOREM PurgeSparesVideosInUse == Spec => []OnlyDisabledIsEmptied
<1>1. ASSUME IInv PROVE OnlyDisabledIsEmptied
  <2> SUFFICES ASSUME NEW v \in Videos, Exists(v), row[v].source = "bunny", fate[row[v].asset] = "purged"
               PROVE  row[v].disabled \/ row[v].restored
    BY DEF OnlyDisabledIsEmptied
  <2>1. Spent(row[v])
    BY <1>1, NamedFacts DEF RowSound
  <2> QED
    BY <2>1, Zenon DEF Spent
<1> QED
    BY <1>1, Inductive, PTL


\* Only the last step of a purge takes a row away.
LEMMA OnlyPurgeDrops ==
    ASSUME IInv, [Next]_vars, NEW v \in Videos, Exists(v), row'[v] = None
    PROVE  \E r \in Requests : PurgeCommit(r) /\ request[r].video = v
<1> DEFINE o == row[v]
<1>1. /\ o \in Row /\ o # None /\ row \in [Videos -> Row \cup {None}]
      /\ \A r \in Requests : request[r] \in RequestState
    BY NamedFacts DEF IInv, TypeOK, Exists
<1>2. row' # row
    BY <1>1
<1>3. ASSUME NEW w \in Videos, row[w] = None, NEW n, row' = [row EXCEPT ![w] = n] PROVE FALSE
    BY <1>1, <1>3
<1>4. ASSUME NEW w \in Videos, NEW n \in Row, row' = [row EXCEPT ![w] = n] PROVE FALSE
    BY <1>1, <1>4, NoneIsApart
<1>6. ASSUME NEW r \in Requests, NEW w \in Videos, Insert(r, w) \/ InsertUnanswered(r, w) PROVE FALSE
    BY <1>3, <1>6 DEF Insert, InsertUnanswered, NewVideo, Exists
<1>7. ASSUME NEW r \in Requests, Swap(r) \/ SwapUnanswered(r) PROVE FALSE
  <2> DEFINE w == request[r].video
             thumb == request[r].thumb
             n == [row[w] EXCEPT !.thumb = thumb]
  <2>1. /\ request[r].pc = "swap" /\ Exists(w) /\ row' = [row EXCEPT ![w].thumb = thumb]
    BY <1>7 DEF Swap, SwapUnanswered, Swapped, At
  <2>2. w \in Videos /\ thumb \in Assets \cup {None}
    BY <1>1, <2>1, InHand DEF Shape, RequestState
  <2> HIDE DEF w, thumb
  <2>3. row[w] \in Row
    BY <1>1, <2>1, <2>2 DEF Exists
  <2>4. n \in Row
    BY <2>2, <2>3 DEF Row
  <2>5. row' = [row EXCEPT ![w] = n]
    BY <1>1, <2>1, <2>2
  <2> QED
    BY <1>4, <2>2, <2>4, <2>5
<1>8. ASSUME NEW w \in Videos, NEW a \in Assets, NEW b \in Assets \cup {None}, CompleteUpload(w, a, b)
      PROVE  FALSE
    BY <1>3, <1>8 DEF CompleteUpload, NewVideo, Exists
<1>9. ASSUME NEW w \in Videos, NEW S \in SUBSET Assets, Disown(w, S) PROVE FALSE
  <2> DEFINE source == IF row[w].asset \in S THEN "plain" ELSE row[w].source
             asset == IF row[w].asset \in S THEN None ELSE row[w].asset
             thumb == IF row[w].thumb \in S THEN None ELSE row[w].thumb
             n == [row[w] EXCEPT !.asset = asset, !.source = source, !.thumb = thumb]
  <2>1. /\ Exists(w)
        /\ row' = [row EXCEPT ![w].asset = asset, ![w].source = source, ![w].thumb = thumb]
    BY <1>9 DEF Disown
  <2>2. row[w] \in Row
    BY <1>1, <2>1 DEF Exists
  <2>3. asset \in Assets \cup {None} /\ source \in Sources /\ thumb \in Assets \cup {None}
    BY <2>2 DEF Row, Sources
  <2> HIDE DEF source, asset, thumb
  <2>4. n \in Row
    BY <2>2, <2>3 DEF Row
  <2>5. row' = [row EXCEPT ![w] = n]
    BY <1>1, <2>1
  <2> QED
    BY <1>4, <2>4, <2>5
<1>10. ASSUME NEW w \in Videos, SetStatus(w) PROVE FALSE
  <2> DEFINE was == row[w].disabled
             is == ~was
             n == [row[w] EXCEPT !.disabled = is, !.restored = was]
  <2>1. Exists(w) /\ row' = [row EXCEPT ![w].disabled = is, ![w].restored = was]
    BY <1>10 DEF SetStatus
  <2>2. row[w] \in Row
    BY <1>1, <2>1 DEF Exists
  <2>3. was \in BOOLEAN /\ is \in BOOLEAN
    BY <2>2 DEF Row
  <2> HIDE DEF was, is
  <2>4. n \in Row
    BY <2>2, <2>3 DEF Row
  <2>5. row' = [row EXCEPT ![w] = n]
    BY <1>1, <2>1
  <2> QED
    BY <1>4, <2>4, <2>5
<1>11. ASSUME NEW r \in Requests, PurgeCommit(r) PROVE request[r].video = v
  <2>1. row' = [row EXCEPT ![request[r].video] = None]
    BY <1>11 DEF PurgeCommit
  <2> QED
    BY <1>1, <2>1
<1>12. ASSUME NEW r \in Requests,
              \/ BeginPlain(r) \/ NoThumb(r) \/ InsertFails(r) \/ SwapFails(r) \/ DeleteRemote(r)
              \/ RemoteUnconfirmed(r) \/ PurgeRefused(r)
       PROVE  row' = row
    BY <1>12 DEF BeginPlain, NoThumb, InsertFails, SwapFails, DeleteRemote, RemoteUnconfirmed, PurgeRefused
<1>13. ASSUME NEW r \in Requests, NEW a \in Assets,
              \/ UploadVideo(r, a) \/ CreateAtBunny(r, a) \/ StoreUnanswered(r, a)
              \/ StoreThumb(r, a) \/ StoreLocalThumb(r, a) \/ Sweep(r, a) \/ SweepFails(r, a)
       PROVE  row' = row
    BY <1>13 DEF UploadVideo, CreateAtBunny, StoreUnanswered, StoreThumb, StoreLocalThumb, Sweep, SweepFails
<1>14. ASSUME NEW r \in Requests, NEW w \in Videos,
              ReplaceLook(r, w) \/ \E asked \in BOOLEAN : PurgeLook(r, w, asked)
       PROVE  row' = row
    BY <1>14 DEF ReplaceLook, PurgeLook
<1>15. ASSUME NEW w \in Videos, Vanish(w) PROVE row' = row
    BY <1>15 DEF Vanish
<1>16. Crash \/ UNCHANGED vars => row' = row
    BY DEF Crash, vars
<1> QED
    BY <1>2, <1>6, <1>7, <1>8, <1>9, <1>10, <1>11, <1>12, <1>13, <1>14, <1>15, <1>16 DEF Next

\* A purge takes the row of a Bunny video away only when its remote asset is gone, or is
\* kept because the administrator asked for that.
THEOREM PurgeLeavesNoOrphan == Spec => NoInvisibleOrphan
<1>1. ASSUME IInv, [Next]_vars, NEW v \in Videos, Exists(v), row'[v] = None, row[v].source = "bunny"
      PROVE  row[v].asset \notin stored \/ fate'[row[v].asset] = "kept"
  <2> DEFINE o == row[v]
  <2>1. PICK r \in Requests : PurgeCommit(r) /\ request[r].video = v
    BY <1>1, OnlyPurgeDrops
  <2> DEFINE me == request[r]
             asked == me.asked
  <2>2. me.pc = "commit" /\ me.video = v /\ me \in RequestState /\ RequestSound(me, row, stored, fate)
    BY <1>1, <2>1, InHand DEF PurgeCommit, At
  <2>3. o \in Row /\ o # None /\ o.asset \in Assets /\ o.thumb = None
    BY <1>1, NamedFacts DEF Exists, RowSound
  <2>4. CASE asked
    <3>1. o.asset \notin stored
      BY <1>1, <2>2, <2>3, <2>4, Zenon DEF RequestSound
    <3> QED
      BY <3>1
  <2>5. CASE ~asked
    <3>1. fate' = [a \in Assets |-> IF a \notin Names(v) THEN fate[a]
                                    ELSE IF a \in stored \ {None} /\ ~asked THEN "kept" ELSE None]
      <4>1. o.source # "file" /\ o.source # "cloud"
        BY <1>1
      <4>2. {o.thumb} \cup (IF o.source = "file" \/ (o.source = "cloud" /\ asked) THEN {o.asset} ELSE {}) = {None}
        BY <2>3, <4>1
      <4> QED
        BY <2>1, <2>2, <4>2 DEF PurgeCommit
    <3>2. o.asset \in Names(v)
      BY <1>1, <2>3, NoneIsApart DEF Names, OwnAsset
    <3> QED
      BY <2>3, <2>5, <3>1, <3>2, NoneIsApart
  <2> QED
    BY <2>4, <2>5
<1>2. IInv /\ [Next]_vars => [\A v \in Videos : (Exists(v) /\ row'[v] = None /\ row[v].source = "bunny")
                                => row[v].asset \notin stored \/ fate'[row[v].asset] = "kept"]_vars
    BY <1>1
<1> QED
    BY <1>2, Inductive, PTL DEF Spec, NoInvisibleOrphan
=============================================================================
