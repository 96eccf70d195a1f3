----------------------- MODULE PublishedHosts_proofs ------------------------
(* Theorems about the two sides of PublishedHosts: the administrators'        *)
(* requests that change which hosts serve a website (WebsiteDomains), for any *)
(* number of websites, domains, hosts and requests, and the caches that       *)
(* follow (ReadThroughCaches), for any number of writers, lookups and loads   *)
(* and any times to live.                                                     *)
EXTENDS WebsiteDomains, ReadThroughCaches, FiniteSetTheorems, TLAPS

-----------------------------------------------------------------------------
(* WebsiteDomains.                                                          *)

\* What a request has in hand: its rows exist, whatever became of them since.
Grounded(r) ==
    LET me == request[r]
    IN  /\ me.pc \in {"assign", "existing", "move", "keep", "write", "release"} =>
              me.domain \in Domains /\ Exists(me.domain)
        /\ me.pc \in {"insert", "create"} => me.change.host \in Hosts
        /\ me.pc \in {"insert", "create", "assign", "existing", "move", "keep"} =>
              me.site \in Sites
        /\ me.site \in Sites => site[me.site] # "ABSENT"

\* What a request has looked at still holds, unless others have written since.
Fresh(r) ==
    LET me == request[r]
    IN  ~me.passed =>
            /\ me.pc = "insert" => DomainsOf(me.site) = {}
            /\ me.pc \in {"existing", "move"} =>
                  domain[me.domain].site = None /\ domain[me.domain].status = "ACTIVE"
            /\ me.pc = "move" => me.strip \/ DomainsOf(me.site) = {}
            /\ me.pc = "keep" =>
                  domain[me.domain].site = me.site /\ domain[me.domain].status = "ACTIVE"
            /\ me.pc = "write" =>
                  /\ me.change.status = "DISABLED" => domain[me.domain].site = None
                  /\ me.change.primary = TRUE => domain[me.domain].site # None

Assigned(d) == Exists(d) /\ domain[d].site # None

\* A domain is assigned to a website that exists.
Placed == \A d \in Domains : Assigned(d) => site[domain[d].site] # "ABSENT"

Order ==
    /\ \A d, e \in Domains : Assigned(d) /\ Assigned(e) /\ domain[d].site = domain[e].site => d = e
    /\ \A d \in Domains : Assigned(d) => domain[d].status = "ACTIVE"
    /\ \A d \in Domains : Exists(d) /\ domain[d].primary => Assigned(d)

IInv ==
    /\ TypeOK
    /\ \A r \in Requests : Grounded(r) /\ Fresh(r)
    /\ Placed
    /\ ~overtaken => Order

\* The rows of a step: none disappears, and none is assigned to a website that does not
\* exist.
RowsMove ==
    /\ domain' \in [Domains -> DomainRecord \cup {None}]
    /\ site' \in [Sites -> SiteStatuses]
    /\ \A d \in Domains : Exists(d) => Exists(d)'
    /\ \A w \in Sites : site[w] # "ABSENT" => site'[w] # "ABSENT"
    /\ Placed'

\* DomainsOf in rows that are given.
OfSite(rows, w) == {d \in Domains : rows[d] # None /\ rows[d].site = w}

\* The others go on with what they have in hand, and learn from history what changed.
Kept(q) ==
    /\ request'[q].pc = request[q].pc
    /\ request'[q].domain = request[q].domain
    /\ request'[q].site = request[q].site
    /\ request'[q].change = request[q].change
    /\ request'[q].strip = request[q].strip
    /\ ~request'[q].passed => ~request[q].passed
    /\ request[q].pc \notin {"idle", "clear"} /\ ~request'[q].passed =>
          /\ request[q].domain # None => domain'[request[q].domain] = domain[request[q].domain]
          /\ request[q].site # None => OfSite(domain', request[q].site) = OfSite(domain, request[q].site)

-----------------------------------------------------------------------------

LEMMA IdleFacts ==
    /\ Idle \in RequestState
    /\ Idle.pc = "idle" /\ Idle.site = None /\ Idle.domain = None
    /\ Idle.change = NoChange /\ ~Idle.strip /\ ~Idle.passed /\ ~Idle.alone /\ ~Idle.replace
BY DEF Idle, RequestState, Steps, NoChange, Decision

LEMMA ClearedFacts ==
    /\ [Idle EXCEPT !.pc = "clear"] \in RequestState
    /\ [Idle EXCEPT !.pc = "clear"].pc = "clear"
    /\ [Idle EXCEPT !.pc = "clear"].site = None
BY IdleFacts DEF RequestState, Steps

LEMMA NoneFacts ==
    /\ None \notin Sites /\ None \notin Domains /\ None \notin Hosts
BY DomainAssumption

\* Views that are equal show the same rows.
LEMMA SameView ==
    ASSUME NEW me \in RequestState,
           domain \in [Domains -> DomainRecord \cup {None}],
           domain' \in [Domains -> DomainRecord \cup {None}],
           View(me, site', domain') = View(me, site, domain)
    PROVE  /\ me.domain # None => domain'[me.domain] = domain[me.domain]
           /\ me.site # None => OfSite(domain', me.site) = OfSite(domain, me.site)
<1>1. me.domain # None => domain'[me.domain] = domain[me.domain]
    BY DEF View
<1>2. ASSUME me.site # None
      PROVE  OfSite(domain', me.site) = OfSite(domain, me.site)
  <2> DEFINE rows(f) == {<<d, f[d]>> : d \in {e \in Domains : f[e] # None /\ f[e].site = me.site}}
  <2>1. rows(domain') = rows(domain)
    BY <1>2 DEF View
  <2>2. {e \in Domains : domain'[e] # None /\ domain'[e].site = me.site}
            = {e \in Domains : domain[e] # None /\ domain[e].site = me.site}
    <3>1. ASSUME NEW f, NEW g, rows(f) = rows(g),
                 NEW e \in Domains, f[e] # None, f[e].site = me.site
          PROVE  g[e] # None /\ g[e].site = me.site
      <4>1. <<e, f[e]>> \in rows(g)
        BY <3>1
      <4> QED
        BY <4>1
    <3> HIDE DEF rows
    <3>2. \A e \in Domains : domain'[e] # None /\ domain'[e].site = me.site
                                <=> domain[e] # None /\ domain[e].site = me.site
      BY <2>1, <3>1
    <3> QED
      BY <3>2
  <2> QED
    BY <2>2 DEF OfSite
<1> QED
    BY <1>1, <1>2

LEMMA PassesFacts ==
    ASSUME TypeOK, domain' \in [Domains -> DomainRecord \cup {None}], NEW q \in Requests
    PROVE  /\ Passes[q] \in RequestState
           /\ Passes[q].pc = request[q].pc
           /\ Passes[q].domain = request[q].domain
           /\ Passes[q].site = request[q].site
           /\ Passes[q].change = request[q].change
           /\ Passes[q].strip = request[q].strip
           /\ ~Passes[q].passed => ~request[q].passed
           /\ request[q].pc \notin {"idle", "clear"} /\ ~Passes[q].passed =>
                 /\ request[q].domain # None =>
                       domain'[request[q].domain] = domain[request[q].domain]
                 /\ request[q].site # None =>
                       OfSite(domain', request[q].site) = OfSite(domain, request[q].site)
<1> DEFINE noticed == [request[q] EXCEPT !.passed = TRUE]
           sees == /\ request[q].pc \notin {"idle", "clear"}
                   /\ View(request[q], site', domain') # View(request[q], site, domain)
<1>1. request[q] \in RequestState /\ domain \in [Domains -> DomainRecord \cup {None}]
    BY DEF TypeOK
<1>2. /\ noticed \in RequestState /\ noticed.pc = request[q].pc
      /\ noticed.domain = request[q].domain /\ noticed.site = request[q].site
      /\ noticed.change = request[q].change /\ noticed.strip = request[q].strip
      /\ noticed.passed
    BY <1>1 DEF RequestState
<1>3. Passes[q] = IF sees THEN noticed ELSE request[q]
    BY DEF Passes
<1>4. request[q].pc \notin {"idle", "clear"} /\ ~sees =>
         /\ request[q].domain # None => domain'[request[q].domain] = domain[request[q].domain]
         /\ request[q].site # None => OfSite(domain', request[q].site) = OfSite(domain, request[q].site)
    BY <1>1, SameView
<1> HIDE DEF noticed, sees
<1> QED
    BY <1>1, <1>2, <1>3, <1>4

LEMMA KeptSound ==
    ASSUME IInv, RowsMove, NEW q \in Requests, Kept(q)
    PROVE  Grounded(q)' /\ Fresh(q)'
<1> DEFINE me == request[q]
           you == request'[q]
<1>1. /\ you.pc = me.pc /\ you.domain = me.domain /\ you.site = me.site
      /\ you.change = me.change /\ you.strip = me.strip
      /\ ~you.passed => ~me.passed
    BY DEF Kept
<1>2. Grounded(q) /\ Fresh(q)
    BY DEF IInv
<1>3. Grounded(q)'
    BY <1>1, <1>2 DEF Grounded, RowsMove
<1>4. Fresh(q)'
  <2> SUFFICES ASSUME ~you.passed
               PROVE  /\ me.pc = "insert" => OfSite(domain', me.site) = {}
                      /\ me.pc \in {"existing", "move"} =>
                            /\ domain'[me.domain].site = None
                            /\ domain'[me.domain].status = "ACTIVE"
                      /\ me.pc = "move" => me.strip \/ OfSite(domain', me.site) = {}
                      /\ me.pc = "keep" => /\ domain'[me.domain].site = me.site
                                           /\ domain'[me.domain].status = "ACTIVE"
                      /\ me.pc = "write" =>
                            /\ me.change.status = "DISABLED" => domain'[me.domain].site = None
                            /\ me.change.primary = TRUE => domain'[me.domain].site # None
    BY <1>1 DEF Fresh, DomainsOf, Exists, OfSite
  <2>1. /\ ~me.passed
        /\ me.pc \notin {"idle", "clear"} =>
              /\ me.domain # None => domain'[me.domain] = domain[me.domain]
              /\ me.site # None => OfSite(domain', me.site) = OfSite(domain, me.site)
    BY DEF Kept
  <2>2. me.pc \in {"insert", "move"} => OfSite(domain', me.site) = OfSite(domain, me.site)
    BY <1>2, <2>1, NoneFacts DEF Grounded
  <2>3. me.pc \in {"existing", "move", "keep", "write"} =>
            domain'[me.domain] = domain[me.domain]
    BY <1>2, <2>1, NoneFacts DEF Grounded
  <2> QED
    BY <1>2, <2>1, <2>2, <2>3 DEF Fresh, DomainsOf, Exists, OfSite
<1> QED
    BY <1>3, <1>4

LEMMA BecomesKeeps ==
    ASSUME IInv, NEW r \in Requests, NEW state \in RequestState, Becomes(r, state),
           Grounded(r)', Fresh(r)'
    PROVE  IInv'
<1>1. UNCHANGED <<site, domain, overtaken>> /\ request' = [request EXCEPT ![r] = state]
    BY DEF Becomes
<1>2. TypeOK'
    BY <1>1 DEF IInv, TypeOK
<1>3. ASSUME NEW q \in Requests, q # r PROVE Grounded(q)' /\ Fresh(q)'
  <2>1. request'[q] = request[q]
    BY <1>1, <1>3 DEF IInv, TypeOK
  <2> QED
    BY <1>1, <2>1 DEF IInv, Grounded, Fresh, DomainsOf, Exists
<1>4. Placed' /\ (~overtaken' => Order')
    BY <1>1 DEF IInv, Placed, Order, Assigned, Exists
<1> QED
    BY <1>2, <1>3, <1>4 DEF IInv

LEMMA PassesType ==
    ASSUME TypeOK, domain' \in [Domains -> DomainRecord \cup {None}]
    PROVE  Passes \in [Requests -> RequestState]
BY PassesFacts DEF Passes

LEMMA KeptFacts ==
    ASSUME TypeOK, domain' \in [Domains -> DomainRecord \cup {None}],
           NEW q \in Requests, request'[q] = Passes[q]
    PROVE  Kept(q)
<1> HIDE DEF Passes
<1> QED
    BY PassesFacts DEF Kept

LEMMA WritesKeeps ==
    ASSUME IInv, NEW r \in Requests, Writes(r), RowsMove,
           ~overtaken /\ ~request[r].passed => Order'
    PROVE  IInv'
<1> DEFINE cleared == [Idle EXCEPT !.pc = "clear"]
<1>1. request' = [Passes EXCEPT ![r] = cleared] /\ overtaken' = (overtaken \/ request[r].passed)
    BY DEF Writes
<1>2. Passes \in [Requests -> RequestState]
    BY PassesType DEF IInv, RowsMove
<1>3. cleared \in RequestState /\ cleared.pc = "clear" /\ cleared.site = None
    BY ClearedFacts
<1> HIDE DEF cleared
<1>4. /\ request' \in [Requests -> RequestState] /\ request'[r] = cleared
      /\ \A q \in Requests : q # r => request'[q] = Passes[q]
    BY <1>1, <1>2, <1>3
<1>5. Grounded(r)' /\ Fresh(r)'
    BY <1>3, <1>4, NoneFacts DEF Grounded, Fresh
<1>6. ASSUME NEW q \in Requests, q # r PROVE Grounded(q)' /\ Fresh(q)'
    BY <1>4, <1>6, KeptFacts, KeptSound DEF IInv, RowsMove
<1>7. request[r] \in RequestState
    BY DEF IInv, TypeOK
<1>8. TypeOK'
    BY <1>1, <1>4, <1>7 DEF IInv, TypeOK, RowsMove, RequestState
<1>9. ~overtaken' => Order'
    BY <1>1
<1> QED
    BY <1>5, <1>6, <1>8, <1>9 DEF IInv, RowsMove

-----------------------------------------------------------------------------
(* Rows.                                                                    *)

Rows == [Domains -> DomainRecord \cup {None}]

LEMMA StrippedFacts ==
    ASSUME domain \in Rows, NEW S, \A d \in S : d \in Domains /\ Exists(d)
    PROVE  /\ Stripped(S) \in Rows
           /\ \A d \in Domains \ S : Stripped(S)[d] = domain[d]
           /\ \A d \in S : /\ Stripped(S)[d] # None
                           /\ Stripped(S)[d].site = None /\ Stripped(S)[d].primary = FALSE
                           /\ Stripped(S)[d].status = domain[d].status
<1>1. ASSUME NEW d \in S
      PROVE  LET row == [domain[d] EXCEPT !.site = None, !.primary = FALSE]
             IN  /\ row \in DomainRecord /\ row # None /\ row.site = None /\ row.primary = FALSE
                 /\ row.status = domain[d].status
  <2>1. domain[d] \in DomainRecord
    BY DEF Rows, Exists
  <2> QED
    BY <2>1, DomainAssumption DEF DomainRecord
<1> QED
    BY <1>1 DEF Stripped, Rows

LEMMA DemotedFacts ==
    ASSUME domain \in Rows, NEW S, \A d \in S : d \in Domains /\ Exists(d)
    PROVE  /\ Demoted(S) \in Rows
           /\ \A d \in Domains \ S : Demoted(S)[d] = domain[d]
           /\ \A d \in S : /\ Demoted(S)[d] # None
                           /\ Demoted(S)[d].site = domain[d].site
                           /\ Demoted(S)[d].primary = FALSE
                           /\ Demoted(S)[d].status = domain[d].status
<1>1. ASSUME NEW d \in S
      PROVE  LET row == [domain[d] EXCEPT !.primary = FALSE]
             IN  /\ row \in DomainRecord /\ row # None /\ row.site = domain[d].site
                 /\ row.primary = FALSE /\ row.status = domain[d].status
  <2>1. domain[d] \in DomainRecord
    BY DEF Rows, Exists
  <2> QED
    BY <2>1, DomainAssumption DEF DomainRecord
<1> QED
    BY <1>1 DEF Demoted, Rows

LEMMA ChangedFacts ==
    ASSUME NEW rows \in Rows, NEW d \in Domains, rows[d] # None, NEW change \in Decision
    PROVE  LET new == Changed(rows, d, change)
           IN  /\ new \in Rows
               /\ \A e \in Domains \ {d} : new[e] = rows[e]
               /\ new[d] # None
               /\ new[d].site = rows[d].site
               /\ new[d].status = IF change.status = None THEN rows[d].status ELSE change.status
               /\ new[d].primary = IF change.primary = None THEN rows[d].primary
                                   ELSE change.primary
<1> DEFINE host == IF change.host = None THEN rows[d].host ELSE change.host
           status == IF change.status = None THEN rows[d].status ELSE change.status
           primary == IF change.primary = None THEN rows[d].primary ELSE change.primary
           row == [rows[d] EXCEPT !.host = host, !.status = status, !.primary = primary]
<1>1. rows[d] \in DomainRecord
    BY DEF Rows
<1>2. host \in Hosts /\ status \in DomainStatuses /\ primary \in BOOLEAN
    BY <1>1 DEF DomainRecord, Decision
<1>3. Changed(rows, d, change) = [rows EXCEPT ![d] = row]
    BY <1>1 DEF Changed, Rows, DomainRecord
<1> HIDE DEF host, status, primary
<1>4. /\ row \in DomainRecord /\ row.site = rows[d].site /\ row.status = status
      /\ row.primary = primary
    BY <1>1, <1>2 DEF DomainRecord
<1>5. row # None
    BY <1>4, DomainAssumption
<1> HIDE DEF row
<1> QED
    BY <1>3, <1>4, <1>5 DEF Rows, status, primary

\* Rows that stay where they are, or are released, are placed; so is one that is put on a
\* website that exists.
LEMMA PlacedFacts ==
    ASSUME IInv, NEW rows \in Rows, NEW w, w \in Sites => site[w] # "ABSENT",
           domain' = rows, UNCHANGED site,
           \A d \in Domains : Exists(d) => rows[d] # None,
           \A d \in Domains : rows[d] # None =>
               rows[d].site \in {None, w} \/ (Exists(d) /\ rows[d].site = domain[d].site)
    PROVE  RowsMove
<1>1. Placed'
  <2> SUFFICES ASSUME NEW d \in Domains, rows[d] # None, rows[d].site # None
               PROVE  site[rows[d].site] # "ABSENT"
    BY DEF Placed, Assigned, Exists
  <2>1. rows[d].site \in Sites
    BY DEF Rows, DomainRecord
  <2> QED
    BY <2>1 DEF IInv, Placed, Assigned
<1> QED
    BY <1>1 DEF IInv, TypeOK, RowsMove, Rows, Exists

-----------------------------------------------------------------------------
(* One lemma per kind of step.                                              *)

LEMMA BecomesFacts ==
    ASSUME TypeOK, NEW r \in Requests, NEW state, Becomes(r, state)
    PROVE  request'[r] = state /\ UNCHANGED <<site, domain, overtaken>>
BY DEF Becomes, TypeOK

LEMMA NoChangeFacts ==
    /\ NoChange \in Decision
    /\ NoChange.status = None /\ NoChange.primary = None
    /\ \A h \in Hosts : /\ [NoChange EXCEPT !.host = h] \in Decision
                        /\ [NoChange EXCEPT !.host = h].host = h
BY DEF NoChange, Decision

LEMMA LookKeeps ==
    ASSUME IInv, NEW r \in Requests, NEW state \in RequestState, Becomes(r, state),
           ~state.passed,
           state.pc \in {"insert", "create", "assign", "existing", "keep", "write", "release"},
           state.pc \in {"assign", "existing", "keep", "write", "release"} =>
               state.domain \in Domains /\ Exists(state.domain),
           state.pc \in {"insert", "create"} => state.change.host \in Hosts,
           state.pc \in {"insert", "create", "assign", "existing", "keep"} => state.site \in Sites,
           state.site \in Sites => site[state.site] # "ABSENT",
           state.pc = "insert" => DomainsOf(state.site) = {},
           state.pc = "existing" => /\ domain[state.domain].site = None
                                    /\ domain[state.domain].status = "ACTIVE",
           state.pc = "keep" => /\ domain[state.domain].site = state.site
                                /\ domain[state.domain].status = "ACTIVE",
           state.pc = "write" =>
               /\ state.change.status = "DISABLED" => domain[state.domain].site = None
               /\ state.change.primary = TRUE => domain[state.domain].site # None
    PROVE  IInv'
<1>1. request'[r] = state /\ UNCHANGED <<site, domain, overtaken>>
    BY BecomesFacts DEF IInv
<1>2. Grounded(r)'
    BY <1>1 DEF Grounded, Exists
<1>3. Fresh(r)'
    BY <1>1 DEF Fresh, DomainsOf, Exists
<1> QED
    BY <1>2, <1>3, BecomesKeeps

\* A request begins with a look that remembers a domain, a website, a change, or several
\* of them.
LEMMA CreateLookKeeps ==
    ASSUME IInv, NEW r \in Requests, NEW w \in Sites, NEW h \in Hosts, CreateLook(r, w, h)
    PROVE  IInv'
<1> DEFINE change == [NoChange EXCEPT !.host = h]
           state == [Idle EXCEPT !.pc = "insert", !.site = w, !.change = change]
<1>1. site[w] # "ABSENT" /\ DomainsOf(w) = {} /\ Becomes(r, state)
    BY DEF CreateLook, MayTake
<1>2. change \in Decision /\ change.host = h
    BY NoChangeFacts
<1> HIDE DEF change
<1>3. /\ state \in RequestState /\ ~state.passed
      /\ state.pc = "insert" /\ state.site = w /\ state.change = change
    BY <1>2, IdleFacts DEF RequestState, Steps
<1> HIDE DEF state
<1> QED
    BY <1>1, <1>2, <1>3, LookKeeps

LEMMA ClaimLookKeeps ==
    ASSUME IInv, NEW r \in Requests, NEW w \in Sites, NEW h \in Hosts, ClaimLook(r, w, h)
    PROVE  IInv'
<1> DEFINE change == [NoChange EXCEPT !.host = h]
           created == [Idle EXCEPT !.pc = "create", !.site = w, !.change = change]
           claimed(d) == [Idle EXCEPT !.pc = "assign", !.site = w, !.domain = d]
<1>1. /\ site[w] # "ABSENT"
      /\ Becomes(r, created) \/ \E d \in Domains : Exists(d) /\ Becomes(r, claimed(d))
    BY DEF ClaimLook, MayTake
<1>2. change \in Decision /\ change.host = h
    BY NoChangeFacts
<1> HIDE DEF change
<1>3. /\ created \in RequestState /\ ~created.passed
      /\ created.pc = "create" /\ created.site = w /\ created.change = change
    BY <1>2, IdleFacts DEF RequestState, Steps
<1>4. ASSUME NEW d \in Domains
      PROVE  /\ claimed(d) \in RequestState /\ ~claimed(d).passed
             /\ claimed(d).pc = "assign" /\ claimed(d).site = w /\ claimed(d).domain = d
    BY IdleFacts DEF RequestState, Steps
<1> HIDE DEF created, claimed
<1>5. CASE Becomes(r, created)
    BY <1>1, <1>2, <1>3, <1>5, LookKeeps
<1>6. ASSUME NEW d \in Domains, Exists(d), Becomes(r, claimed(d)) PROVE IInv'
    BY <1>1, <1>4, <1>6, LookKeeps
<1> QED
    BY <1>1, <1>5, <1>6

LEMMA AssignLookKeeps ==
    ASSUME IInv, NEW r \in Requests, NEW d \in Domains, NEW w \in Sites, NEW replace \in BOOLEAN,
           AssignLook(r, d, w, replace)
    PROVE  IInv'
<1> DEFINE state == [Idle EXCEPT !.pc = IF domain[d].site = w THEN "keep" ELSE "existing",
                                 !.domain = d, !.site = w, !.replace = replace]
<1>1. /\ Exists(d) /\ site[w] # "ABSENT" /\ domain[d].status = "ACTIVE"
      /\ domain[d].site \in {w, None}
      /\ Becomes(r, state)
    BY DEF AssignLook, MayTake
<1>2. /\ state \in RequestState /\ ~state.passed
      /\ state.domain = d /\ state.site = w
      /\ state.pc = IF domain[d].site = w THEN "keep" ELSE "existing"
    BY IdleFacts DEF RequestState, Steps
<1> HIDE DEF state
<1> QED
    BY <1>1, <1>2, LookKeeps

LEMMA UnassignLookKeeps ==
    ASSUME IInv, NEW r \in Requests, NEW d \in Domains, UnassignLook(r, d)
    PROVE  IInv'
<1> DEFINE state == [Idle EXCEPT !.pc = "release", !.domain = d]
<1>1. Exists(d) /\ Becomes(r, state)
    BY DEF UnassignLook
<1>2. /\ state \in RequestState /\ ~state.passed
      /\ state.pc = "release" /\ state.domain = d /\ state.site = None
    BY IdleFacts DEF RequestState, Steps
<1> HIDE DEF state
<1> QED
    BY <1>1, <1>2, NoneFacts, LookKeeps

LEMMA DomainIsPlaced ==
    ASSUME IInv, NEW d \in Domains, NEW w \in Sites, BelongsTo(d, w)
    PROVE  Exists(d) /\ domain[d].site = w /\ w # None /\ site[w] # "ABSENT"
BY NoneFacts DEF IInv, Placed, Assigned, BelongsTo

LEMMA UpdateLookKeeps ==
    ASSUME IInv, NEW r \in Requests, NEW d \in Domains, NEW w \in Sites, NEW change \in Changes,
           UpdateLook(r, d, w, change)
    PROVE  IInv'
<1> DEFINE finalStatus == IF change.status = None THEN domain[d].status ELSE change.status
           finalPrimary == IF change.primary = None THEN domain[d].primary ELSE change.primary
           alone == finalPrimary /\ finalStatus = "ACTIVE"
           state == [Idle EXCEPT !.pc = "write", !.domain = d, !.site = w, !.change = change,
                                 !.alone = alone]
<1>1. BelongsTo(d, w) /\ change.status # "DISABLED" /\ Becomes(r, state)
    BY DEF UpdateLook
<1>2. Exists(d) /\ domain[d].site = w /\ w # None /\ site[w] # "ABSENT"
    BY <1>1, DomainIsPlaced
<1>3. change \in Decision /\ alone \in BOOLEAN
    BY DEF Changes
<1> HIDE DEF alone
<1>4. /\ state \in RequestState /\ ~state.passed
      /\ state.pc = "write" /\ state.domain = d /\ state.site = w /\ state.change = change
    BY <1>3, IdleFacts DEF RequestState, Steps
<1> HIDE DEF state
<1> QED
    BY <1>1, <1>2, <1>4, LookKeeps

LEMMA ActivateLookKeeps ==
    ASSUME IInv, NEW r \in Requests, NEW d \in Domains, NEW w \in Sites, NEW primary \in BOOLEAN,
           ActivateLook(r, d, w, primary)
    PROVE  IInv'
<1> DEFINE change == [NoChange EXCEPT !.status = "ACTIVE", !.primary = IF primary THEN TRUE ELSE None]
           state == [Idle EXCEPT !.pc = "write", !.domain = d, !.site = w, !.alone = primary,
                                 !.change = change]
<1>1. BelongsTo(d, w) /\ Becomes(r, state)
    BY DEF ActivateLook
<1>2. Exists(d) /\ domain[d].site = w /\ w # None /\ site[w] # "ABSENT"
    BY <1>1, DomainIsPlaced
<1>3. change \in Decision /\ change.status = "ACTIVE"
    BY NoChangeFacts DEF Decision, DomainStatuses
<1> HIDE DEF change
<1>4. /\ state \in RequestState /\ ~state.passed
      /\ state.pc = "write" /\ state.domain = d /\ state.site = w /\ state.change = change
    BY <1>3, IdleFacts DEF RequestState, Steps
<1> HIDE DEF state
<1> QED
    BY <1>1, <1>2, <1>3, <1>4, LookKeeps

LEMMA StandaloneLookKeeps ==
    ASSUME IInv, NEW r \in Requests, NEW d \in Domains, NEW change \in Changes,
           StandaloneLook(r, d, change)
    PROVE  IInv'
<1> DEFINE state == [Idle EXCEPT !.pc = "write", !.domain = d, !.change = change]
<1>1. /\ Exists(d) /\ change \in Decision
      /\ change.status = "DISABLED" => domain[d].site = None
      /\ change.primary = IF change.status = "DISABLED" THEN FALSE ELSE None
      /\ Becomes(r, state)
    BY DEF StandaloneLook, Changes
<1>2. change.primary # TRUE
    BY <1>1, DomainAssumption
<1>3. /\ state \in RequestState /\ ~state.passed
      /\ state.pc = "write" /\ state.domain = d /\ state.site = None /\ state.change = change
    BY <1>1, IdleFacts DEF RequestState, Steps
<1> HIDE DEF state
<1> QED
    BY <1>1, <1>2, <1>3, NoneFacts, LookKeeps

LEMMA AssignExistingKeeps ==
    ASSUME IInv, NEW r \in Requests, AssignExisting(r)
    PROVE  IInv'
<1> DEFINE has == DomainsOf(request[r].site) # {}
           state == [request[r] EXCEPT !.pc = "move", !.strip = has]
<1>1. Becomes(r, state) /\ At(r, "existing")
    BY DEF AssignExisting
<1>2. request[r] \in RequestState /\ Grounded(r) /\ Fresh(r)
    BY DEF IInv, TypeOK
<1>3. /\ state \in RequestState /\ state.pc = "move" /\ state.strip = has
      /\ state.domain = request[r].domain /\ state.site = request[r].site
      /\ state.change = request[r].change /\ state.passed = request[r].passed
    BY <1>2 DEF RequestState, Steps
<1> HIDE DEF state
<1>4. request'[r] = state /\ UNCHANGED <<site, domain>>
    BY <1>1, BecomesFacts DEF IInv
<1>5. Grounded(r)'
    BY <1>1, <1>2, <1>3, <1>4 DEF Grounded, Exists, At
<1>6. Fresh(r)'
    BY <1>1, <1>2, <1>3, <1>4 DEF Fresh, DomainsOf, Exists, At
<1> QED
    BY <1>1, <1>3, <1>5, <1>6, BecomesKeeps

LEMMA EndKeeps ==
    ASSUME IInv, NEW r \in Requests, GiveUp(r) \/ Clear(r)
    PROVE  IInv'
<1>1. Becomes(r, Idle)
    BY DEF GiveUp, Clear, Refuse
<1>2. request'[r] = Idle
    BY <1>1, BecomesFacts DEF IInv
<1>3. Grounded(r)' /\ Fresh(r)'
    BY <1>2, IdleFacts, NoneFacts DEF Grounded, Fresh
<1> QED
    BY <1>1, <1>3, IdleFacts, BecomesKeeps

-----------------------------------------------------------------------------
(* Writes.                                                                  *)

HasSite(row) == row # None /\ row.site # None
OneEach(rows) ==
    \A d, e \in Domains : HasSite(rows[d]) /\ HasSite(rows[e]) /\ rows[d].site = rows[e].site => d = e
AssignedAreActive(rows) == \A d \in Domains : HasSite(rows[d]) => rows[d].status = "ACTIVE"
PrimaryIsAssigned(rows) == \A d \in Domains : rows[d] # None /\ rows[d].primary => HasSite(rows[d])
OrderIn(rows) == OneEach(rows) /\ AssignedAreActive(rows) /\ PrimaryIsAssigned(rows)

\* What a domain can become without passing from one website to another.
Released(rows) == \A d \in Domains : Assigned(d) => rows[d].site \in {domain[d].site, None}

\* What every write does to the rows.
WellWritten(r, rows) ==
    /\ rows \in Rows
    /\ \A d \in Domains : Exists(d) => rows[d] # None
    /\ \A d \in Domains : rows[d] # None /\ rows[d].site # None => site[rows[d].site] # "ABSENT"
    /\ ~overtaken /\ ~request[r].passed => OrderIn(rows) /\ Released(rows)

LEMMA WellWrittenKeeps ==
    ASSUME IInv, NEW r \in Requests, NEW rows, WritesDomains(r, rows), WellWritten(r, rows)
    PROVE  IInv'
<1>1. domain' = rows /\ UNCHANGED site /\ Writes(r)
    BY DEF WritesDomains
<1>2. RowsMove
    BY <1>1 DEF WellWritten, RowsMove, Rows, Placed, Assigned, Exists, IInv, TypeOK
<1>3. OrderIn(rows) => Order'
    BY <1>1, Zenon DEF OrderIn, OneEach, AssignedAreActive, PrimaryIsAssigned, HasSite,
                       Order, Assigned, Exists
<1> QED
    BY <1>1, <1>2, <1>3, WritesKeeps DEF WellWritten

LEMMA InHand ==
    ASSUME IInv, NEW r \in Requests
    PROVE  /\ request[r] \in RequestState /\ domain \in Rows /\ Placed
           /\ Grounded(r) /\ Fresh(r)
           /\ ~overtaken => OrderIn(domain)
<1>1. Order => OneEach(domain)
    BY DEF Order, OneEach, HasSite, Assigned, Exists
<1>2. Order => AssignedAreActive(domain)
    BY DEF Order, AssignedAreActive, HasSite, Assigned, Exists
<1>3. Order => PrimaryIsAssigned(domain)
    BY Zenon DEF Order, PrimaryIsAssigned, HasSite, Assigned, Exists
<1>4. ~overtaken => OrderIn(domain)
    BY <1>1, <1>2, <1>3 DEF IInv, OrderIn
<1> QED
    BY <1>4 DEF IInv, TypeOK, Rows

LEMMA InsertFacts ==
    ASSUME domain \in Rows, NEW d \in Domains, NEW h \in Hosts, NEW status \in DomainStatuses,
           NEW w \in Sites \cup {None}, NEW primary \in BOOLEAN,
           NEW rows, rows = Insert(d, h, status, w, primary)
    PROVE  /\ rows \in Rows
           /\ \A e \in Domains \ {d} : rows[e] = domain[e]
           /\ rows[d] # None /\ rows[d].site = w /\ rows[d].status = status
           /\ rows[d].primary = primary
<1> DEFINE row == [host |-> h, status |-> status, site |-> w, primary |-> primary]
<1>1. row \in DomainRecord /\ row.site = w /\ row.status = status /\ row.primary = primary
    BY DEF DomainRecord
<1>2. row # None
    BY <1>1, DomainAssumption
<1>3. Insert(d, h, status, w, primary) = [domain EXCEPT ![d] = row]
    BY DEF Insert
<1> HIDE DEF row
<1> QED
    BY <1>1, <1>2, <1>3 DEF Rows

\* The row is new: the website had none, if what was looked at still holds.
LEMMA CreateInsertWrites ==
    ASSUME IInv, NEW r \in Requests, NEW d \in Domains, CreateInsert(r, d)
    PROVE  \E rows : WritesDomains(r, rows) /\ WellWritten(r, rows)
<1> DEFINE me == request[r]
           rows == Insert(d, me.change.host, "ACTIVE", me.site, TRUE)
<1>1. At(r, "insert") /\ ~Exists(d) /\ WritesDomains(r, rows)
    BY DEF CreateInsert
<1>2. /\ domain \in Rows /\ Placed
      /\ ~overtaken => OrderIn(domain)
      /\ me.change.host \in Hosts /\ me.site \in Sites /\ site[me.site] # "ABSENT"
      /\ ~me.passed => DomainsOf(me.site) = {}
    BY <1>1, InHand DEF At, Grounded, Fresh
<1>3. /\ rows \in Rows
      /\ \A e \in Domains \ {d} : rows[e] = domain[e]
      /\ rows[d] # None /\ rows[d].site = me.site /\ rows[d].status = "ACTIVE"
  <2> DEFINE active == "ACTIVE"
             primary == TRUE
  <2>1. /\ active \in DomainStatuses /\ primary \in BOOLEAN
        /\ rows = Insert(d, me.change.host, active, me.site, primary)
    BY DEF DomainStatuses
  <2> HIDE DEF active, primary, rows
  <2>2. /\ rows \in Rows
        /\ \A e \in Domains \ {d} : rows[e] = domain[e]
        /\ rows[d] # None /\ rows[d].site = me.site /\ rows[d].status = active
    BY <1>2, <2>1, InsertFacts
  <2> QED
    BY <2>2 DEF active
<1> HIDE DEF rows
<1>4. ASSUME NEW e \in Domains, rows[e] # None, rows[e].site # None
      PROVE  site[rows[e].site] # "ABSENT"
  <2>1. CASE e = d
    BY <1>2, <1>3, <2>1
  <2>2. CASE e # d
    BY <1>2, <1>3, <1>4, <2>2 DEF Placed, Assigned, Exists
  <2> QED
    BY <2>1, <2>2
<1>5. ASSUME ~overtaken, ~me.passed PROVE OrderIn(rows) /\ Released(rows)
  <2>1. OrderIn(domain) /\ \A e \in Domains : domain[e] # None => domain[e].site # me.site
    BY <1>2, <1>5 DEF DomainsOf, Exists
  <2>2. \A e \in Domains : rows[e] # None /\ rows[e].site # None =>
            e = d \/ (rows[e] = domain[e] /\ rows[e].site # me.site)
    BY <1>3, <2>1
  <2>3. OneEach(rows)
    BY <1>3, <2>1, <2>2 DEF OrderIn, OneEach, HasSite
  <2>4. AssignedAreActive(rows)
    BY <1>3, <2>1, <2>2 DEF OrderIn, AssignedAreActive, HasSite
  <2>5. PrimaryIsAssigned(rows)
    <3>1. ASSUME NEW e \in Domains, rows[e] # None, rows[e].primary PROVE HasSite(rows[e])
      <4>1. CASE e = d
        BY <1>2, <1>3, <4>1, NoneFacts DEF HasSite
      <4>2. CASE e # d
        BY <1>3, <2>1, <3>1, <4>2, Zenon DEF OrderIn, PrimaryIsAssigned
      <4> QED
        BY <4>1, <4>2
    <3> QED
      BY <3>1, Zenon DEF PrimaryIsAssigned
  <2>6. Released(rows)
    BY <1>1, <1>3 DEF Released, Assigned, Exists
  <2> QED
    BY <2>3, <2>4, <2>5, <2>6 DEF OrderIn
<1>6. WellWritten(r, rows)
    BY <1>1, <1>3, <1>4, <1>5 DEF WellWritten, Exists
<1> QED
    BY <1>1, <1>6

\* A new row in the pool disturbs nothing.
PoolRow(d, h, status) == Insert(d, h, status, None, FALSE)

LEMMA PoolRowFacts ==
    ASSUME IInv, NEW d \in Domains, ~Exists(d), NEW h \in Hosts, NEW status \in DomainStatuses,
           NEW rows, rows = PoolRow(d, h, status)
    PROVE  /\ rows \in Rows
           /\ \A e \in Domains \ {d} : rows[e] = domain[e]
           /\ rows[d] # None /\ rows[d].site = None
           /\ \A e \in Domains : HasSite(rows[e]) => rows[e] = domain[e]
           /\ \A e \in Domains : HasSite(rows[e]) => site[rows[e].site] # "ABSENT"
           /\ OrderIn(domain) => OrderIn(rows)
           /\ Released(rows)
<1>2. domain \in Rows /\ Placed
    BY DEF IInv, TypeOK, Rows
<1>3. /\ rows \in Rows
      /\ \A e \in Domains \ {d} : rows[e] = domain[e]
      /\ rows[d] # None /\ rows[d].site = None /\ rows[d].primary = FALSE
  <2> DEFINE w == None
             primary == FALSE
  <2>1. w \in Sites \cup {None} /\ primary \in BOOLEAN /\ rows = Insert(d, h, status, w, primary)
    BY DEF PoolRow
  <2> HIDE DEF w, primary
  <2>2. /\ rows \in Rows
        /\ \A e \in Domains \ {d} : rows[e] = domain[e]
        /\ rows[d] # None /\ rows[d].site = w /\ rows[d].primary = primary
    BY <1>2, <2>1, InsertFacts
  <2> QED
    BY <2>2 DEF w, primary
<1>4. \A e \in Domains : HasSite(rows[e]) => rows[e] = domain[e]
    BY <1>3 DEF HasSite
<1>5. OrderIn(domain) => OrderIn(rows)
  <2>1. OneEach(domain) => OneEach(rows)
    BY <1>4, Zenon DEF OneEach
  <2>2. AssignedAreActive(domain) => AssignedAreActive(rows)
    BY <1>4, Zenon DEF AssignedAreActive
  <2>3. ASSUME PrimaryIsAssigned(domain), NEW e \in Domains, rows[e] # None, rows[e].primary
        PROVE  HasSite(rows[e])
    <3>1. e # d
      BY <1>3, <2>3
    <3> QED
      BY <1>3, <2>3, <3>1, Zenon DEF PrimaryIsAssigned
  <2> QED
    BY <2>1, <2>2, <2>3, Zenon DEF OrderIn, PrimaryIsAssigned
<1>6. \A e \in Domains : HasSite(rows[e]) => site[rows[e].site] # "ABSENT"
    BY <1>2, <1>4 DEF HasSite, Placed, Assigned, Exists
<1>7. Released(rows)
    BY <1>3 DEF Released, Assigned, Exists
<1> QED
    BY <1>3, <1>4, <1>5, <1>6, <1>7

LEMMA CreateStandaloneWrites ==
    ASSUME IInv, NEW r \in Requests, NEW d \in Domains, NEW h \in Hosts,
           NEW status \in DomainStatuses, CreateStandalone(r, d, h, status)
    PROVE  \E rows : WritesDomains(r, rows) /\ WellWritten(r, rows)
<1> DEFINE rows == Insert(d, h, status, None, FALSE)
<1>1. ~Exists(d) /\ WritesDomains(r, rows) /\ rows = PoolRow(d, h, status)
    BY DEF CreateStandalone, PoolRow
<1> HIDE DEF rows
<1>2. /\ rows \in Rows
      /\ \A e \in Domains : Exists(e) => rows[e] # None
      /\ \A e \in Domains : HasSite(rows[e]) => site[rows[e].site] # "ABSENT"
      /\ OrderIn(domain) => OrderIn(rows)
      /\ Released(rows)
    BY <1>1, PoolRowFacts DEF Exists
<1>3. WellWritten(r, rows)
    BY <1>2, InHand DEF WellWritten, HasSite
<1> QED
    BY <1>1, <1>3

\* One row d changes as it likes; the others keep their website or lose it.
LEMMA OrderAfter ==
    ASSUME OrderIn(domain), NEW rows, NEW d \in Domains,
           \A e \in Domains \ {d} : HasSite(rows[e]) =>
               /\ HasSite(domain[e])
               /\ rows[e].site = domain[e].site /\ rows[e].status = domain[e].status
               /\ HasSite(rows[d]) => rows[d].site # rows[e].site,
           \A e \in Domains : rows[e] # None /\ rows[e].primary => HasSite(rows[e]),
           HasSite(rows[d]) => rows[d].status = "ACTIVE"
    PROVE  OrderIn(rows)
<1>1. OneEach(rows)
    BY DEF OrderIn, OneEach
<1>2. AssignedAreActive(rows)
    BY DEF OrderIn, AssignedAreActive
<1>3. PrimaryIsAssigned(rows)
    BY Zenon DEF PrimaryIsAssigned
<1> QED
    BY <1>1, <1>2, <1>3 DEF OrderIn

Put(old, d, w) == [old EXCEPT ![d].site = w, ![d].primary = TRUE]
MadePrimary(old, d) == [old EXCEPT ![d].primary = TRUE]

LEMMA PutFacts ==
    ASSUME NEW old \in Rows, NEW d \in Domains, old[d] # None, NEW w \in Sites,
           NEW rows, rows = Put(old, d, w)
    PROVE  /\ rows \in Rows
           /\ \A e \in Domains \ {d} : rows[e] = old[e]
           /\ rows[d] # None /\ rows[d].site = w /\ rows[d].status = old[d].status
<1> DEFINE row == [old[d] EXCEPT !.site = w, !.primary = TRUE]
<1>1. old[d] \in DomainRecord
    BY DEF Rows
<1>2. row \in DomainRecord /\ row.site = w /\ row.status = old[d].status
    BY <1>1 DEF DomainRecord
<1>3. row # None
    BY <1>2, DomainAssumption
<1>4. rows = [old EXCEPT ![d] = row]
    BY <1>1 DEF Put, Rows, DomainRecord
<1> HIDE DEF row
<1> QED
    BY <1>2, <1>3, <1>4 DEF Rows

LEMMA PrimaryFacts ==
    ASSUME NEW old \in Rows, NEW d \in Domains, old[d] # None,
           NEW rows, rows = MadePrimary(old, d)
    PROVE  /\ rows \in Rows
           /\ \A e \in Domains \ {d} : rows[e] = old[e]
           /\ rows[d] # None /\ rows[d].site = old[d].site /\ rows[d].status = old[d].status
<1> DEFINE row == [old[d] EXCEPT !.primary = TRUE]
<1>1. old[d] \in DomainRecord
    BY DEF Rows
<1>2. row \in DomainRecord /\ row.site = old[d].site /\ row.status = old[d].status
    BY <1>1 DEF DomainRecord
<1>3. row # None
    BY <1>2, DomainAssumption
<1>4. rows = [old EXCEPT ![d] = row]
    BY <1>1 DEF MadePrimary, Rows, DomainRecord
<1> HIDE DEF row
<1> QED
    BY <1>2, <1>3, <1>4 DEF Rows

\* What a look has left unchanged in the rows that a move strips.
LEMMA StrippedKeeps ==
    ASSUME domain \in Rows, NEW S, \A e \in S : e \in Domains /\ Exists(e), NEW e \in Domains
    PROVE  /\ Exists(e) => Stripped(S)[e] # None
           /\ Stripped(S)[e] # None => Exists(e) /\ Stripped(S)[e].status = domain[e].status
           /\ HasSite(Stripped(S)[e]) => e \notin S /\ Stripped(S)[e] = domain[e]
           /\ Stripped(S)[e] # None /\ Stripped(S)[e].primary => e \notin S
<1>1. CASE e \in S
    BY <1>1, StrippedFacts DEF HasSite, Exists
<1>2. CASE e \notin S
    BY <1>2, StrippedFacts DEF HasSite, Exists
<1> QED
    BY <1>1, <1>2

LEMMA AssignMoveWrites ==
    ASSUME IInv, NEW r \in Requests, AssignMove(r)
    PROVE  \E rows : WritesDomains(r, rows) /\ WellWritten(r, rows)
<1> DEFINE me == request[r]
           d == me.domain
           S == IF me.strip THEN DomainsOf(me.site) ELSE {}
           old == Stripped(S)
           rows == [old EXCEPT ![d].site = me.site, ![d].primary = TRUE]
<1>1. At(r, "move") /\ WritesDomains(r, rows)
    BY DEF AssignMove
<1>2. /\ domain \in Rows /\ Placed
      /\ ~overtaken => OrderIn(domain)
      /\ d \in Domains /\ Exists(d) /\ me.site \in Sites /\ site[me.site] # "ABSENT"
      /\ ~me.passed => /\ domain[d].site = None /\ domain[d].status = "ACTIVE"
                       /\ me.strip \/ DomainsOf(me.site) = {}
    BY <1>1, InHand DEF At, Grounded, Fresh
<1>3. \A e \in S : e \in Domains /\ Exists(e)
    BY DEF DomainsOf
<1>4. ~me.passed => \A e \in Domains : Exists(e) /\ domain[e].site = me.site => e \in S
    BY <1>2 DEF DomainsOf
<1> HIDE DEF S
<1>5. /\ old \in Rows
      /\ \A e \in Domains :
            /\ Exists(e) => old[e] # None
            /\ old[e] # None => Exists(e) /\ old[e].status = domain[e].status
            /\ HasSite(old[e]) => e \notin S /\ old[e] = domain[e]
            /\ old[e] # None /\ old[e].primary => e \notin S
    BY <1>2, <1>3, StrippedFacts, StrippedKeeps
<1>6. \A e \in Domains \ S : old[e] = domain[e]
    BY <1>2, <1>3, StrippedFacts
<1> HIDE DEF old
<1>7. /\ rows \in Rows
      /\ \A e \in Domains \ {d} : rows[e] = old[e]
      /\ rows[d] # None /\ rows[d].site = me.site /\ rows[d].status = old[d].status
  <2>1. /\ rows = Put(old, d, me.site)
        /\ old \in Rows /\ d \in Domains /\ old[d] # None /\ me.site \in Sites
    BY <1>2, <1>5 DEF Put
  <2> HIDE DEF rows, d, me
  <2> QED
    BY <2>1, PutFacts
<1> HIDE DEF rows, d, me
<1>8. /\ \A e \in Domains : Exists(e) => rows[e] # None
      /\ \A e \in Domains : HasSite(rows[e]) => site[rows[e].site] # "ABSENT"
    BY <1>2, <1>5, <1>7 DEF HasSite, Placed, Assigned, Exists
<1>9. ASSUME ~overtaken, ~me.passed PROVE OrderIn(rows) /\ Released(rows)
  <2>1. \A e \in Domains \ {d} : HasSite(rows[e]) =>
            /\ HasSite(domain[e])
            /\ rows[e].site = domain[e].site /\ rows[e].status = domain[e].status
            /\ HasSite(rows[d]) => rows[d].site # rows[e].site
    BY <1>4, <1>5, <1>7, <1>9 DEF HasSite, Exists
  <2>2. ASSUME NEW e \in Domains, rows[e] # None, rows[e].primary PROVE HasSite(rows[e])
    <3>1. CASE e = d
      BY <1>2, <1>7, <3>1, NoneFacts DEF HasSite
    <3>2. CASE e # d
      <4>1. rows[e] = old[e]
        BY <1>7, <3>2
      <4>2. e \notin S
        BY <1>5, <2>2, <4>1, Zenon
      <4>3. rows[e] = domain[e]
        BY <1>6, <4>1, <4>2
      <4> QED
        BY <1>2, <1>9, <2>2, <4>3, Zenon DEF OrderIn, PrimaryIsAssigned
    <3> QED
      BY <3>1, <3>2
  <2>3. OrderIn(rows)
    BY <1>2, <1>5, <1>7, <1>9, <2>1, <2>2, OrderAfter
  <2>4. Released(rows)
    <3> SUFFICES ASSUME NEW e \in Domains, Assigned(e)
                 PROVE  rows[e].site \in {domain[e].site, None}
      BY DEF Released
    <3>1. e # d
      BY <1>2, <1>9 DEF Assigned
    <3> QED
      BY <1>5, <1>7, <3>1 DEF Assigned, HasSite
  <2> QED
    BY <2>3, <2>4
<1>10. WellWritten(r, rows)
    BY <1>7, <1>8, <1>9 DEF WellWritten, HasSite, me
<1> QED
    BY <1>1, <1>10 DEF rows, d, me, old, S

LEMMA AssignKeepWrites ==
    ASSUME IInv, NEW r \in Requests, AssignKeep(r)
    PROVE  \E rows : WritesDomains(r, rows) /\ WellWritten(r, rows)
<1> DEFINE me == request[r]
           d == me.domain
           S == DomainsOf(me.site) \ {d}
           old == Stripped(S)
           rows == [old EXCEPT ![d].primary = TRUE]
<1>1. At(r, "keep") /\ WritesDomains(r, rows)
    BY DEF AssignKeep
<1>2. /\ domain \in Rows /\ Placed
      /\ ~overtaken => OrderIn(domain)
      /\ d \in Domains /\ Exists(d) /\ me.site \in Sites
      /\ ~me.passed => domain[d].site = me.site /\ domain[d].status = "ACTIVE"
    BY <1>1, InHand DEF At, Grounded, Fresh
<1>3. /\ \A e \in S : e \in Domains /\ Exists(e)
      /\ d \notin S
      /\ \A e \in Domains \ {d} : Exists(e) /\ domain[e].site = me.site => e \in S
    BY DEF DomainsOf
<1> HIDE DEF S
<1>5. /\ old \in Rows
      /\ \A e \in Domains :
            /\ Exists(e) => old[e] # None
            /\ old[e] # None => Exists(e) /\ old[e].status = domain[e].status
            /\ HasSite(old[e]) => e \notin S /\ old[e] = domain[e]
            /\ old[e] # None /\ old[e].primary => e \notin S
    BY <1>2, <1>3, StrippedFacts, StrippedKeeps
<1>6. \A e \in Domains \ S : old[e] = domain[e]
    BY <1>2, <1>3, StrippedFacts
<1> HIDE DEF old
<1>7. /\ rows \in Rows
      /\ \A e \in Domains \ {d} : rows[e] = old[e]
      /\ rows[d] # None /\ rows[d].site = old[d].site /\ rows[d].status = old[d].status
  <2>1. /\ rows = MadePrimary(old, d)
        /\ old \in Rows /\ d \in Domains /\ old[d] # None
    BY <1>2, <1>5 DEF MadePrimary
  <2> HIDE DEF rows, d, me
  <2> QED
    BY <2>1, PrimaryFacts
<1> HIDE DEF rows, d, me
<1>8. /\ old[d] = domain[d]
      /\ \A e \in Domains : Exists(e) => rows[e] # None
      /\ \A e \in Domains : HasSite(rows[e]) => HasSite(domain[e]) /\ rows[e].site = domain[e].site
    BY <1>2, <1>3, <1>5, <1>6, <1>7 DEF HasSite, Exists
<1>9. ASSUME ~overtaken, ~me.passed PROVE OrderIn(rows) /\ Released(rows)
  <2>1. \A e \in Domains \ {d} : HasSite(rows[e]) =>
            /\ HasSite(domain[e])
            /\ rows[e].site = domain[e].site /\ rows[e].status = domain[e].status
            /\ HasSite(rows[d]) => rows[d].site # rows[e].site
    BY <1>2, <1>3, <1>5, <1>7, <1>8, <1>9 DEF HasSite, Exists
  <2>2. ASSUME NEW e \in Domains, rows[e] # None, rows[e].primary PROVE HasSite(rows[e])
    <3>1. CASE e = d
      BY <1>2, <1>7, <1>8, <1>9, <3>1, NoneFacts DEF HasSite
    <3>2. CASE e # d
      <4>1. rows[e] = old[e]
        BY <1>7, <3>2
      <4>2. e \notin S
        BY <1>5, <2>2, <4>1, Zenon
      <4>3. rows[e] = domain[e]
        BY <1>6, <4>1, <4>2
      <4> QED
        BY <1>2, <1>9, <2>2, <4>3, Zenon DEF OrderIn, PrimaryIsAssigned
    <3> QED
      BY <3>1, <3>2
  <2>3. OrderIn(rows)
    BY <1>2, <1>7, <1>8, <1>9, <2>1, <2>2, OrderAfter
  <2>4. Released(rows)
    BY <1>8 DEF Released, Assigned, Exists, HasSite
  <2> QED
    BY <2>3, <2>4
<1>10. \A e \in Domains : HasSite(rows[e]) => site[rows[e].site] # "ABSENT"
    BY <1>2, <1>8 DEF HasSite, Placed, Assigned, Exists
<1>11. WellWritten(r, rows)
    BY <1>7, <1>8, <1>9, <1>10 DEF WellWritten, HasSite, me
<1> QED
    BY <1>1, <1>11 DEF rows, d, me, old, S

LEMMA UnassignWrites ==
    ASSUME IInv, NEW r \in Requests, Unassign(r)
    PROVE  \E rows : WritesDomains(r, rows) /\ WellWritten(r, rows)
<1> DEFINE d == request[r].domain
           rows == Stripped({d})
<1>1. At(r, "release") /\ WritesDomains(r, rows)
    BY DEF Unassign
<1>2. /\ domain \in Rows /\ Placed
      /\ ~overtaken => OrderIn(domain)
      /\ d \in Domains /\ Exists(d)
    BY <1>1, InHand DEF At, Grounded
<1> HIDE DEF d
<1>3. /\ rows \in Rows
      /\ \A e \in Domains :
            /\ Exists(e) => rows[e] # None
            /\ HasSite(rows[e]) => rows[e] = domain[e]
            /\ rows[e] # None /\ rows[e].primary => e # d
      /\ \A e \in Domains \ {d} : rows[e] = domain[e]
      /\ rows[d] # None /\ rows[d].site = None
    BY <1>2, StrippedFacts, StrippedKeeps
<1> HIDE DEF rows
<1>4. ASSUME OrderIn(domain) PROVE OrderIn(rows)
  <2>1. \A e \in Domains \ {d} : HasSite(rows[e]) =>
            /\ HasSite(domain[e])
            /\ rows[e].site = domain[e].site /\ rows[e].status = domain[e].status
            /\ HasSite(rows[d]) => rows[d].site # rows[e].site
    BY <1>3 DEF HasSite
  <2>2. ASSUME NEW e \in Domains, rows[e] # None, rows[e].primary PROVE HasSite(rows[e])
    <3>1. e # d
      BY <1>3, <2>2, Zenon
    <3>2. rows[e] = domain[e]
      BY <1>3, <3>1
    <3> QED
      BY <1>4, <2>2, <3>2, Zenon DEF OrderIn, PrimaryIsAssigned
  <2> QED
    BY <1>2, <1>3, <1>4, <2>1, <2>2, OrderAfter DEF HasSite
<1>5. Released(rows)
    BY <1>2, <1>3 DEF Released, Assigned, Exists
<1>6. WellWritten(r, rows)
    BY <1>2, <1>3, <1>4, <1>5 DEF WellWritten, HasSite, Placed, Assigned, Exists
<1> QED
    BY <1>1, <1>6 DEF rows, d

LEMMA ActivateStandaloneWrites ==
    ASSUME IInv, NEW r \in Requests, NEW d \in Domains, ActivateStandalone(r, d)
    PROVE  \E rows : WritesDomains(r, rows) /\ WellWritten(r, rows)
<1> DEFINE row == [domain[d] EXCEPT !.status = "ACTIVE"]
           rows == [domain EXCEPT ![d].status = "ACTIVE"]
<1>1. Exists(d) /\ WritesDomains(r, rows)
    BY DEF ActivateStandalone
<1>2. domain \in Rows /\ Placed /\ (~overtaken => OrderIn(domain))
    BY InHand
<1>3. domain[d] \in DomainRecord
    BY <1>1, <1>2 DEF Rows, Exists
<1>4. /\ row \in DomainRecord /\ row.site = domain[d].site /\ row.status = "ACTIVE"
      /\ row.primary = domain[d].primary
    BY <1>3 DEF DomainRecord, DomainStatuses
<1>5. row # None
    BY <1>4, DomainAssumption
<1>6. rows = [domain EXCEPT ![d] = row]
    BY <1>2, <1>3 DEF Rows, DomainRecord
<1> HIDE DEF row
<1>7. /\ rows \in Rows
      /\ \A e \in Domains \ {d} : rows[e] = domain[e]
      /\ rows[d] # None /\ rows[d].site = domain[d].site /\ rows[d].status = "ACTIVE"
      /\ rows[d].primary = domain[d].primary
    BY <1>2, <1>4, <1>5, <1>6 DEF Rows
<1> HIDE DEF rows
<1>8. \A e \in Domains : /\ Exists(e) <=> rows[e] # None
                         /\ Exists(e) => rows[e].site = domain[e].site
    BY <1>1, <1>7 DEF Exists
<1>9. ASSUME OrderIn(domain) PROVE OrderIn(rows)
  <2>1. \A e \in Domains \ {d} : HasSite(rows[e]) =>
            /\ HasSite(domain[e])
            /\ rows[e].site = domain[e].site /\ rows[e].status = domain[e].status
            /\ HasSite(rows[d]) => rows[d].site # rows[e].site
    BY <1>1, <1>7, <1>9 DEF OrderIn, OneEach, HasSite, Exists
  <2>2. ASSUME NEW e \in Domains, rows[e] # None, rows[e].primary PROVE HasSite(rows[e])
    <3>1. Exists(e) /\ rows[e].site = domain[e].site
      BY <1>8, <2>2, Zenon
    <3>2. domain[e].primary
      <4>1. CASE e = d
        BY <1>7, <2>2, <4>1, Zenon
      <4>2. CASE e # d
        <5>1. rows[e] = domain[e]
          BY <1>7, <4>2
        <5> QED
          BY <2>2, <5>1, Zenon
      <4> QED
        BY <4>1, <4>2
    <3>3. HasSite(domain[e])
      BY <1>9, <3>1, <3>2, Zenon DEF OrderIn, PrimaryIsAssigned, Exists
    <3> QED
      BY <2>2, <3>1, <3>3, Zenon DEF HasSite
  <2> QED
    BY <1>7, <1>9, <2>1, <2>2, OrderAfter
<1>10. Released(rows)
    BY <1>8 DEF Released, Assigned
<1>11. WellWritten(r, rows)
    BY <1>2, <1>7, <1>8, <1>9, <1>10 DEF WellWritten, Placed, Assigned, Exists
<1> QED
    BY <1>1, <1>11 DEF rows

LEMMA WriteWrites ==
    ASSUME IInv, NEW r \in Requests, Write(r)
    PROVE  \E rows : WritesDomains(r, rows) /\ WellWritten(r, rows)
<1> DEFINE me == request[r]
           d == me.domain
           change == me.change
           S == IF me.alone THEN DomainsOf(me.site) \ {d} ELSE {}
           old == Demoted(S)
           rows == Changed(old, d, change)
<1>1. At(r, "write") /\ WritesDomains(r, rows)
    BY DEF Write
<1>2. /\ domain \in Rows /\ Placed
      /\ ~overtaken => OrderIn(domain)
      /\ d \in Domains /\ Exists(d) /\ change \in Decision
      /\ ~me.passed => /\ change.status = "DISABLED" => domain[d].site = None
                       /\ change.primary = TRUE => domain[d].site # None
    BY <1>1, InHand DEF At, Grounded, Fresh, RequestState
<1>3. (\A e \in S : e \in Domains /\ Exists(e)) /\ d \notin S
    BY DEF DomainsOf
<1> HIDE DEF S
<1>4. /\ old \in Rows
      /\ \A e \in Domains \ S : old[e] = domain[e]
      /\ \A e \in S : /\ old[e] # None /\ old[e].site = domain[e].site
                      /\ old[e].primary = FALSE /\ old[e].status = domain[e].status
    BY <1>2, <1>3, DemotedFacts
<1>5. old[d] = domain[d]
    BY <1>2, <1>3, <1>4
<1> HIDE DEF old
<1>6. /\ rows \in Rows
      /\ \A e \in Domains \ {d} : rows[e] = old[e]
      /\ rows[d] # None /\ rows[d].site = domain[d].site
      /\ rows[d].status = IF change.status = None THEN domain[d].status ELSE change.status
      /\ rows[d].primary = IF change.primary = None THEN domain[d].primary ELSE change.primary
    BY <1>2, <1>4, <1>5, ChangedFacts DEF Exists
<1> HIDE DEF rows, d, change, me
<1>7. \A e \in Domains : /\ Exists(e) <=> rows[e] # None
                         /\ Exists(e) => rows[e].site = domain[e].site
  <2> SUFFICES ASSUME NEW e \in Domains
               PROVE  /\ Exists(e) <=> rows[e] # None
                      /\ Exists(e) => rows[e].site = domain[e].site
    OBVIOUS
  <2>1. CASE e = d
    BY <1>2, <1>6, <2>1 DEF Exists
  <2>2. CASE e \in S
    <3>1. rows[e] = old[e] /\ Exists(e)
      BY <1>2, <1>3, <1>6, <2>2
    <3> QED
      BY <1>4, <2>2, <3>1
  <2>3. CASE e # d /\ e \notin S
    BY <1>4, <1>6, <2>3 DEF Exists
  <2> QED
    BY <2>1, <2>2, <2>3
<1>8. \A e \in Domains \ {d} : Exists(e) => rows[e].status = domain[e].status
    BY <1>3, <1>4, <1>6
<1>9. ASSUME ~overtaken, ~me.passed PROVE OrderIn(rows)
  <2>1. OrderIn(domain)
    BY <1>2, <1>9
  <2>2. \A e \in Domains \ {d} : HasSite(rows[e]) =>
            /\ HasSite(domain[e])
            /\ rows[e].site = domain[e].site /\ rows[e].status = domain[e].status
            /\ HasSite(rows[d]) => rows[d].site # rows[e].site
    BY <1>2, <1>7, <1>8, <2>1 DEF OrderIn, OneEach, HasSite, Exists
  <2>3. ASSUME NEW e \in Domains, rows[e] # None, rows[e].primary PROVE HasSite(rows[e])
    <3>1. Exists(e) /\ rows[e].site = domain[e].site
      BY <1>7, <2>3, Zenon
    <3>2. CASE e = d /\ change.primary # None
      <4>1. change.primary = TRUE
        <5>1. change.primary \in BOOLEAN
          BY <1>2, <3>2 DEF Decision
        <5>2. change.primary
          BY <1>6, <2>3, <3>2, Zenon
        <5> QED
          BY <5>1, <5>2, Zenon
      <4> QED
        BY <1>2, <1>9, <2>3, <3>1, <3>2, <4>1 DEF HasSite
    <3>3. CASE ~(e = d /\ change.primary # None)
      <4>1. domain[e].primary
        <5>1. CASE e = d
          BY <1>6, <2>3, <3>3, <5>1, Zenon
        <5>2. CASE e # d
          <6>1. rows[e] = old[e]
            BY <1>6, <5>2
          <6>2. e \notin S
            BY <1>4, <2>3, <6>1, Zenon
          <6>3. rows[e] = domain[e]
            BY <1>4, <6>1, <6>2
          <6> QED
            BY <2>3, <6>3, Zenon
        <5> QED
          BY <5>1, <5>2
      <4>2. HasSite(domain[e])
        BY <2>1, <3>1, <4>1, Zenon DEF OrderIn, PrimaryIsAssigned, Exists
      <4> QED
        BY <2>3, <3>1, <4>2, Zenon DEF HasSite
    <3> QED
      BY <3>2, <3>3
  <2>4. HasSite(rows[d]) => rows[d].status = "ACTIVE"
    <3>1. HasSite(rows[d]) => HasSite(domain[d]) /\ domain[d].site # None
      BY <1>2, <1>6 DEF HasSite, Exists
    <3>2. HasSite(domain[d]) => domain[d].status = "ACTIVE"
      BY <1>2, <2>1 DEF OrderIn, AssignedAreActive
    <3>3. change.status \in {"ACTIVE", "DISABLED", None}
      BY <1>2 DEF Decision, DomainStatuses
    <3> QED
      BY <1>2, <1>6, <1>9, <3>1, <3>2, <3>3
  <2> QED
    BY <1>2, <2>1, <2>2, <2>3, <2>4, OrderAfter
<1>10. Released(rows)
    BY <1>7 DEF Released, Assigned
<1>11. WellWritten(r, rows)
    BY <1>2, <1>6, <1>7, <1>9, <1>10 DEF WellWritten, Placed, Assigned, me
<1> QED
    BY <1>1, <1>11 DEF rows, d, change, me, old, S

LEMMA SetSiteKeeps ==
    ASSUME IInv, NEW r \in Requests, NEW w \in Sites, NEW status \in {"ACTIVE", "DISABLED"},
           SetSite(r, w, status)
    PROVE  IInv'
<1>1. /\ site' = [site EXCEPT ![w] = status] /\ UNCHANGED domain /\ Writes(r)
    BY DEF SetSite
<1>2. RowsMove
    BY <1>1 DEF IInv, TypeOK, RowsMove, SiteStatuses, Placed, Assigned, Exists, DomainRecord
<1>3. ~overtaken /\ ~request[r].passed => Order'
    BY <1>1 DEF IInv, Order, Assigned, Exists
<1> QED
    BY <1>1, <1>2, <1>3, WritesKeeps

\* No request has looked at a website that does not exist: none of them loses what it has
\* in hand.
LEMMA CreateSiteKeeps ==
    ASSUME IInv, NEW w \in Sites, NEW status \in {"ACTIVE", "DISABLED"}, CreateSite(w, status)
    PROVE  IInv'
<1>1. /\ site' = [site EXCEPT ![w] = status] /\ UNCHANGED <<domain, overtaken>>
      /\ request' = Passes
    BY DEF CreateSite
<1>2. RowsMove
    BY <1>1 DEF IInv, TypeOK, RowsMove, SiteStatuses, Placed, Assigned, Exists, DomainRecord
<1>3. request' \in [Requests -> RequestState]
    BY <1>1, <1>2, PassesType DEF IInv, RowsMove
<1>4. ASSUME NEW q \in Requests PROVE Grounded(q)' /\ Fresh(q)'
  <2>1. request'[q] = Passes[q]
    BY <1>1
  <2> QED
    BY <1>2, <2>1, KeptFacts, KeptSound DEF IInv, RowsMove
<1>5. TypeOK'
    BY <1>1, <1>2, <1>3 DEF IInv, TypeOK, RowsMove
<1>6. ~overtaken' => Order'
    BY <1>1 DEF IInv, Order, Assigned, Exists
<1> QED
    BY <1>2, <1>4, <1>5, <1>6 DEF IInv, RowsMove

\* The claim creates its row in the pool and goes on.
LEMMA ClaimCreateFacts ==
    ASSUME IInv, NEW r \in Requests, NEW d \in Domains, ClaimCreate(r, d)
    PROVE  /\ request[r].pc = "create" /\ request'[r].pc = "assign"
           /\ request'[r] \in RequestState
           /\ request'[r].domain = d /\ request'[r].site = request[r].site
           /\ \A q \in Requests : q # r => request'[q] = Passes[q]
           /\ request' \in [Requests -> RequestState]
           /\ request[r].change.host \in Hosts
           /\ ~Exists(d)
           /\ domain' = PoolRow(d, request[r].change.host, "ACTIVE")
           /\ domain' \in Rows
           /\ UNCHANGED <<site, overtaken>>
<1> DEFINE me == request[r]
           next == [me EXCEPT !.pc = "assign", !.domain = d, !.change = NoChange]
<1>1. /\ At(r, "create") /\ ~Exists(d)
      /\ domain' = PoolRow(d, me.change.host, "ACTIVE")
      /\ UNCHANGED <<site, overtaken>>
      /\ request' = [Passes EXCEPT ![r] = next]
    BY DEF ClaimCreate, PoolRow
<1>2. me \in RequestState /\ me.change.host \in Hosts
    BY <1>1, InHand DEF Grounded, At
<1>3. next \in RequestState /\ next.pc = "assign" /\ next.domain = d /\ next.site = me.site
    BY <1>2, NoChangeFacts DEF RequestState, Steps
<1> HIDE DEF next
<1>4. domain' \in Rows
  <2> DEFINE host == me.change.host
             status == "ACTIVE"
  <2>1. host \in Hosts /\ status \in DomainStatuses /\ domain' = PoolRow(d, host, status)
    BY <1>1, <1>2 DEF DomainStatuses
  <2> HIDE DEF host, status
  <2> QED
    BY <1>1, <2>1, PoolRowFacts
<1>5. Passes \in [Requests -> RequestState]
    BY <1>4, PassesType DEF IInv, Rows
<1> QED
    BY <1>1, <1>2, <1>3, <1>4, <1>5 DEF At

LEMMA PoolRowActive ==
    ASSUME IInv, NEW d \in Domains, ~Exists(d), NEW h \in Hosts,
           NEW rows, rows = PoolRow(d, h, "ACTIVE")
    PROVE  /\ rows \in Rows
           /\ \A e \in Domains \ {d} : rows[e] = domain[e]
           /\ rows[d] # None /\ rows[d].site = None
           /\ \A e \in Domains : HasSite(rows[e]) => rows[e] = domain[e]
           /\ \A e \in Domains : HasSite(rows[e]) => site[rows[e].site] # "ABSENT"
           /\ OrderIn(domain) => OrderIn(rows)
           /\ Released(rows)
<1> DEFINE status == "ACTIVE"
<1>1. status \in DomainStatuses /\ rows = PoolRow(d, h, status)
    BY DEF DomainStatuses
<1> HIDE DEF status
<1> QED
    BY <1>1, PoolRowFacts

LEMMA ClaimCreateKeeps ==
    ASSUME IInv, NEW r \in Requests, NEW d \in Domains, ClaimCreate(r, d)
    PROVE  IInv'
<1>1. /\ request[r].pc = "create" /\ request'[r].pc = "assign"
      /\ request'[r].domain = d /\ request'[r].site = request[r].site
      /\ \A q \in Requests : q # r => request'[q] = Passes[q]
      /\ request' \in [Requests -> RequestState]
      /\ request[r].change.host \in Hosts
      /\ ~Exists(d)
      /\ domain' = PoolRow(d, request[r].change.host, "ACTIVE")
      /\ UNCHANGED <<site, overtaken>>
    BY ClaimCreateFacts
<1>2. PICK rows : rows = domain'
    OBVIOUS
<1>3. PICK h \in Hosts : h = request[r].change.host
    BY <1>1
<1>4. rows = PoolRow(d, h, "ACTIVE")
    BY <1>1, <1>2, <1>3
<1>5. /\ rows \in Rows
      /\ \A e \in Domains \ {d} : rows[e] = domain[e]
      /\ rows[d] # None /\ rows[d].site = None
      /\ \A e \in Domains : HasSite(rows[e]) => site[rows[e].site] # "ABSENT"
      /\ OrderIn(domain) => OrderIn(rows)
    BY <1>1, <1>4, PoolRowActive
<1>6. RowsMove
  <2>1. \A e \in Domains : Exists(e) => rows[e] # None
    BY <1>1, <1>5 DEF Exists
  <2> QED
    BY <1>1, <1>2, <1>5, <2>1 DEF RowsMove, Rows, HasSite, Placed, Assigned, Exists, IInv, TypeOK
<1>7. Grounded(r)' /\ Fresh(r)'
  <2>1. request[r].site \in Sites /\ site[request[r].site] # "ABSENT"
    BY <1>1, InHand DEF Grounded
  <2>2. Grounded(r)'
    BY <1>1, <1>2, <1>5, <2>1 DEF Grounded, Exists
  <2>3. Fresh(r)'
    BY <1>1 DEF Fresh
  <2> QED
    BY <2>2, <2>3
<1>8. ASSUME NEW q \in Requests, q # r PROVE Grounded(q)' /\ Fresh(q)'
  <2>1. request'[q] = Passes[q]
    BY <1>1, <1>8
  <2> QED
    BY <1>6, <2>1, KeptFacts, KeptSound DEF IInv, RowsMove
<1>9. ~overtaken' => Order'
  <2>1. OrderIn(rows) => Order'
    BY <1>2, Zenon DEF OrderIn, OneEach, AssignedAreActive, PrimaryIsAssigned, HasSite,
                       Order, Assigned, Exists
  <2> QED
    BY <1>1, <1>5, <2>1, InHand
<1>10. TypeOK'
    BY <1>1, <1>6 DEF IInv, TypeOK, RowsMove
<1> QED
    BY <1>6, <1>7, <1>8, <1>9, <1>10 DEF IInv, RowsMove

-----------------------------------------------------------------------------

\* The three forms of a step that writes rows of domains, for all of its actions.
RowsWrite(r) ==
    \/ \E d \in Domains : CreateInsert(r, d) \/ ActivateStandalone(r, d)
    \/ AssignMove(r) \/ AssignKeep(r) \/ Unassign(r) \/ Write(r)
    \/ \E d \in Domains, h \in Hosts, status \in DomainStatuses : CreateStandalone(r, d, h, status)

\* A step of a request that only looks, remembers or gives up.
Look(r) ==
    \/ \E w \in Sites, h \in Hosts : CreateLook(r, w, h) \/ ClaimLook(r, w, h)
    \/ \E d \in Domains, w \in Sites, replace \in BOOLEAN : AssignLook(r, d, w, replace)
    \/ AssignExisting(r)
    \/ \E d \in Domains : UnassignLook(r, d)
    \/ \E d \in Domains, w \in Sites, c \in Changes : UpdateLook(r, d, w, c)
    \/ \E d \in Domains, w \in Sites, primary \in BOOLEAN : ActivateLook(r, d, w, primary)
    \/ \E d \in Domains, c \in Changes : StandaloneLook(r, d, c)
    \/ GiveUp(r)

LEMMA RowsWriteFacts ==
    ASSUME IInv, NEW r \in Requests, RowsWrite(r)
    PROVE  \E rows : WritesDomains(r, rows) /\ WellWritten(r, rows)
<1>1. ASSUME NEW d \in Domains, CreateInsert(r, d) \/ ActivateStandalone(r, d)
      PROVE  \E rows : WritesDomains(r, rows) /\ WellWritten(r, rows)
    BY <1>1, CreateInsertWrites, ActivateStandaloneWrites
<1>2. CASE AssignMove(r)
    BY <1>2, AssignMoveWrites
<1>3. CASE AssignKeep(r)
    BY <1>3, AssignKeepWrites
<1>4. CASE Unassign(r)
    BY <1>4, UnassignWrites
<1>5. CASE Write(r)
    BY <1>5, WriteWrites
<1>6. ASSUME NEW d \in Domains, NEW h \in Hosts, NEW status \in DomainStatuses,
             CreateStandalone(r, d, h, status)
      PROVE  \E rows : WritesDomains(r, rows) /\ WellWritten(r, rows)
    BY <1>6, CreateStandaloneWrites
<1> QED
    BY <1>1, <1>2, <1>3, <1>4, <1>5, <1>6 DEF RowsWrite

LEMMA LooksKeep ==
    ASSUME IInv, NEW r \in Requests, Look(r)
    PROVE  IInv'
<1>1. ASSUME NEW w \in Sites, NEW h \in Hosts, CreateLook(r, w, h) \/ ClaimLook(r, w, h)
      PROVE  IInv'
    BY <1>1, CreateLookKeeps, ClaimLookKeeps
<1>2. ASSUME NEW d \in Domains, NEW w \in Sites, NEW replace \in BOOLEAN, AssignLook(r, d, w, replace)
      PROVE  IInv'
    BY <1>2, AssignLookKeeps
<1>3. CASE AssignExisting(r)
    BY <1>3, AssignExistingKeeps
<1>4. ASSUME NEW d \in Domains, UnassignLook(r, d) PROVE IInv'
    BY <1>4, UnassignLookKeeps
<1>5. ASSUME NEW d \in Domains, NEW w \in Sites, NEW c \in Changes, UpdateLook(r, d, w, c)
      PROVE  IInv'
    BY <1>5, UpdateLookKeeps
<1>6. ASSUME NEW d \in Domains, NEW w \in Sites, NEW primary \in BOOLEAN,
             ActivateLook(r, d, w, primary)
      PROVE  IInv'
    BY <1>6, ActivateLookKeeps
<1>7. ASSUME NEW d \in Domains, NEW c \in Changes, StandaloneLook(r, d, c) PROVE IInv'
    BY <1>7, StandaloneLookKeeps
<1>8. CASE GiveUp(r)
    BY <1>8, EndKeeps
<1> QED
    BY <1>1, <1>2, <1>3, <1>4, <1>5, <1>6, <1>7, <1>8 DEF Look

LEMMA NextForms ==
    ASSUME Next
    PROVE  \E r \in Requests :
               \/ \E w \in Sites, status \in {"ACTIVE", "DISABLED"} :
                     CreateSite(w, status) \/ SetSite(r, w, status)
               \/ \E d \in Domains : ClaimCreate(r, d)
               \/ RowsWrite(r)
               \/ Look(r)
               \/ Clear(r)
BY Zenon DEF Next, RowsWrite, Look

LEMMA InitHolds == Init => IInv
<1> SUFFICES ASSUME Init PROVE IInv
    OBVIOUS
<1>1. TypeOK
    BY IdleFacts DEF Init, TypeOK, SiteStatuses
<1>2. \A r \in Requests : request[r] = Idle
    BY DEF Init
<1>3. \A r \in Requests : Grounded(r) /\ Fresh(r)
    BY <1>2, IdleFacts, NoneFacts DEF Grounded, Fresh
<1>4. \A d \in Domains : ~Exists(d)
    BY DEF Init, Exists
<1>5. Placed /\ Order
    BY <1>4 DEF Placed, Order, Assigned
<1> QED
    BY <1>1, <1>3, <1>5 DEF IInv

LEMMA NextKeeps == IInv /\ [Next]_vars => IInv'
<1> SUFFICES ASSUME IInv, [Next]_vars PROVE IInv'
    OBVIOUS
<1>1. CASE UNCHANGED vars
    BY <1>1 DEF vars, IInv, TypeOK, Grounded, Fresh, Placed, Order, Assigned, Exists, DomainsOf
<1>2. CASE Next
  <2>1. PICK r \in Requests :
            \/ \E w \in Sites, status \in {"ACTIVE", "DISABLED"} :
                  CreateSite(w, status) \/ SetSite(r, w, status)
            \/ \E d \in Domains : ClaimCreate(r, d)
            \/ RowsWrite(r)
            \/ Look(r)
            \/ Clear(r)
    BY <1>2, NextForms
  <2>2. ASSUME NEW w \in Sites, NEW status \in {"ACTIVE", "DISABLED"},
               CreateSite(w, status) \/ SetSite(r, w, status)
        PROVE  IInv'
    BY <2>2, CreateSiteKeeps, SetSiteKeeps
  <2>3. ASSUME NEW d \in Domains, ClaimCreate(r, d) PROVE IInv'
    BY <2>3, ClaimCreateKeeps
  <2>4. CASE RowsWrite(r)
    BY <2>4, RowsWriteFacts, WellWrittenKeeps
  <2>5. CASE Look(r)
    BY <2>5, LooksKeep
  <2>6. CASE Clear(r)
    BY <2>6, EndKeeps
  <2> QED
    BY <2>1, <2>2, <2>3, <2>4, <2>5, <2>6
<1> QED
    BY <1>1, <1>2

LEMMA Inductive == Spec => []IInv
BY InitHolds, NextKeeps, PTL DEF Spec

\* Type correctness: the rows, the requests and what they remember stay in their domains.
THEOREM TypeCorrect == Spec => []TypeOK
<1>1. IInv => TypeOK
    BY DEF IInv
<1> QED
    BY <1>1, Inductive, PTL

\* updateDomain, assignDomain, activateDomain and the others keep a website's domains in
\* order, for as long as nobody writes between a look and the write it decides.
THEOREM OrderUnlessOvertaken == Spec => []InOrderUnlessOvertaken
<1>1. ASSUME Order, NEW w \in Sites PROVE Cardinality(DomainsOf(w)) <= 1
  <2>1. \A d, e \in DomainsOf(w) : d = e
    BY <1>1, NoneFacts DEF Order, Assigned, DomainsOf
  <2>2. CASE DomainsOf(w) = {}
    BY <2>2, FS_EmptySet
  <2>3. CASE DomainsOf(w) # {}
    <3>1. PICK d : DomainsOf(w) = {d}
      BY <2>1, <2>3
    <3>2. Cardinality(DomainsOf(w)) = 1
      BY <3>1, FS_Singleton
    <3> QED
      BY <3>2
  <2> QED
    BY <2>2, <2>3
<1>2. Order => InOrder
    BY <1>1, Zenon DEF Order, InOrder, Assigned
<1>3. IInv => InOrderUnlessOvertaken
    BY <1>2 DEF IInv, InOrderUnlessOvertaken
<1> QED
    BY <1>3, Inductive, PTL

\* A write changes the website of a domain only as Released allows; no other step does.
LEMMA StepReleases ==
    ASSUME IInv, [Next]_vars
    PROVE  overtaken' \/ \A d \in Domains :
               Exists(d) /\ domain[d].site # None => domain'[d].site \in {domain[d].site, None}
<1> DEFINE Goal == overtaken' \/ \A d \in Domains :
               Exists(d) /\ domain[d].site # None => domain'[d].site \in {domain[d].site, None}
<1>1. ASSUME UNCHANGED domain PROVE Goal
    BY <1>1
<1>2. CASE UNCHANGED vars
    BY <1>1, <1>2 DEF vars
<1>3. CASE Next
  <2>1. PICK r \in Requests :
            \/ \E w \in Sites, status \in {"ACTIVE", "DISABLED"} :
                  CreateSite(w, status) \/ SetSite(r, w, status)
            \/ \E d \in Domains : ClaimCreate(r, d)
            \/ RowsWrite(r)
            \/ Look(r)
            \/ Clear(r)
    BY <1>3, NextForms
  <2>2. ASSUME NEW w \in Sites, NEW status \in {"ACTIVE", "DISABLED"},
               CreateSite(w, status) \/ SetSite(r, w, status)
        PROVE  Goal
    <3>1. UNCHANGED domain
      BY <2>2 DEF CreateSite, SetSite
    <3> QED
      BY <1>1, <3>1
  <2>3. ASSUME NEW d \in Domains, ClaimCreate(r, d) PROVE Goal
    <3>1. PICK h \in Hosts : h = request[r].change.host
      BY <2>3, ClaimCreateFacts
    <3>2. PICK rows : rows = domain'
      OBVIOUS
    <3>3. ~Exists(d) /\ rows = PoolRow(d, h, "ACTIVE")
      BY <2>3, <3>1, <3>2, ClaimCreateFacts
    <3>4. Released(rows)
      BY <3>3, PoolRowActive
    <3> QED
      BY <3>2, <3>4 DEF Released, Assigned
  <2>4. CASE RowsWrite(r)
    <3>1. PICK rows : WritesDomains(r, rows) /\ WellWritten(r, rows)
      BY <2>4, RowsWriteFacts
    <3>2. domain' = rows /\ overtaken' = (overtaken \/ request[r].passed)
      BY <3>1 DEF WritesDomains, Writes
    <3>3. ~overtaken /\ ~request[r].passed => Released(rows)
      BY <3>1 DEF WellWritten
    <3>4. CASE overtaken \/ request[r].passed
      BY <3>2, <3>4
    <3>5. CASE Released(rows)
      BY <3>2, <3>5 DEF Released, Assigned
    <3> QED
      BY <3>3, <3>4, <3>5
  <2>5. CASE Look(r) \/ Clear(r)
    <3>1. UNCHANGED domain
      BY <2>5 DEF Look, Clear, GiveUp, Refuse, CreateLook, ClaimLook, AssignLook, AssignExisting,
                  UnassignLook, UpdateLook, ActivateLook, StandaloneLook, Becomes
    <3> QED
      BY <1>1, <3>1
  <2> QED
    BY <2>1, <2>2, <2>3, <2>4, <2>5
<1> QED
    BY <1>2, <1>3

\* assignDomainToWebsiteRecord refuses the domain of another website, and no other path
\* takes one from it, for as long as nobody writes between a look and its write.
THEOREM NoDomainIsTakenOver == Spec => NoTakeover
<1>1. IInv /\ [Next]_vars =>
          [overtaken' \/ \A d \in Domains :
              Exists(d) /\ domain[d].site # None => domain'[d].site \in {domain[d].site, None}]_vars
    BY StepReleases
<1> QED
    BY <1>1, Inductive, PTL DEF Spec, NoTakeover

-----------------------------------------------------------------------------
(* The invalidation that is owed.                                           *)

Owed == {r \in Requests : At(r, "clear")}

LEMMA LiveHostsType ==
    ASSUME TypeOK PROVE LiveHosts \subseteq Hosts
BY DEF TypeOK, LiveHosts, Exists, DomainRecord

\* A request with an invalidation to do has nothing else to do.
LEMMA WriteOwes ==
    ASSUME IInv, NEW r \in Requests, Writes(r), ~At(r, "clear"),
           domain' \in [Domains -> DomainRecord \cup {None}]
    PROVE  Owed' = Owed \cup {r}
<1> DEFINE cleared == [Idle EXCEPT !.pc = "clear"]
<1>1. request' = [Passes EXCEPT ![r] = cleared]
    BY DEF Writes
<1>2. Passes \in [Requests -> RequestState] /\ \A q \in Requests : Passes[q].pc = request[q].pc
    BY PassesType, PassesFacts DEF IInv
<1>3. cleared.pc = "clear"
    BY ClearedFacts
<1> HIDE DEF cleared
<1>4. \A q \in Requests : request'[q].pc = IF q = r THEN "clear" ELSE request[q].pc
    BY <1>1, <1>2, <1>3
<1> QED
    BY <1>4 DEF Owed, At

LEMMA BecomesOwes ==
    ASSUME IInv, NEW r \in Requests, NEW state, Becomes(r, state), state.pc # "clear"
    PROVE  /\ Owed' = Owed \ {r}
           /\ LiveHosts' = LiveHosts
<1>1. /\ \A q \in Requests : request'[q].pc = IF q = r THEN state.pc ELSE request[q].pc
      /\ UNCHANGED <<site, domain>>
    BY DEF Becomes, IInv, TypeOK
<1>2. Owed' = Owed \ {r}
    BY <1>1 DEF Owed, At
<1> QED
    BY <1>1, <1>2 DEF LiveHosts, Exists

\* A step that only looks owes nothing before it and nothing after it.
LEMMA LookOwesNothing ==
    ASSUME IInv, NEW r \in Requests, Look(r)
    PROVE  \E state : Becomes(r, state) /\ state.pc # "clear" /\ ~At(r, "clear")
<1>1. ASSUME NEW state, Becomes(r, state), state.pc # "clear", request[r].pc # "clear"
      PROVE  \E s : Becomes(r, s) /\ s.pc # "clear" /\ ~At(r, "clear")
    BY <1>1 DEF At
<1>2. ASSUME NEW w \in Sites, NEW h \in Hosts, CreateLook(r, w, h)
      PROVE  \E s : Becomes(r, s) /\ s.pc # "clear" /\ ~At(r, "clear")
  <2> DEFINE change == [NoChange EXCEPT !.host = h]
             state == [Idle EXCEPT !.pc = "insert", !.site = w, !.change = change]
  <2>1. Becomes(r, state) /\ request[r].pc = "idle"
    BY <1>2 DEF CreateLook, At
  <2>2. state.pc = "insert"
    BY IdleFacts DEF RequestState
  <2> HIDE DEF state
  <2> QED
    BY <1>1, <2>1, <2>2
<1>3. ASSUME NEW w \in Sites, NEW h \in Hosts, ClaimLook(r, w, h)
      PROVE  \E s : Becomes(r, s) /\ s.pc # "clear" /\ ~At(r, "clear")
  <2> DEFINE change == [NoChange EXCEPT !.host = h]
             created == [Idle EXCEPT !.pc = "create", !.site = w, !.change = change]
             claimed(d) == [Idle EXCEPT !.pc = "assign", !.site = w, !.domain = d]
  <2>1. /\ request[r].pc = "idle"
        /\ Becomes(r, created) \/ \E d \in Domains : Becomes(r, claimed(d))
    BY <1>3 DEF ClaimLook, At
  <2>2. created.pc = "create" /\ \A d \in Domains : claimed(d).pc = "assign"
    BY IdleFacts DEF RequestState
  <2> HIDE DEF created, claimed
  <2> QED
    BY <1>1, <2>1, <2>2
<1>4. ASSUME NEW d \in Domains, NEW w \in Sites, NEW replace \in BOOLEAN, AssignLook(r, d, w, replace)
      PROVE  \E s : Becomes(r, s) /\ s.pc # "clear" /\ ~At(r, "clear")
  <2> DEFINE state == [Idle EXCEPT !.pc = IF domain[d].site = w THEN "keep" ELSE "existing",
                                   !.domain = d, !.site = w, !.replace = replace]
  <2>1. Becomes(r, state) /\ request[r].pc \in {"idle", "assign"}
    BY <1>4 DEF AssignLook, At
  <2>2. state.pc \in {"keep", "existing"}
    BY IdleFacts DEF RequestState
  <2> HIDE DEF state
  <2> QED
    BY <1>1, <2>1, <2>2
<1>5. ASSUME AssignExisting(r)
      PROVE  \E s : Becomes(r, s) /\ s.pc # "clear" /\ ~At(r, "clear")
  <2> DEFINE has == DomainsOf(request[r].site) # {}
             state == [request[r] EXCEPT !.pc = "move", !.strip = has]
  <2>1. Becomes(r, state) /\ request[r].pc = "existing"
    BY <1>5 DEF AssignExisting, At
  <2>2. state.pc = "move"
    BY InHand DEF RequestState
  <2> HIDE DEF state
  <2> QED
    BY <1>1, <2>1, <2>2
<1>6. ASSUME NEW d \in Domains, UnassignLook(r, d)
      PROVE  \E s : Becomes(r, s) /\ s.pc # "clear" /\ ~At(r, "clear")
  <2> DEFINE state == [Idle EXCEPT !.pc = "release", !.domain = d]
  <2>1. Becomes(r, state) /\ request[r].pc = "idle"
    BY <1>6 DEF UnassignLook, At
  <2>2. state.pc = "release"
    BY IdleFacts DEF RequestState
  <2> HIDE DEF state
  <2> QED
    BY <1>1, <2>1, <2>2
<1>7. ASSUME NEW d \in Domains, NEW w \in Sites, NEW c \in Changes, UpdateLook(r, d, w, c)
      PROVE  \E s : Becomes(r, s) /\ s.pc # "clear" /\ ~At(r, "clear")
  <2> DEFINE alone == /\ IF c.primary = None THEN domain[d].primary ELSE c.primary
                      /\ (IF c.status = None THEN domain[d].status ELSE c.status) = "ACTIVE"
             state == [Idle EXCEPT !.pc = "write", !.domain = d, !.site = w, !.change = c,
                                   !.alone = alone]
  <2>1. Becomes(r, state) /\ request[r].pc = "idle"
    BY <1>7 DEF UpdateLook, At
  <2>2. state.pc = "write"
    <3> HIDE DEF alone
    <3> QED
      BY IdleFacts DEF RequestState
  <2> HIDE DEF state
  <2> QED
    BY <1>1, <2>1, <2>2
<1>8. ASSUME NEW d \in Domains, NEW w \in Sites, NEW primary \in BOOLEAN,
             ActivateLook(r, d, w, primary)
      PROVE  \E s : Becomes(r, s) /\ s.pc # "clear" /\ ~At(r, "clear")
  <2> DEFINE change == [NoChange EXCEPT !.status = "ACTIVE",
                                        !.primary = IF primary THEN TRUE ELSE None]
             state == [Idle EXCEPT !.pc = "write", !.domain = d, !.site = w, !.alone = primary,
                                   !.change = change]
  <2>1. Becomes(r, state) /\ request[r].pc = "idle"
    BY <1>8 DEF ActivateLook, At
  <2>2. state.pc = "write"
    <3> HIDE DEF change
    <3> QED
      BY IdleFacts DEF RequestState
  <2> HIDE DEF state
  <2> QED
    BY <1>1, <2>1, <2>2
<1>9. ASSUME NEW d \in Domains, NEW c \in Changes, StandaloneLook(r, d, c)
      PROVE  \E s : Becomes(r, s) /\ s.pc # "clear" /\ ~At(r, "clear")
  <2> DEFINE state == [Idle EXCEPT !.pc = "write", !.domain = d, !.change = c]
  <2>1. Becomes(r, state) /\ request[r].pc = "idle"
    BY <1>9 DEF StandaloneLook, At
  <2>2. state.pc = "write"
    BY IdleFacts DEF RequestState
  <2> HIDE DEF state
  <2> QED
    BY <1>1, <2>1, <2>2
<1>10. ASSUME GiveUp(r)
       PROVE  \E s : Becomes(r, s) /\ s.pc # "clear" /\ ~At(r, "clear")
    BY <1>1, <1>10, IdleFacts DEF GiveUp, Refuse
<1> QED
    BY <1>2, <1>3, <1>4, <1>5, <1>6, <1>7, <1>8, <1>9, <1>10 DEF Look

LEMMA ChangeStep ==
    ASSUME IInv, IInv', NEW r \in Requests, Writes(r), ~At(r, "clear")
    PROVE  Published!Change(r)
<1>1. Owed' = Owed \cup {r}
    BY WriteOwes DEF IInv, TypeOK
<1>2. LiveHosts' \subseteq Hosts
    BY LiveHostsType DEF IInv, TypeOK, LiveHosts, Exists, DomainRecord
<1>3. r \in Requests \ Owed
    BY DEF Owed
<1> QED
    BY <1>1, <1>2, <1>3 DEF Published!Change, Owed

LEMMA CreateSiteStutters ==
    ASSUME IInv, NEW w \in Sites, NEW status \in {"ACTIVE", "DISABLED"}, CreateSite(w, status)
    PROVE  LiveHosts' = LiveHosts /\ Owed' = Owed
<1>1. /\ site[w] = "ABSENT" /\ site' = [site EXCEPT ![w] = status]
      /\ UNCHANGED <<domain, overtaken>> /\ request' = Passes
    BY DEF CreateSite
<1>2. \A q \in Requests : request'[q].pc = request[q].pc
    BY <1>1, PassesFacts DEF IInv, TypeOK
<1>3. Owed' = Owed
    BY <1>2 DEF Owed, At
<1>4. ASSUME NEW e \in Domains, Exists(e), domain[e].site # None
      PROVE  site'[domain[e].site] = site[domain[e].site]
    BY <1>1, <1>4 DEF IInv, TypeOK, Placed, Assigned, Exists, DomainRecord
<1>5. \A e \in Domains : Exists(e)' <=> Exists(e)
    BY <1>1 DEF Exists
<1>6. LiveHosts' = LiveHosts
  <2> DEFINE Live(s) == {e \in Domains : /\ Exists(e)
                                         /\ domain[e].status = "ACTIVE"
                                         /\ domain[e].site # None
                                         /\ s[domain[e].site] = "ACTIVE"}
  <2>1. Live(site') = Live(site)
    BY <1>4
  <2> QED
    BY <1>1, <2>1 DEF LiveHosts, Exists
<1> QED
    BY <1>3, <1>6

\* What is live in rows and websites that are given.
LiveIn(rows, sites) ==
    {rows[e].host : e \in {f \in Domains : /\ rows[f] # None
                                           /\ rows[f].status = "ACTIVE"
                                           /\ rows[f].site # None
                                           /\ sites[rows[f].site] = "ACTIVE"}}

LEMMA ClaimCreateStutters ==
    ASSUME IInv, NEW r \in Requests, NEW d \in Domains, ClaimCreate(r, d)
    PROVE  LiveHosts' = LiveHosts /\ Owed' = Owed
<1>1. PICK h \in Hosts : h = request[r].change.host
    BY ClaimCreateFacts
<1>2. PICK rows : rows = domain'
    OBVIOUS
<1>3. /\ ~Exists(d) /\ rows = PoolRow(d, h, "ACTIVE") /\ UNCHANGED site
    BY <1>1, <1>2, ClaimCreateFacts
<1>4. /\ \A e \in Domains \ {d} : rows[e] = domain[e]
      /\ rows[d] # None /\ rows[d].site = None
    BY <1>3, PoolRowActive
<1>5. LiveIn(rows, site) = LiveIn(domain, site)
    BY <1>3, <1>4 DEF LiveIn, Exists
<1>6. LiveHosts = LiveIn(domain, site) /\ LiveHosts' = LiveIn(rows, site)
    BY <1>2, <1>3 DEF LiveHosts, LiveIn, Exists
<1>7. \A q \in Requests : q # r => request'[q].pc = request[q].pc
    BY <1>2, ClaimCreateFacts, PassesFacts DEF IInv, Rows
<1>8. request[r].pc = "create" /\ request'[r].pc = "assign"
    BY ClaimCreateFacts
<1>9. Owed' = Owed
    BY <1>7, <1>8 DEF Owed, At
<1> QED
    BY <1>5, <1>6, <1>9

LEMMA StepIsPublished ==
    ASSUME IInv, IInv', [Next]_vars
    PROVE  [Published!PublishedNext]_(Published!published)
<1>1. ASSUME LiveHosts' = LiveHosts, Owed' = Owed PROVE UNCHANGED Published!published
    BY <1>1 DEF Published!published, Owed
<1>2. CASE UNCHANGED vars
  <2>1. LiveHosts' = LiveHosts /\ Owed' = Owed
    BY <1>2 DEF vars, LiveHosts, Owed, At, Exists
  <2> QED
    BY <1>1, <2>1
<1>3. CASE Next
  <2>1. PICK r \in Requests :
            \/ \E w \in Sites, status \in {"ACTIVE", "DISABLED"} :
                  CreateSite(w, status) \/ SetSite(r, w, status)
            \/ \E d \in Domains : ClaimCreate(r, d)
            \/ RowsWrite(r)
            \/ Look(r)
            \/ Clear(r)
    BY <1>3, NextForms
  <2>2. ASSUME Published!Change(r) PROVE Published!PublishedNext
    BY <2>2 DEF Published!PublishedNext
  <2>3. ASSUME NEW w \in Sites, NEW status \in {"ACTIVE", "DISABLED"}, SetSite(r, w, status)
        PROVE  Published!PublishedNext
    <3>1. Writes(r) /\ ~At(r, "clear")
      BY <2>3 DEF SetSite, At
    <3> QED
      BY <2>2, <3>1, ChangeStep
  <2>4. CASE RowsWrite(r)
    <3>1. PICK rows : WritesDomains(r, rows)
      BY <2>4, RowsWriteFacts
    <3>2. ~At(r, "clear")
      BY <2>4 DEF RowsWrite, CreateInsert, ActivateStandalone, AssignMove, AssignKeep, Unassign,
                  Write, CreateStandalone, At
    <3> QED
      BY <2>2, <3>1, <3>2, ChangeStep DEF WritesDomains
  <2>5. CASE Look(r)
    <3>1. PICK state : Becomes(r, state) /\ state.pc # "clear" /\ ~At(r, "clear")
      BY <2>5, LookOwesNothing
    <3>2. Owed' = Owed \ {r} /\ LiveHosts' = LiveHosts
      BY <3>1, BecomesOwes
    <3>3. Owed \ {r} = Owed
      BY <3>1 DEF Owed
    <3> QED
      BY <1>1, <3>2, <3>3
  <2>6. CASE Clear(r)
    <3>1. At(r, "clear") /\ Becomes(r, Idle)
      BY <2>6 DEF Clear
    <3>2. Owed' = Owed \ {r} /\ LiveHosts' = LiveHosts /\ r \in Owed
      BY <3>1, BecomesOwes, IdleFacts DEF Owed
    <3>3. Published!Settle(r)
      BY <3>2 DEF Published!Settle, Owed
    <3> QED
      BY <3>3 DEF Published!PublishedNext
  <2> QED
    BY <1>1, <2>1, <2>3, <2>4, <2>5, <2>6, CreateSiteStutters, ClaimCreateStutters
<1> QED
    BY <1>2, <1>3

\* invalidateWebsiteDomainCaches: no write changes which hosts serve a website without
\* leaving its request an invalidation to do.
THEOREM WritesAreAnnounced == Spec => LiveHostsAreAnnounced
<1>1. Init => Published!PublishedInit
  <2> SUFFICES ASSUME Init PROVE LiveHosts = {} /\ Owed = {}
    BY DEF Published!PublishedInit, Owed
  <2>1. \A d \in Domains : ~Exists(d)
    BY DEF Init, Exists
  <2>2. \A r \in Requests : request[r].pc = "idle"
    BY IdleFacts DEF Init
  <2> QED
    BY <2>1, <2>2 DEF LiveHosts, Owed, At
<1>2. IInv /\ IInv' /\ [Next]_vars => [Published!PublishedNext]_(Published!published)
    BY StepIsPublished
<1> QED
    BY <1>1, <1>2, Inductive, PTL DEF Spec, LiveHostsAreAnnounced, Published!PublishedSpec

-----------------------------------------------------------------------------
(* ReadThroughCaches.                                                       *)

\* What is allowed, or about to be, was live not longer ago than its list has lived.
Recent ==
    /\ \A h \in live : gone[h] = 0
    /\ \A l \in Lookups : lookup[l].pc = "read" /\ lookup[l].age < CorsTtl =>
           \A h \in lookup[l].hosts : gone[h] <= lookup[l].age
    /\ cors # Absent /\ cors.left > 0 => \A h \in cors.hosts : gone[h] + cors.left <= CorsTtl

\* The promise that may be joined belongs to a load that nothing has dropped, and to every
\* such load.
Joined ==
    /\ inflight # Absent => /\ Running(load[inflight.load])
                            /\ ~load[inflight.load].overlapped
                            /\ ~load[inflight.load].dropped
    /\ \A m \in Loads : Running(load[m]) /\ ~load[m].dropped =>
           inflight # Absent /\ inflight.load = m

\* With nothing owed and nothing lost, what was read since the last invalidation is what
\* is in the rows.
Accurate ==
    owed = {} /\ ~lost =>
        /\ cors # Absent /\ ~cors.overlapped => cors.hosts = live
        /\ entry # Absent /\ ~entry.overlapped => entry.value = live
        /\ \A l \in Lookups : lookup[l].pc = "read" /\ ~lookup[l].overlapped =>
               lookup[l].hosts = live
        /\ \A m \in Loads : load[m].pc = "read" /\ ~load[m].overlapped => load[m].value = live

CachesInv == CachesTypeOK /\ Recent /\ Joined /\ Accurate

-----------------------------------------------------------------------------

CorsEntry == [hosts : SUBSET PublicHosts, left : 0..CorsTtl, overlapped : BOOLEAN]
ListEntry == [value : SUBSET PublicHosts, left : 0..ListTtl, overlapped : BOOLEAN]
Promise == [load : Loads, left : 0..InflightTtl]

LEMMA Ttls ==
    /\ CorsTtl \in Nat /\ CorsTtl > 0 /\ ListTtl \in Nat /\ ListTtl > 0
    /\ InflightTtl \in Nat /\ InflightTtl > 0
BY CacheAssumption DEF ClampedTtls

LEMMA LookupFacts ==
    /\ NoLookup \in Lookup /\ NoLookup.pc = "idle" /\ NoLookup.hosts = {}
    /\ [NoLookup EXCEPT !.pc = "asked"] \in Lookup
    /\ [NoLookup EXCEPT !.pc = "asked"].pc = "asked"
<1>1. NoLookup \in Lookup /\ NoLookup.pc = "idle" /\ NoLookup.hosts = {}
    BY Ttls DEF NoLookup, Lookup
<1> QED
    BY <1>1 DEF Lookup

LEMMA LoadFacts ==
    /\ NoLoad \in Load /\ NoLoad.pc = "idle"
    /\ [NoLoad EXCEPT !.pc = "asked"] \in Load
    /\ [NoLoad EXCEPT !.pc = "asked"].pc = "asked"
    /\ ~[NoLoad EXCEPT !.pc = "asked"].dropped
    /\ ~[NoLoad EXCEPT !.pc = "asked"].overlapped
BY DEF NoLoad, Load

LEMMA LessFacts ==
    ASSUME NEW most \in Nat, NEW n \in 0..most
    PROVE  /\ Less(n) \in 0..most
           /\ Less(n) > 0 => n = Less(n) + 1
BY DEF Less

LEMMA MoreFacts ==
    ASSUME NEW most \in Nat, NEW n \in 0..most
    PROVE  /\ More(n, most) \in 0..most
           /\ More(n, most) <= n + 1
           /\ More(n, most) < most => More(n, most) = n + 1 /\ n < most
BY DEF More

\* What an invalidation does to the lookups and to the loads.
OverlapLookups ==
    lookup' = [l \in Lookups |-> [lookup[l] EXCEPT !.overlapped = lookup[l].pc = "read"]]
OverlapLoads ==
    load' = [m \in Loads |-> [load[m] EXCEPT !.overlapped = load[m].pc = "read",
                                             !.dropped = Running(load[m])]]

LEMMA OverlapLookupFacts ==
    ASSUME CachesTypeOK, OverlapLookups
    PROVE  /\ lookup' \in [Lookups -> Lookup]
           /\ \A l \in Lookups : /\ lookup'[l].pc = lookup[l].pc
                                 /\ lookup'[l].age = lookup[l].age
                                 /\ lookup'[l].hosts = lookup[l].hosts
                                 /\ lookup'[l].pc = "read" => lookup'[l].overlapped
<1>1. ASSUME NEW l \in Lookups
      PROVE  LET new == [lookup[l] EXCEPT !.overlapped = lookup[l].pc = "read"]
             IN  /\ new \in Lookup /\ new.pc = lookup[l].pc /\ new.age = lookup[l].age
                 /\ new.hosts = lookup[l].hosts
                 /\ new.pc = "read" => new.overlapped
  <2> DEFINE read == lookup[l].pc = "read"
  <2>1. lookup[l] \in Lookup /\ read \in BOOLEAN
    BY DEF CachesTypeOK
  <2> QED
    BY <2>1 DEF Lookup
<1> QED
    BY <1>1 DEF OverlapLookups

LEMMA OverlapLoadFacts ==
    ASSUME CachesTypeOK, OverlapLoads
    PROVE  /\ load' \in [Loads -> Load]
           /\ \A m \in Loads : /\ load'[m].pc = load[m].pc
                               /\ load'[m].value = load[m].value
                               /\ load'[m].pc = "read" => load'[m].overlapped
                               /\ Running(load[m]) => load'[m].dropped
<1>1. ASSUME NEW m \in Loads
      PROVE  LET new == [load[m] EXCEPT !.overlapped = load[m].pc = "read",
                                        !.dropped = Running(load[m])]
             IN  /\ new \in Load /\ new.pc = load[m].pc
                 /\ new.value = load[m].value
                 /\ new.pc = "read" => new.overlapped
                 /\ Running(load[m]) => new.dropped
  <2>1. load[m] \in Load
    BY DEF CachesTypeOK
  <2> QED
    BY <2>1 DEF Load, Running
<1> QED
    BY <1>1 DEF OverlapLoads

LEMMA TickFacts ==
    ASSUME CachesTypeOK, Tick
    PROVE  /\ gone' \in [PublicHosts -> 0..CorsTtl + 1]
           /\ \A h \in PublicHosts : gone'[h] <= gone[h] + 1
           /\ \A h \in live : gone'[h] = 0
           /\ cors' \in CorsEntry \cup {Absent}
           /\ cors' # Absent => /\ cors # Absent /\ cors'.hosts = cors.hosts
                                /\ cors'.overlapped = cors.overlapped
                                /\ cors'.left > 0 => cors.left = cors'.left + 1
           /\ lookup' \in [Lookups -> Lookup]
           /\ \A l \in Lookups : /\ lookup'[l].pc = lookup[l].pc
                                 /\ lookup'[l].hosts = lookup[l].hosts
                                 /\ lookup'[l].overlapped = lookup[l].overlapped
                                 /\ Running(lookup[l]) /\ lookup'[l].age < CorsTtl =>
                                        lookup'[l].age = lookup[l].age + 1
           /\ entry' \in ListEntry \cup {Absent}
           /\ entry' # Absent => /\ entry # Absent /\ entry'.value = entry.value
                                 /\ entry'.overlapped = entry.overlapped
           /\ inflight' \in Promise \cup {Absent}
           /\ inflight' # Absent <=> inflight # Absent
           /\ inflight' # Absent => inflight'.load = inflight.load
           /\ UNCHANGED <<live, owed, load, lost>>
<1>1. /\ gone' \in [PublicHosts -> 0..CorsTtl + 1]
      /\ \A h \in PublicHosts : gone'[h] <= gone[h] + 1
      /\ \A h \in live : gone'[h] = 0
  <2>1. \A h \in PublicHosts : gone[h] \in 0..CorsTtl + 1 /\ CorsTtl + 1 \in Nat
    BY Ttls DEF CachesTypeOK
  <2>2. \A h \in PublicHosts : /\ More(gone[h], CorsTtl + 1) \in 0..CorsTtl + 1
                               /\ More(gone[h], CorsTtl + 1) <= gone[h] + 1
    BY <2>1, MoreFacts
  <2>3. live \subseteq PublicHosts
    BY DEF CachesTypeOK, PublishedTypeOK
  <2>4. gone' = [h \in PublicHosts |-> IF h \in live THEN 0 ELSE More(gone[h], CorsTtl + 1)]
    BY DEF Tick
  <2> HIDE DEF More
  <2> QED
    BY <2>1, <2>2, <2>3, <2>4
<1>2. /\ cors' \in CorsEntry \cup {Absent}
      /\ cors' # Absent => /\ cors # Absent /\ cors'.hosts = cors.hosts
                           /\ cors'.overlapped = cors.overlapped
                           /\ cors'.left > 0 => cors.left = cors'.left + 1
  <2>1. CASE cors = Absent
    BY <2>1 DEF Tick
  <2>2. CASE cors # Absent
    <3>1. cors \in CorsEntry /\ cors.left \in 0..CorsTtl
      BY <2>2 DEF CachesTypeOK, CorsEntry
    <3>2. PICK left : left = Less(cors.left)
      OBVIOUS
    <3>3. left \in 0..CorsTtl /\ (left > 0 => cors.left = left + 1)
      BY <3>1, <3>2, LessFacts, Ttls
    <3>4. cors' = [cors EXCEPT !.left = left]
      BY <2>2, <3>2 DEF Tick
    <3>5. /\ cors' \in CorsEntry /\ cors'.hosts = cors.hosts /\ cors'.left = left
          /\ cors'.overlapped = cors.overlapped
      BY <3>1, <3>3, <3>4 DEF CorsEntry
    <3> QED
      BY <2>2, <3>3, <3>5
  <2> QED
    BY <2>1, <2>2
<1>3. /\ lookup' \in [Lookups -> Lookup]
      /\ \A l \in Lookups : /\ lookup'[l].pc = lookup[l].pc
                            /\ lookup'[l].hosts = lookup[l].hosts
                            /\ lookup'[l].overlapped = lookup[l].overlapped
                            /\ Running(lookup[l]) /\ lookup'[l].age < CorsTtl =>
                                    lookup'[l].age = lookup[l].age + 1
  <2>1. lookup' = [l \in Lookups |-> IF Running(lookup[l])
                                     THEN [lookup[l] EXCEPT !.age = More(lookup[l].age, CorsTtl)]
                                     ELSE lookup[l]]
    BY DEF Tick
  <2>2. ASSUME NEW l \in Lookups
        PROVE  /\ lookup'[l] \in Lookup
               /\ lookup'[l].pc = lookup[l].pc
               /\ lookup'[l].hosts = lookup[l].hosts
               /\ lookup'[l].overlapped = lookup[l].overlapped
               /\ Running(lookup[l]) /\ lookup'[l].age < CorsTtl =>
                      lookup'[l].age = lookup[l].age + 1
    <3>1. lookup[l] \in Lookup /\ lookup[l].age \in 0..CorsTtl
      BY DEF CachesTypeOK, Lookup
    <3>2. PICK age : age = More(lookup[l].age, CorsTtl)
      OBVIOUS
    <3>3. age \in 0..CorsTtl /\ (age < CorsTtl => age = lookup[l].age + 1)
      BY <3>1, <3>2, MoreFacts, Ttls
    <3>4. lookup'[l] = IF Running(lookup[l]) THEN [lookup[l] EXCEPT !.age = age] ELSE lookup[l]
      BY <2>1, <3>2
    <3>5. CASE Running(lookup[l])
      <4>1. /\ lookup'[l] \in Lookup /\ lookup'[l].pc = lookup[l].pc
            /\ lookup'[l].hosts = lookup[l].hosts /\ lookup'[l].age = age
            /\ lookup'[l].overlapped = lookup[l].overlapped
        BY <3>1, <3>3, <3>4, <3>5 DEF Lookup
      <4> QED
        BY <3>3, <4>1
    <3> QED
      BY <3>1, <3>4, <3>5
  <2>3. lookup' \in [Lookups -> Lookup]
    BY <2>1, <2>2
  <2> QED
    BY <2>2, <2>3
<1>4. /\ entry' \in ListEntry \cup {Absent}
      /\ entry' # Absent => /\ entry # Absent /\ entry'.value = entry.value
                            /\ entry'.overlapped = entry.overlapped
  <2>1. CASE entry = Absent
    BY <2>1 DEF Tick
  <2>2. CASE entry # Absent
    <3>1. entry \in ListEntry /\ entry.left \in 0..ListTtl
      BY <2>2 DEF CachesTypeOK, ListEntry
    <3>2. PICK left : left = Less(entry.left)
      OBVIOUS
    <3>3. left \in 0..ListTtl
      BY <3>1, <3>2, LessFacts, Ttls
    <3>4. entry' = [entry EXCEPT !.left = left]
      BY <2>2, <3>2 DEF Tick
    <3>5. /\ entry' \in ListEntry /\ entry'.value = entry.value
          /\ entry'.overlapped = entry.overlapped
      BY <3>1, <3>3, <3>4 DEF ListEntry
    <3> QED
      BY <2>2, <3>5
  <2> QED
    BY <2>1, <2>2
<1>5. /\ inflight' \in Promise \cup {Absent}
      /\ inflight' # Absent <=> inflight # Absent
      /\ inflight' # Absent => inflight'.load = inflight.load
  <2>1. CASE inflight = Absent
    BY <2>1 DEF Tick
  <2>2. CASE inflight # Absent
    <3>1. inflight \in Promise /\ inflight.left \in 0..InflightTtl
      BY <2>2 DEF CachesTypeOK, Promise
    <3>2. PICK left : left = Less(inflight.left)
      OBVIOUS
    <3>3. left \in 0..InflightTtl
      BY <3>1, <3>2, LessFacts, Ttls
    <3>4. inflight' = [inflight EXCEPT !.left = left]
      BY <2>2, <3>2 DEF Tick
    <3>5. inflight' \in Promise /\ inflight'.load = inflight.load
      BY <3>1, <3>3, <3>4 DEF Promise
    <3> QED
      BY <2>2, <3>5, CacheAssumption DEF Promise
  <2> QED
    BY <2>1, <2>2
<1>6. UNCHANGED <<live, owed, load, lost>>
    BY DEF Tick, published
<1> QED
    BY <1>1, <1>2, <1>3, <1>4, <1>5, <1>6

-----------------------------------------------------------------------------
(* One lemma per action.                                                    *)

LEMMA WriteRowsKeeps ==
    ASSUME CachesInv, NEW r \in Writers, WriteRows(r)
    PROVE  CachesInv'
<1>1. /\ live' \in SUBSET PublicHosts /\ owed' = owed \cup {r}
      /\ gone' = [h \in PublicHosts |-> IF h \in live \cup live' THEN 0 ELSE gone[h]]
      /\ UNCHANGED <<cors, lookup, entry, inflight, load, lost>>
    BY DEF WriteRows, Change
<1>2. gone \in [PublicHosts -> 0..CorsTtl + 1]
    BY DEF CachesInv, CachesTypeOK
<1>3. /\ gone' \in [PublicHosts -> 0..CorsTtl + 1]
      /\ \A h \in PublicHosts : gone'[h] <= gone[h]
      /\ \A h \in live' : gone'[h] = 0
  <2>1. ASSUME NEW h \in PublicHosts
        PROVE  gone'[h] \in 0..CorsTtl + 1 /\ gone'[h] <= gone[h] /\ (h \in live' => gone'[h] = 0)
    BY <1>1, <1>2, Ttls
  <2> QED
    BY <1>1, <2>1
<1>4. CachesTypeOK'
    BY <1>1, <1>3 DEF CachesInv, CachesTypeOK, PublishedTypeOK
<1>5. Recent'
  <2>1. ASSUME NEW l \in Lookups, lookup[l].pc = "read", lookup[l].age < CorsTtl,
               NEW h \in lookup[l].hosts
        PROVE  gone'[h] <= lookup[l].age
    <3>1. h \in PublicHosts /\ gone[h] <= lookup[l].age /\ lookup[l].age \in 0..CorsTtl
      BY <2>1 DEF CachesInv, CachesTypeOK, Lookup, Recent
    <3> QED
      BY <1>2, <1>3, <3>1, Ttls
  <2>2. ASSUME cors # Absent, cors.left > 0, NEW h \in cors.hosts
        PROVE  gone'[h] + cors.left <= CorsTtl
    <3>1. h \in PublicHosts /\ gone[h] + cors.left <= CorsTtl /\ cors.left \in 0..CorsTtl
      BY <2>2 DEF CachesInv, CachesTypeOK, Recent
    <3> QED
      BY <1>2, <1>3, <3>1, Ttls
  <2> QED
    BY <1>1, <1>3, <2>1, <2>2 DEF Recent
<1>6. Joined'
    BY <1>1 DEF CachesInv, Joined, Running
<1>7. Accurate'
    BY <1>1 DEF Accurate
<1> QED
    BY <1>4, <1>5, <1>6, <1>7 DEF CachesInv

LEMMA InvalidateKeeps ==
    ASSUME CachesInv, NEW r \in Writers, Invalidate(r)
    PROVE  CachesInv'
<1>1. /\ owed' \subseteq owed /\ cors' = Absent /\ entry' = Absent /\ inflight' = Absent
      /\ lost' = FALSE /\ UNCHANGED <<live, gone>>
      /\ OverlapLookups /\ OverlapLoads
    BY DEF Invalidate, Settle, OverlapLookups, OverlapLoads
<1>2. /\ lookup' \in [Lookups -> Lookup]
      /\ \A l \in Lookups : /\ lookup'[l].pc = lookup[l].pc
                            /\ lookup'[l].age = lookup[l].age
                            /\ lookup'[l].hosts = lookup[l].hosts
                            /\ lookup'[l].pc = "read" => lookup'[l].overlapped
    BY <1>1, OverlapLookupFacts DEF CachesInv
<1>3. /\ load' \in [Loads -> Load]
      /\ \A m \in Loads : /\ load'[m].pc = load[m].pc
                          /\ load'[m].pc = "read" => load'[m].overlapped
                          /\ Running(load[m]) => load'[m].dropped
    BY <1>1, OverlapLoadFacts DEF CachesInv
<1>4. CachesTypeOK'
    BY <1>1, <1>2, <1>3 DEF CachesInv, CachesTypeOK, PublishedTypeOK
<1>5. Recent'
    BY <1>1, <1>2 DEF CachesInv, Recent
<1>6. Joined'
    BY <1>1, <1>3 DEF Joined, Running
<1>7. Accurate'
    BY <1>1, <1>2, <1>3 DEF Accurate
<1> QED
    BY <1>4, <1>5, <1>6, <1>7 DEF CachesInv

LEMMA AnswerLostKeeps ==
    ASSUME CachesInv, NEW r \in Writers, AnswerLost(r)
    PROVE  CachesInv'
<1>1. /\ owed' \subseteq owed /\ lost' = TRUE
      /\ UNCHANGED <<live, gone, cors, lookup, entry, inflight, load>>
    BY DEF AnswerLost, Settle
<1>2. CachesTypeOK' /\ Recent' /\ Joined'
    BY <1>1 DEF CachesInv, CachesTypeOK, PublishedTypeOK, Recent, Joined, Running
<1>3. Accurate'
    BY <1>1 DEF Accurate
<1> QED
    BY <1>2, <1>3 DEF CachesInv

LEMMA InvalidateListKeeps ==
    ASSUME CachesInv, InvalidateList
    PROVE  CachesInv'
<1>1. /\ entry' = Absent /\ inflight' = Absent /\ OverlapLoads
      /\ UNCHANGED <<live, owed, gone, cors, lookup, lost>>
    BY DEF InvalidateList, published, OverlapLoads
<1>2. /\ load' \in [Loads -> Load]
      /\ \A m \in Loads : /\ load'[m].pc = load[m].pc
                          /\ load'[m].pc = "read" => load'[m].overlapped
                          /\ Running(load[m]) => load'[m].dropped
    BY <1>1, OverlapLoadFacts DEF CachesInv
<1>3. CachesTypeOK'
    BY <1>1, <1>2 DEF CachesInv, CachesTypeOK, PublishedTypeOK
<1>4. Recent'
    BY <1>1 DEF CachesInv, Recent
<1>5. Joined'
    BY <1>1, <1>2 DEF Joined, Running
<1>6. Accurate'
    BY <1>1, <1>2 DEF CachesInv, Accurate
<1> QED
    BY <1>3, <1>4, <1>5, <1>6 DEF CachesInv

\* A lookup that has not read yet, or is over, is nobody's concern.
LEMMA LookupUnread ==
    ASSUME CachesInv, NEW l \in Lookups, NEW state \in Lookup, state.pc # "read",
           lookup' = [lookup EXCEPT ![l] = state],
           UNCHANGED <<live, owed, gone, cors, entry, inflight, load, lost>>
    PROVE  CachesInv'
<1>1. /\ lookup' \in [Lookups -> Lookup]
      /\ \A k \in Lookups : lookup'[k] = IF k = l THEN state ELSE lookup[k]
    BY DEF CachesInv, CachesTypeOK
<1>2. CachesTypeOK'
    BY <1>1 DEF CachesInv, CachesTypeOK, PublishedTypeOK
<1>3. Recent'
    BY <1>1 DEF CachesInv, Recent
<1>4. Joined'
    BY DEF CachesInv, Joined, Running
<1>5. Accurate'
    BY <1>1 DEF CachesInv, Accurate
<1> QED
    BY <1>2, <1>3, <1>4, <1>5 DEF CachesInv

LEMMA AskKeeps ==
    ASSUME CachesInv, NEW l \in Lookups, Ask(l) \/ LookupFails(l)
    PROVE  CachesInv'
<1> DEFINE asked == [NoLookup EXCEPT !.pc = "asked"]
<1>1. /\ \/ lookup' = [lookup EXCEPT ![l] = asked]
         \/ lookup' = [lookup EXCEPT ![l] = NoLookup]
      /\ UNCHANGED <<live, owed, gone, cors, entry, inflight, load, lost>>
    BY DEF Ask, LookupFails, published
<1>2. asked \in Lookup /\ asked.pc = "asked" /\ NoLookup \in Lookup /\ NoLookup.pc = "idle"
    BY LookupFacts
<1> HIDE DEF asked
<1>3. CASE lookup' = [lookup EXCEPT ![l] = asked]
    BY <1>1, <1>2, <1>3, LookupUnread
<1>4. CASE lookup' = [lookup EXCEPT ![l] = NoLookup]
    BY <1>1, <1>2, <1>4, LookupUnread
<1> QED
    BY <1>1, <1>3, <1>4

LEMMA ReadHostsKeeps ==
    ASSUME CachesInv, NEW l \in Lookups, ReadHosts(l)
    PROVE  CachesInv'
<1> DEFINE state == [lookup[l] EXCEPT !.pc = "read", !.hosts = live]
<1>1. /\ lookup \in [Lookups -> Lookup] /\ lookup[l] \in Lookup /\ live \in SUBSET PublicHosts
    BY DEF CachesInv, CachesTypeOK, PublishedTypeOK
<1>2. /\ lookup' = [lookup EXCEPT ![l].pc = "read", ![l].hosts = live]
      /\ UNCHANGED <<live, owed, gone, cors, entry, inflight, load, lost>>
    BY DEF ReadHosts, published
<1>3. lookup' = [lookup EXCEPT ![l] = state]
    BY <1>1, <1>2 DEF Lookup
<1>4. /\ state \in Lookup /\ state.pc = "read" /\ state.hosts = live
      /\ state.age \in 0..CorsTtl
    BY <1>1 DEF Lookup
<1> HIDE DEF state
<1>5. /\ lookup' \in [Lookups -> Lookup]
      /\ \A k \in Lookups : lookup'[k] = IF k = l THEN state ELSE lookup[k]
    BY <1>1, <1>3, <1>4
<1>6. CachesTypeOK'
    BY <1>2, <1>5 DEF CachesInv, CachesTypeOK, PublishedTypeOK
<1>7. Recent'
  <2>1. \A h \in live : gone[h] = 0 /\ gone[h] <= state.age
    BY <1>4, Ttls DEF CachesInv, Recent
  <2> QED
    BY <1>2, <1>4, <1>5, <2>1 DEF CachesInv, Recent
<1>8. Joined'
    BY <1>2 DEF CachesInv, Joined, Running
<1>9. Accurate'
    BY <1>2, <1>4, <1>5 DEF CachesInv, Accurate
<1> QED
    BY <1>6, <1>7, <1>8, <1>9 DEF CachesInv

LEMMA StoreHostsKeeps ==
    ASSUME CachesInv, NEW l \in Lookups, StoreHosts(l)
    PROVE  CachesInv'
<1> DEFINE left == CorsTtl - lookup[l].age
           new == [hosts |-> lookup[l].hosts, left |-> left, overlapped |-> lookup[l].overlapped]
<1>1. /\ lookup \in [Lookups -> Lookup] /\ lookup[l] \in Lookup /\ lookup[l].age \in 0..CorsTtl
    BY DEF CachesInv, CachesTypeOK, Lookup
<1>2. /\ lookup[l].pc = "read" /\ cors' = new
      /\ lookup' = [lookup EXCEPT ![l] = NoLookup]
      /\ UNCHANGED <<live, owed, gone, entry, inflight, load, lost>>
    BY DEF StoreHosts, published
<1>3. left \in 0..CorsTtl /\ lookup[l].age + left = CorsTtl
    BY <1>1, Ttls
<1> HIDE DEF left
<1>4. /\ new \in CorsEntry /\ new.hosts = lookup[l].hosts /\ new.left = left
      /\ new.overlapped = lookup[l].overlapped
    BY <1>1, <1>3 DEF Lookup, CorsEntry
<1> HIDE DEF new
<1>5. /\ lookup' \in [Lookups -> Lookup]
      /\ \A k \in Lookups : lookup'[k] = IF k = l THEN NoLookup ELSE lookup[k]
    BY <1>1, <1>2, LookupFacts
<1>6. CachesTypeOK'
    BY <1>2, <1>4, <1>5 DEF CachesInv, CachesTypeOK, PublishedTypeOK, CorsEntry
<1>7. Recent'
  <2>1. ASSUME left > 0, NEW h \in lookup[l].hosts
        PROVE  gone[h] + left <= CorsTtl
    <3>1. lookup[l].age < CorsTtl
      BY <1>1, <1>3, <2>1, Ttls
    <3>2. gone[h] <= lookup[l].age
      BY <1>2, <2>1, <3>1 DEF CachesInv, Recent
    <3>3. h \in PublicHosts /\ gone[h] \in 0..CorsTtl + 1
      BY <1>1, <2>1 DEF CachesInv, CachesTypeOK, Lookup
    <3> QED
      BY <1>1, <1>3, <3>2, <3>3, Ttls
  <2> QED
    BY <1>2, <1>4, <1>5, <2>1, LookupFacts DEF CachesInv, Recent
<1>8. Joined'
    BY <1>2 DEF CachesInv, Joined, Running
<1>9. Accurate'
    BY <1>2, <1>4, <1>5, LookupFacts DEF CachesInv, Accurate
<1> QED
    BY <1>6, <1>7, <1>8, <1>9 DEF CachesInv

LEMMA StartKeeps ==
    ASSUME CachesInv, NEW m \in Loads, Start(m)
    PROVE  CachesInv'
<1> DEFINE asked == [NoLoad EXCEPT !.pc = "asked"]
           promise == [load |-> m, left |-> InflightTtl]
           joined(n) == inflight # Absent /\ inflight.load = n
           given(n) == [load[n] EXCEPT !.dropped = TRUE]
<1>1. /\ load' = [n \in Loads |-> IF n = m THEN asked ELSE IF joined(n) THEN given(n) ELSE load[n]]
      /\ entry' = Absent /\ inflight' = promise
      /\ UNCHANGED <<live, owed, gone, cors, lookup, lost>>
    BY DEF Start, published
<1>2. asked \in Load /\ asked.pc = "asked" /\ ~asked.dropped /\ ~asked.overlapped
    BY LoadFacts
<1>3. promise \in Promise /\ promise.load = m
    BY Ttls DEF Promise
<1>4. promise # Absent
    BY <1>3, CacheAssumption DEF Promise
<1>5. ASSUME NEW n \in Loads
      PROVE  /\ load[n] \in Load /\ given(n) \in Load /\ given(n).pc = load[n].pc
             /\ given(n).value = load[n].value
             /\ given(n).overlapped = load[n].overlapped /\ given(n).dropped
    BY DEF CachesInv, CachesTypeOK, Load
<1> HIDE DEF asked, promise, given
<1>6. load' \in [Loads -> Load]
    BY <1>1, <1>2, <1>5
<1>7. \A n \in Loads \ {m} : joined(n) => load'[n] = given(n)
    BY <1>1
<1>8. \A n \in Loads \ {m} : ~joined(n) => load'[n] = load[n]
    BY <1>1
<1>9. load'[m] = asked
    BY <1>1
<1>10. CachesTypeOK'
    BY <1>1, <1>3, <1>6 DEF CachesInv, CachesTypeOK, PublishedTypeOK, Promise
<1>11. Recent'
    BY <1>1 DEF CachesInv, Recent
<1>12. Joined'
  <2>1. Running(load'[m]) /\ ~load'[m].overlapped /\ ~load'[m].dropped
    BY <1>2, <1>9 DEF Running
  <2>2. ASSUME NEW n \in Loads, Running(load'[n]), ~load'[n].dropped PROVE n = m
    <3> SUFFICES ASSUME n # m PROVE FALSE
      OBVIOUS
    <3>1. ~joined(n)
      BY <1>5, <1>7, <2>2
    <3>2. load'[n] = load[n]
      BY <1>8, <3>1
    <3> QED
      BY <2>2, <3>1, <3>2 DEF CachesInv, Joined
  <2> QED
    BY <1>1, <1>3, <1>4, <2>1, <2>2 DEF Joined
<1>13. Accurate'
  <2>1. ASSUME NEW n \in Loads, load'[n].pc = "read", ~load'[n].overlapped
        PROVE  /\ load[n].pc = "read" /\ ~load[n].overlapped
               /\ load'[n].value = load[n].value
    <3>1. n # m
      BY <1>2, <1>9, <2>1
    <3>2. CASE joined(n)
      BY <1>5, <1>7, <2>1, <3>1, <3>2
    <3>3. CASE ~joined(n)
      BY <1>8, <2>1, <3>1, <3>3
    <3> QED
      BY <3>2, <3>3
  <2> QED
    BY <1>1, <2>1 DEF CachesInv, Accurate
<1> QED
    BY <1>10, <1>11, <1>12, <1>13 DEF CachesInv

LEMMA ReadListKeeps ==
    ASSUME CachesInv, NEW m \in Loads, ReadList(m)
    PROVE  CachesInv'
<1> DEFINE state == [load[m] EXCEPT !.pc = "read", !.value = live]
<1>1. load \in [Loads -> Load] /\ load[m] \in Load /\ live \in SUBSET PublicHosts
    BY DEF CachesInv, CachesTypeOK, PublishedTypeOK
<1>2. /\ load[m].pc = "asked"
      /\ load' = [load EXCEPT ![m].pc = "read", ![m].value = live]
      /\ UNCHANGED <<live, owed, gone, cors, lookup, entry, inflight, lost>>
    BY DEF ReadList, published
<1>3. load' = [load EXCEPT ![m] = state]
    BY <1>1, <1>2 DEF Load
<1>4. /\ state \in Load /\ state.pc = "read" /\ state.value = live
      /\ state.dropped = load[m].dropped /\ state.overlapped = load[m].overlapped
    BY <1>1 DEF Load
<1> HIDE DEF state
<1>5. /\ load' \in [Loads -> Load]
      /\ \A n \in Loads : load'[n] = IF n = m THEN state ELSE load[n]
    BY <1>1, <1>3, <1>4
<1>6. CachesTypeOK'
    BY <1>2, <1>5 DEF CachesInv, CachesTypeOK, PublishedTypeOK
<1>7. Recent'
    BY <1>2 DEF CachesInv, Recent
<1>8. Joined'
  <2>1. ASSUME NEW n \in Loads
        PROVE  /\ Running(load'[n]) <=> Running(load[n])
               /\ load'[n].dropped = load[n].dropped /\ load'[n].overlapped = load[n].overlapped
    BY <1>2, <1>4, <1>5 DEF Running
  <2>2. inflight # Absent => inflight.load \in Loads
    BY DEF CachesInv, CachesTypeOK
  <2> QED
    BY <1>2, <2>1, <2>2 DEF CachesInv, Joined
<1>9. Accurate'
    BY <1>2, <1>4, <1>5 DEF CachesInv, Accurate
<1> QED
    BY <1>6, <1>7, <1>8, <1>9 DEF CachesInv

\* A load is over; what is left of it is in the entry, if it was stored.
LEMMA LoadIsOver ==
    ASSUME CachesInv, NEW m \in Loads, inflight' = Dropped(m), load' = [load EXCEPT ![m] = NoLoad],
           UNCHANGED <<live, owed, gone, cors, lookup, lost>>,
           entry' \in ListEntry \cup {Absent},
           owed = {} /\ ~lost => (entry' # Absent /\ ~entry'.overlapped => entry'.value = live)
    PROVE  CachesInv'
<1>1. /\ load' \in [Loads -> Load]
      /\ \A n \in Loads : load'[n] = IF n = m THEN NoLoad ELSE load[n]
    BY LoadFacts DEF CachesInv, CachesTypeOK
<1>2. inflight' = IF inflight # Absent /\ inflight.load = m THEN Absent ELSE inflight
    BY DEF Dropped
<1>3. CachesTypeOK'
    BY <1>1, <1>2 DEF CachesInv, CachesTypeOK, PublishedTypeOK, ListEntry
<1>4. Recent'
    BY DEF CachesInv, Recent
<1>5. Joined'
  <2>1. inflight' # Absent => inflight'.load = inflight.load /\ inflight # Absent /\ inflight.load # m
    BY <1>2
  <2>2. inflight # Absent => inflight.load \in Loads
    BY DEF CachesInv, CachesTypeOK
  <2>3. \A n \in Loads : Running(load'[n]) => n # m
    BY <1>1, LoadFacts DEF Running
  <2> QED
    BY <1>1, <1>2, <2>1, <2>2, <2>3 DEF CachesInv, Joined
<1>6. Accurate'
    BY <1>1, LoadFacts DEF CachesInv, Accurate
<1> QED
    BY <1>3, <1>4, <1>5, <1>6 DEF CachesInv

LEMMA StoreListKeeps ==
    ASSUME CachesInv, NEW m \in Loads, StoreList(m)
    PROVE  CachesInv'
<1> DEFINE new == [value |-> load[m].value, left |-> ListTtl, overlapped |-> load[m].overlapped]
<1>1. /\ load[m].pc = "read" /\ entry' = new
      /\ inflight' = Dropped(m) /\ load' = [load EXCEPT ![m] = NoLoad]
      /\ UNCHANGED <<live, owed, gone, cors, lookup, lost>>
    BY DEF StoreList, published
<1>2. load[m] \in Load
    BY DEF CachesInv, CachesTypeOK
<1>3. new \in ListEntry /\ new.value = load[m].value /\ new.overlapped = load[m].overlapped
    BY <1>2, Ttls DEF Load, ListEntry
<1> HIDE DEF new
<1>4. owed = {} /\ ~lost => (~new.overlapped => new.value = live)
    BY <1>1, <1>3 DEF CachesInv, Accurate
<1> QED
    BY <1>1, <1>3, <1>4, LoadIsOver

LEMMA LoadFailsKeeps ==
    ASSUME CachesInv, NEW m \in Loads, LoadFails(m)
    PROVE  CachesInv'
<1>1. /\ inflight' = Dropped(m) /\ load' = [load EXCEPT ![m] = NoLoad]
      /\ UNCHANGED <<live, owed, gone, cors, lookup, entry, lost>>
    BY DEF LoadFails, published
<1>2. entry' \in ListEntry \cup {Absent}
    BY <1>1 DEF CachesInv, CachesTypeOK, ListEntry
<1>3. owed = {} /\ ~lost => (entry' # Absent /\ ~entry'.overlapped => entry'.value = live)
    BY <1>1 DEF CachesInv, Accurate
<1> QED
    BY <1>1, <1>2, <1>3, LoadIsOver

LEMMA EvictKeeps ==
    ASSUME CachesInv, Evict
    PROVE  CachesInv'
<1>1. entry' = Absent /\ UNCHANGED <<live, owed, gone, cors, lookup, inflight, load, lost>>
    BY DEF Evict, published
<1>2. CachesTypeOK' /\ Recent' /\ Joined' /\ Accurate'
    BY <1>1 DEF CachesInv, CachesTypeOK, PublishedTypeOK, Recent, Joined, Running, Accurate
<1> QED
    BY <1>2 DEF CachesInv

LEMMA TickKeeps ==
    ASSUME CachesInv, Tick
    PROVE  CachesInv'
<1>1. /\ gone' \in [PublicHosts -> 0..CorsTtl + 1]
      /\ \A h \in PublicHosts : gone'[h] <= gone[h] + 1
      /\ \A h \in live : gone'[h] = 0
      /\ cors' \in CorsEntry \cup {Absent}
      /\ cors' # Absent => /\ cors # Absent /\ cors'.hosts = cors.hosts
                           /\ cors'.overlapped = cors.overlapped
                           /\ cors'.left > 0 => cors.left = cors'.left + 1
      /\ lookup' \in [Lookups -> Lookup]
      /\ \A l \in Lookups : /\ lookup'[l].pc = lookup[l].pc
                            /\ lookup'[l].hosts = lookup[l].hosts
                            /\ lookup'[l].overlapped = lookup[l].overlapped
                            /\ Running(lookup[l]) /\ lookup'[l].age < CorsTtl =>
                                   lookup'[l].age = lookup[l].age + 1
      /\ entry' \in ListEntry \cup {Absent}
      /\ entry' # Absent => /\ entry # Absent /\ entry'.value = entry.value
                            /\ entry'.overlapped = entry.overlapped
      /\ inflight' \in Promise \cup {Absent}
      /\ inflight' # Absent <=> inflight # Absent
      /\ inflight' # Absent => inflight'.load = inflight.load
      /\ UNCHANGED <<live, owed, load, lost>>
    BY TickFacts DEF CachesInv
<1>2. CachesTypeOK'
    BY <1>1 DEF CachesInv, CachesTypeOK, PublishedTypeOK, CorsEntry, ListEntry, Promise
<1>3. Recent'
  <2>1. ASSUME NEW l \in Lookups, lookup'[l].pc = "read", lookup'[l].age < CorsTtl,
               NEW h \in lookup'[l].hosts
        PROVE  gone'[h] <= lookup'[l].age
    <3>1. /\ lookup[l].pc = "read" /\ h \in lookup[l].hosts
          /\ lookup'[l].age = lookup[l].age + 1
      BY <1>1, <2>1 DEF Running
    <3>2. lookup[l].age \in 0..CorsTtl /\ h \in PublicHosts /\ gone[h] \in 0..CorsTtl + 1
      BY <3>1 DEF CachesInv, CachesTypeOK, Lookup
    <3>3. gone[h] <= lookup[l].age
      BY <2>1, <3>1, <3>2, Ttls DEF CachesInv, Recent
    <3>4. gone'[h] <= gone[h] + 1 /\ gone'[h] \in 0..CorsTtl + 1
      BY <1>1, <3>2
    <3> QED
      BY <3>1, <3>2, <3>3, <3>4, Ttls
  <2>2. ASSUME cors' # Absent, cors'.left > 0, NEW h \in cors'.hosts
        PROVE  gone'[h] + cors'.left <= CorsTtl
    <3>1. /\ cors # Absent /\ h \in cors.hosts /\ cors.left = cors'.left + 1
          /\ cors'.left \in 0..CorsTtl
      BY <1>1, <2>2 DEF CorsEntry
    <3>2. h \in PublicHosts /\ gone[h] \in 0..CorsTtl + 1
      BY <3>1 DEF CachesInv, CachesTypeOK
    <3>3. gone[h] + cors.left <= CorsTtl
      BY <2>2, <3>1, Ttls DEF CachesInv, Recent
    <3>4. gone'[h] <= gone[h] + 1 /\ gone'[h] \in 0..CorsTtl + 1
      BY <1>1, <3>2
    <3> QED
      BY <3>1, <3>2, <3>3, <3>4, Ttls
  <2> QED
    BY <1>1, <2>1, <2>2 DEF Recent
<1>4. Joined'
    BY <1>1 DEF CachesInv, Joined
<1>5. Accurate'
    BY <1>1 DEF CachesInv, Accurate
<1> QED
    BY <1>2, <1>3, <1>4, <1>5 DEF CachesInv

-----------------------------------------------------------------------------

LEMMA CachesInitHolds == CachesInit => CachesInv
<1> SUFFICES ASSUME CachesInit PROVE CachesInv
    OBVIOUS
<1>1. CachesTypeOK
  <2>1. PublishedTypeOK
    BY DEF CachesInit, PublishedInit, PublishedTypeOK
  <2>2. gone \in [PublicHosts -> 0..CorsTtl + 1]
    BY Ttls DEF CachesInit
  <2>3. lookup \in [Lookups -> Lookup] /\ load \in [Loads -> Load]
    BY LookupFacts, LoadFacts DEF CachesInit
  <2>4. cors = Absent /\ entry = Absent /\ inflight = Absent /\ lost \in BOOLEAN
    BY DEF CachesInit
  <2> QED
    BY <2>1, <2>2, <2>3, <2>4 DEF CachesTypeOK
<1>2. Recent
    BY LookupFacts DEF CachesInit, PublishedInit, Recent
<1>3. Joined
    BY LoadFacts DEF CachesInit, Joined, Running
<1>4. Accurate
    BY LookupFacts, LoadFacts DEF CachesInit, Accurate
<1> QED
    BY <1>1, <1>2, <1>3, <1>4 DEF CachesInv

LEMMA CachesNextKeeps == CachesInv /\ [CachesNext]_cacheVars => CachesInv'
<1> SUFFICES ASSUME CachesInv, [CachesNext]_cacheVars PROVE CachesInv'
    OBVIOUS
<1>1. ASSUME NEW r \in Writers, WriteRows(r) \/ Invalidate(r) \/ AnswerLost(r) PROVE CachesInv'
    BY <1>1, WriteRowsKeeps, InvalidateKeeps, AnswerLostKeeps
<1>2. ASSUME NEW l \in Lookups, Ask(l) \/ ReadHosts(l) \/ StoreHosts(l) \/ LookupFails(l)
      PROVE  CachesInv'
    BY <1>2, AskKeeps, ReadHostsKeeps, StoreHostsKeeps
<1>3. ASSUME NEW m \in Loads, Start(m) \/ ReadList(m) \/ StoreList(m) \/ LoadFails(m) PROVE CachesInv'
    BY <1>3, StartKeeps, ReadListKeeps, StoreListKeeps, LoadFailsKeeps
<1>4. CASE InvalidateList \/ Evict \/ Tick
    BY <1>4, InvalidateListKeeps, EvictKeeps, TickKeeps
<1>5. CASE UNCHANGED cacheVars
    BY <1>5 DEF cacheVars, published, CachesInv, CachesTypeOK, PublishedTypeOK, Recent, Joined, Running, Accurate
<1> QED
    BY <1>1, <1>2, <1>3, <1>4, <1>5 DEF CachesNext

LEMMA CachesInductive == CachesSpec => []CachesInv
BY CachesInitHolds, CachesNextKeeps, PTL DEF CachesSpec

\* Type correctness: the caches, and what is under way for them, stay in their domains.
THEOREM CachesTypeCorrect == CachesSpec => []CachesTypeOK
<1>1. CachesInv => CachesTypeOK
    BY DEF CachesInv
<1> QED
    BY <1>1, CachesInductive, PTL

\* getAllowedDbDomainHosts: for any number of lookups in any order, slow or not, a cached
\* list allows no host that was last live longer ago than the list may be cached.
THEOREM AllowedHostsAreRecent == CachesSpec => []HostsAreRecent
<1>1. CachesInv => HostsAreRecent
  <2> SUFFICES ASSUME CachesInv, cors # Absent, cors.left > 0, NEW h \in cors.hosts
               PROVE  gone[h] <= CorsTtl
    BY DEF HostsAreRecent
  <2>1. /\ gone[h] + cors.left <= CorsTtl /\ cors.left \in 0..CorsTtl
        /\ gone[h] \in 0..CorsTtl + 1
    BY DEF CachesInv, Recent, CachesTypeOK
  <2> QED
    BY <2>1, Ttls
<1> QED
    BY <1>1, CachesInductive, PTL

\* getOrSet: of any number of loads at most one can be joined, and it is one that no
\* invalidation has overtaken.
THEOREM OneLoadIsShared == CachesSpec => []LoadsAreShared
<1>1. CachesInv => LoadsAreShared
    BY DEF CachesInv, Joined, LoadsAreShared
<1> QED
    BY <1>1, CachesInductive, PTL

\* deleteByPrefix and clearDomainOriginCache: what is stale although every invalidation
\* was made was under way when one of them came.
THEOREM StaleWasOverlapped == CachesSpec => []StaleOnlyIfOverlapped
<1>1. CachesInv => StaleOnlyIfOverlapped
    BY DEF CachesInv, Accurate, StaleOnlyIfOverlapped
<1> QED
    BY <1>1, CachesInductive, PTL

\* The caches let the writers do all that PublishedHosts lets them do, and nothing else.
THEOREM WritersPublish == CachesSpec => PublishedSpec
<1>1. CachesInit => PublishedInit
    BY DEF CachesInit
<1>2. [CachesNext]_cacheVars => [PublishedNext]_published
  <2> SUFFICES ASSUME [CachesNext]_cacheVars PROVE [PublishedNext]_published
    OBVIOUS
  <2>1. ASSUME NEW r \in Writers, WriteRows(r) \/ Invalidate(r) \/ AnswerLost(r)
        PROVE  PublishedNext
    BY <2>1 DEF WriteRows, Invalidate, AnswerLost, PublishedNext
  <2>2. ASSUME NEW l \in Lookups, Ask(l) \/ ReadHosts(l) \/ StoreHosts(l) \/ LookupFails(l)
        PROVE  UNCHANGED published
    BY <2>2 DEF Ask, ReadHosts, StoreHosts, LookupFails
  <2>3. ASSUME NEW m \in Loads, Start(m) \/ ReadList(m) \/ StoreList(m) \/ LoadFails(m)
        PROVE  UNCHANGED published
    BY <2>3 DEF Start, ReadList, StoreList, LoadFails
  <2>4. InvalidateList \/ Evict \/ Tick \/ UNCHANGED cacheVars => UNCHANGED published
    BY DEF InvalidateList, Evict, Tick, cacheVars
  <2> QED
    BY <2>1, <2>2, <2>3, <2>4 DEF CachesNext
<1> QED
    BY <1>1, <1>2, PTL DEF CachesSpec, PublishedSpec
=============================================================================
