--------------------------- MODULE WebsiteDomains ----------------------------
(***************************************************************************)
(* Websites, the pool of domains, and the administrators' requests that    *)
(* create, assign, release, rename and disable them.                       *)
(*                                                                         *)
(* Every request looks at rows, decides, and later writes by id without    *)
(* looking again; other requests may write in between.  A step of the      *)
(* model is one look, one write or transaction, or the invalidation of the *)
(* caches that follows.                                                    *)
(***************************************************************************)
EXTENDS Naturals, FiniteSets

CONSTANTS
    Sites,     \* Website rows
    Domains,   \* WebsiteDomain rows
    Hosts,     \* what normalizeDomain returns
    Requests,  \* administrators' requests that may be in flight
    None

SiteStatuses == {"ABSENT", "ACTIVE", "DISABLED"}
DomainStatuses == {"ACTIVE", "DISABLED"}

DomainRecord == [host : Hosts, status : DomainStatuses, site : Sites \cup {None},
                 primary : BOOLEAN]

ASSUME DomainAssumption ==
    None \notin Sites \cup Domains \cup Hosts \cup BOOLEAN /\ None \notin DomainRecord

VARIABLES
    site,       \* Website.status
    domain,     \* WebsiteDomain, or None for a row that does not exist
    request,    \* the requests in flight
    overtaken   \* history: a write was decided on rows that another one had changed

vars == <<site, domain, request, overtaken>>

\* A change of one row, decided by a look: fields it leaves alone are None.
Decision == [host : Hosts \cup {None}, status : DomainStatuses \cup {None},
             primary : BOOLEAN \cup {None}]

Steps == {"idle", "insert", "create", "assign", "existing", "move", "keep", "write",
          "release", "disable", "clear"}

RequestState ==
    [pc : Steps, domain : Domains \cup {None}, site : Sites \cup {None},
     change : Decision,
     alone : BOOLEAN,    \* take isPrimary from the website's other domains
     replace : BOOLEAN,  \* replaceExisting
     strip : BOOLEAN,    \* existingAssignedDomain !== null
     passed : BOOLEAN]   \* history: others wrote since the first look

NoChange == [host |-> None, status |-> None, primary |-> None]
Idle == [pc |-> "idle", domain |-> None, site |-> None, change |-> NoChange,
         alone |-> FALSE, replace |-> FALSE, strip |-> FALSE, passed |-> FALSE]

TypeOK ==
    /\ site \in [Sites -> SiteStatuses]
    /\ domain \in [Domains -> DomainRecord \cup {None}]
    /\ request \in [Requests -> RequestState]
    /\ overtaken \in BOOLEAN

Init ==
    /\ site = [w \in Sites |-> "ABSENT"]
    /\ domain = [d \in Domains |-> None]
    /\ request = [r \in Requests |-> Idle]
    /\ overtaken = FALSE

-----------------------------------------------------------------------------

At(r, step) == request[r].pc = step
Exists(d) == domain[d] # None
DomainsOf(w) == {d \in Domains : Exists(d) /\ domain[d].site = w}
Taken(h) == \E d \in Domains : Exists(d) /\ domain[d].host = h
BelongsTo(d, w) == Exists(d) /\ domain[d].site = w
MayTake(w) == site[w] = "ACTIVE"
FreeFor(d, h) == \A e \in Domains \ {d} : Exists(e) => domain[e].host # h

\* A request is begun, or goes on, with what it has learnt.
Becomes(r, state) ==
    /\ request' = [request EXCEPT ![r] = state]
    /\ UNCHANGED <<site, domain, overtaken>>

\* What a request has looked at: its domain, its website and the domains of that.
View(me, sites, rows) ==
    [domain |-> IF me.domain = None THEN None ELSE rows[me.domain],
     site |-> IF me.site = None THEN None ELSE sites[me.site],
     rows |-> IF me.site = None THEN {}
              ELSE {<<d, rows[d]>> : d \in {e \in Domains : rows[e] # None /\ rows[e].site = me.site}}]

\* Rows change under the others: history tells those who had looked at them.
Passes == [q \in Requests |->
    IF /\ request[q].pc \notin {"idle", "clear"}
       /\ View(request[q], site', domain') # View(request[q], site, domain)
    THEN [request[q] EXCEPT !.passed = TRUE]
    ELSE request[q]]

\* A request writes rows; from here on only its invalidation is left.
Writes(r) ==
    /\ request' = [Passes EXCEPT ![r] = [Idle EXCEPT !.pc = "clear"]]
    /\ overtaken' = (overtaken \/ request[r].passed)

WritesDomains(r, rows) == domain' = rows /\ UNCHANGED site /\ Writes(r)

\* Refused, failed, or nothing to do.
Refuse(r) == Becomes(r, Idle)

\* A new row under a host; the unique host refuses a second one (P2002).
Insert(d, h, status, w, primary) ==
    [domain EXCEPT ![d] = [host |-> h, status |-> status, site |-> w, primary |-> primary]]

\* The rows with all those in S taken from their website.
Stripped(S) == [d \in Domains |-> IF d \in S THEN [domain[d] EXCEPT !.site = None, !.primary = FALSE]
                                  ELSE domain[d]]

\* The rows with isPrimary taken from those in S.
Demoted(S) == [d \in Domains |-> IF d \in S THEN [domain[d] EXCEPT !.primary = FALSE]
                                 ELSE domain[d]]

Changed(rows, d, change) ==
    [rows EXCEPT ![d].host = IF change.host = None THEN @ ELSE change.host,
                 ![d].status = IF change.status = None THEN @ ELSE change.status,
                 ![d].primary = IF change.primary = None THEN @ ELSE change.primary]

-----------------------------------------------------------------------------
(* Websites.                                                                *)

\* Mutant: a website changes and no cache hears of it.
SetSiteSilently(r, w, status) ==
    /\ At(r, "idle")
    /\ site[w] \notin {"ABSENT", status}
    /\ site' = [site EXCEPT ![w] = status]
    /\ UNCHANGED <<domain, overtaken>>
    /\ request' = Passes

\* createWebsite: no host is live because of it, and only lists are invalidated.
CreateSite(w, status) ==
    /\ site[w] = "ABSENT"
    /\ site' = [site EXCEPT ![w] = status]
    /\ UNCHANGED <<domain, overtaken>>
    /\ request' = Passes

\* updateWebsite with a status, and disableWebsite: one write, whatever was read.
SetSite(r, w, status) ==
    /\ At(r, "idle")
    /\ site[w] \notin {"ABSENT", status}
    /\ site' = [site EXCEPT ![w] = status]
    /\ UNCHANGED domain
    /\ Writes(r)

-----------------------------------------------------------------------------
(* The website's own domain.                                                *)

\* createDomain: an ACTIVE website without a domain, a free host.
CreateLook(r, w, h) ==
    /\ At(r, "idle")
    /\ MayTake(w)
    /\ DomainsOf(w) = {}
    /\ ~Taken(h)
    /\ Becomes(r, [Idle EXCEPT !.pc = "insert", !.site = w,
                               !.change = [NoChange EXCEPT !.host = h]])

CreateInsert(r, d) ==
    LET me == request[r]
    IN  /\ At(r, "insert")
        /\ ~Exists(d)
        /\ ~Taken(me.change.host)
        /\ WritesDomains(r, Insert(d, me.change.host, "ACTIVE", me.site, TRUE))

\* claimCurrentDomain: the host may be free in the pool; else it is created there.
ClaimLook(r, w, h) ==
    /\ At(r, "idle")
    /\ MayTake(w)
    /\ DomainsOf(w) = {}
    /\ \/ /\ ~Taken(h)
          /\ Becomes(r, [Idle EXCEPT !.pc = "create", !.site = w,
                                     !.change = [NoChange EXCEPT !.host = h]])
       \/ \E d \in Domains :
             /\ Exists(d)
             /\ domain[d].host = h
             /\ domain[d].site = None
             /\ domain[d].status = "ACTIVE"
             /\ Becomes(r, [Idle EXCEPT !.pc = "assign", !.site = w, !.domain = d])

\* The row is created in the pool; the assignment then looks at everything again.
ClaimCreate(r, d) ==
    LET me == request[r]
    IN  /\ At(r, "create")
        /\ ~Exists(d)
        /\ ~Taken(me.change.host)
        /\ domain' = Insert(d, me.change.host, "ACTIVE", None, FALSE)
        /\ UNCHANGED <<site, overtaken>>
        /\ request' = [Passes EXCEPT ![r] =
                          [me EXCEPT !.pc = "assign", !.domain = d, !.change = NoChange]]

\* Mutant: nobody asks whose domain it is.
AssignLookAnywhere(r, d, w, replace) ==
    /\ At(r, "idle")
    /\ Exists(d)
    /\ MayTake(w)
    /\ domain[d].status = "ACTIVE"
    /\ Becomes(r, [Idle EXCEPT !.pc = IF domain[d].site = w THEN "keep" ELSE "existing",
                               !.domain = d, !.site = w, !.replace = replace])

\* assignDomainToWebsiteRecord: the domain and the website.
AssignLook(r, d, w, replace) ==
    /\ \/ At(r, "idle")
       \/ At(r, "assign") /\ request[r].domain = d /\ request[r].site = w /\ ~replace
    /\ Exists(d)
    /\ MayTake(w)
    /\ domain[d].status = "ACTIVE"
    /\ domain[d].site \in {w, None}
    /\ Becomes(r, [Idle EXCEPT !.pc = IF domain[d].site = w THEN "keep" ELSE "existing",
                               !.domain = d, !.site = w, !.replace = replace])

\* Mutant: the domain that the website has is replaced but not released.
AssignExistingKeepsOld(r) ==
    /\ At(r, "existing")
    /\ DomainsOf(request[r].site) # {} => request[r].replace
    /\ Becomes(r, [request[r] EXCEPT !.pc = "move"])

\* The website has no domain yet, or the one it has is to be replaced.
AssignExisting(r) ==
    LET has == DomainsOf(request[r].site) # {}
    IN  /\ At(r, "existing")
        /\ has => request[r].replace
        /\ Becomes(r, [request[r] EXCEPT !.pc = "move", !.strip = has])

\* The transaction: the website loses what it has, if anything was seen, and gets this.
AssignMove(r) ==
    LET me == request[r]
        rows == Stripped(IF me.strip THEN DomainsOf(me.site) ELSE {})
    IN  /\ At(r, "move")
        /\ WritesDomains(r, [rows EXCEPT ![me.domain].site = me.site,
                                         ![me.domain].primary = TRUE])

\* The domain was the website's already: it becomes the only one, and primary.
AssignKeep(r) ==
    LET me == request[r]
        rows == Stripped(DomainsOf(me.site) \ {me.domain})
    IN  /\ At(r, "keep")
        /\ WritesDomains(r, [rows EXCEPT ![me.domain].primary = TRUE])

\* unassignDomainFromWebsite, of a domain that no canonical link anchors.
UnassignLook(r, d) ==
    /\ At(r, "idle")
    /\ Exists(d)
    /\ domain[d].site # None
    /\ Becomes(r, [Idle EXCEPT !.pc = "release", !.domain = d])

Unassign(r) ==
    /\ At(r, "release")
    /\ WritesDomains(r, Stripped({request[r].domain}))

\* updateDomain: a new host, ACTIVE, primary or not; the website's other domains stop
\* being primary when this one is to be.
UpdateLook(r, d, w, change) ==
    LET finalStatus == IF change.status = None THEN domain[d].status ELSE change.status
        finalPrimary == IF change.primary = None THEN domain[d].primary ELSE change.primary
    IN  /\ At(r, "idle")
        /\ BelongsTo(d, w)
        /\ FreeFor(d, change.host)
        /\ change.status # "DISABLED"
        /\ change.primary = TRUE => finalStatus = "ACTIVE"
        /\ Becomes(r, [Idle EXCEPT !.pc = "write", !.domain = d, !.site = w, !.change = change,
                                   !.alone = finalPrimary /\ finalStatus = "ACTIVE"])

\* activateDomain: no other domain of the website is ACTIVE.
ActivateLook(r, d, w, primary) ==
    /\ At(r, "idle")
    /\ BelongsTo(d, w)
    /\ \A e \in DomainsOf(w) \ {d} : domain[e].status # "ACTIVE"
    /\ Becomes(r, [Idle EXCEPT !.pc = "write", !.domain = d, !.site = w, !.alone = primary,
                               !.change = [NoChange EXCEPT !.status = "ACTIVE",
                                              !.primary = IF primary THEN TRUE ELSE None]])

-----------------------------------------------------------------------------
(* The pool.                                                                *)

\* createStandaloneDomain.
CreateStandalone(r, d, h, status) ==
    /\ At(r, "idle")
    /\ ~Exists(d)
    /\ ~Taken(h)
    /\ WritesDomains(r, Insert(d, h, status, None, FALSE))

\* updateStandaloneDomain and disableStandaloneDomain: an assigned domain may be renamed
\* here, but not disabled.
StandaloneLook(r, d, change) ==
    /\ At(r, "idle")
    /\ Exists(d)
    /\ FreeFor(d, change.host)
    /\ change.status = "DISABLED" => domain[d].site = None
    /\ change.primary = IF change.status = "DISABLED" THEN FALSE ELSE None
    /\ Becomes(r, [Idle EXCEPT !.pc = "write", !.domain = d, !.change = change])

\* activateStandaloneDomain does not look at all.
ActivateStandalone(r, d) ==
    /\ At(r, "idle")
    /\ Exists(d)
    /\ WritesDomains(r, [domain EXCEPT ![d].status = "ACTIVE"])

\* The write that an update, an activation or a disabling has decided on.
Write(r) ==
    LET me == request[r]
        rows == Demoted(IF me.alone THEN DomainsOf(me.site) \ {me.domain} ELSE {})
    IN  /\ At(r, "write")
        /\ FreeFor(me.domain, me.change.host)
        /\ WritesDomains(r, Changed(rows, me.domain, me.change))

-----------------------------------------------------------------------------

\* A request that has not written yet is refused or fails.
GiveUp(r) ==
    /\ request[r].pc \notin {"idle", "clear"}
    /\ Refuse(r)

\* The audit record is tried and the caches are cleared; or the database's answer to the
\* write was lost, and the request ended there.
Clear(r) ==
    /\ At(r, "clear")
    /\ Becomes(r, Idle)

Changes == {c \in Decision : c # NoChange}

Next == \E r \in Requests :
    \/ \E w \in Sites, status \in {"ACTIVE", "DISABLED"} :
          CreateSite(w, status) \/ SetSite(r, w, status)
    \/ \E w \in Sites, h \in Hosts : CreateLook(r, w, h) \/ ClaimLook(r, w, h)
    \/ \E d \in Domains : CreateInsert(r, d) \/ ClaimCreate(r, d)
    \/ \E d \in Domains, w \in Sites, replace \in BOOLEAN : AssignLook(r, d, w, replace)
    \/ AssignExisting(r)
    \/ AssignMove(r)
    \/ AssignKeep(r)
    \/ \E d \in Domains : UnassignLook(r, d)
    \/ Unassign(r)
    \/ \E d \in Domains, w \in Sites, c \in Changes : UpdateLook(r, d, w, c)
    \/ \E d \in Domains, w \in Sites, primary \in BOOLEAN : ActivateLook(r, d, w, primary)
    \/ \E d \in Domains, h \in Hosts, status \in DomainStatuses : CreateStandalone(r, d, h, status)
    \/ \E d \in Domains, c \in Changes : StandaloneLook(r, d, c)
    \/ \E d \in Domains : ActivateStandalone(r, d)
    \/ Write(r)
    \/ GiveUp(r)
    \/ Clear(r)

Spec == Init /\ [][Next]_vars

-----------------------------------------------------------------------------

\* Unless a write was decided on rows that had changed since: a website has one domain
\* at most, what is assigned is ACTIVE, and only what is assigned is primary.
InOrder ==
    /\ \A w \in Sites : Cardinality(DomainsOf(w)) <= 1
    /\ \A d \in Domains : Exists(d) /\ domain[d].site # None => domain[d].status = "ACTIVE"
    /\ \A d \in Domains : Exists(d) /\ domain[d].primary => domain[d].site # None
InOrderUnlessOvertaken == ~overtaken => InOrder

\* Unless a write was decided on rows that had changed since, a domain passes from one
\* website to another only by being released first.
NoTakeover ==
    [][overtaken' \/ \A d \in Domains :
          Exists(d) /\ domain[d].site # None => domain'[d].site \in {domain[d].site, None}]_vars

\* The hosts that CorsOriginService allows and that a website list shows as live.
LiveHosts == {domain[d].host : d \in
    {e \in Domains : /\ Exists(e)
                     /\ domain[e].status = "ACTIVE"
                     /\ domain[e].site # None
                     /\ site[domain[e].site] = "ACTIVE"}}

Published == INSTANCE PublishedHosts
                 WITH PublicHosts <- Hosts, Writers <- Requests,
                      live <- LiveHosts, owed <- {r \in Requests : At(r, "clear")}

\* Whatever changes the live hosts, website or domain, assigned or in the pool, leaves its
\* request with an invalidation to do.
LiveHostsAreAnnounced == Published!PublishedSpec
=============================================================================
