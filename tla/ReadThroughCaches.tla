-------------------------- MODULE ReadThroughCaches --------------------------
(***************************************************************************)
(* The two caches that fill themselves from the database, over one and the *)
(* same rows: the host list of CorsOriginService, which any number of      *)
(* requests may look up at once, and a list of MemoryCacheService.getOrSet,*)
(* whose loads are shared through an in-flight promise.  Writers change    *)
(* the rows and invalidate both later (PublishedHosts).                    *)
(*                                                                         *)
(* Time is relative: every deadline is what is left of it.                 *)
(***************************************************************************)
EXTENDS PublishedHosts, Naturals, FiniteSets

CONSTANTS
    Lookups,      \* requests that may be looking up the host list
    Loads,        \* loads of the list that may be running
    CorsTtl,      \* corsDbOriginCacheTtlMs
    ListTtl,      \* adminWebsitesListTtlSeconds
    InflightTtl,  \* inflightTtlMs
    Absent        \* no entry, no list, no promise

\* resolveTtlMs and resolveInflightTtlMs clamp to these.
ClampedTtls == ListTtl \in Nat \ {0} /\ InflightTtl \in Nat \ {0}

ASSUME CacheAssumption ==
    /\ CorsTtl \in Nat \ {0}
    /\ ClampedTtls
    /\ Absent \notin Loads /\ Absent \notin [load : Loads, left : 0..InflightTtl]

VARIABLES
    gone,      \* history: how long ago a host was last live, up to CorsTtl + 1
    cors,      \* domainCache: the hosts and what is left of its life, or Absent
    lookup,    \* the lookups of the host list in flight
    entry,     \* the entry of the list, or Absent
    inflight,  \* the promise that may be joined and what is left of its life, or Absent
    load,      \* the loads of the list in flight
    lost       \* history: a writer ended without invalidating, and no other has since

cacheVars == <<published, gone, cors, lookup, entry, inflight, load, lost>>

\* overlapped: history, an invalidation fell between the read and the store.
Lookup == [pc : {"idle", "asked", "read"}, hosts : SUBSET PublicHosts, age : 0..CorsTtl,
           overlapped : BOOLEAN]
Load == [pc : {"idle", "asked", "read"}, value : SUBSET PublicHosts,
         dropped : BOOLEAN,    \* history: its promise was given up, too old or invalidated
         overlapped : BOOLEAN]

NoLookup == [pc |-> "idle", hosts |-> {}, age |-> 0, overlapped |-> FALSE]
NoLoad == [pc |-> "idle", value |-> {}, dropped |-> FALSE, overlapped |-> FALSE]

CachesTypeOK ==
    /\ PublishedTypeOK
    /\ gone \in [PublicHosts -> 0..CorsTtl + 1]
    /\ cors \in [hosts : SUBSET PublicHosts, left : 0..CorsTtl, overlapped : BOOLEAN] \cup {Absent}
    /\ lookup \in [Lookups -> Lookup]
    /\ entry \in [value : SUBSET PublicHosts, left : 0..ListTtl, overlapped : BOOLEAN] \cup {Absent}
    /\ inflight \in [load : Loads, left : 0..InflightTtl] \cup {Absent}
    /\ load \in [Loads -> Load]
    /\ lost \in BOOLEAN

CachesInit ==
    /\ PublishedInit
    /\ gone = [h \in PublicHosts |-> CorsTtl + 1]
    /\ cors = Absent
    /\ lookup = [l \in Lookups |-> NoLookup]
    /\ entry = Absent
    /\ inflight = Absent
    /\ load = [m \in Loads |-> NoLoad]
    /\ lost = FALSE

-----------------------------------------------------------------------------
(* The writers.                                                             *)

WriteRows(r) ==
    /\ Change(r)
    /\ gone' = [h \in PublicHosts |-> IF h \in live \cup live' THEN 0 ELSE gone[h]]
    /\ UNCHANGED <<cors, lookup, entry, inflight, load, lost>>

Running(state) == state.pc # "idle"

\* Mutant: loads under way may still be joined.
InvalidateEntriesOnly(r) ==
    /\ Settle(r)
    /\ cors' = Absent
    /\ entry' = Absent
    /\ lookup' = [l \in Lookups |-> [lookup[l] EXCEPT !.overlapped = lookup[l].pc = "read"]]
    /\ load' = [m \in Loads |-> [load[m] EXCEPT !.overlapped = load[m].pc = "read"]]
    /\ lost' = FALSE
    /\ UNCHANGED <<gone, inflight>>

\* Mutant: the host list is forgotten.
InvalidateListOnly(r) ==
    /\ Settle(r)
    /\ entry' = Absent
    /\ inflight' = Absent
    /\ lookup' = [l \in Lookups |-> [lookup[l] EXCEPT !.overlapped = lookup[l].pc = "read"]]
    /\ load' = [m \in Loads |-> [load[m] EXCEPT !.overlapped = load[m].pc = "read",
                                                !.dropped = Running(load[m])]]
    /\ lost' = FALSE
    /\ UNCHANGED <<gone, cors>>

\* clearDomainOriginCache and deleteByPrefix: what is cached and what may be joined,
\* but not what is under way.
Invalidate(r) ==
    /\ Settle(r)
    /\ cors' = Absent
    /\ entry' = Absent
    /\ inflight' = Absent
    /\ lookup' = [l \in Lookups |-> [lookup[l] EXCEPT !.overlapped = lookup[l].pc = "read"]]
    /\ load' = [m \in Loads |-> [load[m] EXCEPT !.overlapped = load[m].pc = "read",
                                                !.dropped = Running(load[m])]]
    /\ lost' = FALSE
    /\ UNCHANGED gone

\* The database's answer to the write is lost: the request ends without invalidating.
AnswerLost(r) ==
    /\ Settle(r)
    /\ lost' = TRUE
    /\ UNCHANGED <<gone, cors, lookup, entry, inflight, load>>

\* What touches no host, as a new website or a new name, drops the list only.
InvalidateList ==
    /\ entry' = Absent
    /\ inflight' = Absent
    /\ load' = [m \in Loads |-> [load[m] EXCEPT !.overlapped = load[m].pc = "read",
                                                !.dropped = Running(load[m])]]
    /\ UNCHANGED <<published, gone, cors, lookup, lost>>

Expired(item) == item # Absent => item.left = 0

-----------------------------------------------------------------------------
(* CorsOriginService.getAllowedDbDomainHosts.                               *)

\* No list, or one that has run out: the clock is read, then the database is asked.
Ask(l) ==
    /\ lookup[l].pc = "idle"
    /\ Expired(cors)
    /\ lookup' = [lookup EXCEPT ![l] = [NoLookup EXCEPT !.pc = "asked"]]
    /\ UNCHANGED <<published, gone, cors, entry, inflight, load, lost>>

ReadHosts(l) ==
    /\ lookup[l].pc = "asked"
    /\ lookup' = [lookup EXCEPT ![l].pc = "read", ![l].hosts = live]
    /\ UNCHANGED <<published, gone, cors, entry, inflight, load, lost>>

\* Mutant: the list lives from when it is stored.
StoreHostsFromNow(l) ==
    /\ lookup[l].pc = "read"
    /\ cors' = [hosts |-> lookup[l].hosts, left |-> CorsTtl, overlapped |-> lookup[l].overlapped]
    /\ lookup' = [lookup EXCEPT ![l] = NoLookup]
    /\ UNCHANGED <<published, gone, entry, inflight, load, lost>>

\* The answer arrives: it is stored, to live from when the clock was read.
StoreHosts(l) ==
    /\ lookup[l].pc = "read"
    /\ cors' = [hosts |-> lookup[l].hosts, left |-> CorsTtl - lookup[l].age,
                overlapped |-> lookup[l].overlapped]
    /\ lookup' = [lookup EXCEPT ![l] = NoLookup]
    /\ UNCHANGED <<published, gone, entry, inflight, load, lost>>

\* The query fails: the origin is denied, the cache stays as it is.
LookupFails(l) ==
    /\ lookup[l].pc = "asked"
    /\ lookup' = [lookup EXCEPT ![l] = NoLookup]
    /\ UNCHANGED <<published, gone, cors, entry, inflight, load, lost>>

-----------------------------------------------------------------------------
(* MemoryCacheService.getOrSet.                                             *)

\* No entry that is alive and no promise to join: a load is started.  An entry and a
\* promise that have run out are dropped on the way.
Start(m) ==
    /\ load[m].pc = "idle"
    /\ Expired(entry)
    /\ Expired(inflight)
    /\ entry' = Absent
    /\ inflight' = [load |-> m, left |-> InflightTtl]
    /\ load' = [n \in Loads |->
          IF n = m THEN [NoLoad EXCEPT !.pc = "asked"]
          ELSE IF inflight # Absent /\ inflight.load = n THEN [load[n] EXCEPT !.dropped = TRUE]
          ELSE load[n]]
    /\ UNCHANGED <<published, gone, cors, lookup, lost>>

ReadList(m) ==
    /\ load[m].pc = "asked"
    /\ load' = [load EXCEPT ![m].pc = "read", ![m].value = live]
    /\ UNCHANGED <<published, gone, cors, lookup, entry, inflight, lost>>

\* The promise is dropped only by the call that made it.
Dropped(m) == IF inflight # Absent /\ inflight.load = m THEN Absent ELSE inflight

StoreList(m) ==
    /\ load[m].pc = "read"
    /\ entry' = [value |-> load[m].value, left |-> ListTtl, overlapped |-> load[m].overlapped]
    /\ inflight' = Dropped(m)
    /\ load' = [load EXCEPT ![m] = NoLoad]
    /\ UNCHANGED <<published, gone, cors, lookup, lost>>

LoadFails(m) ==
    /\ load[m].pc = "asked"
    /\ inflight' = Dropped(m)
    /\ load' = [load EXCEPT ![m] = NoLoad]
    /\ UNCHANGED <<published, gone, cors, lookup, entry, lost>>

\* evictOverflow: other keys push the entry out.
Evict ==
    /\ entry # Absent
    /\ entry' = Absent
    /\ UNCHANGED <<published, gone, cors, lookup, inflight, load, lost>>

-----------------------------------------------------------------------------

Less(n) == IF n = 0 THEN 0 ELSE n - 1
More(n, most) == IF n < most THEN n + 1 ELSE n

\* Mutant: an entry of the list does not age.
TickWithoutExpiry ==
    /\ gone' = [h \in PublicHosts |-> IF h \in live THEN 0 ELSE More(gone[h], CorsTtl + 1)]
    /\ cors' = IF cors = Absent THEN Absent ELSE [cors EXCEPT !.left = Less(@)]
    /\ lookup' = [l \in Lookups |-> IF Running(lookup[l])
                                    THEN [lookup[l] EXCEPT !.age = More(@, CorsTtl)]
                                    ELSE lookup[l]]
    /\ UNCHANGED <<published, entry, inflight, load, lost>>

Tick ==
    /\ gone' = [h \in PublicHosts |-> IF h \in live THEN 0 ELSE More(gone[h], CorsTtl + 1)]
    /\ cors' = IF cors = Absent THEN Absent ELSE [cors EXCEPT !.left = Less(@)]
    /\ lookup' = [l \in Lookups |-> IF Running(lookup[l])
                                    THEN [lookup[l] EXCEPT !.age = More(@, CorsTtl)]
                                    ELSE lookup[l]]
    /\ entry' = IF entry = Absent THEN Absent ELSE [entry EXCEPT !.left = Less(@)]
    /\ inflight' = IF inflight = Absent THEN Absent ELSE [inflight EXCEPT !.left = Less(@)]
    /\ UNCHANGED <<published, load, lost>>

CachesNext ==
    \/ \E r \in Writers : WriteRows(r) \/ Invalidate(r) \/ AnswerLost(r)
    \/ \E l \in Lookups : Ask(l) \/ ReadHosts(l) \/ StoreHosts(l) \/ LookupFails(l)
    \/ \E m \in Loads : Start(m) \/ ReadList(m) \/ StoreList(m) \/ LoadFails(m)
    \/ InvalidateList
    \/ Evict
    \/ Tick

\* The clock runs and every query is answered or fails; nothing else is promised.
Fairness ==
    /\ WF_cacheVars(Tick)
    /\ \A l \in Lookups : WF_cacheVars(ReadHosts(l) \/ LookupFails(l)) /\ WF_cacheVars(StoreHosts(l))
    /\ \A m \in Loads : WF_cacheVars(ReadList(m) \/ LoadFails(m)) /\ WF_cacheVars(StoreList(m))

CachesSpec == CachesInit /\ [][CachesNext]_cacheVars /\ Fairness

-----------------------------------------------------------------------------

\* A host that the cached list allows was live within the time the list may be cached,
\* however long its query took and whether or not the invalidation ever came.
HostsAreRecent ==
    cors # Absent /\ cors.left > 0 => \A h \in cors.hosts : gone[h] <= CorsTtl

\* Whoever joins a load gets what was read after the last invalidation; and while one
\* load can be joined, another runs only if it has been given up: as too old, or by an
\* invalidation.
LoadsAreShared ==
    /\ inflight # Absent => Running(load[inflight.load]) /\ ~load[inflight.load].overlapped
    /\ \A m, n \in Loads : (m # n /\ Running(load[m]) /\ Running(load[n])) =>
                               load[m].dropped \/ load[n].dropped

\* What is cached disagrees with the rows only while an invalidation is owed, if one was
\* lost, or if it was under way itself when the invalidation came.
StaleOnlyIfOverlapped ==
    owed = {} /\ ~lost =>
        /\ cors # Absent /\ ~cors.overlapped => cors.hosts = live
        /\ entry # Absent /\ ~entry.overlapped => entry.value = live

Current ==
    /\ cors # Absent /\ cors.left > 0 => cors.hosts = live
    /\ entry # Absent /\ entry.left > 0 => entry.value = live

\* Once the rows have stopped changing both caches are current for good, though an
\* invalidation was lost or a slow query has stored what it read long before.
CachesCatchUp == <>[][FALSE]_live => <>[]Current
=============================================================================
