---------------------------- MODULE PublishedLink ----------------------------
(***************************************************************************)
(* What the public API authorizes a reviewer against: the rows behind one  *)
(* share link, and the administrator who changes them while reviewers      *)
(* watch.  PublicWatch and PublicMedia extend this module.                 *)
(*                                                                         *)
(* The rows are the database's.  A change is made through the admin API of *)
(* the modelled process, which then drops its cached rows, or anywhere     *)
(* else (another process, a script, SQL), which drops nothing.             *)
(***************************************************************************)
EXTENDS Integers, FiniteSets

CONSTANTS
    Videos,     \* the videos the link was created with
    Terms,      \* what links are created with: the seconds until expiresAt, or
                \* None, and maxViews, or None
    None

ASSUME LinkAssumption ==
    /\ None \notin Int
    /\ Terms \subseteq (Nat \cup {None}) \X ((Nat \ {0}) \cup {None})

VARIABLES
    site,       \* the domain is ACTIVE and so is its website
    link,       \* ShareLink.status
    ready,      \* videos that are READY
    listed,     \* videos that are members and hold an ACTIVE assignment
    maxViews,   \* ShareLink.maxViews, or None; no request changes it
    life,       \* seconds left until the link expires, or None
    compat,     \* the host is in PUBLIC_COMPATIBILITY_URL_HOSTS
    pending     \* an admin request has committed a change and has not yet
                \* dropped the cached rows

facts == <<site, link, ready, listed, maxViews, life>>
linkVars == <<facts, compat, pending>>

LinkStatus == {"ACTIVE", "DISABLED", "REVOKED"}

LinkTypeOK ==
    /\ site \in BOOLEAN
    /\ link \in LinkStatus
    /\ ready \subseteq Videos
    /\ listed \subseteq Videos
    /\ maxViews \in (Nat \ {0}) \cup {None}
    /\ life \in Nat \cup {None}
    /\ compat \in BOOLEAN
    /\ pending \in BOOLEAN

\* A link just created: createShareLink requires READY, assigned videos.
LinkInit ==
    /\ site = TRUE
    /\ link = "ACTIVE"
    /\ ready = Videos
    /\ listed = Videos
    /\ \E t \in Terms : life = t[1] /\ maxViews = t[2]
    /\ compat \in BOOLEAN
    /\ pending = FALSE

-----------------------------------------------------------------------------

\* The videos a resolution of the link may show.
Playable == ready \cap listed

Expired == life # None /\ life = 0

\* What is asked of a link wherever it is used, besides its view budget.
LinkAdmits == link = "ACTIVE" /\ ~Expired

\* Mutant: an entry may be kept for a link about to expire.
MayCacheUpToExpiry(status, ttl) == status = "ACTIVE" /\ maxViews = None

\* Mutant: an entry may be kept for a link with a view budget.
MayCacheBudgeted(status, ttl) == status = "ACTIVE" /\ (life = None \/ life > ttl)

\* canCachePublicWatchShareLink, of a row read with that status.
MayCache(status, ttl) ==
    /\ status = "ACTIVE"
    /\ maxViews = None
    /\ life = None \/ life > ttl

-----------------------------------------------------------------------------
(* Every change of the rows that an administrator can bring about.  A       *)
(* revocation is final (ShareLinkLifecycle says on which engines).          *)

ChangeSite == site' = ~site /\ UNCHANGED <<link, ready, listed>>

ChangeLink ==
    /\ link # "REVOKED"
    /\ link' \in LinkStatus \ {link}
    /\ UNCHANGED <<site, ready, listed>>

ChangeReady(v) ==
    /\ ready' = IF v \in ready THEN ready \ {v} ELSE ready \cup {v}
    /\ UNCHANGED <<site, link, listed>>

ChangeListed(v) ==
    /\ listed' = IF v \in listed THEN listed \ {v} ELSE listed \cup {v}
    /\ UNCHANGED <<site, link, ready>>

ChangeRows ==
    /\ \/ ChangeSite
       \/ ChangeLink
       \/ \E v \in Videos : ChangeReady(v) \/ ChangeListed(v)
    /\ UNCHANGED <<maxViews, life, compat>>

\* Seconds left, one second later; a credential that has run out stays out.
OneLess(n) == IF n = None \/ n = -1 THEN n ELSE n - 1
LifeOneLess(n) == IF n = None \/ n = 0 THEN n ELSE n - 1

Least(a, b) == IF b = None \/ (a # None /\ a <= b) THEN a ELSE b
=============================================================================
