---------------------------- MODULE CompanyLogos ----------------------------
(***************************************************************************)
(* A company's own domain and its logo.  Scans bring signals for the       *)
(* domain, an admin may set either by hand, and a sync looks logos up for  *)
(* up to two minutes on rows it read before, stores them as it goes and    *)
(* commits at its end.  A logo is served twice over: by the key on the row *)
(* and at the company's stable alias, which the static pages point at.     *)
(* Platform domains are left out: they are no domain at all.               *)
(***************************************************************************)
EXTENDS Naturals, FiniteSets

CONSTANTS
    Companies,
    Domains,          \* registrable domains that are on no list of platforms
    NoDomain,
    NoCompany,
    SharedLimit       \* SHARED_DOMAIN_COMPANY_LIMIT

ASSUME CompanyLogosAssumption ==
    /\ NoDomain \notin Domains /\ NoCompany \notin Companies
    /\ SharedLimit \in Nat \ {0}

VARIABLES
    row,              \* the company's row
    alias,            \* what is stored at the company's alias
    sync,             \* the sync, as one of its companies meets it
    placeholder,      \* a company without a logo on a page being published
    doubt             \* history: companies an admin or a scan changed while the sync, or
                      \* a page, held what it read, or whose object outlived its commit

logoVars == <<row, alias, sync, placeholder, doubt>>

\* A logo.dev logo is named for the domain it was looked up by.
Pinned == "pinned"
NoLogo == "none"
Logos == Domains \union {Pinned, NoLogo}

DomainSources == {"none", "shared", "site_host", "logo_dev", "jsonld", "manual"}

\* _SOURCE_RANK
Rank(source) ==
    CASE source \in {"none", "shared"} -> 0
      [] source = "site_host" -> 1
      [] source = "logo_dev" -> 2
      [] source = "jsonld" -> 3
      [] source = "manual" -> 4

CompanyRow == [domain : Domains \union {NoDomain}, source : DomainSources, logo : Logos,
        origin : {"none", "logo_dev", "pinned"}, status : {"untried", "ok", "none", "error"}]

Unresolved == [domain |-> NoDomain, source |-> "none", logo |-> NoLogo, origin |-> "none",
               status |-> "untried"]

IdleSync == [phase |-> "idle"]

LogosTypeOK ==
    /\ row \in [Companies -> CompanyRow]
    /\ alias \in [Companies -> Logos \union {"absent"}]
    /\ sync \in {IdleSync} \union [phase : {"looking"}, company : Companies, read : CompanyRow]
               \union [phase : {"stored"}, company : Companies, read : CompanyRow, new : CompanyRow, put : BOOLEAN]
    /\ placeholder \in Companies \union {NoCompany}
    /\ doubt \subseteq Companies

LogosInit ==
    /\ row = [c \in Companies |-> Unresolved]
    /\ alias = [c \in Companies |-> "absent"]
    /\ sync = IdleSync /\ placeholder = NoCompany /\ doubt = {}

-----------------------------------------------------------------------------
(* The domain.                                                             *)

\* usable_domain
Usable(r) == r.source \notin {"none", "shared"} /\ r.domain # NoDomain

\* _clear_automatic_logo
Cleared(r) ==
    IF r.origin = "pinned" THEN r
    ELSE [r EXCEPT !.logo = NoLogo, !.origin = "none", !.status = "untried"]

\* hiring_org_url, and the host of a page or a board: none, where it is a
\* platform's.
Signals == Domains \union {NoDomain}

\* Mutant: an evicted company keeps the logo of the host it lost.
EvictedWithLogo(rows, d) ==
    [o \in Companies |-> IF rows[o].domain = d /\ rows[o].source = "site_host"
                         THEN [rows[o] EXCEPT !.source = "shared"] ELSE rows[o]]

\* _evict_shared_site_host
Evicted(rows, d) ==
    [o \in Companies |-> IF rows[o].domain = d /\ rows[o].source = "site_host"
                         THEN Cleared([rows[o] EXCEPT !.source = "shared"]) ELSE rows[o]]

\* _shared_by_others
SharedByOthers(rows, d, c) ==
    Cardinality({o \in Companies \ {c} : rows[o].domain = d /\ rows[o].source \in {"site_host", "shared"}})
        >= SharedLimit

\* One round of resolve_company's loop over the candidates.
Consider(c, st, candidate) ==
    LET r == st.rows[c]
        d == candidate.domain
    IN  IF st.done \/ Rank(candidate.source) < Rank(r.source) THEN [st EXCEPT !.done = TRUE]
        ELSE IF d = NoDomain THEN st
        ELSE IF SharedByOthers(st.rows, d, c)
        THEN IF candidate.source = "site_host" THEN [st EXCEPT !.rows = Evicted(st.rows, d)] ELSE st
        ELSE IF d = r.domain
        THEN [rows |-> [st.rows EXCEPT ![c].source = candidate.source], done |-> TRUE]
        ELSE IF Rank(candidate.source) = Rank(r.source) /\ r.domain # NoDomain THEN st
        ELSE [rows |-> [st.rows EXCEPT ![c] =
                           Cleared([@ EXCEPT !.domain = d, !.source = candidate.source])],
              done |-> TRUE]

Resolved(c, org, page, board) ==
    LET host(st, d) == Consider(c, st, [source |-> "site_host", domain |-> d])
    IN  host(host(Consider(c, [rows |-> row, done |-> FALSE], [source |-> "jsonld", domain |-> org]),
                  page), board).rows

\* A row whose automatic logo is cleared is tried again, whatever was in doubt.
StillInDoubt == {c \in doubt : row'[c].status # "untried" \/ row'[c].origin # "none"}

\* The site a page names, the page's own host and its board's, if that is
\* another.
Seen ==
    {s \in [org : Signals, page : Signals, board : Signals] :
        s.board # NoDomain => s.page \notin {NoDomain, s.board}}

\* resolve_company, at the end of a scan.
ScanCompany(c) ==
    /\ \E rows \in {Resolved(c, s.org, s.page, s.board) : s \in Seen} : row' = rows
    /\ doubt' = StillInDoubt
    /\ UNCHANGED <<alias, sync, placeholder>>

\* set_manual_domain
SetManualDomain(c, d) ==
    /\ row' = [row EXCEPT ![c] = [(IF d = @.domain THEN @ ELSE Cleared(@))
                                  EXCEPT !.domain = d, !.source = IF d = NoDomain THEN "none" ELSE "manual"]]
    /\ doubt' = StillInDoubt
    /\ UNCHANGED <<alias, sync, placeholder>>

-----------------------------------------------------------------------------
(* The logo, by hand.  The alias is written first and the row committed at *)
(* the request's end, if it gets there.                                    *)

\* store_logo, or write_logo_alias, and the request's commit.
AdminStores(c, r, commits) ==
    /\ alias' = [alias EXCEPT ![c] = r.logo]
    /\ row' = IF commits THEN [row EXCEPT ![c] = r] ELSE row
    /\ doubt' = IF commits THEN doubt \ {c} ELSE doubt \union {c}
    /\ UNCHANGED <<sync, placeholder>>

SetManualLogo(c, commits) ==
    AdminStores(c, [row[c] EXCEPT !.logo = Pinned, !.origin = "pinned"], commits)

ClearManualLogo(c, commits) ==
    AdminStores(c, [row[c] EXCEPT !.logo = NoLogo, !.origin = "none", !.status = "untried"], commits)

-----------------------------------------------------------------------------
(* The sync.  A logo found or missed falls due again with time, so any row *)
(* without a pinned logo may be.                                           *)

\* Mutant: pinned logos are looked up again too.
DueAnyOrigin(c) == c \in Companies

Due(c) == row[c].origin # "pinned"

SyncReads(c) ==
    /\ sync.phase = "idle" /\ placeholder = NoCompany /\ Due(c)
    /\ sync' = [phase |-> "looking", company |-> c, read |-> row[c]]
    /\ UNCHANGED <<row, alias, placeholder, doubt>>

\* Out of time, still being indexed, or over the rate: left for the next run.
LookUpLater ==
    /\ sync.phase = "looking"
    /\ sync' = IdleSync
    /\ UNCHANGED <<row, alias, placeholder, doubt>>

\* What find_domain's name search gives a company that has no usable domain.
WithDomain(r, found) == [r EXCEPT !.domain = found, !.source = "logo_dev"]

\* Mutant: the alias keeps the old logo when there is none any more.
FoundNoneSilently(r) == [new |-> [r EXCEPT !.logo = NoLogo, !.origin = "none", !.status = "none"],
                         put |-> FALSE]

\* STATUS_NONE: nothing under this domain, or no domain to be found.
FoundNone(r) == [new |-> [r EXCEPT !.logo = NoLogo, !.origin = "none", !.status = "none"], put |-> TRUE]

\* STATUS_OK: fetched, normalized and stored.
FoundLogo(r) == [new |-> [r EXCEPT !.logo = r.domain, !.origin = "logo_dev", !.status = "ok"], put |-> TRUE]

\* STATUS_UNCHANGED: the etag is that of the logo the row has.
FoundSame(r) == [new |-> [r EXCEPT !.status = "ok"], put |-> FALSE]

\* STATUS_ERROR keeps whatever logo was there.
FoundError(r) == [new |-> [r EXCEPT !.status = "error"], put |-> FALSE]

\* fetch_logo
FetchLogo(r) ==
    {FoundLogo(r), FoundNone(r), FoundError(r)}
      \union (IF r.origin = "logo_dev" /\ r.logo = r.domain THEN {FoundSame(r)} ELSE {})

\* _lookup, and what is kept of it: a logo under the domain of the row as it
\* was read, or under one the name search finds.
Lookups(r) ==
    IF Usable(r) THEN FetchLogo(r)
    ELSE {FoundNone(r), FoundError(r)} \union UNION {FetchLogo(WithDomain(r, d)) : d \in Domains}

SyncStores(outcome) ==
    LET c == sync.company
    IN  /\ sync' = [phase |-> "stored", company |-> c, read |-> sync.read,
                    new |-> outcome.new, put |-> outcome.put]
        /\ alias' = IF outcome.put THEN [alias EXCEPT ![c] = outcome.new.logo] ELSE alias
        /\ UNCHANGED <<row, placeholder, doubt>>

\* The columns that differ from what was read, over whatever is there now.
WrittenBack(read, new, now) == [f \in DOMAIN now |-> IF new[f] # read[f] THEN new[f] ELSE now[f]]

SyncCommits ==
    LET c == sync.company
    IN  /\ sync.phase = "stored"
        /\ row' = [row EXCEPT ![c] = WrittenBack(sync.read, sync.new, @)]
        /\ doubt' = IF row[c] # sync.read \/ (sync.put /\ alias[c] # sync.new.logo)
                    THEN doubt \union {c}
                    ELSE IF sync.put THEN doubt \ {c} ELSE doubt
        /\ sync' = IdleSync
        /\ UNCHANGED <<alias, placeholder>>

\* The run dies, or its one commit fails: what it stored stays.
SyncFails ==
    /\ sync.phase = "stored"
    /\ sync' = IdleSync
    /\ doubt' = IF sync.put THEN doubt \union {sync.company} ELSE doubt
    /\ UNCHANGED <<row, alias, placeholder>>

-----------------------------------------------------------------------------
(* The job pages, which the same execution publishes after the sync.       *)

\* load_job_pages finds a company without a logo ...
PageReads(c) ==
    /\ sync.phase = "idle" /\ placeholder = NoCompany /\ row[c].logo = NoLogo
    /\ placeholder' = c
    /\ UNCHANGED <<row, alias, sync, doubt>>

\* ... and publish writes the placeholder at its alias.
PageWrites ==
    /\ placeholder # NoCompany
    /\ alias' = [alias EXCEPT ![placeholder] = NoLogo]
    /\ doubt' = IF row[placeholder].logo # NoLogo THEN doubt \union {placeholder} ELSE doubt
    /\ placeholder' = NoCompany
    /\ UNCHANGED <<row, sync>>

AdminStep ==
    \/ \E c \in Companies, d \in Domains \union {NoDomain} : SetManualDomain(c, d)
    \/ \E c \in Companies, commits \in BOOLEAN : SetManualLogo(c, commits) \/ ClearManualLogo(c, commits)

LogosNext ==
    \/ \E c \in Companies : ScanCompany(c)
    \/ AdminStep
    \/ \E c \in Companies : SyncReads(c) \/ PageReads(c)
    \/ LookUpLater
    \/ sync.phase = "looking" /\ \E outcome \in Lookups(sync.read) : SyncStores(outcome)
    \/ SyncCommits \/ SyncFails \/ PageWrites

LogosSpec == LogosInit /\ [][LogosNext]_logoVars

-----------------------------------------------------------------------------
(* Properties.                                                             *)

\* The logo shown is the company's own: an automatic one is that of the domain
\* the row has now, never of one it lost, and the alias shows what the row
\* has, unless the sync is to look again shortly; so it stays, through scans,
\* evictions, admins and syncs that fail, for a company whose row did not
\* change under a sync or a page being published.
ShownLogoIsRight ==
    \A c \in Companies \ doubt :
        LET r == row[c]
            storing == sync.phase = "stored" /\ sync.company = c
        IN  /\ r.origin = "logo_dev" => Usable(r) /\ r.logo = r.domain
            /\ r.origin = "pinned" \/ r.status \in {"ok", "none"} => storing \/ alias[c] = r.logo

\* Nothing automatic overwrites a domain or a logo an admin set, except a sync
\* that read the row before.
ManualStands ==
    [][\A c \in Companies :
          \/ /\ row[c].source = "manual" => row'[c].source = "manual" /\ row'[c].domain = row[c].domain
             /\ row[c].origin = "pinned" => row'[c].origin = "pinned" /\ row'[c].logo = row[c].logo
          \/ c \in doubt'
          \/ AdminStep]_logoVars

\* A host found to be shared is no company's site again: claims on it keep
\* being refused (the comment on SOURCE_SHARED).
SharedIsRefused ==
    [][\A c \in Companies :
          row[c].source = "shared" /\ row'[c].domain = row[c].domain => row'[c].source # "site_host"]_logoVars
=============================================================================
