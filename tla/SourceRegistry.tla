--------------------------- MODULE SourceRegistry ---------------------------
(***************************************************************************)
(* The crawl sources: how the scan of a submitted URL, the official-site   *)
(* finder and admins register boards, and how a source gets its name.  One *)
(* adapter, one company's board; its pages are met under several URLs.     *)
(* A scan's transaction lasts from the lookup of its source to the end of  *)
(* the scan; what it registers is seen by others then.                     *)
(***************************************************************************)
EXTENDS Integers, FiniteSets

CONSTANTS
    BoardAdapters,       \* how they tell boards, see BoardKeys.tla
    MaxSources,          \* sources there are at a time
    Registrars           \* scan lanes and finder runs

Adapter == [text : {"none", "spelled", "folded", "host"}, when : {"any", "board"},
            behind : {"none", "slug", "asked", "landing"},
            again : {"text", "host", "fetch", "text, fetch"}, canonical : BOOLEAN]

ASSUME RegistryAssumption == MaxSources \in Nat /\ BoardAdapters \subseteq Adapter

BySlug(adapter) == adapter.text \in {"spelled", "folded"} \/ adapter.behind = "slug"
ByHost(adapter) == adapter.text = "host" \/ adapter.behind \in {"asked", "landing"}

\* An adapter that stores what is submitted reads of it, again, the kind of
\* key it was found by.
ASSUME ReadAgainAssumption ==
    \A adapter \in BoardAdapters : ~adapter.canonical =>
        /\ ~(BySlug(adapter) /\ ByHost(adapter))
        /\ adapter.again = "text" => adapter.behind = "none"
        /\ adapter.again = "host" => ~BySlug(adapter)
        /\ adapter.again = "fetch" => adapter.behind # "none"

VARIABLES
    keyed,         \* the adapter's record
    source,        \* source[i]: a row of crawl_sources, or NoSource
    registering,   \* what each registrar has looked up
    confirming     \* a PATCH that sets a name, or nothing

registryVars == <<keyed, source, registering, confirming>>

SourceIds == 1 .. MaxSources

\* The board's own host, the company's, or one that redirects there.  odd:
\* the slug in other capitals.  A site we do not know is stored as "site".
BoardUrl ==
    {[host |-> h, odd |-> o, page |-> p] :
        h \in {"board", "company", "door"}, o \in BOOLEAN, p \in {"board", "job", "site"}}

\* The URLs people submit.  That a host redirects matters to adapters that
\* follow it.
Submitted ==
    {u \in BoardUrl : /\ u.page # "site"
                      /\ u.odd => u.host = "board"
                      /\ keyed.text = "none" => u.host # "board"
                      /\ keyed.behind # "landing" => u.host # "door"}

NoSource == [url |-> "none"]
NoKeyRead == <<"none", "none">>
NothingHeld == [does |-> "nothing"]

There(i) == source[i] # NoSource

\* label: made of the slug or host; page: of a job page; company: the
\* finder's; typed: an admin's.
SourceNames == {"label", "page", "company", "typed"}

\* known: ats_type is set.  by, unsure, confirmed, met are history: who gave
\* the URL; whether it was registered beside another one, or while the page
\* of a stored URL could not be read; the name an admin set, and whether a
\* finder or a scan was writing a name at that moment.
SourceRow ==
    [url : BoardUrl, known : BOOLEAN, status : {"active", "pending"},
     name : SourceNames, from : {"placeholder", "auto", "manual"},
     by : {"submission", "admin"}, unsure : BOOLEAN,
     confirmed : SourceNames \union {"nothing"}, met : BOOLEAN]

\* No two sources have one URL, and what is crawled is of a known platform.
RegistryTypeOK ==
    /\ keyed \in BoardAdapters
    /\ source \in [SourceIds -> SourceRow \union {NoSource}]
    /\ \A i, j \in SourceIds : There(i) /\ There(j) /\ i # j => source[i].url # source[j].url
    /\ \A i \in SourceIds : There(i) /\ source[i].status = "active" => source[i].known

RegistryInit ==
    /\ keyed \in BoardAdapters
    /\ source = [i \in SourceIds |-> NoSource]
    /\ registering = [q \in Registrars |-> NothingHeld]
    /\ confirming = NothingHeld

-----------------------------------------------------------------------------
(* Keys.                                                                   *)

\* detect_ats_source: what `match' reads.
TextKey(u) ==
    IF u.host # "board" \/ keyed.text = "none" \/ (keyed.when = "board" /\ u.page = "job")
    THEN NoKeyRead
    ELSE IF keyed.text = "host" THEN <<"host", "board">>
    ELSE <<"slug", IF keyed.text = "spelled" /\ u.odd THEN "odd" ELSE "even">>

\* detect_embedded_ats_source, when the page can be read.  A board whose job
\* pages only hold its slug is not behind other sites.
BehindKey(u) ==
    CASE keyed.behind = "none" -> NoKeyRead
      [] keyed.behind = "slug" ->
           IF keyed.when = "board" /\ u.host # "board" THEN NoKeyRead ELSE <<"slug", "even">>
      [] keyed.behind = "asked" -> <<"host", u.host>>
      [] keyed.behind = "landing" -> <<"host", IF u.host = "door" THEN "company" ELSE u.host>>

Detected(u, read) ==
    CASE TextKey(u) # NoKeyRead -> TextKey(u)
      [] TextKey(u) = NoKeyRead /\ read -> BehindKey(u)
      [] OTHER -> NoKeyRead

\* board_key_for, of a stored URL.
AgainKey(u, read) ==
    CASE keyed.again = "text" -> TextKey(u)
      [] keyed.again = "host" -> <<"host", u.host>>
      [] keyed.again = "fetch" -> IF read THEN BehindKey(u) ELSE NoKeyRead
      [] keyed.again = "text, fetch" -> Detected(u, read)

\* board_url_for_key.
StoredUrl(key, u) ==
    IF ~keyed.canonical THEN u
    ELSE [host |-> IF key[1] = "host" THEN key[2] ELSE "board",
          odd |-> key = <<"slug", "odd">>, page |-> "board"]

\* The site of an unknown platform.
SiteUrl(u) == [host |-> u.host, odd |-> FALSE, page |-> "site"]

WithUrl(url) == {i \in SourceIds : There(i) /\ source[i].url = url}

\* Mutant: only the text of the URL is looked at.
SameBoardText(key, url, read) == WithUrl(url)

\* _find_existing_board.
SameBoard(key, url, read) ==
    IF WithUrl(url) # {} \/ key = NoKeyRead THEN WithUrl(url)
    ELSE {i \in SourceIds : There(i) /\ source[i].known /\ AgainKey(source[i].url, read) = key}

-----------------------------------------------------------------------------
(* Names.                                                                  *)

Placeholder(row) == row.from = "placeholder"

IsOfficialSource(row) == row.status = "active"

Promoted(row) == [row EXCEPT !.name = "page", !.from = "auto"]

\* Mutant: what was read decides.
PromoteAsRead(row, wasPlaceholder) == IF wasPlaceholder THEN Promoted(row) ELSE row

\* promote_placeholder: only while the name is a placeholder still.
Promote(row, wasPlaceholder) ==
    IF wasPlaceholder /\ Placeholder(row) THEN Promoted(row) ELSE row

Confirming(i) == confirming # NothingHeld /\ confirming.row = i

\* A name is written to a row: an admin who is confirming one has met it.
Written(i, row) == IF row # source[i] /\ Confirming(i) THEN [row EXCEPT !.met = TRUE] ELSE row

-----------------------------------------------------------------------------
(* Scans and the finder.                                                   *)

NewRow(url, key, status, unsure) ==
    [url |-> url, known |-> key # NoKeyRead, status |-> status,
     name |-> "label", from |-> "placeholder", by |-> "submission", unsure |-> unsure,
     confirmed |-> "nothing", met |-> FALSE]

\* What a registrar can find for a URL: its board's row, or none.
Found(does, u, read, reread) ==
    LET key    == Detected(u, read)
        url    == IF key = NoKeyRead THEN SiteUrl(u) ELSE StoredUrl(key, u)
        rows   == SameBoard(key, url, reread)
        beside == \E o \in Registrars : registering[o] # NothingHeld /\ registering[o].row = 0
        blind  == keyed.again \in {"fetch", "text, fetch"} /\ ~reread
    IN  {[does |-> does, row |-> i, key |-> key, url |-> url,
          placeholder |-> i = 0 \/ Placeholder(source[i]),
          official |-> IF i = 0 THEN key # NoKeyRead ELSE IsOfficialSource(source[i]),
          unsure |-> blind \/ (beside /\ ~keyed.canonical)] : i \in IF rows = {} THEN {0} ELSE rows}

Hold(q, found) ==
    /\ registering[q] = NothingHeld
    /\ \E r \in found : registering' = [registering EXCEPT ![q] = r]
    /\ UNCHANGED <<keyed, source, confirming>>

\* process_scan, of a URL without a source.  The page behind it, or behind a
\* stored one, may not be there to read.
SubmitUrl(q) ==
    Hold(q, UNION {Found("scan", u, read, reread) : u \in Submitted, read, reread \in BOOLEAN})

\* official_sites.run: only what `match' knows is taken for a board.
FindBoard(q) ==
    Hold(q, UNION {Found("find", u, TRUE, reread) :
                     u \in {v \in Submitted : TextKey(v) # NoKeyRead}, reread \in BOOLEAN})

\* process_scan, of a source's URL.
ScanSource(q, i) ==
    /\ There(i)
    /\ Hold(q, {[does |-> "scan", row |-> i, key |-> NoKeyRead, url |-> source[i].url,
                 placeholder |-> Placeholder(source[i]), official |-> IsOfficialSource(source[i]),
                 unsure |-> FALSE]})

\* The transaction writes a row and ends.
Conclude(q, i, row) ==
    /\ source' = [source EXCEPT ![i] = row]
    /\ registering' = [registering EXCEPT ![q] = NothingHeld]
    /\ UNCHANGED <<keyed, confirming>>

\* What a registrar does to a row it registered, or found: a scan whose page
\* names the company may promote the name, the finder gives the company's.
Named(does, row, wasPlaceholder, wasOfficial) ==
    IF does = "find"
    THEN {IF wasPlaceholder THEN [row EXCEPT !.name = "company", !.from = "auto"] ELSE row}
    ELSE IF wasOfficial THEN {row, Promote(row, wasPlaceholder)} ELSE {row}

\* The source was there at the lookup.
ConcludeFound(q) ==
    LET r == registering[q]
    IN  /\ r # NothingHeld /\ r.row # 0
        /\ \E row \in Named(r.does, source[r.row], r.placeholder, r.official) :
              Conclude(q, r.row, Written(r.row, row))

\* _upsert: the row is inserted, unless one with its URL is there by now.
ConcludeNew(q) ==
    LET r == registering[q]
        new == NewRow(r.url, r.key, IF r.key # NoKeyRead /\ r.does = "scan" THEN "active" ELSE "pending",
                      r.unsure)
    IN  /\ r # NothingHeld /\ r.row = 0
        /\ \/ /\ WithUrl(r.url) = {}
              /\ \E i \in SourceIds :
                    /\ ~There(i) /\ \A j \in 1 .. i - 1 : There(j)
                    /\ \E row \in Named(r.does, new, TRUE, IsOfficialSource(new)) : Conclude(q, i, row)
           \/ \E i \in WithUrl(r.url) :
                 \E row \in Named(r.does, source[i], Placeholder(source[i]), IsOfficialSource(source[i])) :
                     Conclude(q, i, Written(i, row))

\* The scan fails.
AbandonRegistering(q) ==
    /\ registering[q] # NothingHeld
    /\ registering' = [registering EXCEPT ![q] = NothingHeld]
    /\ UNCHANGED <<keyed, source, confirming>>

-----------------------------------------------------------------------------
(* Admins.                                                                 *)

\* create_crawl_source, which refuses what it cannot detect.
CreateSource(i) ==
    \E u \in Submitted :
        /\ ~There(i) /\ \A j \in 1 .. i - 1 : There(j)
        /\ WithUrl(u) = {} /\ Detected(u, TRUE) # NoKeyRead
        /\ source' = [source EXCEPT ![i] =
              [NewRow(u, Detected(u, TRUE), "active", FALSE) EXCEPT
                  !.name = "typed", !.from = "manual", !.by = "admin", !.confirmed = "typed"]]
        /\ UNCHANGED <<keyed, registering, confirming>>

\* update_crawl_source: another URL of the board, or the same for a row
\* whose platform was not known; it may be set active with it.
ResolveSource(i) ==
    \E u \in Submitted, status \in {"active", "pending"} :
        /\ There(i) /\ (source[i].url # u \/ ~source[i].known)
        /\ Detected(u, TRUE) # NoKeyRead /\ WithUrl(u) \ {i} = {}
        /\ source' = [source EXCEPT ![i].url = u, ![i].known = TRUE, ![i].status = status,
                                    ![i].by = "admin"]
        /\ UNCHANGED <<keyed, registering, confirming>>

SetSourceStatus(i, status) ==
    /\ There(i) /\ source[i].status # status
    /\ status = "active" => source[i].known
    /\ source' = [source EXCEPT ![i].status = status]
    /\ UNCHANGED <<keyed, registering, confirming>>

\* update_crawl_source, with a name: the row is read.
BeginConfirm(i) ==
    /\ There(i) /\ confirming = NothingHeld
    /\ \E name \in {"typed", source[i].name} :
          confirming' = [row |-> i, name |-> name, was |-> source[i].name, from |-> source[i].from]
    /\ UNCHANGED <<keyed, source, registering>>

\* The columns that differ from what was read are written.
CommitConfirm ==
    LET i == confirming.row
        found == \E q \in Registrars : /\ registering[q] # NothingHeld
                                       /\ registering[q].row = i /\ registering[q].does = "find"
    IN  /\ confirming # NothingHeld
        /\ source' = [source EXCEPT
                  ![i].name = IF confirming.name # confirming.was THEN confirming.name ELSE @,
                  ![i].from = IF confirming.from # "manual" THEN "manual" ELSE @,
                  ![i].confirmed = confirming.name,
                  ![i].met = @ \/ found]
        /\ confirming' = NothingHeld
        /\ UNCHANGED <<keyed, registering>>

\* delete_crawl_source.  What holds the row fails.
RemoveSource(i) ==
    /\ There(i)
    /\ source' = [source EXCEPT ![i] = NoSource]
    /\ registering' = [q \in Registrars |->
          IF registering[q] # NothingHeld /\ registering[q].row = i THEN NothingHeld ELSE registering[q]]
    /\ confirming' = IF Confirming(i) THEN NothingHeld ELSE confirming
    /\ UNCHANGED keyed

RegistryNext ==
    \/ \E q \in Registrars : SubmitUrl(q) \/ FindBoard(q)
    \/ \E q \in Registrars, i \in SourceIds : ScanSource(q, i)
    \/ \E q \in Registrars : ConcludeFound(q) \/ ConcludeNew(q) \/ AbandonRegistering(q)
    \/ \E i \in SourceIds : CreateSource(i) \/ ResolveSource(i) \/ BeginConfirm(i) \/ RemoveSource(i)
    \/ \E i \in SourceIds, status \in {"active", "pending"} : SetSourceStatus(i, status)
    \/ CommitConfirm

RegistrySpec == RegistryInit /\ [][RegistryNext]_registryVars

-----------------------------------------------------------------------------
(* Properties.                                                             *)

\* Slugs the adapter tells apart although they may be one board's.
SpelledApart(u, v) == keyed.text = "spelled" /\ (u.odd \/ v.odd)

\* Hosts an adapter takes for boards of their own; behind a redirect it
\* reads one host of the page and another of the stored URL.
HostsApart(u, v) ==
    /\ keyed.text = "host" \/ keyed.behind \in {"asked", "landing"}
    /\ u.host # v.host \/ (keyed.again = "host" /\ keyed.behind = "landing" /\ "door" \in {u.host, v.host})

\* Whatever URLs of a board are submitted, in whatever order, they become
\* one source, unless an admin typed one of them, two were registered at
\* once and are stored as they are, or a stored one could not be read again.
OneSourcePerBoard ==
    \A i, j \in SourceIds : i # j /\ There(i) /\ There(j) =>
        LET r == source[i]
            s == source[j]
        IN  r.known /\ s.known /\ r.by = "submission" /\ s.by = "submission" =>
                r.unsure \/ s.unsure \/ SpelledApart(r.url, s.url) \/ HostsApart(r.url, s.url)

\* A name an admin confirmed stands, whichever scans have read the source
\* before, unless a name was being written while it was confirmed.
ConfirmedNameStands ==
    \A i \in SourceIds : There(i) /\ source[i].confirmed # "nothing" /\ ~source[i].met =>
        source[i].name = source[i].confirmed /\ source[i].from = "manual"
=============================================================================
