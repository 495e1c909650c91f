-------------------------- MODULE Companies_proofs --------------------------
EXTENDS SourceRegistry, CompanyLogos,
        TLAPS

-----------------------------------------------------------------------------
\* SourceRegistry: registered crawl sources.

Keys == {NoKeyRead} \union ({"slug"} \X {"odd", "even"}) \union ({"host"} \X {"board", "company", "door"})

Held == [does : {"scan", "find"}, row : SourceIds \union {0}, key : Keys, url : BoardUrl,
         placeholder : BOOLEAN, official : BOOLEAN, unsure : BOOLEAN]

Confirmation == [row : SourceIds, name : SourceNames, was : SourceNames,
                 from : {"placeholder", "auto", "manual"}]

HoldersTypeOK ==
    /\ registering \in [Registrars -> Held \union {NothingHeld}]
    /\ confirming \in Confirmation \union {NothingHeld}

NameStands(record) ==
    record.confirmed # "nothing" /\ ~record.met => record.name = record.confirmed /\ record.from = "manual"

\* A finder that takes a name for a placeholder has met the admin who
\* confirmed it since.
FinderMet(r, record) == r.does = "find" /\ r.placeholder => record.confirmed = "nothing" \/ record.met

\* What an admin has read of a row is still its name, or the row is met.
ReadStill(c, record) == record.met \/ (record.name = c.was /\ record.from = c.from)

HolderKnows(q) ==
    registering[q] # NothingHeld /\ registering[q].row # 0 =>
        There(registering[q].row) /\ FinderMet(registering[q], source[registering[q].row])

AdminKnows ==
    confirming # NothingHeld => There(confirming.row) /\ ReadStill(confirming, source[confirming.row])

RegistryInv ==
    /\ RegistryTypeOK /\ HoldersTypeOK
    /\ \A i \in SourceIds : There(i) => NameStands(source[i])
    /\ \A q \in Registrars : HolderKnows(q)
    /\ AdminKnows

LEMMA RegistryBasics ==
    /\ NothingHeld \notin Held /\ NothingHeld \notin Confirmation /\ NoSource \notin SourceRow
    /\ \A r \in Held : r # NothingHeld
    /\ \A c \in Confirmation : c # NothingHeld
    /\ \A record \in SourceRow : record # NoSource
    /\ 0 \notin SourceIds
<1>1. NothingHeld.does = "nothing"
  BY DEF NothingHeld
<1>2. \A r \in Held : r.does \in {"scan", "find"}
  BY DEF Held
<1>3. \A r \in Held : r # NothingHeld
  BY <1>1, <1>2
<1>4. \A c \in Confirmation : DOMAIN c = {"row", "name", "was", "from"}
  BY DEF Confirmation
<1>5. DOMAIN NothingHeld = {"does"}
  BY DEF NothingHeld
<1>6. \A c \in Confirmation : c # NothingHeld
  BY <1>4, <1>5
<1>10. \A record \in SourceRow : record # NoSource
  <2>1. DOMAIN NoSource = {"url"}
    BY DEF NoSource
  <2>2. \A record \in SourceRow : DOMAIN record = {"url", "known", "status", "name", "from", "by", "unsure", "confirmed", "met"}
    BY DEF SourceRow
  <2> QED
    BY <2>1, <2>2
<1>11. 0 \notin SourceIds
  BY RegistryAssumption DEF SourceIds
<1> QED
  BY <1>3, <1>6, <1>10, <1>11


LEMMA UrlTyped ==
    ASSUME NEW u \in BoardUrl
    PROVE  u.host \in {"board", "company", "door"} /\ u.odd \in BOOLEAN
BY DEF BoardUrl

\* The keys an adapter reads, and the URLs it stores, are of their types.
LEMMA KeysTyped ==
    ASSUME keyed \in BoardAdapters, NEW u \in BoardUrl, NEW read \in BOOLEAN
    PROVE  /\ TextKey(u) \in Keys /\ Detected(u, read) \in Keys
           /\ SiteUrl(u) \in BoardUrl
           /\ \A key \in Keys : StoredUrl(key, u) \in BoardUrl
<1>1. u.host \in {"board", "company", "door"} /\ u.odd \in BOOLEAN
  BY UrlTyped
<1>2. NoKeyRead \in Keys /\ (\A o \in {"odd", "even"} : <<"slug", o>> \in Keys)
      /\ \A h \in {"board", "company", "door"} : <<"host", h>> \in Keys
  BY DEF Keys
<1>3. TextKey(u) \in Keys
  BY <1>2 DEF TextKey
<1>4. \A h \in {"board", "company", "door"}, o \in BOOLEAN, p \in {"board", "site"} :
         [host |-> h, odd |-> o, page |-> p] \in BoardUrl
  BY DEF BoardUrl
<1>5. SiteUrl(u) \in BoardUrl
  BY <1>1, <1>4 DEF SiteUrl
<1>6. ASSUME NEW key \in Keys PROVE StoredUrl(key, u) \in BoardUrl
  <2>1. key[1] = "host" => key[2] \in {"board", "company", "door"}
    BY DEF Keys, NoKeyRead
  <2>2. (IF key[1] = "host" THEN key[2] ELSE "board") \in {"board", "company", "door"}
    BY <2>1
  <2> QED
    BY <1>4, <2>2 DEF StoredUrl
<1>7. BehindKey(u) \in Keys
  <2>1. keyed.behind \in {"none", "slug", "asked", "landing"}
    BY RegistryAssumption DEF Adapter
  <2>2. CASE keyed.behind = "none"
    BY <2>2, <1>2 DEF BehindKey
  <2>3. CASE keyed.behind = "slug"
    BY <2>3, <1>2 DEF BehindKey
  <2>4. CASE keyed.behind = "asked"
    BY <2>4, <1>1, <1>2 DEF BehindKey
  <2>5. CASE keyed.behind = "landing"
    BY <2>5, <1>1, <1>2 DEF BehindKey
  <2> QED
    BY <2>1, <2>2, <2>3, <2>4, <2>5
<1>8. Detected(u, read) \in Keys
  BY <1>2, <1>3, <1>7 DEF Detected
<1> QED
  BY <1>3, <1>5, <1>6, <1>8

\* What a registrar finds for a URL it holds.
LEMMA FoundHeld ==
    ASSUME RegistryTypeOK, NEW u \in BoardUrl, NEW does \in {"scan", "find"},
           NEW read \in BOOLEAN, NEW reread \in BOOLEAN, NEW r \in Found(does, u, read, reread)
    PROVE  /\ r \in Held /\ r.does = does
           /\ r.row # 0 => There(r.row) /\ (r.placeholder <=> Placeholder(source[r.row]))
<1> DEFINE key  == Detected(u, read)
           url  == IF key = NoKeyRead THEN SiteUrl(u) ELSE StoredUrl(key, u)
           rows == SameBoard(key, url, reread)
           beside == \E o \in Registrars : registering[o] # NothingHeld /\ registering[o].row = 0
           blind  == keyed.again \in {"fetch", "text, fetch"} /\ ~reread
<1>1. key \in Keys /\ url \in BoardUrl
  BY KeysTyped DEF RegistryTypeOK
<1>2. rows \subseteq {i \in SourceIds : There(i)}
  BY DEF SameBoard, WithUrl
<1> HIDE DEF key, url, rows
<1>3. PICK i \in (IF rows = {} THEN {0} ELSE rows) :
         r = [does |-> does, row |-> i, key |-> key, url |-> url,
              placeholder |-> i = 0 \/ Placeholder(source[i]),
              official |-> IF i = 0 THEN key # NoKeyRead ELSE IsOfficialSource(source[i]),
              unsure |-> blind \/ (beside /\ ~keyed.canonical)]
  BY DEF Found, key, url, rows
<1>4. i \in SourceIds \union {0} /\ (i # 0 => There(i))
  BY <1>2
<1> HIDE DEF beside, blind
<1>5. (i = 0 \/ Placeholder(source[i])) \in BOOLEAN
  OBVIOUS
<1>6. (IF i = 0 THEN key # NoKeyRead ELSE IsOfficialSource(source[i])) \in BOOLEAN
  BY DEF IsOfficialSource
<1>7. (blind \/ (beside /\ ~keyed.canonical)) \in BOOLEAN
  OBVIOUS
<1>8. r \in Held
  BY <1>1, <1>3, <1>4, <1>5, <1>6, <1>7 DEF Held
<1> QED
  BY <1>3, <1>4, <1>8

LEMMA RegistryInvInit == RegistryInit => RegistryInv
<1> SUFFICES ASSUME RegistryInit PROVE RegistryInv
  OBVIOUS
<1>1. \A i \in SourceIds : ~There(i)
  BY DEF RegistryInit, There
<1>2. RegistryTypeOK
  BY <1>1 DEF RegistryInit, RegistryTypeOK
<1>3. HoldersTypeOK
  BY DEF RegistryInit, HoldersTypeOK
<1>4. \A q \in Registrars : registering[q] = NothingHeld
  BY DEF RegistryInit
<1>5. confirming = NothingHeld
  BY DEF RegistryInit
<1> QED
  BY <1>1, <1>2, <1>3, <1>4, <1>5 DEF RegistryInv, HolderKnows, AdminKnows

\* One row is written, and a registrar or the admin may end with it.
LEMMA WriteKeeps ==
    ASSUME RegistryInv, NEW i \in SourceIds, NEW new \in SourceRow,
           source' = [source EXCEPT ![i] = new], keyed' = keyed,
           new.status = "active" => new.known,
           \A j \in SourceIds \ {i} : There(j) => source[j].url # new.url,
           registering' \in [Registrars -> Held \union {NothingHeld}],
           \A q \in Registrars : registering'[q] \in {registering[q], NothingHeld},
           confirming' \in {confirming, NothingHeld},
           NameStands(new),
           \A q \in Registrars : registering[q] # NothingHeld /\ registering[q].row = i =>
               FinderMet(registering[q], new),
           confirming' # NothingHeld /\ confirming.row = i => ReadStill(confirming, new)
    PROVE  RegistryInv'
<1>1. /\ source \in [SourceIds -> SourceRow \union {NoSource}]
      /\ confirming \in Confirmation \union {NothingHeld}
  BY DEF RegistryInv, RegistryTypeOK, HoldersTypeOK
<1>2. /\ source' \in [SourceIds -> SourceRow \union {NoSource}] /\ source'[i] = new
      /\ \A j \in SourceIds \ {i} : source'[j] = source[j]
  BY <1>1
<1>3. /\ There(i)' /\ \A j \in SourceIds \ {i} : There(j)' <=> There(j)
  BY <1>2, RegistryBasics DEF There
<1>4. RegistryTypeOK'
  BY <1>2, <1>3 DEF RegistryInv, RegistryTypeOK
<1>5. HoldersTypeOK'
  BY <1>1 DEF HoldersTypeOK
<1>6. \A j \in SourceIds : There(j)' => NameStands(source'[j])
  BY <1>2, <1>3 DEF RegistryInv
<1>7. ASSUME NEW q \in Registrars PROVE HolderKnows(q)'
  <2> SUFFICES ASSUME registering'[q] # NothingHeld, registering'[q].row # 0
               PROVE  /\ source'[registering'[q].row] # NoSource
                      /\ FinderMet(registering'[q], source'[registering'[q].row])
    BY DEF HolderKnows, There, FinderMet
  <2>1. /\ registering'[q] = registering[q] /\ There(registering[q].row)
        /\ FinderMet(registering[q], source[registering[q].row])
    BY DEF RegistryInv, HolderKnows
  <2>2. registering[q].row \in SourceIds
    BY <2>1 DEF RegistryInv, HoldersTypeOK, Held
  <2>3. CASE registering[q].row = i
    BY <2>1, <2>3, <1>2, RegistryBasics
  <2>4. CASE registering[q].row # i
    BY <2>1, <2>2, <2>4, <1>2 DEF There
  <2> QED
    BY <2>3, <2>4
<1>8. AdminKnows'
  <2> SUFFICES ASSUME confirming' # NothingHeld
               PROVE  /\ source'[confirming'.row] # NoSource
                      /\ ReadStill(confirming', source'[confirming'.row])
    BY DEF AdminKnows, There, ReadStill
  <2>1. confirming' = confirming /\ confirming \in Confirmation
    BY <1>1
  <2>2. There(confirming.row) /\ ReadStill(confirming, source[confirming.row]) /\ confirming.row \in SourceIds
    BY <2>1 DEF RegistryInv, AdminKnows, Confirmation
  <2>3. CASE confirming.row = i
    BY <2>1, <2>3, <1>2, RegistryBasics
  <2>4. CASE confirming.row # i
    BY <2>1, <2>2, <2>4, <1>2 DEF There
  <2> QED
    BY <2>3, <2>4
<1> QED
  BY <1>4, <1>5, <1>6, <1>7, <1>8 DEF RegistryInv, NameStands

\* A row is left: nothing but what is held changes.
LEMMA HoldKeeps ==
    ASSUME RegistryInv, UNCHANGED <<keyed, source, confirming>>, NEW q \in Registrars,
           NEW r \in Held \union {NothingHeld}, registering' = [registering EXCEPT ![q] = r],
           r # NothingHeld /\ r.row # 0 => There(r.row) /\ FinderMet(r, source[r.row])
    PROVE  RegistryInv'
<1>1. registering' \in [Registrars -> Held \union {NothingHeld}] /\ registering'[q] = r
      /\ \A p \in Registrars \ {q} : registering'[p] = registering[p]
  BY DEF RegistryInv, HoldersTypeOK
<1>2. HoldersTypeOK'
  BY <1>1 DEF RegistryInv, HoldersTypeOK
<1>3. RegistryTypeOK'
  BY DEF RegistryInv, RegistryTypeOK, There
<1>4. \A p \in Registrars : HolderKnows(p)'
  BY <1>1 DEF RegistryInv, HolderKnows, There, FinderMet
<1>5. AdminKnows' /\ \A i \in SourceIds : There(i)' => NameStands(source'[i])
  BY DEF RegistryInv, AdminKnows, There, ReadStill
<1> QED
  BY <1>2, <1>3, <1>4, <1>5 DEF RegistryInv, NameStands

LEMMA FoundHolds ==
    ASSUME RegistryInv, NEW q \in Registrars, NEW found, Hold(q, found),
           \A r \in found : r \in Held /\ (r.row # 0 => There(r.row) /\ (r.placeholder <=> Placeholder(source[r.row])))
    PROVE  RegistryInv'
<1>1. PICK r \in found : registering' = [registering EXCEPT ![q] = r]
  BY DEF Hold
<1>2. r \in Held /\ (r.row # 0 => There(r.row) /\ (r.placeholder <=> Placeholder(source[r.row])))
  OBVIOUS
<1>3. ASSUME r.row # 0 PROVE FinderMet(r, source[r.row])
  <2>1. r.row \in SourceIds /\ NameStands(source[r.row])
    BY <1>2, <1>3 DEF Held, RegistryInv
  <2> QED
    BY <2>1, <1>2, <1>3 DEF FinderMet, NameStands, Placeholder
<1> QED
  BY <1>1, <1>2, <1>3, HoldKeeps DEF Hold

\* What names a row leaves of it.
LEMMA NamesKeep ==
    ASSUME NEW record \in SourceRow, NEW does \in {"scan", "find"}, NEW p \in BOOLEAN, NEW o \in BOOLEAN,
           NEW new \in Named(does, record, p, o)
    PROVE  /\ new \in SourceRow
           /\ new.url = record.url /\ new.known = record.known /\ new.status = record.status
           /\ new.confirmed = record.confirmed /\ new.met = record.met /\ new.by = record.by /\ new.unsure = record.unsure
           /\ new # record => p /\ (does = "find" \/ record.from = "placeholder")
<1> DEFINE given == [record EXCEPT !.name = "company", !.from = "auto"]
           promoted == [record EXCEPT !.name = "page", !.from = "auto"]
<1>1. /\ given \in SourceRow /\ given.url = record.url /\ given.known = record.known
      /\ given.status = record.status /\ given.confirmed = record.confirmed /\ given.met = record.met
      /\ given.by = record.by /\ given.unsure = record.unsure
  BY DEF SourceRow, SourceNames
<1>2. /\ promoted \in SourceRow /\ promoted.url = record.url /\ promoted.known = record.known
      /\ promoted.status = record.status /\ promoted.confirmed = record.confirmed /\ promoted.met = record.met
      /\ promoted.by = record.by /\ promoted.unsure = record.unsure
  BY DEF SourceRow, SourceNames
<1>3. \/ new = record
      \/ does = "find" /\ p /\ new = given
      \/ p /\ record.from = "placeholder" /\ new = promoted
  BY DEF Named, Promote, Promoted, Placeholder
<1> HIDE DEF given, promoted
<1> QED
  BY <1>1, <1>2, <1>3

\* A registrar ends with a name for a row that was there.
LEMMA WrittenKeeps ==
    ASSUME RegistryInv, NEW q \in Registrars, NEW i \in SourceIds, There(i),
           NEW does \in {"scan", "find"}, NEW p \in BOOLEAN, NEW o \in BOOLEAN,
           NEW record \in Named(does, source[i], p, o),
           does = "find" /\ p => source[i].from = "placeholder" \/ source[i].confirmed = "nothing" \/ source[i].met,
           Conclude(q, i, Written(i, record))
    PROVE  RegistryInv'
<1> DEFINE old == source[i]
           new == Written(i, record)
<1>1. old \in SourceRow /\ NameStands(old)
  BY DEF RegistryInv, RegistryTypeOK, There
<1>2. /\ record \in SourceRow
      /\ record.url = old.url /\ record.known = old.known /\ record.status = old.status
      /\ record.confirmed = old.confirmed /\ record.met = old.met
      /\ record # old => p /\ (does = "find" \/ old.from = "placeholder")
  BY <1>1, NamesKeep
<1>3. /\ [record EXCEPT !.met = TRUE] \in SourceRow
      /\ \A f \in {record} : [f EXCEPT !.met = TRUE].met
      /\ [record EXCEPT !.met = TRUE].url = record.url /\ [record EXCEPT !.met = TRUE].known = record.known
      /\ [record EXCEPT !.met = TRUE].status = record.status
      /\ [record EXCEPT !.met = TRUE].confirmed = record.confirmed
  BY <1>2 DEF SourceRow
<1>4. /\ new \in SourceRow /\ new.url = old.url /\ new.known = old.known /\ new.status = old.status
      /\ new.confirmed = old.confirmed /\ (old.met => new.met)
      /\ new.met \/ new = record
      /\ Confirming(i) => new.met \/ new = old
  BY <1>2, <1>3 DEF Written
<1>5. source' = [source EXCEPT ![i] = new] /\ registering' = [registering EXCEPT ![q] = NothingHeld]
      /\ UNCHANGED <<keyed, confirming>>
  BY DEF Conclude
<1> HIDE DEF new
<1>6. NameStands(new)
  <2> SUFFICES ASSUME new.confirmed # "nothing", ~new.met
               PROVE  new.name = new.confirmed /\ new.from = "manual"
    BY DEF NameStands
  <2>1. new = record /\ old.confirmed # "nothing" /\ ~old.met
    BY <1>4
  <2>2. old.from = "manual" /\ old.name = old.confirmed
    BY <2>1, <1>1 DEF NameStands
  <2>3. record = old
    BY <2>1, <2>2, <1>2
  <2> QED
    BY <2>1, <2>2, <2>3
<1>7. \A j \in SourceIds \ {i} : There(j) => source[j].url # new.url
  BY <1>4 DEF RegistryInv, RegistryTypeOK
<1>8. new.status = "active" => new.known
  BY <1>4 DEF RegistryInv, RegistryTypeOK
<1>9. ASSUME NEW x \in Registrars, registering[x] # NothingHeld, registering[x].row = i
      PROVE  FinderMet(registering[x], new)
  <2>1. FinderMet(registering[x], old)
    BY <1>9, RegistryBasics DEF RegistryInv, HolderKnows
  <2> QED
    BY <2>1, <1>4 DEF FinderMet
<1>10. confirming # NothingHeld /\ confirming.row = i => ReadStill(confirming, new)
  <2> SUFFICES ASSUME confirming # NothingHeld, confirming.row = i PROVE ReadStill(confirming, new)
    OBVIOUS
  <2>1. ReadStill(confirming, old) /\ Confirming(i)
    BY DEF RegistryInv, AdminKnows, Confirming
  <2> QED
    BY <2>1, <1>4 DEF ReadStill
<1>11. /\ registering' \in [Registrars -> Held \union {NothingHeld}]
       /\ \A x \in Registrars : registering'[x] \in {registering[x], NothingHeld}
  BY <1>5 DEF RegistryInv, HoldersTypeOK
<1> QED
  BY <1>4, <1>5, <1>6, <1>7, <1>8, <1>9, <1>10, <1>11, WriteKeeps

LEMMA LookupKeeps ==
    ASSUME RegistryInv, NEW q \in Registrars, SubmitUrl(q) \/ FindBoard(q)
    PROVE  RegistryInv'
<1>1. RegistryTypeOK
  BY DEF RegistryInv
<1>2. CASE SubmitUrl(q)
  <2> DEFINE found == UNION {Found("scan", u, read, reread) : u \in Submitted, read, reread \in BOOLEAN}
  <2>1. Hold(q, found)
    BY <1>2 DEF SubmitUrl
  <2>2. ASSUME NEW r \in found
        PROVE  r \in Held /\ (r.row # 0 => There(r.row) /\ (r.placeholder <=> Placeholder(source[r.row])))
    <3>1. PICK u \in Submitted, read \in BOOLEAN, reread \in BOOLEAN : r \in Found("scan", u, read, reread)
      OBVIOUS
    <3> QED
      BY <3>1, <1>1, FoundHeld DEF Submitted
  <2> HIDE DEF found
  <2> QED
    BY <2>1, <2>2, FoundHolds
<1>3. CASE FindBoard(q)
  <2> DEFINE read == TRUE
             known == {v \in Submitted : TextKey(v) # NoKeyRead}
             found == UNION {Found("find", u, read, reread) : u \in known, reread \in BOOLEAN}
  <2>1. Hold(q, found) /\ read \in BOOLEAN
    BY <1>3 DEF FindBoard
  <2>2. known \subseteq BoardUrl
    BY DEF Submitted
  <2> HIDE DEF read, known
  <2>3. ASSUME NEW r \in found
        PROVE  r \in Held /\ (r.row # 0 => There(r.row) /\ (r.placeholder <=> Placeholder(source[r.row])))
    <3>1. PICK u \in known, reread \in BOOLEAN : r \in Found("find", u, read, reread)
      OBVIOUS
    <3> QED
      BY <3>1, <2>1, <2>2, <1>1, FoundHeld
  <2> HIDE DEF found
  <2> QED
    BY <2>1, <2>3, FoundHolds
<1> QED
  BY <1>2, <1>3

LEMMA ScanSourceKeeps ==
    ASSUME RegistryInv, NEW q \in Registrars, NEW i \in SourceIds, ScanSource(q, i)
    PROVE  RegistryInv'
<1> DEFINE r == [does |-> "scan", row |-> i, key |-> NoKeyRead, url |-> source[i].url,
                 placeholder |-> Placeholder(source[i]), official |-> IsOfficialSource(source[i]),
                 unsure |-> FALSE]
<1>1. There(i) /\ Hold(q, {r})
  BY DEF ScanSource
<1>2. source[i] \in SourceRow
  BY <1>1 DEF RegistryInv, RegistryTypeOK, There
<1>3. source[i].url \in BoardUrl /\ Placeholder(source[i]) \in BOOLEAN
      /\ IsOfficialSource(source[i]) \in BOOLEAN /\ NoKeyRead \in Keys
  BY <1>2 DEF SourceRow, Placeholder, IsOfficialSource, Keys
<1>4. r \in Held
  BY <1>3 DEF Held
<1>5. r.row = i /\ (r.placeholder <=> Placeholder(source[i]))
  OBVIOUS
<1> HIDE DEF r
<1> QED
  BY <1>1, <1>4, <1>5, FoundHolds

LEMMA ConcludeFoundKeeps ==
    ASSUME RegistryInv, NEW q \in Registrars, ConcludeFound(q)
    PROVE  RegistryInv'
<1> DEFINE r == registering[q]
<1>1. r # NothingHeld /\ r.row # 0
  BY DEF ConcludeFound
<1>2. r \in Held /\ There(r.row) /\ FinderMet(r, source[r.row])
  BY <1>1 DEF RegistryInv, HoldersTypeOK, HolderKnows
<1>3. r.row \in SourceIds /\ r.does \in {"scan", "find"} /\ r.placeholder \in BOOLEAN /\ r.official \in BOOLEAN
  BY <1>1, <1>2 DEF Held
<1>4. PICK record \in Named(r.does, source[r.row], r.placeholder, r.official) :
         Conclude(q, r.row, Written(r.row, record))
  BY DEF ConcludeFound
<1> HIDE DEF r
<1> QED
  BY <1>2, <1>3, <1>4, WrittenKeeps DEF FinderMet

\* A row that comes into being, known to nobody.
LEMMA NewKeeps ==
    ASSUME RegistryInv, NEW i \in SourceIds, ~There(i), NEW new \in SourceRow,
           source' = [source EXCEPT ![i] = new], keyed' = keyed, confirming' = confirming,
           new.status = "active" => new.known, WithUrl(new.url) = {}, NameStands(new),
           registering' \in [Registrars -> Held \union {NothingHeld}],
           \A q \in Registrars : registering'[q] \in {registering[q], NothingHeld}
    PROVE  RegistryInv'
<1>1. \A j \in SourceIds \ {i} : There(j) => source[j].url # new.url
  BY DEF WithUrl
<1>2. \A q \in Registrars : registering[q] # NothingHeld /\ registering[q].row = i =>
         FinderMet(registering[q], new)
  BY RegistryBasics DEF RegistryInv, HolderKnows
<1>3. confirming' # NothingHeld /\ confirming.row = i => ReadStill(confirming, new)
  BY DEF RegistryInv, AdminKnows
<1> QED
  BY <1>1, <1>2, <1>3, WriteKeeps

LEMMA NewRowTyped ==
    ASSUME NEW url \in BoardUrl, NEW key, NEW status \in {"active", "pending"}, NEW unsure \in BOOLEAN,
           NEW record, record = NewRow(url, key, status, unsure)
    PROVE  /\ record \in SourceRow /\ record.url = url /\ record.status = status
           /\ record.known <=> key # NoKeyRead
           /\ record.confirmed = "nothing"
<1> DEFINE known == key # NoKeyRead
<1>1. known \in BOOLEAN /\ (known <=> key # NoKeyRead)
  OBVIOUS
<1> HIDE DEF known
<1>2. record = [url |-> url, known |-> known, status |-> status,
             name |-> "label", from |-> "placeholder", by |-> "submission", unsure |-> unsure,
             confirmed |-> "nothing", met |-> FALSE]
  BY DEF NewRow, known
<1> QED
  BY <1>1, <1>2 DEF SourceRow, SourceNames

LEMMA ConcludeNewKeeps ==
    ASSUME RegistryInv, NEW q \in Registrars, ConcludeNew(q)
    PROVE  RegistryInv'
<1> DEFINE r == registering[q]
           status == IF r.key # NoKeyRead /\ r.does = "scan" THEN "active" ELSE "pending"
           new == NewRow(r.url, r.key, status, r.unsure)
<1>1. r # NothingHeld /\ r \in Held
  BY DEF ConcludeNew, RegistryInv, HoldersTypeOK
<1>2. r.url \in BoardUrl /\ r.does \in {"scan", "find"} /\ r.unsure \in BOOLEAN /\ r.key \in Keys
  BY <1>1 DEF Held
<1>3. new \in SourceRow /\ new.url = r.url /\ (new.status = "active" => new.known) /\ new.confirmed = "nothing"
  <2>1. status \in {"active", "pending"} /\ (status = "active" => r.key # NoKeyRead)
    OBVIOUS
  <2>2. new = NewRow(r.url, r.key, status, r.unsure)
    OBVIOUS
  <2> HIDE DEF r, status, new
  <2> QED
    BY <2>1, <2>2, <1>2, NewRowTyped
<1>4. CASE /\ WithUrl(r.url) = {}
           /\ \E i \in SourceIds :
                 /\ ~There(i)
                 /\ \E record \in Named(r.does, new, TRUE, IsOfficialSource(new)) : Conclude(q, i, record)
  <2>1. PICK i \in SourceIds, record \in Named(r.does, new, TRUE, IsOfficialSource(new)) :
           ~There(i) /\ Conclude(q, i, record)
    BY <1>4
  <2> DEFINE yes == TRUE
  <2>2. IsOfficialSource(new) \in BOOLEAN /\ yes \in BOOLEAN
        /\ record \in Named(r.does, new, yes, IsOfficialSource(new))
    BY DEF IsOfficialSource
  <2> HIDE DEF new, yes
  <2>3. /\ record \in SourceRow /\ record.url = r.url /\ (record.status = "active" => record.known)
        /\ record.confirmed = "nothing"
    BY <2>2, <1>2, <1>3, NamesKeep
  <2>4. NameStands(record)
    BY <2>3 DEF NameStands
  <2>5. /\ registering' \in [Registrars -> Held \union {NothingHeld}]
        /\ \A x \in Registrars : registering'[x] \in {registering[x], NothingHeld}
    BY <2>1 DEF Conclude, RegistryInv, HoldersTypeOK
  <2> HIDE DEF r
  <2> QED
    BY <1>4, <2>1, <2>3, <2>4, <2>5, NewKeeps DEF Conclude
<1>5. CASE \E i \in WithUrl(r.url) :
              \E record \in Named(r.does, source[i], Placeholder(source[i]), IsOfficialSource(source[i])) :
                  Conclude(q, i, Written(i, record))
  <2>1. PICK i \in WithUrl(r.url) :
           \E record \in Named(r.does, source[i], Placeholder(source[i]), IsOfficialSource(source[i])) :
                  Conclude(q, i, Written(i, record))
    BY <1>5
  <2>2. i \in SourceIds /\ There(i) /\ Placeholder(source[i]) \in BOOLEAN /\ IsOfficialSource(source[i]) \in BOOLEAN
    BY DEF WithUrl, Placeholder, IsOfficialSource
  <2>3. Placeholder(source[i]) => source[i].from = "placeholder"
    BY DEF Placeholder
  <2> QED
    BY <1>2, <2>1, <2>2, <2>3, WrittenKeeps
<1> HIDE DEF status
<1>6. (WithUrl(r.url) = {} /\ \E i \in SourceIds :
                 /\ ~There(i) /\ \A j \in 1 .. i - 1 : There(j)
                 /\ \E record \in Named(r.does, new, TRUE, IsOfficialSource(new)) : Conclude(q, i, record))
      \/ \E i \in WithUrl(r.url) :
              \E record \in Named(r.does, source[i], Placeholder(source[i]), IsOfficialSource(source[i])) :
                  Conclude(q, i, Written(i, record))
  BY DEF ConcludeNew, status
<1> HIDE DEF new, r
<1> QED
  BY <1>4, <1>5, <1>6

LEMMA CreateKeeps ==
    ASSUME RegistryInv, NEW i \in SourceIds, CreateSource(i)
    PROVE  RegistryInv'
<1>1. PICK u \in Submitted :
         /\ ~There(i) /\ WithUrl(u) = {} /\ Detected(u, TRUE) # NoKeyRead
         /\ source' = [source EXCEPT ![i] =
              [NewRow(u, Detected(u, TRUE), "active", FALSE) EXCEPT
                  !.name = "typed", !.from = "manual", !.by = "admin", !.confirmed = "typed"]]
         /\ UNCHANGED <<keyed, registering, confirming>>
  BY DEF CreateSource
<1> DEFINE record == NewRow(u, Detected(u, TRUE), "active", FALSE)
           new == [record EXCEPT !.name = "typed", !.from = "manual", !.by = "admin", !.confirmed = "typed"]
<1>2. u \in BoardUrl
  BY DEF Submitted
<1>3. record \in SourceRow /\ record.url = u /\ record.known
  <2> DEFINE known == Detected(u, TRUE) # NoKeyRead
  <2>1. known /\ known \in BOOLEAN
    BY <1>1
  <2>2. record = [url |-> u, known |-> known, status |-> "active",
               name |-> "label", from |-> "placeholder", by |-> "submission", unsure |-> FALSE,
               confirmed |-> "nothing", met |-> FALSE]
    BY DEF NewRow
  <2> HIDE DEF known, record
  <2> QED
    BY <1>2, <2>1, <2>2 DEF SourceRow, SourceNames
<1> HIDE DEF record
<1>4. /\ new \in SourceRow /\ new.url = u /\ new.known /\ new.name = new.confirmed /\ new.from = "manual"
  BY <1>3 DEF SourceRow, SourceNames
<1>5. source' = [source EXCEPT ![i] = new]
  BY <1>1 DEF record
<1> HIDE DEF new
<1>6. NameStands(new)
  BY <1>4 DEF NameStands
<1>7. /\ registering' \in [Registrars -> Held \union {NothingHeld}]
      /\ \A x \in Registrars : registering'[x] \in {registering[x], NothingHeld}
  BY <1>1 DEF RegistryInv, HoldersTypeOK
<1> QED
  BY <1>1, <1>4, <1>5, <1>6, <1>7, NewKeeps

\* An admin writes what a name and a lookup do not depend on.
LEMMA ChangeKeeps ==
    ASSUME RegistryInv, NEW i \in SourceIds, There(i), NEW new \in SourceRow,
           source' = [source EXCEPT ![i] = new], UNCHANGED <<keyed, registering, confirming>>,
           new.status = "active" => new.known,
           \A j \in SourceIds \ {i} : There(j) => source[j].url # new.url,
           new.name = source[i].name, new.from = source[i].from,
           new.confirmed = source[i].confirmed, new.met = source[i].met
    PROVE  RegistryInv'
<1>1. NameStands(new)
  BY DEF RegistryInv, NameStands
<1>2. \A q \in Registrars : registering[q] # NothingHeld /\ registering[q].row = i =>
         FinderMet(registering[q], new)
  BY RegistryBasics DEF RegistryInv, HolderKnows, FinderMet
<1>3. confirming' # NothingHeld /\ confirming.row = i => ReadStill(confirming, new)
  BY DEF RegistryInv, AdminKnows, ReadStill
<1>4. /\ registering' \in [Registrars -> Held \union {NothingHeld}]
      /\ \A x \in Registrars : registering'[x] \in {registering[x], NothingHeld}
  BY DEF RegistryInv, HoldersTypeOK
<1> QED
  BY <1>1, <1>2, <1>3, <1>4, WriteKeeps

LEMMA AdminWriteKeeps ==
    ASSUME RegistryInv, NEW i \in SourceIds,
           ResolveSource(i) \/ \E status \in {"active", "pending"} : SetSourceStatus(i, status)
    PROVE  RegistryInv'
<1>1. There(i)
  BY DEF ResolveSource, SetSourceStatus
<1>2. source \in [SourceIds -> SourceRow \union {NoSource}] /\ source[i] \in SourceRow
  BY <1>1 DEF RegistryInv, RegistryTypeOK, There
<1>3. CASE ResolveSource(i)
  <2>1. PICK u \in Submitted, status \in {"active", "pending"} :
          /\ WithUrl(u) \ {i} = {}
          /\ source' = [source EXCEPT ![i].url = u, ![i].known = TRUE, ![i].status = status, ![i].by = "admin"]
          /\ UNCHANGED <<keyed, registering, confirming>>
    BY <1>3 DEF ResolveSource
  <2> DEFINE new == [source[i] EXCEPT !.url = u, !.known = TRUE, !.status = status, !.by = "admin"]
  <2>2. u \in BoardUrl
    BY DEF Submitted
  <2>3. /\ new \in SourceRow /\ new.url = u /\ new.known /\ new.name = source[i].name
        /\ new.from = source[i].from /\ new.confirmed = source[i].confirmed /\ new.met = source[i].met
    BY <1>2, <2>2 DEF SourceRow
  <2>4. source' = [source EXCEPT ![i] = new]
    BY <1>2, <2>1
  <2> HIDE DEF new
  <2>5. \A j \in SourceIds \ {i} : There(j) => source[j].url # new.url
    BY <2>1, <2>3 DEF WithUrl
  <2> QED
    BY <1>1, <2>1, <2>3, <2>4, <2>5, ChangeKeeps
<1>4. ASSUME NEW status \in {"active", "pending"}, SetSourceStatus(i, status) PROVE RegistryInv'
  <2> DEFINE new == [source[i] EXCEPT !.status = status]
  <2>1. /\ new \in SourceRow /\ new.url = source[i].url /\ new.known = source[i].known
        /\ new.status = status /\ new.name = source[i].name
        /\ new.from = source[i].from /\ new.confirmed = source[i].confirmed /\ new.met = source[i].met
    BY <1>2 DEF SourceRow
  <2>2. source' = [source EXCEPT ![i] = new] /\ UNCHANGED <<keyed, registering, confirming>>
        /\ (status = "active" => source[i].known)
    BY <1>2, <1>4 DEF SetSourceStatus
  <2> HIDE DEF new
  <2>3. \A j \in SourceIds \ {i} : There(j) => source[j].url # new.url
    BY <1>1, <2>1 DEF RegistryInv, RegistryTypeOK
  <2> QED
    BY <1>1, <2>1, <2>2, <2>3, ChangeKeeps
<1> QED
  BY <1>3, <1>4

LEMMA BeginConfirmKeeps ==
    ASSUME RegistryInv, NEW i \in SourceIds, BeginConfirm(i)
    PROVE  RegistryInv'
<1>1. There(i) /\ source[i] \in SourceRow /\ UNCHANGED <<keyed, source, registering>>
  BY DEF BeginConfirm, RegistryInv, RegistryTypeOK, There
<1>2. PICK name \in {"typed", source[i].name} :
         confirming' = [row |-> i, name |-> name, was |-> source[i].name, from |-> source[i].from]
  BY DEF BeginConfirm
<1>3. name \in SourceNames /\ source[i].name \in SourceNames /\ source[i].from \in {"placeholder", "auto", "manual"}
  BY <1>1 DEF SourceRow, SourceNames
<1>4. confirming' \in Confirmation /\ confirming'.row = i
      /\ confirming'.was = source[i].name /\ confirming'.from = source[i].from
  BY <1>2, <1>3 DEF Confirmation
<1>5. HoldersTypeOK' /\ RegistryTypeOK'
  BY <1>1, <1>4 DEF RegistryInv, HoldersTypeOK, RegistryTypeOK, There
<1>6. \A q \in Registrars : HolderKnows(q)'
  BY <1>1 DEF RegistryInv, HolderKnows, There, FinderMet
<1>7. AdminKnows'
  BY <1>1, <1>4 DEF AdminKnows, There, ReadStill
<1>8. \A j \in SourceIds : There(j)' => NameStands(source[j])'
  BY <1>1 DEF RegistryInv, There, NameStands
<1> QED
  BY <1>5, <1>6, <1>7, <1>8 DEF RegistryInv

LEMMA CommitConfirmKeeps ==
    ASSUME RegistryInv, CommitConfirm
    PROVE  RegistryInv'
<1> DEFINE c == confirming
           i == confirming.row
           old == source[i]
           found == \E q \in Registrars : /\ registering[q] # NothingHeld
                                          /\ registering[q].row = i /\ registering[q].does = "find"
           name == IF c.name # c.was THEN c.name ELSE old.name
           from == IF c.from # "manual" THEN "manual" ELSE old.from
           met == old.met \/ found
           new == [old EXCEPT !.name = name, !.from = from, !.confirmed = c.name, !.met = met]
<1>1. c # NothingHeld /\ c \in Confirmation /\ There(i) /\ ReadStill(c, old) /\ i \in SourceIds
  BY DEF CommitConfirm, RegistryInv, HoldersTypeOK, AdminKnows, Confirmation
<1>2. old \in SourceRow /\ source \in [SourceIds -> SourceRow \union {NoSource}]
  BY <1>1 DEF RegistryInv, RegistryTypeOK, There
<1>3. c.name \in SourceNames /\ name \in SourceNames /\ from \in {"placeholder", "auto", "manual"}
      /\ old.met \in BOOLEAN
  BY <1>1, <1>2 DEF Confirmation, SourceRow
<1>4. met \in BOOLEAN
  OBVIOUS
<1>5. source' = [source EXCEPT ![i] = new] /\ confirming' = NothingHeld /\ UNCHANGED <<keyed, registering>>
  BY <1>1, <1>2 DEF CommitConfirm
<1>6. (met <=> old.met \/ found) /\ (~old.met => name = c.name /\ from = "manual")
  BY <1>1 DEF ReadStill
<1> HIDE DEF name, from, met, found
<1>7. /\ new \in SourceRow /\ new.url = old.url /\ new.known = old.known /\ new.status = old.status
      /\ new.name = name /\ new.from = from /\ new.confirmed = c.name /\ new.met = met
  BY <1>2, <1>3, <1>4 DEF SourceRow
<1> HIDE DEF new
<1>8. NameStands(new)
  BY <1>3, <1>6, <1>7 DEF NameStands
<1>9. \A q \in Registrars : registering[q] # NothingHeld /\ registering[q].row = i =>
         FinderMet(registering[q], new)
  BY <1>6, <1>7 DEF FinderMet, found
<1>10. (\A j \in SourceIds \ {i} : There(j) => source[j].url # new.url)
       /\ (new.status = "active" => new.known)
  BY <1>1, <1>7 DEF RegistryInv, RegistryTypeOK
<1>11. /\ registering' \in [Registrars -> Held \union {NothingHeld}]
       /\ \A x \in Registrars : registering'[x] \in {registering[x], NothingHeld}
  BY <1>5 DEF RegistryInv, HoldersTypeOK
<1> QED
  BY <1>1, <1>5, <1>7, <1>8, <1>9, <1>10, <1>11, WriteKeeps

LEMMA RemoveKeeps ==
    ASSUME RegistryInv, NEW i \in SourceIds, RemoveSource(i)
    PROVE  RegistryInv'
<1>1. /\ source \in [SourceIds -> SourceRow \union {NoSource}]
      /\ registering \in [Registrars -> Held \union {NothingHeld}]
      /\ confirming \in Confirmation \union {NothingHeld}
  BY DEF RegistryInv, RegistryTypeOK, HoldersTypeOK
<1>2. /\ source' \in [SourceIds -> SourceRow \union {NoSource}] /\ source'[i] = NoSource
      /\ \A j \in SourceIds \ {i} : source'[j] = source[j]
      /\ keyed' = keyed
  BY <1>1 DEF RemoveSource
<1>3. \A q \in Registrars :
         registering'[q] = IF registering[q] # NothingHeld /\ registering[q].row = i THEN NothingHeld
                           ELSE registering[q]
  BY DEF RemoveSource
<1>4. /\ registering' \in [Registrars -> Held \union {NothingHeld}]
      /\ \A q \in Registrars : registering'[q] # NothingHeld =>
            registering'[q] = registering[q] /\ registering[q].row # i
  <2>1. registering' = [q \in Registrars |-> registering'[q]]
    BY DEF RemoveSource
  <2> QED
    BY <1>1, <1>3, <2>1
<1>5. confirming' # NothingHeld => confirming' = confirming /\ confirming.row # i
  BY DEF RemoveSource, Confirming
<1>6. RegistryTypeOK'
  BY <1>2 DEF RegistryInv, RegistryTypeOK, There
<1>7. HoldersTypeOK'
  BY <1>1, <1>4, <1>5 DEF HoldersTypeOK
<1>8. \A j \in SourceIds : There(j)' => NameStands(source[j])'
  BY <1>2 DEF RegistryInv, There, NameStands
<1>9. ASSUME NEW q \in Registrars PROVE HolderKnows(q)'
  <2> SUFFICES ASSUME registering'[q] # NothingHeld, registering'[q].row # 0
               PROVE  /\ source'[registering'[q].row] # NoSource
                      /\ FinderMet(registering'[q], source'[registering'[q].row])
    BY DEF HolderKnows, There, FinderMet
  <2>1. /\ registering'[q] = registering[q] /\ There(registering[q].row) /\ registering[q].row # i
        /\ FinderMet(registering[q], source[registering[q].row])
    BY <1>4 DEF RegistryInv, HolderKnows
  <2>2. registering[q].row \in SourceIds
    BY <1>1, <1>4, <2>1 DEF Held
  <2> QED
    BY <2>1, <2>2, <1>2 DEF There
<1>10. AdminKnows'
  <2> SUFFICES ASSUME confirming' # NothingHeld
               PROVE  /\ source'[confirming'.row] # NoSource
                      /\ ReadStill(confirming', source'[confirming'.row])
    BY DEF AdminKnows, There, ReadStill
  <2>1. confirming' = confirming /\ confirming.row # i /\ confirming \in Confirmation
    BY <1>1, <1>5
  <2>2. There(confirming.row) /\ ReadStill(confirming, source[confirming.row]) /\ confirming.row \in SourceIds
    BY <2>1 DEF RegistryInv, AdminKnows, Confirmation
  <2> QED
    BY <2>1, <2>2, <1>2 DEF There
<1> QED
  BY <1>6, <1>7, <1>8, <1>9, <1>10 DEF RegistryInv

LEMMA RegistryInvStep ==
    ASSUME RegistryInv, [RegistryNext]_registryVars
    PROVE  RegistryInv'
<1>1. ASSUME NEW q \in Registrars, AbandonRegistering(q) PROVE RegistryInv'
  BY <1>1, HoldKeeps DEF AbandonRegistering
<1>2. CASE UNCHANGED registryVars
  <2>1. UNCHANGED <<keyed, source, registering, confirming>>
    BY <1>2 DEF registryVars
  <2>2. RegistryTypeOK' /\ HoldersTypeOK'
    BY <2>1 DEF RegistryInv, RegistryTypeOK, HoldersTypeOK, There
  <2>3. (\A q \in Registrars : HolderKnows(q)') /\ AdminKnows'
    BY <2>1 DEF RegistryInv, HolderKnows, AdminKnows, There, FinderMet, ReadStill
  <2>4. \A j \in SourceIds : There(j)' => NameStands(source[j])'
    BY <2>1 DEF RegistryInv, There, NameStands
  <2> QED
    BY <2>2, <2>3, <2>4 DEF RegistryInv
<1> QED
  BY <1>1, <1>2, LookupKeeps, ScanSourceKeeps, ConcludeFoundKeeps, ConcludeNewKeeps, CreateKeeps,
     AdminWriteKeeps, BeginConfirmKeeps, CommitConfirmKeeps, RemoveKeeps DEF RegistryNext

\* For any number of sources and registrars and any adapter: a name an admin
\* confirmed stays, unless one was being written at that moment.
THEOREM NameStays == RegistrySpec => []ConfirmedNameStands
<1>1. RegistryInv => ConfirmedNameStands
  BY DEF RegistryInv, NameStands, ConfirmedNameStands
<1>2. RegistryInit => RegistryInv
  BY RegistryInvInit
<1>3. RegistryInv /\ [RegistryNext]_registryVars => RegistryInv'
  BY RegistryInvStep
<1> QED
  BY <1>1, <1>2, <1>3, PTL DEF RegistrySpec

\* No two sources have one URL, and what is crawled is of a known platform.
THEOREM RegistryTypes == RegistrySpec => []RegistryTypeOK
<1>1. RegistryInv => RegistryTypeOK
  BY DEF RegistryInv
<1>2. RegistryInit => RegistryInv
  BY RegistryInvInit
<1>3. RegistryInv /\ [RegistryNext]_registryVars => RegistryInv'
  BY RegistryInvStep
<1> QED
  BY <1>1, <1>2, <1>3, PTL DEF RegistrySpec

-----------------------------------------------------------------------------
Apart(u, v) == SpelledApart(u, v) \/ HostsApart(u, v)

FoundBy(url, key) ==
    /\ key # NoKeyRead
    /\ \E u \in Submitted, read \in BOOLEAN : key = Detected(u, read) /\ url = StoredUrl(key, u)

Registered(url) == \E key \in Keys : FoundBy(url, key)

\* Whatever two URLs an adapter makes of keys, it tells them apart.
LEMMA CanonicalApart ==
    ASSUME keyed \in BoardAdapters, keyed.canonical, NEW u, NEW v, Registered(u), Registered(v), u # v
    PROVE  Apart(u, v)
<1> DEFINE Made(key) == [host |-> IF key[1] = "host" THEN key[2] ELSE "board",
                         odd |-> key = <<"slug", "odd">>, page |-> "board"]
<1>1. ASSUME NEW url, Registered(url)
      PROVE  \E key \in Keys : /\ url = Made(key)
                               /\ key = <<"slug", "odd">> => keyed.text = "spelled"
                               /\ key[1] = "host" => keyed.text = "host" \/ keyed.behind \in {"asked", "landing"}
  <2>1. PICK key \in Keys, x \in Submitted, read \in BOOLEAN :
           key # NoKeyRead /\ key = Detected(x, read) /\ url = StoredUrl(key, x)
    BY <1>1 DEF Registered, FoundBy
  <2>2. url = Made(key)
    BY <2>1 DEF StoredUrl
  <2>3. keyed.behind \in {"none", "slug", "asked", "landing"}
    BY RegistryAssumption DEF Adapter
  <2>4. key = TextKey(x) \/ key = BehindKey(x)
    BY <2>1 DEF Detected
  <2>5. CASE key = TextKey(x)
    <3>1. /\ key = <<"slug", "odd">> => keyed.text = "spelled"
          /\ key[1] = "host" => keyed.text = "host"
      BY <2>1, <2>5 DEF TextKey, NoKeyRead
    <3> QED
      BY <2>2, <3>1
  <2>6. CASE key = BehindKey(x)
    <3>1. key # <<"slug", "odd">> /\ (key[1] = "host" => keyed.behind \in {"asked", "landing"})
      BY <2>1, <2>3, <2>6 DEF BehindKey, NoKeyRead
    <3> HIDE DEF Made
    <3> QED
      BY <2>2, <3>1
  <2> HIDE DEF Made
  <2> QED
    BY <2>4, <2>5, <2>6
<1>2. PICK k \in Keys : /\ u = Made(k)
                        /\ k = <<"slug", "odd">> => keyed.text = "spelled"
                        /\ k[1] = "host" => keyed.text = "host" \/ keyed.behind \in {"asked", "landing"}
  <2> HIDE DEF Made
  <2> QED
    BY <1>1
<1>3. PICK l \in Keys : /\ v = Made(l)
                        /\ l = <<"slug", "odd">> => keyed.text = "spelled"
                        /\ l[1] = "host" => keyed.text = "host" \/ keyed.behind \in {"asked", "landing"}
  <2> HIDE DEF Made
  <2> QED
    BY <1>1
<1>4. u.host # v.host \/ u.odd # v.odd
  BY <1>2, <1>3
<1>5. CASE u.odd # v.odd
  BY <1>2, <1>3, <1>5 DEF Apart, SpelledApart
<1>6. CASE u.host # v.host
  BY <1>2, <1>3, <1>6 DEF Apart, HostsApart
<1> QED
  BY <1>4, <1>5, <1>6

\* A stored URL whose key, read again, is another one is told apart.
LEMMA AgainApart ==
    ASSUME keyed \in BoardAdapters, ~keyed.canonical, NEW u, NEW v, NEW key,
           FoundBy(u, key), Registered(v), NEW reread \in BOOLEAN,
           keyed.again \in {"fetch", "text, fetch"} => reread,
           AgainKey(v, reread) # key
    PROVE  Apart(u, v)
<1>1. PICK read \in BOOLEAN : u \in Submitted /\ key = Detected(u, read) /\ key # NoKeyRead
  BY DEF FoundBy, StoredUrl
<1>2. PICK readV \in BOOLEAN : v \in Submitted /\ Detected(v, readV) # NoKeyRead
  BY DEF Registered, FoundBy, StoredUrl
<1>3. /\ keyed.text \in {"none", "spelled", "folded", "host"}
      /\ keyed.behind \in {"none", "slug", "asked", "landing"}
      /\ keyed.again \in {"text", "host", "fetch", "text, fetch"}
  BY RegistryAssumption DEF Adapter
<1>4. /\ ~(BySlug(keyed) /\ ByHost(keyed))
      /\ keyed.again = "text" => keyed.behind = "none"
      /\ keyed.again = "host" => ~BySlug(keyed)
      /\ keyed.again = "fetch" => keyed.behind # "none"
  BY ReadAgainAssumption
<1>5. /\ u.host \in {"board", "company", "door"} /\ u.odd \in BOOLEAN
      /\ v.host \in {"board", "company", "door"} /\ v.odd \in BOOLEAN
  <2>1. u \in BoardUrl /\ v \in BoardUrl
    BY <1>1, <1>2 DEF Submitted
  <2> QED
    BY <2>1, UrlTyped
<1>6. CASE BySlug(keyed)
  <2>1. keyed.text # "host" /\ keyed.behind \in {"none", "slug"}
    BY <1>3, <1>4, <1>6 DEF ByHost
  <2>2. ASSUME NEW x, NEW r \in BOOLEAN, Detected(x, r) # NoKeyRead
        PROVE  Detected(x, r) = <<"slug", "even">> \/ (keyed.text = "spelled" /\ x.odd)
    BY <2>1, <2>2 DEF Detected, TextKey, BehindKey
  <2>3. AgainKey(v, reread) = <<"slug", "even">> \/ (keyed.text = "spelled" /\ v.odd)
    <3>1. CASE keyed.again = "text"
      <4>1. TextKey(v) = Detected(v, readV)
        BY <1>2, <1>4, <3>1 DEF Detected, BehindKey
      <4> QED
        BY <1>2, <2>2, <3>1, <4>1 DEF AgainKey
    <3>2. CASE keyed.again = "fetch"
      <4>1. keyed.behind = "slug" /\ reread
        BY <1>4, <2>1, <3>2
      <4>2. keyed.when = "board" /\ v.host # "board" => Detected(v, readV) = NoKeyRead
        BY <4>1 DEF Detected, TextKey, BehindKey
      <4> QED
        BY <1>2, <3>2, <4>1, <4>2 DEF AgainKey, BehindKey
    <3>3. CASE keyed.again = "text, fetch"
      <4>1. Detected(v, reread) # NoKeyRead
        BY <1>2, <3>3 DEF Detected
      <4> QED
        BY <2>2, <3>3, <4>1 DEF AgainKey
    <3> QED
      BY <1>3, <1>4, <1>6, <3>1, <3>2, <3>3
  <2>4. key = <<"slug", "even">> \/ (keyed.text = "spelled" /\ u.odd)
    BY <1>1, <2>2
  <2> QED
    BY <2>3, <2>4 DEF Apart, SpelledApart
<1>7. CASE ~BySlug(keyed)
  <2>1. keyed.text \in {"none", "host"} /\ keyed.behind \in {"none", "asked", "landing"}
    BY <1>3, <1>7 DEF BySlug
  <2> DEFINE lands(x) == IF keyed.behind = "landing" /\ x.host = "door" THEN "company" ELSE x.host
  <2>2. ASSUME NEW x, NEW r \in BOOLEAN, Detected(x, r) # NoKeyRead
        PROVE  /\ Detected(x, r) = <<"host", lands(x)>>
               /\ keyed.text = "host" \/ keyed.behind \in {"asked", "landing"}
    BY <2>1, <2>2 DEF Detected, TextKey, BehindKey
  <2>3. key = <<"host", lands(u)>> /\ (keyed.text = "host" \/ keyed.behind \in {"asked", "landing"})
    <3> HIDE DEF lands
    <3> QED
      BY <1>1, <2>2
  <2>4. CASE keyed.again = "host"
    BY <1>5, <2>3, <2>4 DEF AgainKey, Apart, HostsApart
  <2>5. ASSUME keyed.again # "host" PROVE AgainKey(v, reread) = <<"host", lands(v)>>
    <3>1. CASE keyed.again = "text"
      <4>1. TextKey(v) = Detected(v, readV)
        BY <1>2, <1>4, <3>1 DEF Detected, BehindKey
      <4> QED
        BY <1>2, <2>2, <3>1, <4>1 DEF AgainKey
    <3>2. CASE keyed.again = "fetch"
      <4>1. keyed.behind \in {"asked", "landing"} /\ reread
        BY <1>4, <2>1, <3>2
      <4> QED
        BY <3>2, <4>1 DEF AgainKey, BehindKey
    <3>3. CASE keyed.again = "text, fetch"
      <4>1. Detected(v, reread) # NoKeyRead
        BY <1>2, <3>3 DEF Detected
      <4> QED
        BY <2>2, <3>3, <4>1 DEF AgainKey
    <3> QED
      BY <1>3, <2>5, <3>1, <3>2, <3>3
  <2>6. CASE keyed.again # "host"
    <3>1. lands(u) # lands(v)
      BY <2>3, <2>5, <2>6
    <3>2. u.host # v.host
      BY <3>1
    <3> QED
      BY <2>3, <3>2 DEF Apart, HostsApart
  <2> QED
    BY <2>4, <2>6
<1> QED
  BY <1>6, <1>7

-----------------------------------------------------------------------------
Counts(record) == record.known /\ record.by = "submission"

\* A registrar that is about to add a board of its own.
Adds(r) == r # NothingHeld /\ r.row = 0 /\ r.key # NoKeyRead

\* What a row was registered for.
SameMark(old, new) ==
    /\ new.url = old.url /\ new.known = old.known
    /\ new.by = old.by /\ new.unsure = old.unsure

RowsRegistered == \A i \in SourceIds : There(i) /\ Counts(source[i]) => Registered(source[i].url)

AddsFound ==
    \A q \in Registrars : Adds(registering[q]) => FoundBy(registering[q].url, registering[q].key)

RowsApart ==
    \A i, j \in SourceIds :
        i # j /\ There(i) /\ There(j) /\ Counts(source[i]) /\ Counts(source[j]) =>
            source[i].unsure \/ source[j].unsure \/ Apart(source[i].url, source[j].url)

AddsApart ==
    \A q \in Registrars, i \in SourceIds :
        Adds(registering[q]) /\ There(i) /\ Counts(source[i]) =>
            registering[q].unsure \/ source[i].unsure \/ Apart(registering[q].url, source[i].url)

AddsAlone ==
    \A p, q \in Registrars :
        p # q /\ Adds(registering[p]) /\ Adds(registering[q]) =>
            registering[p].unsure \/ registering[q].unsure

BoardsInv ==
    /\ RowsRegistered /\ AddsFound
    /\ ~keyed.canonical => RowsApart /\ AddsApart /\ AddsAlone

LEMMA ApartBoth == ASSUME NEW u, NEW v, Apart(u, v) PROVE Apart(v, u)
BY DEF Apart, SpelledApart, HostsApart

\* Rows keep what they were registered for, or are an admin's, and what is
\* held is let go.
LEMMA LetGoKeeps ==
    ASSUME BoardsInv, keyed' = keyed,
           \A i \in SourceIds : There(i)' =>
               \/ There(i) /\ SameMark(source[i], source'[i])
               \/ source'[i].by = "admin",
           \A q \in Registrars : registering'[q] \in {registering[q], NothingHeld}
    PROVE  BoardsInv'
<1>1. \A u, key : FoundBy(u, key)' <=> FoundBy(u, key)
  BY DEF FoundBy, Submitted, Detected, TextKey, BehindKey, StoredUrl
<1>2. \A u : Registered(u)' <=> Registered(u)
  BY <1>1 DEF Registered
<1>3. \A u, v : Apart(u, v)' <=> Apart(u, v)
  BY DEF Apart, SpelledApart, HostsApart
<1>4. \A i \in SourceIds : There(i)' /\ Counts(source'[i]) =>
         /\ There(i) /\ Counts(source[i])
         /\ source'[i].url = source[i].url /\ source'[i].unsure = source[i].unsure
  BY DEF Counts, SameMark
<1>5. \A q \in Registrars : Adds(registering'[q]) => registering'[q] = registering[q]
  BY DEF Adds
<1>6. RowsRegistered'
  BY <1>2, <1>4 DEF BoardsInv, RowsRegistered, Counts
<1>7. AddsFound'
  BY <1>1, <1>5 DEF BoardsInv, AddsFound, Adds
<1>8. ~keyed.canonical => RowsApart'
  BY <1>3, <1>4 DEF BoardsInv, RowsApart, Counts
<1>9. ~keyed.canonical => AddsApart'
  BY <1>3, <1>4, <1>5 DEF BoardsInv, AddsApart, Counts, Adds
<1>10. ~keyed.canonical => AddsAlone'
  BY <1>5 DEF BoardsInv, AddsAlone, Adds
<1> QED
  BY <1>6, <1>7, <1>8, <1>9, <1>10 DEF BoardsInv

\* What a registrar that finds no row of its board can tell of the others.
LEMMA FoundApart ==
    ASSUME RegistryTypeOK, BoardsInv, NEW u \in Submitted, NEW does \in {"scan", "find"},
           NEW read \in BOOLEAN, NEW reread \in BOOLEAN, NEW r \in Found(does, u, read, reread), Adds(r)
    PROVE  /\ FoundBy(r.url, r.key)
           /\ ~keyed.canonical =>
                 /\ \A i \in SourceIds : There(i) /\ Counts(source[i]) =>
                       r.unsure \/ Apart(r.url, source[i].url)
                 /\ \A q \in Registrars : Adds(registering[q]) => r.unsure
<1> DEFINE key  == Detected(u, read)
           url  == IF key = NoKeyRead THEN SiteUrl(u) ELSE StoredUrl(key, u)
           rows == SameBoard(key, url, reread)
           beside == \E o \in Registrars : registering[o] # NothingHeld /\ registering[o].row = 0
           blind  == keyed.again \in {"fetch", "text, fetch"} /\ ~reread
<1>1. PICK i \in (IF rows = {} THEN {0} ELSE rows) :
         r = [does |-> does, row |-> i, key |-> key, url |-> url,
              placeholder |-> i = 0 \/ Placeholder(source[i]),
              official |-> IF i = 0 THEN key # NoKeyRead ELSE IsOfficialSource(source[i]),
              unsure |-> blind \/ (beside /\ ~keyed.canonical)]
  BY DEF Found
<1>2. rows \subseteq SourceIds
  BY DEF SameBoard, WithUrl
<1>3. r.row = i /\ r.key = key /\ r.url = url /\ (r.unsure <=> blind \/ (beside /\ ~keyed.canonical))
  BY <1>1
<1>4. rows = {} /\ key # NoKeyRead
  <2> HIDE DEF rows, key, url
  <2> QED
    BY <1>2, <1>3, RegistryBasics DEF Adds
<1>5. url = StoredUrl(key, u)
  BY <1>4
<1>6. FoundBy(url, key)
  BY <1>4, <1>5 DEF FoundBy
<1>7. ASSUME ~keyed.canonical, NEW j \in SourceIds, There(j), Counts(source[j]), ~r.unsure
      PROVE  Apart(r.url, source[j].url)
  <2>1. AgainKey(source[j].url, reread) # key
    BY <1>4, <1>7 DEF SameBoard, Counts
  <2>2. Registered(source[j].url)
    BY <1>7 DEF BoardsInv, RowsRegistered
  <2>3. keyed.again \in {"fetch", "text, fetch"} => reread
    BY <1>3, <1>7
  <2>4. keyed \in BoardAdapters
    BY DEF RegistryTypeOK
  <2> HIDE DEF key, url
  <2> QED
    BY <1>3, <1>6, <1>7, <2>1, <2>2, <2>3, <2>4, AgainApart
<1>8. ASSUME ~keyed.canonical, NEW q \in Registrars, Adds(registering[q]) PROVE r.unsure
  BY <1>3, <1>8 DEF Adds
<1> HIDE DEF key, url
<1> QED
  BY <1>3, <1>6, <1>7, <1>8

\* A registrar holds what it found, or a row.
LEMMA HoldApart ==
    ASSUME BoardsInv, NEW q \in Registrars, NEW r, UNCHANGED <<keyed, source>>,
           registering[q] = NothingHeld,
           registering \in [Registrars -> Held \union {NothingHeld}],
           registering' = [registering EXCEPT ![q] = r],
           Adds(r) =>
             /\ FoundBy(r.url, r.key)
             /\ ~keyed.canonical =>
                   /\ \A i \in SourceIds : There(i) /\ Counts(source[i]) =>
                         r.unsure \/ Apart(r.url, source[i].url)
                   /\ \A p \in Registrars : Adds(registering[p]) => r.unsure
    PROVE  BoardsInv'
<1>1. \A u, key : FoundBy(u, key)' <=> FoundBy(u, key)
  BY DEF FoundBy, Submitted, Detected, TextKey, BehindKey, StoredUrl
<1>2. \A u : Registered(u)' <=> Registered(u)
  BY <1>1 DEF Registered
<1>3. \A u, v : Apart(u, v)' <=> Apart(u, v)
  BY DEF Apart, SpelledApart, HostsApart
<1>4. registering'[q] = r /\ \A p \in Registrars \ {q} : registering'[p] = registering[p]
  OBVIOUS
<1>5. RowsRegistered' /\ (~keyed.canonical => RowsApart')
  BY <1>2, <1>3 DEF BoardsInv, RowsRegistered, RowsApart, There, Counts
<1>6. AddsFound'
  BY <1>1, <1>4 DEF BoardsInv, AddsFound, Adds
<1>7. ~keyed.canonical => AddsApart'
  BY <1>3, <1>4 DEF BoardsInv, AddsApart, There, Counts, Adds
<1>8. ~keyed.canonical => AddsAlone'
  BY <1>4 DEF BoardsInv, AddsAlone, Adds
<1> QED
  BY <1>5, <1>6, <1>7, <1>8 DEF BoardsInv

\* A board is added, by a registrar that is done with it.
LEMMA AddKeeps ==
    ASSUME BoardsInv, keyed' = keyed, NEW q \in Registrars, NEW i \in SourceIds, NEW new,
           registering \in [Registrars -> Held \union {NothingHeld}],
           source \in [SourceIds -> SourceRow \union {NoSource}],
           registering[q] # NothingHeld, registering[q].row = 0,
           source' = [source EXCEPT ![i] = new],
           registering' = [registering EXCEPT ![q] = NothingHeld],
           new.url = registering[q].url, new.unsure = registering[q].unsure,
           new.known => registering[q].key # NoKeyRead
    PROVE  BoardsInv'
<1>1. \A u, key : FoundBy(u, key)' <=> FoundBy(u, key)
  BY DEF FoundBy, Submitted, Detected, TextKey, BehindKey, StoredUrl
<1>2. \A u : Registered(u)' <=> Registered(u)
  BY <1>1 DEF Registered
<1>3. \A u, v : Apart(u, v)' <=> Apart(u, v)
  BY DEF Apart, SpelledApart, HostsApart
<1>4. source'[i] = new /\ \A j \in SourceIds \ {i} : source'[j] = source[j]
  OBVIOUS
<1>5. /\ \A p \in Registrars : Adds(registering'[p]) => p # q /\ registering'[p] = registering[p]
  BY DEF Adds
<1>6. Counts(new) => Adds(registering[q])
  BY DEF Adds, Counts
<1>7. Counts(new) => Registered(new.url)
  <2>1. registering[q] \in Held
    OBVIOUS
  <2>2. registering[q].key \in Keys
    BY <2>1 DEF Held
  <2> QED
    BY <1>6, <2>2 DEF BoardsInv, AddsFound, Registered
<1>8. RowsRegistered'
  BY <1>2, <1>4, <1>7 DEF BoardsInv, RowsRegistered, There, Counts
<1>9. AddsFound'
  BY <1>1, <1>5 DEF BoardsInv, AddsFound, Adds
<1>10. ASSUME ~keyed.canonical, Counts(new), NEW j \in SourceIds \ {i}, There(j), Counts(source[j])
       PROVE  new.unsure \/ source[j].unsure \/ Apart(new.url, source[j].url)
  BY <1>6, <1>10 DEF BoardsInv, AddsApart
<1>11. ~keyed.canonical => RowsApart'
  <2> SUFFICES ASSUME ~keyed.canonical, NEW j \in SourceIds, NEW k \in SourceIds, j # k,
                      There(j)', There(k)', Counts(source'[j]), Counts(source'[k])
               PROVE  source'[j].unsure \/ source'[k].unsure \/ Apart(source'[j].url, source'[k].url)
    BY <1>3 DEF RowsApart, Counts
  <2>1. CASE j = i
    <3>1. There(k) /\ source'[k] = source[k]
      BY <2>1, <1>4 DEF There
    <3> QED
      BY <2>1, <3>1, <1>4, <1>10
  <2>2. CASE k = i
    <3>1. There(j) /\ source'[j] = source[j] /\ j \in SourceIds \ {i}
      BY <2>2, <1>4 DEF There
    <3>2. new.unsure \/ source[j].unsure \/ Apart(new.url, source[j].url)
      BY <2>2, <3>1, <1>4, <1>10
    <3> QED
      BY <2>2, <3>1, <3>2, <1>4, ApartBoth
  <2>3. CASE j # i /\ k # i
    BY <2>3, <1>4 DEF BoardsInv, RowsApart, There
  <2> QED
    BY <2>1, <2>2, <2>3
<1>12. ~keyed.canonical => AddsApart'
  <2> SUFFICES ASSUME ~keyed.canonical, NEW p \in Registrars, NEW j \in SourceIds,
                      Adds(registering'[p]), There(j)', Counts(source'[j])
               PROVE  registering'[p].unsure \/ source'[j].unsure \/ Apart(registering'[p].url, source'[j].url)
    BY <1>3 DEF AddsApart, Counts, Adds
  <2>1. p # q /\ registering'[p] = registering[p] /\ Adds(registering[p])
    BY <1>5
  <2>2. CASE j = i
    BY <2>1, <2>2, <1>4, <1>6 DEF BoardsInv, AddsAlone
  <2>3. CASE j # i
    BY <2>1, <2>3, <1>4 DEF BoardsInv, AddsApart, There
  <2> QED
    BY <2>2, <2>3
<1>13. ~keyed.canonical => AddsAlone'
  BY <1>5 DEF BoardsInv, AddsAlone, Adds
<1> QED
  BY <1>8, <1>9, <1>11, <1>12, <1>13 DEF BoardsInv

\* One row is named or removed, or is an admin's; nothing is added.
LEMMA RowLeft ==
    ASSUME RegistryInv, BoardsInv, keyed' = keyed, NEW i \in SourceIds, NEW new,
           source' = [source EXCEPT ![i] = new],
           (There(i) /\ SameMark(source[i], new)) \/ new.by = "admin" \/ new = NoSource,
           \A q \in Registrars : registering'[q] \in {registering[q], NothingHeld}
    PROVE  BoardsInv'
<1>1. source'[i] = new /\ \A j \in SourceIds \ {i} : source'[j] = source[j]
  BY DEF RegistryInv, RegistryTypeOK
<1>2. \A j \in SourceIds : There(j)' =>
         \/ There(j) /\ SameMark(source[j], source'[j])
         \/ source'[j].by = "admin"
  BY <1>1 DEF There, SameMark
<1> QED
  BY <1>2, LetGoKeeps

LEMMA LookupApart ==
    ASSUME RegistryInv, BoardsInv, NEW q \in Registrars, SubmitUrl(q) \/ FindBoard(q)
    PROVE  BoardsInv'
<1>1. RegistryTypeOK /\ registering \in [Registrars -> Held \union {NothingHeld}]
  BY DEF RegistryInv, HoldersTypeOK
<1>2. \E does \in {"scan", "find"}, u \in Submitted, read \in BOOLEAN, reread \in BOOLEAN :
         \E r \in Found(does, u, read, reread) :
            /\ registering[q] = NothingHeld
            /\ registering' = [registering EXCEPT ![q] = r]
            /\ UNCHANGED <<keyed, source, confirming>>
  <2>1. CASE SubmitUrl(q)
    <3> DEFINE found == UNION {Found("scan", u, read, reread) : u \in Submitted, read, reread \in BOOLEAN}
    <3>1. Hold(q, found)
      BY <2>1 DEF SubmitUrl
    <3>2. ASSUME NEW r \in found
          PROVE  \E u \in Submitted, read \in BOOLEAN, reread \in BOOLEAN : r \in Found("scan", u, read, reread)
      OBVIOUS
    <3> HIDE DEF found
    <3> QED
      BY <3>1, <3>2 DEF Hold
  <2>2. CASE FindBoard(q)
    <3> DEFINE read == TRUE
               known == {v \in Submitted : TextKey(v) # NoKeyRead}
               found == UNION {Found("find", u, read, reread) : u \in known, reread \in BOOLEAN}
    <3>1. Hold(q, found) /\ read \in BOOLEAN
      BY <2>2 DEF FindBoard
    <3>2. known \subseteq Submitted
      OBVIOUS
    <3> HIDE DEF read, known
    <3>3. ASSUME NEW r \in found
          PROVE  \E u \in Submitted, reread \in BOOLEAN : r \in Found("find", u, read, reread)
      BY <3>2
    <3> HIDE DEF found
    <3> QED
      BY <3>1, <3>3 DEF Hold
  <2> QED
    BY <2>1, <2>2
<1>3. PICK does \in {"scan", "find"}, u \in Submitted, read \in BOOLEAN, reread \in BOOLEAN :
         \E r \in Found(does, u, read, reread) :
            /\ registering[q] = NothingHeld
            /\ registering' = [registering EXCEPT ![q] = r]
            /\ UNCHANGED <<keyed, source, confirming>>
  BY <1>2
<1>4. PICK r \in Found(does, u, read, reread) :
         /\ registering[q] = NothingHeld
         /\ registering' = [registering EXCEPT ![q] = r]
         /\ UNCHANGED <<keyed, source, confirming>>
  BY <1>3
<1> QED
  BY <1>1, <1>4, FoundApart, HoldApart

LEMMA ScanApart ==
    ASSUME RegistryInv, BoardsInv, NEW q \in Registrars, NEW i \in SourceIds, ScanSource(q, i)
    PROVE  BoardsInv'
<1> DEFINE r == [does |-> "scan", row |-> i, key |-> NoKeyRead, url |-> source[i].url,
                 placeholder |-> Placeholder(source[i]), official |-> IsOfficialSource(source[i]),
                 unsure |-> FALSE]
<1>1. /\ registering[q] = NothingHeld /\ registering' = [registering EXCEPT ![q] = r]
      /\ UNCHANGED <<keyed, source>>
  BY DEF ScanSource, Hold
<1>2. r.key = NoKeyRead
  OBVIOUS
<1>3. registering \in [Registrars -> Held \union {NothingHeld}]
  BY DEF RegistryInv, HoldersTypeOK
<1> HIDE DEF r
<1> QED
  BY <1>1, <1>2, <1>3, HoldApart DEF Adds

\* What a registrar writes to a row that was there, it was registered for.
LEMMA WrittenApart ==
    ASSUME RegistryInv, BoardsInv, NEW q \in Registrars, NEW i \in SourceIds, There(i),
           NEW does \in {"scan", "find"}, NEW p \in BOOLEAN, NEW o \in BOOLEAN,
           NEW record \in Named(does, source[i], p, o), Conclude(q, i, Written(i, record))
    PROVE  BoardsInv'
<1> DEFINE new == Written(i, record)
<1>1. source[i] \in SourceRow
  BY DEF RegistryInv, RegistryTypeOK, There
<1>2. record \in SourceRow /\ SameMark(source[i], record)
  BY <1>1, NamesKeep DEF SameMark
<1>3. SameMark(source[i], new)
  <2>1. SameMark(record, [record EXCEPT !.met = TRUE])
    BY <1>2 DEF SourceRow, SameMark
  <2> QED
    BY <1>2, <2>1 DEF Written, SameMark
<1>4. source' = [source EXCEPT ![i] = new] /\ keyed' = keyed
      /\ registering' = [registering EXCEPT ![q] = NothingHeld]
  BY DEF Conclude
<1> HIDE DEF new
<1>5. \A x \in Registrars : registering'[x] \in {registering[x], NothingHeld}
  BY <1>4 DEF RegistryInv, HoldersTypeOK
<1> QED
  BY <1>3, <1>4, <1>5, RowLeft

LEMMA ConcludeFoundApart ==
    ASSUME RegistryInv, BoardsInv, NEW q \in Registrars, ConcludeFound(q)
    PROVE  BoardsInv'
<1> DEFINE r == registering[q]
<1>1. r # NothingHeld /\ r.row # 0
  BY DEF ConcludeFound
<1>2. r \in Held /\ There(r.row)
  BY <1>1 DEF RegistryInv, HoldersTypeOK, HolderKnows
<1>3. r.row \in SourceIds /\ r.does \in {"scan", "find"} /\ r.placeholder \in BOOLEAN /\ r.official \in BOOLEAN
  BY <1>1, <1>2 DEF Held
<1>4. PICK record \in Named(r.does, source[r.row], r.placeholder, r.official) :
         Conclude(q, r.row, Written(r.row, record))
  BY DEF ConcludeFound
<1> HIDE DEF r
<1> QED
  BY <1>2, <1>3, <1>4, WrittenApart

LEMMA ConcludeNewApart ==
    ASSUME RegistryInv, BoardsInv, NEW q \in Registrars, ConcludeNew(q)
    PROVE  BoardsInv'
<1> DEFINE r == registering[q]
           status == IF r.key # NoKeyRead /\ r.does = "scan" THEN "active" ELSE "pending"
           new == NewRow(r.url, r.key, status, r.unsure)
<1>1. r # NothingHeld /\ r \in Held /\ r.row = 0
  BY DEF ConcludeNew, RegistryInv, HoldersTypeOK
<1>2. r.url \in BoardUrl /\ r.does \in {"scan", "find"} /\ r.unsure \in BOOLEAN
  BY <1>1 DEF Held
<1>3. /\ new \in SourceRow /\ new.url = r.url /\ new.unsure = r.unsure
      /\ new.known => r.key # NoKeyRead
  <2>1. status \in {"active", "pending"}
    OBVIOUS
  <2>2. new = NewRow(r.url, r.key, status, r.unsure)
    OBVIOUS
  <2>3. new.unsure = r.unsure
    BY DEF NewRow
  <2> HIDE DEF r, status, new
  <2> QED
    BY <2>1, <2>2, <2>3, <1>2, NewRowTyped
<1>4. CASE \E i \in SourceIds :
              /\ ~There(i) /\ \A j \in 1 .. i - 1 : There(j)
              /\ \E record \in Named(r.does, new, TRUE, IsOfficialSource(new)) : Conclude(q, i, record)
  <2>1. PICK i \in SourceIds, record \in Named(r.does, new, TRUE, IsOfficialSource(new)) : Conclude(q, i, record)
    BY <1>4
  <2> DEFINE yes == TRUE
  <2>2. IsOfficialSource(new) \in BOOLEAN /\ yes \in BOOLEAN
        /\ record \in Named(r.does, new, yes, IsOfficialSource(new))
    BY DEF IsOfficialSource
  <2> HIDE DEF new, yes
  <2>3. record.url = r.url /\ record.unsure = r.unsure /\ (record.known => r.key # NoKeyRead)
    BY <2>2, <1>2, <1>3, NamesKeep
  <2>4. /\ source' = [source EXCEPT ![i] = record] /\ keyed' = keyed
        /\ registering' = [registering EXCEPT ![q] = NothingHeld]
        /\ registering \in [Registrars -> Held \union {NothingHeld}]
        /\ source \in [SourceIds -> SourceRow \union {NoSource}]
    BY <2>1 DEF Conclude, RegistryInv, RegistryTypeOK, HoldersTypeOK
  <2> QED
    BY <1>1, <2>3, <2>4, AddKeeps
<1>5. CASE \E i \in WithUrl(r.url) :
              \E record \in Named(r.does, source[i], Placeholder(source[i]), IsOfficialSource(source[i])) :
                  Conclude(q, i, Written(i, record))
  <2>1. PICK i \in WithUrl(r.url) :
           \E record \in Named(r.does, source[i], Placeholder(source[i]), IsOfficialSource(source[i])) :
                  Conclude(q, i, Written(i, record))
    BY <1>5
  <2>2. i \in SourceIds /\ There(i) /\ Placeholder(source[i]) \in BOOLEAN /\ IsOfficialSource(source[i]) \in BOOLEAN
    BY DEF WithUrl, Placeholder, IsOfficialSource
  <2> QED
    BY <1>2, <2>1, <2>2, WrittenApart
<1> HIDE DEF status
<1>6. (\E i \in SourceIds :
                 /\ ~There(i) /\ \A j \in 1 .. i - 1 : There(j)
                 /\ \E record \in Named(r.does, new, TRUE, IsOfficialSource(new)) : Conclude(q, i, record))
      \/ \E i \in WithUrl(r.url) :
              \E record \in Named(r.does, source[i], Placeholder(source[i]), IsOfficialSource(source[i])) :
                  Conclude(q, i, Written(i, record))
  BY DEF ConcludeNew, status
<1> HIDE DEF new, r
<1> QED
  BY <1>4, <1>5, <1>6

LEMMA AdminApart ==
    ASSUME RegistryInv, BoardsInv, NEW i \in SourceIds,
           \/ CreateSource(i) \/ ResolveSource(i)
           \/ \E status \in {"active", "pending"} : SetSourceStatus(i, status)
    PROVE  BoardsInv'
<1>1. source \in [SourceIds -> SourceRow \union {NoSource}]
  BY DEF RegistryInv, RegistryTypeOK
<1>2. CASE CreateSource(i)
  <2>1. PICK u \in Submitted :
           /\ source' = [source EXCEPT ![i] =
                [NewRow(u, Detected(u, TRUE), "active", FALSE) EXCEPT
                    !.name = "typed", !.from = "manual", !.by = "admin", !.confirmed = "typed"]]
           /\ UNCHANGED <<keyed, registering, confirming>>
    BY <1>2 DEF CreateSource
  <2> DEFINE new == [NewRow(u, Detected(u, TRUE), "active", FALSE) EXCEPT
                        !.name = "typed", !.from = "manual", !.by = "admin", !.confirmed = "typed"]
  <2>2. new.by = "admin" /\ source' = [source EXCEPT ![i] = new]
    BY <2>1 DEF NewRow
  <2> HIDE DEF new
  <2> QED
    BY <2>1, <2>2, RowLeft
<1>3. CASE ResolveSource(i)
  <2>1. PICK u \in Submitted, status \in {"active", "pending"} :
          /\ There(i)
          /\ source' = [source EXCEPT ![i].url = u, ![i].known = TRUE, ![i].status = status, ![i].by = "admin"]
          /\ UNCHANGED <<keyed, registering, confirming>>
    BY <1>3 DEF ResolveSource
  <2> DEFINE new == [source[i] EXCEPT !.url = u, !.known = TRUE, !.status = status, !.by = "admin"]
  <2>2. source[i] \in SourceRow
    BY <1>1, <2>1 DEF There
  <2>3. source' = [source EXCEPT ![i] = new] /\ new.by = "admin"
    BY <1>1, <2>1, <2>2 DEF SourceRow
  <2> HIDE DEF new
  <2> QED
    BY <2>1, <2>3, RowLeft
<1>4. ASSUME NEW status \in {"active", "pending"}, SetSourceStatus(i, status) PROVE BoardsInv'
  <2> DEFINE new == [source[i] EXCEPT !.status = status]
  <2>1. source[i] \in SourceRow /\ There(i)
    BY <1>1, <1>4 DEF SetSourceStatus, There
  <2>2. SameMark(source[i], new)
    BY <2>1 DEF SourceRow, SameMark
  <2>3. source' = [source EXCEPT ![i] = new] /\ UNCHANGED <<keyed, registering>>
    BY <1>1, <1>4 DEF SetSourceStatus
  <2> HIDE DEF new
  <2> QED
    BY <2>1, <2>2, <2>3, RowLeft
<1> QED
  BY <1>2, <1>3, <1>4

LEMMA ConfirmApart ==
    ASSUME RegistryInv, BoardsInv, CommitConfirm
    PROVE  BoardsInv'
<1> DEFINE i == confirming.row
           old == source[i]
<1>1. confirming # NothingHeld /\ confirming \in Confirmation /\ There(i) /\ i \in SourceIds
  BY DEF CommitConfirm, RegistryInv, HoldersTypeOK, AdminKnows, Confirmation
<1>2. old \in SourceRow /\ source \in [SourceIds -> SourceRow \union {NoSource}]
  BY <1>1 DEF RegistryInv, RegistryTypeOK, There
<1> DEFINE found == \E q \in Registrars : /\ registering[q] # NothingHeld
                                          /\ registering[q].row = i /\ registering[q].does = "find"
           name == IF confirming.name # confirming.was THEN confirming.name ELSE old.name
           from == IF confirming.from # "manual" THEN "manual" ELSE old.from
           met == old.met \/ found
           new == [old EXCEPT !.name = name, !.from = from, !.confirmed = confirming.name, !.met = met]
<1>3. source' = [source EXCEPT ![i] = new]
  BY <1>1, <1>2 DEF CommitConfirm
<1> HIDE DEF found, name, from, met
<1>4. SameMark(old, new)
  BY <1>2 DEF SourceRow, SameMark
<1>5. source' = [source EXCEPT ![i] = new] /\ UNCHANGED <<keyed, registering>>
  BY <1>3 DEF CommitConfirm
<1> HIDE DEF new
<1> QED
  BY <1>1, <1>4, <1>5, RowLeft

LEMMA BoardsInvStep ==
    ASSUME RegistryInv, BoardsInv, [RegistryNext]_registryVars
    PROVE  BoardsInv'
<1>1. ASSUME NEW q \in Registrars, AbandonRegistering(q) PROVE BoardsInv'
  <2>1. /\ registering' = [registering EXCEPT ![q] = NothingHeld] /\ UNCHANGED <<keyed, source>>
        /\ registering \in [Registrars -> Held \union {NothingHeld}]
    BY <1>1 DEF AbandonRegistering, RegistryInv, HoldersTypeOK
  <2>2. \A x \in Registrars : registering'[x] \in {registering[x], NothingHeld}
    BY <2>1
  <2>3. \A i \in SourceIds : There(i)' => There(i) /\ SameMark(source[i], source'[i])
    BY <2>1 DEF There, SameMark
  <2> QED
    BY <2>1, <2>2, <2>3, LetGoKeeps
<1>2. ASSUME NEW i \in SourceIds, RemoveSource(i) PROVE BoardsInv'
  <2>1. source' = [source EXCEPT ![i] = NoSource] /\ keyed' = keyed
    BY <1>2 DEF RemoveSource
  <2>2. \A x \in Registrars : registering'[x] \in {registering[x], NothingHeld}
    BY <1>2 DEF RemoveSource
  <2> QED
    BY <2>1, <2>2, RowLeft
<1>3. ASSUME UNCHANGED <<keyed, source, registering>> PROVE BoardsInv'
  <2>1. \A i \in SourceIds : There(i)' => There(i) /\ SameMark(source[i], source'[i])
    BY <1>3 DEF There, SameMark
  <2> QED
    BY <1>3, <2>1, LetGoKeeps
<1>4. ASSUME NEW i \in SourceIds, BeginConfirm(i) PROVE BoardsInv'
  BY <1>3, <1>4 DEF BeginConfirm
<1>5. CASE UNCHANGED registryVars
  BY <1>3, <1>5 DEF registryVars
<1> QED
  BY <1>1, <1>2, <1>4, <1>5, LookupApart, ScanApart, ConcludeFoundApart, ConcludeNewApart, AdminApart,
     ConfirmApart DEF RegistryNext

\* For any number of sources and registrars, and any adapters that read again
\* what they store: the URLs of one board become one source, but for what an
\* admin typed, for two that were registered at once, and for stored pages
\* that could not be read.
THEOREM OneSource == RegistrySpec => []OneSourcePerBoard
<1>1. RegistryInv /\ BoardsInv => OneSourcePerBoard
  <2> SUFFICES ASSUME RegistryInv, BoardsInv, NEW i \in SourceIds, NEW j \in SourceIds, i # j, There(i), There(j),
                      Counts(source[i]), Counts(source[j])
               PROVE  source[i].unsure \/ source[j].unsure \/ Apart(source[i].url, source[j].url)
    BY DEF OneSourcePerBoard, Counts, Apart
  <2>1. CASE keyed.canonical
    <3>1. Registered(source[i].url) /\ Registered(source[j].url)
      BY DEF BoardsInv, RowsRegistered
    <3>2. source[i].url # source[j].url /\ keyed \in BoardAdapters
      BY DEF RegistryInv, RegistryTypeOK
    <3> QED
      BY <2>1, <3>1, <3>2, CanonicalApart
  <2>2. CASE ~keyed.canonical
    BY <2>2 DEF BoardsInv, RowsApart
  <2> QED
    BY <2>1, <2>2
<1>2. RegistryInit => RegistryInv /\ BoardsInv
  <2>1. ASSUME RegistryInit PROVE BoardsInv
    <3>1. (\A i \in SourceIds : ~There(i)) /\ \A q \in Registrars : ~Adds(registering[q])
      BY <2>1 DEF RegistryInit, There, Adds
    <3> QED
      BY <3>1 DEF BoardsInv, RowsRegistered, AddsFound, RowsApart, AddsApart, AddsAlone
  <2> QED
    BY <2>1, RegistryInvInit
<1>3. RegistryInv /\ BoardsInv /\ [RegistryNext]_registryVars => (RegistryInv /\ BoardsInv)'
  BY RegistryInvStep, BoardsInvStep
<1> QED
  BY <1>1, <1>2, <1>3, PTL DEF RegistrySpec

-----------------------------------------------------------------------------
\* CompanyLogos: the logo of a company.

\* An outcome of a lookup of a row.
Outcome == [new : CompanyRow, put : BOOLEAN]

SyncsReading == [phase : {"looking"}, company : Companies, read : CompanyRow]

SyncsStored == [phase : {"stored"}, company : Companies, read : CompanyRow, new : CompanyRow, put : BOOLEAN]

\* What is stored was found for the row as it was read.
StoredWasFound ==
    sync.phase = "stored" =>
        \E outcome \in Lookups(sync.read) : sync.new = outcome.new /\ sync.put = outcome.put

ReadUnpinned == sync.phase # "idle" => sync.read.origin # "pinned"

ManualHasDomain == \A c \in Companies : row[c].source = "manual" => row[c].domain # NoDomain

\* An automatic logo is that of a row's own domain.
LogoIsOwn(r) == r.origin = "logo_dev" => Usable(r) /\ r.logo = r.domain

\* The alias shows what the row has, unless the sync has stored anew.
AliasShows ==
    \A c \in Companies \ doubt :
        row[c].origin # "none" \/ row[c].status \in {"ok", "none"} =>
            alias[c] = row[c].logo \/ (sync.phase = "stored" /\ sync.company = c /\ sync.put)

LogosInv ==
    /\ LogosTypeOK /\ StoredWasFound /\ ReadUnpinned /\ ManualHasDomain
    /\ \A c \in Companies \ doubt : LogoIsOwn(row[c])
    /\ AliasShows

LEMMA LogoBasics ==
    /\ \A d \in Domains : d # NoDomain
    /\ \A c \in Companies : c # NoCompany
    /\ \A r \in CompanyRow :
          /\ r.domain \in Domains \union {NoDomain} /\ r.source \in DomainSources /\ r.logo \in Logos
          /\ r.origin \in {"none", "logo_dev", "pinned"} /\ r.status \in {"untried", "ok", "none", "error"}
    /\ \A d \in Domains \union {NoDomain}, kind \in DomainSources, logo \in Logos,
          origin \in {"none", "logo_dev", "pinned"}, status \in {"untried", "ok", "none", "error"} :
             [domain |-> d, source |-> kind, logo |-> logo, origin |-> origin, status |-> status] \in CompanyRow
    /\ IdleSync.phase = "idle"
    /\ \A s \in SyncsReading : s.phase = "looking" /\ s.company \in Companies /\ s.read \in CompanyRow
    /\ \A s \in SyncsStored : /\ s.phase = "stored" /\ s.company \in Companies /\ s.read \in CompanyRow
                              /\ s.new \in CompanyRow /\ s.put \in BOOLEAN
    /\ NoLogo \in Logos /\ Pinned \in Logos /\ Domains \subseteq Logos
<1>1. (\A d \in Domains : d # NoDomain) /\ \A c \in Companies : c # NoCompany
  BY CompanyLogosAssumption
<1>2. \A r \in CompanyRow :
          /\ r.domain \in Domains \union {NoDomain} /\ r.source \in DomainSources /\ r.logo \in Logos
          /\ r.origin \in {"none", "logo_dev", "pinned"} /\ r.status \in {"untried", "ok", "none", "error"}
  BY DEF CompanyRow
<1>3. \A d \in Domains \union {NoDomain}, kind \in DomainSources, logo \in Logos,
          origin \in {"none", "logo_dev", "pinned"}, status \in {"untried", "ok", "none", "error"} :
             [domain |-> d, source |-> kind, logo |-> logo, origin |-> origin, status |-> status] \in CompanyRow
  BY DEF CompanyRow
<1>4. IdleSync.phase = "idle"
  BY DEF IdleSync
<1>5. \A s \in SyncsReading : s.phase = "looking" /\ s.company \in Companies /\ s.read \in CompanyRow
  BY DEF SyncsReading
<1>6. \A s \in SyncsStored : /\ s.phase = "stored" /\ s.company \in Companies /\ s.read \in CompanyRow
                              /\ s.new \in CompanyRow /\ s.put \in BOOLEAN
  BY DEF SyncsStored
<1>7. NoLogo \in Logos /\ Pinned \in Logos /\ Domains \subseteq Logos
  BY DEF Logos
<1> QED
  BY <1>1, <1>2, <1>3, <1>4, <1>5, <1>6, <1>7

LEMMA ClearedIs ==
    ASSUME NEW r \in CompanyRow
    PROVE  /\ Cleared(r) \in CompanyRow /\ Cleared(r).domain = r.domain /\ Cleared(r).source = r.source
           /\ r.origin = "pinned" => Cleared(r) = r
           /\ r.origin # "pinned" => /\ Cleared(r).logo = NoLogo /\ Cleared(r).origin = "none"
                                     /\ Cleared(r).status = "untried"
<1>1. CASE r.origin = "pinned"
  BY <1>1 DEF Cleared
<1>2. CASE r.origin # "pinned"
  <2>1. Cleared(r) = [r EXCEPT !.logo = NoLogo, !.origin = "none", !.status = "untried"]
    BY <1>2 DEF Cleared
  <2>2. NoLogo \in Logos
    BY LogoBasics
  <2>3. Cleared(r) \in CompanyRow
    BY <2>1, <2>2 DEF CompanyRow
  <2> QED
    BY <1>2, <2>1, <2>3 DEF CompanyRow
<1> QED
  BY <1>1, <1>2

\* What a scan does to a company's row.
Follows(new, old) ==
    /\ new.source = "manual" <=> old.source = "manual"
    /\ old.source = "manual" => new.domain = old.domain
    /\ old.origin = "pinned" => new.origin = "pinned"
    /\ \/ new.origin = "none" /\ new.status = "untried"
       \/ /\ new.logo = old.logo /\ new.origin = old.origin /\ new.status = old.status
          /\ new.origin = "logo_dev" => new.domain = old.domain /\ (Usable(old) => Usable(new))

LEMMA FollowsItself == \A r \in CompanyRow : Follows(r, r)
<1> QED
  BY DEF Follows

LEMMA FollowsOn ==
    ASSUME NEW a \in CompanyRow, NEW b \in CompanyRow, NEW c \in CompanyRow, Follows(b, a), Follows(c, b)
    PROVE  Follows(c, a)
<1> QED
  BY DEF Follows, Usable

LEMMA SourceFollows ==
    ASSUME NEW r \in CompanyRow, NEW kind \in {"jsonld", "site_host"}, r.source # "manual",
           r.domain # NoDomain
    PROVE  [r EXCEPT !.source = kind] \in CompanyRow /\ Follows([r EXCEPT !.source = kind], r)
<1> DEFINE new == [r EXCEPT !.source = kind]
<1>1. new \in CompanyRow /\ new.source = kind /\ new.domain = r.domain /\ new.logo = r.logo
      /\ new.origin = r.origin /\ new.status = r.status
  BY DEF CompanyRow, DomainSources
<1> HIDE DEF new
<1> QED
  BY <1>1 DEF Follows, Usable, new

LEMMA DomainFollows ==
    ASSUME NEW r \in CompanyRow, NEW d \in Domains \union {NoDomain},
           NEW kind \in DomainSources \ {"manual"}, r.source # "manual"
    PROVE  LET new == Cleared([r EXCEPT !.domain = d, !.source = kind])
           IN  new \in CompanyRow /\ Follows(new, r)
<1> DEFINE changed == [r EXCEPT !.domain = d, !.source = kind]
<1>1. changed \in CompanyRow /\ changed.source = kind /\ changed.domain = d /\ changed.logo = r.logo
      /\ changed.origin = r.origin /\ changed.status = r.status
  BY DEF CompanyRow, DomainSources
<1> HIDE DEF changed
<1>2. Cleared(changed) \in CompanyRow /\ Follows(Cleared(changed), r)
  BY <1>1, ClearedIs DEF Follows
<1> QED
  BY <1>2 DEF changed

LEMMA SharedFollows ==
    ASSUME NEW r \in CompanyRow, r.source = "site_host"
    PROVE  Cleared([r EXCEPT !.source = "shared"]) \in CompanyRow
             /\ Follows(Cleared([r EXCEPT !.source = "shared"]), r)
<1> DEFINE changed == [r EXCEPT !.source = "shared"]
<1>1. changed \in CompanyRow /\ changed.source = "shared" /\ changed.domain = r.domain /\ changed.logo = r.logo
      /\ changed.origin = r.origin /\ changed.status = r.status
  BY DEF CompanyRow, DomainSources
<1> HIDE DEF changed
<1>2. Cleared(changed) \in CompanyRow /\ Follows(Cleared(changed), r)
  BY <1>1, ClearedIs DEF Follows
<1> QED
  BY <1>2 DEF changed

LEMMA EvictedFollows ==
    ASSUME NEW rows \in [Companies -> CompanyRow], NEW d
    PROVE  /\ Evicted(rows, d) \in [Companies -> CompanyRow]
           /\ \A o \in Companies : Follows(Evicted(rows, d)[o], rows[o])
<1> DEFINE new(o) == Cleared([rows[o] EXCEPT !.source = "shared"])
<1>1. Evicted(rows, d) = [o \in Companies |-> IF rows[o].domain = d /\ rows[o].source = "site_host" THEN new(o)
                                              ELSE rows[o]]
  BY DEF Evicted
<1>2. \A o \in Companies : rows[o].source = "site_host" => new(o) \in CompanyRow /\ Follows(new(o), rows[o])
  BY SharedFollows
<1> HIDE DEF new
<1> QED
  BY <1>1, <1>2, FollowsItself

Considered == [rows : [Companies -> CompanyRow], done : BOOLEAN]
Candidate == [source : {"jsonld", "site_host"}, domain : Domains \union {NoDomain}]

LEMMA ConsiderFollows ==
    ASSUME NEW c \in Companies, NEW st \in Considered, NEW candidate \in Candidate
    PROVE  /\ Consider(c, st, candidate) \in Considered
           /\ \A o \in Companies : Follows(Consider(c, st, candidate).rows[o], st.rows[o])
<1> DEFINE r == st.rows[c]
           d == candidate.domain
           yes == TRUE
           moved == Cleared([st.rows[c] EXCEPT !.domain = d, !.source = candidate.source])
           kept == [st.rows[c] EXCEPT !.source = candidate.source]
           next == Consider(c, st, candidate)
<1>1. /\ st.rows \in [Companies -> CompanyRow] /\ st.done \in BOOLEAN /\ r \in CompanyRow
      /\ candidate.source \in {"jsonld", "site_host"} /\ d \in Domains \union {NoDomain}
  BY DEF Considered, Candidate
<1>2. yes \in BOOLEAN
  OBVIOUS
<1>3. \/ next = [st EXCEPT !.done = yes]
      \/ next = st
      \/ next = [st EXCEPT !.rows = Evicted(st.rows, d)]
      \/ /\ ~(Rank(candidate.source) < Rank(r.source)) /\ d # NoDomain /\ d = r.domain
         /\ next = [rows |-> [st.rows EXCEPT ![c].source = candidate.source], done |-> yes]
      \/ /\ ~(Rank(candidate.source) < Rank(r.source)) /\ d # NoDomain
         /\ next = [rows |-> [st.rows EXCEPT ![c] = moved], done |-> yes]
  BY DEF Consider
<1> HIDE DEF next, yes
<1>4. ~(Rank(candidate.source) < Rank(r.source)) => r.source # "manual"
  BY <1>1 DEF Rank
<1>5. CASE next = [st EXCEPT !.done = yes]
  <2>1. next \in Considered /\ next.rows = st.rows
    BY <1>2, <1>5 DEF Considered
  <2> QED
    BY <2>1, <1>1, FollowsItself DEF next
<1>6. CASE next = st
  BY <1>1, <1>6, FollowsItself DEF next
<1>7. CASE next = [st EXCEPT !.rows = Evicted(st.rows, d)]
  <2>1. Evicted(st.rows, d) \in [Companies -> CompanyRow]
    BY <1>1, EvictedFollows
  <2>2. next \in Considered /\ next.rows = Evicted(st.rows, d)
    BY <2>1, <1>7 DEF Considered
  <2> QED
    BY <2>2, <1>1, EvictedFollows DEF next
<1>8. CASE /\ ~(Rank(candidate.source) < Rank(r.source)) /\ d # NoDomain /\ d = r.domain
           /\ next = [rows |-> [st.rows EXCEPT ![c].source = candidate.source], done |-> yes]
  <2>1. kept \in CompanyRow /\ Follows(kept, r)
    BY <1>1, <1>4, <1>8, SourceFollows
  <2>2. [st.rows EXCEPT ![c].source = candidate.source] = [st.rows EXCEPT ![c] = kept]
    BY <1>1
  <2> HIDE DEF kept
  <2>3. [st.rows EXCEPT ![c] = kept] \in [Companies -> CompanyRow]
        /\ \A o \in Companies : Follows([st.rows EXCEPT ![c] = kept][o], st.rows[o])
    BY <2>1, <1>1, FollowsItself
  <2>4. next \in Considered /\ next.rows = [st.rows EXCEPT ![c] = kept]
    BY <2>2, <2>3, <1>2, <1>8 DEF Considered
  <2> QED
    BY <2>3, <2>4 DEF next
<1>9. CASE /\ ~(Rank(candidate.source) < Rank(r.source)) /\ d # NoDomain
           /\ next = [rows |-> [st.rows EXCEPT ![c] = moved], done |-> yes]
  <2>1. moved \in CompanyRow /\ Follows(moved, r)
    BY <1>1, <1>4, <1>9, DomainFollows DEF DomainSources
  <2> HIDE DEF moved
  <2>3. [st.rows EXCEPT ![c] = moved] \in [Companies -> CompanyRow]
        /\ \A o \in Companies : Follows([st.rows EXCEPT ![c] = moved][o], st.rows[o])
    BY <2>1, <1>1, FollowsItself
  <2>4. next \in Considered /\ next.rows = [st.rows EXCEPT ![c] = moved]
    BY <2>3, <1>2, <1>9 DEF Considered
  <2> QED
    BY <2>3, <2>4 DEF next
<1> QED
  BY <1>3, <1>5, <1>6, <1>7, <1>8, <1>9

LEMMA ResolvedFollows ==
    ASSUME row \in [Companies -> CompanyRow], NEW c \in Companies, NEW org \in Signals, NEW page \in Signals,
           NEW board \in Signals
    PROVE  /\ Resolved(c, org, page, board) \in [Companies -> CompanyRow]
           /\ \A o \in Companies : Follows(Resolved(c, org, page, board)[o], row[o])
<1> DEFINE no == FALSE
           st0 == [rows |-> row, done |-> no]
           c1 == [source |-> "jsonld", domain |-> org]
           c2 == [source |-> "site_host", domain |-> page]
           c3 == [source |-> "site_host", domain |-> board]
           st1 == Consider(c, st0, c1)
           st2 == Consider(c, st1, c2)
           st3 == Consider(c, st2, c3)
<1>1. Resolved(c, org, page, board) = st3.rows
  BY DEF Resolved
<1>2. no \in BOOLEAN /\ c1 \in Candidate /\ c2 \in Candidate /\ c3 \in Candidate
  BY DEF Candidate, Signals
<1> HIDE DEF no, c1, c2, c3
<1>3. st0 \in Considered /\ st0.rows = row
  BY <1>2 DEF Considered
<1> HIDE DEF st0
<1>4. st1 \in Considered /\ \A o \in Companies : Follows(st1.rows[o], st0.rows[o])
  BY <1>2, <1>3, ConsiderFollows
<1> HIDE DEF st1
<1>5. st2 \in Considered /\ \A o \in Companies : Follows(st2.rows[o], st1.rows[o])
  BY <1>2, <1>4, ConsiderFollows
<1> HIDE DEF st2
<1>6. st3 \in Considered /\ \A o \in Companies : Follows(st3.rows[o], st2.rows[o])
  BY <1>2, <1>5, ConsiderFollows
<1> HIDE DEF st3
<1>7. \A st \in Considered : st.rows \in [Companies -> CompanyRow]
  BY DEF Considered
<1>8. \A o \in Companies : Follows(st3.rows[o], row[o])
  <2> TAKE o \in Companies
  <2>1. row[o] \in CompanyRow /\ st1.rows[o] \in CompanyRow /\ st2.rows[o] \in CompanyRow /\ st3.rows[o] \in CompanyRow
    BY <1>4, <1>5, <1>6, <1>7
  <2>2. Follows(st1.rows[o], row[o]) /\ Follows(st2.rows[o], st1.rows[o]) /\ Follows(st3.rows[o], st2.rows[o])
    BY <1>3, <1>4, <1>5, <1>6
  <2>3. Follows(st2.rows[o], row[o])
    BY <2>1, <2>2, FollowsOn
  <2> QED
    BY <2>1, <2>2, <2>3, FollowsOn
<1> QED
  BY <1>1, <1>6, <1>7, <1>8

-----------------------------------------------------------------------------
(* What a lookup finds, and what its write-back leaves.                    *)

LEMMA FetchedFits ==
    ASSUME NEW r \in CompanyRow, r.domain # NoDomain, NEW outcome \in FetchLogo(r)
    PROVE  /\ outcome.new \in CompanyRow /\ outcome.put \in BOOLEAN
           /\ outcome.new.domain = r.domain /\ outcome.new.source = r.source
           /\ \/ /\ outcome.put /\ outcome.new.origin = "logo_dev" /\ outcome.new.logo = r.domain
              \/ outcome.put /\ outcome.new.origin = "none"
              \/ ~outcome.put /\ outcome.new.origin = r.origin /\ outcome.new.logo = r.logo
                   /\ (outcome.new.status = "error" \/ (r.origin = "logo_dev" /\ r.logo = r.domain))
<1> DEFINE yes == TRUE
           no == FALSE
           none == [r EXCEPT !.logo = NoLogo, !.origin = "none", !.status = "none"]
           logo == [r EXCEPT !.logo = r.domain, !.origin = "logo_dev", !.status = "ok"]
           same == [r EXCEPT !.status = "ok"]
           error == [r EXCEPT !.status = "error"]
<1>1. \/ outcome = [new |-> logo, put |-> yes]
      \/ outcome = [new |-> none, put |-> yes]
      \/ outcome = [new |-> error, put |-> no]
      \/ outcome = [new |-> same, put |-> no] /\ r.origin = "logo_dev" /\ r.logo = r.domain
  BY DEF FetchLogo, FoundLogo, FoundNone, FoundError, FoundSame
<1>2. yes \in BOOLEAN /\ no \in BOOLEAN /\ yes /\ ~no
  OBVIOUS
<1>3. NoLogo \in Logos /\ r.domain \in Logos
  BY LogoBasics
<1>4. /\ logo \in CompanyRow /\ logo.domain = r.domain /\ logo.source = r.source /\ logo.origin = "logo_dev"
      /\ logo.logo = r.domain
  BY <1>3 DEF CompanyRow
<1>5. none \in CompanyRow /\ none.domain = r.domain /\ none.source = r.source /\ none.origin = "none"
  BY <1>3 DEF CompanyRow
<1>6. /\ error \in CompanyRow /\ error.domain = r.domain /\ error.source = r.source /\ error.origin = r.origin
      /\ error.logo = r.logo /\ error.status = "error"
  BY DEF CompanyRow
<1>7. /\ same \in CompanyRow /\ same.domain = r.domain /\ same.source = r.source /\ same.origin = r.origin
      /\ same.logo = r.logo
  BY DEF CompanyRow
<1> HIDE DEF none, logo, same, error
<1>8. \/ outcome.new = logo /\ outcome.put = yes
      \/ outcome.new = none /\ outcome.put = yes
      \/ outcome.new = error /\ outcome.put = no
      \/ outcome.new = same /\ outcome.put = no /\ r.origin = "logo_dev" /\ r.logo = r.domain
  BY <1>1
<1> HIDE DEF yes, no
<1> QED
  BY <1>2, <1>4, <1>5, <1>6, <1>7, <1>8

\* Whatever is found fits a row; it is another domain's only for a row that has
\* none it may use.
LEMMA FoundFits ==
    ASSUME NEW r \in CompanyRow, NEW outcome \in Lookups(r)
    PROVE  /\ outcome.new \in CompanyRow /\ outcome.put \in BOOLEAN
           /\ Usable(r) => outcome.new.domain = r.domain /\ outcome.new.source = r.source
           /\ ~Usable(r) => r.source # "manual" \/ r.domain = NoDomain
           /\ outcome.new.domain # r.domain => outcome.new.domain # NoDomain
           /\ outcome.new.source # r.source => outcome.new.source = "logo_dev"
           /\ outcome.put => LogoIsOwn(outcome.new)
           /\ LogoIsOwn(r) => LogoIsOwn(outcome.new)
           /\ ~outcome.put => /\ outcome.new.origin = r.origin /\ outcome.new.logo = r.logo
                              /\ outcome.new.status = "error" \/ r.origin = "logo_dev"
           /\ outcome.new.origin = "pinned" => r.origin = "pinned"
<1>1. CASE Usable(r)
  <2>1. outcome \in FetchLogo(r) /\ r.domain # NoDomain /\ r.source \notin {"none", "shared"}
    BY <1>1 DEF Lookups, Usable
  <2> QED
    BY <1>1, <2>1, FetchedFits DEF Usable, LogoIsOwn
<1>2. CASE ~Usable(r) /\ outcome \in {FoundNone(r), FoundError(r)}
  <2> DEFINE yes == TRUE
             no == FALSE
             none == [r EXCEPT !.logo = NoLogo, !.origin = "none", !.status = "none"]
             error == [r EXCEPT !.status = "error"]
  <2>1. outcome = [new |-> none, put |-> yes] \/ outcome = [new |-> error, put |-> no]
    BY <1>2 DEF FoundNone, FoundError
  <2>2. yes \in BOOLEAN /\ no \in BOOLEAN /\ yes /\ ~no
    OBVIOUS
  <2>3. NoLogo \in Logos
    BY LogoBasics
  <2>4. none \in CompanyRow /\ none.domain = r.domain /\ none.source = r.source /\ none.origin = "none"
    BY <2>3 DEF CompanyRow
  <2>5. /\ error \in CompanyRow /\ error.domain = r.domain /\ error.source = r.source /\ error.origin = r.origin
        /\ error.logo = r.logo /\ error.status = "error"
    BY DEF CompanyRow
  <2> HIDE DEF none, error
  <2>6. \/ outcome.new = none /\ outcome.put = yes
        \/ outcome.new = error /\ outcome.put = no
    BY <2>1
  <2> HIDE DEF yes, no
  <2>7. CASE outcome.new = none /\ outcome.put = yes
    BY <1>2, <2>2, <2>4, <2>7 DEF Usable, LogoIsOwn
  <2>8. CASE outcome.new = error /\ outcome.put = no
    BY <1>2, <2>2, <2>5, <2>8 DEF Usable, LogoIsOwn
  <2> QED
    BY <2>6, <2>7, <2>8
<1>3. CASE ~Usable(r) /\ \E d \in Domains : outcome \in FetchLogo(WithDomain(r, d))
  <2> PICK d \in Domains : outcome \in FetchLogo(WithDomain(r, d))
    BY <1>3
  <2> DEFINE named == WithDomain(r, d)
  <2>1. /\ named \in CompanyRow /\ named.domain = d /\ named.source = "logo_dev" /\ named.origin = r.origin
        /\ named.logo = r.logo /\ named.status = r.status
    BY DEF WithDomain, CompanyRow, DomainSources
  <2>2. d # NoDomain
    BY LogoBasics
  <2>3. outcome \in FetchLogo(named)
    OBVIOUS
  <2> HIDE DEF named
  <2> QED
    BY <1>3, <2>1, <2>2, <2>3, FetchedFits DEF Usable, LogoIsOwn
<1> QED
  BY <1>1, <1>2, <1>3 DEF Lookups

Fields == {"domain", "source", "logo", "origin", "status"}

LEMMA RowIsItsFields ==
    /\ \A r \in CompanyRow : DOMAIN r = Fields /\ r = [f \in Fields |-> r[f]]
    /\ \A r \in [Fields -> Domains \union {NoDomain} \union DomainSources \union Logos
                     \union {"none", "logo_dev", "pinned", "untried", "ok", "error"}] :
          /\ r["domain"] \in Domains \union {NoDomain} /\ r["source"] \in DomainSources /\ r["logo"] \in Logos
          /\ r["origin"] \in {"none", "logo_dev", "pinned"} /\ r["status"] \in {"untried", "ok", "none", "error"}
          => r \in CompanyRow
<1> QED
  BY DEF CompanyRow, Fields

LEMMA WrittenFits ==
    ASSUME NEW read \in CompanyRow, NEW new \in CompanyRow, NEW now \in CompanyRow
    PROVE  /\ WrittenBack(read, new, now) \in CompanyRow
           /\ WrittenBack(read, new, read) = new
           /\ LET w == WrittenBack(read, new, now)
              IN  /\ w.domain = IF new.domain # read.domain THEN new.domain ELSE now.domain
                  /\ w.source = IF new.source # read.source THEN new.source ELSE now.source
<1> DEFINE w == WrittenBack(read, new, now)
<1>1. DOMAIN now = Fields /\ DOMAIN read = Fields /\ new = [f \in Fields |-> new[f]]
  BY RowIsItsFields
<1>2. w = [f \in Fields |-> IF new[f] # read[f] THEN new[f] ELSE now[f]]
  BY <1>1 DEF WrittenBack
<1>3. WrittenBack(read, new, read) = [f \in Fields |-> new[f]]
  BY <1>1 DEF WrittenBack
<1>4. /\ w["domain"] = IF new["domain"] # read["domain"] THEN new["domain"] ELSE now["domain"]
      /\ w["source"] = IF new["source"] # read["source"] THEN new["source"] ELSE now["source"]
      /\ w["logo"] = IF new["logo"] # read["logo"] THEN new["logo"] ELSE now["logo"]
      /\ w["origin"] = IF new["origin"] # read["origin"] THEN new["origin"] ELSE now["origin"]
      /\ w["status"] = IF new["status"] # read["status"] THEN new["status"] ELSE now["status"]
  BY <1>2 DEF Fields
<1>5. w \in CompanyRow
  BY <1>2, <1>4 DEF CompanyRow, Fields
<1> QED
  BY <1>1, <1>3, <1>4, <1>5

-----------------------------------------------------------------------------
(* The invariant is kept.                                                  *)

LEMMA LogosTypes ==
    ASSUME LogosTypeOK
    PROVE  /\ row \in [Companies -> CompanyRow]
           /\ alias \in [Companies -> Logos \union {"absent"}]
           /\ \/ sync.phase = "idle"
              \/ sync.phase = "looking" /\ sync.company \in Companies /\ sync.read \in CompanyRow
              \/ /\ sync.phase = "stored" /\ sync.company \in Companies /\ sync.read \in CompanyRow
                 /\ sync.new \in CompanyRow /\ sync.put \in BOOLEAN
           /\ placeholder \in Companies \union {NoCompany} /\ doubt \subseteq Companies
<1>1. sync = IdleSync \/ sync \in SyncsReading \/ sync \in SyncsStored
  BY DEF LogosTypeOK, SyncsReading, SyncsStored
<1> QED
  BY <1>1, LogoBasics DEF LogosTypeOK

LEMMA LogosBegin == LogosInit => LogosInv
<1> SUFFICES ASSUME LogosInit PROVE LogosInv
  OBVIOUS
<1>1. sync = IdleSync /\ sync.phase = "idle"
  BY LogoBasics DEF LogosInit
<1>2. Unresolved \in CompanyRow /\ Unresolved.source = "none" /\ Unresolved.origin = "none"
        /\ Unresolved.status = "untried"
  BY LogoBasics DEF Unresolved, CompanyRow, DomainSources
<1>3. \A c \in Companies : row[c] = Unresolved
  BY DEF LogosInit
<1>4. LogosTypeOK
  BY <1>1, <1>2 DEF LogosInit, LogosTypeOK
<1> QED
  BY <1>1, <1>2, <1>3, <1>4 DEF LogosInv, StoredWasFound, ReadUnpinned, ManualHasDomain, LogoIsOwn, AliasShows

LEMMA ScanKeeps ==
    ASSUME LogosInv, NEW c \in Companies, ScanCompany(c)
    PROVE  LogosInv' /\ \A o \in Companies : Follows(row'[o], row[o])
<1>1. PICK s \in Seen : row' = Resolved(c, s.org, s.page, s.board)
  BY DEF ScanCompany
<1>2. s.org \in Signals /\ s.page \in Signals /\ s.board \in Signals
  BY DEF Seen
<1>3. row' \in [Companies -> CompanyRow] /\ \A o \in Companies : Follows(row'[o], row[o])
  BY <1>1, <1>2, ResolvedFollows, LogosTypes DEF LogosInv
<1>4. doubt' = StillInDoubt /\ UNCHANGED <<alias, sync, placeholder>>
  BY DEF ScanCompany
<1>5. doubt' \subseteq doubt /\ \A o \in doubt \ doubt' : row'[o].status = "untried" /\ row'[o].origin = "none"
  BY <1>4 DEF StillInDoubt
<1>6. LogosTypeOK'
  BY <1>3, <1>4, <1>5 DEF LogosInv, LogosTypeOK
<1>7. StoredWasFound' /\ ReadUnpinned'
  BY <1>4 DEF LogosInv, StoredWasFound, ReadUnpinned
<1>8. ManualHasDomain'
  BY <1>3 DEF LogosInv, ManualHasDomain, Follows
<1>9. \A o \in Companies \ doubt' : LogoIsOwn(row'[o])
  <2> TAKE o \in Companies \ doubt'
  <2>1. CASE o \in doubt
    BY <1>5, <2>1 DEF LogoIsOwn
  <2>2. CASE o \notin doubt
    <3>1. LogoIsOwn(row[o]) /\ Follows(row'[o], row[o])
      BY <2>2, <1>3 DEF LogosInv
    <3> QED
      BY <3>1 DEF LogoIsOwn, Follows
  <2> QED
    BY <2>1, <2>2
<1>10. AliasShows'
  <2> SUFFICES ASSUME NEW o \in Companies, o \notin doubt', row'[o].origin # "none" \/ row'[o].status \in {"ok", "none"}
               PROVE  alias[o] = row'[o].logo \/ (sync.phase = "stored" /\ sync.company = o /\ sync.put)
    BY <1>4 DEF AliasShows
  <2>1. o \notin doubt /\ Follows(row'[o], row[o])
    BY <1>3, <1>5
  <2>2. row'[o].logo = row[o].logo /\ row'[o].origin = row[o].origin /\ row'[o].status = row[o].status
    BY <2>1 DEF Follows
  <2> QED
    BY <2>1, <2>2 DEF LogosInv, AliasShows
<1> QED
  BY <1>3, <1>6, <1>7, <1>8, <1>9, <1>10 DEF LogosInv

LEMMA ManualDomainKeeps ==
    ASSUME LogosInv, NEW c \in Companies, NEW d \in Domains \union {NoDomain}, SetManualDomain(c, d)
    PROVE  LogosInv'
<1> DEFINE kind == IF d = NoDomain THEN "none" ELSE "manual"
           base == IF d = row[c].domain THEN row[c] ELSE Cleared(row[c])
           new == [base EXCEPT !.domain = d, !.source = kind]
<1>1. row \in [Companies -> CompanyRow] /\ row[c] \in CompanyRow
  BY LogosTypes DEF LogosInv
<1>2. /\ base \in CompanyRow
      /\ \/ base = row[c] /\ d = row[c].domain
         \/ base.origin = "none" /\ base.status = "untried"
         \/ base = row[c] /\ row[c].origin = "pinned"
  BY <1>1, ClearedIs
<1>3. row' = [row EXCEPT ![c] = new]
  BY <1>1 DEF SetManualDomain
<1> HIDE DEF base
<1>4. kind \in DomainSources /\ (kind = "manual" <=> d # NoDomain) /\ kind \in {"none", "manual"}
  BY DEF DomainSources
<1>5. /\ new \in CompanyRow /\ new.domain = d /\ new.source = kind /\ new.logo = base.logo
      /\ new.origin = base.origin /\ new.status = base.status
  BY <1>2, <1>4 DEF CompanyRow
<1> HIDE DEF new, kind
<1>6. row' \in [Companies -> CompanyRow] /\ row'[c] = new /\ \A o \in Companies \ {c} : row'[o] = row[o]
  BY <1>1, <1>3, <1>5
<1>7. doubt' = StillInDoubt /\ UNCHANGED <<alias, sync, placeholder>>
  BY DEF SetManualDomain
<1>8. doubt' \subseteq doubt /\ \A o \in doubt \ doubt' : row'[o].status = "untried" /\ row'[o].origin = "none"
  BY <1>7 DEF StillInDoubt
<1>9. LogosTypeOK'
  BY <1>6, <1>7, <1>8 DEF LogosInv, LogosTypeOK
<1>10. StoredWasFound' /\ ReadUnpinned'
  BY <1>7 DEF LogosInv, StoredWasFound, ReadUnpinned
<1>11. ManualHasDomain'
  <2>1. \A o \in Companies \ {c} : row'[o].source = "manual" => row'[o].domain # NoDomain
    BY <1>6 DEF LogosInv, ManualHasDomain
  <2>2. row'[c].source = "manual" => row'[c].domain # NoDomain
    BY <1>4, <1>5, <1>6
  <2> QED
    BY <2>1, <2>2 DEF ManualHasDomain
<1>12. \A o \in Companies \ doubt' : LogoIsOwn(row'[o])
  <2> TAKE o \in Companies \ doubt'
  <2>1. CASE o \in doubt
    BY <1>8, <2>1 DEF LogoIsOwn
  <2>2. CASE o \notin doubt /\ o # c
    BY <1>6, <2>2 DEF LogosInv
  <2>3. CASE o \notin doubt /\ o = c
    <3>1. LogoIsOwn(row[c])
      BY <2>3 DEF LogosInv
    <3> QED
      BY <3>1, <1>2, <1>4, <1>5, <1>6, <2>3 DEF LogoIsOwn, Usable
  <2> QED
    BY <2>1, <2>2, <2>3
<1>13. AliasShows'
  <2> SUFFICES ASSUME NEW o \in Companies, o \notin doubt', row'[o].origin # "none" \/ row'[o].status \in {"ok", "none"}
               PROVE  alias[o] = row'[o].logo \/ (sync.phase = "stored" /\ sync.company = o /\ sync.put)
    BY <1>7 DEF AliasShows
  <2>1. o \notin doubt
    BY <1>8
  <2>2. row'[o].logo = row[o].logo /\ row'[o].origin = row[o].origin /\ row'[o].status = row[o].status
    BY <1>2, <1>5, <1>6
  <2> QED
    BY <2>1, <2>2 DEF LogosInv, AliasShows
<1> QED
  BY <1>9, <1>10, <1>11, <1>12, <1>13 DEF LogosInv

LEMMA AdminStoreKeeps ==
    ASSUME LogosInv, NEW c \in Companies, NEW r \in CompanyRow, NEW commits \in BOOLEAN, AdminStores(c, r, commits),
           r.source = row[c].source, r.domain = row[c].domain, r.origin # "logo_dev"
    PROVE  LogosInv'
<1>1. row \in [Companies -> CompanyRow] /\ alias \in [Companies -> Logos \union {"absent"}]
      /\ r.logo \in Logos /\ doubt \subseteq Companies
  BY LogosTypes, LogoBasics DEF LogosInv
<1>2. /\ alias' = [alias EXCEPT ![c] = r.logo] /\ UNCHANGED <<sync, placeholder>>
      /\ row' = IF commits THEN [row EXCEPT ![c] = r] ELSE row
      /\ doubt' = IF commits THEN doubt \ {c} ELSE doubt \union {c}
  BY DEF AdminStores
<1>3. /\ row' \in [Companies -> CompanyRow] /\ \A o \in Companies \ {c} : row'[o] = row[o] /\ alias'[o] = alias[o]
      /\ row'[c].source = row[c].source /\ row'[c].domain = row[c].domain
      /\ alias' \in [Companies -> Logos \union {"absent"}] /\ doubt' \subseteq Companies
      /\ \A o \in Companies \ {c} : o \in doubt' <=> o \in doubt
      /\ c \notin doubt' => row'[c] = r /\ alias'[c] = r.logo
  BY <1>1, <1>2
<1>4. LogosTypeOK'
  BY <1>2, <1>3 DEF LogosInv, LogosTypeOK
<1>5. StoredWasFound' /\ ReadUnpinned'
  BY <1>2 DEF LogosInv, StoredWasFound, ReadUnpinned
<1>6. ManualHasDomain'
  BY <1>3 DEF LogosInv, ManualHasDomain
<1>7. \A o \in Companies \ doubt' : LogoIsOwn(row'[o])
  BY <1>3 DEF LogosInv, LogoIsOwn
<1>8. AliasShows'
  BY <1>2, <1>3 DEF LogosInv, AliasShows
<1> QED
  BY <1>4, <1>5, <1>6, <1>7, <1>8 DEF LogosInv

LEMMA AdminKeeps ==
    ASSUME LogosInv, AdminStep
    PROVE  LogosInv'
<1>1. \A c \in Companies : row[c] \in CompanyRow
  BY LogosTypes DEF LogosInv
<1>4. NoLogo \in Logos /\ Pinned \in Logos
  BY LogoBasics
<1>2. ASSUME NEW c \in Companies, NEW commits \in BOOLEAN, SetManualLogo(c, commits)
      PROVE  LogosInv'
  <2> DEFINE r == [row[c] EXCEPT !.logo = Pinned, !.origin = "pinned"]
  <2>1. r \in CompanyRow /\ r.source = row[c].source /\ r.domain = row[c].domain /\ r.origin # "logo_dev"
    BY <1>1, <1>4 DEF CompanyRow
  <2>2. AdminStores(c, r, commits)
    BY <1>2 DEF SetManualLogo
  <2> HIDE DEF r
  <2> QED
    BY <2>1, <2>2, AdminStoreKeeps
<1>3. ASSUME NEW c \in Companies, NEW commits \in BOOLEAN, ClearManualLogo(c, commits)
      PROVE  LogosInv'
  <2> DEFINE r == [row[c] EXCEPT !.logo = NoLogo, !.origin = "none", !.status = "untried"]
  <2>1. r \in CompanyRow /\ r.source = row[c].source /\ r.domain = row[c].domain /\ r.origin # "logo_dev"
    BY <1>1, <1>4 DEF CompanyRow
  <2>2. AdminStores(c, r, commits)
    BY <1>3 DEF ClearManualLogo
  <2> HIDE DEF r
  <2> QED
    BY <2>1, <2>2, AdminStoreKeeps
<1> QED
  BY <1>2, <1>3, ManualDomainKeeps DEF AdminStep

LEMMA ReadsKeep ==
    ASSUME LogosInv, LookUpLater \/ \E c \in Companies : SyncReads(c) \/ PageReads(c)
    PROVE  LogosInv'
<1>1. UNCHANGED <<row, alias, doubt>>
  BY DEF SyncReads, PageReads, LookUpLater
<1>2. sync.phase # "stored"
  BY DEF SyncReads, PageReads, LookUpLater
<1>3. \A c \in Companies : row[c] \in CompanyRow
  BY LogosTypes DEF LogosInv
<1>4. CASE \E c \in Companies : SyncReads(c)
  <2> PICK c \in Companies : SyncReads(c)
    BY <1>4
  <2>1. sync' \in SyncsReading /\ sync'.phase = "looking" /\ sync'.read = row[c] /\ row[c].origin # "pinned"
        /\ placeholder' = placeholder
    BY <1>3 DEF SyncReads, SyncsReading, Due
  <2>2. LogosTypeOK'
    BY <1>1, <2>1 DEF LogosInv, LogosTypeOK, SyncsReading
  <2> QED
    BY <1>1, <1>2, <2>1, <2>2 DEF LogosInv, StoredWasFound, ReadUnpinned, ManualHasDomain, AliasShows
<1>5. CASE \E c \in Companies : PageReads(c)
  <2> PICK c \in Companies : PageReads(c)
    BY <1>5
  <2>1. sync' = sync /\ placeholder' = c
    BY DEF PageReads
  <2>2. LogosTypeOK'
    BY <1>1, <2>1 DEF LogosInv, LogosTypeOK
  <2> QED
    BY <1>1, <2>1, <2>2 DEF LogosInv, StoredWasFound, ReadUnpinned, ManualHasDomain, AliasShows
<1>6. CASE LookUpLater
  <2>1. sync' = IdleSync /\ sync'.phase = "idle" /\ placeholder' = placeholder
    BY <1>6, LogoBasics DEF LookUpLater
  <2>2. LogosTypeOK'
    BY <1>1, <2>1 DEF LogosInv, LogosTypeOK
  <2> QED
    BY <1>1, <1>2, <2>1, <2>2 DEF LogosInv, StoredWasFound, ReadUnpinned, ManualHasDomain, AliasShows
<1> QED
  BY <1>4, <1>5, <1>6

LEMMA StoreKeeps ==
    ASSUME LogosInv, sync.phase = "looking", NEW outcome \in Lookups(sync.read), SyncStores(outcome)
    PROVE  LogosInv'
<1> DEFINE c == sync.company
<1>1. c \in Companies /\ sync.read \in CompanyRow
  BY LogosTypes DEF LogosInv
<1>2. outcome.new \in CompanyRow /\ outcome.put \in BOOLEAN /\ outcome.new.logo \in Logos
  BY <1>1, FoundFits, LogoBasics
<1>3. /\ sync' = [phase |-> "stored", company |-> c, read |-> sync.read, new |-> outcome.new, put |-> outcome.put]
      /\ alias' = (IF outcome.put THEN [alias EXCEPT ![c] = outcome.new.logo] ELSE alias)
      /\ UNCHANGED <<row, placeholder, doubt>>
  BY DEF SyncStores
<1>4. /\ sync' \in SyncsStored /\ sync'.phase = "stored" /\ sync'.company = c /\ sync'.read = sync.read
      /\ sync'.new = outcome.new /\ sync'.put = outcome.put
  BY <1>1, <1>2, <1>3 DEF SyncsStored
<1>5. /\ alias' \in [Companies -> Logos \union {"absent"}]
      /\ \A o \in Companies : alias'[o] = alias[o] \/ (o = c /\ outcome.put)
  BY <1>1, <1>2, <1>3, LogosTypes DEF LogosInv
<1>6. LogosTypeOK'
  BY <1>3, <1>4, <1>5 DEF LogosInv, LogosTypeOK, SyncsStored
<1>7. StoredWasFound' /\ ReadUnpinned'
  BY <1>4 DEF LogosInv, StoredWasFound, ReadUnpinned
<1>8. ManualHasDomain' /\ \A o \in Companies \ doubt' : LogoIsOwn(row'[o])
  BY <1>3 DEF LogosInv, ManualHasDomain
<1>9. AliasShows'
  BY <1>3, <1>4, <1>5 DEF LogosInv, AliasShows
<1> QED
  BY <1>6, <1>7, <1>8, <1>9 DEF LogosInv

LEMMA FailKeeps ==
    ASSUME LogosInv, SyncFails
    PROVE  LogosInv'
<1>1. sync' = IdleSync /\ sync'.phase = "idle" /\ UNCHANGED <<row, alias, placeholder>> /\ sync.phase = "stored"
      /\ doubt' = IF sync.put THEN doubt \union {sync.company} ELSE doubt
  BY LogoBasics DEF SyncFails
<1>2. sync.company \in Companies
  BY <1>1, LogosTypes DEF LogosInv
<1>3. LogosTypeOK'
  BY <1>1, <1>2 DEF LogosInv, LogosTypeOK
<1>4. AliasShows'
  BY <1>1, <1>2 DEF LogosInv, AliasShows
<1> QED
  BY <1>1, <1>2, <1>3, <1>4 DEF LogosInv, StoredWasFound, ReadUnpinned, ManualHasDomain

LEMMA WritesKeeps ==
    ASSUME LogosInv, PageWrites
    PROVE  LogosInv'
<1>1. /\ placeholder \in Companies /\ alias' = [alias EXCEPT ![placeholder] = NoLogo]
      /\ doubt' = IF row[placeholder].logo # NoLogo THEN doubt \union {placeholder} ELSE doubt
      /\ placeholder' = NoCompany /\ UNCHANGED <<row, sync>>
  BY LogosTypes DEF LogosInv, PageWrites
<1>2. alias \in [Companies -> Logos \union {"absent"}] /\ NoLogo \in Logos
  BY LogosTypes, LogoBasics DEF LogosInv
<1>3. LogosTypeOK'
  BY <1>1, <1>2 DEF LogosInv, LogosTypeOK
<1>4. AliasShows'
  BY <1>1, <1>2 DEF LogosInv, AliasShows
<1> QED
  BY <1>1, <1>2, <1>3, <1>4 DEF LogosInv, StoredWasFound, ReadUnpinned, ManualHasDomain

\* A write-back that finds the row as it was read leaves what the lookup made
\* of it; on any other row the company is in doubt.
LEMMA CommitLeaves ==
    ASSUME LogosInv, SyncCommits
    PROVE  LET c == sync.company
           IN  /\ LogosInv' /\ c \in Companies
               /\ \A o \in Companies \ {c} : row'[o] = row[o]
               /\ \/ c \in doubt'
                  \/ /\ row[c].origin # "pinned"
                     /\ row[c].source = "manual" => row'[c].source = "manual" /\ row'[c].domain = row[c].domain
<1> DEFINE c == sync.company
           read == sync.read
           new == sync.new
           written == WrittenBack(read, new, row[c])
<1>1. sync.phase = "stored" /\ c \in Companies /\ read \in CompanyRow /\ new \in CompanyRow /\ sync.put \in BOOLEAN
  BY LogosTypes DEF LogosInv, SyncCommits
<1>2. PICK outcome \in Lookups(read) : new = outcome.new /\ sync.put = outcome.put
  BY <1>1 DEF LogosInv, StoredWasFound
<1>3. /\ Usable(read) => new.domain = read.domain /\ new.source = read.source
      /\ new.domain # read.domain => new.domain # NoDomain
      /\ new.source # read.source => new.source = "logo_dev"
      /\ sync.put => LogoIsOwn(new)
      /\ LogoIsOwn(read) => LogoIsOwn(new)
      /\ ~sync.put => /\ new.origin = read.origin /\ new.logo = read.logo
                      /\ new.status = "error" \/ read.origin = "logo_dev"
  BY <1>1, <1>2, FoundFits
<1>4. row \in [Companies -> CompanyRow] /\ row[c] \in CompanyRow
  BY <1>1, LogosTypes DEF LogosInv
<1>5. /\ row' = [row EXCEPT ![c] = written]
      /\ doubt' = (IF row[c] # read \/ (sync.put /\ alias[c] # new.logo) THEN doubt \union {c}
                    ELSE IF sync.put THEN doubt \ {c} ELSE doubt)
      /\ sync' = IdleSync /\ sync'.phase = "idle" /\ UNCHANGED <<alias, placeholder>>
  BY <1>4, LogoBasics DEF SyncCommits
<1>6. /\ written \in CompanyRow
      /\ row[c] = read => written = new
      /\ written.domain = IF new.domain # read.domain THEN new.domain ELSE row[c].domain
      /\ written.source = IF new.source # read.source THEN new.source ELSE row[c].source
  BY <1>1, <1>4, WrittenFits
<1> HIDE DEF written, read, new
<1>7. row' \in [Companies -> CompanyRow] /\ row'[c] = written /\ \A o \in Companies \ {c} : row'[o] = row[o]
  BY <1>1, <1>4, <1>5, <1>6
<1>8. /\ doubt' \subseteq Companies /\ \A o \in Companies \ {c} : o \in doubt' <=> o \in doubt
      /\ c \notin doubt' => /\ row[c] = read
                            /\ sync.put => alias[c] = new.logo
                            /\ ~sync.put => c \notin doubt
  BY <1>1, <1>5, LogosTypes DEF LogosInv
<1>9. LogosTypeOK'
  BY <1>5, <1>7, <1>8 DEF LogosInv, LogosTypeOK
<1>10. StoredWasFound' /\ ReadUnpinned'
  BY <1>5 DEF StoredWasFound, ReadUnpinned
<1>11. ManualHasDomain'
  <2>1. row'[c].source = "manual" => row'[c].domain # NoDomain
    BY <1>1, <1>3, <1>6, <1>7 DEF LogosInv, ManualHasDomain
  <2> QED
    BY <2>1, <1>7 DEF LogosInv, ManualHasDomain
<1>12. c \notin doubt' => LogoIsOwn(row'[c])
  <2> SUFFICES ASSUME c \notin doubt' PROVE LogoIsOwn(new)
    BY <1>6, <1>7, <1>8
  <2>1. CASE sync.put
    BY <2>1, <1>3
  <2>2. CASE ~sync.put
    BY <2>2, <1>1, <1>3, <1>8 DEF LogosInv
  <2> QED
    BY <2>1, <2>2
<1>13. \A o \in Companies \ doubt' : LogoIsOwn(row'[o])
  BY <1>7, <1>8, <1>12 DEF LogosInv
<1>14. c \notin doubt' /\ (row'[c].origin # "none" \/ row'[c].status \in {"ok", "none"}) => alias[c] = row'[c].logo
  <2> SUFFICES ASSUME c \notin doubt', new.origin # "none" \/ new.status \in {"ok", "none"}
               PROVE  alias[c] = new.logo
    BY <1>6, <1>7, <1>8
  <2>1. CASE sync.put
    BY <2>1, <1>8
  <2>2. CASE ~sync.put
    <3>1. read = row[c] /\ c \notin doubt /\ new.logo = read.logo /\ read.origin # "none"
      BY <2>2, <1>3, <1>8
    <3> QED
      BY <3>1, <2>2, <1>1 DEF LogosInv, AliasShows
  <2> QED
    BY <2>1, <2>2
<1>15. AliasShows'
  <2> SUFFICES ASSUME NEW o \in Companies \ doubt', row'[o].origin # "none" \/ row'[o].status \in {"ok", "none"}
               PROVE  alias[o] = row'[o].logo
    BY <1>5 DEF AliasShows
  <2>1. CASE o = c
    BY <2>1, <1>14
  <2>2. CASE o # c
    BY <2>2, <1>7, <1>8 DEF LogosInv, AliasShows
  <2> QED
    BY <2>1, <2>2
<1>16. \/ c \in doubt'
       \/ /\ row[c].origin # "pinned"
          /\ row[c].source = "manual" => row'[c].source = "manual" /\ row'[c].domain = row[c].domain
  <2> SUFFICES ASSUME c \notin doubt'
               PROVE  /\ row[c].origin # "pinned"
                      /\ row[c].source = "manual" => row'[c].source = "manual" /\ row'[c].domain = row[c].domain
    OBVIOUS
  <2>1. row[c] = read /\ row'[c] = new /\ read.origin # "pinned"
    BY <1>1, <1>6, <1>7, <1>8 DEF LogosInv, ReadUnpinned, read
  <2>2. read.source = "manual" => Usable(read)
    BY <2>1, <1>1 DEF LogosInv, ManualHasDomain, Usable
  <2> QED
    BY <2>1, <2>2, <1>3
<1> QED
  BY <1>1, <1>7, <1>9, <1>10, <1>11, <1>13, <1>15, <1>16 DEF LogosInv

LEMMA LogosStep == LogosInv /\ [LogosNext]_logoVars => LogosInv'
<1> SUFFICES ASSUME LogosInv, [LogosNext]_logoVars PROVE LogosInv'
  OBVIOUS
<1>1. CASE UNCHANGED logoVars
  BY <1>1 DEF logoVars, LogosInv, LogosTypeOK, StoredWasFound, ReadUnpinned, ManualHasDomain, AliasShows
<1>2. CASE LogosNext
  <2>1. CASE LookUpLater \/ \E c \in Companies : SyncReads(c) \/ PageReads(c)
    BY <2>1, ReadsKeep
  <2> QED
    BY <1>2, <2>1, ScanKeeps, AdminKeeps, StoreKeeps, CommitLeaves, FailKeeps, WritesKeeps DEF LogosNext
<1> QED
  BY <1>1, <1>2

LEMMA LogosAlways == LogosSpec => []LogosInv
<1> QED
  BY LogosBegin, LogosStep, PTL DEF LogosSpec

\* The rows, the aliases and what a sync holds stay of their types.
THEOREM LogosFit == LogosSpec => []LogosTypeOK
<1>1. LogosInv => LogosTypeOK
  BY DEF LogosInv
<1> QED
  BY <1>1, LogosAlways, PTL

\* The logo shown is the company's own, and its alias shows the same, for every
\* company whose row did not change under a sync or a page being published:
\* resolve_company, set_manual_domain, the logo sync and the page store.
THEOREM OwnLogoShown == LogosSpec => []ShownLogoIsRight
<1>1. LogosInv => ShownLogoIsRight
  BY DEF LogosInv, AliasShows, LogoIsOwn, ShownLogoIsRight
<1> QED
  BY <1>1, LogosAlways, PTL

\* Nothing automatic overwrites a domain or a logo an admin set, unless it held
\* the row from before: a scan ranks below the admin, and a sync that read the
\* row as it is finds it usable and unpinned.
THEOREM AdminsChoiceStands == LogosSpec => ManualStands
<1> DEFINE Stands == \A c \in Companies :
              \/ /\ row[c].source = "manual" => row'[c].source = "manual" /\ row'[c].domain = row[c].domain
                 /\ row[c].origin = "pinned" => row'[c].origin = "pinned" /\ row'[c].logo = row[c].logo
              \/ c \in doubt'
              \/ AdminStep
<1>1. LogosInv /\ [LogosNext]_logoVars => [Stands]_logoVars
  <2> SUFFICES ASSUME LogosInv, LogosNext, NEW c \in Companies, ~AdminStep
               PROVE  \/ /\ row[c].source = "manual" => row'[c].source = "manual" /\ row'[c].domain = row[c].domain
                         /\ row[c].origin = "pinned" => row'[c].origin = "pinned" /\ row'[c].logo = row[c].logo
                      \/ c \in doubt'
    OBVIOUS
  <2>1. CASE row' = row
    BY <2>1
  <2>2. ASSUME NEW o \in Companies, ScanCompany(o)
        PROVE  Follows(row'[c], row[c])
    BY <2>2, ScanKeeps
  <2>3. CASE SyncCommits
    BY <2>3, CommitLeaves
  <2>4. row' = row \/ SyncCommits \/ \E o \in Companies : ScanCompany(o)
    BY DEF LogosNext, SyncReads, PageReads, LookUpLater, SyncStores, SyncFails, PageWrites
  <2> QED
    BY <2>1, <2>2, <2>3, <2>4 DEF Follows
<1> QED
  BY <1>1, LogosAlways, PTL DEF LogosSpec, ManualStands
=============================================================================
