----------------------------- MODULE StatusPages -----------------------------
(***************************************************************************)
(* The addresses of status pages. Four doors give a page its slug: the watch  *)
(* door, the operator's seed door, the first save of the settings and the     *)
(* first check that names a project; the removal job takes a page down by a    *)
(* DNS record (src/back/internal/api/write_api.go, seeddoor.go, removetoken.go,*)
(* monitors.go, worker/worker.go). A request is split at its statements; the    *)
(* insert of a page waits for a rival's transaction, so it lands with the       *)
(* commit. Pages are never deleted here: projects and tenants are Ownership's. *)
(***************************************************************************)
EXTENDS Naturals, Sequences, FiniteSets

CONSTANTS
  Hosts,
  Registrable,                 \* the eTLD+1 of each host
  Accounts,
  Visits, Seeds, Saves, Namings, Takes, Tokens,  \* requests, by the door
  Address,                     \* where a visit comes from
  Endings,                    \* the random endings a taken slug may get
  PerAddress, PerDay, HostPagesMax,  \* the ceilings of a mint; a run is within one day
  MaxFaults, Load              \* bounds: removals that fail, requests in a run

Nobody == "nobody"
None == 0
Requests == Visits \cup Seeds \cup Saves \cup Namings \cup Takes \cup Tokens

StatusPagesAssumption ==
  /\ Hosts \subseteq DOMAIN Registrable
  /\ Visits \subseteq DOMAIN Address
  /\ Endings \subseteq Nat \ {0}
  /\ {PerAddress, PerDay, HostPagesMax, MaxFaults, Load} \subseteq Nat
  /\ Nobody \notin Hosts \cup Accounts /\ IsFiniteSet(Accounts)
  /\ (Visits \cup Seeds) \cap Namings = {}  \* a request comes in at one door

VARIABLES
  pages,     \* status_page, by id
  projects,  \* project, by id: [domain, claimed]
  home,      \* the project of each account, None before it exists
  watched,   \* monitor rows: <<project, host>>
  blocked,   \* blocked_host
  sweep,     \* the pages the removal job has yet to look at, with their domain
  req,       \* each request: where it is
  answered,  \* history: the slugs the watch and seed doors have handed out
  faults

vars == <<pages, projects, home, watched, blocked, sweep, req, answered, faults>>

Idle == [pc |-> "idle", host |-> Nobody, who |-> Nobody, page |-> None, root |-> Nobody, project |-> None,
         slug |-> <<>>, before |-> {}]
Done == [Idle EXCEPT !.pc = "done"]

Slugs == (Hosts \X ({None} \cup Endings)) \cup ({"prj"} \X Nat)
Service(p) == <<"prj", p>>

TypeOK ==
  /\ \A i \in DOMAIN pages : pages[i] \in
       [slug : Slugs, project : DOMAIN projects, host : BOOLEAN, root : Hosts \cup {Nobody}, removed : BOOLEAN,
        token : BOOLEAN, from : Visits \cup {Nobody}, settings : {None} \cup DOMAIN projects, before : SUBSET DOMAIN pages]
  /\ \A i, j \in DOMAIN pages : pages[i].slug = pages[j].slug => i = j
  /\ \A p \in DOMAIN projects : projects[p] \in [domain : Hosts \cup {Nobody}, claimed : BOOLEAN]
  /\ home \in [Accounts -> {None} \cup DOMAIN projects]
  /\ watched \subseteq (DOMAIN projects) \X Hosts
  /\ \A w \in sweep : w.page \in DOMAIN pages /\ pages[w.page].token
  /\ answered \subseteq Slugs
  /\ faults \in 0..MaxFaults

-----------------------------------------------------------------------------
(* What the doors read.                                                      *)

DomainOf(i) == projects[pages[i].project].domain
Claimed(i) == projects[pages[i].project].claimed

\* hostLivePage: the claimed page first, then the host page, then the oldest.
LivePages(h) == {i \in DOMAIN pages : DomainOf(i) = h /\ ~pages[i].removed}
Ahead(i, j) ==
  \/ Claimed(i) /\ ~Claimed(j)
  \/ Claimed(i) = Claimed(j) /\ pages[i].host /\ ~pages[j].host
  \/ Claimed(i) = Claimed(j) /\ pages[i].host = pages[j].host /\ i <= j
LivePage(h) ==
  IF LivePages(h) = {} THEN None
  ELSE CHOOSE i \in LivePages(h) : \A j \in LivePages(h) : Ahead(i, j)

RootOf(i) == IF i = None THEN Nobody ELSE pages[i].root

\* blocked_host is asked for the registrable domain.
Blocked(h) == Registrable[h] \in blocked

PagesOf(p) == {i \in DOMAIN pages : pages[i].project = p}
Oldest(ids) == CHOOSE i \in ids : \A j \in ids : i <= j

\* mintCeilingRefused: the pages of the day from one address, and all of them.
OverDay == Len(pages) >= PerDay
OverAddress(v) == Cardinality({i \in DOMAIN pages :
                    pages[i].from # Nobody /\ Address[pages[i].from] = Address[v]}) >= PerAddress
\* hostPagesCeilingRefused: the live host pages nobody owns.
OverHostPages == Cardinality({i \in DOMAIN pages :
                    pages[i].host /\ ~pages[i].removed /\ ~Claimed(i)}) >= HostPagesMax

\* claimSlugOn: the bare slug when it is free or the project's own already, else one
\* of the random endings, else none of the five tries was free.
Holder(s) == {pages[i].project : i \in {j \in DOMAIN pages : pages[j].slug = s}}
Free(s, p) == Holder(s) \subseteq {p}
ClaimedSlugs(h, p) ==
  IF Free(<<h, None>>, p) THEN {<<h, None>>}
  ELSE {<<h, n>> : n \in {m \in Endings : Free(<<h, m>>, p)}}
         \cup (IF \E m \in Endings : ~Free(<<h, m>>, p) THEN {Service(p)} ELSE {})

Starts(r) ==
  /\ req[r].pc = "idle"
  /\ Cardinality({q \in Requests : req[q].pc # "idle"}) < Load
Become(r, s) == req' = [req EXCEPT ![r] = s]
Goes(r, pc) == Become(r, [req[r] EXCEPT !.pc = pc])
At(r, pc) == req[r].pc = pc
Answer(r, s) == Become(r, Done) /\ answered' = answered \cup {s}
Tables == <<pages, projects, home, watched, blocked, sweep, faults>>

-----------------------------------------------------------------------------
(* POST /public/watch. Without an address (who = Nobody) it opens or mints the  *)
(* host's page; with one it mints into the account of that address.            *)

\* A live page is a read: before the gate and the ceilings.
Opens(v) ==
  \E h \in Hosts, who \in Accounts \cup {Nobody} :
    /\ Starts(v)
    /\ UNCHANGED Tables
    /\ IF who = Nobody /\ LivePage(h) # None
       THEN Answer(v, pages[LivePage(h)].slug)
       ELSE /\ Become(v, [Idle EXCEPT !.pc = "gate", !.host = h, !.who = who, !.page = LivePage(h), !.root = RootOf(LivePage(h))])
            /\ UNCHANGED answered

\* The host gate and the early count of the ceilings; only a fresh host is probed.
Gate(v) ==
  /\ At(v, "gate")
  /\ UNCHANGED <<Tables, answered>>
  /\ IF Blocked(req[v].host) \/ OverAddress(v) \/ OverDay
     THEN Become(v, Done)
     ELSE Goes(v, IF req[v].page = None THEN "probe" ELSE "account")

\* Up to ten seconds. No answer refuses a visit without an address; a target that
\* is not probed refuses both.
ProbeEnds(v) ==
  /\ At(v, "probe")
  /\ UNCHANGED <<Tables, answered>>
  /\ \/ Become(v, Done)
     \/ Become(v, [req[v] EXCEPT !.pc = "probed", !.before = LivePages(req[v].host)])

\* MUTANT of Rereads: the page is not looked up again after the probe.
Rereads_Not(v) ==
  /\ At(v, "probed")
  /\ UNCHANGED <<Tables, answered>>
  /\ Goes(v, IF req[v].who = Nobody THEN "count" ELSE "account")

\* "A second visitor may have minted this host meanwhile."
Rereads(v) ==
  LET i == LivePage(req[v].host) IN
  /\ At(v, "probed")
  /\ UNCHANGED Tables
  /\ IF req[v].who = Nobody /\ i # None
     THEN Answer(v, pages[i].slug)
     ELSE /\ Become(v, [req[v] EXCEPT !.pc = IF req[v].who = Nobody THEN "count" ELSE "account",
                                      !.page = i, !.root = RootOf(i)])
          /\ UNCHANGED answered

\* auth.Provision: a new account's project is named after the host, an existing one
\* keeps its name.
Provisions(v) ==
  LET e == req[v].who  p == IF home[e] = None THEN Len(projects) + 1 ELSE home[e] IN
  /\ At(v, "account")
  /\ IF home[e] = None
     THEN /\ projects' = Append(projects, [domain |-> req[v].host, claimed |-> TRUE])
          /\ home' = [home EXCEPT ![e] = p]
     ELSE UNCHANGED <<projects, home>>
  /\ Become(v, [req[v] EXCEPT !.pc = "count", !.project = p])
  /\ UNCHANGED <<pages, watched, blocked, sweep, answered, faults>>

\* The second count, inside the mint's transaction.
Counts(r) ==
  /\ At(r, "count")
  /\ UNCHANGED <<Tables, answered>>
  /\ IF \/ OverDay
        \/ r \in Visits /\ OverAddress(r)
        \/ req[r].who = Nobody /\ OverHostPages
     THEN Become(r, Done)
     ELSE Goes(r, "claim")

ClaimsSlug(r) ==
  LET p == IF req[r].project = None THEN Len(projects) + 1 ELSE req[r].project IN
  /\ At(r, "claim")
  /\ \E s \in ClaimedSlugs(req[r].host, p) : Become(r, [req[r] EXCEPT !.pc = "insert", !.slug = s])
  /\ UNCHANGED <<Tables, answered>>

\* What upsertWatchPage writes: no live page was found, so this is the host's page.
WatchRow(r, p, s) ==
  [slug |-> s, project |-> p, host |-> req[r].page = None,
   root |-> IF req[r].root # Nobody THEN req[r].root ELSE req[r].host, removed |-> FALSE, token |-> FALSE,
   from |-> IF r \in Visits THEN r ELSE Nobody, settings |-> None, before |-> req[r].before]

\* A plan without a free slot leaves the account's check out; a seed has none.
Subscribes(r, p, own) ==
  \/ r \in Visits /\ watched' = watched \cup {<<p, req[r].host>>}
  \/ ~(r \in Visits /\ own) /\ watched' = watched

\* mintUnclaimedTriple, the rest and the commit: a slug somebody took meanwhile leaves
\* the new project without a page of its own. The answer is the project's first page,
\* or else the slug that was claimed.
MintsPage(r) ==
  LET own == req[r].project = None
      p == IF own THEN Len(projects) + 1 ELSE req[r].project
      s == IF req[r].slug[1] = "prj" THEN Service(p) ELSE req[r].slug
  IN
  /\ r \in Visits \cup Seeds /\ At(r, "insert")
  /\ projects' = IF own THEN Append(projects, [domain |-> req[r].host, claimed |-> FALSE]) ELSE projects
  /\ pages' = IF Holder(s) = {} THEN Append(pages, WatchRow(r, p, s)) ELSE pages
  /\ Subscribes(r, p, own)
  /\ Answer(r, IF PagesOf(p) # {} THEN pages[Oldest(PagesOf(p))].slug ELSE s)
  /\ UNCHANGED <<home, blocked, sweep, faults>>

-----------------------------------------------------------------------------
(* POST /internal/seed-host: the gate, the live page, and a mint of its own.   *)

SeedOpens(r) ==
  \E h \in Hosts :
    /\ Starts(r)
    /\ UNCHANGED Tables
    /\ CASE Blocked(h) -> Become(r, Done) /\ UNCHANGED answered
         [] ~Blocked(h) /\ LivePage(h) # None -> Answer(r, pages[LivePage(h)].slug)
         [] OTHER -> Become(r, [Idle EXCEPT !.pc = "count", !.host = h]) /\ UNCHANGED answered

-----------------------------------------------------------------------------
(* PUT /v1/status-page, and the first website check of an unnamed project.     *)

\* statusConfig reads any page of the project, or none; a page never saved before
\* is named after the domain.
SaveReads(r) ==
  \E e \in Accounts :
    LET p == home[e]  d == projects[p].domain IN
    /\ Starts(r) /\ p # None
    /\ \E s \in IF PagesOf(p) # {} THEN {pages[i].slug : i \in PagesOf(p)}
                ELSE IF d = Nobody THEN {Service(p)} ELSE ClaimedSlugs(d, p) :
         Become(r, [Idle EXCEPT !.pc = "save", !.project = p, !.slug = s])
    /\ UNCHANGED <<Tables, answered>>

\* ON CONFLICT (slug) DO UPDATE: the row with that slug, whoever has it by now.
Upserts(r) ==
  LET s == req[r].slug  p == req[r].project IN
  /\ At(r, "save")
  /\ pages' = IF Holder(s) = {}
              THEN Append(pages, [slug |-> s, project |-> p, host |-> FALSE, root |-> Nobody, removed |-> FALSE,
                                  token |-> FALSE, from |-> Nobody, settings |-> p, before |-> {}])
              ELSE [i \in DOMAIN pages |->
                      IF pages[i].slug = s THEN [pages[i] EXCEPT !.settings = p] ELSE pages[i]]
  /\ Become(r, Done)
  /\ UNCHANGED <<projects, home, watched, blocked, sweep, answered, faults>>

\* nameProjectIfUnnamed: only the one that names the project goes on to the slug.
Names(r) ==
  \E e \in Accounts, h \in Hosts :
    LET p == home[e] IN
    /\ Starts(r) /\ p # None
    /\ watched' = watched \cup {<<p, h>>}
    /\ IF projects[p].domain # Nobody
       THEN Become(r, Done) /\ UNCHANGED projects
       ELSE /\ projects' = [projects EXCEPT ![p].domain = h]
            /\ Become(r, [Idle EXCEPT !.pc = "claim", !.host = h, !.project = p])
    /\ UNCHANGED <<pages, home, blocked, sweep, answered, faults>>

\* MUTANT of Renamed: the page follows the name whatever its address is.
Renamed_Any(p, s) == [i \in DOMAIN pages |->
  IF PagesOf(p) = {i} /\ Holder(s) = {} THEN [pages[i] EXCEPT !.slug = s] ELSE pages[i]]

Renamed(p, s) == [i \in DOMAIN pages |->
  IF pages[i].project = p /\ pages[i].slug = Service(p) THEN [pages[i] EXCEPT !.slug = s] ELSE pages[i]]

\* Only the service slug gives way to the name; a slug taken meanwhile fails it.
Renames(r) ==
  LET p == req[r].project  s == req[r].slug IN
  /\ r \in Namings /\ At(r, "insert")
  /\ IF s = Service(p) \/ (Holder(s) # {} /\ Renamed(p, s) # pages)
     THEN Become(r, Done) /\ UNCHANGED pages
     ELSE /\ pages' = Renamed(p, s)
          /\ Goes(r, IF Renamed(p, s) = pages THEN "lay" ELSE "done")
  /\ UNCHANGED <<projects, home, watched, blocked, sweep, answered, faults>>

\* No page to rename: one is made, unless there is one by now.
Lays(r) ==
  LET p == req[r].project  s == req[r].slug IN
  /\ At(r, "lay")
  /\ pages' = IF PagesOf(p) # {} \/ Holder(s) # {} THEN pages
              ELSE Append(pages, [slug |-> s, project |-> p, host |-> FALSE, root |-> Nobody, removed |-> FALSE,
                                  token |-> FALSE, from |-> Nobody, settings |-> None, before |-> {}])
  /\ Become(r, Done)
  /\ UNCHANGED <<projects, home, watched, blocked, sweep, answered, faults>>

-----------------------------------------------------------------------------
(* Taking a page down: the token, the DNS record, the job.                     *)

\* Only a live host page of a named project, and one token for good.
IssuesToken(r) ==
  \E i \in DOMAIN pages :
    /\ Starts(r)
    /\ ~pages[i].removed /\ pages[i].host /\ ~pages[i].token /\ DomainOf(i) # Nobody
    /\ pages' = [pages EXCEPT ![i].token = TRUE]
    /\ Become(r, Done)
    /\ UNCHANGED <<projects, home, watched, blocked, sweep, answered, faults>>

SweepLists ==
  /\ sweep = {}
  /\ sweep' = {[page |-> i, domain |-> DomainOf(i)] :
                i \in {j \in DOMAIN pages : pages[j].token /\ ~pages[j].removed}}
  /\ UNCHANGED <<pages, projects, home, watched, blocked, req, answered, faults>>

\* Whether the owner of the domain has published the token is any answer. A lookup
\* that fails, or a record without it: on to the next page. The removal is one
\* transaction; one that fails ends the run.
SweepTakes ==
  \E w \in sweep :
    LET i == w.page  d == Registrable[w.domain] IN
    \/ /\ sweep' = sweep \ {w}
       /\ UNCHANGED <<pages, projects, home, watched, blocked, req, answered, faults>>
    \/ /\ sweep' = sweep \ {w}
       /\ pages' = [pages EXCEPT ![i].removed = TRUE, ![i].root = Nobody]
       /\ watched' = watched \ {<<pages[i].project, pages[i].root>>}
       /\ blocked' = blocked \cup {d}
       /\ UNCHANGED <<projects, home, req, answered, faults>>
    \/ /\ faults < MaxFaults
       /\ faults' = faults + 1
       /\ sweep' = {}
       /\ UNCHANGED <<pages, projects, home, watched, blocked, req, answered>>

\* A page nobody owns is claimed (Ownership).
TakesOver(r) ==
  \E p \in DOMAIN projects :
    /\ Starts(r)
    /\ ~projects[p].claimed
    /\ projects' = [projects EXCEPT ![p].claimed = TRUE]
    /\ Become(r, Done)
    /\ UNCHANGED <<pages, home, watched, blocked, sweep, answered, faults>>

-----------------------------------------------------------------------------
\* An account is absent, or signed in with a project not yet named; a host may have
\* been seeded before, its token asked for.
Init ==
  /\ \E old \in SUBSET Accounts, h \in Hosts \cup {Nobody} :
       /\ home \in [Accounts -> 0..Cardinality(old)]
       /\ \A a \in Accounts : home[a] = None <=> a \notin old
       /\ \A a, b \in old : home[a] = home[b] => a = b
       /\ projects = [k \in 1..Cardinality(old) |-> [domain |-> Nobody, claimed |-> TRUE]]
                       \o (IF h = Nobody THEN <<>> ELSE <<[domain |-> h, claimed |-> FALSE]>>)
       /\ pages = IF h = Nobody THEN <<>>
                  ELSE <<[slug |-> <<h, None>>, project |-> Cardinality(old) + 1, host |-> TRUE, root |-> h,
                          removed |-> FALSE, token |-> TRUE, from |-> Nobody, settings |-> None, before |-> {}]>>
  /\ watched = {} /\ blocked = {} /\ answered = {}
  /\ sweep = {}
  /\ req = [r \in Requests |-> Idle]
  /\ faults = 0

SweepStep == SweepLists \/ SweepTakes

Next ==
  \/ \E v \in Visits : Opens(v) \/ Gate(v) \/ ProbeEnds(v) \/ Rereads(v) \/ Provisions(v)
  \/ \E r \in Seeds : SeedOpens(r)
  \/ \E r \in Requests : Counts(r) \/ ClaimsSlug(r)
  \/ \E r \in Visits \cup Seeds : MintsPage(r)
  \/ \E r \in Saves : SaveReads(r) \/ Upserts(r)
  \/ \E r \in Namings : Names(r) \/ Renames(r) \/ Lays(r)
  \/ \E r \in Tokens : IssuesToken(r)
  \/ \E r \in Takes : TakesOver(r)
  \/ SweepStep

Spec == Init /\ [][Next]_vars

-----------------------------------------------------------------------------
(* Properties.                                                               *)

\* The watch door makes no second host page beside one that was live when its probe
\* ended: "the race is the transaction's own width again, not the probe's"
\* (publicWatch, upsertWatchPage).
HostPageWasFree ==
  \A i \in DOMAIN pages : pages[i].host => \A j \in pages[i].before : pages[j].removed

\* An address a door has handed out keeps leading to a page, whatever is minted,
\* saved, named, claimed or removed afterwards; prj-N resolves by its number
\* (upsertWatchPage, nameProjectIfUnnamed, publicStatus).
SharedLinkStands ==
  \A s \in answered : s[1] = "prj" \/ Holder(s) # {}

(* What the comments promise and the code does not keep (README, section 4). *)

\* "one host, one page": of a host's live pages one is the host page.
OneHostPage ==
  \A h \in Hosts : Cardinality({i \in LivePages(h) : pages[i].host}) <= 1

\* "the host is never minted again" (worker.go:476).
NeverMintedAgain ==
  [][\A i \in DOMAIN pages' \ DOMAIN pages : pages'[i].root # Nobody =>
       ~Blocked(pages'[i].root)]_pages

\* "counted again inside the mint transaction where the count is authoritative".
WithinCeiling ==
  [][\A r \in Visits \cup Seeds : MintsPage(r) /\ pages' # pages => ~OverDay]_vars

\* A save writes the settings of its own project's page.
SettingsAreItsOwn == \A i \in DOMAIN pages : pages[i].settings \in {None, pages[i].project}

\* A minted project has a page: "on refusal nothing exists afterwards".
NoProjectWithoutPage ==
  \A p \in DOMAIN projects : projects[p].claimed \/ PagesOf(p) # {}
=============================================================================
