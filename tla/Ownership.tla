------------------------------ MODULE Ownership ------------------------------
(***************************************************************************)
(* Who a project belongs to: an ownerless tenant is minted, claimed into a   *)
(* person's workspace, released again when its owner deletes the project,    *)
(* and reaped when nobody takes it (src/back/internal/api/install.go,        *)
(* projects.go, write_api.go, worker/worker.go). A request is split where    *)
(* another one can come between its statements; locks are read off the       *)
(* requests that hold them, and writes land when the transaction commits.    *)
(***************************************************************************)
EXTENDS Naturals, FiniteSets, SequencesExt

CONSTANTS
  People,
  Claims, Creates, Deletes,    \* sessions' requests, each made once by Who[c]
  Issues,                      \* new api keys
  Mints, Watches,              \* POST /v1/projects/anonymous, and the watch door
  LogBatches, WebBatches,      \* ingest, by its door
  Who,
  Plan,                        \* projects each person's plan allows
  Load                         \* bound on the requests made in a run

None == 0
Nobody == "nobody"

ASSUME OwnershipAssumption ==
  /\ IsFiniteSet(People) /\ Nobody \notin People
  /\ Who \in [Claims \cup Creates \cup Deletes \cup Issues -> People]
  /\ Plan \in [People -> Nat \ {0}]
  /\ Load \in Nat

VARIABLES
  tenants,   \* id -> [owner, hash, age]; hash is the claim token's
  projects,  \* id -> [tenant, page, checks]
  keys,      \* api_key rows; shown: somebody was handed the key
  rows,      \* which tenant and project the ingested data is written under; late:
             \* a log batch that landed while a claim was about to delete the project
  req,       \* each request: where it is; drop: the placeholder its DELETE has found
  reaping,   \* the tenants the running DELETE of the reaper has found
  won,       \* history: the tenant each answered claim adopted
  next       \* the next id

vars == <<tenants, projects, keys, rows, req, reaping, won, next>>

Batches == LogBatches \cup WebBatches
Requests == Claims \cup Creates \cup Deletes \cup Issues \cup Mints \cup Watches \cup Batches

Idle == [pc |-> "idle", own |-> None, t |-> None, p |-> None, drop |-> {}, last |-> FALSE]
Done == [Idle EXCEPT !.pc = "done"]

TypeOK ==
  /\ \A t \in DOMAIN tenants : t \in Nat /\ tenants[t] \in
       [owner : People \cup {Nobody}, hash : {"none", "secret", "told"}, age : 0..2]
  /\ \A p \in DOMAIN projects : projects[p] \in
       [tenant : DOMAIN tenants, page : {"none", "unseen", "seen", "removed"},
        checks : {"none", "running", "paused"}]
  /\ keys \subseteq [tenant : DOMAIN tenants, project : DOMAIN projects, shown : BOOLEAN]
  /\ rows \subseteq [tenant : Nat, project : Nat, door : {"log", "late", "web"}]
  /\ req \in [Requests ->
       [pc : {"idle", "done", "homeless", "home", "burned", "scanned", "walled", "locked",
              "read", "released", "resolved", "bare", "hashed", "placed"},
        own : Nat, t : Nat, p : Nat, drop : SUBSET Nat, last : BOOLEAN]]
  /\ reaping \subseteq Nat
  /\ won \in [Claims -> Nat]
  /\ next \in Nat

-----------------------------------------------------------------------------
(* Rows and locks.                                                           *)

Claimable(t) == t \in DOMAIN tenants /\ tenants[t].hash # "none"
Workspaces(person) == {t \in DOMAIN tenants : tenants[t].owner = person}
ProjectsOf(t) == {p \in DOMAIN projects : projects[p].tenant = t}

\* The tenants whose rows d's transaction has written or selected FOR UPDATE.
Locked(d) == CASE req[d].pc = "burned" -> {req[d].t}
               [] req[d].pc \in {"scanned", "walled"} -> {req[d].t, req[d].own}
               [] req[d].pc = "locked" -> {req[d].own}
               [] OTHER -> {}
LockedProjects(d) == CASE req[d].pc = "walled" -> req[d].drop
                       [] req[d].pc = "released" -> {req[d].p}
                       [] OTHER -> {}

TenantFree(c, t) == \A d \in Requests \ {c} : t \notin Locked(d)
ProjectFree(c, p) == \A d \in Requests \ {c} : p \notin LockedProjects(d)

\* An insert share-locks the rows its foreign keys name: it waits for a FOR UPDATE
\* on the tenant (a create, a claim's own workspace) and a delete of the project.
MayPoint(t, p) ==
  \A d \in Requests :
    /\ req[d].pc = "walled" => p \notin req[d].drop
    /\ req[d].pc \in {"scanned", "walled", "locked"} => req[d].own # t

\* Every request is made at most once, and at most Load of them in all.
Starts(c) ==
  /\ req[c].pc = "idle"
  /\ Cardinality({d \in Requests : req[d].pc # "idle"}) < Load

Become(c, r) == req' = [req EXCEPT ![c] = r]
Refuse(c) == Become(c, Done) /\ UNCHANGED <<tenants, projects, keys, rows, won, next>>

\* What goes with a project that is deleted, and with a tenant.
Without(ps) == [p \in DOMAIN projects \ ps |-> projects[p]]
KeysWithout(ps) == {k \in keys : k.project \notin ps}

-----------------------------------------------------------------------------
(* A session's own workspace (OwnTenantID).                                  *)

\* The workspace the person owns, or none: the next statement inserts one.
Comes(c, t) ==
  LET ws == Workspaces(Who[c]) IN
  /\ Starts(c)
  /\ \/ ws = {} /\ Become(c, [Idle EXCEPT !.pc = "homeless", !.t = t])
     \/ \E own \in ws :
          /\ \A other \in ws : own <= other
          /\ Become(c, [Idle EXCEPT !.pc = "home", !.t = t, !.own = own])
  /\ UNCHANGED <<tenants, projects, keys, rows, reaping, won, next>>

\* A row inserted under a new id.
Insert(table, id, row) == [i \in DOMAIN table \cup {id} |-> IF i = id THEN row ELSE table[i]]
NewTenant(owner, hash) == [owner |-> owner, hash |-> hash, age |-> 0]

Settles(c) ==
  /\ req[c].pc = "homeless"
  /\ tenants' = Insert(tenants, next, NewTenant(Who[c], "none"))
  /\ next' = next + 1
  /\ Become(c, [req[c] EXCEPT !.pc = "home", !.own = next])
  /\ UNCHANGED <<projects, keys, rows, reaping, won>>

-----------------------------------------------------------------------------
(* POST /v1/claim.                                                           *)

\* The token or the slug only locates the tenant; a removed page's slug does not.
Locates(c) ==
  \E t \in DOMAIN tenants :
    /\ tenants[t].hash = "told" \/ \E p \in ProjectsOf(t) : projects[p].page \in {"unseen", "seen"}
    /\ Comes(c, t)

\* MUTANT of Burns: the hash is looked at and the row is not locked.
Burns_Any(c) ==
  /\ req[c].pc = "home"
  /\ Become(c, [req[c] EXCEPT !.pc = "burned"])
  /\ UNCHANGED <<tenants, projects, keys, rows, reaping, won, next>>

\* The conditional burn, which waits for whoever holds the row and looks again.
Burns(c) ==
  /\ req[c].pc = "home"
  /\ TenantFree(c, req[c].t)
  /\ IF Claimable(req[c].t) /\ req[c].t # req[c].own
     THEN /\ Become(c, [req[c] EXCEPT !.pc = "burned"])
          /\ UNCHANGED <<tenants, projects, keys, rows, won, next>>
     ELSE Refuse(c)
  /\ UNCHANGED reaping

\* Ingest leaves two marks: the project's sequence has moved, or rows are there.
Leased(p) == \E r \in rows : r.project = p /\ r.door \in {"log", "late"}
Used(p) == Leased(p) \/ [tenant |-> projects[p].tenant, project |-> p, door |-> "web"] \in rows

\* MUTANT of Placeholder: page views alone are looked for.
Placeholder_Web(t) ==
  {p \in ProjectsOf(t) :
     /\ ProjectsOf(t) = {p}
     /\ projects[p].checks = "none"
     /\ [tenant |-> t, project |-> p, door |-> "web"] \notin rows}

\* The lone project nobody has used.
Placeholder(t) ==
  {p \in ProjectsOf(t) : ProjectsOf(t) = {p} /\ projects[p].checks = "none" /\ ~Used(p)}

\* projectsRefusalQ, over the rows the transaction has not deleted itself.
Wall(t, drop) ==
  t \in DOMAIN tenants /\ Cardinality(ProjectsOf(t) \ drop) >= Plan[tenants[t].owner]

\* The own tenant FOR UPDATE, then the DELETE of the placeholder finds its row in
\* one snapshot.
AbsorbScans(c) ==
  LET own == req[c].own IN
  /\ req[c].pc = "burned"
  /\ TenantFree(c, own)
  /\ Become(c, [req[c] EXCEPT !.pc = "scanned", !.drop = Placeholder(own)])
  /\ UNCHANGED <<tenants, projects, keys, rows, reaping, won, next>>

\* It waits for the row, looks again at what the row itself says and at nothing
\* else, and the wall is counted: refused, the rollback puts back the hash and the
\* placeholder.
Absorbs(c) ==
  LET own == req[c].own
      drop == req[c].drop \cap ProjectsOf(own)
  IN /\ req[c].pc = "scanned"
     /\ \A p \in drop : ProjectFree(c, p)
     /\ IF Wall(own, drop) THEN Refuse(c)
        ELSE /\ Become(c, [req[c] EXCEPT !.pc = "walled", !.drop = drop])
             /\ UNCHANGED <<tenants, projects, keys, rows, won, next>>
     /\ UNCHANGED reaping

\* A row of the ownerless tenant becomes one of the claimer's.
Moves(r, t, own) == IF r.tenant = t THEN [r EXCEPT !.tenant = own] ELSE r

\* The footprint reparented, the ownerless tenant deleted, the commit. The foreign
\* key fails the claim when the claimer's workspace has gone.
Adopts(c) ==
  LET own == req[c].own
      t == req[c].t
      Moved(r) == Moves(r, t, own)
  IN /\ req[c].pc = "walled"
     /\ \A p \in ProjectsOf(t) : ProjectFree(c, p)
     /\ IF own \notin DOMAIN tenants THEN Refuse(c)
        ELSE /\ projects' = [p \in DOMAIN projects \ req[c].drop |-> Moved(projects[p])]
             /\ keys' = {Moved(k) : k \in KeysWithout(req[c].drop)}
             /\ rows' = {Moved(r) : r \in rows}
             /\ tenants' = [u \in DOMAIN tenants \ {t} |-> tenants[u]]
             /\ won' = [won EXCEPT ![c] = t]
             /\ Become(c, Done)
             /\ UNCHANGED next
     /\ UNCHANGED reaping

-----------------------------------------------------------------------------
(* POST /v1/projects.                                                        *)

\* MUTANT of CreateLocks: the count runs without FOR UPDATE.
CreateLocks_NoWait(c) ==
  /\ req[c].pc = "home"
  /\ IF Wall(req[c].own, {}) \/ req[c].own \notin DOMAIN tenants THEN Refuse(c)
     ELSE /\ Become(c, [req[c] EXCEPT !.pc = "locked"])
          /\ UNCHANGED <<tenants, projects, keys, rows, won, next>>
  /\ UNCHANGED reaping

\* The tenant row is the lock, and the wall is counted behind it.
CreateLocks(c) ==
  /\ req[c].pc = "home"
  /\ TenantFree(c, req[c].own)
  /\ IF Wall(req[c].own, {}) \/ req[c].own \notin DOMAIN tenants THEN Refuse(c)
     ELSE /\ Become(c, [req[c] EXCEPT !.pc = "locked"])
          /\ UNCHANGED <<tenants, projects, keys, rows, won, next>>
  /\ UNCHANGED reaping

NewProject(t, page, checks) == [tenant |-> t, page |-> page, checks |-> checks]
Key(t, p, shown) == [tenant |-> t, project |-> p, shown |-> shown]

\* The project and its key, one commit.
CreateCommits(c) ==
  /\ req[c].pc = "locked"
  /\ projects' = Insert(projects, next, NewProject(req[c].own, "none", "none"))
  /\ keys' = keys \cup {Key(req[c].own, next, TRUE)}
  /\ next' = next + 1
  /\ Become(c, Done)
  /\ UNCHANGED <<tenants, rows, reaping, won>>

-----------------------------------------------------------------------------
(* DELETE /v1/project.                                                       *)

\* The session's project and the count, both read before the transaction.
DeleteReads(c) ==
  \E t \in Workspaces(Who[c]), p \in DOMAIN projects \cup {None} :
    /\ Starts(c)
    /\ IF ProjectsOf(t) = {} THEN p = None ELSE p \in ProjectsOf(t)
    /\ Become(c, [Idle EXCEPT !.pc = "read", !.own = t, !.p = p,
                              !.last = Cardinality(ProjectsOf(t)) <= 1])
    /\ UNCHANGED <<tenants, projects, keys, rows, reaping, won, next>>

\* releaseProject: by its id alone, whoever's it is by now; a removed page refuses.
Releases(c) ==
  LET p == req[c].p IN
  /\ req[c].pc = "read"
  /\ ProjectFree(c, p)
  /\ IF p # None /\ (p \notin DOMAIN projects \/ projects[p].page = "removed") THEN Refuse(c)
     ELSE /\ Become(c, [req[c] EXCEPT !.pc = "released"])
          /\ UNCHANGED <<tenants, projects, keys, rows, won, next>>
  /\ UNCHANGED reaping

\* The project to its fresh ownerless tenant, its checks paused and its keys gone;
\* the last one takes the account, and what the account still holds, with it.
DeleteCommits(c) ==
  LET p == req[c].p
      own == req[c].own
      closed == IF req[c].last THEN {own} ELSE {}
      lost == (UNION {ProjectsOf(t) : t \in closed}) \ {p}
      Freed(q) == IF q # p THEN projects[q]
                  ELSE [projects[p] EXCEPT !.tenant = next,
                          !.checks = IF @ = "running" THEN "paused" ELSE @]
      left == [t \in DOMAIN tenants \ closed |-> tenants[t]]
  IN /\ req[c].pc = "released"
     /\ \A t \in closed : TenantFree(c, t)
     /\ \A q \in lost : ProjectFree(c, q)
     /\ projects' = [q \in DOMAIN projects \ lost |-> Freed(q)]
     /\ tenants' = IF p = None THEN left ELSE Insert(left, next, NewTenant(Nobody, "secret"))
     /\ keys' = {k \in KeysWithout(lost \cup {p}) : k.tenant \notin closed}
     /\ next' = next + 1
     /\ Become(c, Done)
     /\ UNCHANGED <<rows, reaping, won>>

-----------------------------------------------------------------------------
(* Keys, checks and data.                                                    *)

\* A key's project: the session's, or the one a burned install token names.
Resolves(c) ==
  \E t \in Workspaces(Who[c]) : \E p \in ProjectsOf(t) :
    /\ Starts(c)
    /\ Become(c, [Idle EXCEPT !.pc = "resolved", !.t = t, !.p = p])
    /\ UNCHANGED <<tenants, projects, keys, rows, reaping, won, next>>

Issued(c) ==
  /\ req[c].pc = "resolved"
  /\ MayPoint(req[c].t, req[c].p)
  /\ IF req[c].t \notin DOMAIN tenants \/ req[c].p \notin DOMAIN projects THEN Refuse(c)
     ELSE /\ keys' = keys \cup {Key(req[c].t, req[c].p, TRUE)}
          /\ Become(c, Done)
          /\ UNCHANGED <<tenants, projects, rows, won, next>>
  /\ UNCHANGED reaping

\* A person puts a check on a project of theirs.
Monitors(p) ==
  /\ projects[p].checks = "none"
  /\ tenants[projects[p].tenant].owner # Nobody
  /\ MayPoint(projects[p].tenant, p)
  /\ projects' = [projects EXCEPT ![p].checks = "running"]
  /\ UNCHANGED <<tenants, keys, rows, req, reaping, won, next>>

\* The key is resolved when the batch comes in and never again.
Accepts(c) ==
  \E k \in keys :
    /\ Starts(c) /\ k.shown
    /\ Become(c, [Idle EXCEPT !.pc = "resolved", !.t = k.tenant, !.p = k.project])
    /\ UNCHANGED <<tenants, projects, keys, rows, reaping, won, next>>

\* A log batch leases from project_seq, which goes with its project and is another
\* row than the project's; a web batch writes its rows and asks nothing.
Flushes(c) ==
  LET p == req[c].p
      late == \E d \in Requests : req[d].pc = "scanned" /\ p \in req[d].drop
  IN
  /\ req[c].pc = "resolved"
  /\ c \in LogBatches => \A d \in Requests : req[d].pc = "walled" => p \notin req[d].drop
  /\ IF c \in LogBatches /\ p \notin DOMAIN projects THEN Refuse(c)
     ELSE /\ rows' = rows \cup {[tenant |-> req[c].t, project |-> p,
                                 door |-> CASE c \in WebBatches -> "web" [] late -> "late" [] OTHER -> "log"]}
          /\ Become(c, Done)
          /\ UNCHANGED <<tenants, projects, keys, won, next>>
  /\ UNCHANGED reaping

-----------------------------------------------------------------------------
(* The ownerless: minted, probed, removed, aged and reaped.                  *)

\* newUnclaimedTenant: four statements, no transaction.
MintsTenant(c) ==
  /\ Starts(c)
  /\ tenants' = Insert(tenants, next, NewTenant(Nobody, "none"))
  /\ next' = next + 1
  /\ Become(c, [Idle EXCEPT !.pc = "bare", !.t = next])
  /\ UNCHANGED <<projects, keys, rows, reaping, won>>

MintsHash(c) ==
  /\ req[c].pc = "bare"
  /\ tenants' = [tenants EXCEPT ![req[c].t].hash = "secret"]
  /\ Become(c, [req[c] EXCEPT !.pc = "hashed"])
  /\ UNCHANGED <<projects, keys, rows, reaping, won, next>>

MintsProject(c) ==
  /\ req[c].pc = "hashed"
  /\ projects' = Insert(projects, next, NewProject(req[c].t, "none", "none"))
  /\ next' = next + 1
  /\ Become(c, [req[c] EXCEPT !.pc = "placed", !.p = next])
  /\ UNCHANGED <<tenants, keys, rows, reaping, won>>

\* The key, and the answer that hands out both it and the claim token.
MintsKey(c) ==
  /\ req[c].pc = "placed"
  /\ keys' = keys \cup {Key(req[c].t, req[c].p, TRUE)}
  /\ tenants' = [tenants EXCEPT ![req[c].t].hash = "told"]
  /\ Become(c, Done)
  /\ UNCHANGED <<projects, rows, reaping, won, next>>

\* mintOwnPage: the tenant, the project, a key nobody sees, the check and the page.
MintsPage(c) ==
  /\ Starts(c)
  /\ tenants' = Insert(tenants, next, NewTenant(Nobody, "secret"))
  /\ projects' = Insert(projects, next + 1, NewProject(next, "unseen", "running"))
  /\ keys' = keys \cup {Key(next, next + 1, FALSE)}
  /\ next' = next + 2
  /\ Become(c, Done)
  /\ UNCHANGED <<rows, reaping, won>>

\* first_ok_at: the page's root target has answered once.
Seen(p) ==
  /\ projects[p].page = "unseen"
  /\ projects' = [projects EXCEPT ![p].page = "seen"]
  /\ UNCHANGED <<tenants, keys, rows, req, reaping, won, next>>

\* removeByToken: the page goes dark and its project's root check with it.
Removes(p) ==
  /\ projects[p].page \in {"unseen", "seen"}
  /\ \A d \in Requests : p \notin LockedProjects(d)
  /\ projects' = [projects EXCEPT ![p].page = "removed", ![p].checks = "none"]
  /\ UNCHANGED <<tenants, keys, rows, req, reaping, won, next>>

\* A day, then a week, goes by; no request on the tenant lasts that long.
Ages(t) ==
  /\ tenants[t].hash # "none" /\ tenants[t].age < 2
  /\ \A c \in Requests : req[c].t # t
  /\ tenants' = [tenants EXCEPT ![t].age = @ + 1]
  /\ UNCHANGED <<projects, keys, rows, req, reaping, won, next>>

Paused(p) == [projects[p] EXCEPT !.checks = "paused"]
Stale(p) ==
  /\ projects[p].checks = "running"
  /\ Claimable(projects[p].tenant) /\ tenants[projects[p].tenant].age >= 1

ReapPauses ==
  /\ \E p \in DOMAIN projects : Stale(p)
  /\ projects' = [p \in DOMAIN projects |-> IF Stale(p) THEN Paused(p) ELSE projects[p]]
  /\ UNCHANGED <<tenants, keys, rows, req, reaping, won, next>>

\* An install in use: a key it still holds, and data that has flowed through it.
InUse(p) == (\E k \in keys : k.project = p) /\ Used(p)

Abandoned(t) ==
  /\ Claimable(t) /\ tenants[t].age = 2
  /\ \A p \in ProjectsOf(t) : ~InUse(p) /\ projects[p].page # "seen"

\* The reaper's DELETE finds its rows in one snapshot.
ReapScans ==
  /\ reaping = {}
  /\ reaping' = {t \in DOMAIN tenants : Abandoned(t)}
  /\ reaping' # {}
  /\ UNCHANGED <<tenants, projects, keys, rows, req, won, next>>

\* It waits for a row a claim has burned, looks at that row again, and cascades.
ReapDeletes ==
  LET dead == {t \in reaping : Claimable(t)}
      lost == UNION {ProjectsOf(t) : t \in dead}
  IN /\ reaping # {}
     /\ \A d \in Requests : Locked(d) \cap reaping = {} /\ LockedProjects(d) \cap lost = {}
     /\ tenants' = [t \in DOMAIN tenants \ dead |-> tenants[t]]
     /\ projects' = Without(lost)
     /\ keys' = {k \in KeysWithout(lost) : k.tenant \notin dead}
     /\ reaping' = {}
     /\ UNCHANGED <<rows, req, won, next>>

\* A statement errs or the process dies: the transaction rolls back, what was
\* committed before stays, and nothing resumes the request. One that has written
\* nothing yet fails by going no further.
Fails(c) ==
  /\ req[c].pc \in {"burned", "scanned", "walled", "locked", "released", "bare", "hashed", "placed"}
  /\ Refuse(c)
  /\ UNCHANGED reaping

-----------------------------------------------------------------------------
(* Starting states: every person has a workspace with its first project, and *)
(* one install nobody has claimed is there.                                  *)

Init ==
  /\ LET owners == SetToSeq(People) IN
     tenants = Insert([t \in DOMAIN owners |-> NewTenant(owners[t], "none")],
                      Cardinality(People) + 1, NewTenant(Nobody, "told"))
  /\ projects = [t \in 1..(Cardinality(People) + 1) |-> NewProject(t, "none", "none")]
  /\ keys = {Key(t, t, TRUE) : t \in DOMAIN projects}
  /\ rows = {} /\ reaping = {}
  /\ req = [c \in Requests |-> Idle]
  /\ won = [c \in Claims |-> None]
  /\ next = Cardinality(People) + 2

Next ==
  \/ \E c \in Claims : Locates(c) \/ Burns(c) \/ AbsorbScans(c) \/ Absorbs(c) \/ Adopts(c)
  \/ \E c \in Creates : Comes(c, None) \/ CreateLocks(c) \/ CreateCommits(c)
  \/ \E c \in Claims \cup Creates : Settles(c)
  \/ \E c \in Deletes : DeleteReads(c) \/ Releases(c) \/ DeleteCommits(c)
  \/ \E c \in Issues : Resolves(c) \/ Issued(c)
  \/ \E c \in Batches : Accepts(c) \/ Flushes(c)
  \/ \E c \in Mints : MintsTenant(c) \/ MintsHash(c) \/ MintsProject(c) \/ MintsKey(c)
  \/ \E c \in Watches : MintsPage(c)
  \/ \E c \in Requests : Fails(c)
  \/ \E p \in DOMAIN projects : Monitors(p) \/ Seen(p) \/ Removes(p)
  \/ \E t \in DOMAIN tenants : Ages(t)
  \/ ReapPauses \/ ReapScans \/ ReapDeletes

Spec == Init /\ [][Next]_vars

-----------------------------------------------------------------------------
(* Properties.                                                               *)

\* Claims and creates, however they interleave with deletes and with each other,
\* never leave a workspace holding more projects than its plan allows.
WithinPlan ==
  \A person \in People : \A t \in Workspaces(person) :
    Cardinality(ProjectsOf(t)) <= Plan[person]

\* Two claims are never both answered for one ownerless tenant, by the token and by
\* the slug of its page, retried after a failure or racing the reaper.
ClaimedOnce ==
  \A c, d \in Claims : won[c] = won[d] /\ c # d => won[c] = None

\* The project had logged before a claim last looked at it, if one has.
LoggedBefore(p) == \E r \in rows : r.project = p /\ r.door = "log"

\* The projects a step takes out of a person's workspace that stays.
TakenAway ==
  {p \in DOMAIN projects \ DOMAIN projects' :
     tenants[projects[p].tenant].owner # Nobody /\ projects[p].tenant \in DOMAIN tenants'}

\* A project of a person's workspace that has a check, or that had logged when a
\* claim looked whether it is empty, goes only with the account: neither the absorb,
\* however long after its look it deletes, nor the reaper takes it.
UsedProjectStays == [][\A p \in TakenAway : ~LoggedBefore(p) /\ projects[p].checks = "none"]_vars

(* What the comments promise and the code does not keep (README, section 4). *)

\* "a confirmation that names one domain may not take the other four with it"
\* (write_api.go:965): the count is read before the transaction, so a project
\* created or claimed meanwhile goes with the account.
ClosesAlone ==
  [][\A c \in Deletes : req[c].pc = "released" /\ DeleteCommits(c) =>
       Cardinality(DOMAIN projects) = Cardinality(DOMAIN projects')]_vars

\* A delete releases a project of the workspace it was asked in.
ReleasesItsOwn ==
  [][\A c \in Deletes : req[c].pc = "released" /\ DeleteCommits(c) /\ req[c].p # None =>
       projects[req[c].p].tenant = req[c].own]_vars

\* "Deleting the key is also what lets the reaper collect the page later": no key of
\* a workspace is left on a project that has changed hands.
KeysFollow == \A k \in keys : projects[k.project].tenant = k.tenant

\* "The data ... left behind, the claimed project opens empty": what a project has
\* taken in is under its tenant.
DataFollows == \A r \in rows :
  r.project \in DOMAIN projects => projects[r.project].tenant = r.tenant

\* "a non-NULL claim_token_hash IS the unclaimed marker": once its mint is over, a
\* tenant without an owner can be claimed or reaped.
OwnerlessIsClaimable ==
  \A t \in DOMAIN tenants :
    \/ tenants[t].owner # Nobody \/ Claimable(t)
    \/ \E c \in Mints : req[c].pc = "bare" /\ req[c].t = t

\* "A removed page is not claimable, on either door's shape".
RemovedStaysOut ==
  [][\A c \in Claims : req[c].pc = "walled" /\ Adopts(c) =>
       \A p \in ProjectsOf(req[c].t) : projects[p].page # "removed"]_vars

\* "Neither an SDK-only account ... is mistaken for a placeholder and deleted out from
\* under its key" (install.go:409): a batch that leases between the snapshot of the
\* claim's DELETE and the removal is not seen.
LoggedProjectStays == [][\A p \in TakenAway : ~Leased(p)]_vars

\* "Empty is exact": a web batch accepted for the placeholder is not lost with it.
AcceptedIsKept ==
  \A c \in Batches : req[c].pc = "resolved" =>
    req[c].p \in DOMAIN projects

\* One workspace per person, or the plan's count is of half of what they hold.
OneWorkspace == \A person \in People : Cardinality(Workspaces(person)) <= 1

=============================================================================
