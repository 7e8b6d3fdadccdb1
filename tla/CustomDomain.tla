----------------------------- MODULE CustomDomain -----------------------------
(***************************************************************************)
(* A status page on its owner's own host: the save that binds it, the DNS     *)
(* proof, the certificate door that asks for it, and the grace the sweep runs *)
(* once the plan no longer carries it (src/back/internal/api/write_api.go,    *)
(* storage/pgstore/sweep.go). A request is split where it waits for a table   *)
(* or a resolver. Each page is the only one of its workspace.                 *)
(***************************************************************************)
EXTENDS Naturals

CONSTANTS
  Pages, Domains,
  Saves, Checks,   \* PUT /v1/status-page, POST /v1/status-page/domain/verify
  GraceDays,
  MaxTurns,        \* bound on the changes of plans
  MaxRequests      \* bound on the requests of a run

Unbound == "unbound"
Never == GraceDays + 1

CustomDomainAssumption ==
  /\ Unbound \notin Domains
  /\ GraceDays \in Nat \ {0} /\ MaxTurns \in Nat /\ MaxRequests \in Nat

VARIABLES
  page,     \* status_page: [domain, verified, lapsed]; lapsed is the stamp's age
  carried,  \* pages whose plan carries a domain
  ask,      \* each request: where it is
  stage,    \* the statement the sweep comes to next
  proved,   \* history: <<page, domain>> that a lookup of this page has proved
  unseen,   \* history: days since the sweep last found the page's plan carrying
  turns, requests

vars == <<page, carried, ask, stage, proved, unseen, turns, requests>>

Idle == [pc |-> "idle", page |-> Unbound, domain |-> Unbound, stands |-> FALSE]

TypeOK ==
  /\ page \in [Pages -> [domain : Domains \cup {Unbound}, verified : BOOLEAN, lapsed : 0..Never]]
  /\ \A p, q \in Pages : page[p].domain = page[q].domain /\ p # q => page[p].domain = Unbound
  /\ carried \subseteq Pages
  /\ ask \in [Saves \cup Checks -> [pc : {"idle", "save", "resolve", "proved", "refuted"},
                page : Pages \cup {Unbound}, domain : Domains \cup {Unbound}, stands : BOOLEAN]]
  /\ stage \in 1..3
  /\ proved \subseteq Pages \X Domains
  /\ unseen \in [Pages -> 0..GraceDays]
  /\ turns \in 0..MaxTurns /\ requests \in 0..MaxRequests

Become(r, s) == ask' = [ask EXCEPT ![r] = s]
Tables == <<page, carried, stage, proved, unseen, turns>>

Arrives(r) == ask[r].pc = "idle" /\ requests < MaxRequests /\ requests' = requests + 1

-----------------------------------------------------------------------------
(* PUT /v1/status-page.                                                      *)

\* Only a change of the domain asks the plan; a proof stands only for the domain
\* that stays.
SaveReads(r) ==
  \E p \in Pages, d \in Domains \cup {Unbound} :
    /\ Arrives(r)
    /\ d \in {Unbound, page[p].domain} \/ p \in carried
    /\ Become(r, [pc |-> "save", page |-> p, domain |-> d,
                  stands |-> page[p].verified /\ d = page[p].domain])
    /\ UNCHANGED Tables

\* The upsert: domain is UNIQUE, and the row's own domain decides whether its proof
\* stays. The grace's stamp is not touched.
Upserts(r) ==
  LET p == ask[r].page  d == ask[r].domain IN
  /\ ask[r].pc = "save"
  /\ IF d # Unbound /\ \E q \in Pages \ {p} : page[q].domain = d
     THEN Become(r, Idle) /\ UNCHANGED page
     ELSE /\ page' = [page EXCEPT ![p].domain = d,
                                  ![p].verified = @ /\ d # Unbound /\ d = page[p].domain]
          /\ Become(r, IF d # Unbound /\ ~ask[r].stands THEN [ask[r] EXCEPT !.pc = "resolve"] ELSE Idle)
  /\ UNCHANGED <<carried, stage, proved, unseen, turns, requests>>

-----------------------------------------------------------------------------
(* POST /v1/status-page/domain/verify, and the proof both doors end in.        *)

CheckReads(r) ==
  \E p \in Pages :
    /\ Arrives(r)
    /\ page[p].domain # Unbound
    /\ Become(r, [pc |-> "resolve", page |-> p, domain |-> page[p].domain, stands |-> FALSE])
    /\ UNCHANGED Tables

\* Two lookups of records that anybody may change at any time; one that fails is
\* "not verified".
Resolves(r) ==
  LET p == ask[r].page  d == ask[r].domain IN
  /\ ask[r].pc = "resolve"
  /\ \/ Become(r, [ask[r] EXCEPT !.pc = "proved"]) /\ proved' = proved \cup {<<p, d>>}
     \/ Become(r, [ask[r] EXCEPT !.pc = "refuted"]) /\ UNCHANGED proved
  /\ UNCHANGED <<page, carried, stage, unseen, turns, requests>>

\* MUTANT of Stamped: the answer is written to whatever the page is bound to by now.
Stamped_Any(p, d, answer) == [page EXCEPT ![p].verified = answer /\ page[p].domain # Unbound]

\* WHERE project_id = $2 AND domain = $3.
Stamped(p, d, answer) ==
  IF page[p].domain = d THEN [page EXCEPT ![p].verified = answer] ELSE page

Stamps(r) ==
  /\ ask[r].pc \in {"proved", "refuted"}
  /\ page' = Stamped(ask[r].page, ask[r].domain, ask[r].pc = "proved")
  /\ Become(r, Idle)
  /\ UNCHANGED <<carried, stage, proved, unseen, turns, requests>>

-----------------------------------------------------------------------------
(* DomainGraceSweep: three statements, again and again; one that fails or a       *)
(* worker that dies begins again with the first.                                *)

Lapsed(p) == page[p].lapsed # Never

\* MUTANT of Forgiven: only a page without a domain loses its stamp.
Forgiven_Unbound == {p \in Pages : Lapsed(p) /\ page[p].domain = Unbound}

Forgiven == {p \in Pages : Lapsed(p) /\ (p \in carried \/ page[p].domain = Unbound)}

Marked(ps, age) == [p \in Pages |-> IF p \in ps THEN [page[p] EXCEPT !.lapsed = age] ELSE page[p]]

SweepClears ==
  /\ stage = 1 /\ stage' = 2
  /\ page' = Marked(Forgiven, Never)
  /\ unseen' = [p \in Pages |-> IF p \in carried THEN 0 ELSE unseen[p]]
  /\ UNCHANGED <<carried, ask, proved, turns, requests>>

SweepStamps ==
  /\ stage = 2 /\ stage' = 3
  /\ page' = Marked({p \in Pages \ carried : ~Lapsed(p) /\ page[p].domain # Unbound}, 0)
  /\ UNCHANGED <<carried, ask, proved, unseen, turns, requests>>

Overdue == {p \in Pages \ carried : Lapsed(p) /\ page[p].lapsed >= GraceDays}

SweepUnbinds ==
  /\ stage = 3 /\ stage' = 1
  /\ page' = [p \in Pages |-> IF p \in Overdue
                THEN [domain |-> Unbound, verified |-> FALSE, lapsed |-> Never] ELSE page[p]]
  /\ UNCHANGED <<carried, ask, proved, unseen, turns, requests>>

SweepFails ==
  /\ stage # 1 /\ stage' = 1
  /\ UNCHANGED <<page, carried, ask, proved, unseen, turns, requests>>

-----------------------------------------------------------------------------
(* Around them.                                                              *)

Older(n) == IF n < GraceDays THEN n + 1 ELSE GraceDays

Day ==
  /\ page' = [p \in Pages |-> IF Lapsed(p) THEN [page[p] EXCEPT !.lapsed = Older(@)] ELSE page[p]]
  /\ unseen' = [p \in Pages |-> Older(unseen[p])]
  /\ UNCHANGED <<carried, ask, stage, proved, turns, requests>>

Buys(p) ==
  /\ turns < MaxTurns /\ turns' = turns + 1
  /\ carried' = IF p \in carried THEN carried \ {p} ELSE carried \cup {p}
  /\ UNCHANGED <<page, ask, stage, proved, unseen, requests>>

\* A page may have been bound before, its proof still out.
Init ==
  /\ carried \in SUBSET Pages
  /\ page \in [Pages -> [domain : Domains \cup {Unbound}, verified : {FALSE}, lapsed : {Never}]]
  /\ \A p, q \in Pages : page[p].domain # Unbound => p \in carried /\ (page[q].domain = page[p].domain => p = q)
  /\ ask = [r \in Saves \cup Checks |-> Idle]
  /\ stage = 1
  /\ proved = {}
  /\ unseen = [p \in Pages |-> IF p \in carried THEN 0 ELSE GraceDays]
  /\ turns = 0 /\ requests = 0

Next ==
  \/ \E r \in Saves : SaveReads(r) \/ Upserts(r)
  \/ \E r \in Checks : CheckReads(r)
  \/ \E r \in Saves \cup Checks : Resolves(r) \/ Stamps(r)
  \/ SweepClears \/ SweepStamps \/ SweepUnbinds \/ SweepFails
  \/ Day
  \/ \E p \in Pages : Buys(p)

Spec == Init /\ [][Next]_vars

-----------------------------------------------------------------------------
(* Properties.                                                               *)

\* GET /internal/domain-allowed: may a certificate be issued for this host?
Allowed(d) ==
  \E p \in Pages :
    /\ page[p].domain = d /\ page[p].verified
    /\ p \in carried \/ (Lapsed(p) /\ page[p].lapsed < GraceDays)

\* A certificate is issued only for a host whose DNS this very page has seen pointing
\* at us, whatever saves and proofs overlap and whoever held the host before
\* (verifyStatusDomain, putStatusPage, domainAllowed).
AllowedIsProved ==
  \A d \in Domains : Allowed(d) => \E p \in Pages : page[p].domain = d /\ <<p, d>> \in proved

\* The sweep takes a domain away only when it has not found the plan carrying one for
\* the days of grace: a plan that comes back gets a new clock (DomainGraceSweep).
UnboundAfterGrace ==
  [][\A p \in Pages : stage = 3 /\ stage' = 1 /\ page[p].domain # Unbound /\ page'[p].domain = Unbound
       => unseen[p] >= GraceDays]_vars

(* What the comments promise and the code does not keep (README, section 4). *)

\* "DomainGraceDays is how long a custom status-page domain keeps answering after the
\* plan stops carrying custom domains" (sweep.go:99): the host answers on.
StillAllowed ==
  [][\A p \in Pages, d \in Domains :
       p \in carried /\ p \notin carried' /\ page[p].domain = d /\ Allowed(d) => Allowed(d)']_vars
=============================================================================
