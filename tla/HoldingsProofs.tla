--------------------------- MODULE HoldingsProofs ---------------------------
(***************************************************************************)
(* Theorems of what a person can own (Holdings), for any people, plans,       *)
(* hosts, requests and load.                                                 *)
(*                                                                          *)
(* Ownership: the inductive invariant IInv says what a request still has in   *)
(* hand when its next statement comes: a claim that burned a token holds a    *)
(* tenant nobody else can take (TakesClaimable), whoever counted the projects *)
(* behind the tenant's lock still has room for one (HasRoom), the placeholder *)
(* a claim has found gets no check and had not logged (DropIsUnused), and a   *)
(* tenant being minted is nobody's business but its mint's (MintIsAlone). No  *)
(* two transactions hold one lock (Apart).                                   *)
(*                                                                          *)
(* StatusPages: AddrInv says what a door knows of the pages it found live     *)
(* (AtDoor), and what no step takes back (Lasting). CustomDomain: HostInv     *)
(* says which lookup a proof rests on, and how old a grace can be.            *)
(***************************************************************************)
EXTENDS Holdings, FiniteSetTheorems, SequenceTheorems, WellFoundedInduction, TLAPS

\* Every id in use was handed out.
Ids == 1..(next - 1)

Numbered ==
  /\ next > 0 /\ DOMAIN tenants \subseteq Ids /\ DOMAIN projects \subseteq Ids /\ reaping \subseteq Ids
  /\ \A c \in Claims : won[c] < next
  /\ \A c \in Requests : req[c].own < next /\ req[c].t < next /\ req[c].p < next /\ req[c].drop \subseteq Ids

\* Only a tenant without an owner can be claimed, and it has one project at most.
Ownerless(t) == tenants[t].owner = Nobody
Marked ==
  \A t \in DOMAIN tenants :
    /\ tenants[t].hash # "none" => Ownerless(t)
    /\ Ownerless(t) => \A p, q \in ProjectsOf(t) : p = q

\* What a request has in hand is still what its transaction, or its mint, found.
Minting(c) == req[c].pc \in {"bare", "hashed", "placed"}

OwnIsOwned(c) == req[c].own \in DOMAIN tenants => ~Ownerless(req[c].own)

TakesClaimable(c) == req[c].pc \in {"burned", "scanned", "walled"} => Claimable(req[c].t)

\* Between the look and the removal the project can still go to another tenant.
DropIsUnused(c) ==
  /\ req[c].drop # {} => req[c].pc \in {"scanned", "walled"}
  /\ \A p \in req[c].drop \cap DOMAIN projects :
       /\ req[c].pc = "walled" => projects[p].tenant = req[c].own
       /\ projects[p].tenant = req[c].own => projects[p].checks = "none" /\ ~LoggedBefore(p)

HasRoom(c) ==
  /\ req[c].pc = "locked" => req[c].own \in DOMAIN tenants
  /\ req[c].pc \in {"walled", "locked"} /\ req[c].own \in DOMAIN tenants =>
       Cardinality(ProjectsOf(req[c].own) \ req[c].drop) < Plan[tenants[req[c].own].owner]

MintIsAlone(c) ==
  Minting(c) =>
    /\ req[c].t \in DOMAIN tenants \ reaping
    /\ tenants[req[c].t] = NewTenant(Nobody, IF req[c].pc = "bare" THEN "none" ELSE "secret")
    /\ ProjectsOf(req[c].t) = IF req[c].pc = "placed" THEN {req[c].p} ELSE {}
    /\ req[c].pc = "placed" => projects[req[c].p].page = "none"

InHand(c) == OwnIsOwned(c) /\ TakesClaimable(c) /\ DropIsUnused(c) /\ HasRoom(c) /\ MintIsAlone(c)

\* No two requests hold one lock, and nobody comes near a tenant being minted.
Apart(c, d) ==
  /\ Locked(c) \cap Locked(d) = {}
  /\ LockedProjects(c) \cap LockedProjects(d) = {}
  /\ Minting(c) => /\ req[d].pc \in {"homeless", "home", "burned", "scanned", "walled", "bare", "hashed", "placed"} =>
                        req[d].t # req[c].t
                   /\ req[d].pc \in {"read", "released"} /\ req[c].pc = "placed" => req[d].p # req[c].p

WonIsGone == \A c \in Claims : won[c] \notin DOMAIN tenants

IInv ==
  /\ TypeOK /\ Numbered /\ Marked /\ WithinPlan /\ ClaimedOnce /\ WonIsGone
  /\ \A c \in Requests : InHand(c)
  /\ \A c, d \in Requests : c # d => Apart(c, d)

-----------------------------------------------------------------------------
(* Rows and requests.                                                        *)

ReqType ==
  [pc : {"idle", "done", "homeless", "home", "burned", "scanned", "walled", "locked",
         "read", "released", "resolved", "bare", "hashed", "placed"},
   own : Nat, t : Nat, p : Nat, drop : SUBSET Nat, last : BOOLEAN]

\* A request whose numbers were all handed out.
Handed(q) == q \in ReqType /\ q.own < next /\ q.t < next /\ q.p < next /\ q.drop \subseteq Ids

\* Become moves one request.
LEMMA BecomeMoves ==
  ASSUME TypeOK, NEW c \in Requests, NEW q, Become(c, q)
  PROVE  req'[c] = q /\ \A d \in Requests \ {c} : req'[d] = req[d]
BY DEF Become, TypeOK

LEMMA BecomeType ==
  ASSUME TypeOK, NEW c \in Requests, NEW q \in ReqType, Become(c, q)
  PROVE  req' \in [Requests -> ReqType]
BY DEF Become, TypeOK, ReqType

\* The shapes a request takes.
LEMMA RequestType ==
  ASSUME TypeOK, NEW c \in Requests
  PROVE  req[c] \in ReqType
BY DEF TypeOK, ReqType

LEMMA DoneIs == /\ Done \in ReqType /\ Done.pc = "done" /\ Done.own = None /\ Done.t = None /\ Done.p = None
                /\ Done.drop = {}
BY DEF Done, Idle, ReqType, None

\* A request that goes on with the same numbers.
LEMMA GoesOn ==
  ASSUME NEW q \in ReqType,
         NEW pc \in {"home", "burned", "locked", "released", "hashed", "placed"}, NEW x, x = [q EXCEPT !.pc = pc]
  PROVE  x \in ReqType /\ x.pc = pc /\ x.own = q.own /\ x.t = q.t /\ x.p = q.p /\ x.drop = q.drop /\ x.last = q.last
BY DEF ReqType

\* The projects of a tenant are finitely many, and a part of them are no more.
LEMMA Fewer ==
  ASSUME TypeOK, Numbered, NEW t, NEW ps \in SUBSET ProjectsOf(t)
  PROVE  IsFiniteSet(ps) /\ Cardinality(ps) \in Nat /\ \A qs \in SUBSET ps : Cardinality(qs) <= Cardinality(ps)
<1>1. Ids \in SUBSET Nat /\ next \in Nat /\ \A i \in Ids : i <= next
  BY DEF Ids, TypeOK
<1>2. IsFiniteSet(Ids) BY <1>1, FS_BoundedSetOfNaturals
<1>3. ps \subseteq Ids BY DEF ProjectsOf, Numbered
<1>4. IsFiniteSet(ps) BY <1>2, <1>3, FS_Subset
<1> QED BY <1>4, FS_CardinalityType, FS_Subset

LEMMA Reaches ==
  ASSUME NEW m \in Nat, NEW n \in Nat, m <= n
  PROVE  1..(m - 1) \subseteq 1..(n - 1)
OBVIOUS

\* The counter goes up, and every number in use stays below it.
LEMMA NumberedStep ==
  ASSUME TypeOK, Numbered, next' = next \/ next' = next + 1,
         DOMAIN tenants' \subseteq Nat, \A t \in DOMAIN tenants' : 0 < t /\ t < next',
         DOMAIN projects' \subseteq Nat, \A p \in DOMAIN projects' : 0 < p /\ p < next',
         UNCHANGED <<reaping, won>>,
         NEW c \in Requests, \A d \in Requests \ {c} : req'[d] = req[d],
         req'[c].own < next', req'[c].t < next', req'[c].p < next', req'[c].drop \subseteq Ids
  PROVE  Numbered'
<1>1. next \in Nat /\ next > 0 BY DEF TypeOK, Numbered
<1>2. next' \in Nat /\ next' > 0 /\ next <= next' BY <1>1
<1>3. Ids' = 1..(next' - 1) /\ Ids \subseteq Ids'
  <2>1. Ids' = 1..(next' - 1) BY DEF Ids
  <2>2. 1..(next - 1) \subseteq 1..(next' - 1) BY <1>1, <1>2, Reaches
  <2> QED BY <2>1, <2>2 DEF Ids
<1>4. DOMAIN tenants' \subseteq Ids' /\ DOMAIN projects' \subseteq Ids' BY <1>2, <1>3
<1>5. reaping' \subseteq Ids' BY <1>3 DEF Numbered
<1>6. ASSUME NEW d \in Claims PROVE won'[d] < next'
  <2>1. won'[d] = won[d] /\ won[d] < next BY DEF Numbered
  <2>2. won[d] \in Nat BY DEF TypeOK
  <2> QED BY <1>1, <1>2, <2>1, <2>2
<1>7. ASSUME NEW d \in Requests
      PROVE  req'[d].own < next' /\ req'[d].t < next' /\ req'[d].p < next' /\ req'[d].drop \subseteq Ids'
  <2>1. CASE d = c
    BY <1>3, <2>1
  <2>2. CASE d # c
    <3>1. req'[d] = req[d] BY <2>2
    <3>2. req[d].own < next /\ req[d].t < next /\ req[d].p < next /\ req[d].drop \subseteq Ids BY DEF Numbered
    <3>3. req[d].own \in Nat /\ req[d].t \in Nat /\ req[d].p \in Nat BY DEF TypeOK
    <3>4. req[d].own < next' /\ req[d].t < next' /\ req[d].p < next' BY <1>1, <1>2, <3>2, <3>3
    <3>5. req[d].drop \subseteq Ids' BY <1>3, <3>2
    <3> QED BY <3>1, <3>4, <3>5
  <2> QED BY <2>1, <2>2
<1> QED BY <1>2, <1>4, <1>5, <1>6, <1>7 DEF Numbered

\* What a project's tenant is.
LEMMA TenantIs ==
  ASSUME TypeOK, Numbered
  PROVE  /\ next \in Nat /\ next \notin DOMAIN tenants /\ next \notin DOMAIN projects /\ 0 \notin Ids
         /\ \A t \in DOMAIN tenants : t \in Nat /\ t < next /\ tenants[t].owner \in People \cup {Nobody}
         /\ \A p \in DOMAIN projects : p \in Nat /\ p < next /\ projects[p].tenant \in DOMAIN tenants
BY DEF TypeOK, Numbered, Ids

-----------------------------------------------------------------------------
(* The rest of the requests, while one of them takes a step.                 *)

\* What a step leaves a request that does not take it.
Undisturbed(d) ==
  /\ \A t \in Locked(d) \cap DOMAIN tenants :
       t \in DOMAIN tenants' /\ (tenants[t].hash # "none" => tenants'[t].hash # "none")
  /\ \A p \in req[d].drop \cap DOMAIN projects' :
       /\ p \in DOMAIN projects
       /\ req[d].pc = "walled" => projects'[p].tenant = projects[p].tenant
       /\ projects'[p].tenant = req[d].own =>
            /\ projects[p].tenant = req[d].own
            /\ projects[p].checks = "none" => projects'[p].checks = "none"
            /\ LoggedBefore(p)' => LoggedBefore(p)
  /\ req[d].pc \in {"walled", "locked"} => ProjectsOf(req[d].own)' \subseteq ProjectsOf(req[d].own)
  /\ Minting(d) =>
       /\ req[d].t \in DOMAIN tenants' \ reaping' /\ tenants'[req[d].t] = tenants[req[d].t]
       /\ ProjectsOf(req[d].t)' = ProjectsOf(req[d].t)
       /\ req[d].pc = "placed" => projects'[req[d].p].page = projects[req[d].p].page

\* No owner changes, and no id is used again.
OwnersStay == \A t \in DOMAIN tenants' : t < next => t \in DOMAIN tenants /\ tenants'[t].owner = tenants[t].owner

LEMMA InHandFrame ==
  ASSUME IInv, OwnersStay, NEW d \in Requests, req'[d] = req[d], Undisturbed(d)
  PROVE  InHand(d)'
<1>1. InHand(d) /\ req[d].own < next BY DEF IInv, Numbered
<1>2. OwnIsOwned(d)' BY <1>1 DEF InHand, OwnIsOwned, OwnersStay, Ownerless
<1>3. TakesClaimable(d)'
  <2>1. req[d].pc \in {"burned", "scanned", "walled"} => req[d].t \in Locked(d) BY DEF Locked
  <2> QED BY <1>1, <2>1 DEF InHand, TakesClaimable, Claimable, Undisturbed
<1>4. DropIsUnused(d)' BY <1>1 DEF InHand, DropIsUnused, Undisturbed
<1>5. HasRoom(d)'
  <2>1. req[d].pc = "locked" => req[d].own \in Locked(d) BY DEF Locked
  <2>2. req[d].pc = "locked" => req[d].own \in DOMAIN tenants' BY <1>1, <2>1 DEF InHand, HasRoom, Undisturbed
  <2>3. SUFFICES ASSUME req[d].pc \in {"walled", "locked"}, req[d].own \in DOMAIN tenants'
                 PROVE  (Cardinality(ProjectsOf(req[d].own) \ req[d].drop) < Plan[tenants[req[d].own].owner])'
    BY <2>2 DEF HasRoom
  <2> DEFINE own == req[d].own
             ps == ProjectsOf(own) \ req[d].drop
             qs == ProjectsOf(own)' \ req[d].drop
  <2>4. own \in DOMAIN tenants /\ tenants'[own].owner = tenants[own].owner BY <1>1, <2>3 DEF OwnersStay
  <2>5. Cardinality(ps) < Plan[tenants[own].owner] BY <1>1, <2>3, <2>4 DEF InHand, HasRoom
  <2>6. tenants[own].owner \in People BY <1>1, <2>4 DEF InHand, OwnIsOwned, Ownerless, IInv, TypeOK
  <2>7. Plan[tenants[own].owner] \in Nat BY <2>6, OwnershipAssumption
  <2>8. qs \subseteq ps BY <2>3 DEF Undisturbed
  <2>9. Cardinality(ps) \in Nat /\ Cardinality(qs) <= Cardinality(ps) /\ Cardinality(qs) \in Nat
    BY <2>8, Fewer DEF IInv
  <2>10. Cardinality(qs) < Plan[tenants'[own].owner] BY <2>4, <2>5, <2>7, <2>9
  <2> QED BY <2>10
<1>6. MintIsAlone(d)' BY <1>1 DEF InHand, MintIsAlone, Minting, Undisturbed, NewTenant
<1> QED BY <1>2, <1>3, <1>4, <1>5, <1>6 DEF InHand

\* Two requests that do not move stay apart.
LEMMA ApartFrame ==
  ASSUME IInv, NEW d \in Requests, NEW e \in Requests, d # e, req'[d] = req[d], req'[e] = req[e]
  PROVE  Apart(d, e)'
<1>1. Apart(d, e) BY DEF IInv
<1>2. Locked(d)' = Locked(d) /\ Locked(e)' = Locked(e) BY DEF Locked
<1>3. LockedProjects(d)' = LockedProjects(d) /\ LockedProjects(e)' = LockedProjects(e) BY DEF LockedProjects
<1> QED BY <1>1, <1>2, <1>3 DEF Apart, Minting

\* A step that writes no row: the request that takes it answers for itself.
LEMMA QuietStep ==
  ASSUME IInv, NEW c \in Requests, NEW q, Become(c, q), Handed(q),
         UNCHANGED <<tenants, projects, keys, rows, reaping, won, next>>,
         InHand(c)', \A d \in Requests \ {c} : Apart(c, d)' /\ Apart(d, c)'
  PROVE  IInv'
<1>0. TypeOK /\ Numbered BY DEF IInv
<1>1. req'[c] = q /\ (\A d \in Requests \ {c} : req'[d] = req[d]) /\ req' \in [Requests -> ReqType]
  BY <1>0, BecomeMoves, BecomeType DEF Handed
<1>2. TypeOK' BY <1>0, <1>1 DEF TypeOK, ReqType
<1>3. Numbered' BY <1>0, <1>1 DEF Numbered, Handed, Ids
<1>4. Marked' /\ WithinPlan' /\ ClaimedOnce' /\ WonIsGone'
  BY DEF IInv, Marked, WithinPlan, ClaimedOnce, WonIsGone, Ownerless, ProjectsOf, Workspaces
<1>5. ASSUME NEW d \in Requests \ {c} PROVE InHand(d)'
  <2>1. OwnersStay BY <1>0, TenantIs DEF OwnersStay
  <2>2. Minting(d) => req[d].t \in DOMAIN tenants \ reaping BY DEF IInv, InHand, MintIsAlone
  <2>4. \A t : ProjectsOf(t)' = ProjectsOf(t) BY DEF ProjectsOf
  <2>5. \A p : LoggedBefore(p)' <=> LoggedBefore(p) BY DEF LoggedBefore
  <2>3. Undisturbed(d) BY <1>1, <2>2, <2>4, <2>5 DEF Undisturbed
  <2> QED BY <1>1, <2>1, <2>3, InHandFrame
<1>6. ASSUME NEW d \in Requests, NEW e \in Requests, d # e PROVE Apart(d, e)'
  <2>1. CASE d # c /\ e # c
    BY <1>1, <1>6, <2>1, ApartFrame
  <2> QED BY <1>6, <2>1
<1> QED BY <1>2, <1>3, <1>4, <1>5, <1>6 DEF IInv

\* A request that holds nothing.
Free(q) == q.pc \notin {"burned", "scanned", "walled", "locked", "released", "bare", "hashed", "placed"} /\ q.drop = {}

LEMMA FreeStep ==
  ASSUME IInv, NEW c \in Requests, NEW q, Become(c, q), Handed(q), Free(q),
         UNCHANGED <<tenants, projects, keys, rows, reaping, won, next>>,
         q.own \in DOMAIN tenants => ~Ownerless(q.own),
         \A d \in Requests \ {c} : Minting(d) =>
           /\ q.pc \in {"homeless", "home"} => q.t # req[d].t
           /\ q.pc = "read" /\ req[d].pc = "placed" => q.p # req[d].p
  PROVE  IInv'
<1>0. TypeOK BY DEF IInv
<1>1. req'[c] = q /\ \A d \in Requests \ {c} : req'[d] = req[d]
  BY <1>0, BecomeMoves
<1>2. InHand(c)'
  BY <1>1 DEF InHand, OwnIsOwned, TakesClaimable, DropIsUnused, HasRoom, MintIsAlone, Minting, Free, Ownerless
<1>3. ASSUME NEW d \in Requests \ {c} PROVE Apart(c, d)' /\ Apart(d, c)'
  BY <1>1, <1>3 DEF Apart, Locked, LockedProjects, Minting, Free
<1> QED BY <1>2, <1>3, QuietStep

LEMMA RefuseStep ==
  ASSUME IInv, NEW c \in Requests, Refuse(c), UNCHANGED reaping
  PROVE  IInv'
<1>1. Handed(Done) /\ Free(Done) /\ Done.own \notin DOMAIN tenants
  BY DoneIs, TenantIs DEF Handed, Free, IInv, Numbered, None, TypeOK, Ids
<1> QED BY <1>1, DoneIs, FreeStep DEF Refuse

-----------------------------------------------------------------------------
(* The steps that write no row.                                              *)

\* What the numbers of a request are.
LEMMA HandedIs ==
  ASSUME IInv, NEW c \in Requests
  PROVE  Handed(req[c])
BY RequestType DEF IInv, Numbered, Handed

LEMMA ComesStep ==
  ASSUME IInv, NEW c \in Claims \cup Creates, NEW t \in Nat, t < next, Comes(c, t),
         \A d \in Requests : Minting(d) => req[d].t # t
  PROVE  IInv'
<1>0. TypeOK /\ Numbered /\ c \in Requests BY DEF IInv, Requests
<1>1. PICK q : /\ Become(c, q) /\ q \in ReqType /\ q.pc \in {"homeless", "home"}
               /\ q.own \in Workspaces(Who[c]) \cup {None} /\ q.t = t /\ q.p = 0 /\ q.drop = {}
  <2> DEFINE x(pc, own) == [Idle EXCEPT !.pc = pc, !.t = t, !.own = own]
             y == [Idle EXCEPT !.pc = "homeless", !.t = t]
  <2>1. ASSUME NEW pc \in {"homeless", "home"}, NEW own \in Nat
        PROVE  /\ x(pc, own) \in ReqType /\ x(pc, own).pc = pc /\ x(pc, own).own = own /\ x(pc, own).t = t
               /\ x(pc, own).p = 0 /\ x(pc, own).drop = {}
    BY DEF Idle, ReqType, None
  <2>2. y \in ReqType /\ y.pc = "homeless" /\ y.own = None /\ y.t = t /\ y.p = 0 /\ y.drop = {}
    BY DEF Idle, ReqType, None
  <2>3. Become(c, y) \/ \E own \in Workspaces(Who[c]) : Become(c, x("home", own)) BY DEF Comes
  <2>4. Workspaces(Who[c]) \subseteq Nat BY <1>0, TenantIs DEF Workspaces
  <2> HIDE DEF x, y
  <2> QED BY <2>1, <2>2, <2>3, <2>4
<1>2. Who[c] \in People /\ Who[c] # Nobody BY OwnershipAssumption
<1>3. q.own \in Nat /\ q.own < next /\ (q.own \in DOMAIN tenants => tenants[q.own].owner = Who[c])
  BY <1>0, <1>1, TenantIs DEF Workspaces, None, Numbered, Ids
<1>6. Handed(q) /\ Free(q) BY <1>0, <1>1, <1>3 DEF Handed, Free, TypeOK, Numbered
<1>7. UNCHANGED <<tenants, projects, keys, rows, reaping, won, next>> BY DEF Comes
<1> QED BY <1>0, <1>1, <1>2, <1>3, <1>6, <1>7, FreeStep DEF Ownerless

\* A mint's tenant has no token anybody was told, and no page.
LEMMA MintIsHidden ==
  ASSUME IInv, NEW d \in Requests, Minting(d), NEW t \in DOMAIN tenants,
         tenants[t].hash = "told" \/ \E p \in ProjectsOf(t) : projects[p].page \in {"unseen", "seen"}
  PROVE  req[d].t # t
<1>1. MintIsAlone(d) BY DEF IInv, InHand
<1> QED BY <1>1 DEF MintIsAlone, NewTenant

LEMMA LocatesStep ==
  ASSUME IInv, NEW c \in Claims, Locates(c)
  PROVE  IInv'
<1>1. PICK t \in DOMAIN tenants :
        /\ tenants[t].hash = "told" \/ \E p \in ProjectsOf(t) : projects[p].page \in {"unseen", "seen"}
        /\ Comes(c, t)
  BY DEF Locates
<1>2. t \in Nat /\ t < next BY TenantIs DEF IInv
<1> QED BY <1>1, <1>2, MintIsHidden, ComesStep

LEMMA AsksStep ==
  ASSUME IInv, NEW c \in Creates, Comes(c, None)
  PROVE  IInv'
<1>1. \A d \in Requests : Minting(d) => req[d].t # None
  BY TenantIs DEF IInv, InHand, MintIsAlone, Numbered, None
<1> QED BY <1>1, ComesStep DEF IInv, Numbered, None, TypeOK

\* The conditional burn: the row it locks is claimable, and nobody else's.
LEMMA BurnsStep ==
  ASSUME IInv, NEW c \in Claims, Burns(c)
  PROVE  IInv'
<1>0. c \in Requests /\ TypeOK /\ Handed(req[c]) BY HandedIs DEF Requests, IInv
<1>1. CASE Refuse(c)
  BY <1>0, <1>1, RefuseStep DEF Burns
<1>2. CASE ~Refuse(c)
  <2> DEFINE q == [req[c] EXCEPT !.pc = "burned"]
  <2>1. /\ req[c].pc = "home" /\ TenantFree(c, req[c].t) /\ Claimable(req[c].t)
        /\ Become(c, q) /\ UNCHANGED <<tenants, projects, keys, rows, reaping, won, next>>
    BY <1>2 DEF Burns
  <2>2. /\ q \in ReqType /\ q.pc = "burned" /\ q.own = req[c].own /\ q.t = req[c].t /\ q.p = req[c].p
        /\ q.drop = req[c].drop
    BY <1>0, GoesOn DEF Handed
  <2> HIDE DEF q
  <2>3. req'[c] = q /\ \A d \in Requests \ {c} : req'[d] = req[d] BY <1>0, <2>1, BecomeMoves
  <2>4. InHand(c) /\ req[c].drop = {} BY <1>0, <2>1 DEF IInv, InHand, DropIsUnused
  <2>5. InHand(c)'
    BY <2>1, <2>2, <2>3, <2>4
       DEF InHand, OwnIsOwned, TakesClaimable, DropIsUnused, HasRoom, MintIsAlone, Minting, Ownerless, Claimable
  <2>6. ASSUME NEW d \in Requests \ {c} PROVE Apart(c, d)' /\ Apart(d, c)'
    <3>1. Apart(c, d) /\ Apart(d, c) /\ req'[d] = req[d] BY <1>0, <2>3, <2>6 DEF IInv
    <3>2. Locked(c)' = {req[c].t} /\ LockedProjects(c)' = {} BY <2>2, <2>3, <2>4 DEF Locked, LockedProjects
    <3>3. Locked(d)' = Locked(d) /\ req[c].t \notin Locked(d) BY <2>1, <2>6, <3>1 DEF TenantFree, Locked
    <3>4. LockedProjects(d)' = LockedProjects(d) BY <3>1 DEF LockedProjects
    <3>5. Minting(d)' => Minting(d) /\ req[c].t # req[d].t BY <2>1, <3>1 DEF Minting, Apart
    <3> QED BY <2>2, <2>3, <3>1, <3>2, <3>3, <3>4, <3>5 DEF Apart, Minting
  <2>7. Handed(q) BY <1>0, <2>2 DEF Handed
  <2> QED BY <1>0, <2>1, <2>5, <2>6, <2>7, QuietStep
<1> QED BY <1>1, <1>2

\* A claim's own workspace is locked, and its placeholder found: nobody has used it.
LEMMA AbsorbScansStep ==
  ASSUME IInv, NEW c \in Claims, AbsorbScans(c)
  PROVE  IInv'
<1>0. c \in Requests /\ TypeOK /\ Handed(req[c]) BY HandedIs DEF Requests, IInv
<1> DEFINE own == req[c].own
           drop == Placeholder(own)
           q == [req[c] EXCEPT !.pc = "scanned", !.drop = drop]
<1>1. /\ req[c].pc = "burned" /\ TenantFree(c, own) /\ Become(c, q)
      /\ UNCHANGED <<tenants, projects, keys, rows, reaping, won, next>>
  BY DEF AbsorbScans
<1>2. drop \subseteq ProjectsOf(own) /\ \A p \in drop : projects[p].checks = "none" /\ ~LoggedBefore(p)
  BY DEF Placeholder, Used, Leased, LoggedBefore
<1>3. drop \in SUBSET Ids /\ drop \in SUBSET Nat BY <1>0, <1>2, TenantIs DEF ProjectsOf, IInv, Numbered
<1> HIDE DEF drop
<1>4. /\ q \in ReqType /\ q.pc = "scanned" /\ q.own = own /\ q.t = req[c].t /\ q.p = req[c].p /\ q.drop = drop
  BY <1>0, <1>3 DEF Handed, ReqType
<1> HIDE DEF q
<1>5. req'[c] = q /\ \A d \in Requests \ {c} : req'[d] = req[d] BY <1>0, <1>1, BecomeMoves
<1>6. InHand(c) BY <1>0 DEF IInv
<1>7. InHand(c)'
  <2>1. OwnIsOwned(c)' /\ TakesClaimable(c)'
    BY <1>1, <1>4, <1>5, <1>6 DEF InHand, OwnIsOwned, TakesClaimable, Ownerless, Claimable
  <2>2. DropIsUnused(c)' BY <1>1, <1>2, <1>4, <1>5 DEF DropIsUnused, LoggedBefore
  <2>3. HasRoom(c)' /\ MintIsAlone(c)' BY <1>4, <1>5 DEF HasRoom, MintIsAlone, Minting
  <2> QED BY <2>1, <2>2, <2>3 DEF InHand
<1>8. ASSUME NEW d \in Requests \ {c} PROVE Apart(c, d)' /\ Apart(d, c)'
  <2>1. Apart(c, d) /\ Apart(d, c) /\ req'[d] = req[d] BY <1>0, <1>5, <1>8 DEF IInv
  <2>2. Locked(c) = {req[c].t} /\ Locked(c)' = {req[c].t, own} /\ LockedProjects(c)' = {}
    BY <1>1, <1>4, <1>5 DEF Locked, LockedProjects
  <2>3. Locked(d)' = Locked(d) /\ own \notin Locked(d) BY <1>1, <1>8, <2>1 DEF TenantFree, Locked
  <2>4. Minting(d)' => Minting(d) /\ req[c].t # req[d].t BY <1>1, <2>1 DEF Minting, Apart
  <2> QED BY <1>4, <1>5, <2>1, <2>2, <2>3, <2>4 DEF Apart, Minting
<1>9. Handed(q) BY <1>0, <1>3, <1>4 DEF Handed
<1> QED BY <1>0, <1>1, <1>7, <1>8, <1>9, QuietStep

\* What the look found and is still the workspace's is removed: behind the lock there
\* is room for one more.
LEMMA AbsorbsStep ==
  ASSUME IInv, NEW c \in Claims, Absorbs(c)
  PROVE  IInv'
<1>0. c \in Requests /\ TypeOK /\ Handed(req[c]) BY HandedIs DEF Requests, IInv
<1>1. CASE Refuse(c)
  BY <1>0, <1>1, RefuseStep DEF Absorbs
<1>2. CASE ~Refuse(c)
  <2> DEFINE own == req[c].own
             drop == req[c].drop \cap ProjectsOf(own)
             q == [req[c] EXCEPT !.pc = "walled", !.drop = drop]
  <2>1. /\ req[c].pc = "scanned" /\ (\A p \in drop : ProjectFree(c, p)) /\ ~Wall(own, drop)
        /\ Become(c, q) /\ UNCHANGED <<tenants, projects, keys, rows, reaping, won, next>>
    BY <1>2 DEF Absorbs
  <2>6. InHand(c) BY <1>0 DEF IInv
  <2>2. /\ drop \subseteq ProjectsOf(own) /\ \A p \in drop : projects[p].checks = "none" /\ ~LoggedBefore(p)
        /\ \A p \in drop : projects[p].tenant = own
    BY <2>6 DEF InHand, DropIsUnused, ProjectsOf
  <2>3. drop \in SUBSET Ids /\ drop \in SUBSET Nat BY <1>0 DEF Handed, ReqType
  <2> HIDE DEF drop
  <2>4. /\ q \in ReqType /\ q.pc = "walled" /\ q.own = own /\ q.t = req[c].t /\ q.p = req[c].p /\ q.drop = drop
    BY <1>0, <2>3 DEF Handed, ReqType
  <2> HIDE DEF q
  <2>5. req'[c] = q /\ \A d \in Requests \ {c} : req'[d] = req[d] BY <1>0, <2>1, BecomeMoves
  <2>7. InHand(c)'
    <3>1. own \in DOMAIN tenants => Cardinality(ProjectsOf(own) \ drop) < Plan[tenants[own].owner]
      <4>1. SUFFICES ASSUME own \in DOMAIN tenants PROVE Cardinality(ProjectsOf(own) \ drop) < Plan[tenants[own].owner]
        OBVIOUS
      <4>2. tenants[own].owner \in People BY <2>6, <4>1, TenantIs DEF InHand, OwnIsOwned, Ownerless, IInv
      <4>3. Plan[tenants[own].owner] \in Nat BY <4>2, OwnershipAssumption
      <4>4. Cardinality(ProjectsOf(own) \ drop) \in Nat BY <1>0, Fewer DEF IInv
      <4>5. ~(Cardinality(ProjectsOf(own) \ drop) >= Plan[tenants[own].owner]) BY <2>1, <4>1 DEF Wall
      <4> QED BY <4>3, <4>4, <4>5
    <3>2. OwnIsOwned(c)' /\ TakesClaimable(c)'
      BY <2>1, <2>4, <2>5, <2>6 DEF InHand, OwnIsOwned, TakesClaimable, Ownerless, Claimable
    <3>3. DropIsUnused(c)' BY <2>1, <2>2, <2>4, <2>5 DEF DropIsUnused, LoggedBefore
    <3>4. HasRoom(c)' BY <2>1, <2>4, <2>5, <3>1 DEF HasRoom, ProjectsOf
    <3>5. MintIsAlone(c)' BY <2>4, <2>5 DEF MintIsAlone, Minting
    <3> QED BY <3>2, <3>3, <3>4, <3>5 DEF InHand
  <2>8. ASSUME NEW d \in Requests \ {c} PROVE Apart(c, d)' /\ Apart(d, c)'
    <3>1. Apart(c, d) /\ Apart(d, c) /\ req'[d] = req[d] BY <1>0, <2>5, <2>8 DEF IInv
    <3>2. Locked(c) = {req[c].t, own} /\ Locked(c)' = {req[c].t, own} /\ LockedProjects(c)' = drop
      BY <2>1, <2>4, <2>5 DEF Locked, LockedProjects
    <3>3. Locked(d)' = Locked(d) BY <3>1 DEF Locked
    <3>4. LockedProjects(d)' = LockedProjects(d) /\ drop \cap LockedProjects(d) = {}
      BY <2>1, <3>1, <2>8 DEF LockedProjects, ProjectFree
    <3>5. Minting(d)' => Minting(d) /\ req[c].t # req[d].t BY <2>1, <3>1 DEF Minting, Apart
    <3> QED BY <2>4, <2>5, <3>1, <3>2, <3>3, <3>4, <3>5 DEF Apart, Minting
  <2>9. Handed(q) BY <1>0, <2>3, <2>4 DEF Handed
  <2> QED BY <1>0, <2>1, <2>7, <2>8, <2>9, QuietStep
<1> QED BY <1>1, <1>2

LEMMA CreateLocksStep ==
  ASSUME IInv, NEW c \in Creates, CreateLocks(c)
  PROVE  IInv'
<1>0. c \in Requests /\ TypeOK /\ Handed(req[c]) BY HandedIs DEF Requests, IInv
<1>1. CASE Refuse(c)
  BY <1>0, <1>1, RefuseStep DEF CreateLocks
<1>2. CASE ~Refuse(c)
  <2> DEFINE own == req[c].own
             q == [req[c] EXCEPT !.pc = "locked"]
  <2>1. /\ req[c].pc = "home" /\ TenantFree(c, own) /\ ~Wall(own, {}) /\ own \in DOMAIN tenants
        /\ Become(c, q) /\ UNCHANGED <<tenants, projects, keys, rows, reaping, won, next>>
    BY <1>2 DEF CreateLocks
  <2>2. /\ q \in ReqType /\ q.pc = "locked" /\ q.own = own /\ q.t = req[c].t /\ q.p = req[c].p
        /\ q.drop = req[c].drop
    BY <1>0, GoesOn DEF Handed
  <2> HIDE DEF q
  <2>3. req'[c] = q /\ \A d \in Requests \ {c} : req'[d] = req[d] BY <1>0, <2>1, BecomeMoves
  <2>4. InHand(c) /\ req[c].drop = {} BY <1>0, <2>1 DEF IInv, InHand, DropIsUnused
  <2>5. InHand(c)'
    <3>1. Cardinality(ProjectsOf(own)) < Plan[tenants[own].owner]
      <4>1. tenants[own].owner \in People BY <2>1, <2>4, TenantIs DEF InHand, OwnIsOwned, Ownerless, IInv
      <4>2. Plan[tenants[own].owner] \in Nat BY <4>1, OwnershipAssumption
      <4>3. Cardinality(ProjectsOf(own)) \in Nat BY <1>0, Fewer DEF IInv
      <4>4. ProjectsOf(own) \ {} = ProjectsOf(own) OBVIOUS
      <4>5. ~(Cardinality(ProjectsOf(own)) >= Plan[tenants[own].owner]) BY <2>1, <4>4 DEF Wall
      <4> QED BY <4>2, <4>3, <4>5
    <3>2. OwnIsOwned(c)' /\ TakesClaimable(c)' /\ DropIsUnused(c)' /\ MintIsAlone(c)'
      BY <2>1, <2>2, <2>3, <2>4 DEF InHand, OwnIsOwned, TakesClaimable, DropIsUnused, MintIsAlone, Minting, Ownerless
    <3>3. HasRoom(c)'
      <4>1. ProjectsOf(own) \ {} = ProjectsOf(own) OBVIOUS
      <4> QED BY <2>1, <2>2, <2>3, <2>4, <3>1, <4>1 DEF HasRoom, ProjectsOf
    <3> QED BY <3>2, <3>3 DEF InHand
  <2>6. ASSUME NEW d \in Requests \ {c} PROVE Apart(c, d)' /\ Apart(d, c)'
    <3>1. Apart(c, d) /\ Apart(d, c) /\ req'[d] = req[d] BY <1>0, <2>3, <2>6 DEF IInv
    <3>2. Locked(c)' = {own} /\ LockedProjects(c)' = {} BY <2>2, <2>3, <2>4 DEF Locked, LockedProjects
    <3>3. Locked(d)' = Locked(d) /\ own \notin Locked(d) BY <2>1, <2>6, <3>1 DEF TenantFree, Locked
    <3>4. LockedProjects(d)' = LockedProjects(d) BY <3>1 DEF LockedProjects
    <3> QED BY <2>2, <2>3, <3>1, <3>2, <3>3, <3>4 DEF Apart, Minting
  <2>7. Handed(q) BY <1>0, <2>2 DEF Handed
  <2> QED BY <1>0, <2>1, <2>5, <2>6, <2>7, QuietStep
<1> QED BY <1>1, <1>2

\* What a session reads is of a workspace, and no mint has to do with it.
LEMMA DeleteReadsStep ==
  ASSUME IInv, NEW c \in Deletes, DeleteReads(c)
  PROVE  IInv'
<1>0. c \in Requests /\ TypeOK /\ Numbered BY DEF Requests, IInv
<1>1. PICK t \in Workspaces(Who[c]), p \in DOMAIN projects \cup {None} :
        /\ IF ProjectsOf(t) = {} THEN p = None ELSE p \in ProjectsOf(t)
        /\ Become(c, [Idle EXCEPT !.pc = "read", !.own = t, !.p = p, !.last = Cardinality(ProjectsOf(t)) <= 1])
        /\ UNCHANGED <<tenants, projects, keys, rows, reaping, won, next>>
  BY DEF DeleteReads
<1> DEFINE last == Cardinality(ProjectsOf(t)) <= 1
           q == [Idle EXCEPT !.pc = "read", !.own = t, !.p = p, !.last = last]
<1>8. last \in BOOLEAN OBVIOUS
<1>5. Become(c, q) BY <1>1
<1> HIDE DEF last
<1>2. t \in DOMAIN tenants /\ t \in Nat /\ t < next /\ tenants[t].owner = Who[c] /\ Who[c] # Nobody
  BY <1>0, TenantIs, OwnershipAssumption DEF Workspaces
<1>3. p \in Nat /\ p < next BY <1>0, TenantIs DEF None, Numbered, TypeOK
<1>4. q \in ReqType /\ q.pc = "read" /\ q.own = t /\ q.t = 0 /\ q.p = p /\ q.drop = {}
  BY <1>2, <1>3, <1>8 DEF Idle, ReqType, None
<1> HIDE DEF q
<1>6. Handed(q) /\ Free(q) BY <1>0, <1>2, <1>3, <1>4 DEF Handed, Free, Numbered, TypeOK
<1>7. ASSUME NEW d \in Requests, Minting(d), req[d].pc = "placed" PROVE p # req[d].p
  <2>1. MintIsAlone(d) BY DEF IInv, InHand
  <2>2. req[d].p \in ProjectsOf(req[d].t) /\ tenants[req[d].t].owner = Nobody BY <1>7, <2>1 DEF MintIsAlone, NewTenant
  <2>3. projects[req[d].p].tenant # t /\ req[d].p \in DOMAIN projects BY <1>2, <2>2 DEF ProjectsOf
  <2> QED BY <1>0, <1>1, <2>3, TenantIs DEF ProjectsOf, None, Numbered
<1> QED BY <1>0, <1>1, <1>2, <1>4, <1>5, <1>6, <1>7, FreeStep DEF Ownerless

LEMMA ReleasesStep ==
  ASSUME IInv, NEW c \in Deletes, Releases(c)
  PROVE  IInv'
<1>0. c \in Requests /\ TypeOK /\ Handed(req[c]) BY HandedIs DEF Requests, IInv
<1>1. CASE Refuse(c)
  BY <1>0, <1>1, RefuseStep DEF Releases
<1>2. CASE ~Refuse(c)
  <2> DEFINE q == [req[c] EXCEPT !.pc = "released"]
  <2>1. /\ req[c].pc = "read" /\ ProjectFree(c, req[c].p)
        /\ Become(c, q) /\ UNCHANGED <<tenants, projects, keys, rows, reaping, won, next>>
    BY <1>2 DEF Releases
  <2>2. /\ q \in ReqType /\ q.pc = "released" /\ q.own = req[c].own /\ q.t = req[c].t /\ q.p = req[c].p
        /\ q.drop = req[c].drop
    BY <1>0, GoesOn DEF Handed
  <2> HIDE DEF q
  <2>3. req'[c] = q /\ \A d \in Requests \ {c} : req'[d] = req[d] BY <1>0, <2>1, BecomeMoves
  <2>4. InHand(c) /\ req[c].drop = {} BY <1>0, <2>1 DEF IInv, InHand, DropIsUnused
  <2>5. InHand(c)'
    BY <2>1, <2>2, <2>3, <2>4
       DEF InHand, OwnIsOwned, TakesClaimable, DropIsUnused, HasRoom, MintIsAlone, Minting, Ownerless
  <2>6. ASSUME NEW d \in Requests \ {c} PROVE Apart(c, d)' /\ Apart(d, c)'
    <3>1. Apart(c, d) /\ Apart(d, c) /\ req'[d] = req[d] BY <1>0, <2>3, <2>6 DEF IInv
    <3>2. Locked(c)' = {} /\ LockedProjects(c)' = {req[c].p} BY <2>2, <2>3, <2>4 DEF Locked, LockedProjects
    <3>3. Locked(d)' = Locked(d) BY <3>1 DEF Locked
    <3>4. LockedProjects(d)' = LockedProjects(d) /\ req[c].p \notin LockedProjects(d)
      BY <2>1, <2>6, <3>1 DEF LockedProjects, ProjectFree
    <3>5. Minting(d)' /\ req[d].pc = "placed" => req[c].p # req[d].p BY <2>1, <3>1 DEF Minting, Apart
    <3> QED BY <2>2, <2>3, <3>1, <3>2, <3>3, <3>4, <3>5 DEF Apart, Minting
  <2>7. Handed(q) BY <1>0, <2>2 DEF Handed
  <2> QED BY <1>0, <2>1, <2>5, <2>6, <2>7, QuietStep
<1> QED BY <1>1, <1>2

LEMMA ResolvesStep ==
  ASSUME IInv, NEW c \in Issues \cup Batches, Resolves(c) \/ Accepts(c)
  PROVE  IInv'
<1>0. c \in Requests /\ TypeOK /\ Numbered BY DEF Requests, IInv, Batches
<1>1. PICK t \in DOMAIN tenants, p \in DOMAIN projects :
        /\ Become(c, [Idle EXCEPT !.pc = "resolved", !.t = t, !.p = p])
        /\ UNCHANGED <<tenants, projects, keys, rows, reaping, won, next>>
  BY <1>0, TenantIs, Zenon DEF Resolves, Accepts, Workspaces, ProjectsOf, TypeOK
<1> DEFINE q == [Idle EXCEPT !.pc = "resolved", !.t = t, !.p = p]
<1>2. t \in Nat /\ t < next /\ p \in Nat /\ p < next BY <1>0, TenantIs
<1>3. q \in ReqType /\ q.pc = "resolved" /\ q.own = 0 /\ q.t = t /\ q.p = p /\ q.drop = {}
  BY <1>2 DEF Idle, ReqType, None
<1> HIDE DEF q
<1>4. Become(c, q) BY <1>1 DEF q
<1>5. Handed(q) /\ Free(q) BY <1>0, <1>2, <1>3 DEF Handed, Free, Numbered, TypeOK
<1>6. 0 \notin DOMAIN tenants BY <1>0, TenantIs DEF Numbered
<1> QED BY <1>0, <1>1, <1>3, <1>4, <1>5, <1>6, FreeStep

LEMMA FailsStep ==
  ASSUME IInv, NEW c \in Requests, Fails(c)
  PROVE  IInv'
BY RefuseStep DEF Fails

-----------------------------------------------------------------------------
(* The steps that write rows.                                                *)

LEMMA TableStep ==
  ASSUME IInv, OwnersStay, TypeOK', Numbered', Marked', WithinPlan', ClaimedOnce', WonIsGone',
         \A d \in Requests :
           \/ req'[d] = req[d] /\ Undisturbed(d)
           \/ InHand(d)' /\ \A e \in Requests \ {d} : Apart(d, e)' /\ Apart(e, d)'
  PROVE  IInv'
<1>1. ASSUME NEW d \in Requests PROVE InHand(d)'
  BY <1>1, InHandFrame
<1>2. ASSUME NEW d \in Requests, NEW e \in Requests, d # e PROVE Apart(d, e)'
  BY <1>2, ApartFrame
<1> QED BY <1>1, <1>2 DEF IInv

\* A request that is done answers for itself.
LEMMA DoneAnswers ==
  ASSUME IInv, TypeOK', Numbered', NEW c \in Requests, req'[c] = Done,
         \A d \in Requests \ {c} : req'[d] = req[d]
  PROVE  InHand(c)' /\ \A e \in Requests \ {c} : Apart(c, e)' /\ Apart(e, c)'
<1>1. 0 \notin DOMAIN tenants' BY DEF Numbered, Ids, TypeOK
<1>2. InHand(c)'
  BY <1>1, DoneIs DEF InHand, OwnIsOwned, TakesClaimable, DropIsUnused, HasRoom, MintIsAlone, Minting, None
<1>3. ASSUME NEW e \in Requests \ {c} PROVE Apart(c, e)' /\ Apart(e, c)'
  <2>1. Locked(c)' = {} /\ LockedProjects(c)' = {} /\ ~Minting(c)' BY DoneIs DEF Locked, LockedProjects, Minting
  <2> QED BY <2>1, DoneIs DEF Apart
<1> QED BY <1>2, <1>3

LEMMA WonFrame ==
  ASSUME IInv, OwnersStay, UNCHANGED won
  PROVE  WonIsGone' /\ ClaimedOnce'
BY DEF IInv, WonIsGone, ClaimedOnce, OwnersStay, Numbered

LEMMA PlanFrame ==
  ASSUME IInv, TypeOK',
         \A t \in DOMAIN tenants' : tenants'[t].owner \in People =>
           \/ ProjectsOf(t)' = {}
           \/ /\ t \in DOMAIN tenants /\ tenants'[t].owner = tenants[t].owner
              /\ ProjectsOf(t)' \subseteq ProjectsOf(t)
           \/ Cardinality(ProjectsOf(t)') <= Plan[tenants'[t].owner]
  PROVE  WithinPlan'
<1> SUFFICES ASSUME NEW person \in People, NEW t \in DOMAIN tenants', tenants'[t].owner = person
             PROVE  Cardinality(ProjectsOf(t)') <= Plan[person]
  BY DEF WithinPlan, Workspaces
<1>1. Plan[person] \in Nat BY OwnershipAssumption
<1>2. CASE ProjectsOf(t)' = {}
  BY <1>1, <1>2, FS_EmptySet
<1>3. CASE t \in DOMAIN tenants /\ tenants'[t].owner = tenants[t].owner /\ ProjectsOf(t)' \subseteq ProjectsOf(t)
  <2>1. Cardinality(ProjectsOf(t)) <= Plan[person] BY <1>3 DEF IInv, WithinPlan, Workspaces
  <2>2. /\ Cardinality(ProjectsOf(t)) \in Nat /\ Cardinality(ProjectsOf(t)') <= Cardinality(ProjectsOf(t))
        /\ Cardinality(ProjectsOf(t)') \in Nat
    BY <1>3, Fewer DEF IInv
  <2> QED BY <1>1, <2>1, <2>2
<1> QED BY <1>2, <1>3

\* The projects stay where they are, and so do the tenants.
LEMMA Standing ==
  ASSUME IInv, TypeOK', UNCHANGED won, DOMAIN tenants' = DOMAIN tenants, DOMAIN projects' = DOMAIN projects,
         \A t \in DOMAIN tenants : /\ tenants'[t].owner = tenants[t].owner
                                   /\ tenants'[t].hash # "none" => Ownerless(t),
         \A p \in DOMAIN projects : projects'[p].tenant = projects[p].tenant
  PROVE  /\ OwnersStay /\ Marked' /\ WithinPlan' /\ ClaimedOnce' /\ WonIsGone'
         /\ \A t : ProjectsOf(t)' = ProjectsOf(t)
<1>1. \A t : ProjectsOf(t)' = ProjectsOf(t) BY DEF ProjectsOf
<1>2. OwnersStay BY DEF OwnersStay
<1>3. Marked' BY <1>1 DEF IInv, Marked, Ownerless
<1>4. WithinPlan' BY <1>1, PlanFrame
<1> QED BY <1>1, <1>2, <1>3, <1>4, WonFrame

\* One request goes home; the workspace it did not have is a new one.
LEMMA SettlesStep ==
  ASSUME IInv, NEW c \in Claims \cup Creates, Settles(c)
  PROVE  IInv'
<1>0. c \in Requests /\ TypeOK /\ Numbered /\ Handed(req[c]) BY HandedIs DEF Requests, IInv
<1> DEFINE row == NewTenant(Who[c], "none")
           q == [req[c] EXCEPT !.pc = "home", !.own = next]
<1>1. /\ req[c].pc = "homeless" /\ tenants' = Insert(tenants, next, row) /\ next' = next + 1
      /\ Become(c, q) /\ UNCHANGED <<projects, keys, rows, reaping, won>>
  BY DEF Settles
<1>2. row.owner \in People /\ row.owner # Nobody /\ row.hash = "none"
      /\ row \in [owner : People \cup {Nobody}, hash : {"none", "secret", "told"}, age : 0..2]
  BY OwnershipAssumption DEF NewTenant
<1>3. /\ q \in ReqType /\ q.pc = "home" /\ q.own = next /\ q.t = req[c].t /\ q.p = req[c].p /\ q.drop = req[c].drop
  BY <1>0, TenantIs DEF Handed, ReqType
<1> HIDE DEF q, row
<1>4. req'[c] = q /\ (\A d \in Requests \ {c} : req'[d] = req[d]) /\ req' \in [Requests -> ReqType]
  BY <1>0, <1>1, <1>3, BecomeMoves, BecomeType
<1>5. /\ DOMAIN tenants' = DOMAIN tenants \cup {next} /\ tenants'[next] = row /\ next \notin DOMAIN tenants
      /\ \A t \in DOMAIN tenants : tenants'[t] = tenants[t]
  <2>1. next \notin DOMAIN tenants BY <1>0, TenantIs
  <2>2. /\ DOMAIN Insert(tenants, next, row) = DOMAIN tenants \cup {next}
        /\ Insert(tenants, next, row)[next] = row
        /\ \A t \in DOMAIN tenants \ {next} : Insert(tenants, next, row)[t] = tenants[t]
    BY DEF Insert
  <2> QED BY <1>1, <2>1, <2>2
<1>6. \A t \in DOMAIN tenants' : t \in Nat /\ tenants'[t] \in
        [owner : People \cup {Nobody}, hash : {"none", "secret", "told"}, age : 0..2]
  BY <1>0, <1>2, <1>5 DEF TypeOK
<1>7. TypeOK' BY <1>0, <1>1, <1>4, <1>5, <1>6 DEF TypeOK, ReqType
<1>8. Numbered'
  <2>1. next \in Nat /\ next > 0 BY <1>0 DEF TypeOK, Numbered
  <2>2. next' \in Nat /\ next < next' BY <1>1, <2>1
  <2>3. DOMAIN tenants \subseteq Ids /\ DOMAIN projects \subseteq Ids BY <1>0 DEF Numbered
  <2>4. \A i \in Ids : i \in Nat /\ 0 < i /\ i < next BY <2>1 DEF Ids
  <2>5. \A i \in Ids \cup {next} : i \in Nat /\ 0 < i /\ i < next' BY <2>1, <2>2, <2>4
  <2>6. DOMAIN tenants' \subseteq Ids \cup {next} /\ DOMAIN projects' \subseteq Ids \cup {next} BY <1>1, <1>5, <2>3
  <2>7. DOMAIN tenants' \subseteq Nat /\ \A t \in DOMAIN tenants' : 0 < t /\ t < next' BY <2>5, <2>6
  <2>8. DOMAIN projects' \subseteq Nat /\ \A p \in DOMAIN projects' : 0 < p /\ p < next' BY <2>5, <2>6
  <2>9. req'[c].own < next' /\ req'[c].t < next' /\ req'[c].p < next'
    <3>1. req[c].t \in Nat /\ req[c].t < next /\ req[c].p \in Nat /\ req[c].p < next BY <1>0 DEF Handed, ReqType
    <3> QED BY <1>3, <1>4, <2>1, <2>2, <3>1
  <2>10. req'[c].drop \subseteq Ids BY <1>0, <1>3, <1>4 DEF Handed
  <2>11. next' = next + 1 /\ UNCHANGED <<reaping, won>> BY <1>1
  <2> QED BY <1>0, <1>4, <2>7, <2>8, <2>9, <2>10, <2>11, NumberedStep
<1>9. ProjectsOf(next) = {} /\ \A t : {p \in DOMAIN projects' : projects'[p].tenant = t} = ProjectsOf(t)
  BY <1>0, <1>1, TenantIs DEF ProjectsOf
<1>10. OwnersStay BY <1>0, <1>5, TenantIs DEF OwnersStay
<1>16. \A t \in DOMAIN tenants : ProjectsOf(t)' = ProjectsOf(t) BY <1>1 DEF ProjectsOf
<1>17. ProjectsOf(next) = {} /\ {p \in DOMAIN projects' : projects'[p].tenant = next} = {} BY <1>1, <1>9
<1>18. \A t \in DOMAIN tenants' : IF t = next THEN ProjectsOf(t)' = {} ELSE t \in DOMAIN tenants /\ ProjectsOf(t)' = ProjectsOf(t)
  BY <1>5, <1>16, <1>17 DEF ProjectsOf
<1>11. Marked' BY <1>2, <1>5, <1>18 DEF IInv, Marked, Ownerless
<1>12. WithinPlan' BY <1>5, <1>7, <1>18, PlanFrame
<1>13. ClaimedOnce' /\ WonIsGone' BY <1>1, <1>10, WonFrame
<1>14. ASSUME NEW d \in Requests \ {c} PROVE Undisturbed(d)
  <2>1. InHand(d) /\ req'[d] = req[d] BY <1>4 DEF IInv
  <2>2. \A p : LoggedBefore(p)' <=> LoggedBefore(p) BY <1>1 DEF LoggedBefore
  <2> QED BY <1>1, <1>5, <1>9, <2>1, <2>2 DEF Undisturbed, InHand, MintIsAlone, ProjectsOf
<1>15. InHand(c)' /\ \A e \in Requests \ {c} : Apart(c, e)' /\ Apart(e, c)'
  <2>1. InHand(c) /\ req[c].drop = {} BY <1>0, <1>1 DEF IInv, InHand, DropIsUnused
  <2>2. InHand(c)'
    BY <1>2, <1>3, <1>4, <1>5, <2>1
       DEF InHand, OwnIsOwned, TakesClaimable, DropIsUnused, HasRoom, MintIsAlone, Minting, Ownerless
  <2>3. ASSUME NEW e \in Requests \ {c} PROVE Apart(c, e)' /\ Apart(e, c)'
    <3>1. Apart(c, e) /\ Apart(e, c) /\ req'[e] = req[e] BY <1>0, <1>4, <2>3 DEF IInv
    <3>2. Locked(c)' = {} /\ LockedProjects(c)' = {} BY <1>3, <1>4, <2>1 DEF Locked, LockedProjects
    <3> QED BY <1>1, <1>3, <1>4, <3>1, <3>2 DEF Apart, Minting
  <2> QED BY <2>2, <2>3
<1> QED BY <1>4, <1>7, <1>8, <1>10, <1>11, <1>12, <1>13, <1>14, <1>15, TableStep

\* A new project is its tenant's, and no other tenant's.
LEMMA NewProjectIs ==
  ASSUME TypeOK, Numbered, NEW id \in Nat, id >= next, NEW row,
         projects' = Insert(projects, id, row)
  PROVE  /\ id \notin DOMAIN projects /\ DOMAIN projects' = DOMAIN projects \cup {id} /\ projects'[id] = row
         /\ \A p \in DOMAIN projects : projects'[p] = projects[p]
         /\ \A t : ProjectsOf(t)' = IF t = row.tenant THEN ProjectsOf(t) \cup {id} ELSE ProjectsOf(t)
<1>1. id \notin DOMAIN projects BY TenantIs DEF TypeOK
<1>2. /\ DOMAIN projects' = DOMAIN projects \cup {id} /\ projects'[id] = row
      /\ \A p \in DOMAIN projects : projects'[p] = projects[p]
  BY <1>1 DEF Insert
<1> QED BY <1>1, <1>2 DEF ProjectsOf

\* The create's project: behind the lock there was room for it.
LEMMA CreateCommitsStep ==
  ASSUME IInv, NEW c \in Creates, CreateCommits(c)
  PROVE  IInv'
<1>0. c \in Requests /\ TypeOK /\ Numbered /\ Handed(req[c]) BY HandedIs DEF Requests, IInv
<1> DEFINE own == req[c].own
           row == NewProject(own, "none", "none")
           key == Key(own, next, TRUE)
<1>1. /\ req[c].pc = "locked" /\ projects' = Insert(projects, next, row) /\ keys' = keys \cup {key}
      /\ next' = next + 1 /\ Become(c, Done) /\ UNCHANGED <<tenants, rows, reaping, won>>
  BY DEF CreateCommits
<1>2. InHand(c) /\ own \in DOMAIN tenants /\ tenants[own].owner \in People
      /\ Cardinality(ProjectsOf(own)) < Plan[tenants[own].owner]
  <2>1. InHand(c) /\ own \in DOMAIN tenants /\ req[c].drop = {}
    BY <1>0, <1>1 DEF IInv, InHand, DropIsUnused, HasRoom
  <2>2. tenants[own].owner \in People BY <1>0, <2>1, TenantIs DEF InHand, OwnIsOwned, Ownerless
  <2>3. Cardinality(ProjectsOf(own) \ {}) < Plan[tenants[own].owner] BY <1>1, <2>1 DEF InHand, HasRoom
  <2>4. ProjectsOf(own) \ {} = ProjectsOf(own) OBVIOUS
  <2> QED BY <2>1, <2>2, <2>3, <2>4
<1>3. row \in [tenant : DOMAIN tenants, page : {"none", "unseen", "seen", "removed"},
               checks : {"none", "running", "paused"}] /\ row.tenant = own
  BY <1>2 DEF NewProject
<1>4. key \in [tenant : DOMAIN tenants, project : DOMAIN projects \cup {next}, shown : BOOLEAN]
  BY <1>2 DEF Key
<1> HIDE DEF row, key
<1>5. next \in Nat /\ next >= next BY <1>0 DEF TypeOK
<1>6. /\ next \notin DOMAIN projects /\ DOMAIN projects' = DOMAIN projects \cup {next} /\ projects'[next] = row
      /\ \A p \in DOMAIN projects : projects'[p] = projects[p]
      /\ \A t : ProjectsOf(t)' = IF t = own THEN ProjectsOf(t) \cup {next} ELSE ProjectsOf(t)
  <2>1. projects' = Insert(projects, next, row) BY <1>1
  <2>2. row.tenant = own BY <1>3
  <2> QED BY <1>0, <1>5, <2>1, <2>2, NewProjectIs
<1>7. req'[c] = Done /\ (\A d \in Requests \ {c} : req'[d] = req[d]) /\ req' \in [Requests -> ReqType]
  BY <1>0, <1>1, DoneIs, BecomeMoves, BecomeType
<1>8. TypeOK'
  <2>1. \A p \in DOMAIN projects' : projects'[p] \in
          [tenant : DOMAIN tenants', page : {"none", "unseen", "seen", "removed"},
           checks : {"none", "running", "paused"}]
    BY <1>0, <1>1, <1>3, <1>6 DEF TypeOK
  <2>2. keys' \subseteq [tenant : DOMAIN tenants', project : DOMAIN projects', shown : BOOLEAN]
    BY <1>0, <1>1, <1>4, <1>6 DEF TypeOK
  <2> QED BY <1>0, <1>1, <1>7, <2>1, <2>2 DEF TypeOK, ReqType
<1>9. Numbered'
  BY <1>0, <1>1, <1>5, <1>6, <1>7, DoneIs DEF Numbered, Ids, Handed, TypeOK, None
<1>10. OwnersStay BY <1>1 DEF OwnersStay
<1>11. Marked' BY <1>1, <1>2, <1>6 DEF IInv, Marked, Ownerless, InHand, OwnIsOwned
<1>12. WithinPlan'
  <2>1. Cardinality(ProjectsOf(own) \cup {next}) <= Plan[tenants[own].owner]
    <3>1. IsFiniteSet(ProjectsOf(own)) /\ Cardinality(ProjectsOf(own)) \in Nat BY <1>0, Fewer
    <3>2. Plan[tenants[own].owner] \in Nat BY <1>2, OwnershipAssumption
    <3>3. Cardinality(ProjectsOf(own) \cup {next}) = Cardinality(ProjectsOf(own)) + 1
      BY <1>6, <3>1, FS_AddElement DEF ProjectsOf
    <3> QED BY <1>2, <3>1, <3>2, <3>3
  <2>2. \A t \in DOMAIN tenants : t = own => ProjectsOf(t)' = ProjectsOf(own) \cup {next} BY <1>6
  <2>3. \A t \in DOMAIN tenants : t # own => ProjectsOf(t)' = ProjectsOf(t) BY <1>6
  <2> QED BY <1>1, <1>8, <2>1, <2>2, <2>3, PlanFrame
<1>13. ClaimedOnce' /\ WonIsGone' BY <1>1, <1>10, WonFrame
<1>14. ASSUME NEW d \in Requests \ {c} PROVE Undisturbed(d)
  <2>1. InHand(d) /\ req'[d] = req[d] /\ Apart(c, d) BY <1>0, <1>7, <1>14 DEF IInv
  <2>2. \A p : LoggedBefore(p)' <=> LoggedBefore(p) BY <1>1 DEF LoggedBefore
  <2>3. \A p \in req[d].drop : p # next BY <1>0, TenantIs DEF Numbered, Ids
  <2>4. req[d].pc \in {"walled", "locked"} => req[d].own # own
    BY <1>1, <2>1 DEF Apart, Locked
  <2>5. Minting(d) => req[d].t # own /\ req[d].t \in DOMAIN tenants \ reaping
                      /\ (req[d].pc = "placed" => req[d].p \in DOMAIN projects)
    BY <1>2, <2>1 DEF InHand, MintIsAlone, NewTenant, ProjectsOf, OwnIsOwned, Ownerless
  <2> QED BY <1>1, <1>6, <2>1, <2>2, <2>3, <2>4, <2>5 DEF Undisturbed
<1> QED BY <1>0, <1>7, <1>8, <1>9, <1>10, <1>11, <1>12, <1>13, <1>14, DoneAnswers, TableStep

\* A key or a row of data, once its request is through.
LEMMA DataStep ==
  ASSUME IInv, NEW c \in Requests, Become(c, Done), UNCHANGED <<tenants, projects, reaping, won, next>>,
         keys' \subseteq [tenant : DOMAIN tenants, project : DOMAIN projects, shown : BOOLEAN],
         rows' \subseteq [tenant : Nat, project : Nat, door : {"log", "late", "web"}],
         \A d \in Requests : \A p \in req[d].drop : LoggedBefore(p)' => LoggedBefore(p)
  PROVE  IInv'
<1>0. TypeOK /\ Numbered BY DEF IInv
<1>1. req'[c] = Done /\ (\A d \in Requests \ {c} : req'[d] = req[d]) /\ req' \in [Requests -> ReqType]
  BY <1>0, DoneIs, BecomeMoves, BecomeType
<1>2. TypeOK' BY <1>0, <1>1 DEF TypeOK, ReqType
<1>3. Numbered' BY <1>0, <1>1, DoneIs DEF Numbered, Ids, Handed, TypeOK, None
<1>4. /\ OwnersStay /\ Marked' /\ WithinPlan' /\ ClaimedOnce' /\ WonIsGone'
      /\ \A t : ProjectsOf(t)' = ProjectsOf(t)
  BY <1>2, Standing DEF IInv, Marked
<1>5. ASSUME NEW d \in Requests \ {c} PROVE Undisturbed(d)
  <2>1. InHand(d) /\ req'[d] = req[d] BY <1>1, <1>5 DEF IInv
  <2>2. Minting(d) => req[d].t \in DOMAIN tenants \ reaping BY <2>1 DEF InHand, MintIsAlone
  <2> QED BY <1>4, <2>1, <2>2 DEF Undisturbed
<1> QED BY <1>1, <1>2, <1>3, <1>4, <1>5, DoneAnswers, TableStep

LEMMA IssuedStep ==
  ASSUME IInv, NEW c \in Issues, Issued(c)
  PROVE  IInv'
<1>0. c \in Requests /\ TypeOK BY DEF Requests, IInv
<1>1. CASE Refuse(c)
  BY <1>0, <1>1, RefuseStep DEF Issued
<1>2. CASE ~Refuse(c)
  <2>1. /\ req[c].t \in DOMAIN tenants /\ req[c].p \in DOMAIN projects
        /\ keys' = keys \cup {Key(req[c].t, req[c].p, TRUE)} /\ Become(c, Done)
        /\ UNCHANGED <<tenants, projects, rows, reaping, won, next>>
    BY <1>2 DEF Issued
  <2>2. keys' \subseteq [tenant : DOMAIN tenants, project : DOMAIN projects, shown : BOOLEAN]
    <3>1. Key(req[c].t, req[c].p, TRUE) \in [tenant : DOMAIN tenants, project : DOMAIN projects, shown : BOOLEAN]
      BY <2>1 DEF Key
    <3> QED BY <1>0, <2>1, <3>1 DEF TypeOK
  <2>3. rows' \subseteq [tenant : Nat, project : Nat, door : {"log", "late", "web"}] BY <1>0, <2>1 DEF TypeOK
  <2>4. \A p : LoggedBefore(p)' => LoggedBefore(p) BY <2>1 DEF LoggedBefore
  <2> QED BY <1>0, <2>1, <2>2, <2>3, <2>4, DataStep
<1> QED BY <1>1, <1>2

\* A log batch waits for a placeholder that a claim has deleted; one that lands between
\* the look and the removal comes late.
LEMMA FlushesStep ==
  ASSUME IInv, NEW c \in Batches, Flushes(c)
  PROVE  IInv'
<1>0. c \in Requests /\ TypeOK /\ Handed(req[c]) BY HandedIs DEF Requests, IInv
<1>1. CASE Refuse(c)
  BY <1>0, <1>1, RefuseStep DEF Flushes
<1>2. CASE ~Refuse(c)
  <2> DEFINE p == req[c].p
             late == \E d \in Requests : req[d].pc = "scanned" /\ p \in req[d].drop
             row == [tenant |-> req[c].t, project |-> p,
                     door |-> CASE c \in WebBatches -> "web" [] late -> "late" [] OTHER -> "log"]
  <2>1. /\ rows' = rows \cup {row} /\ Become(c, Done)
        /\ UNCHANGED <<tenants, projects, keys, reaping, won, next>>
        /\ c \in LogBatches => \A d \in Requests : req[d].pc = "walled" => p \notin req[d].drop
    BY <1>2 DEF Flushes
  <2>2. /\ row \in [tenant : Nat, project : Nat, door : {"log", "late", "web"}] /\ row.project = p
        /\ row.door = "log" => c \in LogBatches /\ ~late
    BY <1>0 DEF Handed, ReqType, Batches
  <2>5. ASSUME NEW d \in Requests, p \in req[d].drop, row.door = "log" PROVE FALSE
    <3>1. req[d].pc \in {"scanned", "walled"} BY <2>5 DEF IInv, InHand, DropIsUnused
    <3> QED BY <2>1, <2>2, <2>5, <3>1
  <2> HIDE DEF row
  <2>3. /\ rows' \subseteq [tenant : Nat, project : Nat, door : {"log", "late", "web"}]
        /\ keys' \subseteq [tenant : DOMAIN tenants, project : DOMAIN projects, shown : BOOLEAN]
    BY <1>0, <2>1, <2>2 DEF TypeOK
  <2>4. \A d \in Requests : \A x \in req[d].drop : LoggedBefore(x)' => LoggedBefore(x)
    BY <2>1, <2>2, <2>5 DEF LoggedBefore
  <2> QED BY <1>0, <2>1, <2>3, <2>4, DataStep
<1> QED BY <1>1, <1>2

\* A page or a project's checks change: not those of a placeholder in hand.
LEMMA FieldsStep ==
  ASSUME IInv, UNCHANGED <<tenants, keys, rows, req, reaping, won, next>>, DOMAIN projects' = DOMAIN projects,
         \A p \in DOMAIN projects :
           /\ projects'[p] \in [tenant : DOMAIN tenants, page : {"none", "unseen", "seen", "removed"},
                                checks : {"none", "running", "paused"}]
           /\ projects'[p].tenant = projects[p].tenant
           /\ (\E d \in Requests : p \in req[d].drop /\ projects[p].tenant = req[d].own) /\ projects[p].checks = "none" => projects'[p].checks = "none"
           /\ (\E d \in Requests : req[d].pc = "placed" /\ p = req[d].p) => projects'[p].page = projects[p].page
  PROVE  IInv'
<1>0. TypeOK /\ Numbered BY DEF IInv
<1>1. TypeOK' BY <1>0 DEF TypeOK
<1>2. Numbered' BY <1>0 DEF Numbered, Ids
<1>3. /\ OwnersStay /\ Marked' /\ WithinPlan' /\ ClaimedOnce' /\ WonIsGone'
      /\ \A t : ProjectsOf(t)' = ProjectsOf(t)
  BY <1>1, Standing DEF IInv, Marked
<1>4. ASSUME NEW d \in Requests PROVE req'[d] = req[d] /\ Undisturbed(d)
  <2>1. InHand(d) /\ req'[d] = req[d] BY <1>4 DEF IInv
  <2>2. Minting(d) => /\ req[d].t \in DOMAIN tenants \ reaping
                      /\ req[d].pc = "placed" => projects'[req[d].p].page = projects[req[d].p].page
    BY <2>1 DEF InHand, MintIsAlone, ProjectsOf
  <2>3. \A p : LoggedBefore(p)' <=> LoggedBefore(p) BY DEF LoggedBefore
  <2> QED BY <1>3, <2>1, <2>2, <2>3 DEF Undisturbed
<1> QED BY <1>1, <1>2, <1>3, <1>4, TableStep

LEMMA MonitorsStep ==
  ASSUME IInv, NEW p \in DOMAIN projects, Monitors(p)
  PROVE  IInv'
<1>1. /\ projects' = [projects EXCEPT ![p].checks = "running"]
      /\ UNCHANGED <<tenants, keys, rows, req, reaping, won, next>>
      /\ \A d \in Requests : p \in req[d].drop => projects[p].tenant # req[d].own
  BY DEF Monitors, MayPoint, IInv, InHand, DropIsUnused
<1>2. \A k \in DOMAIN projects : projects[k] \in [tenant : DOMAIN tenants, page : {"none", "unseen", "seen", "removed"},
                                                  checks : {"none", "running", "paused"}]
  BY DEF IInv, TypeOK
<1>3. \A k \in DOMAIN projects : projects'[k] = IF k = p THEN [projects[p] EXCEPT !.checks = "running"] ELSE projects[k]
  BY <1>1
<1>4. DOMAIN projects' = DOMAIN projects BY <1>1
<1> QED BY <1>1, <1>2, <1>3, <1>4, FieldsStep

LEMMA SeenStep ==
  ASSUME IInv, NEW p \in DOMAIN projects, Seen(p)
  PROVE  IInv'
<1>1. /\ projects' = [projects EXCEPT ![p].page = "seen"] /\ projects[p].page = "unseen"
      /\ UNCHANGED <<tenants, keys, rows, req, reaping, won, next>>
  BY DEF Seen
<1>2. \A k \in DOMAIN projects : projects[k] \in [tenant : DOMAIN tenants, page : {"none", "unseen", "seen", "removed"},
                                                  checks : {"none", "running", "paused"}]
  BY DEF IInv, TypeOK
<1>3. \A k \in DOMAIN projects : projects'[k] = IF k = p THEN [projects[p] EXCEPT !.page = "seen"] ELSE projects[k]
  BY <1>1
<1>4. DOMAIN projects' = DOMAIN projects BY <1>1
<1>5. \A d \in Requests : req[d].pc = "placed" => projects[req[d].p].page = "none"
  BY DEF IInv, InHand, MintIsAlone, Minting
<1> QED BY <1>1, <1>2, <1>3, <1>4, <1>5, FieldsStep

LEMMA RemovesStep ==
  ASSUME IInv, NEW p \in DOMAIN projects, Removes(p)
  PROVE  IInv'
<1>1. /\ projects' = [projects EXCEPT ![p].page = "removed", ![p].checks = "none"]
      /\ projects[p].page \in {"unseen", "seen"}
      /\ UNCHANGED <<tenants, keys, rows, req, reaping, won, next>>
  BY DEF Removes
<1>2. \A k \in DOMAIN projects : projects[k] \in [tenant : DOMAIN tenants, page : {"none", "unseen", "seen", "removed"},
                                                  checks : {"none", "running", "paused"}]
  BY DEF IInv, TypeOK
<1>3. \A k \in DOMAIN projects : IF k = p THEN projects'[k] = [projects[p] EXCEPT !.page = "removed", !.checks = "none"]
                                 ELSE projects'[k] = projects[k]
  BY <1>1
<1>4. DOMAIN projects' = DOMAIN projects BY <1>1
<1>5. \A d \in Requests : req[d].pc = "placed" => projects[req[d].p].page = "none"
  BY DEF IInv, InHand, MintIsAlone, Minting
<1> QED BY <1>1, <1>2, <1>3, <1>4, <1>5, FieldsStep

LEMMA ReapPausesStep ==
  ASSUME IInv, ReapPauses
  PROVE  IInv'
<1>1. /\ projects' = [p \in DOMAIN projects |-> IF Stale(p) THEN Paused(p) ELSE projects[p]]
      /\ UNCHANGED <<tenants, keys, rows, req, reaping, won, next>>
  BY DEF ReapPauses
<1>2. \A k \in DOMAIN projects : projects[k] \in [tenant : DOMAIN tenants, page : {"none", "unseen", "seen", "removed"},
                                                  checks : {"none", "running", "paused"}]
  BY DEF IInv, TypeOK
<1>3. DOMAIN projects' = DOMAIN projects /\ \A k \in DOMAIN projects :
        \/ projects'[k] = projects[k]
        \/ projects[k].checks = "running" /\ projects'[k] = [projects[k] EXCEPT !.checks = "paused"]
  BY <1>1 DEF Stale, Paused
<1>4. ASSUME NEW k \in DOMAIN projects
      PROVE  /\ projects'[k] \in [tenant : DOMAIN tenants, page : {"none", "unseen", "seen", "removed"},
                                  checks : {"none", "running", "paused"}]
             /\ projects'[k].tenant = projects[k].tenant /\ projects'[k].page = projects[k].page
             /\ projects[k].checks = "none" => projects'[k].checks = "none"
  <2>1. CASE projects'[k] = projects[k]
    BY <1>2, <2>1
  <2>2. CASE projects[k].checks = "running" /\ projects'[k] = [projects[k] EXCEPT !.checks = "paused"]
    <3>1. projects[k] \in [tenant : DOMAIN tenants, page : {"none", "unseen", "seen", "removed"},
                           checks : {"none", "running", "paused"}]
      BY <1>2
    <3> QED BY <2>2, <3>1
  <2> QED BY <1>3, <2>1, <2>2
<1>5. /\ UNCHANGED <<tenants, keys, rows, req, reaping, won, next>> /\ DOMAIN projects' = DOMAIN projects
  BY <1>1, <1>3
<1>6. \A k \in DOMAIN projects :
        /\ projects'[k] \in [tenant : DOMAIN tenants, page : {"none", "unseen", "seen", "removed"},
                             checks : {"none", "running", "paused"}]
        /\ projects'[k].tenant = projects[k].tenant
        /\ (\E d \in Requests : k \in req[d].drop /\ projects[k].tenant = req[d].own) /\ projects[k].checks = "none" => projects'[k].checks = "none"
        /\ (\E d \in Requests : req[d].pc = "placed" /\ k = req[d].p) => projects'[k].page = projects[k].page
  BY <1>4, Zenon
<1> QED BY <1>5, <1>6, FieldsStep, Zenon

\* The tenants' ages and tokens change, and the reaper takes its list.
LEMMA MarksStep ==
  ASSUME IInv, UNCHANGED <<projects, rows, won, next>>, DOMAIN tenants' = DOMAIN tenants,
         keys' \subseteq [tenant : DOMAIN tenants, project : DOMAIN projects, shown : BOOLEAN],
         \A t \in DOMAIN tenants :
           /\ tenants'[t] \in [owner : People \cup {Nobody}, hash : {"none", "secret", "told"}, age : 0..2]
           /\ tenants'[t].owner = tenants[t].owner
           /\ tenants[t].hash # "none" => tenants'[t].hash # "none"
           /\ tenants'[t].hash # "none" => Ownerless(t),
         reaping' \subseteq reaping \cup {t \in DOMAIN tenants : tenants[t].age = 2},
         req' \in [Requests -> ReqType],
         \A d \in Requests :
           /\ req'[d].own < next /\ req'[d].t < next /\ req'[d].p < next /\ req'[d].drop \subseteq Ids
           /\ \/ req'[d] = req[d] /\ (Minting(d) => tenants'[req[d].t] = tenants[req[d].t])
              \/ InHand(d)' /\ \A e \in Requests \ {d} : Apart(d, e)' /\ Apart(e, d)'
  PROVE  IInv'
<1>0. TypeOK /\ Numbered BY DEF IInv
<1>1. TypeOK' BY <1>0 DEF TypeOK, ReqType
<1>2. Numbered' BY <1>0 DEF Numbered, Ids
<1>3. /\ OwnersStay /\ Marked' /\ WithinPlan' /\ ClaimedOnce' /\ WonIsGone'
      /\ \A t : ProjectsOf(t)' = ProjectsOf(t)
  BY <1>1, Standing
<1>4. ASSUME NEW d \in Requests, req'[d] = req[d], Minting(d) => tenants'[req[d].t] = tenants[req[d].t]
      PROVE  Undisturbed(d)
  <2>1. InHand(d) BY DEF IInv
  <2>2. Minting(d) => req[d].t \in DOMAIN tenants \ reaping /\ tenants[req[d].t].age = 0
    BY <2>1 DEF InHand, MintIsAlone, NewTenant
  <2>3. Minting(d) => req[d].t \notin reaping' BY <2>2
  <2>4. \A p : LoggedBefore(p)' <=> LoggedBefore(p) BY DEF LoggedBefore
  <2> QED BY <1>3, <1>4, <2>2, <2>3, <2>4 DEF Undisturbed
<1> QED BY <1>1, <1>2, <1>3, <1>4, TableStep

LEMMA AgesStep ==
  ASSUME IInv, NEW t \in DOMAIN tenants, Ages(t)
  PROVE  IInv'
<1>0. TypeOK /\ Numbered BY DEF IInv
<1>1. /\ tenants' = [tenants EXCEPT ![t].age = @ + 1] /\ tenants[t].age < 2
      /\ (\A d \in Requests : req[d].t # t) /\ UNCHANGED <<projects, keys, rows, req, reaping, won, next>>
  BY DEF Ages
<1>2. tenants[t] \in [owner : People \cup {Nobody}, hash : {"none", "secret", "told"}, age : 0..2]
  BY <1>0 DEF TypeOK
<1> DEFINE row == [tenants[t] EXCEPT !.age = @ + 1]
<1>3. /\ row \in [owner : People \cup {Nobody}, hash : {"none", "secret", "told"}, age : 0..2]
      /\ row.owner = tenants[t].owner /\ row.hash = tenants[t].hash
  BY <1>1, <1>2
<1>4. DOMAIN tenants' = DOMAIN tenants /\ \A u \in DOMAIN tenants : tenants'[u] = IF u = t THEN row ELSE tenants[u]
  BY <1>1
<1> HIDE DEF row
<1>5. \A u \in DOMAIN tenants : tenants[u].hash # "none" => Ownerless(u) BY DEF IInv, Marked
<1>6. \A u \in DOMAIN tenants :
        /\ tenants'[u] \in [owner : People \cup {Nobody}, hash : {"none", "secret", "told"}, age : 0..2]
        /\ tenants'[u].owner = tenants[u].owner
        /\ tenants[u].hash # "none" => tenants'[u].hash # "none"
        /\ tenants'[u].hash # "none" => Ownerless(u)
  BY <1>0, <1>3, <1>4, <1>5 DEF TypeOK
<1>7. req' \in [Requests -> ReqType] /\ keys' \subseteq [tenant : DOMAIN tenants, project : DOMAIN projects, shown : BOOLEAN]
  BY <1>0, <1>1 DEF TypeOK, ReqType
<1>8. \A d \in Requests : /\ req'[d].own < next /\ req'[d].t < next /\ req'[d].p < next /\ req'[d].drop \subseteq Ids
                          /\ req'[d] = req[d] /\ (Minting(d) => tenants'[req[d].t] = tenants[req[d].t])
  BY <1>0, <1>1, <1>4 DEF Numbered, IInv, InHand, MintIsAlone
<1> QED BY <1>1, <1>4, <1>6, <1>7, <1>8, MarksStep

LEMMA ReapScansStep ==
  ASSUME IInv, ReapScans
  PROVE  IInv'
<1>0. TypeOK /\ Numbered BY DEF IInv
<1>1. reaping' = {t \in DOMAIN tenants : Abandoned(t)} /\ UNCHANGED <<tenants, projects, keys, rows, req, won, next>>
  BY DEF ReapScans
<1>2. reaping' \subseteq {t \in DOMAIN tenants : tenants[t].age = 2} BY <1>1 DEF Abandoned
<1>3. \A t \in DOMAIN tenants :
        /\ tenants'[t] \in [owner : People \cup {Nobody}, hash : {"none", "secret", "told"}, age : 0..2]
        /\ tenants'[t].hash # "none" => Ownerless(t)
  BY <1>0, <1>1 DEF TypeOK, IInv, Marked
<1>4. req' \in [Requests -> ReqType] /\ keys' \subseteq [tenant : DOMAIN tenants, project : DOMAIN projects, shown : BOOLEAN]
  BY <1>0, <1>1 DEF TypeOK, ReqType
<1>5. \A d \in Requests : req'[d].own < next /\ req'[d].t < next /\ req'[d].p < next /\ req'[d].drop \subseteq Ids
  BY <1>0, <1>1 DEF Numbered
<1> QED BY <1>1, <1>2, <1>3, <1>4, <1>5, MarksStep

\* A mint's own tenant: its row, and nobody else comes near it.
LEMMA MintHas ==
  ASSUME IInv, NEW c \in Requests, Minting(c)
  PROVE  /\ req[c].t \in DOMAIN tenants /\ req[c].t \notin reaping
         /\ tenants[req[c].t] = NewTenant(Nobody, IF req[c].pc = "bare" THEN "none" ELSE "secret")
         /\ ProjectsOf(req[c].t) = IF req[c].pc = "placed" THEN {req[c].p} ELSE {}
         /\ req[c].pc = "placed" => projects[req[c].p].page = "none"
         /\ req[c].drop = {} /\ (req[c].own \in DOMAIN tenants => ~Ownerless(req[c].own))
         /\ \A d \in Requests \ {c} : Minting(d) => req[d].t # req[c].t
BY DEF IInv, InHand, MintIsAlone, DropIsUnused, OwnIsOwned, Apart, Minting

LEMMA MintsTenantStep ==
  ASSUME IInv, NEW c \in Mints, MintsTenant(c)
  PROVE  IInv'
<1>0. c \in Requests /\ TypeOK /\ Numbered BY DEF Requests, IInv
<1> DEFINE row == NewTenant(Nobody, "none")
           q == [Idle EXCEPT !.pc = "bare", !.t = next]
<1>1. /\ tenants' = Insert(tenants, next, row) /\ next' = next + 1
      /\ Become(c, q) /\ UNCHANGED <<projects, keys, rows, reaping, won>>
  BY DEF MintsTenant
<1>2. row = NewTenant(Nobody, "none") /\ row.owner = Nobody /\ row.hash = "none"
      /\ row \in [owner : People \cup {Nobody}, hash : {"none", "secret", "told"}, age : 0..2]
  BY DEF NewTenant
<1>3. q \in ReqType /\ q.pc = "bare" /\ q.own = 0 /\ q.t = next /\ q.p = 0 /\ q.drop = {}
  BY <1>0 DEF Idle, ReqType, None, TypeOK
<1> HIDE DEF q, row
<1>4. req'[c] = q /\ (\A d \in Requests \ {c} : req'[d] = req[d]) /\ req' \in [Requests -> ReqType]
  BY <1>0, <1>1, <1>3, BecomeMoves, BecomeType
<1>5. /\ DOMAIN tenants' = DOMAIN tenants \cup {next} /\ tenants'[next] = row /\ next \notin DOMAIN tenants
      /\ \A t \in DOMAIN tenants : tenants'[t] = tenants[t]
  <2>1. next \notin DOMAIN tenants BY <1>0, TenantIs
  <2> QED BY <1>1, <2>1 DEF Insert
<1>6. \A t \in DOMAIN tenants' : t \in Nat /\ tenants'[t] \in
        [owner : People \cup {Nobody}, hash : {"none", "secret", "told"}, age : 0..2]
  BY <1>0, <1>2, <1>5 DEF TypeOK
<1>7. TypeOK' BY <1>0, <1>1, <1>4, <1>5, <1>6 DEF TypeOK, ReqType
<1>8. Numbered'
  <2>1. next \in Nat /\ next > 0 BY <1>0 DEF TypeOK, Numbered
  <2>2. next' \in Nat /\ next < next' BY <1>1, <2>1
  <2>3. DOMAIN tenants \subseteq Ids /\ DOMAIN projects \subseteq Ids BY <1>0 DEF Numbered
  <2>4. \A i \in Ids : i \in Nat /\ 0 < i /\ i < next BY <2>1 DEF Ids
  <2>5. \A i \in Ids \cup {next} : i \in Nat /\ 0 < i /\ i < next' BY <2>1, <2>2, <2>4
  <2>6. DOMAIN tenants' \subseteq Ids \cup {next} /\ DOMAIN projects' \subseteq Ids \cup {next} BY <1>1, <1>5, <2>3
  <2>7. DOMAIN tenants' \subseteq Nat /\ \A t \in DOMAIN tenants' : 0 < t /\ t < next' BY <2>5, <2>6
  <2>8. DOMAIN projects' \subseteq Nat /\ \A p \in DOMAIN projects' : 0 < p /\ p < next' BY <2>5, <2>6
  <2>9. req'[c].own < next' /\ req'[c].t < next' /\ req'[c].p < next' BY <1>3, <1>4, <2>1, <2>2
  <2>10. req'[c].drop \subseteq Ids BY <1>3, <1>4
  <2>11. next' = next + 1 /\ UNCHANGED <<reaping, won>> BY <1>1
  <2> QED BY <1>0, <1>4, <2>7, <2>8, <2>9, <2>10, <2>11, NumberedStep
<1>9. /\ \A t : ProjectsOf(t)' = ProjectsOf(t)
      /\ ProjectsOf(next) = {} /\ next \notin reaping
  BY <1>0, <1>1, TenantIs DEF ProjectsOf, Numbered, Ids
<1>10. OwnersStay BY <1>0, <1>5, TenantIs DEF OwnersStay
<1>11. Marked' BY <1>2, <1>5, <1>9 DEF IInv, Marked, Ownerless
<1>12. WithinPlan' BY <1>2, <1>5, <1>7, <1>9, PlanFrame, OwnershipAssumption
<1>13. ClaimedOnce' /\ WonIsGone' BY <1>1, <1>10, WonFrame
<1>14. ASSUME NEW d \in Requests \ {c} PROVE Undisturbed(d)
  <2>1. InHand(d) /\ req'[d] = req[d] BY <1>4 DEF IInv
  <2>2. \A p : LoggedBefore(p)' <=> LoggedBefore(p) BY <1>1 DEF LoggedBefore
  <2> QED BY <1>1, <1>5, <1>9, <2>1, <2>2 DEF Undisturbed, InHand, MintIsAlone
<1>15. InHand(c)' /\ \A e \in Requests \ {c} : Apart(c, e)' /\ Apart(e, c)'
  <2>1. {p \in DOMAIN projects' : projects'[p].tenant = next} = {} BY <1>1, <1>9 DEF ProjectsOf
  <2>2. MintIsAlone(c)' BY <1>1, <1>2, <1>3, <1>4, <1>5, <1>9, <2>1 DEF MintIsAlone, ProjectsOf, NewTenant
  <2>3. 0 \notin DOMAIN tenants' BY <1>8 DEF Numbered, Ids
  <2>4. InHand(c)'
    BY <1>3, <1>4, <2>2, <2>3 DEF InHand, OwnIsOwned, TakesClaimable, DropIsUnused, HasRoom
  <2>5. ASSUME NEW e \in Requests \ {c} PROVE Apart(c, e)' /\ Apart(e, c)'
    <3>1. req[e].t # next /\ req'[e] = req[e] BY <1>0, <1>4, <2>5 DEF Numbered, TypeOK
    <3>2. Locked(c)' = {} /\ LockedProjects(c)' = {} BY <1>3, <1>4 DEF Locked, LockedProjects
    <3> QED BY <1>3, <1>4, <3>1, <3>2 DEF Apart, Minting
  <2> QED BY <2>4, <2>5
<1> QED BY <1>4, <1>7, <1>8, <1>10, <1>11, <1>12, <1>13, <1>14, <1>15, TableStep

LEMMA MintsHashStep ==
  ASSUME IInv, NEW c \in Mints, MintsHash(c)
  PROVE  IInv'
<1>0. c \in Requests /\ TypeOK /\ Numbered /\ Handed(req[c]) BY HandedIs DEF Requests, IInv
<1> DEFINE t == req[c].t
           row == NewTenant(Nobody, "secret")
           q == [req[c] EXCEPT !.pc = "hashed"]
<1>1. /\ req[c].pc = "bare" /\ tenants' = [tenants EXCEPT ![t].hash = "secret"]
      /\ Become(c, q) /\ UNCHANGED <<projects, keys, rows, reaping, won, next>>
  BY DEF MintsHash
<1>2. /\ q \in ReqType /\ q.pc = "hashed" /\ q.own = req[c].own /\ q.t = t /\ q.p = req[c].p
      /\ q.drop = req[c].drop
  BY <1>0, GoesOn DEF Handed
<1> HIDE DEF q
<1>3. Minting(c) BY <1>1 DEF Minting
<1>4. t \in DOMAIN tenants /\ tenants[t] = NewTenant(Nobody, "none") BY <1>0, <1>1, <1>3, MintHas
<1>5. [tenants[t] EXCEPT !.hash = "secret"] = row BY <1>4 DEF NewTenant
<1>6. /\ row \in [owner : People \cup {Nobody}, hash : {"none", "secret", "told"}, age : 0..2]
      /\ row.owner = Nobody /\ row = NewTenant(Nobody, "secret") /\ row.hash = "secret"
  BY DEF NewTenant
<1>7. DOMAIN tenants' = DOMAIN tenants /\ tenants'[t] = row /\ \A u \in DOMAIN tenants \ {t} : tenants'[u] = tenants[u]
  BY <1>1, <1>4, <1>5
<1> HIDE DEF row
<1>8. Ownerless(t) BY <1>4 DEF Ownerless, NewTenant
<1>9. \A u \in DOMAIN tenants :
        /\ tenants'[u] \in [owner : People \cup {Nobody}, hash : {"none", "secret", "told"}, age : 0..2]
        /\ tenants'[u].owner = tenants[u].owner
        /\ tenants[u].hash # "none" => tenants'[u].hash # "none"
        /\ tenants'[u].hash # "none" => Ownerless(u)
  BY <1>0, <1>6, <1>7, <1>8 DEF TypeOK, IInv, Marked, Ownerless
<1>10. req'[c] = q /\ (\A d \in Requests \ {c} : req'[d] = req[d]) /\ req' \in [Requests -> ReqType]
  BY <1>0, <1>1, <1>2, BecomeMoves, BecomeType
<1>11. keys' \subseteq [tenant : DOMAIN tenants, project : DOMAIN projects, shown : BOOLEAN]
  BY <1>0, <1>1 DEF TypeOK
<1>12. \A d \in Requests : req'[d].own < next /\ req'[d].t < next /\ req'[d].p < next /\ req'[d].drop \subseteq Ids
  BY <1>0, <1>2, <1>10 DEF Numbered
<1>13. ASSUME NEW d \in Requests \ {c} PROVE req'[d] = req[d] /\ (Minting(d) => tenants'[req[d].t] = tenants[req[d].t])
  <2>1. Minting(d) => req[d].t \in DOMAIN tenants BY <1>13, MintHas
  <2>2. Minting(d) => req[d].t # t BY <1>0, <1>3, <1>13, MintHas
  <2> QED BY <1>7, <1>10, <1>13, <2>1, <2>2
<1>14. InHand(c)'
  <2>1. ProjectsOf(t) = {} /\ req[c].drop = {} /\ t \notin reaping /\ (req[c].own \in DOMAIN tenants => ~Ownerless(req[c].own))
    BY <1>0, <1>1, <1>3, MintHas
  <2>2. MintIsAlone(c)' BY <1>1, <1>2, <1>4, <1>6, <1>7, <1>10, <2>1 DEF MintIsAlone, ProjectsOf
  <2>3. OwnIsOwned(c)' BY <1>2, <1>7, <1>9, <1>10, <2>1 DEF OwnIsOwned, Ownerless
  <2> QED BY <1>2, <1>10, <2>1, <2>2, <2>3 DEF InHand, TakesClaimable, DropIsUnused, HasRoom
<1>15. ASSUME NEW e \in Requests \ {c} PROVE Apart(c, e)' /\ Apart(e, c)'
  <2>1. Apart(c, e) /\ Apart(e, c) /\ req'[e] = req[e] BY <1>0, <1>10, <1>15 DEF IInv
  <2>2. Locked(c)' = {} /\ LockedProjects(c)' = {} BY <1>0, <1>2, <1>3, <1>10, MintHas DEF Locked, LockedProjects
  <2> QED BY <1>1, <1>2, <1>10, <2>1, <2>2 DEF Apart, Minting
<1> QED BY <1>1, <1>7, <1>9, <1>10, <1>11, <1>12, <1>13, <1>14, <1>15, MarksStep

\* The key, and the answer that tells the token.
LEMMA MintsKeyStep ==
  ASSUME IInv, NEW c \in Mints, MintsKey(c)
  PROVE  IInv'
<1>0. c \in Requests /\ TypeOK /\ Numbered /\ Handed(req[c]) BY HandedIs DEF Requests, IInv
<1> DEFINE t == req[c].t
           row == [tenants[t] EXCEPT !.hash = "told"]
           key == Key(t, req[c].p, TRUE)
<1>1. /\ req[c].pc = "placed" /\ tenants' = [tenants EXCEPT ![t].hash = "told"] /\ keys' = keys \cup {key}
      /\ Become(c, Done) /\ UNCHANGED <<projects, rows, reaping, won, next>>
  BY DEF MintsKey
<1>2. Minting(c) BY <1>1 DEF Minting
<1>3. t \in DOMAIN tenants /\ tenants[t] = NewTenant(Nobody, "secret") /\ req[c].p \in DOMAIN projects
  BY <1>0, <1>1, <1>2, MintHas DEF ProjectsOf
<1>4. /\ row \in [owner : People \cup {Nobody}, hash : {"none", "secret", "told"}, age : 0..2]
      /\ row.owner = Nobody /\ row.hash = "told"
  BY <1>3 DEF NewTenant
<1>5. key \in [tenant : DOMAIN tenants, project : DOMAIN projects, shown : BOOLEAN] BY <1>3 DEF Key
<1>6. DOMAIN tenants' = DOMAIN tenants /\ tenants'[t] = row /\ \A u \in DOMAIN tenants \ {t} : tenants'[u] = tenants[u]
  BY <1>1, <1>3
<1> HIDE DEF row, key
<1>7. Ownerless(t) BY <1>3 DEF Ownerless, NewTenant
<1>8. \A u \in DOMAIN tenants :
        /\ tenants'[u] \in [owner : People \cup {Nobody}, hash : {"none", "secret", "told"}, age : 0..2]
        /\ tenants'[u].owner = tenants[u].owner
        /\ tenants[u].hash # "none" => tenants'[u].hash # "none"
        /\ tenants'[u].hash # "none" => Ownerless(u)
  BY <1>0, <1>4, <1>6, <1>7 DEF TypeOK, IInv, Marked, Ownerless
<1>9. req'[c] = Done /\ (\A d \in Requests \ {c} : req'[d] = req[d]) /\ req' \in [Requests -> ReqType]
  BY <1>0, <1>1, DoneIs, BecomeMoves, BecomeType
<1>10. keys' \subseteq [tenant : DOMAIN tenants, project : DOMAIN projects, shown : BOOLEAN]
  BY <1>0, <1>1, <1>5 DEF TypeOK
<1>11. \A d \in Requests : req'[d].own < next /\ req'[d].t < next /\ req'[d].p < next /\ req'[d].drop \subseteq Ids
  BY <1>0, <1>9, DoneIs DEF Numbered, None
<1>12. ASSUME NEW d \in Requests \ {c} PROVE req'[d] = req[d] /\ (Minting(d) => tenants'[req[d].t] = tenants[req[d].t])
  <2>1. Minting(d) => req[d].t \in DOMAIN tenants BY <1>12, MintHas
  <2>2. Minting(d) => req[d].t # t BY <1>0, <1>2, <1>12, MintHas
  <2> QED BY <1>6, <1>9, <1>12, <2>1, <2>2
<1>13. InHand(c)' /\ \A e \in Requests \ {c} : Apart(c, e)' /\ Apart(e, c)'
  <2>1. 0 \notin DOMAIN tenants' BY <1>0, <1>6, TenantIs DEF Numbered
  <2>2. InHand(c)'
    BY <1>9, <2>1, DoneIs DEF InHand, OwnIsOwned, TakesClaimable, DropIsUnused, HasRoom, MintIsAlone, Minting, None
  <2>3. Locked(c)' = {} /\ LockedProjects(c)' = {} /\ ~Minting(c)' BY <1>9, DoneIs DEF Locked, LockedProjects, Minting
  <2>4. req'[c].pc = "done" BY <1>9, DoneIs
  <2>5. ASSUME NEW e \in Requests \ {c} PROVE Apart(c, e)' /\ Apart(e, c)'
    <3>1. Apart(c, e)' BY <2>3 DEF Apart
    <3>2. Apart(e, c)' BY <2>3, <2>4 DEF Apart
    <3> QED BY <3>1, <3>2
  <2> QED BY <2>2, <2>5
<1>14. ASSUME NEW d \in Requests
       PROVE  \/ req'[d] = req[d] /\ (Minting(d) => tenants'[req[d].t] = tenants[req[d].t])
              \/ InHand(d)' /\ \A e \in Requests \ {d} : Apart(d, e)' /\ Apart(e, d)'
  BY <1>12, <1>13
<1>15. reaping' \subseteq reaping \cup {u \in DOMAIN tenants : tenants[u].age = 2} BY <1>1
<1> QED BY <1>1, <1>6, <1>8, <1>9, <1>10, <1>11, <1>14, <1>15, MarksStep, Zenon

LEMMA MintsProjectStep ==
  ASSUME IInv, NEW c \in Mints, MintsProject(c)
  PROVE  IInv'
<1>0. c \in Requests /\ TypeOK /\ Numbered /\ Handed(req[c]) BY HandedIs DEF Requests, IInv
<1> DEFINE t == req[c].t
           row == NewProject(t, "none", "none")
           q == [req[c] EXCEPT !.pc = "placed", !.p = next]
<1>1. /\ req[c].pc = "hashed" /\ projects' = Insert(projects, next, row) /\ next' = next + 1
      /\ Become(c, q) /\ UNCHANGED <<tenants, keys, rows, reaping, won>>
  BY DEF MintsProject
<1>2. Minting(c) BY <1>1 DEF Minting
<1>3. /\ t \in DOMAIN tenants \ reaping /\ tenants[t] = NewTenant(Nobody, "secret") /\ ProjectsOf(t) = {}
      /\ req[c].drop = {} /\ (req[c].own \in DOMAIN tenants => ~Ownerless(req[c].own))
      /\ \A d \in Requests \ {c} : Minting(d) => req[d].t # t
  BY <1>0, <1>1, <1>2, MintHas
<1>4. /\ q \in ReqType /\ q.pc = "placed" /\ q.own = req[c].own /\ q.t = t /\ q.p = next /\ q.drop = req[c].drop
  BY <1>0 DEF Handed, ReqType, TypeOK
<1>5. row \in [tenant : DOMAIN tenants, page : {"none", "unseen", "seen", "removed"},
               checks : {"none", "running", "paused"}] /\ row.tenant = t /\ row.page = "none"
  BY <1>3 DEF NewProject
<1> HIDE DEF q, row
<1>6. next \in Nat /\ next >= next BY <1>0 DEF TypeOK
<1>7. /\ next \notin DOMAIN projects /\ DOMAIN projects' = DOMAIN projects \cup {next} /\ projects'[next] = row
      /\ \A p \in DOMAIN projects : projects'[p] = projects[p]
      /\ \A u : ProjectsOf(u)' = IF u = t THEN ProjectsOf(u) \cup {next} ELSE ProjectsOf(u)
  <2>1. next \notin DOMAIN projects BY <1>0, TenantIs
  <2>2. /\ DOMAIN projects' = DOMAIN projects \cup {next} /\ projects'[next] = row
        /\ \A p \in DOMAIN projects : projects'[p] = projects[p]
    BY <1>1, <2>1 DEF Insert
  <2>3. \A u : ProjectsOf(u)' = IF u = t THEN ProjectsOf(u) \cup {next} ELSE ProjectsOf(u)
    BY <1>5, <2>1, <2>2 DEF ProjectsOf
  <2> QED BY <2>1, <2>2, <2>3
<1>8. req'[c] = q /\ (\A d \in Requests \ {c} : req'[d] = req[d]) /\ req' \in [Requests -> ReqType]
  BY <1>0, <1>1, <1>4, BecomeMoves, BecomeType
<1>9. TypeOK'
  <2>1. \A p \in DOMAIN projects' : projects'[p] \in
          [tenant : DOMAIN tenants', page : {"none", "unseen", "seen", "removed"},
           checks : {"none", "running", "paused"}]
    BY <1>0, <1>1, <1>5, <1>7 DEF TypeOK
  <2>2. keys' \subseteq [tenant : DOMAIN tenants', project : DOMAIN projects', shown : BOOLEAN]
    BY <1>0, <1>1, <1>7 DEF TypeOK
  <2> QED BY <1>0, <1>1, <1>8, <2>1, <2>2 DEF TypeOK, ReqType
<1>10. Numbered'
  <2>1. next \in Nat /\ next > 0 BY <1>0 DEF TypeOK, Numbered
  <2>2. next' \in Nat /\ next < next' BY <1>1, <2>1
  <2>3. DOMAIN tenants \subseteq Ids /\ DOMAIN projects \subseteq Ids BY <1>0 DEF Numbered
  <2>4. \A i \in Ids : i \in Nat /\ 0 < i /\ i < next BY <2>1 DEF Ids
  <2>5. \A i \in Ids \cup {next} : i \in Nat /\ 0 < i /\ i < next' BY <2>1, <2>2, <2>4
  <2>6. DOMAIN tenants' \subseteq Ids \cup {next} /\ DOMAIN projects' \subseteq Ids \cup {next} BY <1>1, <1>7, <2>3
  <2>7. DOMAIN tenants' \subseteq Nat /\ \A i \in DOMAIN tenants' : 0 < i /\ i < next' BY <2>5, <2>6
  <2>8. DOMAIN projects' \subseteq Nat /\ \A p \in DOMAIN projects' : 0 < p /\ p < next' BY <2>5, <2>6
  <2>9. req'[c].own < next' /\ req'[c].t < next' /\ req'[c].p < next'
    <3>1. req[c].own \in Nat /\ req[c].own < next /\ req[c].t \in Nat /\ req[c].t < next BY <1>0 DEF Handed, ReqType
    <3> QED BY <1>4, <1>8, <2>1, <2>2, <3>1
  <2>10. req'[c].drop \subseteq Ids BY <1>3, <1>4, <1>8
  <2>11. next' = next + 1 /\ UNCHANGED <<reaping, won>> BY <1>1
  <2> QED BY <1>0, <1>8, <2>7, <2>8, <2>9, <2>10, <2>11, NumberedStep
<1>11. OwnersStay BY <1>1 DEF OwnersStay
<1>12. \A u \in DOMAIN tenants : IF u = t THEN Ownerless(t) /\ ProjectsOf(u)' = {next} ELSE ProjectsOf(u)' = ProjectsOf(u)
  BY <1>3, <1>7 DEF Ownerless, NewTenant
<1>13. Marked' BY <1>1, <1>12 DEF IInv, Marked, Ownerless
<1>14. WithinPlan'
  <2>1. tenants[t].owner \notin People BY <1>3, OwnershipAssumption DEF NewTenant
  <2> QED BY <1>1, <1>9, <1>12, <2>1, PlanFrame
<1>15. ClaimedOnce' /\ WonIsGone' BY <1>1, <1>11, WonFrame
<1>16. ASSUME NEW d \in Requests \ {c} PROVE Undisturbed(d)
  <2>1. InHand(d) /\ req'[d] = req[d] BY <1>8, <1>16 DEF IInv
  <2>2. \A p : LoggedBefore(p)' <=> LoggedBefore(p) BY <1>1 DEF LoggedBefore
  <2>3. \A p \in req[d].drop : p # next BY <1>0, TenantIs DEF Numbered, Ids
  <2>4. req[d].own # t BY <1>3, <2>1 DEF InHand, OwnIsOwned, Ownerless, NewTenant
  <2>5. Minting(d) => req[d].t # t /\ req[d].t \in DOMAIN tenants \ reaping
                      /\ (req[d].pc = "placed" => req[d].p \in DOMAIN projects)
    BY <1>3, <1>16, <2>1 DEF InHand, MintIsAlone, ProjectsOf
  <2> QED BY <1>1, <1>7, <2>1, <2>2, <2>3, <2>4, <2>5 DEF Undisturbed
<1>17. InHand(c)' /\ \A e \in Requests \ {c} : Apart(c, e)' /\ Apart(e, c)'
  <2>2. {p \in DOMAIN projects' : projects'[p].tenant = t} = {next} BY <1>3, <1>5, <1>7 DEF ProjectsOf
  <2>3. MintIsAlone(c)' BY <1>1, <1>3, <1>4, <1>5, <1>7, <1>8, <2>2 DEF MintIsAlone, ProjectsOf
  <2>4. InHand(c)'
    BY <1>1, <1>3, <1>4, <1>8, <2>3 DEF InHand, OwnIsOwned, TakesClaimable, DropIsUnused, HasRoom, Ownerless
  <2>5. ASSUME NEW e \in Requests \ {c} PROVE Apart(c, e)' /\ Apart(e, c)'
    <3>1. Apart(c, e) /\ Apart(e, c) /\ req'[e] = req[e] /\ req[e].p # next
      BY <1>0, <1>8, <2>5 DEF IInv, Numbered, TypeOK
    <3>2. Locked(c)' = {} /\ LockedProjects(c)' = {} BY <1>3, <1>4, <1>8 DEF Locked, LockedProjects
    <3> QED BY <1>1, <1>4, <1>8, <3>1, <3>2 DEF Apart, Minting
  <2> QED BY <2>4, <2>5
<1> QED BY <1>8, <1>9, <1>10, <1>11, <1>13, <1>14, <1>15, <1>16, <1>17, TableStep

LEMMA MintsPageStep ==
  ASSUME IInv, NEW c \in Watches, MintsPage(c)
  PROVE  IInv'
<1>0. c \in Requests /\ TypeOK /\ Numbered BY DEF Requests, IInv
<1> DEFINE owner == NewTenant(Nobody, "secret")
           row == NewProject(next, "unseen", "running")
           id == next + 1
           key == Key(next, id, FALSE)
<1>1. /\ tenants' = Insert(tenants, next, owner) /\ projects' = Insert(projects, id, row)
      /\ keys' = keys \cup {key} /\ next' = next + 2 /\ Become(c, Done) /\ UNCHANGED <<rows, reaping, won>>
  BY DEF MintsPage
<1>2. /\ owner \in [owner : People \cup {Nobody}, hash : {"none", "secret", "told"}, age : 0..2]
      /\ owner.owner = Nobody
  BY DEF NewTenant
<1>3. row \in [tenant : DOMAIN tenants \cup {next}, page : {"none", "unseen", "seen", "removed"},
               checks : {"none", "running", "paused"}] /\ row.tenant = next
  BY DEF NewProject
<1>4. key \in [tenant : DOMAIN tenants \cup {next}, project : DOMAIN projects \cup {id}, shown : BOOLEAN]
  BY DEF Key
<1>5. next \in Nat /\ id \in Nat /\ id >= next /\ id = next + 1 BY <1>0 DEF TypeOK
<1> HIDE DEF owner, row, key, id
<1>6. /\ DOMAIN projects' = DOMAIN projects \cup {id} /\ projects'[id] = row
      /\ \A p \in DOMAIN projects : projects'[p] = projects[p]
      /\ \A t : ProjectsOf(t)' = IF t = next THEN ProjectsOf(t) \cup {id} ELSE ProjectsOf(t)
  <2>1. id \notin DOMAIN projects BY <1>0, <1>5, TenantIs
  <2>2. /\ DOMAIN projects' = DOMAIN projects \cup {id} /\ projects'[id] = row
        /\ \A p \in DOMAIN projects : projects'[p] = projects[p]
    BY <1>1, <2>1 DEF Insert
  <2>3. \A t : ProjectsOf(t)' = IF t = next THEN ProjectsOf(t) \cup {id} ELSE ProjectsOf(t)
    BY <1>3, <2>1, <2>2 DEF ProjectsOf
  <2> QED BY <2>1, <2>2, <2>3
<1>7. /\ DOMAIN tenants' = DOMAIN tenants \cup {next} /\ tenants'[next] = owner /\ next \notin DOMAIN tenants
      /\ \A t \in DOMAIN tenants : tenants'[t] = tenants[t]
  <2>1. next \notin DOMAIN tenants BY <1>0, TenantIs
  <2> QED BY <1>1, <2>1 DEF Insert
<1>8. req'[c] = Done /\ (\A d \in Requests \ {c} : req'[d] = req[d]) /\ req' \in [Requests -> ReqType]
  BY <1>0, <1>1, DoneIs, BecomeMoves, BecomeType
<1>9. TypeOK'
  <2>1. \A p \in DOMAIN projects' : projects'[p] \in
          [tenant : DOMAIN tenants', page : {"none", "unseen", "seen", "removed"},
           checks : {"none", "running", "paused"}]
    BY <1>0, <1>3, <1>6, <1>7 DEF TypeOK
  <2>2. keys' \subseteq [tenant : DOMAIN tenants', project : DOMAIN projects', shown : BOOLEAN]
    BY <1>0, <1>1, <1>4, <1>6, <1>7 DEF TypeOK
  <2>3. \A t \in DOMAIN tenants' : t \in Nat /\ tenants'[t] \in
          [owner : People \cup {Nobody}, hash : {"none", "secret", "told"}, age : 0..2]
    BY <1>0, <1>2, <1>5, <1>7 DEF TypeOK
  <2>4. next' \in Nat BY <1>1, <1>5
  <2> QED BY <1>0, <1>1, <1>8, <2>1, <2>2, <2>3, <2>4 DEF TypeOK, ReqType
<1>10. Numbered' BY <1>0, <1>1, <1>5, <1>6, <1>7, <1>8, DoneIs DEF Numbered, Ids, TypeOK, None
<1>11. OwnersStay BY <1>5, <1>7 DEF OwnersStay
<1>12. ProjectsOf(next) = {} BY <1>0, TenantIs DEF ProjectsOf
<1>13. \A t \in DOMAIN tenants' : IF t = next THEN ProjectsOf(t)' = {id} ELSE ProjectsOf(t)' = ProjectsOf(t)
  BY <1>6, <1>7, <1>12
<1>14. Marked' BY <1>2, <1>7, <1>13 DEF IInv, Marked, Ownerless
<1>15. WithinPlan' BY <1>2, <1>7, <1>9, <1>13, PlanFrame, OwnershipAssumption
<1>16. ClaimedOnce' /\ WonIsGone' BY <1>1, <1>11, WonFrame
<1>17. ASSUME NEW d \in Requests \ {c} PROVE Undisturbed(d)
  <2>1. InHand(d) /\ req'[d] = req[d] /\ req[d].own # next /\ req[d].t # next
    BY <1>0, <1>8, <1>17 DEF IInv, Numbered, TypeOK
  <2>2. \A p : LoggedBefore(p)' <=> LoggedBefore(p) BY <1>1 DEF LoggedBefore
  <2>3. \A p \in req[d].drop : p # id BY <1>0, <1>5 DEF Numbered, Ids
  <2>5. Minting(d) => /\ req[d].t \in DOMAIN tenants \ reaping
                      /\ req[d].pc = "placed" => req[d].p \in DOMAIN projects
    BY <2>1 DEF InHand, MintIsAlone, ProjectsOf
  <2> QED BY <1>1, <1>6, <1>7, <2>1, <2>2, <2>3, <2>5 DEF Undisturbed
<1> QED BY <1>0, <1>8, <1>9, <1>10, <1>11, <1>14, <1>15, <1>16, <1>17, DoneAnswers, TableStep

\* A delete: the project gets an ownerless tenant of its own, and the last one takes the
\* workspace with it.
LEMMA DeleteCommitsStep ==
  ASSUME IInv, NEW c \in Deletes, DeleteCommits(c)
  PROVE  /\ IInv'
         /\ \A q \in DOMAIN projects \ DOMAIN projects' : projects[q].tenant \notin DOMAIN tenants'
<1>0. c \in Requests /\ TypeOK /\ Numbered /\ Handed(req[c]) BY HandedIs DEF Requests, IInv
<1> DEFINE p == req[c].p
           own == req[c].own
           closed == IF req[c].last THEN {own} ELSE {}
           lost == (UNION {ProjectsOf(t) : t \in closed}) \ {p}
           row == NewTenant(Nobody, "secret")
           freed == [projects[p] EXCEPT !.tenant = next, !.checks = IF @ = "running" THEN "paused" ELSE @]
           left == [t \in DOMAIN tenants \ closed |-> tenants[t]]
<1>1. /\ req[c].pc = "released" /\ (\A t \in closed : TenantFree(c, t)) /\ (\A q \in lost : ProjectFree(c, q))
      /\ projects' = [q \in DOMAIN projects \ lost |-> IF q # p THEN projects[q] ELSE freed]
      /\ tenants' = IF p = None THEN left ELSE Insert(left, next, row)
      /\ keys' = {k \in KeysWithout(lost \cup {p}) : k.tenant \notin closed}
      /\ next' = next + 1 /\ Become(c, Done) /\ UNCHANGED <<rows, reaping, won>>
  BY DEF DeleteCommits
<1>2. /\ row \in [owner : People \cup {Nobody}, hash : {"none", "secret", "told"}, age : 0..2]
      /\ row.owner = Nobody
  BY DEF NewTenant
<1>3. p \in DOMAIN projects =>
        /\ freed \in [tenant : {next}, page : {"none", "unseen", "seen", "removed"}, checks : {"none", "running", "paused"}]
        /\ freed.tenant = next
  <2> SUFFICES ASSUME p \in DOMAIN projects
               PROVE  /\ freed \in [tenant : {next}, page : {"none", "unseen", "seen", "removed"},
                                    checks : {"none", "running", "paused"}]
                      /\ freed.tenant = next
    OBVIOUS
  <2> DEFINE project == projects[p]
             checks == IF project.checks = "running" THEN "paused" ELSE project.checks
  <2>1. project \in [tenant : DOMAIN tenants, page : {"none", "unseen", "seen", "removed"},
                     checks : {"none", "running", "paused"}]
    BY <1>0 DEF TypeOK
  <2>2. checks \in {"none", "running", "paused"} BY <2>1
  <2>3. freed = [project EXCEPT !.tenant = next, !.checks = checks] BY <2>1
  <2> HIDE DEF freed, checks, project
  <2> QED BY <2>1, <2>2, <2>3
<1>4. \A q \in DOMAIN projects : q \in lost <=> (projects[q].tenant \in closed /\ q # p)
  <2>1. CASE req[c].last
    BY <2>1 DEF ProjectsOf
  <2>2. CASE ~req[c].last
    BY <2>2 DEF ProjectsOf
  <2> QED BY <2>1, <2>2
<1>5. \A t \in closed : t \in DOMAIN tenants => ~Ownerless(t) BY <1>0 DEF IInv, InHand, OwnIsOwned
<1>6. \A q \in lost : q \in DOMAIN projects BY DEF ProjectsOf
<1> HIDE DEF row, freed, lost, closed
<1>7. next \notin DOMAIN tenants /\ next \in Nat /\ next' = next + 1 BY <1>0, <1>1, TenantIs
<1>8. /\ DOMAIN tenants' = (DOMAIN tenants \ closed) \cup (IF p = None THEN {} ELSE {next})
      /\ (p # None => tenants'[next] = row)
      /\ \A t \in DOMAIN tenants \ closed : tenants'[t] = tenants[t]
  BY <1>1, <1>7 DEF Insert
<1>9. /\ DOMAIN projects' = DOMAIN projects \ lost
      /\ \A q \in DOMAIN projects' : projects'[q] = IF q # p THEN projects[q] ELSE freed
  BY <1>1
<1>10. \A q \in DOMAIN projects : q = p => p # None BY <1>0, TenantIs DEF None, Numbered
<1>11. req'[c] = Done /\ (\A d \in Requests \ {c} : req'[d] = req[d]) /\ req' \in [Requests -> ReqType]
  BY <1>0, <1>1, DoneIs, BecomeMoves, BecomeType
<1>12. TypeOK'
  <2>1. \A q \in DOMAIN projects' : projects'[q] \in
          [tenant : DOMAIN tenants', page : {"none", "unseen", "seen", "removed"},
           checks : {"none", "running", "paused"}]
    <3> SUFFICES ASSUME NEW q \in DOMAIN projects'
                 PROVE  projects'[q] \in [tenant : DOMAIN tenants', page : {"none", "unseen", "seen", "removed"},
                                          checks : {"none", "running", "paused"}]
      OBVIOUS
    <3>1. CASE q = p
      BY <1>3, <1>8, <1>9, <1>10, <3>1
    <3>2. CASE q # p
      <4>1. projects[q].tenant \in DOMAIN tenants' BY <1>0, <1>4, <1>8, <1>9, <3>2, TenantIs
      <4> QED BY <1>0, <1>9, <3>2, <4>1 DEF TypeOK
    <3> QED BY <3>1, <3>2
  <2>2. keys' \subseteq [tenant : DOMAIN tenants', project : DOMAIN projects', shown : BOOLEAN]
    BY <1>0, <1>1, <1>8, <1>9 DEF TypeOK, KeysWithout
  <2>3. \A t \in DOMAIN tenants' : t \in Nat /\ tenants'[t] \in
          [owner : People \cup {Nobody}, hash : {"none", "secret", "told"}, age : 0..2]
    BY <1>0, <1>2, <1>7, <1>8 DEF TypeOK
  <2>4. next' \in Nat BY <1>7
  <2> QED BY <1>0, <1>1, <1>11, <2>1, <2>2, <2>3, <2>4 DEF TypeOK, ReqType
<1>13. Numbered'
  <2>0. Ids \subseteq Ids' /\ next \in Ids' /\ next' > 0 BY <1>0, <1>7 DEF Numbered, Ids
  <2>1. DOMAIN tenants' \subseteq Ids' /\ DOMAIN projects' \subseteq Ids' /\ reaping' \subseteq Ids'
    BY <1>0, <1>1, <1>8, <1>9, <2>0 DEF Numbered
  <2>2. \A d \in Claims : won'[d] < next' BY <1>0, <1>1, <1>7 DEF Numbered, TypeOK
  <2>3. \A d \in Requests : req'[d].own < next' /\ req'[d].t < next' /\ req'[d].p < next' /\ req'[d].drop \subseteq Ids'
    BY <1>0, <1>7, <1>11, DoneIs DEF Numbered, Ids, TypeOK, None
  <2> QED BY <2>0, <2>1, <2>2, <2>3 DEF Numbered
<1>14. OwnersStay BY <1>7, <1>8 DEF OwnersStay
<1>15. /\ \A t \in DOMAIN tenants \ closed : ProjectsOf(t)' = ProjectsOf(t) \ {p}
       /\ \A t : t # next => ProjectsOf(t)' \subseteq ProjectsOf(t)
       /\ \A q \in DOMAIN projects' : projects'[q].tenant = next => q = p
  <2>1. \A q \in DOMAIN projects' : IF q = p THEN projects'[q].tenant = next ELSE projects'[q] = projects[q]
    BY <1>3, <1>9
  <2>2. \A q \in DOMAIN projects : projects[q].tenant # next BY <1>0, TenantIs
  <2>3. ASSUME NEW t \in DOMAIN tenants \ closed PROVE ProjectsOf(t)' = ProjectsOf(t) \ {p}
    <3>1. t # next BY <1>7
    <3>2. \A q \in DOMAIN projects' : projects'[q].tenant = t => q # p /\ projects[q].tenant = t BY <2>1, <3>1
    <3>3. \A q \in DOMAIN projects : projects[q].tenant = t /\ q # p => q \in DOMAIN projects' BY <1>4, <1>9
    <3> QED BY <1>9, <2>1, <3>2, <3>3 DEF ProjectsOf
  <2>4. ASSUME NEW t, t # next PROVE ProjectsOf(t)' \subseteq ProjectsOf(t)
    BY <1>9, <2>1, <2>4 DEF ProjectsOf
  <2>5. ASSUME NEW q \in DOMAIN projects', projects'[q].tenant = next PROVE q = p
    BY <1>9, <2>1, <2>2, <2>5
  <2> QED BY <2>3, <2>4, <2>5
<1>16. Marked'
  <2> SUFFICES ASSUME NEW t \in DOMAIN tenants'
               PROVE  /\ tenants'[t].hash # "none" => tenants'[t].owner = Nobody
                      /\ tenants'[t].owner = Nobody => \A q, r \in ProjectsOf(t)' : q = r
    BY DEF Marked, Ownerless
  <2>1. CASE t = next
    <3>1. tenants'[t].owner = Nobody BY <1>2, <1>7, <1>8, <2>1
    <3>2. \A q \in {r \in DOMAIN projects' : projects'[r].tenant = t} : q = p BY <1>15, <2>1
    <3> QED BY <3>1, <3>2 DEF ProjectsOf
  <2>2. CASE t # next
    <3>1. t \in DOMAIN tenants /\ tenants'[t] = tenants[t] /\ ProjectsOf(t)' \subseteq ProjectsOf(t)
      BY <1>8, <1>15, <2>2
    <3> QED BY <3>1 DEF IInv, Marked, Ownerless
  <2> QED BY <2>1, <2>2
<1>17. WithinPlan'
  <2>1. ASSUME NEW t \in DOMAIN tenants', tenants'[t].owner \in People
        PROVE  t \in DOMAIN tenants /\ tenants'[t].owner = tenants[t].owner /\ ProjectsOf(t)' \subseteq ProjectsOf(t)
    <3>1. t # next BY <1>2, <1>7, <1>8, <2>1, OwnershipAssumption
    <3> QED BY <1>8, <1>15, <3>1
  <2> QED BY <1>12, <2>1, PlanFrame
<1>18. ClaimedOnce' /\ WonIsGone' BY <1>1, <1>14, WonFrame
<1>19. ASSUME NEW d \in Requests \ {c} PROVE Undisturbed(d)
  <2>1. InHand(d) /\ req'[d] = req[d] /\ Apart(c, d) /\ Apart(d, c) BY <1>0, <1>11, <1>19 DEF IInv
  <2>2. \A q : LoggedBefore(q)' <=> LoggedBefore(q) BY <1>1 DEF LoggedBefore
  <2>3. \A t \in Locked(d) : t \notin closed BY <1>1, <1>19 DEF TenantFree
  <2>5. req[d].own # next BY <1>0, <1>7 DEF Numbered, TypeOK
  <2>4. ASSUME NEW q \in req[d].drop \cap DOMAIN projects'
        PROVE  /\ req[d].pc = "walled" => projects'[q].tenant = projects[q].tenant
               /\ projects'[q].tenant = req[d].own => projects'[q] = projects[q]
    <3>1. req[d].pc = "walled" => q # p BY <1>1, <2>1, <2>4 DEF Apart, LockedProjects
    <3>2. q = p => projects'[q].tenant = next BY <1>3, <1>9, <2>4
    <3> QED BY <1>9, <2>4, <2>5, <3>1, <3>2
  <2>6. ASSUME Minting(d)
        PROVE  /\ req[d].t \in DOMAIN tenants' \ reaping' /\ tenants'[req[d].t] = tenants[req[d].t]
               /\ ProjectsOf(req[d].t)' = ProjectsOf(req[d].t)
               /\ req[d].pc = "placed" => projects'[req[d].p].page = projects[req[d].p].page
    <3>1. /\ req[d].t \in DOMAIN tenants \ reaping /\ Ownerless(req[d].t)
          /\ ProjectsOf(req[d].t) = IF req[d].pc = "placed" THEN {req[d].p} ELSE {}
      BY <2>1, <2>6 DEF InHand, MintIsAlone, Ownerless, NewTenant
    <3>2. req[d].pc = "placed" => req[d].p # p BY <1>1, <2>1, <2>6 DEF Apart
    <3>3. req[d].t \notin closed BY <1>5, <3>1
    <3>4. {q \in DOMAIN projects' : projects'[q].tenant = req[d].t} = ProjectsOf(req[d].t)
      <4>1. \A t \in DOMAIN tenants \ closed : {q \in DOMAIN projects' : projects'[q].tenant = t} = ProjectsOf(t) \ {p}
        BY <1>15 DEF ProjectsOf
      <4> QED BY <3>1, <3>2, <3>3, <4>1
    <3>5. req[d].pc = "placed" => projects'[req[d].p] = projects[req[d].p]
      BY <1>9, <3>1, <3>2, <3>4 DEF ProjectsOf
    <3>6. req[d].t \in DOMAIN tenants' /\ tenants'[req[d].t] = tenants[req[d].t] BY <1>8, <3>1, <3>3
    <3>7. reaping' = reaping BY <1>1
    <3>8. ProjectsOf(req[d].t)' = ProjectsOf(req[d].t) BY <2>1, <3>4 DEF ProjectsOf
    <3> QED BY <3>1, <3>5, <3>6, <3>7, <3>8
  <2>7. {q \in DOMAIN projects' : projects'[q].tenant = req[d].own} \subseteq ProjectsOf(req[d].own)
    BY <1>15, <2>5 DEF ProjectsOf
  <2>8. ProjectsOf(req[d].own)' \subseteq ProjectsOf(req[d].own) BY <2>1, <2>7 DEF ProjectsOf
  <2> QED BY <1>8, <1>9, <2>2, <2>3, <2>4, <2>6, <2>8 DEF Undisturbed
<1>20. InHand(c)' /\ \A e \in Requests \ {c} : Apart(c, e)' /\ Apart(e, c)'
  BY <1>0, <1>11, <1>12, <1>13, DoneAnswers
<1>21. IInv' BY <1>11, <1>12, <1>13, <1>14, <1>16, <1>17, <1>18, <1>19, <1>20, TableStep
<1>22. ASSUME NEW q \in DOMAIN projects \ DOMAIN projects' PROVE projects[q].tenant \notin DOMAIN tenants'
  BY <1>0, <1>4, <1>7, <1>8, <1>9, <1>22, TenantIs
<1> QED BY <1>21, <1>22

\* The reaper's cascade: it waited for every lock on what it deletes.
LEMMA ReapDeletesStep ==
  ASSUME IInv, ReapDeletes
  PROVE  /\ IInv'
         /\ \A p \in DOMAIN projects \ DOMAIN projects' : Ownerless(projects[p].tenant)
<1>0. TypeOK /\ Numbered BY DEF IInv
<1> DEFINE dead == {t \in reaping : Claimable(t)}
           lost == UNION {ProjectsOf(t) : t \in dead}
<1>1. /\ \A d \in Requests : Locked(d) \cap reaping = {} /\ LockedProjects(d) \cap lost = {}
      /\ tenants' = [t \in DOMAIN tenants \ dead |-> tenants[t]] /\ projects' = Without(lost)
      /\ keys' = {k \in KeysWithout(lost) : k.tenant \notin dead} /\ reaping' = {}
      /\ UNCHANGED <<rows, req, won, next>>
  BY DEF ReapDeletes
<1>2. \A p \in DOMAIN projects : p \in lost <=> projects[p].tenant \in dead BY DEF ProjectsOf
<1>3. \A t \in dead : t \in reaping /\ t \in DOMAIN tenants /\ Ownerless(t) BY DEF Claimable, IInv, Marked
<1> HIDE DEF dead, lost
<1>4. DOMAIN tenants' = DOMAIN tenants \ dead /\ \A t \in DOMAIN tenants' : tenants'[t] = tenants[t]
  BY <1>1
<1>5. DOMAIN projects' = DOMAIN projects \ lost /\ \A p \in DOMAIN projects' : projects'[p] = projects[p]
  BY <1>1 DEF Without
<1>6. TypeOK'
  <2>1. \A p \in DOMAIN projects' : projects[p].tenant \in DOMAIN tenants' BY <1>0, <1>2, <1>4, <1>5, TenantIs
  <2>2. \A p \in DOMAIN projects' : projects'[p] \in
          [tenant : DOMAIN tenants', page : {"none", "unseen", "seen", "removed"},
           checks : {"none", "running", "paused"}]
    BY <1>0, <1>5, <2>1 DEF TypeOK
  <2>3. keys' \subseteq [tenant : DOMAIN tenants', project : DOMAIN projects', shown : BOOLEAN]
    BY <1>0, <1>1, <1>4, <1>5 DEF TypeOK, KeysWithout
  <2> QED BY <1>0, <1>1, <1>4, <2>2, <2>3 DEF TypeOK
<1>7. Numbered' BY <1>0, <1>1, <1>4, <1>5 DEF Numbered, Ids
<1>8. OwnersStay BY <1>4 DEF OwnersStay
<1>9. /\ \A t \in DOMAIN tenants' : ProjectsOf(t)' = ProjectsOf(t)
      /\ \A t : ProjectsOf(t)' \subseteq ProjectsOf(t)
  BY <1>2, <1>4, <1>5 DEF ProjectsOf
<1>10. Marked' BY <1>4, <1>9 DEF IInv, Marked, Ownerless
<1>11. WithinPlan' BY <1>4, <1>6, <1>9, PlanFrame
<1>12. ClaimedOnce' /\ WonIsGone' BY <1>1, <1>8, WonFrame
<1>13. ASSUME NEW d \in Requests PROVE Undisturbed(d)
  <2>1. InHand(d) /\ req' = req BY <1>1 DEF IInv
  <2>2. \A p : LoggedBefore(p)' <=> LoggedBefore(p) BY <1>1 DEF LoggedBefore
  <2>3. \A t \in Locked(d) : t \notin dead BY <1>1, <1>3
  <2>4. Minting(d) => /\ req[d].t \in DOMAIN tenants'
                      /\ req[d].pc = "placed" => req[d].p \in ProjectsOf(req[d].t)
    BY <1>3, <1>4, <2>1 DEF InHand, MintIsAlone
  <2>5. ProjectsOf(req[d].own)' \subseteq ProjectsOf(req[d].own) BY <1>9, <2>1 DEF ProjectsOf
  <2>6. Minting(d) => ProjectsOf(req[d].t)' = ProjectsOf(req[d].t)
    <3>1. \A t \in DOMAIN tenants' : {p \in DOMAIN projects' : projects'[p].tenant = t} = ProjectsOf(t)
      BY <1>9 DEF ProjectsOf
    <3> QED BY <2>1, <2>4, <3>1 DEF ProjectsOf
  <2>7. Minting(d) => (req[d].pc = "placed" => projects'[req[d].p] = projects[req[d].p])
    BY <1>5, <2>1, <2>4, <2>6 DEF ProjectsOf
  <2> QED BY <1>1, <1>4, <1>5, <2>2, <2>3, <2>4, <2>5, <2>6, <2>7 DEF Undisturbed
<1>14. IInv' BY <1>1, <1>6, <1>7, <1>8, <1>10, <1>11, <1>12, <1>13, TableStep
<1>15. ASSUME NEW p \in DOMAIN projects \ DOMAIN projects' PROVE Ownerless(projects[p].tenant)
  BY <1>2, <1>3, <1>5, <1>15
<1> QED BY <1>14, <1>15

\* A claim answered: the ownerless tenant's one project joins a workspace that has room
\* for it, and what the claim takes away is a placeholder that had not been used.
LEMMA AdoptsStep ==
  ASSUME IInv, NEW c \in Claims, Adopts(c)
  PROVE  /\ IInv'
         /\ \A p \in DOMAIN projects \ DOMAIN projects' : ~LoggedBefore(p) /\ projects[p].checks = "none"
<1>0. c \in Requests /\ TypeOK /\ Numbered /\ Handed(req[c]) BY HandedIs DEF Requests, IInv
<1>1. CASE req[c].own \notin DOMAIN tenants
  <2>1. Refuse(c) /\ UNCHANGED reaping BY <1>1 DEF Adopts
  <2> QED BY <1>0, <2>1, RefuseStep DEF Refuse
<1>2. CASE req[c].own \in DOMAIN tenants
  <2> DEFINE own == req[c].own
             t == req[c].t
             drop == req[c].drop
             Moved(r) == Moves(r, t, own)
  <2>1. /\ req[c].pc = "walled" /\ \A p \in ProjectsOf(t) : ProjectFree(c, p)
        /\ projects' = [p \in DOMAIN projects \ drop |-> Moved(projects[p])]
        /\ keys' = {Moved(k) : k \in KeysWithout(drop)} /\ rows' = {Moved(r) : r \in rows}
        /\ tenants' = [u \in DOMAIN tenants \ {t} |-> tenants[u]]
        /\ won' = [won EXCEPT ![c] = t] /\ Become(c, Done) /\ UNCHANGED <<next, reaping>>
    BY <1>2 DEF Adopts
  <2>2. InHand(c) BY <1>0 DEF IInv
  <2>3. /\ t \in DOMAIN tenants /\ Ownerless(t) /\ ~Ownerless(own) /\ own # t
        /\ own \in DOMAIN tenants /\ tenants[own].owner \in People
    BY <1>0, <1>2, <2>1, <2>2, TenantIs DEF InHand, TakesClaimable, Claimable, OwnIsOwned, IInv, Marked, Ownerless
  <2>4. \A p \in drop \cap DOMAIN projects : projects[p].tenant = own /\ projects[p].checks = "none" /\ ~LoggedBefore(p)
    BY <2>1, <2>2 DEF InHand, DropIsUnused
  <2>5. Cardinality(ProjectsOf(own) \ drop) < Plan[tenants[own].owner]
    BY <1>2, <2>1, <2>2 DEF InHand, HasRoom
  <2>6. \A p, q \in ProjectsOf(t) : p = q BY <2>3 DEF IInv, Marked
  <2>7. /\ DOMAIN projects' = DOMAIN projects \ drop
        /\ \A p \in DOMAIN projects' :
             /\ projects[p].tenant = t => projects'[p] = [projects[p] EXCEPT !.tenant = own]
             /\ projects[p].tenant # t => projects'[p] = projects[p]
    BY <2>1 DEF Moves
  <2>8. \A p \in DOMAIN projects' :
          /\ projects'[p].tenant = IF projects[p].tenant = t THEN own ELSE projects[p].tenant
          /\ projects'[p].page = projects[p].page /\ projects'[p].checks = projects[p].checks
    <3> SUFFICES ASSUME NEW p \in DOMAIN projects'
                 PROVE  /\ projects'[p].tenant = IF projects[p].tenant = t THEN own ELSE projects[p].tenant
                        /\ projects'[p].page = projects[p].page /\ projects'[p].checks = projects[p].checks
      OBVIOUS
    <3>1. projects[p] \in [tenant : DOMAIN tenants, page : {"none", "unseen", "seen", "removed"},
                           checks : {"none", "running", "paused"}]
      BY <1>0, <2>7 DEF TypeOK
    <3>2. CASE projects[p].tenant = t
      BY <2>7, <3>1, <3>2
    <3>3. CASE projects[p].tenant # t
      BY <2>7, <3>3
    <3> QED BY <3>2, <3>3
  <2>9. DOMAIN tenants' = DOMAIN tenants \ {t} /\ \A u \in DOMAIN tenants' : tenants'[u] = tenants[u] BY <2>1
  <2>10. \A p : LoggedBefore(p)' => LoggedBefore(p)
    <3>1. \A r \in rows : Moved(r).project = r.project /\ Moved(r).door = r.door
      BY <1>0 DEF TypeOK, Moves
    <3> HIDE DEF Moved
    <3> QED BY <2>1, <3>1 DEF LoggedBefore
  <2>11. req'[c] = Done /\ (\A d \in Requests \ {c} : req'[d] = req[d]) /\ req' \in [Requests -> ReqType]
    BY <1>0, <2>1, DoneIs, BecomeMoves, BecomeType
  <2>12. TypeOK'
    <3>1. \A p \in DOMAIN projects' : projects'[p] \in
            [tenant : DOMAIN tenants', page : {"none", "unseen", "seen", "removed"},
             checks : {"none", "running", "paused"}]
      <4> SUFFICES ASSUME NEW p \in DOMAIN projects'
                   PROVE  projects'[p] \in [tenant : DOMAIN tenants', page : {"none", "unseen", "seen", "removed"},
                                            checks : {"none", "running", "paused"}]
        OBVIOUS
      <4>1. projects[p] \in [tenant : DOMAIN tenants, page : {"none", "unseen", "seen", "removed"},
                             checks : {"none", "running", "paused"}]
        BY <1>0, <2>7 DEF TypeOK
      <4>2. CASE projects[p].tenant = t
        <5>1. projects'[p] = [projects[p] EXCEPT !.tenant = own] BY <2>7, <4>2
        <5>2. own \in DOMAIN tenants' BY <2>3, <2>9
        <5> QED BY <4>1, <5>1, <5>2
      <4>3. CASE projects[p].tenant # t
        <5>1. projects'[p] = projects[p] BY <2>7, <4>3
        <5>2. projects[p].tenant \in DOMAIN tenants' BY <2>9, <4>1, <4>3
        <5> QED BY <4>1, <5>1, <5>2
      <4> QED BY <4>2, <4>3
    <3>2. keys' \subseteq [tenant : DOMAIN tenants', project : DOMAIN projects', shown : BOOLEAN]
      <4>1. ASSUME NEW k \in KeysWithout(drop)
            PROVE  Moved(k) \in [tenant : DOMAIN tenants', project : DOMAIN projects', shown : BOOLEAN]
        <5>1. k \in [tenant : DOMAIN tenants, project : DOMAIN projects, shown : BOOLEAN] /\ k.project \notin drop
          BY <1>0 DEF TypeOK, KeysWithout
        <5>2. k.project \in DOMAIN projects' BY <2>7, <5>1
        <5>3. CASE k.tenant = t
          <6>1. Moved(k) = [k EXCEPT !.tenant = own] BY <5>3 DEF Moves
          <6>2. own \in DOMAIN tenants' BY <2>3, <2>9
          <6> HIDE DEF Moved
          <6> QED BY <5>1, <5>2, <6>1, <6>2
        <5>4. CASE k.tenant # t
          <6>1. Moved(k) = k BY <5>4 DEF Moves
          <6>2. k.tenant \in DOMAIN tenants' BY <2>9, <5>1, <5>4
          <6> HIDE DEF Moved
          <6> QED BY <5>1, <5>2, <6>1, <6>2
        <5> QED BY <5>3, <5>4
      <4> HIDE DEF Moved
      <4> QED BY <2>1, <4>1
    <3>3. rows' \subseteq [tenant : Nat, project : Nat, door : {"log", "late", "web"}]
      <4>1. \A r \in rows : Moved(r) \in [tenant : Nat, project : Nat, door : {"log", "late", "web"}]
        BY <1>0, <2>3 DEF TypeOK, Moves
      <4> HIDE DEF Moved
      <4> QED BY <2>1, <4>1
    <3>4. won' \in [Claims -> Nat] BY <1>0, <2>1, <2>3 DEF TypeOK
    <3> QED BY <1>0, <2>1, <2>9, <2>11, <3>1, <3>2, <3>3, <3>4 DEF TypeOK, ReqType
  <2>13. \A d \in Claims : won'[d] = IF d = c THEN t ELSE won[d] BY <1>0, <2>1 DEF TypeOK
  <2>14. Numbered'
    BY <1>0, <2>1, <2>3, <2>7, <2>9, <2>11, <2>13, DoneIs, TenantIs DEF Numbered, Ids, None
  <2>15. OwnersStay BY <2>9 DEF OwnersStay
  <2>16. /\ \A u \in DOMAIN tenants \ {own, t} : ProjectsOf(u)' = ProjectsOf(u)
         /\ \A u : u # own => ProjectsOf(u)' \subseteq ProjectsOf(u)
         /\ {p \in DOMAIN projects' : projects'[p].tenant = own} = (ProjectsOf(own) \ drop) \cup ProjectsOf(t)
    BY <2>3, <2>4, <2>7, <2>8 DEF ProjectsOf
  <2>17. Marked'
    <3> SUFFICES ASSUME NEW u \in DOMAIN tenants'
                 PROVE  /\ tenants'[u].hash # "none" => tenants'[u].owner = Nobody
                        /\ tenants'[u].owner = Nobody => \A p, q \in ProjectsOf(u)' : p = q
      BY DEF Marked, Ownerless
    <3>1. u \in DOMAIN tenants /\ tenants'[u] = tenants[u] BY <2>9
    <3>2. tenants[u].owner = Nobody => u # own BY <2>3 DEF Ownerless
    <3>3. u # own => ProjectsOf(u)' \subseteq ProjectsOf(u) BY <2>16
    <3> QED BY <3>1, <3>2, <3>3 DEF IInv, Marked, Ownerless
  <2>18. WithinPlan'
    <3>1. Cardinality((ProjectsOf(own) \ drop) \cup ProjectsOf(t)) <= Plan[tenants[own].owner]
      <4>1. IsFiniteSet(ProjectsOf(own) \ drop) /\ Cardinality(ProjectsOf(own) \ drop) \in Nat
        BY <1>0, Fewer
      <4>2. Plan[tenants[own].owner] \in Nat BY <2>3, OwnershipAssumption
      <4>3. CASE ProjectsOf(t) = {}
        <5>1. (ProjectsOf(own) \ drop) \cup ProjectsOf(t) = ProjectsOf(own) \ drop BY <4>3
        <5> QED BY <2>5, <4>1, <4>2, <5>1
      <4>4. CASE ProjectsOf(t) # {}
        <5>1. PICK p : p \in ProjectsOf(t) BY <4>4
        <5>2. (ProjectsOf(own) \ drop) \cup ProjectsOf(t) = (ProjectsOf(own) \ drop) \cup {p} BY <2>6, <5>1
        <5> DEFINE rest == ProjectsOf(own) \ drop
        <5>3. IsFiniteSet(rest) /\ Cardinality(rest) \in Nat /\ Cardinality(rest) < Plan[tenants[own].owner]
          BY <2>5, <4>1
        <5> HIDE DEF rest
        <5>4. Cardinality(rest \cup {p}) = IF p \in rest THEN Cardinality(rest) ELSE Cardinality(rest) + 1
          BY <5>3, FS_AddElement
        <5>5. Cardinality(rest \cup {p}) <= Plan[tenants[own].owner] BY <4>2, <5>3, <5>4
        <5> QED BY <5>2, <5>5 DEF rest
      <4> QED BY <4>3, <4>4
    <3>2. ASSUME NEW u \in DOMAIN tenants', u = own PROVE Cardinality(ProjectsOf(u)') <= Plan[tenants'[u].owner]
      <4>1. ProjectsOf(u)' = (ProjectsOf(own) \ drop) \cup ProjectsOf(t) BY <2>16, <3>2 DEF ProjectsOf
      <4> QED BY <2>9, <3>1, <3>2, <4>1
    <3>3. ASSUME NEW u \in DOMAIN tenants', u # own
          PROVE  u \in DOMAIN tenants /\ tenants'[u].owner = tenants[u].owner /\ ProjectsOf(u)' \subseteq ProjectsOf(u)
      BY <2>9, <2>16, <3>3
    <3> QED BY <2>12, <3>2, <3>3, PlanFrame
  <2>19. ClaimedOnce' /\ WonIsGone'
    BY <2>3, <2>9, <2>13 DEF IInv, ClaimedOnce, WonIsGone
  <2>20. ASSUME NEW d \in Requests \ {c} PROVE Undisturbed(d)
    <3>1. InHand(d) /\ req'[d] = req[d] /\ Apart(c, d) /\ Apart(d, c) BY <1>0, <2>11, <2>20 DEF IInv
    <3>2. t \notin Locked(d) /\ own \notin Locked(d) BY <2>1, <3>1 DEF Apart, Locked
    <3>3. ASSUME NEW p \in req[d].drop \cap DOMAIN projects', req[d].pc = "walled" PROVE projects[p].tenant # t
      <4>1. p \in LockedProjects(d) BY <3>3 DEF LockedProjects
      <4> QED BY <2>1, <2>7, <2>20, <3>3, <4>1 DEF ProjectFree, ProjectsOf
    <3>4. req[d].pc \in {"walled", "locked"} => ProjectsOf(req[d].own)' \subseteq ProjectsOf(req[d].own)
      <4>1. req[d].pc \in {"walled", "locked"} => req[d].own \in Locked(d) BY DEF Locked
      <4>2. req[d].own # own => {p \in DOMAIN projects' : projects'[p].tenant = req[d].own} \subseteq ProjectsOf(req[d].own)
        BY <2>16 DEF ProjectsOf
      <4> QED BY <3>1, <3>2, <4>1, <4>2 DEF ProjectsOf
    <3>5. ASSUME Minting(d)
          PROVE  /\ req[d].t \in DOMAIN tenants' \ reaping' /\ tenants'[req[d].t] = tenants[req[d].t]
                 /\ ProjectsOf(req[d].t)' = ProjectsOf(req[d].t)
                 /\ req[d].pc = "placed" => projects'[req[d].p].page = projects[req[d].p].page
      <4>1. /\ req[d].t \in DOMAIN tenants \ reaping /\ Ownerless(req[d].t)
            /\ req[d].pc = "placed" => req[d].p \in ProjectsOf(req[d].t)
        BY <3>1, <3>5 DEF InHand, MintIsAlone, Ownerless, NewTenant
      <4>2. req[d].t # t /\ req[d].t # own BY <2>1, <2>3, <3>1, <3>5, <4>1 DEF Apart
      <4>3. {p \in DOMAIN projects' : projects'[p].tenant = req[d].t} = ProjectsOf(req[d].t)
        BY <2>16, <4>1, <4>2 DEF ProjectsOf
      <4>4. req[d].pc = "placed" => projects'[req[d].p].page = projects[req[d].p].page
        BY <2>8, <4>1, <4>3 DEF ProjectsOf
      <4>5. req[d].t \in DOMAIN tenants' /\ tenants'[req[d].t] = tenants[req[d].t] BY <2>9, <4>1, <4>2
      <4>6. reaping' = reaping BY <2>1
      <4>7. ProjectsOf(req[d].t)' = ProjectsOf(req[d].t) BY <3>1, <4>3 DEF ProjectsOf
      <4> QED BY <4>1, <4>4, <4>5, <4>6, <4>7
    <3>7. req[d].drop # {} => req[d].own # own
      <4>1. req[d].drop # {} => req[d].own \in Locked(d) BY <3>1 DEF InHand, DropIsUnused, Locked
      <4> QED BY <3>2, <4>1
    <3>6. \A p \in req[d].drop \cap DOMAIN projects' :
            /\ p \in DOMAIN projects
            /\ req[d].pc = "walled" => projects'[p].tenant = projects[p].tenant
            /\ projects'[p].tenant = req[d].own => projects[p].tenant = req[d].own
            /\ projects[p].checks = "none" => projects'[p].checks = "none"
      BY <2>7, <2>8, <3>3, <3>7
    <3> QED BY <2>9, <2>10, <3>2, <3>4, <3>5, <3>6 DEF Undisturbed
  <2>21. InHand(c)' /\ \A e \in Requests \ {c} : Apart(c, e)' /\ Apart(e, c)'
    BY <1>0, <2>11, <2>12, <2>14, DoneAnswers
  <2>22. IInv' BY <2>11, <2>12, <2>14, <2>15, <2>17, <2>18, <2>19, <2>20, <2>21, TableStep
  <2>23. ASSUME NEW p \in DOMAIN projects \ DOMAIN projects' PROVE ~LoggedBefore(p) /\ projects[p].checks = "none"
    BY <2>4, <2>7, <2>23
  <2> QED BY <2>22, <2>23
<1> QED BY <1>1, <1>2

-----------------------------------------------------------------------------
(* The theorems.                                                             *)

LEMMA InitIInv == Init => IInv
<1> SUFFICES ASSUME Init PROVE IInv
  OBVIOUS
<1> DEFINE n == Cardinality(People)
           owners == SetToSeq(People)
           first == [t \in DOMAIN owners |-> NewTenant(owners[t], "none")]
<1>1. n \in Nat /\ owners \in [1..n -> People]
  <2>1. PICK f \in Bijection(1..Cardinality(People), People) : TRUE
    BY OwnershipAssumption, FS_CardinalityType DEF ExistsBijection
  <2>2. f \in [1..Cardinality(People) -> People] /\ IsInjective(f) BY <2>1 DEF Bijection, Injection, IsInjective
  <2> QED BY <2>2, OwnershipAssumption, FS_CardinalityType DEF SetToSeq
<1>2. /\ tenants = Insert(first, n + 1, NewTenant(Nobody, "told"))
      /\ projects = [t \in 1..(n + 1) |-> NewProject(t, "none", "none")]
      /\ keys = {Key(t, t, TRUE) : t \in DOMAIN projects} /\ rows = {} /\ reaping = {}
      /\ req = [c \in Requests |-> Idle] /\ won = [c \in Claims |-> None] /\ next = n + 2
  BY DEF Init
<1> HIDE DEF n, owners
<1>3. /\ DOMAIN tenants = 1..(n + 1)
      /\ \A t \in 1..(n + 1) :
           tenants[t] = IF t = n + 1 THEN NewTenant(Nobody, "told") ELSE NewTenant(owners[t], "none")
  BY <1>1, <1>2 DEF Insert
<1>4. \A t \in 1..(n + 1) : t # n + 1 => owners[t] \in People BY <1>1
<1> HIDE DEF first
<1>5. \A t \in 1..(n + 1) :
        /\ tenants[t] \in [owner : People \cup {Nobody}, hash : {"none", "secret", "told"}, age : 0..2]
        /\ tenants[t].hash # "none" => tenants[t].owner = Nobody
  BY <1>3, <1>4 DEF NewTenant
<1>6. /\ DOMAIN projects = 1..(n + 1)
      /\ \A p \in 1..(n + 1) :
           /\ projects[p] \in [tenant : 1..(n + 1), page : {"none", "unseen", "seen", "removed"},
                               checks : {"none", "running", "paused"}]
           /\ projects[p].tenant = p
  <2>1. ASSUME NEW p \in 1..(n + 1)
        PROVE  /\ NewProject(p, "none", "none") \in [tenant : 1..(n + 1), page : {"none", "unseen", "seen", "removed"},
                                                     checks : {"none", "running", "paused"}]
               /\ NewProject(p, "none", "none").tenant = p
    BY DEF NewProject
  <2> QED BY <1>2, <2>1
<1>7. /\ Idle \in ReqType /\ Idle.pc = "idle" /\ Idle.own = 0 /\ Idle.t = 0 /\ Idle.p = 0 /\ Idle.drop = {}
  BY DEF Idle, ReqType, None
<1>8. TypeOK
  <2>1. keys \subseteq [tenant : DOMAIN tenants, project : DOMAIN projects, shown : BOOLEAN]
    <3>1. ASSUME NEW t \in DOMAIN projects
          PROVE  Key(t, t, TRUE) \in [tenant : DOMAIN tenants, project : DOMAIN projects, shown : BOOLEAN]
      <4>1. t \in DOMAIN tenants BY <1>3, <1>6
      <4> QED BY <4>1 DEF Key
    <3> QED BY <1>2, <3>1
  <2>2. req \in [Requests -> ReqType] /\ won \in [Claims -> Nat] BY <1>2, <1>7 DEF None
  <2>3. rows \subseteq [tenant : Nat, project : Nat, door : {"log", "late", "web"}] /\ reaping \subseteq Nat /\ next \in Nat
    BY <1>1, <1>2
  <2>4. \A t \in DOMAIN tenants : t \in Nat BY <1>1, <1>3
  <2> QED BY <1>3, <1>5, <1>6, <2>1, <2>2, <2>3, <2>4 DEF TypeOK, ReqType
<1>9. Numbered
  <2>1. Ids = 1..(n + 1) /\ next > 0 BY <1>1, <1>2 DEF Ids
  <2>2. \A c \in Requests : req[c] = Idle BY <1>2
  <2>3. \A c \in Claims : won[c] = 0 BY <1>2 DEF None
  <2>4. DOMAIN tenants \subseteq Ids /\ DOMAIN projects \subseteq Ids /\ reaping \subseteq Ids BY <1>2, <1>3, <1>6, <2>1
  <2>5. \A c \in Claims : won[c] < next BY <2>1, <2>3
  <2>6. 0 < next BY <2>1
  <2>7. \A c \in Requests : req[c].own < next /\ req[c].t < next /\ req[c].p < next /\ req[c].drop \subseteq Ids
    BY <1>7, <2>2, <2>6
  <2> QED BY <2>1, <2>4, <2>5, <2>7 DEF Numbered
<1>10. \A t : ProjectsOf(t) = IF t \in 1..(n + 1) THEN {t} ELSE {} BY <1>6 DEF ProjectsOf
<1>11. Marked BY <1>3, <1>5, <1>10 DEF Marked, Ownerless
<1>12. WithinPlan
  <2> SUFFICES ASSUME NEW person \in People, NEW t \in DOMAIN tenants
               PROVE  Cardinality(ProjectsOf(t)) <= Plan[person]
    BY DEF WithinPlan, Workspaces
  <2>1. ProjectsOf(t) = {t} BY <1>3, <1>10
  <2>2. Cardinality({t}) = 1 BY FS_Singleton
  <2>3. Plan[person] \in Nat \ {0} BY OwnershipAssumption
  <2> QED BY <2>1, <2>2, <2>3
<1>13. ClaimedOnce /\ WonIsGone
  <2>1. \A c \in Claims : won[c] = 0 BY <1>2 DEF None
  <2> QED BY <1>3, <2>1 DEF ClaimedOnce, WonIsGone, None
<1>14. \A c \in Requests : req[c] = Idle BY <1>2
<1>15. ASSUME NEW c \in Requests PROVE InHand(c)
  <2>1. 0 \notin DOMAIN tenants BY <1>3
  <2> QED BY <1>7, <1>14, <2>1 DEF InHand, OwnIsOwned, TakesClaimable, DropIsUnused, HasRoom, MintIsAlone, Minting
<1>16. ASSUME NEW c \in Requests, NEW d \in Requests PROVE Apart(c, d)
  BY <1>7, <1>14 DEF Apart, Locked, LockedProjects, Minting
<1> QED BY <1>8, <1>9, <1>11, <1>12, <1>13, <1>15, <1>16 DEF IInv

LEMMA NextIInv == IInv /\ [Next]_vars => IInv'
<1> SUFFICES ASSUME IInv, [Next]_vars PROVE IInv'
  OBVIOUS
<1>1. ASSUME NEW c \in Claims, Locates(c) \/ Burns(c) \/ AbsorbScans(c) \/ Absorbs(c) \/ Adopts(c) PROVE IInv'
  BY <1>1, LocatesStep, BurnsStep, AbsorbScansStep, AbsorbsStep, AdoptsStep
<1>2. ASSUME NEW c \in Creates, Comes(c, None) \/ CreateLocks(c) \/ CreateCommits(c) PROVE IInv'
  BY <1>2, AsksStep, CreateLocksStep, CreateCommitsStep
<1>3. ASSUME NEW c \in Claims \cup Creates, Settles(c) PROVE IInv'
  BY <1>3, SettlesStep
<1>4. ASSUME NEW c \in Deletes, DeleteReads(c) \/ Releases(c) \/ DeleteCommits(c) PROVE IInv'
  BY <1>4, DeleteReadsStep, ReleasesStep, DeleteCommitsStep
<1>5. ASSUME NEW c \in Issues, Resolves(c) \/ Issued(c) PROVE IInv'
  BY <1>5, ResolvesStep, IssuedStep
<1>6. ASSUME NEW c \in Batches, Accepts(c) \/ Flushes(c) PROVE IInv'
  BY <1>6, ResolvesStep, FlushesStep
<1>7. ASSUME NEW c \in Mints, MintsTenant(c) \/ MintsHash(c) \/ MintsProject(c) \/ MintsKey(c) PROVE IInv'
  BY <1>7, MintsTenantStep, MintsHashStep, MintsProjectStep, MintsKeyStep
<1>8. ASSUME NEW c \in Watches, MintsPage(c) PROVE IInv'
  BY <1>8, MintsPageStep
<1>9. ASSUME NEW c \in Requests, Fails(c) PROVE IInv'
  BY <1>9, FailsStep
<1>10. ASSUME NEW p \in DOMAIN projects, Monitors(p) \/ Seen(p) \/ Removes(p) PROVE IInv'
  BY <1>10, MonitorsStep, SeenStep, RemovesStep
<1>11. ASSUME NEW t \in DOMAIN tenants, Ages(t) PROVE IInv'
  BY <1>11, AgesStep
<1>12. CASE ReapPauses \/ ReapScans \/ ReapDeletes
  BY <1>12, ReapPausesStep, ReapScansStep, ReapDeletesStep
<1>13. CASE UNCHANGED vars
  <2>1. \A p \in DOMAIN projects : projects[p] \in
          [tenant : DOMAIN tenants, page : {"none", "unseen", "seen", "removed"}, checks : {"none", "running", "paused"}]
    BY DEF IInv, TypeOK
  <2> QED BY <1>13, <2>1, FieldsStep DEF vars
<1> QED
  BY <1>1, <1>2, <1>3, <1>4, <1>5, <1>6, <1>7, <1>8, <1>9, <1>10, <1>11, <1>12, <1>13 DEF Next

LEMMA Invariant == Spec => []IInv
BY InitIInv, NextIInv, PTL DEF Spec

\* Every row names a tenant and a project that are there, and every request has
\* the shape the handlers give it.
THEOREM TypeCorrect == Spec => []TypeOK
BY Invariant, PTL DEF IInv

\* Two claims are never both answered for one ownerless tenant, whichever door
\* located it and whatever failed, was deleted or reaped meanwhile.
THEOREM ClaimedOnlyOnce == Spec => []ClaimedOnce
BY Invariant, PTL DEF IInv

\* Claims and creates never leave a workspace more projects than its plan allows:
\* whoever counted behind the tenant's lock still has the room when it commits.
THEOREM PlansHold == Spec => []WithinPlan
BY Invariant, PTL DEF IInv

\* A project of a person's workspace that has a check, or that had logged when a claim
\* looked whether it is empty, goes only with the account: neither the absorb, however
\* long after its look it deletes, nor the reaper takes it.
THEOREM UsedProjectsStay == Spec => UsedProjectStays
<1> DEFINE Kept(p) == \/ tenants[projects[p].tenant].owner = Nobody
                      \/ projects[p].tenant \notin DOMAIN tenants'
                      \/ ~LoggedBefore(p) /\ projects[p].checks = "none"
<1>1. ASSUME IInv, [Next]_vars PROVE \A p \in DOMAIN projects \ DOMAIN projects' : Kept(p)
  <2>1. ASSUME NEW c \in Claims, Adopts(c) PROVE \A p \in DOMAIN projects \ DOMAIN projects' : Kept(p)
    BY <1>1, <2>1, AdoptsStep
  <2>2. ASSUME NEW c \in Deletes, DeleteCommits(c) PROVE \A p \in DOMAIN projects \ DOMAIN projects' : Kept(p)
    BY <1>1, <2>2, DeleteCommitsStep
  <2>3. CASE ReapDeletes
    BY <1>1, <2>3, ReapDeletesStep DEF Ownerless
  <2>4. CASE DOMAIN projects \subseteq DOMAIN projects'
    BY <2>4
  <2>5. ASSUME NEW c \in Claims, Locates(c) \/ Burns(c) \/ AbsorbScans(c) \/ Absorbs(c) PROVE UNCHANGED projects
    BY <2>5, Zenon DEF Locates, Comes, Burns, AbsorbScans, Absorbs, Refuse
  <2>6. ASSUME NEW c \in Creates, Comes(c, None) \/ CreateLocks(c) PROVE UNCHANGED projects
    BY <2>6 DEF Comes, CreateLocks, Refuse
  <2>7. ASSUME NEW c \in Deletes, DeleteReads(c) \/ Releases(c) PROVE UNCHANGED projects
    BY <2>7 DEF DeleteReads, Releases, Refuse
  <2>8. ASSUME NEW c \in Issues, Resolves(c) \/ Issued(c) PROVE UNCHANGED projects
    BY <2>8 DEF Resolves, Issued, Refuse
  <2>9. ASSUME NEW c \in Batches, Accepts(c) \/ Flushes(c) PROVE UNCHANGED projects
    BY <2>9 DEF Accepts, Flushes, Refuse
  <2>10. ASSUME NEW c \in Mints, MintsTenant(c) \/ MintsHash(c) \/ MintsKey(c) PROVE UNCHANGED projects
    BY <2>10 DEF MintsTenant, MintsHash, MintsKey
  <2>11. ASSUME NEW c \in Requests, Settles(c) \/ Fails(c) PROVE UNCHANGED projects
    BY <2>11 DEF Settles, Fails, Refuse
  <2>12. ASSUME NEW c \in Requests, CreateCommits(c) \/ MintsProject(c) \/ MintsPage(c)
         PROVE  DOMAIN projects \subseteq DOMAIN projects'
    BY <2>12 DEF CreateCommits, MintsProject, MintsPage, Insert
  <2>13. ASSUME NEW p \in DOMAIN projects, Monitors(p) \/ Seen(p) \/ Removes(p)
         PROVE  DOMAIN projects \subseteq DOMAIN projects'
    BY <2>13 DEF Monitors, Seen, Removes
  <2>14. CASE ReapPauses \/ ReapScans \/ \E t \in DOMAIN tenants : Ages(t)
    BY <2>4, <2>14 DEF ReapPauses, ReapScans, Ages
  <2>15. CASE UNCHANGED vars
    BY <2>4, <2>15 DEF vars
  <2> HIDE DEF Kept
  <2>16. Claims \subseteq Requests /\ Creates \subseteq Requests /\ Mints \subseteq Requests /\ Watches \subseteq Requests
    BY DEF Requests
  <2> QED
    BY <1>1, <2>1, <2>2, <2>3, <2>4, <2>5, <2>6, <2>7, <2>8, <2>9, <2>10, <2>11, <2>12, <2>13, <2>14, <2>15, <2>16
       DEF Next
<1>2. IInv /\ [Next]_vars => [\A p \in TakenAway : ~LoggedBefore(p) /\ projects[p].checks = "none"]_vars
  BY <1>1 DEF TakenAway
<1> QED BY <1>2, Invariant, PTL DEF Spec, UsedProjectStays

-----------------------------------------------------------------------------
(* The addresses of status pages (StatusPages).                              *)

LEMMA NatIsWellFounded == IsWellFoundedOn({w \in Nat \X Nat : w[1] < w[2]}, Nat)
BY NatLessThanWellFounded DEF OpToRel

LEMMA Least ==
  ASSUME NEW ids \in SUBSET Nat, ids # {}
  PROVE  \E i \in ids : \A j \in ids : i <= j
<1> DEFINE R == {w \in Nat \X Nat : w[1] < w[2]}
<1>1. \A i, j \in Nat : <<j, i>> \notin R => i <= j
  OBVIOUS
<1>2. IsWellFoundedOn(R, Nat)
  BY NatIsWellFounded
<1> HIDE DEF R
<1>3. \E i \in ids : \A j \in ids : <<j, i>> \notin R
  BY <1>2, WFMin
<1> QED BY <1>1, <1>3

\* A page row and a project row, whatever else exists.
PageRow == [slug : S!Slugs, project : Nat, host : BOOLEAN, root : Hosts \cup {S!Nobody}, removed : BOOLEAN,
            token : BOOLEAN, from : Visits \cup {S!Nobody}, settings : Nat, before : SUBSET Nat]
ProjectRow == [domain : Hosts \cup {S!Nobody}, claimed : BOOLEAN]

Tabled ==
  /\ pages \in Seq(PageRow) /\ named \in Seq(ProjectRow)
  /\ \A i \in DOMAIN pages : pages[i].project \in DOMAIN named

Held(s) == \E i \in DOMAIN pages : pages[i].slug = s

LEMMA HolderIs == \A s : S!Holder(s) # {} <=> Held(s)
BY DEF S!Holder, Held

LEMMA Indexed ==
  ASSUME Tabled
  PROVE  /\ DOMAIN pages = 1..Len(pages) /\ Len(pages) \in Nat /\ \A i \in DOMAIN pages : pages[i] \in PageRow
         /\ DOMAIN named = 1..Len(named) /\ Len(named) \in Nat /\ \A p \in DOMAIN named : named[p] \in ProjectRow
BY LenProperties, ElementOfSeq DEF Tabled

LEMMA Appended ==
  ASSUME NEW T, NEW s \in Seq(T), NEW e \in T
  PROVE  /\ Append(s, e) \in Seq(T)
         /\ DOMAIN Append(s, e) = 1..(Len(s) + 1) /\ Len(s) + 1 \in 1..(Len(s) + 1)
         /\ DOMAIN s = 1..Len(s) /\ Len(s) \in Nat
         /\ \A i \in DOMAIN s : i \in 1..(Len(s) + 1) /\ i # Len(s) + 1 /\ Append(s, e)[i] = s[i]
         /\ \A i \in 1..(Len(s) + 1) : i \notin DOMAIN s => i = Len(s) + 1
         /\ Append(s, e)[Len(s) + 1] = e
BY AppendProperties, LenProperties

LEMMA Rewritten ==
  ASSUME NEW T, NEW s \in Seq(T), NEW f, f = [i \in DOMAIN s |-> f[i]], \A i \in DOMAIN s : f[i] \in T
  PROVE  f \in Seq(T) /\ DOMAIN f = DOMAIN s
<1>1. DOMAIN s = 1..Len(s) /\ Len(s) \in Nat
  BY LenProperties
<1>2. f \in [1..Len(s) -> T]
  BY <1>1
<1> QED BY <1>1, <1>2

\* The page hostLivePage finds is a live page of the host, and it finds one if there is.
LEMMA LivePageIs ==
  ASSUME Tabled, NEW h
  PROVE  /\ S!LivePages(h) = {} => S!LivePage(h) = 0
         /\ S!LivePages(h) # {} => S!LivePage(h) \in S!LivePages(h) /\ S!LivePage(h) \in DOMAIN pages /\ S!LivePage(h) # 0
<1>1. S!LivePages(h) = {} => S!LivePage(h) = 0
  BY DEF S!LivePage, S!None
<1>2. ASSUME S!LivePages(h) # {}
      PROVE  \E i \in S!LivePages(h) : \A j \in S!LivePages(h) : S!Ahead(i, j)
  <2> DEFINE L == S!LivePages(h)
             C == {i \in L : S!Claimed(i)}
             A == IF C # {} THEN C ELSE L
             H == {i \in A : pages[i].host}
             B == IF H # {} THEN H ELSE A
  <2>1. L \subseteq Nat
    BY Indexed DEF S!LivePages
  <2>2. B \subseteq Nat /\ B # {}
    BY <1>2, <2>1
  <2>3. PICK i \in B : \A j \in B : i <= j
    BY <2>2, Least
  <2>4. i \in L
    OBVIOUS
  <2>5. ASSUME NEW j \in L PROVE S!Ahead(i, j)
    <3>1. \A k \in L : (S!Claimed(k) \in BOOLEAN) /\ pages[k].host \in BOOLEAN
      <4>1. \A k \in L : named[pages[k].project] \in ProjectRow /\ pages[k] \in PageRow
        BY Indexed DEF S!LivePages, Tabled
      <4> QED BY <4>1 DEF S!Claimed, PageRow, ProjectRow
    <3>2. CASE j \notin A
      <4>1. S!Claimed(i) /\ ~S!Claimed(j)
        BY <3>2
      <4> QED BY <4>1 DEF S!Ahead
    <3>3. CASE j \in A /\ j \notin B
      <4>1. S!Claimed(i) <=> S!Claimed(j)
        BY <3>3
      <4>2. pages[i].host /\ ~pages[j].host
        BY <3>3
      <4>3. S!Claimed(i) = S!Claimed(j)
        BY <2>4, <3>1, <4>1
      <4> QED BY <4>2, <4>3 DEF S!Ahead
    <3>4. CASE j \in B
      <4>1. (S!Claimed(i) <=> S!Claimed(j)) /\ (pages[i].host <=> pages[j].host)
        BY <3>4
      <4>2. S!Claimed(i) = S!Claimed(j) /\ pages[i].host = pages[j].host
        BY <2>4, <3>1, <4>1
      <4> QED BY <2>3, <3>4, <4>2 DEF S!Ahead
    <3> QED BY <3>2, <3>3, <3>4
  <2> QED BY <2>4, <2>5
<1>3. ASSUME S!LivePages(h) # {} PROVE S!LivePage(h) \in S!LivePages(h)
  <2>1. S!LivePage(h) = CHOOSE i \in S!LivePages(h) : \A j \in S!LivePages(h) : S!Ahead(i, j)
    BY <1>3 DEF S!LivePage
  <2> QED BY <1>2, <1>3, <2>1
<1>4. \A i \in S!LivePages(h) : i \in DOMAIN pages /\ i # 0
  BY Indexed DEF S!LivePages
<1> QED BY <1>1, <1>3, <1>4

LEMMA OldestIs ==
  ASSUME Tabled, NEW p, S!PagesOf(p) # {}
  PROVE  S!Oldest(S!PagesOf(p)) \in S!PagesOf(p)
<1>1. S!PagesOf(p) \subseteq Nat
  BY Indexed DEF S!PagesOf
<1>2. \E i \in S!PagesOf(p) : \A j \in S!PagesOf(p) : i <= j
  BY <1>1, Least
<1> DEFINE P == S!PagesOf(p)
<1>3. S!Oldest(P) = CHOOSE i \in P : \A j \in P : i <= j
  BY DEF S!Oldest
<1> HIDE DEF P
<1>4. (\E i \in P : \A j \in P : i <= j) => (CHOOSE i \in P : \A j \in P : i <= j) \in P
  OBVIOUS
<1> QED BY <1>2, <1>3, <1>4 DEF P

LEMMA ServiceIs == \A p \in Nat : S!Service(p) \in S!Slugs /\ S!Service(p)[1] = "prj"
BY DEF S!Service, S!Slugs

LEMMA ClaimedSlugsAre ==
  ASSUME NEW h \in Hosts, NEW p \in Nat PROVE S!ClaimedSlugs(h, p) \subseteq S!Slugs
<1>1. <<h, S!None>> \in S!Slugs /\ (\A n \in Endings : <<h, n>> \in S!Slugs) /\ S!Service(p) \in S!Slugs
  BY ServiceIs DEF S!Slugs
<1>2. ASSUME NEW s \in S!ClaimedSlugs(h, p) PROVE s = <<h, S!None>> \/ (\E n \in Endings : s = <<h, n>>) \/ s = S!Service(p)
  BY <1>2 DEF S!ClaimedSlugs
<1> QED BY <1>1, <1>2

Door == [pc : {"idle", "gate", "probe", "probed", "account", "count", "claim", "insert", "save", "lay", "done"},
         host : Hosts \cup {S!Nobody}, who : Accounts \cup {S!Nobody}, page : Nat, root : Hosts \cup {S!Nobody},
         project : Nat, slug : S!Slugs \cup {<<>>}, before : SUBSET Nat]

\* What a request has in hand when its next statement comes. What it found live after
\* the probe is the host's page still, or has been removed; once it has looked again
\* and found none, all of it has been removed, for a project never loses its name.
AtDoor(r, x) ==
  /\ x.pc \in {"gate", "probe", "probed", "account", "count", "claim", "insert"} =>
       x.host \in Hosts /\ x.project \in {0} \cup DOMAIN named
  /\ x.pc = "account" \/ (x.pc = "gate" /\ x.page # 0) => x.who \in Accounts
  /\ r \in Namings => x.pc \notin {"gate", "probe", "probed", "account", "count"}
  /\ x.pc \in {"save", "lay"} \/ (x.pc \in {"claim", "insert"} /\ r \in Namings) => x.project \in DOMAIN named
  /\ x.pc \in {"save", "insert", "lay"} => x.slug \in S!Slugs
  /\ x.before \subseteq DOMAIN pages
  /\ x.pc = "probed" => \A j \in x.before : pages[j].removed \/ S!DomainOf(j) = x.host
  /\ x.pc \in {"account", "count", "claim", "insert"} /\ x.page = 0 => \A j \in x.before : pages[j].removed

Doors == door \in [S!Requests -> Door] /\ \A r \in S!Requests : AtDoor(r, door[r])

\* The tables: what refers to a row finds it, no two pages have one slug, and a host
\* page was made when every page found live before it had been removed.
Rows ==
  /\ Tabled
  /\ \A i, j \in DOMAIN pages : pages[i].slug = pages[j].slug => i = j
  /\ \A i \in DOMAIN pages : /\ pages[i].settings \in {0} \cup DOMAIN named
                             /\ pages[i].before \subseteq DOMAIN pages
                             /\ pages[i].host => \A j \in pages[i].before : pages[j].removed

Around ==
  /\ home \in [Accounts -> {0} \cup DOMAIN named]
  /\ watched \subseteq (DOMAIN named) \X Hosts
  /\ \A w \in sweep : w.page \in DOMAIN pages /\ pages[w.page].token
  /\ faults \in 0..MaxFaults

\* A link handed out is of the service, or a page has it.
Stands(s) == s \in S!Slugs /\ (s[1] = "prj" \/ Held(s))
Links == \A s \in answered : Stands(s)

AddrInv == Rows /\ Around /\ Doors /\ Links

\* What no step takes back: a page's project, slug (unless it is the service's) and
\* token, its removal, the name of a project.
Lasting ==
  /\ DOMAIN pages \subseteq DOMAIN pages' /\ DOMAIN named \subseteq DOMAIN named'
  /\ \A i \in DOMAIN pages :
       /\ pages'[i].project = pages[i].project
       /\ pages'[i].slug = pages[i].slug \/ pages[i].slug[1] = "prj"
       /\ pages[i].token => pages'[i].token
       /\ pages[i].removed => pages'[i].removed
  /\ \A p \in DOMAIN named : named[p].domain # S!Nobody => named'[p].domain = named[p].domain

LEMMA AtDoorKept ==
  ASSUME AddrInv, Lasting, NEW r, NEW x, AtDoor(r, x), x.before \subseteq DOMAIN pages
  PROVE  AtDoor(r, x)'
<1>1. x.pc = "probed" => \A j \in x.before : pages'[j].removed \/ S!DomainOf(j)' = x.host
  <2> SUFFICES ASSUME x.pc = "probed", NEW j \in x.before PROVE pages'[j].removed \/ S!DomainOf(j)' = x.host
    OBVIOUS
  <2>1. pages[j].removed \/ S!DomainOf(j) = x.host
    BY DEF AtDoor
  <2>2. x.host \in Hosts /\ x.host # S!Nobody
    BY HoldingsAssumption DEF AtDoor, S!StatusPagesAssumption
  <2>3. j \in DOMAIN pages /\ pages[j].project \in DOMAIN named
    BY DEF AddrInv, Rows, Tabled
  <2> QED BY <2>1, <2>2, <2>3 DEF Lasting, S!DomainOf
<1>2. x.before \subseteq DOMAIN pages'
  BY DEF Lasting
<1>3. x.pc \in {"account", "count", "claim", "insert"} /\ x.page = 0 => \A j \in x.before : pages'[j].removed
  BY DEF Lasting, AtDoor
<1>4. DOMAIN named \subseteq DOMAIN named'
  BY DEF Lasting
<1> QED BY <1>1, <1>2, <1>3, <1>4 DEF AtDoor

\* One request moves on, or none.
LEMMA DoorsStep ==
  ASSUME AddrInv, Lasting, NEW r \in S!Requests, NEW x \in Door, door' = [door EXCEPT ![r] = x], AtDoor(r, x)'
  PROVE  Doors'
<1>1. door \in [S!Requests -> Door] /\ \A q \in S!Requests : AtDoor(q, door[q])
  BY DEF AddrInv, Doors
<1>2. door' \in [S!Requests -> Door] /\ \A q \in S!Requests : door'[q] = IF q = r THEN x ELSE door[q]
  BY <1>1
<1>3. ASSUME NEW q \in S!Requests PROVE AtDoor(q, door[q])'
  <2>1. CASE q = r
    BY <1>2, <2>1 DEF AtDoor
  <2>2. CASE q # r
    <3>1. AtDoor(q, door[q]) /\ door[q].before \subseteq DOMAIN pages
      BY <1>1 DEF AtDoor
    <3>2. door'[q] = door[q]
      BY <1>2, <2>2
    <3> DEFINE y == door[q]
    <3>3. y' = y
      BY <3>2
    <3> QED BY <3>1, <3>3, AtDoorKept DEF AtDoor
  <2> QED BY <2>1, <2>2
<1> QED BY <1>2, <1>3 DEF Doors

LEMMA LinksKept ==
  ASSUME AddrInv, Lasting, \A s \in answered' \ answered : s \in S!Slugs /\ (s[1] = "prj" \/ \E i \in DOMAIN pages' : pages'[i].slug = s)
  PROVE  Links'
<1> SUFFICES ASSUME NEW s \in answered' PROVE s \in S!Slugs /\ (s[1] = "prj" \/ Held(s)')
  BY DEF Links, Stands
<1>1. CASE s \in answered
  <2>1. s \in S!Slugs /\ (s[1] = "prj" \/ Held(s))
    BY <1>1 DEF AddrInv, Links, Stands
  <2>2. ASSUME Held(s) PROVE s[1] = "prj" \/ Held(s)'
    <3>1. PICK i \in DOMAIN pages : pages[i].slug = s
      BY <2>2 DEF Held
    <3> QED BY <3>1 DEF Lasting, Held
  <2> QED BY <2>1, <2>2
<1>2. CASE s \notin answered
  BY <1>2 DEF Held
<1> QED BY <1>1, <1>2

LEMMA KeptStill ==
  ASSUME UNCHANGED <<pages, named>> PROVE Lasting
BY DEF Lasting

\* No table changes: one request moves on, and what it answers stands.
LEMMA QuietAddr ==
  ASSUME AddrInv, NEW r \in S!Requests, NEW x \in Door, door' = [door EXCEPT ![r] = x],
         UNCHANGED <<pages, named, home, watched, blocked, sweep, faults>>, AtDoor(r, x),
         \A s \in answered' \ answered : Stands(s)
  PROVE  AddrInv'
<1>1. Lasting
  BY KeptStill
<1>2. AtDoor(r, x)'
  BY <1>1, AtDoorKept DEF AtDoor
<1>3. Doors'
  BY <1>1, <1>2, DoorsStep
<1>4. \A s \in answered' \ answered : s \in S!Slugs /\ (s[1] = "prj" \/ \E i \in DOMAIN pages' : pages'[i].slug = s)
  BY DEF Stands, Held
<1>5. Links'
  BY <1>1, <1>4, LinksKept
<1>6. Rows' /\ Around'
  BY DEF AddrInv, Rows, Tabled, Around
<1> QED BY <1>3, <1>5, <1>6 DEF AddrInv

LEMMA DoorIs ==
  ASSUME AddrInv, NEW r \in S!Requests
  PROVE  door[r] \in Door /\ AtDoor(r, door[r])
BY DEF AddrInv, Doors

LEMMA ServedIs ==
  ASSUME NEW r, Tabled PROVE S!Done \in Door /\ AtDoor(r, S!Done)
<1>1. S!Done \in Door /\ S!Done.pc = "done" /\ S!Done.before = {}
  BY DEF S!Done, S!Idle, Door, S!None
<1> QED BY <1>1 DEF AtDoor

LEMMA PageStands ==
  ASSUME AddrInv, NEW i \in DOMAIN pages PROVE Stands(pages[i].slug)
<1>1. pages[i] \in PageRow
  BY Indexed DEF AddrInv, Rows
<1> QED BY <1>1 DEF Stands, Held, PageRow

LEMMA LiveStands ==
  ASSUME AddrInv, NEW h, S!LivePage(h) # 0 PROVE Stands(pages[S!LivePage(h)].slug)
<1>1. Tabled
  BY DEF AddrInv, Rows
<1>2. S!LivePage(h) \in DOMAIN pages
  BY <1>1, LivePageIs
<1> QED BY <1>2, PageStands

LEMMA RootOfIs ==
  ASSUME AddrInv, NEW i \in DOMAIN pages \cup {0} PROVE S!RootOf(i) \in Hosts \cup {S!Nobody}
<1>1. i # 0 => pages[i] \in PageRow
  BY Indexed DEF AddrInv, Rows
<1> QED BY <1>1 DEF S!RootOf, PageRow, S!None

LEMMA OpensStep ==
  ASSUME AddrInv, NEW v \in Visits, S!Opens(v) PROVE AddrInv'
<1>1. PICK h \in Hosts, who \in Accounts \cup {S!Nobody} :
        /\ UNCHANGED S!Tables
        /\ IF who = S!Nobody /\ S!LivePage(h) # S!None
           THEN S!Answer(v, pages[S!LivePage(h)].slug)
           ELSE /\ door' = [door EXCEPT ![v] = [S!Idle EXCEPT !.pc = "gate", !.host = h, !.who = who, !.page = S!LivePage(h),
                                                !.root = S!RootOf(S!LivePage(h))]]
                /\ UNCHANGED answered
  BY DEF S!Opens, S!Become
<1>2. v \in S!Requests /\ Tabled /\ UNCHANGED <<pages, named, home, watched, blocked, sweep, faults>>
  BY <1>1 DEF S!Tables, S!Requests, AddrInv, Rows
<1> DEFINE x == [S!Idle EXCEPT !.pc = "gate", !.host = h, !.who = who, !.page = S!LivePage(h),
                               !.root = S!RootOf(S!LivePage(h))]
<1>3. CASE who = S!Nobody /\ S!LivePage(h) # S!None
  <2>1. door' = [door EXCEPT ![v] = S!Done] /\ answered' = answered \cup {pages[S!LivePage(h)].slug}
    BY <1>1, <1>3 DEF S!Answer, S!Become
  <2>2. \A s \in answered' \ answered : Stands(s)
    BY <1>3, <2>1, LiveStands DEF S!None
  <2> QED BY <1>2, <2>1, <2>2, ServedIs, QuietAddr
<1>4. CASE ~(who = S!Nobody /\ S!LivePage(h) # S!None)
  <2>1. door' = [door EXCEPT ![v] = x] /\ answered' = answered
    BY <1>1, <1>4
  <2>2. S!LivePage(h) \in DOMAIN pages \cup {0}
    BY <1>2, LivePageIs
  <2>3. S!LivePage(h) \in Nat /\ S!RootOf(S!LivePage(h)) \in Hosts \cup {S!Nobody}
    BY <1>2, <2>2, Indexed, RootOfIs
  <2>4. x \in Door /\ x.pc = "gate" /\ x.host = h /\ x.who = who /\ x.page = S!LivePage(h) /\ x.before = {} /\ x.project = 0
    BY <2>3 DEF Door, S!Idle, S!None
  <2> HIDE DEF x
  <2>5. AtDoor(v, x)
    BY <1>4, <2>4, HoldingsAssumption DEF AtDoor, S!None, S!StatusPagesAssumption
  <2> QED BY <1>2, <2>1, <2>4, <2>5, QuietAddr
<1> QED BY <1>3, <1>4

LEMMA GateStep ==
  ASSUME AddrInv, NEW v \in Visits, S!Gate(v) PROVE AddrInv'
<1>1. v \in S!Requests /\ Tabled /\ UNCHANGED <<pages, named, home, watched, blocked, sweep, faults>>
      /\ answered' = answered
  BY DEF S!Gate, S!Tables, S!Requests, AddrInv, Rows
<1>2. door[v] \in Door /\ AtDoor(v, door[v]) /\ door[v].pc = "gate"
  BY <1>1, DoorIs DEF S!Gate, S!At
<1> DEFINE w == IF door[v].page = S!None THEN "probe" ELSE "account"
           x == [door[v] EXCEPT !.pc = w]
<1>3. CASE door' = [door EXCEPT ![v] = S!Done]
  BY <1>1, <1>3, ServedIs, QuietAddr
<1>4. CASE door' = [door EXCEPT ![v] = x]
  <2>1. x \in Door /\ x.pc = w /\ x.host = door[v].host /\ x.who = door[v].who /\ x.page = door[v].page
        /\ x.project = door[v].project /\ x.before = door[v].before
    BY <1>2 DEF Door
  <2> HIDE DEF x
  <2>2. AtDoor(v, x)
    BY <1>2, <2>1 DEF AtDoor, S!None
  <2> QED BY <1>1, <1>4, <2>1, <2>2, QuietAddr
<1> QED BY <1>3, <1>4 DEF S!Gate, S!Become, S!Goes

LEMMA ProbeStep ==
  ASSUME AddrInv, NEW v \in Visits, S!ProbeEnds(v) PROVE AddrInv'
<1>1. v \in S!Requests /\ Tabled /\ UNCHANGED <<pages, named, home, watched, blocked, sweep, faults>>
      /\ answered' = answered
  BY DEF S!ProbeEnds, S!Tables, S!Requests, AddrInv, Rows
<1>2. door[v] \in Door /\ AtDoor(v, door[v]) /\ door[v].pc = "probe"
  BY <1>1, DoorIs DEF S!ProbeEnds, S!At
<1> DEFINE x == [door[v] EXCEPT !.pc = "probed", !.before = S!LivePages(door[v].host)]
<1>3. CASE door' = [door EXCEPT ![v] = S!Done]
  BY <1>1, <1>3, ServedIs, QuietAddr
<1>4. CASE door' = [door EXCEPT ![v] = x]
  <2>1. S!LivePages(door[v].host) \subseteq DOMAIN pages /\ S!LivePages(door[v].host) \subseteq Nat
    BY <1>1, Indexed DEF S!LivePages
  <2>2. x \in Door /\ x.pc = "probed" /\ x.host = door[v].host /\ x.before = S!LivePages(door[v].host)
        /\ x.project = door[v].project
    BY <1>2, <2>1 DEF Door
  <2> HIDE DEF x
  <2>3. AtDoor(v, x)
    BY <1>2, <2>1, <2>2 DEF AtDoor, S!LivePages
  <2> QED BY <1>1, <1>4, <2>2, <2>3, QuietAddr
<1> QED BY <1>3, <1>4 DEF S!ProbeEnds, S!Become

\* The second look: none of what was live after the probe is left, or there is a page.
LEMMA RereadsStep ==
  ASSUME AddrInv, NEW v \in Visits, S!Rereads(v) PROVE AddrInv'
<1> DEFINE i == S!LivePage(door[v].host)
           w == IF door[v].who = S!Nobody THEN "count" ELSE "account"
           x == [door[v] EXCEPT !.pc = w, !.page = i, !.root = S!RootOf(i)]
<1>1. v \in S!Requests /\ Tabled /\ UNCHANGED <<pages, named, home, watched, blocked, sweep, faults>>
  BY DEF S!Rereads, S!Tables, S!Requests, AddrInv, Rows
<1>2. door[v] \in Door /\ AtDoor(v, door[v]) /\ door[v].pc = "probed"
  BY <1>1, DoorIs DEF S!Rereads, S!At
<1>3. CASE i # 0 /\ door' = [door EXCEPT ![v] = S!Done] /\ answered' = answered \cup {pages[i].slug}
  <2>1. \A s \in answered' \ answered : Stands(s)
    BY <1>3, LiveStands
  <2> QED BY <1>1, <1>3, <2>1, ServedIs, QuietAddr
<1>4. CASE door' = [door EXCEPT ![v] = x] /\ answered' = answered
  <2>1. i \in DOMAIN pages \cup {0}
    BY <1>1, LivePageIs
  <2>2. i \in Nat /\ S!RootOf(i) \in Hosts \cup {S!Nobody}
    BY <1>1, <2>1, Indexed, RootOfIs
  <2>3. i = 0 => S!LivePages(door[v].host) = {}
    BY <1>1, LivePageIs
  <2>4. x \in Door /\ x.pc = w /\ x.host = door[v].host /\ x.before = door[v].before
        /\ x.project = door[v].project /\ x.who = door[v].who /\ x.page = i
    <3> DEFINE root == S!RootOf(i)
    <3>1. w \in {"account", "count"} /\ root \in Hosts \cup {S!Nobody}
      BY <2>2
    <3>2. x = [door[v] EXCEPT !.pc = w, !.page = i, !.root = root]
      OBVIOUS
    <3> HIDE DEF x, w, i, root
    <3> QED BY <1>2, <2>2, <3>1, <3>2 DEF Door
  <2>5. i = 0 => \A j \in door[v].before : pages[j].removed
    BY <1>2, <2>3 DEF AtDoor, S!LivePages
  <2>6. w = "account" => door[v].who \in Accounts
    BY <1>2 DEF Door
  <2>7. v \notin Namings
    BY HoldingsAssumption DEF S!StatusPagesAssumption
  <2> HIDE DEF x, i
  <2>8. AtDoor(v, x)
    BY <1>2, <2>4, <2>5, <2>6, <2>7 DEF AtDoor
  <2> QED BY <1>1, <1>4, <2>4, <2>8, QuietAddr
<1> QED BY <1>3, <1>4 DEF S!Rereads, S!Become, S!Answer, S!None

LEMMA CountsStep ==
  ASSUME AddrInv, NEW r \in S!Requests, S!Counts(r) PROVE AddrInv'
<1>1. Tabled /\ UNCHANGED <<pages, named, home, watched, blocked, sweep, faults>>
      /\ answered' = answered
  BY DEF S!Counts, S!Tables, AddrInv, Rows
<1>2. door[r] \in Door /\ AtDoor(r, door[r]) /\ door[r].pc = "count"
  BY DoorIs DEF S!Counts, S!At
<1> DEFINE x == [door[r] EXCEPT !.pc = "claim"]
<1>3. CASE door' = [door EXCEPT ![r] = S!Done]
  BY <1>1, <1>3, ServedIs, QuietAddr
<1>4. CASE door' = [door EXCEPT ![r] = x]
  <2>1. x \in Door /\ x.pc = "claim" /\ x.host = door[r].host /\ x.page = door[r].page
        /\ x.project = door[r].project /\ x.before = door[r].before
    BY <1>2 DEF Door
  <2> HIDE DEF x
  <2>2. AtDoor(r, x)
    BY <1>2, <2>1 DEF AtDoor
  <2> QED BY <1>1, <1>4, <2>1, <2>2, QuietAddr
<1> QED BY <1>3, <1>4 DEF S!Counts, S!Become, S!Goes

LEMMA ClaimsSlugStep ==
  ASSUME AddrInv, NEW r \in S!Requests, S!ClaimsSlug(r) PROVE AddrInv'
<1> DEFINE p == IF door[r].project = 0 THEN Len(named) + 1 ELSE door[r].project
<1>1. Tabled /\ UNCHANGED <<pages, named, home, watched, blocked, sweep, faults>>
      /\ answered' = answered
  BY DEF S!ClaimsSlug, S!Tables, AddrInv, Rows
<1>2. door[r] \in Door /\ AtDoor(r, door[r]) /\ door[r].pc = "claim"
  BY DoorIs DEF S!ClaimsSlug, S!At
<1>3. PICK s \in S!ClaimedSlugs(door[r].host, p) : door' = [door EXCEPT ![r] = [door[r] EXCEPT !.pc = "insert", !.slug = s]]
  BY DEF S!ClaimsSlug, S!Become, S!None
<1>4. p \in Nat /\ door[r].host \in Hosts
  BY <1>1, <1>2, Indexed DEF Door, AtDoor
<1>5. s \in S!Slugs
  BY <1>4, ClaimedSlugsAre
<1> DEFINE x == [door[r] EXCEPT !.pc = "insert", !.slug = s]
<1>6. x \in Door /\ x.pc = "insert" /\ x.host = door[r].host /\ x.page = door[r].page /\ x.slug = s
      /\ x.project = door[r].project /\ x.before = door[r].before
  BY <1>2, <1>5 DEF Door
<1> HIDE DEF x
<1>7. AtDoor(r, x)
  BY <1>2, <1>5, <1>6 DEF AtDoor
<1> QED BY <1>1, <1>3, <1>6, <1>7, QuietAddr DEF x

LEMMA SeedOpensStep ==
  ASSUME AddrInv, NEW r \in Seeds, S!SeedOpens(r) PROVE AddrInv'
<1>1. r \in S!Requests /\ Tabled /\ UNCHANGED <<pages, named, home, watched, blocked, sweep, faults>>
  BY DEF S!SeedOpens, S!Tables, S!Requests, AddrInv, Rows
<1>2. PICK h \in Hosts :
        CASE S!Blocked(h) -> S!Become(r, S!Done) /\ UNCHANGED answered
          [] ~S!Blocked(h) /\ S!LivePage(h) # S!None -> S!Answer(r, pages[S!LivePage(h)].slug)
          [] OTHER -> S!Become(r, [S!Idle EXCEPT !.pc = "count", !.host = h]) /\ UNCHANGED answered
  BY DEF S!SeedOpens
<1> DEFINE x == [S!Idle EXCEPT !.pc = "count", !.host = h]
<1>3. CASE S!Become(r, S!Done) /\ UNCHANGED answered
  BY <1>1, <1>3, ServedIs, QuietAddr DEF S!Become
<1>4. CASE S!LivePage(h) # S!None /\ S!Answer(r, pages[S!LivePage(h)].slug)
  <2>1. door' = [door EXCEPT ![r] = S!Done] /\ answered' = answered \cup {pages[S!LivePage(h)].slug}
    BY <1>4 DEF S!Answer, S!Become
  <2>2. \A s \in answered' \ answered : Stands(s)
    BY <1>4, <2>1, LiveStands DEF S!None
  <2> QED BY <1>1, <2>1, <2>2, ServedIs, QuietAddr
<1>5. CASE S!Become(r, x) /\ UNCHANGED answered
  <2>1. x \in Door /\ x.pc = "count" /\ x.host = h /\ x.before = {} /\ x.project = 0
    BY DEF Door, S!Idle, S!None
  <2>2. r \notin Namings
    BY HoldingsAssumption DEF S!StatusPagesAssumption
  <2> HIDE DEF x
  <2>3. AtDoor(r, x)
    BY <2>1, <2>2 DEF AtDoor
  <2> QED BY <1>1, <1>5, <2>1, <2>3, QuietAddr DEF S!Become
<1> HIDE DEF x
<1> QED BY <1>2, <1>3, <1>4, <1>5 DEF x

LEMMA SaveReadsAddr ==
  ASSUME AddrInv, NEW r \in Saves, S!SaveReads(r) PROVE AddrInv'
<1>1. r \in S!Requests /\ Tabled /\ UNCHANGED <<pages, named, home, watched, blocked, sweep, faults>>
      /\ answered' = answered
  BY DEF S!SaveReads, S!Tables, S!Requests, AddrInv, Rows
<1>2. PICK e \in Accounts :
        /\ home[e] # 0
        /\ \E s \in IF S!PagesOf(home[e]) # {} THEN {pages[i].slug : i \in S!PagesOf(home[e])}
                    ELSE IF named[home[e]].domain = S!Nobody THEN {S!Service(home[e])}
                    ELSE S!ClaimedSlugs(named[home[e]].domain, home[e]) :
             S!Become(r, [S!Idle EXCEPT !.pc = "save", !.project = home[e], !.slug = s])
  BY DEF S!SaveReads, S!None
<1>3. home[e] \in DOMAIN named /\ home[e] \in Nat /\ named[home[e]] \in ProjectRow
  BY <1>1, <1>2, Indexed DEF AddrInv, Around
<1>4. PICK s : /\ s \in IF S!PagesOf(home[e]) # {} THEN {pages[i].slug : i \in S!PagesOf(home[e])}
                        ELSE IF named[home[e]].domain = S!Nobody THEN {S!Service(home[e])}
                        ELSE S!ClaimedSlugs(named[home[e]].domain, home[e])
               /\ S!Become(r, [S!Idle EXCEPT !.pc = "save", !.project = home[e], !.slug = s])
  BY <1>2
<1>5. s \in S!Slugs
  <2>1. \A i \in S!PagesOf(home[e]) : pages[i].slug \in S!Slugs
    BY <1>1, Indexed DEF S!PagesOf, PageRow
  <2>2. S!Service(home[e]) \in S!Slugs
    BY <1>3, ServiceIs
  <2>3. named[home[e]].domain # S!Nobody => named[home[e]].domain \in Hosts
    BY <1>3 DEF ProjectRow
  <2>4. named[home[e]].domain # S!Nobody => S!ClaimedSlugs(named[home[e]].domain, home[e]) \subseteq S!Slugs
    BY <1>3, <2>3, ClaimedSlugsAre
  <2> QED BY <1>4, <2>1, <2>2, <2>4
<1> DEFINE x == [S!Idle EXCEPT !.pc = "save", !.project = home[e], !.slug = s]
<1>6. x \in Door /\ x.pc = "save" /\ x.project = home[e] /\ x.slug = s /\ x.before = {}
  BY <1>3, <1>5 DEF Door, S!Idle, S!None
<1>7. door' = [door EXCEPT ![r] = x]
  BY <1>4 DEF S!Become
<1> HIDE DEF x
<1>8. AtDoor(r, x)
  BY <1>3, <1>5, <1>6 DEF AtDoor
<1> QED BY <1>1, <1>6, <1>7, <1>8, QuietAddr

LEMMA AroundKept ==
  ASSUME AddrInv, Lasting, UNCHANGED home, watched' \subseteq watched \cup ((DOMAIN named') \X Hosts),
         sweep' \subseteq sweep, faults' \in 0..MaxFaults
  PROVE  Around'
<1>1. DOMAIN named \subseteq DOMAIN named'
  BY DEF Lasting
<1>3. home' \in [Accounts -> {0} \cup DOMAIN named'] /\ watched' \subseteq (DOMAIN named') \X Hosts
  BY <1>1 DEF AddrInv, Around
<1>2. \A w \in sweep' : w.page \in DOMAIN pages' /\ pages'[w.page].token
  BY DEF AddrInv, Around, Lasting
<1> QED BY <1>2, <1>3 DEF Around

\* A page is made, with a slug that no page had.
LEMMA AddsPage ==
  ASSUME AddrInv, NEW e \in PageRow, pages' = Append(pages, e), ~Held(e.slug),
         named' \in Seq(ProjectRow), DOMAIN named \subseteq DOMAIN named',
         \A p \in DOMAIN named : named[p].domain # S!Nobody => named'[p].domain = named[p].domain,
         e.project \in DOMAIN named', e.settings \in {0} \cup DOMAIN named', e.before \subseteq DOMAIN pages,
         e.host => \A j \in e.before : pages[j].removed
  PROVE  Rows' /\ Lasting /\ \E i \in DOMAIN pages' : pages'[i].slug = e.slug
<1> DEFINE n == Len(pages) + 1
<1>1. /\ pages' \in Seq(PageRow) /\ DOMAIN pages' = 1..n /\ n \in 1..n /\ pages'[n] = e
      /\ \A i \in DOMAIN pages : i \in 1..n /\ i # n /\ pages'[i] = pages[i]
      /\ \A i \in 1..n : i \notin DOMAIN pages => i = n
  BY Appended DEF AddrInv, Rows, Tabled
<1> HIDE DEF n
<1>2. Lasting
  BY <1>1 DEF Lasting
<1>3. \E i \in DOMAIN pages' : pages'[i].slug = e.slug
  BY <1>1
<1>4. \A i, j \in DOMAIN pages' : pages'[i].slug = pages'[j].slug => i = j
  BY <1>1 DEF AddrInv, Rows, Held
<1>5. \A i \in DOMAIN pages' : pages'[i].project \in DOMAIN named'
  BY <1>1 DEF AddrInv, Rows, Tabled
<1>6. \A i \in DOMAIN pages' : pages'[i].settings \in {0} \cup DOMAIN named' /\ pages'[i].before \subseteq DOMAIN pages'
  BY <1>1 DEF AddrInv, Rows
<1>7. \A i \in DOMAIN pages' : pages'[i].host => \A j \in pages'[i].before : pages'[j].removed
  <2> SUFFICES ASSUME NEW i \in DOMAIN pages', pages'[i].host, NEW j \in pages'[i].before PROVE pages'[j].removed
    OBVIOUS
  <2>1. CASE i \in DOMAIN pages
    BY <1>1, <2>1 DEF AddrInv, Rows
  <2>2. CASE i \notin DOMAIN pages
    BY <1>1, <2>2
  <2> QED BY <2>1, <2>2
<1> QED BY <1>1, <1>2, <1>3, <1>4, <1>5, <1>6, <1>7 DEF Rows, Tabled

\* A project is made, or one changes, and keeps the name it has.
LEMMA AddsProject ==
  ASSUME AddrInv, NEW e \in ProjectRow, named' = Append(named, e)
  PROVE  /\ named' \in Seq(ProjectRow) /\ DOMAIN named \subseteq DOMAIN named' /\ Len(named) + 1 \in DOMAIN named'
         /\ Len(named) + 1 \in Nat
         /\ \A p \in DOMAIN named : named[p].domain # S!Nobody => named'[p].domain = named[p].domain
<1>1. named \in Seq(ProjectRow)
  BY DEF AddrInv, Rows, Tabled
<1>2. /\ Append(named, e) \in Seq(ProjectRow)
      /\ DOMAIN Append(named, e) = 1..(Len(named) + 1) /\ Len(named) + 1 \in 1..(Len(named) + 1)
      /\ DOMAIN named = 1..Len(named) /\ Len(named) \in Nat
      /\ \A i \in DOMAIN named : i \in 1..(Len(named) + 1) /\ i # Len(named) + 1 /\ Append(named, e)[i] = named[i]
  BY <1>1, Appended
<1> QED BY <1>2

LEMMA ProjectsChange ==
  ASSUME AddrInv, UNCHANGED pages, named' \in Seq(ProjectRow), DOMAIN named \subseteq DOMAIN named',
         \A p \in DOMAIN named : named[p].domain # S!Nobody => named'[p].domain = named[p].domain
  PROVE  Rows' /\ Lasting
<1>1. Lasting
  BY DEF Lasting
<1>2. Tabled'
  BY DEF AddrInv, Rows, Tabled
<1>3. \A i \in DOMAIN pages' : pages'[i].settings \in {0} \cup DOMAIN named'
  BY DEF AddrInv, Rows
<1> QED BY <1>1, <1>2, <1>3 DEF AddrInv, Rows

\* Pages change in place: what refers to them does not notice.
LEMMA PagesChange ==
  ASSUME AddrInv, UNCHANGED named, NEW f, pages' = f, f = [i \in DOMAIN pages |-> f[i]],
         \A i \in DOMAIN pages :
           /\ f[i] \in PageRow
           /\ \A k \in {"project", "host", "before"} : f[i][k] = pages[i][k]
           /\ f[i].settings \in {0} \cup DOMAIN named
           /\ f[i].slug = pages[i].slug \/ pages[i].slug[1] = "prj"
           /\ pages[i].token => f[i].token
           /\ pages[i].removed => f[i].removed,
         \A i, j \in DOMAIN pages : f[i].slug = f[j].slug => i = j
  PROVE  Rows' /\ Lasting
<1>1. pages' \in Seq(PageRow) /\ DOMAIN pages' = DOMAIN pages
  BY Rewritten DEF AddrInv, Rows, Tabled
<1>2. \A i \in DOMAIN pages : pages'[i].project = pages[i].project /\ pages'[i].host = pages[i].host
                              /\ pages'[i].before = pages[i].before
  BY DEF PageRow
<1>3. Lasting
  BY <1>1, <1>2 DEF Lasting
<1>4. Tabled'
  BY <1>1, <1>2 DEF AddrInv, Rows, Tabled
<1>5. \A i \in DOMAIN pages' : pages'[i].host => \A j \in pages'[i].before : pages'[j].removed
  BY <1>1, <1>2 DEF AddrInv, Rows
<1>6. \A i \in DOMAIN pages' : pages'[i].before \subseteq DOMAIN pages'
  BY <1>1, <1>2 DEF AddrInv, Rows
<1> QED BY <1>1, <1>3, <1>4, <1>5, <1>6 DEF Rows

\* The tables have changed, and one request is done.
LEMMA FinishAddr ==
  ASSUME AddrInv, Rows', Lasting, NEW r \in S!Requests, door' = [door EXCEPT ![r] = S!Done],
         UNCHANGED home, watched' \subseteq watched \cup ((DOMAIN named') \X Hosts), UNCHANGED <<sweep, faults>>,
         \A s \in answered' \ answered : s \in S!Slugs /\ (s[1] = "prj" \/ \E i \in DOMAIN pages' : pages'[i].slug = s)
  PROVE  AddrInv'
<1>1. S!Done \in Door /\ AtDoor(r, S!Done) /\ S!Done.before \subseteq DOMAIN pages
  BY ServedIs DEF AtDoor, AddrInv, Rows
<1>2. AtDoor(r, S!Done)'
  BY <1>1, AtDoorKept
<1>3. Doors'
  BY <1>1, <1>2, DoorsStep
<1>4. Around'
  BY AroundKept DEF AddrInv, Around
<1>5. Links'
  BY LinksKept
<1> QED BY <1>3, <1>4, <1>5 DEF AddrInv

\* Requests that never met a page: an account's first project, a name, a claim.
LEMMA ProvisionsStep ==
  ASSUME AddrInv, NEW v \in Visits, S!Provisions(v) PROVE AddrInv'
<1> DEFINE e == door[v].who
           p == IF home[e] = 0 THEN Len(named) + 1 ELSE home[e]
           x == [door[v] EXCEPT !.pc = "count", !.project = p]
<1>1. UNCHANGED <<pages, watched, blocked, sweep, answered, faults>> /\ v \in S!Requests /\ door' = [door EXCEPT ![v] = x]
  BY DEF S!Provisions, S!Requests, S!Become, S!None
<1>2. door[v] \in Door /\ AtDoor(v, door[v]) /\ door[v].pc = "account" /\ v \notin Namings /\ e \in Accounts
  BY <1>1, DoorIs, HoldingsAssumption DEF S!Provisions, S!At, AtDoor, S!StatusPagesAssumption
<1>3. home \in [Accounts -> {0} \cup DOMAIN named] /\ home[e] \in {0} \cup DOMAIN named
  BY <1>2 DEF AddrInv, Around
<1>4. /\ named' \in Seq(ProjectRow) /\ DOMAIN named \subseteq DOMAIN named'
      /\ \A q \in DOMAIN named : named[q].domain # S!Nobody => named'[q].domain = named[q].domain
      /\ p \in DOMAIN named' /\ p \in Nat
      /\ home' \in [Accounts -> {0} \cup DOMAIN named']
  <2>1. CASE home[e] = 0
    <3> DEFINE o == [domain |-> door[v].host, claimed |-> TRUE]
    <3>1. o \in ProjectRow
      BY <1>2 DEF ProjectRow, AtDoor
    <3>2. named' = Append(named, o) /\ home' = [home EXCEPT ![e] = p]
      BY <2>1 DEF S!Provisions, S!None
    <3>3. p = Len(named) + 1
      BY <2>1
    <3> HIDE DEF o, p
    <3>4. /\ named' \in Seq(ProjectRow) /\ DOMAIN named \subseteq DOMAIN named' /\ Len(named) + 1 \in DOMAIN named'
          /\ Len(named) + 1 \in Nat
          /\ \A q \in DOMAIN named : named[q].domain # S!Nobody => named'[q].domain = named[q].domain
      BY <3>1, <3>2, AddsProject
    <3> QED BY <1>3, <3>2, <3>3, <3>4
  <2>2. CASE home[e] # 0
    <3>1. UNCHANGED <<named, home>> /\ p = home[e]
      BY <2>2 DEF S!Provisions, S!None
    <3>2. Tabled
      BY DEF AddrInv, Rows
    <3> HIDE DEF p
    <3> QED BY <1>3, <2>2, <3>1, <3>2, Indexed DEF Tabled
  <2> QED BY <2>1, <2>2
<1>5. Rows' /\ Lasting
  BY <1>1, <1>4, ProjectsChange
<1>6. x \in Door /\ x.pc = "count" /\ x.host = door[v].host /\ x.page = door[v].page /\ x.before = door[v].before
      /\ x.project = p
  BY <1>2, <1>4 DEF Door
<1> HIDE DEF x, p
<1>11. PICK y \in Door : y = x
  BY <1>6
<1>7. AtDoor(v, y)'
  BY <1>1, <1>2, <1>4, <1>6, <1>11 DEF AtDoor
<1>8. Doors'
  BY <1>1, <1>5, <1>7, <1>11, DoorsStep
<1>9. Around'
  BY <1>1, <1>4, <1>5 DEF AddrInv, Around, Lasting
<1>10. Links'
  BY <1>1, <1>5, LinksKept
<1> QED BY <1>5, <1>8, <1>9, <1>10 DEF AddrInv

LEMMA NamesStep ==
  ASSUME AddrInv, NEW r \in Namings, S!Names(r) PROVE AddrInv'
<1>1. PICK e \in Accounts, h \in Hosts :
        /\ home[e] # 0
        /\ watched' = watched \cup {<<home[e], h>>}
        /\ IF named[home[e]].domain # S!Nobody
           THEN S!Become(r, S!Done) /\ UNCHANGED named
           ELSE /\ named' = [named EXCEPT ![home[e]].domain = h]
                /\ S!Become(r, [S!Idle EXCEPT !.pc = "claim", !.host = h, !.project = home[e]])
        /\ UNCHANGED <<pages, home, blocked, sweep, answered, faults>>
  BY DEF S!Names, S!None
<1> DEFINE p == home[e]
           x == [S!Idle EXCEPT !.pc = "claim", !.host = h, !.project = p]
           row == [named[p] EXCEPT !.domain = h]
<1>2. Tabled /\ r \in S!Requests /\ p \in DOMAIN named /\ p \in Nat /\ named \in Seq(ProjectRow)
      /\ DOMAIN named = 1..Len(named) /\ named[p] \in ProjectRow
  BY <1>1, Indexed DEF AddrInv, Rows, Around, S!Requests, Tabled
<1>3. CASE named[p].domain # S!Nobody
  <2>1. UNCHANGED <<pages, named>> /\ door' = [door EXCEPT ![r] = S!Done]
    BY <1>1, <1>3 DEF S!Become
  <2>2. Rows' /\ Lasting
    BY <1>2, <2>1, ProjectsChange
  <2>3. watched' \subseteq watched \cup ((DOMAIN named') \X Hosts)
    BY <1>1, <1>2, <2>1
  <2> QED BY <1>1, <1>2, <2>1, <2>2, <2>3, FinishAddr
<1>4. CASE named[p].domain = S!Nobody
  <2>1. named' = [named EXCEPT ![p] = row] /\ door' = [door EXCEPT ![r] = x]
    BY <1>1, <1>4 DEF S!Become
  <2>2. row \in ProjectRow
    BY <1>2 DEF ProjectRow
  <2>3. x \in Door /\ x.pc = "claim" /\ x.host = h /\ x.page = 0 /\ x.before = {} /\ x.project = p
    BY <1>2 DEF Door, S!Idle, S!None
  <2> HIDE DEF row, x, p
  <2>4. named' \in Seq(ProjectRow) /\ DOMAIN named' = DOMAIN named
        /\ \A q \in DOMAIN named : named[q].domain # S!Nobody => named'[q].domain = named[q].domain
    BY <1>2, <1>4, <2>1, <2>2, ExceptSeq, LenProperties
  <2>5. Rows' /\ Lasting
    BY <1>1, <2>4, ProjectsChange
  <2>10. PICK y \in Door : y = x
    BY <2>3
  <2>6. AtDoor(r, y)'
    BY <1>2, <2>3, <2>4, <2>10 DEF AtDoor
  <2>7. Doors'
    BY <1>2, <2>1, <2>5, <2>6, <2>10, DoorsStep
  <2>8. Around'
    BY <1>1, <1>2, <2>4, <2>5, AroundKept DEF AddrInv, Around, p
  <2>9. Links'
    BY <1>1, <2>5, LinksKept
  <2> QED BY <2>5, <2>7, <2>8, <2>9 DEF AddrInv
<1> QED BY <1>3, <1>4

LEMMA TakesOverStep ==
  ASSUME AddrInv, NEW r \in Takes, S!TakesOver(r) PROVE AddrInv'
<1>1. PICK p \in DOMAIN named :
        /\ named' = [named EXCEPT ![p].claimed = TRUE]
        /\ S!Become(r, S!Done)
        /\ UNCHANGED <<pages, home, watched, blocked, sweep, answered, faults>>
  BY DEF S!TakesOver
<1> DEFINE row == [named[p] EXCEPT !.claimed = TRUE]
<1>2. Tabled /\ r \in S!Requests /\ named \in Seq(ProjectRow)
      /\ DOMAIN named = 1..Len(named) /\ named[p] \in ProjectRow
  BY <1>1, Indexed DEF AddrInv, Rows, S!Requests, Tabled
<1>3. named' = [named EXCEPT ![p] = row] /\ door' = [door EXCEPT ![r] = S!Done]
  BY <1>1 DEF S!Become
<1>4. row \in ProjectRow /\ row.domain = named[p].domain
  BY <1>2 DEF ProjectRow
<1> HIDE DEF row
<1>12. \A q \in DOMAIN named : named'[q] = IF q = p THEN row ELSE named[q]
  BY <1>2, <1>3
<1>13. named' \in Seq(ProjectRow) /\ DOMAIN named' = DOMAIN named
  BY <1>2, <1>3, <1>4, ExceptSeq
<1>5. named' \in Seq(ProjectRow) /\ DOMAIN named' = DOMAIN named
      /\ \A q \in DOMAIN named : named'[q].domain = named[q].domain
  BY <1>4, <1>12, <1>13
<1>6. Rows' /\ Lasting
  BY <1>1, <1>5, ProjectsChange
<1> QED BY <1>1, <1>2, <1>3, <1>6, FinishAddr

\* A mint: the page it makes is the host's page only when the second look found none.
LEMMA MintsPageAddr ==
  ASSUME AddrInv, NEW r \in Visits \cup Seeds, S!MintsPage(r) PROVE AddrInv'
<1> DEFINE own == door[r].project = 0
           p == IF own THEN Len(named) + 1 ELSE door[r].project
           s == IF door[r].slug[1] = "prj" THEN S!Service(p) ELSE door[r].slug
           e == S!WatchRow(r, p, s)
           l == IF S!PagesOf(p) # {} THEN pages[S!Oldest(S!PagesOf(p))].slug ELSE s
<1>1. /\ S!At(r, "insert")
      /\ named' = IF own THEN Append(named, [domain |-> door[r].host, claimed |-> FALSE]) ELSE named
      /\ pages' = IF S!Holder(s) = {} THEN Append(pages, e) ELSE pages
      /\ S!Subscribes(r, p, own)
      /\ door' = [door EXCEPT ![r] = S!Done] /\ answered' = answered \cup {l}
      /\ UNCHANGED <<home, blocked, sweep, faults>>
  BY DEF S!MintsPage, S!Answer, S!Become, S!None
<1>2. Tabled /\ r \in S!Requests /\ door[r] \in Door /\ AtDoor(r, door[r]) /\ door[r].pc = "insert"
  BY <1>1, DoorIs DEF S!Requests, S!At, AddrInv, Rows
<1>3. door[r].host \in Hosts /\ door[r].project \in {0} \cup DOMAIN named /\ door[r].slug \in S!Slugs
      /\ door[r].before \subseteq DOMAIN pages /\ (door[r].page = 0 => \A j \in door[r].before : pages[j].removed)
  BY <1>2 DEF AtDoor
<1>4. /\ named' \in Seq(ProjectRow) /\ DOMAIN named \subseteq DOMAIN named'
      /\ \A q \in DOMAIN named : named[q].domain # S!Nobody => named'[q].domain = named[q].domain
      /\ p \in DOMAIN named' /\ p \in Nat
  <2>1. CASE own
    <3> DEFINE o == [domain |-> door[r].host, claimed |-> FALSE]
    <3>1. o \in ProjectRow
      BY <1>3 DEF ProjectRow
    <3>2. named' = Append(named, o) /\ p = Len(named) + 1
      BY <1>1, <2>1
    <3> HIDE DEF o
    <3> QED BY <3>1, <3>2, AddsProject
  <2>2. CASE ~own
    BY <1>1, <1>2, <1>3, <2>2, Indexed DEF Tabled
  <2> QED BY <2>1, <2>2
<1>5. s \in S!Slugs
  BY <1>3, <1>4, ServiceIs
<1>6. watched' \subseteq watched \cup ((DOMAIN named') \X Hosts)
  BY <1>1, <1>3, <1>4 DEF S!Subscribes
<1> HIDE DEF p, s
<1>7. e \in PageRow /\ e.slug = s /\ e.project = p /\ e.settings = 0 /\ e.before = door[r].before
      /\ (e.host => door[r].page = 0)
  <2>1. door[r].before \in SUBSET Nat /\ door[r].root \in Hosts \cup {S!Nobody}
    BY <1>2 DEF Door
  <2>2. (IF r \in Visits THEN r ELSE S!Nobody) \in Visits \cup {S!Nobody}
    OBVIOUS
  <2>3. (IF door[r].root # S!Nobody THEN door[r].root ELSE door[r].host) \in Hosts \cup {S!Nobody}
    BY <1>3, <2>1
  <2>4. (door[r].page = 0) \in BOOLEAN
    OBVIOUS
  <2> QED BY <1>4, <1>5, <2>1, <2>2, <2>3, <2>4 DEF PageRow, S!WatchRow, S!None
<1> HIDE DEF e
<1>8. Rows' /\ Lasting /\ \E i \in DOMAIN pages' : pages'[i].slug = s
  <2>1. CASE ~Held(s)
    <3>1. pages' = Append(pages, e) /\ ~Held(e.slug)
      BY <1>1, <1>7, <2>1, HolderIs
    <3>2. e.project \in DOMAIN named' /\ e.settings \in {0} \cup DOMAIN named' /\ e.before \subseteq DOMAIN pages
          /\ (e.host => \A j \in e.before : pages[j].removed)
      BY <1>3, <1>4, <1>7
    <3> QED BY <1>4, <1>7, <3>1, <3>2, AddsPage
  <2>2. CASE Held(s)
    <3>1. pages' = pages
      BY <1>1, <2>2, HolderIs
    <3> QED BY <1>4, <2>2, <3>1, ProjectsChange DEF Held
  <2> QED BY <2>1, <2>2
<1>9. l \in S!Slugs /\ (l[1] = "prj" \/ \E i \in DOMAIN pages' : pages'[i].slug = l)
  <2>1. CASE S!PagesOf(p) # {}
    <3>1. S!Oldest(S!PagesOf(p)) \in DOMAIN pages
      BY <1>2, <2>1, OldestIs DEF S!PagesOf
    <3>2. PICK i \in DOMAIN pages : l = pages[i].slug
      BY <2>1, <3>1
    <3> HIDE DEF l
    <3>3. pages[i].slug \in S!Slugs
      BY <1>2, Indexed DEF PageRow
    <3> QED BY <1>8, <3>2, <3>3 DEF Lasting
  <2>2. CASE S!PagesOf(p) = {}
    BY <1>5, <1>8, <2>2
  <2> QED BY <2>1, <2>2
<1> HIDE DEF l
<1> QED BY <1>1, <1>2, <1>6, <1>8, <1>9, FinishAddr

\* A save: the page with the slug, whoever has it by now, or a new one.
LEMMA UpsertsAddr ==
  ASSUME AddrInv, NEW r \in Saves, S!Upserts(r) PROVE AddrInv'
<1> DEFINE s == door[r].slug  p == door[r].project
           e == [slug |-> s, project |-> p, host |-> FALSE, root |-> S!Nobody, removed |-> FALSE,
                 token |-> FALSE, from |-> S!Nobody, settings |-> p, before |-> {}]
           f == [i \in DOMAIN pages |-> IF pages[i].slug = s THEN [pages[i] EXCEPT !.settings = p] ELSE pages[i]]
<1>1. /\ S!At(r, "save") /\ door' = [door EXCEPT ![r] = S!Done]
      /\ pages' = IF S!Holder(s) = {} THEN Append(pages, e) ELSE f
      /\ UNCHANGED <<named, home, watched, blocked, sweep, answered, faults>>
  BY DEF S!Upserts, S!Become, S!None
<1>2. Tabled /\ r \in S!Requests /\ AtDoor(r, door[r]) /\ door[r].pc = "save"
  BY <1>1, DoorIs DEF S!Requests, S!At, AddrInv, Rows
<1>3. s \in S!Slugs /\ p \in DOMAIN named /\ p \in Nat
  BY <1>2, Indexed DEF AtDoor
<1>4. CASE ~Held(s)
  <2>1. e \in PageRow /\ e.slug = s /\ e.project = p /\ e.settings = p /\ e.before = {}
    BY <1>3 DEF PageRow
  <2>2. pages' = Append(pages, e)
    BY <1>1, <1>4, HolderIs
  <2> HIDE DEF e
  <2>3. Rows' /\ Lasting
    BY <1>1, <1>2, <1>3, <1>4, <2>1, <2>2, AddsPage DEF Tabled
  <2> QED BY <1>1, <1>2, <2>3, FinishAddr
<1>5. CASE Held(s)
  <2>1. pages' = f
    BY <1>1, <1>5, HolderIs
  <2>2. \A i \in DOMAIN pages : /\ f[i] \in PageRow
                                /\ f[i].slug = pages[i].slug /\ f[i].token = pages[i].token
                                /\ f[i].removed = pages[i].removed /\ f[i].settings \in {pages[i].settings, p}
                                /\ \A k \in {"project", "host", "before"} : f[i][k] = pages[i][k]
    <3> TAKE i \in DOMAIN pages
    <3>1. pages[i] \in PageRow /\ f[i] = IF pages[i].slug = s THEN [pages[i] EXCEPT !.settings = p] ELSE pages[i]
      BY <1>2, Indexed
    <3> HIDE DEF f, p, s
    <3> QED BY <1>3, <3>1 DEF PageRow
  <2>3. f = [i \in DOMAIN pages |-> f[i]]
    OBVIOUS
  <2> HIDE DEF f
  <2>4. \A i, j \in DOMAIN pages : f[i].slug = f[j].slug => i = j
    BY <2>2 DEF AddrInv, Rows
  <2>5. \A i \in DOMAIN pages : f[i].settings \in {0} \cup DOMAIN named
    BY <1>3, <2>2 DEF AddrInv, Rows
  <2>6. Rows' /\ Lasting
    BY <1>1, <2>1, <2>2, <2>3, <2>4, <2>5, PagesChange
  <2> QED BY <1>1, <1>2, <2>6, FinishAddr
<1> QED BY <1>4, <1>5

\* A token is issued: one page of the live ones, for good.
LEMMA IssuesTokenStep ==
  ASSUME AddrInv, NEW r \in Tokens, S!IssuesToken(r) PROVE AddrInv'
<1>1. PICK n \in DOMAIN pages :
        /\ pages' = [pages EXCEPT ![n].token = TRUE]
        /\ door' = [door EXCEPT ![r] = S!Done]
        /\ UNCHANGED <<named, home, watched, blocked, sweep, answered, faults>>
  BY DEF S!IssuesToken, S!Become
<1> DEFINE f == [i \in DOMAIN pages |-> IF i = n THEN [pages[i] EXCEPT !.token = TRUE] ELSE pages[i]]
<1>2. Tabled /\ r \in S!Requests /\ pages' = f
  BY <1>1 DEF S!Requests, AddrInv, Rows
<1>3. \A i \in DOMAIN pages : /\ f[i] \in PageRow
                              /\ f[i].slug = pages[i].slug /\ (pages[i].token => f[i].token)
                              /\ f[i].removed = pages[i].removed /\ f[i].settings = pages[i].settings
                              /\ \A k \in {"project", "host", "before"} : f[i][k] = pages[i][k]
  <2> TAKE i \in DOMAIN pages
  <2>1. pages[i] \in PageRow /\ f[i] = IF i = n THEN [pages[i] EXCEPT !.token = TRUE] ELSE pages[i]
    BY <1>2, Indexed
  <2> HIDE DEF f
  <2> QED BY <2>1 DEF PageRow
<1>4. f = [i \in DOMAIN pages |-> f[i]]
  OBVIOUS
<1> HIDE DEF f
<1>5. \A i, j \in DOMAIN pages : f[i].slug = f[j].slug => i = j
  BY <1>3 DEF AddrInv, Rows
<1>6. \A i \in DOMAIN pages : f[i].settings \in {0} \cup DOMAIN named
  BY <1>3 DEF AddrInv, Rows
<1>7. Rows' /\ Lasting
  BY <1>1, <1>2, <1>3, <1>4, <1>5, <1>6, PagesChange
<1> QED BY <1>1, <1>2, <1>7, FinishAddr

\* Only the page with the service's own slug follows the name.
LEMMA RenamesStep ==
  ASSUME AddrInv, NEW r \in Namings, S!Renames(r) PROVE AddrInv'
<1> DEFINE p == door[r].project  s == door[r].slug  f == S!Renamed(p, s)
<1>1. /\ S!At(r, "insert") /\ UNCHANGED <<named, home, watched, blocked, sweep, answered, faults>>
      /\ IF s = S!Service(p) \/ (S!Holder(s) # {} /\ f # pages)
         THEN door' = [door EXCEPT ![r] = S!Done] /\ UNCHANGED pages
         ELSE /\ pages' = f
              /\ door' = [door EXCEPT ![r] = [door[r] EXCEPT !.pc = IF f = pages THEN "lay" ELSE "done"]]
  BY DEF S!Renames, S!Become, S!Goes
<1>2. Tabled /\ r \in S!Requests /\ door[r] \in Door /\ AtDoor(r, door[r]) /\ door[r].pc = "insert"
  BY <1>1, DoorIs DEF S!Requests, S!At, AddrInv, Rows
<1>3. s \in S!Slugs /\ p \in DOMAIN named /\ p \in Nat
  BY <1>2, Indexed DEF AtDoor
<1>4. CASE UNCHANGED pages /\ door' = [door EXCEPT ![r] = S!Done]
  <2>1. Rows' /\ Lasting
    BY <1>1, <1>2, <1>4, ProjectsChange DEF Tabled
  <2> QED BY <1>1, <1>2, <1>4, <2>1, FinishAddr
<1> DEFINE w == IF f = pages THEN "lay" ELSE "done"
           x == [door[r] EXCEPT !.pc = w]
<1>5. CASE /\ ~(s = S!Service(p) \/ (S!Holder(s) # {} /\ f # pages))
           /\ pages' = f /\ door' = [door EXCEPT ![r] = x]
  <2>1. f = [i \in DOMAIN pages |-> IF pages[i].project = p /\ pages[i].slug = S!Service(p)
                                    THEN [pages[i] EXCEPT !.slug = s] ELSE pages[i]]
    BY DEF S!Renamed
  <2>2. f # pages => ~Held(s)
    BY <1>5, HolderIs
  <2> HIDE DEF f
  <2>3. \A i \in DOMAIN pages :
          /\ f[i] \in PageRow
          /\ f[i].slug = pages[i].slug \/ (pages[i].slug = S!Service(p) /\ f[i].slug = s)
          /\ f[i].token = pages[i].token
          /\ f[i].removed = pages[i].removed /\ f[i].settings = pages[i].settings
          /\ \A k \in {"project", "host", "before"} : f[i][k] = pages[i][k]
    <3> TAKE i \in DOMAIN pages
    <3>1. pages[i] \in PageRow
          /\ f[i] = IF pages[i].project = p /\ pages[i].slug = S!Service(p) THEN [pages[i] EXCEPT !.slug = s] ELSE pages[i]
      BY <1>2, <2>1, Indexed
    <3> HIDE DEF p, s
    <3> QED BY <1>3, <3>1 DEF PageRow
  <2>4. f = [i \in DOMAIN pages |-> f[i]]
    BY <2>1
  <2>5. \A i, j \in DOMAIN pages : f[i].slug = f[j].slug => i = j
    <3>1. CASE f = pages
      BY <3>1 DEF AddrInv, Rows
    <3>2. CASE f # pages
      BY <2>2, <2>3, <3>2 DEF Held, AddrInv, Rows
    <3> QED BY <3>1, <3>2
  <2>6. \A i \in DOMAIN pages : f[i].settings \in {0} \cup DOMAIN named
    BY <2>3 DEF AddrInv, Rows
  <2>7. \A i \in DOMAIN pages : f[i].slug = pages[i].slug \/ pages[i].slug[1] = "prj"
    BY <1>3, <2>3, ServiceIs
  <2>8. Rows' /\ Lasting
    BY <1>1, <1>5, <2>3, <2>4, <2>5, <2>6, <2>7, PagesChange
  <2>9. x \in Door /\ x.pc = w /\ x.before = door[r].before /\ x.project = p /\ x.slug = s
    BY <1>2 DEF Door
  <2> HIDE DEF x, p, s
  <2>10. AtDoor(r, x) /\ x.before \subseteq DOMAIN pages
    BY <1>2, <1>3, <2>9 DEF AtDoor
  <2>11. PICK y \in Door : y = x
    BY <2>9
  <2>12. AtDoor(r, y)'
    BY <2>8, <2>10, <2>11, AtDoorKept
  <2>13. Doors'
    BY <1>2, <1>5, <2>8, <2>11, <2>12, DoorsStep
  <2>14. Around'
    BY <1>1, <2>8, AroundKept DEF AddrInv, Around
  <2>15. Links'
    BY <1>1, <2>8, LinksKept
  <2> QED BY <2>8, <2>13, <2>14, <2>15 DEF AddrInv
<1> QED BY <1>1, <1>4, <1>5

LEMMA LaysStep ==
  ASSUME AddrInv, NEW r \in Namings, S!Lays(r) PROVE AddrInv'
<1> DEFINE s == door[r].slug  p == door[r].project
           e == [slug |-> s, project |-> p, host |-> FALSE, root |-> S!Nobody, removed |-> FALSE,
                 token |-> FALSE, from |-> S!Nobody, settings |-> 0, before |-> {}]
<1>1. /\ S!At(r, "lay") /\ door' = [door EXCEPT ![r] = S!Done]
      /\ pages' = IF S!PagesOf(p) # {} \/ S!Holder(s) # {} THEN pages ELSE Append(pages, e)
      /\ UNCHANGED <<named, home, watched, blocked, sweep, answered, faults>>
  BY DEF S!Lays, S!Become, S!None
<1>2. Tabled /\ r \in S!Requests /\ AtDoor(r, door[r]) /\ door[r].pc = "lay"
  BY <1>1, DoorIs DEF S!Requests, S!At, AddrInv, Rows
<1>3. s \in S!Slugs /\ p \in DOMAIN named /\ p \in Nat
  BY <1>2, Indexed DEF AtDoor
<1>4. e \in PageRow /\ e.slug = s /\ e.project = p /\ e.settings = 0 /\ e.before = {} /\ ~e.host
  BY <1>3 DEF PageRow
<1> HIDE DEF e
<1>5. Rows' /\ Lasting
  <2>1. CASE pages' = pages
    BY <1>1, <1>2, <2>1, ProjectsChange DEF Tabled
  <2>2. CASE pages' = Append(pages, e) /\ ~Held(s)
    BY <1>1, <1>2, <1>3, <1>4, <2>2, AddsPage DEF Tabled
  <2> QED BY <1>1, <2>1, <2>2, HolderIs
<1> QED BY <1>1, <1>2, <1>5, FinishAddr

\* The removal job: what it lists has a token, and a page stays removed.
LEMMA SweepStepAddr ==
  ASSUME AddrInv, S!SweepStep PROVE AddrInv'
<1>1. Tabled
  BY DEF AddrInv, Rows
<1>2. UNCHANGED <<named, home, door, answered>>
  BY DEF S!SweepStep, S!SweepLists, S!SweepTakes
<1>3. faults' \in 0..MaxFaults
  <2>1. faults \in 0..MaxFaults
    BY DEF AddrInv, Around
  <2>2. MaxFaults \in Nat
    BY HoldingsAssumption DEF S!StatusPagesAssumption
  <2>3. faults' = faults \/ (faults < MaxFaults /\ faults' = faults + 1)
    BY DEF S!SweepStep, S!SweepLists, S!SweepTakes
  <2> QED BY <2>1, <2>2, <2>3
<1>4. watched' \subseteq watched
  BY DEF S!SweepStep, S!SweepLists, S!SweepTakes
<1>5. CASE UNCHANGED pages
  <2>1. Rows' /\ Lasting
    BY <1>1, <1>2, <1>5, ProjectsChange DEF Tabled
  <2>2. \A w \in sweep' : w.page \in DOMAIN pages /\ pages[w.page].token
    <3>1. CASE S!SweepLists
      BY <3>1 DEF S!SweepLists
    <3>2. CASE S!SweepTakes
      BY <3>2 DEF S!SweepTakes, AddrInv, Around
    <3> QED BY <3>1, <3>2 DEF S!SweepStep
  <2>3. Around'
    BY <1>2, <1>3, <1>4, <1>5, <2>2 DEF AddrInv, Around
  <2>4. Doors'
    BY <1>2, <1>5 DEF AddrInv, Doors, AtDoor, S!DomainOf
  <2>5. Links'
    BY <1>2, <2>1, LinksKept
  <2> QED BY <2>1, <2>3, <2>4, <2>5 DEF AddrInv
<1>6. CASE \E n \in DOMAIN pages : pages' = [pages EXCEPT ![n].removed = TRUE, ![n].root = S!Nobody] /\ sweep' \subseteq sweep
  <2>1. PICK n \in DOMAIN pages : pages' = [pages EXCEPT ![n].removed = TRUE, ![n].root = S!Nobody] /\ sweep' \subseteq sweep
    BY <1>6
  <2> DEFINE f == [i \in DOMAIN pages |-> IF i = n THEN [pages[i] EXCEPT !.removed = TRUE, !.root = S!Nobody] ELSE pages[i]]
  <2>2. pages' = f
    BY <2>1
  <2>3. \A i \in DOMAIN pages : /\ f[i] \in PageRow
                                /\ f[i].slug = pages[i].slug /\ f[i].token = pages[i].token
                                /\ (pages[i].removed => f[i].removed) /\ f[i].settings = pages[i].settings
                                /\ \A k \in {"project", "host", "before"} : f[i][k] = pages[i][k]
    <3> TAKE i \in DOMAIN pages
    <3>1. pages[i] \in PageRow
          /\ f[i] = IF i = n THEN [pages[i] EXCEPT !.removed = TRUE, !.root = S!Nobody] ELSE pages[i]
      BY <1>1, Indexed
    <3> HIDE DEF f
    <3>2. CASE i = n
      <4> DEFINE w == pages[i]
                 x == [w EXCEPT !.removed = TRUE, !.root = S!Nobody]
      <4>1. w \in PageRow /\ f[i] = x
        BY <3>1, <3>2
      <4>2. x \in PageRow
        <5> HIDE DEF w
        <5> QED BY <4>1 DEF PageRow
      <4>3. x.slug = w.slug /\ x.token = w.token /\ x.removed /\ x.settings = w.settings
        <5> HIDE DEF w
        <5> QED BY <4>1 DEF PageRow
      <4>4. \A k \in {"project", "host", "before"} : x[k] = w[k]
        <5> HIDE DEF w
        <5> QED BY <4>1 DEF PageRow
      <4> HIDE DEF x
      <4> QED BY <4>1, <4>2, <4>3, <4>4
    <3>3. CASE i # n
      BY <3>1, <3>3
    <3> QED BY <3>2, <3>3
  <2>4. f = [i \in DOMAIN pages |-> f[i]]
    OBVIOUS
  <2> HIDE DEF f
  <2>5. \A i, j \in DOMAIN pages : f[i].slug = f[j].slug => i = j
    BY <2>3 DEF AddrInv, Rows
  <2>6. \A i \in DOMAIN pages : f[i].settings \in {0} \cup DOMAIN named
    BY <2>3 DEF AddrInv, Rows
  <2>7. Rows' /\ Lasting
    BY <1>2, <2>2, <2>3, <2>4, <2>5, <2>6, PagesChange
  <2>8. Around'
    BY <1>2, <1>3, <1>4, <2>1, <2>7, AroundKept
  <2>9. Doors'
    <3>1. door \in [S!Requests -> Door] /\ \A q \in S!Requests : AtDoor(q, door[q])
      BY DEF AddrInv, Doors
    <3>2. ASSUME NEW q \in S!Requests PROVE AtDoor(q, door[q])'
      <4>1. PICK y \in Door : y = door[q]
        BY <3>1
      <4>2. AtDoor(q, y) /\ y.before \subseteq DOMAIN pages
        BY <3>1, <4>1 DEF AtDoor
      <4>3. AtDoor(q, y)'
        BY <2>7, <4>2, AtDoorKept
      <4> QED BY <1>2, <4>1, <4>3
    <3> QED BY <1>2, <3>1, <3>2 DEF Doors
  <2>10. Links'
    BY <1>2, <2>7, LinksKept
  <2> QED BY <2>7, <2>8, <2>9, <2>10 DEF AddrInv
<1>7. UNCHANGED pages
      \/ \E n \in DOMAIN pages : pages' = [pages EXCEPT ![n].removed = TRUE, ![n].root = S!Nobody] /\ sweep' \subseteq sweep
  <2>1. CASE S!SweepLists
    BY <2>1 DEF S!SweepLists
  <2>2. CASE S!SweepTakes
    BY <2>2 DEF S!SweepTakes, AddrInv, Around
  <2> QED BY <2>1, <2>2 DEF S!SweepStep
<1> QED BY <1>5, <1>6, <1>7

\* A host may have been seeded, with its page, and every account has a project or none.
LEMMA AddrInit == S!Init => AddrInv
<1> SUFFICES ASSUME S!Init PROVE AddrInv
  OBVIOUS
<1>1. PICK old \in SUBSET Accounts, h \in Hosts \cup {S!Nobody} :
        /\ home \in [Accounts -> 0..S!Cardinality(old)]
        /\ named = [k \in 1..S!Cardinality(old) |-> [domain |-> S!Nobody, claimed |-> TRUE]]
                     \o (IF h = S!Nobody THEN <<>> ELSE <<[domain |-> h, claimed |-> FALSE]>>)
        /\ pages = IF h = S!Nobody THEN <<>>
                   ELSE <<[slug |-> <<h, 0>>, project |-> S!Cardinality(old) + 1, host |-> TRUE, root |-> h,
                           removed |-> FALSE, token |-> TRUE, from |-> S!Nobody, settings |-> 0, before |-> {}]>>
  BY DEF S!Init, S!None
<1>2. S!Cardinality(old) = Cardinality(old)
  BY DEF S!Cardinality, Cardinality
<1>3. IsFiniteSet(Accounts)
  BY HoldingsAssumption DEF S!StatusPagesAssumption, S!IsFiniteSet, IsFiniteSet
<1> DEFINE n == Cardinality(old)
           z == [domain |-> S!Nobody, claimed |-> TRUE]
           o == [domain |-> h, claimed |-> FALSE]
           A == [k \in 1..n |-> z]
           B == IF h = S!Nobody THEN <<>> ELSE <<o>>
           e == [slug |-> <<h, 0>>, project |-> n + 1, host |-> TRUE, root |-> h,
                 removed |-> FALSE, token |-> TRUE, from |-> S!Nobody, settings |-> 0, before |-> {}]
<1>4. n \in Nat
  BY <1>3, FS_Subset, FS_CardinalityType
<1>5. named = A \o B /\ pages = IF h = S!Nobody THEN <<>> ELSE <<e>>
  BY <1>1, <1>2
<1>6. z \in ProjectRow /\ o \in ProjectRow
  BY DEF ProjectRow
<1>7. e \in PageRow \/ h = S!Nobody
  BY <1>4 DEF PageRow, S!Slugs, S!None
<1>8. e.project = n + 1 /\ e.settings = 0 /\ e.before = {}
  OBVIOUS
<1> HIDE DEF n, z, o, e
<1>9. A \in Seq(ProjectRow) /\ Len(A) = n /\ B \in Seq(ProjectRow) /\ Len(B) = IF h = S!Nobody THEN 0 ELSE 1
  <2>1. A \in Seq(ProjectRow) /\ Len(A) = n
    BY <1>4, <1>6
  <2> HIDE DEF A
  <2>2. CASE h = S!Nobody
    <3>1. B = <<>>
      BY <2>2
    <3> HIDE DEF B
    <3> QED BY <2>1, <2>2, <3>1
  <2>3. CASE h # S!Nobody
    <3>1. B = <<o>>
      BY <2>3
    <3>2. <<o>> \in Seq(ProjectRow) /\ Len(<<o>>) = 1
      BY <1>6
    <3> HIDE DEF B
    <3> QED BY <2>1, <2>3, <3>1, <3>2
  <2> QED BY <2>1, <2>2, <2>3
<1> HIDE DEF A, B
<1>10. named \in Seq(ProjectRow) /\ Len(named) = IF h = S!Nobody THEN n ELSE n + 1
  <2>1. A \o B \in Seq(ProjectRow) /\ Len(A \o B) = Len(A) + Len(B)
    BY <1>9, ConcatProperties
  <2>2. named = A \o B
    BY <1>5
  <2> QED BY <1>4, <1>9, <2>1, <2>2
<1>11. DOMAIN named = IF h = S!Nobody THEN 1..n ELSE 1..(n + 1)
  BY <1>10, LenProperties
<1>12. pages \in Seq(PageRow) /\ DOMAIN pages = (IF h = S!Nobody THEN {} ELSE {1}) /\ \A i \in DOMAIN pages : pages[i] = e
  <2>1. CASE h = S!Nobody
    <3>1. pages = <<>>
      BY <1>5, <2>1
    <3> QED BY <2>1, <3>1
  <2>2. CASE h # S!Nobody
    <3>1. pages = <<e>>
      BY <1>5, <2>2
    <3> QED BY <1>7, <2>2, <3>1
  <2> QED BY <2>1, <2>2
<1>13. Rows
  BY <1>4, <1>8, <1>10, <1>11, <1>12 DEF Rows, Tabled
<1>14. home \in [Accounts -> {0} \cup DOMAIN named]
  <2>1. home \in [Accounts -> 0..n]
    BY <1>1, <1>2 DEF n
  <2>2. 0..n \subseteq {0} \cup DOMAIN named
    BY <1>4, <1>11
  <2> QED BY <2>1, <2>2
<1>15. MaxFaults \in Nat
  BY HoldingsAssumption DEF S!StatusPagesAssumption
<1>16. Around
  <2>1. watched = {} /\ sweep = {} /\ faults = 0
    BY DEF S!Init
  <2>2. 0 \in 0..MaxFaults
    BY <1>15
  <2> QED BY <1>14, <2>1, <2>2 DEF Around
<1>17. S!Idle \in Door /\ S!Idle.pc = "idle" /\ S!Idle.before = {}
  BY DEF S!Idle, Door, S!None
<1>18. door \in [S!Requests -> Door] /\ \A r \in S!Requests : door[r] = S!Idle
  BY <1>17 DEF S!Init
<1>19. Doors
  BY <1>17, <1>18 DEF Doors, AtDoor
<1>20. Links
  BY DEF S!Init, Links
<1> QED BY <1>13, <1>16, <1>19, <1>20 DEF AddrInv

LEMMA AddrNext == AddrInv /\ [S!Next]_S!vars => AddrInv'
<1> SUFFICES ASSUME AddrInv, [S!Next]_S!vars PROVE AddrInv'
  OBVIOUS
<1>1. ASSUME NEW v \in Visits, S!Opens(v) \/ S!Gate(v) \/ S!ProbeEnds(v) \/ S!Rereads(v) \/ S!Provisions(v)
      PROVE  AddrInv'
  BY <1>1, OpensStep, GateStep, ProbeStep, RereadsStep, ProvisionsStep
<1>2. ASSUME NEW r \in Seeds, S!SeedOpens(r) PROVE AddrInv'
  BY <1>2, SeedOpensStep
<1>3. ASSUME NEW r \in S!Requests, S!Counts(r) \/ S!ClaimsSlug(r) PROVE AddrInv'
  BY <1>3, CountsStep, ClaimsSlugStep
<1>4. ASSUME NEW r \in Visits \cup Seeds, S!MintsPage(r) PROVE AddrInv'
  BY <1>4, MintsPageAddr
<1>5. ASSUME NEW r \in Saves, S!SaveReads(r) \/ S!Upserts(r) PROVE AddrInv'
  BY <1>5, SaveReadsAddr, UpsertsAddr
<1>6. ASSUME NEW r \in Namings, S!Names(r) \/ S!Renames(r) \/ S!Lays(r) PROVE AddrInv'
  BY <1>6, NamesStep, RenamesStep, LaysStep
<1>7. ASSUME NEW r \in Tokens, S!IssuesToken(r) PROVE AddrInv'
  BY <1>7, IssuesTokenStep
<1>8. ASSUME NEW r \in Takes, S!TakesOver(r) PROVE AddrInv'
  BY <1>8, TakesOverStep
<1>9. CASE S!SweepStep
  BY <1>9, SweepStepAddr
<1>10. CASE UNCHANGED S!vars
  BY <1>10 DEF S!vars, AddrInv, Rows, Tabled, Around, Doors, AtDoor, S!DomainOf, Links, Stands, Held
<1> QED BY <1>1, <1>2, <1>3, <1>4, <1>5, <1>6, <1>7, <1>8, <1>9, <1>10 DEF S!Next

LEMMA AddrInvariant == S!Spec => []AddrInv
BY AddrInit, AddrNext, PTL DEF S!Spec

\* The tables of the status pages are as the schema keeps them: slugs are unique and
\* what refers to a row finds it (status_page, project, removetoken.go).
THEOREM AddressTypeCorrect == S!Spec => []S!TypeOK
<1>1. AddrInv => S!TypeOK
  <2> SUFFICES ASSUME AddrInv PROVE S!TypeOK
    OBVIOUS
  <2>1. \A i \in DOMAIN pages : pages[i] \in PageRow /\ pages[i].project \in DOMAIN named
                                /\ pages[i].settings \in {0} \cup DOMAIN named /\ pages[i].before \subseteq DOMAIN pages
    BY Indexed DEF AddrInv, Rows, Tabled
  <2>2. \A i \in DOMAIN pages : pages[i] \in
          [slug : S!Slugs, project : DOMAIN named, host : BOOLEAN, root : Hosts \cup {S!Nobody}, removed : BOOLEAN,
           token : BOOLEAN, from : Visits \cup {S!Nobody}, settings : {0} \cup DOMAIN named, before : SUBSET DOMAIN pages]
    BY <2>1 DEF PageRow
  <2>3. \A p \in DOMAIN named : named[p] \in [domain : Hosts \cup {S!Nobody}, claimed : BOOLEAN]
    BY Indexed DEF AddrInv, Rows, ProjectRow
  <2>4. answered \subseteq S!Slugs
    BY DEF AddrInv, Links, Stands
  <2> QED BY <2>2, <2>3, <2>4 DEF S!TypeOK, AddrInv, Rows, Around, S!None
<1> QED BY <1>1, AddrInvariant, PTL

\* The watch door makes no second host page beside one that was live when its probe
\* ended (publicWatch, upsertWatchPage).
THEOREM NoSecondHostPage == S!Spec => []HostPageWasFree
<1>1. AddrInv => HostPageWasFree
  BY DEF AddrInv, Rows, HostPageWasFree, S!HostPageWasFree
<1> QED BY <1>1, AddrInvariant, PTL

\* An address a door has handed out keeps leading to a page
\* (upsertWatchPage, nameProjectIfUnnamed, publicStatus).
THEOREM LinksLast == S!Spec => []SharedLinkStands
<1>1. AddrInv => SharedLinkStands
  BY HolderIs DEF AddrInv, Links, Stands, SharedLinkStands, S!SharedLinkStands
<1> QED BY <1>1, AddrInvariant, PTL

-----------------------------------------------------------------------------
(* A page on its owner's own host (CustomDomain).                            *)

\* A request in hand is of a page, and once past its save of a domain; a lookup that
\* answered yes was of the page's very row, which the history keeps; so a verified
\* page's domain is one this page has proved. The stamp of a grace is never older
\* than the time the sweep has not found the plan carrying.
AskInHand(r) ==
  /\ ask[r].pc # "idle" => ask[r].page \in Pages
  /\ ask[r].pc \in {"resolve", "proved", "refuted"} => ask[r].domain \in Domains
  /\ ask[r].pc = "proved" => <<ask[r].page, ask[r].domain>> \in proved

HostInv ==
  /\ D!TypeOK
  /\ \A r \in Saves \cup Checks : AskInHand(r)
  /\ \A p \in Pages : page[p].verified => <<p, page[p].domain>> \in proved
  /\ \A p \in Pages : D!Lapsed(p) => page[p].lapsed <= unseen[p]

Ask == [pc : {"idle", "save", "resolve", "proved", "refuted"},
        page : Pages \cup {D!Unbound}, domain : Domains \cup {D!Unbound}, stands : BOOLEAN]
Row == [domain : Domains \cup {D!Unbound}, verified : BOOLEAN, lapsed : 0..D!Never]

\* One request moves on, and what it has in hand is so.
LEMMA AskMoves ==
  ASSUME HostInv, NEW r \in Saves \cup Checks, NEW s \in Ask, ask' = [ask EXCEPT ![r] = s], proved \subseteq proved',
         s.pc # "idle" => s.page \in Pages,
         s.pc \in {"resolve", "proved", "refuted"} => s.domain \in Domains,
         s.pc = "proved" => <<s.page, s.domain>> \in proved'
  PROVE  ask' \in [Saves \cup Checks -> Ask] /\ \A q \in Saves \cup Checks : AskInHand(q)'
<1>1. ask \in [Saves \cup Checks -> Ask]
  BY DEF HostInv, D!TypeOK, Ask
<1>2. ask' \in [Saves \cup Checks -> Ask] /\ \A q \in Saves \cup Checks : ask'[q] = IF q = r THEN s ELSE ask[q]
  BY <1>1
<1>3. ASSUME NEW q \in Saves \cup Checks PROVE AskInHand(q)'
  BY <1>2, <1>3 DEF HostInv, AskInHand
<1> QED BY <1>2, <1>3

LEMMA IdleAsk ==
  /\ D!Idle \in Ask /\ D!Idle.pc = "idle"
BY DEF D!Idle, Ask

\* One request moves on and no row changes.
LEMMA AskStep ==
  ASSUME HostInv, NEW r \in Saves \cup Checks, NEW s \in Ask, ask' = [ask EXCEPT ![r] = s],
         proved \subseteq proved', proved' \subseteq Pages \X Domains, requests' \in 0..MaxRequests,
         UNCHANGED <<page, carried, stage, unseen, turns>>,
         s.pc # "idle" => s.page \in Pages,
         s.pc \in {"resolve", "proved", "refuted"} => s.domain \in Domains,
         s.pc = "proved" => <<s.page, s.domain>> \in proved'
  PROVE  HostInv'
<1>1. ask' \in [Saves \cup Checks -> Ask] /\ \A q \in Saves \cup Checks : AskInHand(q)'
  BY AskMoves
<1>2. D!TypeOK'
  BY <1>1 DEF HostInv, D!TypeOK, Ask
<1>3. \A p \in Pages : (page[p].verified => <<p, page[p].domain>> \in proved)'
  BY DEF HostInv
<1>4. \A p \in Pages : (D!Lapsed(p) => page[p].lapsed <= unseen[p])'
  BY DEF HostInv, D!Lapsed
<1> QED BY <1>1, <1>2, <1>3, <1>4 DEF HostInv

\* Rows change, and no request does.
LEMMA RowStep ==
  ASSUME HostInv, UNCHANGED <<ask, proved, requests>>,
         page' \in [Pages -> Row],
         \A p \in Pages : \/ page'[p].domain = page[p].domain /\ (page'[p].verified => page[p].verified)
                          \/ page'[p].domain = D!Unbound /\ ~page'[p].verified,
         carried' \subseteq Pages, stage' \in 1..3, unseen' \in [Pages -> 0..GraceDays], turns' \in 0..MaxTurns,
         \A p \in Pages : page'[p].lapsed # D!Never => page'[p].lapsed <= unseen'[p]
  PROVE  HostInv'
<1>1. \A p, q \in Pages : page'[p].domain = page'[q].domain /\ p # q => page'[p].domain = D!Unbound
  BY DEF HostInv, D!TypeOK
<1>2. D!TypeOK'
  BY <1>1 DEF HostInv, D!TypeOK, Row
<1>3. \A r \in Saves \cup Checks : AskInHand(r)'
  BY DEF HostInv, AskInHand
<1>4. \A p \in Pages : (page[p].verified => <<p, page[p].domain>> \in proved)'
  BY DEF HostInv
<1>5. \A p \in Pages : (D!Lapsed(p) => page[p].lapsed <= unseen[p])'
  BY DEF D!Lapsed
<1> QED BY <1>2, <1>3, <1>4, <1>5 DEF HostInv

LEMMA RowIs == HostInv => page \in [Pages -> Row]
BY DEF HostInv, D!TypeOK, Row

LEMMA SaveReadsStep ==
  ASSUME HostInv, NEW r \in Saves, D!SaveReads(r) PROVE HostInv'
<1>1. PICK p \in Pages, d \in Domains \cup {D!Unbound} :
        /\ requests < MaxRequests /\ requests' = requests + 1
        /\ ask' = [ask EXCEPT ![r] = [pc |-> "save", page |-> p, domain |-> d,
                                      stands |-> page[p].verified /\ d = page[p].domain]]
        /\ UNCHANGED <<page, carried, stage, proved, unseen, turns>>
  BY DEF D!SaveReads, D!Arrives, D!Become, D!Tables
<1> DEFINE s == [pc |-> "save", page |-> p, domain |-> d, stands |-> page[p].verified /\ d = page[p].domain]
<1>2. (page[p].verified /\ d = page[p].domain) \in BOOLEAN
  OBVIOUS
<1>3. s \in Ask /\ s.pc = "save" /\ s.page = p
  BY <1>2 DEF Ask
<1>4. requests' \in 0..MaxRequests /\ proved' \subseteq Pages \X Domains
  BY <1>1, HoldingsAssumption DEF HostInv, D!TypeOK, D!CustomDomainAssumption
<1> HIDE DEF s
<1>5. ask' = [ask EXCEPT ![r] = s]
  BY <1>1 DEF s
<1> QED BY <1>1, <1>3, <1>4, <1>5, AskStep

LEMMA CheckReadsStep ==
  ASSUME HostInv, NEW r \in Checks, D!CheckReads(r) PROVE HostInv'
<1>1. PICK p \in Pages :
        /\ requests < MaxRequests /\ requests' = requests + 1
        /\ page[p].domain # D!Unbound
        /\ ask' = [ask EXCEPT ![r] = [pc |-> "resolve", page |-> p, domain |-> page[p].domain, stands |-> FALSE]]
        /\ UNCHANGED <<page, carried, stage, proved, unseen, turns>>
  BY DEF D!CheckReads, D!Arrives, D!Become, D!Tables
<1> DEFINE s == [pc |-> "resolve", page |-> p, domain |-> page[p].domain, stands |-> FALSE]
<1>2. page[p].domain \in Domains
  BY <1>1, RowIs DEF Row
<1>3. s \in Ask /\ s.pc = "resolve" /\ s.page = p /\ s.domain \in Domains
  BY <1>2 DEF Ask
<1>4. requests' \in 0..MaxRequests /\ proved' \subseteq Pages \X Domains
  BY <1>1, HoldingsAssumption DEF HostInv, D!TypeOK, D!CustomDomainAssumption
<1> HIDE DEF s
<1>5. ask' = [ask EXCEPT ![r] = s]
  BY <1>1 DEF s
<1> QED BY <1>1, <1>3, <1>4, <1>5, AskStep

LEMMA ProofStep ==
  ASSUME HostInv, NEW r \in Saves \cup Checks, D!Resolves(r) PROVE HostInv'
<1> DEFINE p == ask[r].page  d == ask[r].domain
           s(w) == [ask[r] EXCEPT !.pc = w]
<1>1. ask[r] \in Ask /\ ask[r].pc = "resolve" /\ p \in Pages /\ d \in Domains
  BY DEF D!Resolves, HostInv, AskInHand, D!TypeOK, Ask
<1>2. \A w \in {"proved", "refuted"} : s(w) \in Ask /\ s(w).pc = w /\ s(w).page = p /\ s(w).domain = d
  BY <1>1 DEF Ask
<1>3. UNCHANGED <<page, carried, stage, unseen, turns, requests>>
  BY DEF D!Resolves
<1>4. proved \subseteq Pages \X Domains /\ requests \in 0..MaxRequests
  BY DEF HostInv, D!TypeOK
<1>5. \/ ask' = [ask EXCEPT ![r] = s("proved")] /\ proved' = proved \cup {<<p, d>>}
      \/ ask' = [ask EXCEPT ![r] = s("refuted")] /\ proved' = proved
  BY DEF D!Resolves, D!Become
<1> HIDE DEF s
<1>6. CASE ask' = [ask EXCEPT ![r] = s("proved")] /\ proved' = proved \cup {<<p, d>>}
  <2>1. proved' \subseteq Pages \X Domains /\ proved \subseteq proved' /\ <<p, d>> \in proved'
    BY <1>1, <1>4, <1>6
  <2> QED BY <1>1, <1>2, <1>3, <1>4, <1>6, <2>1, AskStep
<1>7. CASE ask' = [ask EXCEPT ![r] = s("refuted")] /\ proved' = proved
  BY <1>1, <1>2, <1>3, <1>4, <1>7, AskStep
<1> QED BY <1>5, <1>6, <1>7

\* A save binds a host no other page has, and its proof stays only with the host.
LEMMA UpsertsStep ==
  ASSUME HostInv, NEW r \in Saves, D!Upserts(r) PROVE HostInv'
<1> DEFINE p == ask[r].page  d == ask[r].domain
           row == [page[p] EXCEPT !.domain = d, !.verified = @ /\ d # D!Unbound /\ d = page[p].domain]
           s == IF d # D!Unbound /\ ~ask[r].stands THEN [ask[r] EXCEPT !.pc = "resolve"] ELSE D!Idle
<1>1. ask[r] \in Ask /\ ask[r].pc = "save" /\ p \in Pages /\ d \in Domains \cup {D!Unbound}
  BY DEF D!Upserts, HostInv, AskInHand, D!TypeOK, Ask
<1>2. UNCHANGED <<carried, stage, proved, unseen, turns, requests>>
  BY DEF D!Upserts
<1>3. proved \subseteq Pages \X Domains /\ requests \in 0..MaxRequests
  BY DEF HostInv, D!TypeOK
<1>4. page \in [Pages -> Row]
  BY RowIs
<1>5. CASE ask' = [ask EXCEPT ![r] = D!Idle] /\ UNCHANGED page
  BY <1>2, <1>3, <1>5, IdleAsk, AskStep
<1>6. CASE /\ d = D!Unbound \/ \A q \in Pages \ {p} : page[q].domain # d
           /\ page' = [page EXCEPT ![p] = row] /\ ask' = [ask EXCEPT ![r] = s]
  <2>1. row \in Row /\ row.domain = d /\ row.lapsed = page[p].lapsed
        /\ (row.verified => page[p].verified /\ d = page[p].domain)
    <3> DEFINE old == page[p]
               verified == old.verified /\ d # D!Unbound /\ d = old.domain
    <3>1. old \in Row
      BY <1>1, <1>4
    <3>2. verified \in BOOLEAN /\ row = [old EXCEPT !.domain = d, !.verified = verified]
      BY <3>1 DEF Row
    <3>3. verified => page[p].verified /\ d = page[p].domain
      OBVIOUS
    <3>4. old.lapsed = page[p].lapsed
      OBVIOUS
    <3> HIDE DEF old, verified, row, d
    <3> QED BY <1>1, <3>1, <3>2, <3>3, <3>4 DEF Row
  <2>2. s \in Ask /\ (s.pc # "idle" => s.pc = "resolve" /\ s.page = p /\ s.domain \in Domains)
    BY <1>1, IdleAsk DEF Ask
  <2> HIDE DEF s, row
  <2>3. ask' \in [Saves \cup Checks -> Ask] /\ \A q \in Saves \cup Checks : AskInHand(q)'
    BY <1>1, <1>2, <1>6, <2>2, AskMoves
  <2>4. page' \in [Pages -> Row] /\ \A q \in Pages : page'[q] = IF q = p THEN row ELSE page[q]
    BY <1>1, <1>4, <1>6, <2>1
  <2>5. \A q, o \in Pages : page'[q].domain = page'[o].domain /\ q # o => page'[q].domain = D!Unbound
    BY <1>6, <2>1, <2>4 DEF HostInv, D!TypeOK
  <2>6. D!TypeOK'
    BY <1>2, <2>3, <2>4, <2>5 DEF HostInv, D!TypeOK, Ask, Row
  <2>7. \A q \in Pages : (page[q].verified => <<q, page[q].domain>> \in proved)'
    BY <1>1, <1>2, <2>1, <2>4 DEF HostInv
  <2>8. \A q \in Pages : (D!Lapsed(q) => page[q].lapsed <= unseen[q])'
    BY <1>1, <1>2, <2>1, <2>4 DEF HostInv, D!Lapsed
  <2> QED BY <2>3, <2>6, <2>7, <2>8 DEF HostInv
<1>7. \/ ask' = [ask EXCEPT ![r] = D!Idle] /\ UNCHANGED page
      \/ /\ d = D!Unbound \/ \A q \in Pages \ {p} : page[q].domain # d
         /\ page' = [page EXCEPT ![p] = row] /\ ask' = [ask EXCEPT ![r] = s]
  BY DEF D!Upserts, D!Become
<1> QED BY <1>5, <1>6, <1>7

\* The answer of a lookup goes to the row only while it is bound to the host looked up.
LEMMA StampsStep ==
  ASSUME HostInv, NEW r \in Saves \cup Checks, D!Stamps(r) PROVE HostInv'
<1> DEFINE p == ask[r].page  d == ask[r].domain
           row == [page[p] EXCEPT !.verified = (ask[r].pc = "proved")]
<1>1. p \in Pages /\ d \in Domains /\ ask[r].pc \in {"proved", "refuted"}
  BY DEF D!Stamps, HostInv, AskInHand
<1>2. UNCHANGED <<carried, stage, proved, unseen, turns, requests>> /\ ask' = [ask EXCEPT ![r] = D!Idle]
  BY DEF D!Stamps, D!Become
<1>3. proved \subseteq Pages \X Domains /\ requests \in 0..MaxRequests
  BY DEF HostInv, D!TypeOK
<1>4. page \in [Pages -> Row]
  BY RowIs
<1>5. page' = IF page[p].domain = d THEN [page EXCEPT ![p] = row] ELSE page
  BY DEF D!Stamps, D!Stamped
<1>6. CASE page' = page
  BY <1>2, <1>3, <1>6, IdleAsk, AskStep
<1>7. CASE page[p].domain = d /\ page' = [page EXCEPT ![p] = row]
  <2>1. row \in Row /\ row.domain = d /\ row.lapsed = page[p].lapsed /\ (row.verified <=> ask[r].pc = "proved")
    BY <1>1, <1>4, <1>7 DEF Row
  <2> HIDE DEF row
  <2>2. ask' \in [Saves \cup Checks -> Ask] /\ \A q \in Saves \cup Checks : AskInHand(q)'
    BY <1>2, IdleAsk, AskMoves
  <2>3. page' \in [Pages -> Row] /\ \A q \in Pages : page'[q] = IF q = p THEN row ELSE page[q]
    BY <1>1, <1>4, <1>7, <2>1
  <2>4. \A q \in Pages : page'[q].domain = page[q].domain /\ page'[q].lapsed = page[q].lapsed
    BY <1>7, <2>1, <2>3
  <2>5. D!TypeOK'
    BY <1>2, <2>2, <2>3, <2>4 DEF HostInv, D!TypeOK, Ask, Row
  <2>6. \A q \in Pages : (page[q].verified => <<q, page[q].domain>> \in proved)'
    BY <1>1, <1>2, <2>1, <2>3, <2>4 DEF HostInv, AskInHand
  <2>7. \A q \in Pages : (D!Lapsed(q) => page[q].lapsed <= unseen[q])'
    BY <1>2, <2>4 DEF HostInv, D!Lapsed
  <2> QED BY <2>2, <2>5, <2>6, <2>7 DEF HostInv
<1> QED BY <1>5, <1>6, <1>7

LEMMA SweepClearsStep ==
  ASSUME HostInv, D!SweepClears PROVE HostInv'
<1>1. page \in [Pages -> Row] /\ unseen \in [Pages -> 0..GraceDays] /\ GraceDays \in Nat
  BY RowIs, HoldingsAssumption DEF HostInv, D!TypeOK, D!CustomDomainAssumption
<1>2. page' = [p \in Pages |-> IF p \in D!Forgiven THEN [page[p] EXCEPT !.lapsed = D!Never] ELSE page[p]]
  BY DEF D!SweepClears, D!Marked
<1>3. \A p \in Pages : /\ page'[p] \in Row /\ page'[p].domain = page[p].domain
                       /\ page'[p].verified = page[p].verified
                       /\ page'[p].lapsed = IF p \in D!Forgiven THEN D!Never ELSE page[p].lapsed
  BY <1>1, <1>2 DEF Row, D!Never
<1>4. unseen' = [p \in Pages |-> IF p \in carried THEN 0 ELSE unseen[p]]
  BY DEF D!SweepClears
<1>5. \A p \in Pages : page'[p].lapsed # D!Never => page'[p].lapsed <= unseen'[p]
  BY <1>3, <1>4 DEF HostInv, D!Forgiven, D!Lapsed
<1>6. unseen' \in [Pages -> 0..GraceDays]
  BY <1>1, <1>4
<1>7. page' \in [Pages -> Row]
  BY <1>2, <1>3
<1> QED BY <1>3, <1>5, <1>6, <1>7, RowStep DEF D!SweepClears, HostInv, D!TypeOK

LEMMA SweepStampsStep ==
  ASSUME HostInv, D!SweepStamps PROVE HostInv'
<1> DEFINE ps == {p \in Pages \ carried : ~D!Lapsed(p) /\ page[p].domain # D!Unbound}
<1>1. page \in [Pages -> Row] /\ unseen \in [Pages -> 0..GraceDays] /\ GraceDays \in Nat
  BY RowIs, HoldingsAssumption DEF HostInv, D!TypeOK, D!CustomDomainAssumption
<1>2. page' = [p \in Pages |-> IF p \in ps THEN [page[p] EXCEPT !.lapsed = 0] ELSE page[p]]
  BY DEF D!SweepStamps, D!Marked
<1> HIDE DEF ps
<1>3. \A p \in Pages : /\ page'[p] \in Row /\ page'[p].domain = page[p].domain
                       /\ page'[p].verified = page[p].verified
                       /\ page'[p].lapsed = IF p \in ps THEN 0 ELSE page[p].lapsed
  BY <1>1, <1>2 DEF Row, D!Never
<1>4. \A p \in Pages : page'[p].lapsed # D!Never => page'[p].lapsed <= unseen'[p]
  BY <1>1, <1>3 DEF D!SweepStamps, HostInv, D!Lapsed
<1>5. page' \in [Pages -> Row]
  BY <1>2, <1>3
<1>6. UNCHANGED <<ask, proved, requests>> /\ carried' = carried /\ stage' = 3 /\ unseen' = unseen /\ turns' = turns
  BY DEF D!SweepStamps
<1>7. carried \subseteq Pages /\ turns \in 0..MaxTurns
  BY DEF HostInv, D!TypeOK
<1>8. \A p \in Pages : \/ page'[p].domain = page[p].domain /\ (page'[p].verified => page[p].verified)
                       \/ page'[p].domain = D!Unbound /\ ~page'[p].verified
  BY <1>3, Zenon
<1> QED BY <1>1, <1>4, <1>5, <1>6, <1>7, <1>8, RowStep

LEMMA SweepUnbindsStep ==
  ASSUME HostInv, D!SweepUnbinds PROVE HostInv'
<1> DEFINE free == [domain |-> D!Unbound, verified |-> FALSE, lapsed |-> D!Never]
<1>1. page \in [Pages -> Row] /\ GraceDays \in Nat
  BY RowIs, HoldingsAssumption DEF D!CustomDomainAssumption
<1>2. page' = [p \in Pages |-> IF p \in D!Overdue THEN free ELSE page[p]]
  BY DEF D!SweepUnbinds
<1>3. free \in Row /\ free.domain = D!Unbound /\ free.verified = FALSE /\ free.lapsed = D!Never
  BY <1>1 DEF Row, D!Never
<1> HIDE DEF free
<1>4. page' \in [Pages -> Row] /\ \A p \in Pages : page'[p] = IF p \in D!Overdue THEN free ELSE page[p]
  BY <1>1, <1>2, <1>3
<1>5. \A p \in Pages : page'[p].lapsed # D!Never => page'[p].lapsed <= unseen'[p]
  BY <1>3, <1>4 DEF D!SweepUnbinds, HostInv, D!Lapsed
<1>6. \A p \in Pages : \/ page'[p].domain = page[p].domain /\ (page'[p].verified => page[p].verified)
                       \/ page'[p].domain = D!Unbound /\ ~page'[p].verified
  BY <1>3, <1>4
<1>7. UNCHANGED <<carried, ask, proved, unseen, turns, requests>> /\ stage' \in 1..3
  BY DEF D!SweepUnbinds
<1>8. carried' \subseteq Pages /\ unseen' \in [Pages -> 0..GraceDays] /\ turns' \in 0..MaxTurns
  BY <1>7 DEF HostInv, D!TypeOK
<1> QED BY <1>4, <1>5, <1>6, <1>7, <1>8, RowStep

LEMMA DayStep ==
  ASSUME HostInv, D!Day PROVE HostInv'
<1>1. page \in [Pages -> Row] /\ unseen \in [Pages -> 0..GraceDays] /\ GraceDays \in Nat
  BY RowIs, HoldingsAssumption DEF HostInv, D!TypeOK, D!CustomDomainAssumption
<1>2. \A n \in 0..GraceDays : D!Older(n) \in 0..GraceDays /\ \A m \in 0..GraceDays : m <= n => D!Older(m) <= D!Older(n)
  BY <1>1 DEF D!Older
<1>3. page' = [p \in Pages |-> IF D!Lapsed(p) THEN [page[p] EXCEPT !.lapsed = D!Older(page[p].lapsed)] ELSE page[p]]
  BY DEF D!Day
<1>4. unseen' = [p \in Pages |-> D!Older(unseen[p])]
  BY DEF D!Day
<1>5. \A p \in Pages : D!Lapsed(p) => page[p].lapsed \in 0..GraceDays /\ page[p].lapsed <= unseen[p]
  BY <1>1 DEF HostInv, D!Lapsed, D!Never, Row
<1>6. \A p \in Pages : D!Lapsed(p) => D!Older(page[p].lapsed) \in 0..D!Never
  BY <1>1, <1>2, <1>5 DEF D!Never
<1>7. \A p \in Pages : /\ page'[p] \in Row /\ page'[p].domain = page[p].domain
                       /\ page'[p].verified = page[p].verified
                       /\ page'[p].lapsed = IF D!Lapsed(p) THEN D!Older(page[p].lapsed) ELSE page[p].lapsed
  BY <1>1, <1>3, <1>6 DEF Row
<1>8. \A p \in Pages : page'[p].lapsed # D!Never => page'[p].lapsed <= unseen'[p]
  <2> TAKE p \in Pages
  <2>1. CASE D!Lapsed(p)
    <3>1. unseen'[p] = D!Older(unseen[p]) /\ page'[p].lapsed = D!Older(page[p].lapsed) /\ unseen[p] \in 0..GraceDays
      BY <1>1, <1>4, <1>7, <2>1
    <3> QED BY <1>2, <1>5, <2>1, <3>1
  <2>2. CASE ~D!Lapsed(p)
    BY <1>7, <2>2 DEF D!Lapsed
  <2> QED BY <2>1, <2>2
<1>9. unseen' \in [Pages -> 0..GraceDays]
  BY <1>1, <1>2, <1>4
<1>10. page' \in [Pages -> Row]
  BY <1>3, <1>7
<1> QED BY <1>7, <1>8, <1>9, <1>10, RowStep DEF D!Day, HostInv, D!TypeOK

LEMMA PlanStep ==
  ASSUME HostInv, D!SweepFails \/ (\E p \in Pages : D!Buys(p)) \/ UNCHANGED D!vars PROVE HostInv'
<1>1. page' = page /\ unseen' = unseen /\ UNCHANGED <<ask, proved, requests>>
  BY DEF D!SweepFails, D!Buys, D!vars
<1>2. carried' \subseteq Pages /\ stage' \in 1..3 /\ turns' \in 0..MaxTurns
  BY HoldingsAssumption DEF D!SweepFails, D!Buys, D!vars, HostInv, D!TypeOK, D!CustomDomainAssumption
<1>3. page' \in [Pages -> Row] /\ unseen' \in [Pages -> 0..GraceDays]
  BY <1>1, RowIs DEF HostInv, D!TypeOK
<1>4. \A p \in Pages : page'[p].lapsed # D!Never => page'[p].lapsed <= unseen'[p]
  BY <1>1 DEF HostInv, D!Lapsed
<1> QED BY <1>1, <1>2, <1>3, <1>4, RowStep

LEMMA HostInit == D!Init => HostInv
<1> SUFFICES ASSUME D!Init PROVE HostInv
  OBVIOUS
<1>1. GraceDays \in Nat /\ MaxTurns \in Nat /\ MaxRequests \in Nat
  BY HoldingsAssumption DEF D!CustomDomainAssumption
<1>9. page \in [Pages -> [domain : Domains \cup {D!Unbound}, verified : {FALSE}, lapsed : {D!Never}]]
  BY DEF D!Init
<1>2. page \in [Pages -> Row] /\ \A p \in Pages : page[p].verified = FALSE /\ page[p].lapsed = D!Never
  <2>1. D!Never \in 0..D!Never
    BY <1>1 DEF D!Never
  <2>2. \A x \in [domain : Domains \cup {D!Unbound}, verified : {FALSE}, lapsed : {D!Never}] :
          x \in Row /\ x.verified = FALSE /\ x.lapsed = D!Never
    BY <2>1 DEF Row
  <2> QED BY <1>9, <2>2
<1>3. \A p, q \in Pages : page[p].domain = page[q].domain /\ p # q => page[p].domain = D!Unbound
  BY DEF D!Init
<1>4. ask \in [Saves \cup Checks -> Ask] /\ \A r \in Saves \cup Checks : ask[r].pc = "idle"
  BY IdleAsk DEF D!Init
<1>5. unseen \in [Pages -> 0..GraceDays]
  BY <1>1 DEF D!Init
<1>6. D!TypeOK
  BY <1>1, <1>2, <1>3, <1>4, <1>5 DEF D!Init, D!TypeOK, Row, Ask
<1> QED BY <1>2, <1>4, <1>6 DEF HostInv, AskInHand, D!Lapsed

LEMMA HostNext == HostInv /\ [D!Next]_D!vars => HostInv'
<1> SUFFICES ASSUME HostInv, [D!Next]_D!vars PROVE HostInv'
  OBVIOUS
<1>1. ASSUME NEW r \in Saves, D!SaveReads(r) \/ D!Upserts(r) PROVE HostInv'
  BY <1>1, SaveReadsStep, UpsertsStep
<1>2. ASSUME NEW r \in Checks, D!CheckReads(r) PROVE HostInv'
  BY <1>2, CheckReadsStep
<1>3. ASSUME NEW r \in Saves \cup Checks, D!Resolves(r) \/ D!Stamps(r) PROVE HostInv'
  BY <1>3, ProofStep, StampsStep
<1>4. CASE D!SweepClears
  BY <1>4, SweepClearsStep
<1>5. CASE D!SweepStamps
  BY <1>5, SweepStampsStep
<1>6. CASE D!SweepUnbinds
  BY <1>6, SweepUnbindsStep
<1>7. CASE D!Day
  BY <1>7, DayStep
<1>8. CASE D!SweepFails \/ (\E p \in Pages : D!Buys(p)) \/ UNCHANGED D!vars
  BY <1>8, PlanStep
<1> QED BY <1>1, <1>2, <1>3, <1>4, <1>5, <1>6, <1>7, <1>8 DEF D!Next

LEMMA HostInvariant == D!Spec => []HostInv
BY HostInit, HostNext, PTL DEF D!Spec

\* The rows and requests of a page's own host stay what the tables and the handlers
\* allow, and no two pages are bound to one host.
THEOREM HostTypeCorrect == D!Spec => []D!TypeOK
<1>1. HostInv => D!TypeOK
  BY DEF HostInv
<1> QED BY <1>1, HostInvariant, PTL

\* A certificate is issued only for a host whose DNS its page has seen pointing at us,
\* whatever saves and lookups overlap (verifyStatusDomain, putStatusPage, domainAllowed).
THEOREM CertificatesAreProved == D!Spec => []AllowedIsProved
<1>1. HostInv => AllowedIsProved
  BY DEF HostInv, AllowedIsProved, D!AllowedIsProved, D!Allowed
<1> QED BY <1>1, HostInvariant, PTL

\* The sweep takes a domain away only after the days of grace (DomainGraceSweep).
THEOREM GraceIsKept == D!Spec => UnboundAfterGrace
<1>1. ASSUME HostInv, [D!Next]_D!vars
      PROVE  [\A p \in Pages : stage = 3 /\ stage' = 1 /\ page[p].domain # D!Unbound /\ page'[p].domain = D!Unbound
               => unseen[p] >= GraceDays]_D!vars
  <2> SUFFICES ASSUME D!Next, NEW p \in Pages, stage = 3, stage' = 1,
                      page[p].domain # D!Unbound, page'[p].domain = D!Unbound
               PROVE  unseen[p] >= GraceDays
    BY <1>1 DEF D!vars
  <2>1. D!SweepUnbinds
    BY DEF D!Next, D!SaveReads, D!Upserts, D!CheckReads, D!Resolves, D!Stamps, D!Tables, D!SweepClears, D!SweepStamps,
           D!SweepFails, D!Day, D!Buys
  <2>2. p \in D!Overdue
    BY <2>1 DEF D!SweepUnbinds
  <2> QED BY <1>1, <2>2, HoldingsAssumption DEF D!Overdue, HostInv, D!TypeOK, D!CustomDomainAssumption
<1> QED BY <1>1, HostInvariant, PTL DEF D!Spec, UnboundAfterGrace, D!UnboundAfterGrace
=============================================================================
