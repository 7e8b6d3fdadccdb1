------------------------------- MODULE Holdings -------------------------------
(***************************************************************************)
(* What a person can own: projects (Ownership), the addresses of status        *)
(* pages (StatusPages) and a page's own host (CustomDomain). Each is a model    *)
(* of its own: what it reads of the others' rows it models itself, as          *)
(* StatusPages does the claim of a project (TakesOver).                        *)
(***************************************************************************)
EXTENDS Ownership

CONSTANTS
  Hosts, Registrable, Accounts, Visits, Seeds, Saves, Namings, Takes, Tokens, Address, Endings,
  PerAddress, PerDay, HostPagesMax, MaxFaults,
  Pages, Domains, Checks, GraceDays, MaxTurns, MaxRequests

VARIABLES
  pages, named, home, watched, blocked, sweep, door, answered, faults,
  page, carried, ask, stage, proved, unseen, turns, requests

addresses == <<pages, named, home, watched, blocked, sweep, door, answered, faults>>
ownHosts == <<page, carried, ask, stage, proved, unseen, turns, requests>>

S == INSTANCE StatusPages WITH projects <- named, req <- door
D == INSTANCE CustomDomain

ASSUME HoldingsAssumption == S!StatusPagesAssumption /\ D!CustomDomainAssumption

\* The watch door makes no second host page beside one that was live when its probe
\* ended (publicWatch, upsertWatchPage).
HostPageWasFree == S!HostPageWasFree

\* An address a door has handed out keeps leading to a page (upsertWatchPage,
\* nameProjectIfUnnamed, publicStatus).
SharedLinkStands == S!SharedLinkStands

\* A certificate is issued only for a host whose DNS its page has seen pointing at us
\* (verifyStatusDomain, putStatusPage, domainAllowed).
AllowedIsProved == D!AllowedIsProved

\* The sweep takes a domain away only after the days of grace (DomainGraceSweep).
UnboundAfterGrace == D!UnboundAfterGrace
=============================================================================
