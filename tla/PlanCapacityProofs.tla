-------------------------- MODULE PlanCapacityProofs --------------------------
(***************************************************************************)
(* Theorems of PlanCapacity for any number of projects, checks and plans:     *)
(* what the sweeps may do to an owner's pause, that every outage is announced *)
(* while no statement fails, that no run pauses a check and pages it, that    *)
(* what is settled stays settled, and that every run comes to an end.         *)
(***************************************************************************)
EXTENDS PlanCapacity, FiniteSetTheorems, TLAPS

-----------------------------------------------------------------------------
(* Types, with what the place of a run says of the rest of its record.       *)

\* What was thawed is known once the freeze is written, what a cut writes are
\* checks, and a page is in hand only at its insert, and then off the list.
Fits(x) ==
  /\ x \in Run
  /\ x.pc \in {"idle", "rank", "freeze"} => x.thawed = {}
  /\ x.pc = "cut" => x.stop \subseteq Monitors /\ x.start \subseteq Monitors
  /\ (x.pc = "queue") <=> (x.cur # None)
  /\ x.cur \notin x.todo
  /\ x.pc \notin {"thawed", "page", "queue"} => x.paged = {}

Typed ==
  /\ TypeOK
  /\ \A r \in Runs : Fits(run[r])
  /\ patch.pc # "idle" => patch.m \in Monitors

LEMMA IdleRunFits == Fits(IdleRun)
BY DEF IdleRun, Run, Fits

\* A step of one run leaves the other where it is.
LEMMA StepHolds ==
  ASSUME Typed, NEW r \in Runs, NEW x, Fits(x), Step(r, x)
  PROVE  /\ run' \in [Runs -> Run] /\ \A q \in Runs : Fits(run'[q])
         /\ run'[r] = x /\ \A q \in Runs \ {r} : run'[q] = run[q]
BY DEF Step, Typed, TypeOK, Fits

LEMMA FaultType ==
  ASSUME TypeOK, Fault \/ NoFault
  PROVE  faults' \in 0..MaxFaults
BY PlanCapacityAssumption DEF TypeOK, Fault, NoFault

\* The freeze and the budget, each at its snapshot and at its write.
LEMMA RankTyped ==
  ASSUME Typed, NEW r \in Runs, NEW newest, Ranks(r, newest)
  PROVE  Typed'
<1> DEFINE stop == {p \in Live : Place(p, newest) > plan.projects}
           start == {p \in Kept \ Live : Place(p, newest) <= plan.projects}
           x == [run[r] EXCEPT !.pc = "freeze", !.stop = stop, !.start = start]
<1>1. Fits(run[r]) /\ run[r].pc = "rank" /\ Step(r, x)
  BY DEF Typed, Ranks, At
<1>2. stop \in SUBSET (Projects \cup Monitors) /\ start \in SUBSET (Projects \cup Monitors)
  BY DEF Live, Kept
<1> HIDE DEF stop, start
<1>3. Fits(x)
  BY <1>1, <1>2 DEF Fits, Run
<1> HIDE DEF x
<1> QED BY <1>1, <1>3, StepHolds DEF Ranks, Typed, TypeOK, rows

LEMMA FreezeTyped ==
  ASSUME Typed, NEW r \in Runs, Freezes(r)
  PROVE  Typed'
<1> DEFINE thaw == run[r].start \cap (Kept \ Live)
           x == [run[r] EXCEPT !.pc = "budget", !.stop = {}, !.start = {}, !.thawed = thaw]
           y == [run[r] EXCEPT !.pc = "budget", !.stop = {}, !.start = {}]
<1>1. /\ Fits(run[r]) /\ run[r].pc = "freeze" /\ (Step(r, x) \/ Step(r, y)) /\ (Fault \/ NoFault)
      /\ UNCHANGED <<plan, monitors, incident, noted, opener, patch, hidden, changes>>
  BY DEF Typed, Freezes, At
<1>2. thaw \in SUBSET Projects
  BY DEF Kept
<1>3. projects' \in [Projects -> {"live", "frozen", "gone"}]
  <2>1. CASE UNCHANGED projects
    BY <2>1 DEF Typed, TypeOK
  <2>2. CASE projects' = [p \in Projects |->
                 CASE p \in thaw -> "live"
                   [] p \in run[r].stop \cap Live -> "frozen"
                   [] OTHER -> projects[p]]
    BY <2>2 DEF Typed, TypeOK
  <2> QED BY <2>1, <2>2 DEF Freezes
<1> HIDE DEF thaw
<1>4. Fits(x) /\ Fits(y)
  BY <1>1, <1>2 DEF Fits, Run
<1> HIDE DEF x, y
<1> QED BY <1>1, <1>3, <1>4, StepHolds, FaultType DEF Typed, TypeOK

LEMMA BudgetTyped ==
  ASSUME Typed, NEW r \in Runs, Budgets(r)
  PROVE  Typed'
<1> DEFINE stop == {m \in Holding : Slot(m) > plan.checks /\ monitors[m] = "active"}
           start == {m \in Holding : Slot(m) <= plan.checks /\ monitors[m] = "plan"}
           x == [run[r] EXCEPT !.pc = "cut", !.stop = stop, !.start = start]
<1>1. Fits(run[r]) /\ run[r].pc = "budget" /\ Step(r, x)
  BY DEF Typed, Budgets, At
<1>2. stop \in SUBSET Monitors /\ start \in SUBSET Monitors
  BY DEF Holding
<1> HIDE DEF stop, start
<1>3. Fits(x)
  BY <1>1, <1>2 DEF Fits, Run
<1> HIDE DEF x
<1> QED BY <1>1, <1>3, StepHolds DEF Budgets, Typed, TypeOK, rows

\* What the write of the budget does to the checks and to the runs.
CutsTo(r, stop, start) ==
  /\ monitors' = [m \in Monitors |-> IF m \in stop THEN "plan"
                                     ELSE IF m \in start THEN "active" ELSE monitors[m]]
  /\ run'[r].cut = {m \in stop : opener[m] # "insert"}
  /\ \A q \in Runs \ {r} : run'[q].cut = run[q].cut \ start

LEMMA CutsRuns ==
  ASSUME Typed, NEW r \in Runs, Cuts(r)
  PROVE  /\ run' \in [Runs -> Run] /\ \A q \in Runs : Fits(run'[q])
         /\ run[r].pc = "cut" /\ run'[r].pc = "list"
         /\ \A q \in Runs \ {r} : run'[q].pc = run[q].pc
         /\ \A q \in Runs : /\ run'[q].thawed = run[q].thawed /\ run'[q].todo = run[q].todo
                            /\ run'[q].cur = run[q].cur /\ run'[q].paged = run[q].paged
         /\ \/ Fault /\ UNCHANGED monitors
            \/ NoFault /\ CutsTo(r, Still(run[r].stop, "active"), Still(run[r].start, "plan"))
<1> DEFINE stop == Still(run[r].stop, "active")
           start == Still(run[r].start, "plan")
           cut == {m \in stop : opener[m] # "insert"}
           others == [q \in Runs |-> [run[q] EXCEPT !.cut = @ \ start]]
           x == [others[r] EXCEPT !.pc = "list", !.stop = {}, !.start = {}, !.cut = cut]
           y == [run[r] EXCEPT !.pc = "list", !.stop = {}, !.start = {}]
<1>1. run[r].pc = "cut" /\ \A q \in Runs : Fits(run[q])
  BY DEF Typed, Cuts, At
<1>2. stop \in SUBSET Monitors /\ start \in SUBSET Monitors /\ cut \in SUBSET Monitors
  BY <1>1 DEF Still, Fits
<1>3. CASE NoFault /\ run' = [others EXCEPT ![r] = x] /\ monitors' = [m \in Monitors |-> IF m \in stop THEN "plan"
                                   ELSE IF m \in start THEN "active" ELSE monitors[m]]
  <2> HIDE DEF stop, start, cut
  <2>1. \A q \in Runs : /\ Fits(others[q]) /\ others[q].cut = run[q].cut \ start
                        /\ others[q].pc = run[q].pc /\ others[q].thawed = run[q].thawed
                        /\ others[q].todo = run[q].todo /\ others[q].cur = run[q].cur
                        /\ others[q].paged = run[q].paged
    BY <1>1, <1>2 DEF Fits, Run
  <2>2. others \in [Runs -> Run]
    <3>1. others = [q \in Runs |-> others[q]]
      OBVIOUS
    <3> HIDE DEF others
    <3> QED BY <2>1, <3>1 DEF Fits
  <2> HIDE DEF others
  <2>3. /\ Fits(x) /\ x.cut = cut /\ x.pc = "list" /\ x.thawed = others[r].thawed
        /\ x.todo = others[r].todo /\ x.cur = others[r].cur /\ x.paged = others[r].paged
    <3>1. others[r] \in Run /\ Fits(others[r]) /\ others[r].pc = "cut"
      BY <1>1, <2>1 DEF Fits
    <3>2. x \in Run
      BY <1>2, <3>1 DEF Run
    <3>3. /\ x.cut = cut /\ x.pc = "list" /\ x.thawed = others[r].thawed
          /\ x.todo = others[r].todo /\ x.cur = others[r].cur /\ x.paged = others[r].paged
      BY <3>1 DEF Run
    <3> HIDE DEF x
    <3> QED BY <3>1, <3>2, <3>3 DEF Fits
  <2> HIDE DEF x
  <2>4. run'[r] = x /\ (\A q \in Runs \ {r} : run'[q] = others[q]) /\ run' \in [Runs -> Run]
    BY <1>3, <2>2, <2>3 DEF Fits
  <2>5. \A q \in Runs : Fits(run'[q])
    BY <2>1, <2>3, <2>4
  <2>6. CutsTo(r, stop, start)
    BY <1>3, <2>1, <2>3, <2>4 DEF CutsTo, cut
  <2> QED BY <1>1, <1>3, <2>1, <2>3, <2>4, <2>5, <2>6 DEF stop, start
<1>4. CASE Step(r, y) /\ UNCHANGED monitors /\ Fault
  <2>0. run[r] \in Run /\ Fits(run[r])
    BY <1>1 DEF Fits
  <2>a. /\ y.pc = "list" /\ y.thawed = run[r].thawed
        /\ y.todo = run[r].todo /\ y.cur = run[r].cur /\ y.paged = run[r].paged
    BY <2>0 DEF Run
  <2>b. y \in Run
    BY <2>0 DEF Run
  <2>c. Fits(y)
    <3> HIDE DEF y
    <3> QED BY <1>1, <2>0, <2>a, <2>b DEF Fits
  <2>1. /\ Fits(y) /\ y.pc = "list" /\ y.thawed = run[r].thawed
        /\ y.todo = run[r].todo /\ y.cur = run[r].cur /\ y.paged = run[r].paged
    BY <2>a, <2>c
  <2> HIDE DEF y
  <2> QED BY <1>1, <1>4, <2>1, StepHolds
<1> QED BY <1>3, <1>4 DEF Cuts

LEMMA CutTyped ==
  ASSUME Typed, NEW r \in Runs, Cuts(r)
  PROVE  Typed'
<1>1. monitors' \in [Monitors -> {"active", "owner", "plan", "gone"}]
  BY CutsRuns DEF CutsTo, Typed, TypeOK
<1>2. UNCHANGED <<plan, projects, incident, noted, opener, patch, hidden, changes>> /\ (Fault \/ NoFault)
  BY DEF Cuts
<1> QED BY <1>1, <1>2, CutsRuns, FaultType DEF Typed, TypeOK

\* The places a run goes to with nothing else in its hands.
LEMMA GoTyped ==
  ASSUME Typed, NEW r \in Runs, Ticks \/ Closed(r) \/ Paged(r) \/ Ends(r) \/ Dies(r)
  PROVE  Typed'
<1>1. Fits(run[r]) /\ Fits(run[Job]) /\ Job \in Runs
  BY DEF Typed, Runs
<1>2. CASE Ticks
  <2> DEFINE x == [run[Job] EXCEPT !.pc = "rank"]
  <2>1. Step(Job, x) /\ run[Job].pc = "idle"
    BY <1>2 DEF Ticks, Go, At
  <2>2. Fits(x)
    BY <1>1, <2>1 DEF Fits, Run
  <2> HIDE DEF x
  <2> QED BY <1>1, <1>2, <2>1, <2>2, StepHolds DEF Ticks, Typed, TypeOK, rows
<1>3. CASE Closed(r) \/ Paged(r)
  <2> DEFINE x == [run[r] EXCEPT !.pc = "thawed"]
  <2>1. Step(r, x) /\ run[r].pc \in {"close", "page"}
    BY <1>3 DEF Closed, Paged, Go, At
  <2>2. Fits(x)
    BY <1>1, <2>1 DEF Fits, Run
  <2> HIDE DEF x
  <2> QED BY <1>3, <2>1, <2>2, StepHolds DEF Closed, Paged, Typed, TypeOK, rows
<1>4. CASE Ends(r) \/ Dies(r)
  <2>1. Step(r, IdleRun) /\ (Fault \/ NoFault) /\ UNCHANGED <<plan, rows, opener, patch, hidden, changes>>
    BY <1>4 DEF Ends, Dies, NoFault
  <2> QED BY <2>1, IdleRunFits, StepHolds, FaultType DEF Typed, TypeOK, rows
<1> QED BY <1>2, <1>3, <1>4

\* What a run lists and takes up.
LEMMA ListTyped ==
  ASSUME Typed, NEW r \in Runs, Lists(r) \/ \E p \in Projects : ListsThawed(r, p)
  PROVE  Typed'
<1>1. Fits(run[r])
  BY DEF Typed
<1>2. ASSUME NEW x, Fits(x), Step(r, x) PROVE Typed'
  <2>1. (Fault \/ NoFault) /\ UNCHANGED <<plan, rows, opener, patch, hidden, changes>>
    BY Zenon DEF Lists, ListsThawed
  <2>2. /\ run' \in [Runs -> Run] /\ \A q \in Runs : Fits(run'[q])
        /\ faults' \in 0..MaxFaults
    BY <1>2, <2>1, StepHolds, FaultType DEF Typed
  <2> QED BY <2>1, <2>2 DEF Typed, TypeOK, rows
<1>3. CASE Lists(r)
  <2> DEFINE x == [run[r] EXCEPT !.pc = "close", !.todo = PlanPausedOpen]
             y == [run[r] EXCEPT !.pc = "thawed"]
  <2>1. run[r].pc = "list" /\ (Step(r, x) \/ Step(r, y))
    BY <1>3 DEF Lists, At, Go
  <2>2. PlanPausedOpen \in SUBSET Monitors
    BY DEF PlanPausedOpen, Open
  <2>3. Fits(x) /\ Fits(y)
    BY <1>1, <2>1, <2>2, PlanCapacityAssumption DEF Fits, Run
  <2> HIDE DEF x, y
  <2> QED BY <1>2, <2>1, <2>3
<1>4. ASSUME NEW p \in Projects, ListsThawed(r, p) PROVE Typed'
  <2> DEFINE todo == {m \in Open : Home[m] = p /\ ~noted[m]}
             x == [run[r] EXCEPT !.pc = "page", !.thawed = @ \ {p}, !.todo = todo]
             y == [run[r] EXCEPT !.thawed = @ \ {p}]
  <2>1. run[r].pc = "thawed" /\ (Step(r, x) \/ Step(r, y))
    BY <1>4 DEF ListsThawed, At
  <2>2. todo \in SUBSET Monitors
    BY DEF Open
  <2> HIDE DEF todo
  <2>3. Fits(x) /\ Fits(y)
    BY <1>1, <2>1, <2>2, PlanCapacityAssumption DEF Fits, Run
  <2> HIDE DEF x, y
  <2> QED BY <1>2, <2>1, <2>3
<1> QED BY <1>3, <1>4

\* The row and the mark of one announcement.
LEMMA QueueHolds ==
  ASSUME TypeOK, NEW k \in Monitors, Queue(k)
  PROVE  /\ incident' \in [Monitors -> Incident] /\ noted' \in [Monitors -> BOOLEAN]
         /\ \/ Fault /\ UNCHANGED <<incident, noted>>
            \/ /\ NoFault /\ noted'[k] = TRUE
               /\ incident'[k] = (IF incident[k] = "silent" THEN "queued" ELSE incident[k])
               /\ \A m \in Monitors \ {k} : incident'[m] = incident[m] /\ noted'[m] = noted[m]
<1>1. CASE UNCHANGED <<incident, noted>> /\ Fault
  BY <1>1 DEF TypeOK
<1>2. CASE /\ incident' = [incident EXCEPT ![k] = IF @ = "silent" THEN "queued" ELSE @]
           /\ noted' = [noted EXCEPT ![k] = TRUE]
           /\ NoFault
  <2>1. PICK i \in Incident : i = IF incident[k] = "silent" THEN "queued" ELSE incident[k]
    BY DEF TypeOK, Incident
  <2>2. incident' = [incident EXCEPT ![k] = i]
    BY <1>2, <2>1
  <2> QED BY <1>2, <2>1, <2>2 DEF TypeOK
<1> QED BY <1>1, <1>2 DEF Queue

LEMMA PageTyped ==
  ASSUME Typed, NEW r \in Runs, Pages(r) \/ \E m \in Monitors : PageGuards(r, m)
  PROVE  Typed'
<1>1. Fits(run[r])
  BY DEF Typed
<1>2. ASSUME NEW m \in Monitors, PageGuards(r, m) PROVE Typed'
  <2> DEFINE x == [run[r] EXCEPT !.pc = "queue", !.cur = m, !.todo = @ \ {m}]
             y == [run[r] EXCEPT !.todo = @ \ {m}]
  <2>1. /\ run[r].pc = "page" /\ (Step(r, x) \/ Step(r, y)) /\ (Fault \/ NoFault) /\ UNCHANGED noted
        /\ UNCHANGED <<plan, projects, monitors, incident, opener, patch, hidden, changes>>
    BY <1>2 DEF PageGuards, At, Passes, Skips
  <2>2. Fits(x) /\ Fits(y)
    BY <1>1, <2>1, PlanCapacityAssumption DEF Fits, Run
  <2> HIDE DEF x, y
  <2> QED BY <2>1, <2>2, StepHolds, FaultType DEF Typed, TypeOK
<1>3. CASE Pages(r)
  <2> DEFINE x == [run[r] EXCEPT !.pc = "page", !.cur = None, !.paged = @ \cup {run[r].cur}]
  <2>1. /\ run[r].pc = "queue" /\ Step(r, x) /\ Queue(run[r].cur)
        /\ UNCHANGED <<plan, projects, monitors, opener, patch, hidden, changes>>
    BY <1>3 DEF Pages, At
  <2>2. Fits(x)
    BY <1>1, <2>1, PlanCapacityAssumption DEF Fits, Run
  <2> HIDE DEF x
  <2>3. incident' \in [Monitors -> Incident] /\ noted' \in [Monitors -> BOOLEAN] /\ (Fault \/ NoFault)
    <3>1. run[r].cur \in Monitors
      BY <1>1, <2>1 DEF Fits, Run
    <3> QED BY <2>1, <3>1, QueueHolds DEF Typed
  <2> QED BY <2>1, <2>2, <2>3, StepHolds, FaultType DEF Typed, TypeOK
<1> QED BY <1>2, <1>3

\* What a close of m makes of run q, whose record was x but for the close.
LetsGo(q, m, x) ==
  /\ Fits(run'[q]) /\ run'[q].thawed = x.thawed
  /\ run'[q].cut = x.cut /\ run'[q].paged = x.paged
  /\ IF run[q].cur = m
       THEN run'[q].pc = "page" /\ run'[q].cur = None /\ run'[q].todo = x.todo
       ELSE /\ run'[q].pc = run[q].pc /\ run'[q].cur = run[q].cur
            /\ run'[q].todo = IF Paging(q) THEN x.todo \ {m} ELSE x.todo

\* A close, of whoever's: each run lets go of the incident, and of nothing else.
LEMMA OverHolds ==
  ASSUME Typed, NEW m \in Monitors, NEW runs \in [Runs -> Run], Over(m, runs),
         \A q \in Runs : /\ Fits(runs[q]) /\ runs[q].pc = run[q].pc /\ runs[q].cur = run[q].cur
  PROVE  /\ run' \in [Runs -> Run]
         /\ incident' \in [Monitors -> Incident] /\ noted' \in [Monitors -> BOOLEAN]
         /\ hidden' \in SUBSET Monitors
         /\ opener' \in [Monitors -> {"idle", "insert", "guard", "queue"}]
         /\ \A q \in Runs : LetsGo(q, m, runs[q])
<1>1. /\ incident' = [incident EXCEPT ![m] = "none"] /\ noted' = [noted EXCEPT ![m] = FALSE]
      /\ hidden' = hidden \ {m}
      /\ opener' = [opener EXCEPT ![m] = IF @ \in {"guard", "queue"} THEN "idle" ELSE @]
  BY DEF Over
<1>2. /\ incident' \in [Monitors -> Incident] /\ noted' \in [Monitors -> BOOLEAN]
      /\ hidden' \in SUBSET Monitors
      /\ opener' \in [Monitors -> {"idle", "insert", "guard", "queue"}]
  BY <1>1 DEF Incident, Typed, TypeOK
<1> DEFINE next(q) == IF run[q].cur = m THEN [runs[q] EXCEPT !.pc = "page", !.cur = None]
                      ELSE IF Paging(q) THEN [runs[q] EXCEPT !.todo = @ \ {m}] ELSE runs[q]
<1>3. run' = [q \in Runs |-> next(q)]
  BY DEF Over
<1>4. ASSUME NEW q \in Runs
      PROVE  /\ Fits(next(q)) /\ next(q).thawed = runs[q].thawed
             /\ next(q).cut = runs[q].cut /\ next(q).paged = runs[q].paged
             /\ IF run[q].cur = m
                  THEN next(q).pc = "page" /\ next(q).cur = None /\ next(q).todo = runs[q].todo
                  ELSE /\ next(q).pc = run[q].pc /\ next(q).cur = run[q].cur
                       /\ next(q).todo = IF Paging(q) THEN runs[q].todo \ {m} ELSE runs[q].todo
  <2>1. runs[q] \in Run /\ Fits(runs[q]) /\ runs[q].pc = run[q].pc /\ runs[q].cur = run[q].cur /\ m # None
    BY PlanCapacityAssumption
  <2>2. CASE run[q].cur = m
    <3>1. run[q].pc = "queue"
      BY <2>1, <2>2 DEF Fits
    <3> QED BY <2>1, <2>2, <3>1, PlanCapacityAssumption DEF Fits, Run
  <2>3. CASE run[q].cur # m
    BY <2>1, <2>3 DEF Fits, Run
  <2> QED BY <2>2, <2>3
<1> HIDE DEF next
<1>5. \A q \in Runs : next(q) \in Run
  BY <1>4 DEF Fits
<1>6. \A q \in Runs : LetsGo(q, m, runs[q])
  BY <1>3, <1>4 DEF LetsGo
<1> QED BY <1>2, <1>3, <1>5, <1>6

LEMMA CloseTyped ==
  ASSUME Typed, NEW m \in Monitors, Recovers(m) \/ \E r \in Runs : Closes(r, m)
  PROVE  Typed'
<1>1. CASE Recovers(m)
  <2>1. \A q \in Runs : run \in [Runs -> Run] /\ Fits(run[q])
    BY DEF Typed, TypeOK
  <2>2. run \in [Runs -> Run] /\ Over(m, run) /\ UNCHANGED <<plan, projects, monitors, patch, changes, faults>>
    BY <1>1 DEF Recovers, Typed, TypeOK
  <2> QED BY <2>1, <2>2, OverHolds DEF LetsGo, Typed, TypeOK
<1>2. ASSUME NEW r \in Runs, Closes(r, m) PROVE Typed'
  <2> DEFINE x == [run[r] EXCEPT !.todo = @ \ {m}]
             runs == [run EXCEPT ![r].todo = @ \ {m}]
  <2>1. Fits(run[r]) /\ run \in [Runs -> Run] /\ \A q \in Runs : Fits(run[q])
    BY DEF Typed, TypeOK
  <2>2. Fits(x) /\ x.pc = run[r].pc /\ x.cur = run[r].cur
    BY <2>1 DEF Fits, Run
  <2>3. UNCHANGED <<plan, projects, monitors, patch, changes>> /\ (Fault \/ NoFault)
    BY <1>2 DEF Closes
  <2>4. CASE Over(m, runs)
    <3>1. runs = [run EXCEPT ![r] = x]
      OBVIOUS
    <3> HIDE DEF x, runs
    <3>2. runs \in [Runs -> Run] /\ \A q \in Runs : Fits(runs[q]) /\ runs[q].pc = run[q].pc /\ runs[q].cur = run[q].cur
      BY <2>1, <2>2, <3>1 DEF Fits
    <3>3. /\ run' \in [Runs -> Run]
          /\ incident' \in [Monitors -> Incident] /\ noted' \in [Monitors -> BOOLEAN]
          /\ hidden' \in SUBSET Monitors
          /\ opener' \in [Monitors -> {"idle", "insert", "guard", "queue"}]
      BY <2>4, <3>2, OverHolds
    <3>4. \A q \in Runs : LetsGo(q, m, runs[q])
      BY <2>4, <3>2, OverHolds
    <3>5. \A q \in Runs : Fits(run'[q])
      BY <3>4 DEF LetsGo
    <3> QED BY <2>3, <3>3, <3>5, FaultType DEF Typed, TypeOK
  <2>5. CASE Step(r, x) /\ UNCHANGED <<incident, noted, hidden, opener>>
    <3> HIDE DEF x
    <3> QED BY <2>2, <2>3, <2>5, StepHolds, FaultType DEF Typed, TypeOK
  <2> QED BY <1>2, <2>4, <2>5 DEF Closes
<1> QED BY <1>1, <1>2

\* The steps about one check that leave the runs alone.
LEMMA OpenTyped ==
  ASSUME Typed, NEW m \in Monitors, Fails(m) \/ OpenStep(m) \/ Delivers(m)
  PROVE  Typed'
<1>1. UNCHANGED <<plan, projects, monitors, run, patch, hidden, changes>> /\ (Fault \/ NoFault)
  BY DEF Fails, OpenStep, Inserts, Guards, Notifies, Delivers, Passes, Skips, Queue, NoFault, rows
<1>2. opener' \in [Monitors -> {"idle", "insert", "guard", "queue"}]
  BY DEF Fails, OpenStep, Inserts, Guards, Notifies, Delivers, Typed, TypeOK
<1>3. incident' \in [Monitors -> Incident] /\ noted' \in [Monitors -> BOOLEAN]
  <2>1. CASE Notifies(m)
    BY <2>1, QueueHolds DEF Notifies, Typed
  <2>2. CASE Delivers(m)
    <3>1. PICK i \in Incident : incident' = [incident EXCEPT ![m] = i]
      BY <2>2 DEF Delivers, Incident
    <3> QED BY <2>2, <3>1 DEF Delivers, Typed, TypeOK
  <2>3. CASE Fails(m) \/ Inserts(m) \/ Guards(m)
    BY <2>3 DEF Fails, Inserts, Guards, Passes, Skips, Incident, Typed, TypeOK, rows
  <2> QED BY <2>1, <2>2, <2>3 DEF OpenStep
<1> QED BY <1>1, <1>2, <1>3, FaultType DEF Typed, TypeOK

\* The owner's purchase, and a PATCH up to its commit.
LEMMA OwnerTyped ==
  ASSUME Typed,
         \/ \E p \in Plans : Buys(p)
         \/ \E m \in Monitors, to \in {"active", "owner"} : PatchReads(m, to)
         \/ PatchWrites
  PROVE  Typed'
<1>1. \A c : Change => changes' \in 0..MaxChanges
  BY PlanCapacityAssumption DEF Change, Typed, TypeOK
<1>2. ASSUME NEW p \in Plans, Buys(p) PROVE Typed'
  BY <1>1, <1>2 DEF Buys, Typed, TypeOK, rows
<1>3. ASSUME NEW m \in Monitors, NEW to \in {"active", "owner"}, PatchReads(m, to) PROVE Typed'
  <2> DEFINE resumes == to = "active" /\ monitors[m] = "owner"
             x == [NoPatch EXCEPT !.pc = "write", !.m = m, !.to = to, !.resumes = resumes]
  <2>1. resumes \in BOOLEAN
    OBVIOUS
  <2>2. patch' = x /\ Change /\ UNCHANGED <<plan, rows, opener, run, hidden, faults>>
    BY <1>3 DEF PatchReads
  <2> HIDE DEF resumes
  <2>3. /\ x.m = m
        /\ x \in [pc : {"idle", "write", "commit"}, m : Monitors \cup {None},
                  to : {"active", "owner"}, resumes : BOOLEAN, opens : Incident]
    BY <2>1 DEF NoPatch, Incident
  <2> HIDE DEF x
  <2> QED BY <1>1, <2>2, <2>3 DEF Typed, TypeOK, rows
<1>4. CASE PatchWrites
  <2>1. UNCHANGED <<plan, rows, opener, run, hidden, changes, faults>> /\ patch.m \in Monitors
    BY <1>4 DEF PatchWrites, Typed
  <2>2. CASE patch' = NoPatch
    BY <2>1, <2>2 DEF NoPatch, Incident, Typed, TypeOK, rows
  <2>3. ASSUME NEW opens \in {"none", IF Home[patch.m] \in Live THEN "queued" ELSE "silent"},
               patch' = [patch EXCEPT !.pc = "commit", !.opens = opens]
        PROVE  Typed'
    <3>1. opens \in Incident
      BY DEF Incident
    <3>2. /\ patch'.m = patch.m
          /\ patch' \in [pc : {"idle", "write", "commit"}, m : Monitors \cup {None},
                         to : {"active", "owner"}, resumes : BOOLEAN, opens : Incident]
      BY <2>3, <3>1 DEF Typed, TypeOK
    <3> QED BY <2>1, <3>2 DEF Typed, TypeOK, rows
  <2> QED BY <1>4, <2>2, <2>3 DEF PatchWrites
<1> QED BY <1>2, <1>3, <1>4

\* The commit of a PATCH: its check leaves what the runs paused.
LEMMA CommitHolds ==
  ASSUME Typed, PatchCommits
  PROVE  /\ run' \in [Runs -> Run]
         /\ \A q \in Runs :
              /\ Fits(run'[q]) /\ run'[q].cut = run[q].cut \ {patch.m}
              /\ run'[q].pc = run[q].pc /\ run'[q].thawed = run[q].thawed
              /\ run'[q].todo = run[q].todo /\ run'[q].cur = run[q].cur
              /\ run'[q].paged = run[q].paged
<1> DEFINE next(q) == [run[q] EXCEPT !.cut = @ \ {patch.m}]
<1>1. run' = [q \in Runs |-> next(q)]
  BY DEF PatchCommits
<1>2. ASSUME NEW q \in Runs
      PROVE  /\ Fits(next(q)) /\ next(q).cut = run[q].cut \ {patch.m}
             /\ next(q).pc = run[q].pc /\ next(q).thawed = run[q].thawed
             /\ next(q).todo = run[q].todo /\ next(q).cur = run[q].cur
             /\ next(q).paged = run[q].paged
  BY DEF Fits, Run, Typed
<1> HIDE DEF next
<1>3. \A q \in Runs : next(q) \in Run
  BY <1>2 DEF Fits
<1> QED BY <1>1, <1>2, <1>3

LEMMA CommitTyped ==
  ASSUME Typed, PatchCommits
  PROVE  Typed'
<1>1. /\ patch' = NoPatch /\ UNCHANGED <<plan, projects, opener, changes, faults>>
      /\ patch.m \in Monitors
  BY DEF PatchCommits, Typed
<1>2. monitors' \in [Monitors -> {"active", "owner", "plan", "gone"}] /\ noted' \in [Monitors -> BOOLEAN]
  BY DEF PatchCommits, Typed, TypeOK
<1>3. incident' \in [Monitors -> Incident]
  <2>1. PICK i \in Incident : incident' = [incident EXCEPT ![patch.m] = i]
    BY <1>1 DEF PatchCommits, Typed, TypeOK
  <2> QED BY <2>1 DEF Typed, TypeOK
<1>4. hidden' \in SUBSET Monitors
  BY <1>1 DEF PatchCommits, Typed, TypeOK
<1>5. NoPatch \in [pc : {"idle", "write", "commit"}, m : Monitors \cup {None},
                  to : {"active", "owner"}, resumes : BOOLEAN, opens : Incident] /\ NoPatch.pc = "idle"
  BY DEF NoPatch, Incident
<1> QED BY <1>1, <1>2, <1>3, <1>4, <1>5, CommitHolds DEF Typed, TypeOK

\* A deletion: the job's run loses what left with the project, and the
\* deletion's own run begins.
LEMMA DeleteHolds ==
  ASSUME Typed, NEW p \in Projects, Deletes(p)
  PROVE  /\ run' \in [Runs -> Run] /\ \A q \in Runs : Fits(run'[q])
         /\ run'[Deletion].pc = "rank" /\ run'[Deletion].thawed = {} /\ run'[Deletion].cur = None
         /\ run'[Deletion].cut = run[Deletion].cut /\ run'[Deletion].paged = {} /\ run[Deletion].thawed = {}
         /\ run'[Job].todo = run[Job].todo \ {m \in Monitors : Home[m] = p}
         /\ run'[Job].thawed = run[Job].thawed \ {p}
         /\ run'[Job].cut = run[Job].cut /\ run'[Job].paged = run[Job].paged
         /\ IF run[Job].cur \in Monitors /\ Home[run[Job].cur] = p
              THEN run'[Job].pc = "page" /\ run'[Job].cur = None
              ELSE run'[Job].pc = run[Job].pc /\ run'[Job].cur = run[Job].cur
<1> DEFINE with == {m \in Monitors : Home[m] = p}
           k == run[Job].cur
           pc == IF k \in with THEN "page" ELSE run[Job].pc
           cur == IF k \in with THEN None ELSE k
           x == [run[Job] EXCEPT !.todo = @ \ with, !.thawed = @ \ {p}, !.pc = pc, !.cur = cur]
           y == [run[Deletion] EXCEPT !.pc = "rank"]
<1>1. Fits(run[Job]) /\ Fits(run[Deletion]) /\ run[Deletion].pc = "idle" /\ Job # Deletion /\ None \notin Monitors
  BY PlanCapacityAssumption DEF Deletes, At, Typed, Runs
<1>2. run' = [run EXCEPT ![Deletion] = y, ![Job] = x]
  BY <1>1 DEF Deletes
<1>3. \/ pc = "page" /\ cur = None /\ run[Job].pc = "queue"
      \/ pc = run[Job].pc /\ cur = run[Job].cur
  BY <1>1 DEF Fits
<1>4. run[Job].cur \in with <=> run[Job].cur \in Monitors /\ Home[run[Job].cur] = p
  OBVIOUS
<1>5. IF run[Job].cur \in with THEN pc = "page" /\ cur = None ELSE pc = run[Job].pc /\ cur = run[Job].cur
  <2> HIDE DEF with, k
  <2>1. k \in with => pc = "page" /\ cur = None
    OBVIOUS
  <2>2. k \notin with => pc = run[Job].pc /\ cur = k
    OBVIOUS
  <2> HIDE DEF pc, cur
  <2>3. IF k \in with THEN pc = "page" /\ cur = None ELSE pc = run[Job].pc /\ cur = k
    BY <2>1, <2>2
  <2> QED BY <2>3 DEF k
<1> HIDE DEF pc, cur
<1>6. /\ x \in Run /\ x.todo = run[Job].todo \ with /\ x.thawed = run[Job].thawed \ {p}
      /\ x.cut = run[Job].cut /\ x.paged = run[Job].paged /\ x.pc = pc /\ x.cur = cur
      /\ x.stop = run[Job].stop /\ x.start = run[Job].start
  BY <1>1, <1>3, Zenon DEF Fits, Run
<1>7. /\ y \in Run /\ y.pc = "rank" /\ y.thawed = {} /\ y.cur = None /\ y.paged = {} /\ y.cut = run[Deletion].cut
      /\ y.todo = run[Deletion].todo /\ run[Deletion].thawed = {}
  BY <1>1 DEF Fits, Run
<1> HIDE DEF x, y, with
<1>8. Fits(x)
  BY <1>1, <1>3, <1>6 DEF Fits, Run
<1>9. Fits(y)
  BY <1>1, <1>7 DEF Fits, Run
<1>10. run'[Deletion] = y /\ run'[Job] = x /\ run' \in [Runs -> Run]
  BY <1>1, <1>2, <1>6, <1>7 DEF Typed, TypeOK, Runs
<1> QED BY <1>4, <1>5, <1>6, <1>7, <1>8, <1>9, <1>10 DEF with, Runs

LEMMA DeleteTyped ==
  ASSUME Typed, NEW p \in Projects, Deletes(p)
  PROVE  Typed'
<1>1. UNCHANGED <<plan, patch, faults>> /\ changes' \in 0..MaxChanges
  BY PlanCapacityAssumption DEF Deletes, Change, Typed, TypeOK
<1>2. projects' \in [Projects -> {"live", "frozen", "gone"}]
  BY DEF Deletes, Typed, TypeOK
<1>3. /\ monitors' \in [Monitors -> {"active", "owner", "plan", "gone"}]
      /\ incident' \in [Monitors -> Incident] /\ noted' \in [Monitors -> BOOLEAN]
      /\ opener' \in [Monitors -> {"idle", "insert", "guard", "queue"}]
      /\ hidden' \in SUBSET Monitors
  BY DEF Deletes, Incident, Typed, TypeOK
<1> QED BY <1>1, <1>2, <1>3, DeleteHolds DEF Typed, TypeOK

LEMMA NextTyped == Typed /\ [Next]_vars => Typed'
<1> SUFFICES ASSUME Typed, [Next]_vars PROVE Typed'
  OBVIOUS
<1>1. CASE UNCHANGED vars
  BY <1>1 DEF vars, rows, Typed, TypeOK
<1>2. CASE Ticks
  BY <1>2, GoTyped DEF Runs
<1>3. ASSUME NEW r \in Runs, RunStep(r) \/ Dies(r) PROVE Typed'
  <2>1. ASSUME NEW newest, Ranks(r, newest) PROVE Typed'
    BY <2>1, RankTyped
  <2>2. CASE Freezes(r) \/ Budgets(r) \/ Cuts(r)
    BY <2>2, FreezeTyped, BudgetTyped, CutTyped
  <2>3. CASE Closed(r) \/ Paged(r) \/ Ends(r) \/ Dies(r)
    BY <2>3, GoTyped
  <2>4. CASE Lists(r) \/ \E p \in Projects : ListsThawed(r, p)
    BY <2>4, ListTyped
  <2>5. CASE Pages(r) \/ \E m \in Monitors : PageGuards(r, m)
    BY <2>5, PageTyped
  <2>6. ASSUME NEW m \in Monitors, Closes(r, m) PROVE Typed'
    BY <2>6, CloseTyped
  <2> QED BY <1>3, <2>1, <2>2, <2>3, <2>4, <2>5, <2>6 DEF RunStep
<1>4. ASSUME NEW m \in Monitors, Fails(m) \/ OpenStep(m) \/ Delivers(m) \/ Recovers(m) PROVE Typed'
  BY <1>4, OpenTyped, CloseTyped
<1>5. CASE \/ \E p \in Plans : Buys(p)
           \/ \E m \in Monitors, to \in {"active", "owner"} : PatchReads(m, to)
           \/ PatchWrites
  BY <1>5, OwnerTyped
<1>6. CASE PatchCommits
  BY <1>6, CommitTyped
<1>7. ASSUME NEW p \in Projects, Deletes(p) PROVE Typed'
  BY <1>7, DeleteTyped
<1> QED BY <1>1, <1>2, <1>3, <1>4, <1>5, <1>6, <1>7 DEF Next

LEMMA InitTyped == Init => Typed
<1> SUFFICES ASSUME Init PROVE Typed
  OBVIOUS
<1>1. NoPatch \in [pc : {"idle", "write", "commit"}, m : Monitors \cup {None},
                  to : {"active", "owner"}, resumes : BOOLEAN, opens : Incident] /\ NoPatch.pc = "idle"
  BY DEF NoPatch, Incident
<1>2. IdleRun \in Run
  BY IdleRunFits DEF Fits
<1> QED BY <1>1, <1>2, IdleRunFits, PlanCapacityAssumption DEF Init, Typed, TypeOK, Incident

\* Every reachable state of the plan, the projects, the checks, their incidents
\* and the runs is well typed, and each run holds what its place says.
THEOREM TypeCorrect == Spec => []Typed
<1> QED BY InitTyped, NextTyped, PTL DEF Spec

-----------------------------------------------------------------------------
(* An open outage of a live project is announced.                            *)

\* A call about an incident ends with it, and a mark says there is a row.
Calls ==
  /\ \A m \in Monitors : /\ opener[m] \in {"guard", "queue"} => m \in Open
                         /\ noted[m] => m \in Open /\ incident[m] # "silent"
  /\ \A r \in Runs : /\ Paging(r) => run[r].todo \subseteq Open
                     /\ run[r].cur # None => run[r].cur \in Open

\* A run will announce m, or see that it need not.
Has(r, m) == Home[m] \in run[r].thawed \/ run[r].cur = m \/ (Paging(r) /\ m \in run[r].todo)

\* The outages nobody has announced.
Unsaid(m) == m \in Open /\ Home[m] \in Live /\ incident[m] = "silent"

\* Each of them is in the hands of a run or of the call that opened it.
Told ==
  faults = 0 => \A m \in Monitors \ hidden :
                  Unsaid(m) => opener[m] \in {"guard", "queue"} \/ \E r \in Runs : Has(r, m)

Said == Calls /\ Told

LEMMA InHandIsOpen ==
  ASSUME Calls, NEW q \in Runs
  PROVE  /\ Paging(q) => run[q].todo \subseteq Open
         /\ run[q].cur # None => run[q].cur \in Open
BY DEF Calls

LEMMA NoFaultBefore ==
  ASSUME TypeOK, Fault \/ NoFault, faults' = 0
  PROVE  faults = 0 /\ NoFault /\ ~Fault
BY DEF TypeOK, Fault, NoFault

\* A step that neither opens nor closes, and loses nothing a run has in hand.
LEMMA QuietSaid ==
  ASSUME Typed, Said, Fault \/ NoFault, UNCHANGED <<projects, incident, noted, opener, hidden>>,
         \A q \in Runs : /\ Paging(q)' => run'[q].todo \subseteq Open
                         /\ run'[q].cur # None => run'[q].cur \in Open,
         NoFault => \A q \in Runs, m \in Monitors : Unsaid(m) /\ Has(q, m) => Has(q, m)'
  PROVE  Said'
<1>1. Calls'
  BY DEF Said, Calls, Open
<1>2. Told'
  <2> SUFFICES ASSUME faults' = 0, NEW m \in Monitors \ hidden, Unsaid(m)', opener[m] \notin {"guard", "queue"}
               PROVE  \E r \in Runs : Has(r, m)'
    BY DEF Told
  <2>1. faults = 0 /\ NoFault
    BY NoFaultBefore DEF Typed
  <2>2. Unsaid(m)
    BY DEF Unsaid, Open, Live
  <2> QED BY <2>1, <2>2 DEF Said, Told
<1> QED BY <1>1, <1>2 DEF Said

\* The same of one run's step to x.
LEMMA StepSaid ==
  ASSUME Typed, Said, NEW r \in Runs, NEW x, Fits(x), Step(r, x),
         Fault \/ NoFault, UNCHANGED <<projects, incident, noted, opener, hidden>>,
         x.pc \in {"page", "queue"} => x.todo \subseteq Open,
         x.cur # None => x.cur \in Open,
         NoFault => \A m \in Monitors : Unsaid(m) /\ Has(r, m) =>
            Home[m] \in x.thawed \/ x.cur = m \/ (x.pc \in {"page", "queue"} /\ m \in x.todo)
  PROVE  Said'
<1>1. run'[r] = x /\ \A q \in Runs \ {r} : run'[q] = run[q]
  BY StepHolds
<1>2. \A q \in Runs : /\ Paging(q)' => run'[q].todo \subseteq Open
                      /\ run'[q].cur # None => run'[q].cur \in Open
  <2> TAKE q \in Runs
  <2>1. CASE q = r
    BY <1>1, <2>1 DEF Paging
  <2>2. CASE q # r
    BY <1>1, <2>2 DEF Paging, Said, Calls
  <2> QED BY <2>1, <2>2
<1>3. NoFault => \A q \in Runs, m \in Monitors : Unsaid(m) /\ Has(q, m) => Has(q, m)'
  <2> SUFFICES ASSUME NoFault, NEW q \in Runs, NEW m \in Monitors, Unsaid(m), Has(q, m) PROVE Has(q, m)'
    OBVIOUS
  <2>1. CASE q = r
    BY <1>1, <2>1 DEF Has, Paging
  <2>2. CASE q # r
    BY <1>1, <2>2 DEF Has, Paging
  <2> QED BY <2>1, <2>2
<1> QED BY <1>2, <1>3, QuietSaid

\* A ranking on its snapshot.
LEMMA RankSaid ==
  ASSUME Typed, Said, NEW r \in Runs, Budgets(r) \/ \E newest : Ranks(r, newest)
  PROVE  Said'
<1>1. ASSUME NEW pc \in {"freeze", "cut"},
             NEW stop \in SUBSET (Projects \cup Monitors), NEW start \in SUBSET (Projects \cup Monitors),
             Step(r, [run[r] EXCEPT !.pc = pc, !.stop = stop, !.start = start]),
             pc = "cut" => stop \subseteq Monitors /\ start \subseteq Monitors /\ run[r].pc = "budget",
             pc = "freeze" => run[r].pc = "rank"
      PROVE  Said'
  <2> DEFINE x == [run[r] EXCEPT !.pc = pc, !.stop = stop, !.start = start]
  <2>1. Fits(run[r])
    BY DEF Typed
  <2>2. x \in Run /\ x.pc = pc /\ x.stop = stop /\ x.start = start /\ x.thawed = run[r].thawed
        /\ x.todo = run[r].todo /\ x.cur = run[r].cur /\ x.paged = run[r].paged
    BY <2>1 DEF Fits, Run
  <2>3. Step(r, x)
    BY <1>1
  <2> HIDE DEF x
  <2>4. NoFault /\ UNCHANGED <<projects, incident, noted, opener, hidden>>
    BY DEF Budgets, Ranks, rows, NoFault
  <2>5. Fits(x) /\ ~Paging(r) /\ x.cur = None
    BY <1>1, <2>1, <2>2 DEF Fits, Paging
  <2> QED BY <1>1, <2>2, <2>3, <2>4, <2>5, StepSaid, PlanCapacityAssumption DEF Has
<1>2. CASE Budgets(r)
  <2> DEFINE stop == {m \in Holding : Slot(m) > plan.checks /\ monitors[m] = "active"}
             start == {m \in Holding : Slot(m) <= plan.checks /\ monitors[m] = "plan"}
  <2>1. stop \in SUBSET Monitors /\ start \in SUBSET Monitors
    BY DEF Holding
  <2>2. Step(r, [run[r] EXCEPT !.pc = "cut", !.stop = stop, !.start = start]) /\ run[r].pc = "budget"
    BY <1>2 DEF Budgets, At
  <2> HIDE DEF stop, start
  <2> QED BY <1>1, <2>1, <2>2
<1>3. ASSUME NEW newest, Ranks(r, newest) PROVE Said'
  <2> DEFINE stop == {p \in Live : Place(p, newest) > plan.projects}
             start == {p \in Kept \ Live : Place(p, newest) <= plan.projects}
  <2>1. stop \in SUBSET Projects /\ start \in SUBSET Projects
    BY DEF Live, Kept
  <2>2. Step(r, [run[r] EXCEPT !.pc = "freeze", !.stop = stop, !.start = start]) /\ run[r].pc = "rank"
    BY <1>3 DEF Ranks, At
  <2> HIDE DEF stop, start
  <2> QED BY <1>1, <2>1, <2>2
<1> QED BY <1>2, <1>3

\* The thaw: what was said of no live project is now in the run's hands.
LEMMA FreezeSaid ==
  ASSUME Typed, Said, NEW r \in Runs, Freezes(r)
  PROVE  Said'
<1> DEFINE thaw == run[r].start \cap (Kept \ Live)
           x == [run[r] EXCEPT !.pc = "budget", !.stop = {}, !.start = {}, !.thawed = thaw]
           y == [run[r] EXCEPT !.pc = "budget", !.stop = {}, !.start = {}]
<1>1. Fits(run[r]) /\ run[r].pc = "freeze" /\ UNCHANGED <<incident, noted, opener, hidden>>
  BY DEF Typed, Freezes, At
<1>2. thaw \in SUBSET Projects
  BY DEF Kept
<1>3. run[r].thawed = {} /\ run[r].cur = None /\ ~Paging(r)
  BY <1>1 DEF Fits, Paging
<1>4. CASE Step(r, y) /\ Fault /\ UNCHANGED projects
  <2>1. Fits(y) /\ y.pc = "budget" /\ y.cur = run[r].cur
    BY <1>1 DEF Fits, Run
  <2>2. ~NoFault
    BY <1>4 DEF Fault, NoFault, Typed, TypeOK
  <2> HIDE DEF y
  <2> QED BY <1>1, <1>3, <1>4, <2>1, <2>2, StepSaid
<1>5. CASE /\ Step(r, x) /\ NoFault
           /\ projects' = [p \in Projects |->
                 CASE p \in thaw -> "live"
                   [] p \in run[r].stop \cap Live -> "frozen"
                   [] OTHER -> projects[p]]
  <2>1. Live' \subseteq Live \cup thaw
    BY <1>5 DEF Live
  <2> HIDE DEF thaw, y
  <2>2. Fits(x) /\ x.pc = "budget" /\ x.cur = None /\ x.thawed = thaw
    BY <1>1, <1>2, <1>3 DEF Fits, Run
  <2> HIDE DEF x
  <2>3. run'[r] = x /\ \A q \in Runs \ {r} : run'[q] = run[q]
    BY <1>5, <2>2, StepHolds
  <2>4. Calls'
    <3>1. ASSUME NEW q \in Runs
          PROVE  (Paging(q)' => run'[q].todo \subseteq Open) /\ (run'[q].cur # None => run'[q].cur \in Open)
      <4>1. CASE q = r
        BY <2>2, <2>3, <4>1 DEF Paging
      <4>2. CASE q # r
        <5>1. (Paging(q) => run[q].todo \subseteq Open) /\ (run[q].cur # None => run[q].cur \in Open)
          BY InHandIsOpen DEF Said
        <5> QED BY <2>3, <4>2, <5>1 DEF Paging
      <4> QED BY <4>1, <4>2
    <3> QED BY <1>1, <3>1 DEF Said, Calls, Open
  <2>5. Told'
    <3> SUFFICES ASSUME faults' = 0, NEW m \in Monitors \ hidden, Unsaid(m)', opener[m] \notin {"guard", "queue"}
                 PROVE  \E q \in Runs : Has(q, m)'
      BY <1>1 DEF Told
    <3>1. CASE Home[m] \in thaw
      BY <2>2, <2>3, <3>1 DEF Has
    <3>2. CASE Home[m] \notin thaw
      <4>1. Unsaid(m) /\ faults = 0
        BY <1>1, <1>5, <2>1, <3>2 DEF Unsaid, Open, NoFault
      <4>2. PICK q \in Runs : Has(q, m)
        BY <4>1 DEF Said, Told
      <4>3. q # r
        BY <1>3, <4>2, PlanCapacityAssumption DEF Has
      <4> QED BY <2>3, <4>2, <4>3 DEF Has, Paging
    <3> QED BY <3>1, <3>2
  <2> QED BY <2>4, <2>5 DEF Said
<1> QED BY <1>4, <1>5 DEF Freezes

LEMMA CutSaid ==
  ASSUME Typed, Said, NEW r \in Runs, Cuts(r)
  PROVE  Said'
<1>1. UNCHANGED <<projects, incident, noted, opener, hidden>> /\ (Fault \/ NoFault)
  BY DEF Cuts
<1>2. ASSUME NEW q \in Runs
      PROVE  (Paging(q)' <=> Paging(q)) /\ run'[q].thawed = run[q].thawed
             /\ run'[q].todo = run[q].todo /\ run'[q].cur = run[q].cur
  BY CutsRuns DEF Paging
<1> QED BY <1>1, <1>2, QuietSaid DEF Said, Calls, Has

LEMMA GoSaid ==
  ASSUME Typed, Said, NEW r \in Runs, Ticks \/ Closed(r) \/ Paged(r) \/ Ends(r) \/ Dies(r)
  PROVE  Said'
<1>1. Fits(run[r]) /\ Fits(run[Job]) /\ Job \in Runs /\ IdleRun.pc = "idle" /\ IdleRun.cur = None
  BY DEF Typed, Runs, IdleRun
<1>2. CASE Ticks
  <2> DEFINE x == [run[Job] EXCEPT !.pc = "rank"]
  <2>1. Step(Job, x) /\ run[Job].pc = "idle" /\ NoFault /\ UNCHANGED <<projects, incident, noted, opener, hidden>>
    BY <1>2 DEF Ticks, Go, At, NoFault, rows
  <2>2. Fits(x) /\ x.pc = "rank" /\ x.cur = run[Job].cur /\ x.thawed = run[Job].thawed
    BY <1>1, <2>1 DEF Fits, Run
  <2> HIDE DEF x
  <2>3. run[Job].cur = None /\ ~Paging(Job)
    BY <1>1, <2>1 DEF Fits, Paging
  <2> QED BY <1>1, <2>1, <2>2, <2>3, StepSaid, PlanCapacityAssumption DEF Has
<1>3. CASE Closed(r) \/ Paged(r)
  <2> DEFINE x == [run[r] EXCEPT !.pc = "thawed"]
  <2>1. /\ Step(r, x) /\ run[r].pc \in {"close", "page"} /\ run[r].todo = {}
        /\ NoFault /\ UNCHANGED <<projects, incident, noted, opener, hidden>>
    BY <1>3 DEF Closed, Paged, Go, At, NoFault, rows
  <2>2. Fits(x) /\ x.pc = "thawed" /\ x.cur = run[r].cur /\ x.thawed = run[r].thawed
    BY <1>1, <2>1 DEF Fits, Run
  <2> HIDE DEF x
  <2>3. run[r].cur = None
    BY <1>1, <2>1 DEF Fits
  <2> QED BY <2>1, <2>2, <2>3, StepSaid DEF Has
<1>4. CASE Ends(r)
  <2>1. /\ Step(r, IdleRun) /\ NoFault /\ UNCHANGED <<projects, incident, noted, opener, hidden>>
        /\ run[r].pc = "thawed" /\ run[r].thawed = {}
    BY <1>4 DEF Ends, NoFault, rows, At
  <2>2. run[r].cur = None /\ ~Paging(r)
    BY <1>1, <2>1 DEF Fits, Paging
  <2> QED BY <1>1, <2>1, <2>2, IdleRunFits, StepSaid, PlanCapacityAssumption DEF Has
<1>5. CASE Dies(r)
  <2>1. Step(r, IdleRun) /\ Fault /\ UNCHANGED <<projects, incident, noted, opener, hidden>>
    BY <1>5 DEF Dies, rows
  <2>2. ~NoFault
    BY <2>1 DEF Fault, NoFault, Typed, TypeOK
  <2> QED BY <1>1, <2>1, <2>2, IdleRunFits, StepSaid
<1> QED BY <1>2, <1>3, <1>4, <1>5

LEMMA ListSaid ==
  ASSUME Typed, Said, NEW r \in Runs, Lists(r) \/ \E p \in Projects : ListsThawed(r, p)
  PROVE  Said'
<1>1. Fits(run[r]) /\ UNCHANGED <<projects, incident, noted, opener, hidden>> /\ (Fault \/ NoFault)
  BY Zenon DEF Typed, Lists, ListsThawed, rows
<1>2. CASE Lists(r)
  <2> DEFINE x == [run[r] EXCEPT !.pc = "close", !.todo = PlanPausedOpen]
             y == [run[r] EXCEPT !.pc = "thawed"]
  <2>1. run[r].pc = "list" /\ (Step(r, x) \/ Step(r, y))
    BY <1>2 DEF Lists, At, Go
  <2>2. PlanPausedOpen \in SUBSET Monitors
    BY DEF PlanPausedOpen, Open
  <2>3. /\ Fits(x) /\ x.pc = "close" /\ x.cur = run[r].cur /\ x.thawed = run[r].thawed
        /\ Fits(y) /\ y.pc = "thawed" /\ y.cur = run[r].cur /\ y.thawed = run[r].thawed
    BY <1>1, <2>1, <2>2, PlanCapacityAssumption DEF Fits, Run
  <2>4. run[r].cur = None /\ ~Paging(r)
    BY <1>1, <2>1 DEF Fits, Paging
  <2> HIDE DEF x, y
  <2>5. CASE Step(r, x)
    BY <1>1, <2>3, <2>4, <2>5, StepSaid DEF Has
  <2>6. CASE Step(r, y)
    BY <1>1, <2>3, <2>4, <2>6, StepSaid DEF Has
  <2> QED BY <2>1, <2>5, <2>6
<1>3. ASSUME NEW p \in Projects, ListsThawed(r, p) PROVE Said'
  <2> DEFINE todo == {m \in Open : Home[m] = p /\ ~noted[m]}
             x == [run[r] EXCEPT !.pc = "page", !.thawed = @ \ {p}, !.todo = todo]
             y == [run[r] EXCEPT !.thawed = @ \ {p}]
  <2>1. run[r].pc = "thawed" /\ (Step(r, x) \/ (Step(r, y) /\ Fault))
    BY <1>3 DEF ListsThawed, At
  <2>2. todo \in SUBSET Open /\ Open \subseteq Monitors
    BY DEF Open
  <2>3. \A m \in Monitors : Unsaid(m) /\ Home[m] = p => m \in todo
    BY DEF Unsaid, Said, Calls
  <2> HIDE DEF todo
  <2>4. /\ Fits(x) /\ x.pc = "page" /\ x.cur = run[r].cur /\ x.thawed = run[r].thawed \ {p} /\ x.todo = todo
        /\ Fits(y) /\ y.pc = "thawed" /\ y.cur = run[r].cur
    BY <1>1, <2>1, <2>2, PlanCapacityAssumption, Zenon DEF Fits, Run
  <2>5. run[r].cur = None /\ ~Paging(r) /\ \A m \in Monitors : Home[m] \in Projects
    BY <1>1, <2>1, PlanCapacityAssumption DEF Fits, Paging
  <2> HIDE DEF x, y
  <2>6. CASE Step(r, x)
    <3>1. \A m \in Monitors : Unsaid(m) /\ Has(r, m) => Home[m] \in x.thawed \/ m \in x.todo
      BY <2>3, <2>4, <2>5, PlanCapacityAssumption DEF Has
    <3> QED BY <1>1, <2>2, <2>4, <2>5, <2>6, <3>1, StepSaid
  <2>7. CASE Step(r, y) /\ Fault
    <3>1. ~NoFault
      BY <2>7 DEF Fault, NoFault, Typed, TypeOK
    <3> QED BY <1>1, <2>4, <2>5, <2>7, <3>1, StepSaid
  <2> QED BY <2>1, <2>6, <2>7
<1> QED BY <1>2, <1>3

\* A guard keeps the outage in hand, or finds its project frozen.
LEMMA PageGuardSaid ==
  ASSUME Typed, Said, NEW r \in Runs, NEW m \in Monitors, PageGuards(r, m)
  PROVE  Said'
<1> DEFINE x == [run[r] EXCEPT !.pc = "queue", !.cur = m, !.todo = @ \ {m}]
           y == [run[r] EXCEPT !.todo = @ \ {m}]
<1>1. /\ Fits(run[r]) /\ run[r].pc = "page" /\ (Fault \/ NoFault)
      /\ (Step(r, x) \/ (Step(r, y) /\ Home[m] \notin Live))
      /\ UNCHANGED <<projects, incident, noted, opener, hidden>>
  BY DEF PageGuards, At, Passes, Skips, Typed
<1>2. m \in run[r].todo
  BY DEF PageGuards
<1>3. /\ Fits(x) /\ x.pc = "queue" /\ x.cur = m /\ x.todo = run[r].todo \ {m} /\ x.thawed = run[r].thawed
      /\ Fits(y) /\ y.pc = "page" /\ y.cur = run[r].cur /\ y.todo = run[r].todo \ {m} /\ y.thawed = run[r].thawed
  BY <1>1, PlanCapacityAssumption, Zenon DEF Fits, Run
<1>4. run[r].todo \subseteq Open /\ run[r].cur = None
  BY <1>1, InHandIsOpen DEF Said, Paging, Fits
<1> HIDE DEF x, y
<1>5. CASE Step(r, x)
  <2>1. \A k \in Monitors : Unsaid(k) /\ Has(r, k) => Home[k] \in x.thawed \/ x.cur = k \/ k \in x.todo
    BY <1>3, <1>4, PlanCapacityAssumption DEF Has
  <2> QED BY <1>1, <1>2, <1>3, <1>4, <1>5, <2>1, StepSaid
<1>6. CASE Step(r, y) /\ Home[m] \notin Live
  <2>1. \A k \in Monitors : Unsaid(k) /\ Has(r, k) => Home[k] \in y.thawed \/ k \in y.todo
    BY <1>3, <1>4, <1>6, PlanCapacityAssumption DEF Has, Unsaid
  <2> QED BY <1>1, <1>3, <1>4, <1>6, <2>1, StepSaid
<1> QED BY <1>1, <1>5, <1>6

LEMMA PageSaid ==
  ASSUME Typed, Said, NEW r \in Runs, Pages(r)
  PROVE  Said'
<1> DEFINE k == run[r].cur
           x == [run[r] EXCEPT !.pc = "page", !.cur = None, !.paged = @ \cup {k}]
<1>1. /\ Fits(run[r]) /\ run[r].pc = "queue" /\ Step(r, x) /\ Queue(k)
      /\ UNCHANGED <<projects, opener, hidden>>
  BY DEF Pages, At, Typed
<1>2. Fits(x) /\ x.pc = "page" /\ x.cur = None /\ x.todo = run[r].todo /\ x.thawed = run[r].thawed
  BY <1>1, PlanCapacityAssumption DEF Fits, Run
<1>3. k \in Monitors /\ k \in Open
  <2>1. k # None
    BY <1>1 DEF Fits
  <2> QED BY <2>1, InHandIsOpen DEF Said, Open
<1> HIDE DEF x, k
<1>4. run'[r] = x /\ \A q \in Runs \ {r} : run'[q] = run[q]
  BY <1>1, <1>2, StepHolds
<1>5. \/ Fault /\ UNCHANGED <<incident, noted>>
      \/ /\ NoFault /\ noted'[k] = TRUE
         /\ incident'[k] = (IF incident[k] = "silent" THEN "queued" ELSE incident[k])
         /\ \A m \in Monitors \ {k} : incident'[m] = incident[m] /\ noted'[m] = noted[m]
  BY <1>1, <1>3, QueueHolds DEF Typed
<1>6. Open' = Open
  BY <1>3, <1>5 DEF Open
<1>7. Calls'
  <2>1. \A m \in Monitors : /\ opener'[m] \in {"guard", "queue"} => m \in Open'
                            /\ noted'[m] => m \in Open' /\ incident'[m] # "silent"
    BY <1>1, <1>3, <1>5, <1>6 DEF Said, Calls
  <2>2. ASSUME NEW q \in Runs
        PROVE  (Paging(q)' => run'[q].todo \subseteq Open') /\ (run'[q].cur # None => run'[q].cur \in Open')
    <3>1. CASE q = r
      BY <1>1, <1>2, <1>4, <1>6, <3>1, InHandIsOpen DEF Paging, Said
    <3>2. CASE q # r
      BY <1>4, <1>6, <3>2, InHandIsOpen DEF Paging, Said
    <3> QED BY <3>1, <3>2
  <2> QED BY <2>1, <2>2 DEF Calls
<1>8. Told'
  <2> SUFFICES ASSUME faults' = 0, NEW m \in Monitors \ hidden, Unsaid(m)', opener[m] \notin {"guard", "queue"}
               PROVE  \E q \in Runs : Has(q, m)'
    BY <1>1 DEF Told
  <2>1. faults = 0 /\ NoFault /\ ~Fault
    BY <1>5, NoFaultBefore DEF Typed
  <2>2. Unsaid(m) /\ m # k
    BY <1>1, <1>5, <1>6, <2>1 DEF Unsaid, Live
  <2>3. PICK q \in Runs : Has(q, m)
    BY <2>1, <2>2 DEF Said, Told
  <2>4. CASE q = r
    BY <1>1, <1>2, <1>4, <2>2, <2>3, <2>4 DEF Has, Paging, k
  <2>5. CASE q # r
    BY <1>4, <2>3, <2>5 DEF Has, Paging
  <2> QED BY <2>4, <2>5
<1> QED BY <1>7, <1>8 DEF Said

\* A close takes the incident out of every hand.
LEMMA OverSaid ==
  ASSUME Typed, Said, NEW m \in Monitors, NEW runs \in [Runs -> Run], Over(m, runs),
         UNCHANGED projects, Fault \/ NoFault,
         \A q \in Runs : /\ Fits(runs[q]) /\ runs[q].pc = run[q].pc /\ runs[q].cur = run[q].cur
                         /\ runs[q].thawed = run[q].thawed
                         /\ Paging(q) => runs[q].todo = run[q].todo
  PROVE  Said'
<1>1. /\ incident' = [incident EXCEPT ![m] = "none"] /\ noted' = [noted EXCEPT ![m] = FALSE]
      /\ hidden' = hidden \ {m}
      /\ opener' = [opener EXCEPT ![m] = IF @ \in {"guard", "queue"} THEN "idle" ELSE @]
  BY DEF Over
<1>2. /\ incident'[m] = "none" /\ ~noted'[m] /\ opener'[m] \notin {"guard", "queue"}
      /\ \A k \in Monitors \ {m} : incident'[k] = incident[k] /\ noted'[k] = noted[k] /\ opener'[k] = opener[k]
  BY <1>1 DEF Typed, TypeOK
<1>3. Open' = Open \ {m}
  BY <1>2 DEF Open
<1>4. ASSUME NEW q \in Runs
      PROVE  /\ Fits(run'[q]) /\ run'[q].thawed = run[q].thawed
             /\ IF run[q].cur = m
                  THEN run'[q].pc = "page" /\ run'[q].cur = None /\ run'[q].todo = runs[q].todo
                  ELSE /\ run'[q].pc = run[q].pc /\ run'[q].cur = run[q].cur
                       /\ run'[q].todo = IF Paging(q) THEN runs[q].todo \ {m} ELSE runs[q].todo
  <2>1. \A k \in Runs : Fits(runs[k]) /\ runs[k].pc = run[k].pc /\ runs[k].cur = run[k].cur
    OBVIOUS
  <2>2. LetsGo(q, m, runs[q])
    BY <2>1, OverHolds
  <2> QED BY <2>2 DEF LetsGo
<1>5. ASSUME NEW q \in Runs
      PROVE  run[q].cur = m => run[q].pc = "queue" /\ m \notin runs[q].todo /\ runs[q].todo = run[q].todo
  <2>1. Fits(run[q]) /\ m # None
    BY PlanCapacityAssumption DEF Typed
  <2> QED BY <2>1 DEF Fits, Paging
<1>6. Calls'
  <2>1. \A k \in Monitors : /\ opener'[k] \in {"guard", "queue"} => k \in Open'
                            /\ noted'[k] => k \in Open' /\ incident'[k] # "silent"
    BY <1>2, <1>3 DEF Said, Calls
  <2>2. ASSUME NEW q \in Runs
        PROVE  (Paging(q)' => run'[q].todo \subseteq Open') /\ (run'[q].cur # None => run'[q].cur \in Open')
    <3>1. (Paging(q) => run[q].todo \subseteq Open) /\ (run[q].cur # None => run[q].cur \in Open)
      BY InHandIsOpen DEF Said
    <3>2. CASE run[q].cur = m
      BY <1>3, <1>4, <1>5, <3>1, <3>2, Zenon DEF Paging
    <3>3. CASE run[q].cur # m
      BY <1>3, <1>4, <3>1, <3>3 DEF Paging
    <3> QED BY <3>2, <3>3
  <2> QED BY <2>1, <2>2 DEF Calls
<1>7. Told'
  <2> SUFFICES ASSUME faults' = 0, NEW k \in Monitors \ hidden', Unsaid(k)', opener'[k] \notin {"guard", "queue"}
               PROVE  \E q \in Runs : Has(q, k)'
    BY DEF Told
  <2>1. faults = 0
    BY NoFaultBefore DEF Typed
  <2>2. k # m /\ Unsaid(k) /\ k \notin hidden /\ opener[k] \notin {"guard", "queue"}
    BY <1>1, <1>2, <1>3 DEF Unsaid, Live
  <2>3. PICK q \in Runs : Has(q, k)
    BY <2>1, <2>2 DEF Said, Told
  <2>4. CASE run[q].cur = m
    BY <1>4, <1>5, <2>2, <2>3, <2>4 DEF Has, Paging
  <2>5. CASE run[q].cur # m
    BY <1>4, <2>2, <2>3, <2>5 DEF Has, Paging
  <2> QED BY <2>4, <2>5
<1> QED BY <1>6, <1>7 DEF Said

LEMMA CloseSaid ==
  ASSUME Typed, Said, NEW m \in Monitors, Recovers(m) \/ \E r \in Runs : Closes(r, m)
  PROVE  Said'
<1>1. \A q \in Runs : Fits(run[q]) /\ run \in [Runs -> Run]
  BY DEF Typed, TypeOK
<1>2. CASE Recovers(m)
  <2>1. run \in [Runs -> Run] /\ Over(m, run) /\ UNCHANGED projects /\ NoFault
    BY <1>2 DEF Recovers, NoFault, Typed, TypeOK
  <2> QED BY <1>1, <2>1, OverSaid
<1>3. ASSUME NEW r \in Runs, Closes(r, m) PROVE Said'
  <2> DEFINE x == [run[r] EXCEPT !.todo = @ \ {m}]
             runs == [run EXCEPT ![r].todo = @ \ {m}]
  <2>1. Fits(run[r]) /\ run \in [Runs -> Run] /\ run[r].pc = "close"
    BY <1>1, <1>3 DEF Closes, At
  <2>2. Fits(x) /\ x.pc = run[r].pc /\ x.cur = run[r].cur /\ x.thawed = run[r].thawed
    BY <2>1 DEF Fits, Run
  <2>3. UNCHANGED projects /\ (Fault \/ NoFault)
    BY <1>3 DEF Closes
  <2>4. CASE Over(m, runs)
    <3>1. runs = [run EXCEPT ![r] = x]
      OBVIOUS
    <3> HIDE DEF x, runs
    <3>2. runs \in [Runs -> Run] /\ \A q \in Runs : /\ Fits(runs[q]) /\ runs[q].pc = run[q].pc
                                                    /\ runs[q].cur = run[q].cur /\ runs[q].thawed = run[q].thawed
                                                    /\ Paging(q) => runs[q].todo = run[q].todo
      BY <1>1, <2>1, <2>2, <3>1 DEF Fits, Paging
    <3> QED BY <2>3, <2>4, <3>2, OverSaid
  <2>5. CASE Step(r, x) /\ UNCHANGED <<incident, noted, hidden, opener>>
    <3>1. run[r].cur = None /\ ~Paging(r)
      BY <2>1 DEF Fits, Paging
    <3> HIDE DEF x
    <3> QED BY <2>1, <2>2, <2>3, <2>5, <3>1, StepSaid DEF Has
  <2> QED BY <1>3, <2>4, <2>5 DEF Closes
<1> QED BY <1>2, <1>3

\* The steps of a call of Lifecycle.Open, and the delivery of a row.
LEMMA OpenSaid ==
  ASSUME Typed, Said, NEW m \in Monitors, Fails(m) \/ OpenStep(m) \/ Delivers(m)
  PROVE  Said'
<1>1. UNCHANGED <<projects, run, hidden>> /\ (Fault \/ NoFault)
  BY DEF Fails, OpenStep, Inserts, Guards, Notifies, Delivers, Passes, Skips, Queue, NoFault, rows
<1>2. \A k \in Monitors \ {m} : incident'[k] = incident[k] /\ noted'[k] = noted[k] /\ opener'[k] = opener[k]
  BY DEF Fails, OpenStep, Inserts, Guards, Notifies, Delivers, Passes, Skips, Queue, rows, Typed, TypeOK
<1>3. /\ opener[m] \in {"guard", "queue"} => m \in Open
      /\ noted[m] => m \in Open /\ incident[m] # "silent"
  BY DEF Said, Calls
<1>4. /\ m \in Open => m \in Open'
      /\ opener'[m] \in {"guard", "queue"} => m \in Open'
      /\ noted'[m] => m \in Open' /\ incident'[m] # "silent"
      /\ NoFault /\ Unsaid(m)' /\ opener'[m] \notin {"guard", "queue"} =>
           Unsaid(m) /\ opener[m] \notin {"guard", "queue"}
  <2>1. CASE Fails(m)
    BY <1>3, <2>1 DEF Fails, Open, Unsaid, Live, rows, Typed, TypeOK
  <2>2. CASE Inserts(m)
    <3>1. CASE m \in Open \/ monitors[m] = "gone"
      BY <1>3, <2>2, <3>1 DEF Inserts, Open, Unsaid, Live, Typed, TypeOK
    <3>2. CASE ~(m \in Open \/ monitors[m] = "gone")
      BY <1>3, <2>2, <3>2 DEF Inserts, Open, Unsaid, Live, Typed, TypeOK
    <3> QED BY <3>1, <3>2
  <2>3. CASE Guards(m)
    <3>1. UNCHANGED <<incident, noted, projects>> /\ opener[m] = "guard"
      BY <2>3 DEF Guards, Passes, Skips
    <3>2. opener'[m] = "queue" \/ (opener'[m] = "idle" /\ Home[m] \notin Live)
      BY <2>3 DEF Guards, Skips, Typed, TypeOK
    <3> QED BY <1>3, <3>1, <3>2 DEF Open, Unsaid, Live
  <2>4. CASE Notifies(m)
    <3>1. opener'[m] = "idle" /\ opener[m] = "queue" /\ Queue(m)
      BY <2>4 DEF Notifies, Typed, TypeOK
    <3>2. \/ Fault /\ UNCHANGED <<incident, noted>>
          \/ /\ NoFault /\ noted'[m] = TRUE
             /\ incident'[m] = IF incident[m] = "silent" THEN "queued" ELSE incident[m]
      BY <3>1, QueueHolds DEF Typed
    <3>3. ~(Fault /\ NoFault)
      BY DEF Fault, NoFault, Typed, TypeOK
    <3> QED BY <1>3, <3>1, <3>2, <3>3 DEF Open, Unsaid
  <2>5. CASE Delivers(m)
    <3>1. incident[m] = "queued" /\ incident'[m] \in {"sent", "dead"} /\ UNCHANGED <<noted, opener>>
      BY <2>5 DEF Delivers, Typed, TypeOK
    <3> QED BY <1>3, <3>1 DEF Open, Unsaid
  <2> QED BY <2>1, <2>2, <2>3, <2>4, <2>5 DEF OpenStep
<1>5. Open \subseteq Open'
  BY <1>2, <1>4 DEF Open
<1>6. Calls'
  <2>1. \A k \in Monitors : /\ opener'[k] \in {"guard", "queue"} => k \in Open'
                            /\ noted'[k] => k \in Open' /\ incident'[k] # "silent"
    BY <1>2, <1>4, <1>5 DEF Said, Calls
  <2>2. ASSUME NEW q \in Runs
        PROVE  (Paging(q)' => run'[q].todo \subseteq Open') /\ (run'[q].cur # None => run'[q].cur \in Open')
    BY <1>1, <1>5, InHandIsOpen DEF Paging, Said
  <2> QED BY <2>1, <2>2 DEF Calls
<1>7. Told'
  <2> SUFFICES ASSUME faults' = 0, NEW k \in Monitors \ hidden, Unsaid(k)', opener'[k] \notin {"guard", "queue"}
               PROVE  \E q \in Runs : Has(q, k)'
    BY <1>1 DEF Told
  <2>1. faults = 0 /\ NoFault
    BY <1>1, NoFaultBefore DEF Typed
  <2>2. Unsaid(k) /\ opener[k] \notin {"guard", "queue"}
    BY <1>1, <1>2, <1>4, <2>1 DEF Unsaid, Open, Live
  <2>3. PICK q \in Runs : Has(q, k)
    BY <2>1, <2>2 DEF Said, Told
  <2> QED BY <1>1, <2>3 DEF Has, Paging
<1> QED BY <1>6, <1>7 DEF Said

\* A purchase, and a PATCH up to its commit.
LEMMA OwnerSaid ==
  ASSUME Typed, Said,
         \/ \E p \in Plans : Buys(p)
         \/ \E m \in Monitors, to \in {"active", "owner"} : PatchReads(m, to)
         \/ PatchWrites
  PROVE  Said'
<1>1. NoFault /\ UNCHANGED <<projects, incident, noted, opener, hidden, run>>
  BY Zenon DEF Buys, PatchReads, PatchWrites, NoFault, rows
<1>2. \A q \in Runs : /\ Paging(q)' => run'[q].todo \subseteq Open
                      /\ run'[q].cur # None => run'[q].cur \in Open
  BY <1>1, InHandIsOpen DEF Paging, Said
<1>3. \A q \in Runs, m \in Monitors : Unsaid(m) /\ Has(q, m) => Has(q, m)'
  BY <1>1 DEF Has, Paging
<1>4. Fault \/ NoFault
  BY <1>1
<1>5. UNCHANGED <<projects, incident, noted, opener, hidden>>
  BY <1>1
<1> HIDE DEF Typed, Said, Fault, NoFault
<1> QED BY <1>2, <1>3, <1>4, <1>5, QuietSaid, Zenon

\* What a PATCH opens is queued with it, unless its project was frozen then.
LEMMA CommitSaid ==
  ASSUME Typed, Said, PatchCommits
  PROVE  Said'
<1> DEFINE m == patch.m
           opens == patch.opens # "none" /\ m \notin Open
<1>1. m \in Monitors /\ UNCHANGED <<projects, opener>> /\ NoFault
  BY DEF PatchCommits, Typed, NoFault
<1>2. /\ incident'[m] = (IF opens THEN patch.opens ELSE incident[m])
      /\ noted'[m] = (noted[m] \/ (opens /\ patch.opens = "queued"))
      /\ \A k \in Monitors \ {m} : incident'[k] = incident[k] /\ noted'[k] = noted[k]
      /\ hidden' = IF opens /\ patch.opens = "silent" /\ Home[m] \in Live THEN hidden \cup {m} ELSE hidden
  BY <1>1 DEF PatchCommits, Typed, TypeOK
<1>3. /\ noted[m] => m \in Open /\ incident[m] # "silent"
      /\ noted[m] \in BOOLEAN
  BY <1>1 DEF Said, Calls, Typed, TypeOK
<1>4. Open' = IF opens THEN Open \cup {m} ELSE Open
  BY <1>1, <1>2 DEF Open
<1>5. \A q \in Runs : /\ run'[q].pc = run[q].pc /\ run'[q].thawed = run[q].thawed
                      /\ run'[q].todo = run[q].todo /\ run'[q].cur = run[q].cur
  BY CommitHolds
<1>6. Calls'
  <2>1. ASSUME NEW k \in Monitors
        PROVE  /\ opener'[k] \in {"guard", "queue"} => k \in Open'
               /\ noted'[k] => k \in Open' /\ incident'[k] # "silent"
    <3>1. CASE k = m
      <4>1. opener[m] \in {"guard", "queue"} => m \in Open
        BY <1>1 DEF Said, Calls
      <4>2. CASE opens
        BY <1>1, <1>2, <1>3, <1>4, <3>1, <4>1, <4>2
      <4>3. CASE ~opens
        BY <1>1, <1>2, <1>3, <1>4, <3>1, <4>1, <4>3
      <4> QED BY <4>2, <4>3
    <3>2. CASE k # m
      BY <1>1, <1>2, <1>4, <3>2 DEF Said, Calls
    <3> QED BY <3>1, <3>2
  <2>2. ASSUME NEW q \in Runs
        PROVE  (Paging(q)' => run'[q].todo \subseteq Open') /\ (run'[q].cur # None => run'[q].cur \in Open')
    <3>1. Open \subseteq Open'
      BY <1>4
    <3> QED BY <1>5, <3>1, InHandIsOpen DEF Paging, Said
  <2> QED BY <2>1, <2>2 DEF Calls
<1>7. Told'
  <2> SUFFICES ASSUME faults' = 0, NEW k \in Monitors \ hidden', Unsaid(k)', opener[k] \notin {"guard", "queue"}
               PROVE  \E q \in Runs : Has(q, k)'
    BY <1>1 DEF Told
  <2>1. faults = 0
    BY <1>1 DEF NoFault
  <2>2. Unsaid(k) /\ k \notin hidden
    <3>1. Home[k] \in Live /\ incident'[k] = "silent" /\ k \in Open'
      BY <1>1 DEF Unsaid, Live
    <3>2. CASE k = m /\ opens
      BY <1>2, <3>1, <3>2
    <3>3. CASE ~(k = m /\ opens)
      BY <1>1, <1>2, <1>4, <3>1, <3>3 DEF Unsaid
    <3> QED BY <3>2, <3>3
  <2>3. PICK q \in Runs : Has(q, k)
    BY <2>1, <2>2 DEF Said, Told
  <2> QED BY <1>5, <2>3 DEF Has, Paging
<1> QED BY <1>6, <1>7 DEF Said

LEMMA DeleteSaid ==
  ASSUME Typed, Said, NEW p \in Projects, Deletes(p)
  PROVE  Said'
<1> DEFINE with == {m \in Monitors : Home[m] = p}
<1>1. /\ projects' = [projects EXCEPT ![p] = "gone"] /\ hidden' = hidden \ with /\ UNCHANGED faults
      /\ incident' = [m \in Monitors |-> IF m \in with THEN "none" ELSE incident[m]]
      /\ noted' = [m \in Monitors |-> IF m \in with THEN FALSE ELSE noted[m]]
      /\ opener' = [m \in Monitors |-> IF m \in with THEN "idle" ELSE opener[m]]
  BY DEF Deletes
<1>2. Open' = Open \ with /\ Live' = Live \ {p} /\ with \subseteq Monitors
  BY <1>1 DEF Open, Live, Typed, TypeOK
<1>3. /\ run'[Deletion].pc = "rank" /\ run'[Deletion].thawed = {} /\ run'[Deletion].cur = None
      /\ run[Deletion].thawed = {} /\ run[Deletion].pc = "idle" /\ run[Deletion].cur = None
      /\ Fits(run[Job]) /\ Job \in Runs
      /\ run'[Job].todo = run[Job].todo \ with
      /\ run'[Job].thawed = run[Job].thawed \ {p}
      /\ IF run[Job].cur \in with
           THEN run'[Job].pc = "page" /\ run'[Job].cur = None /\ run[Job].pc = "queue"
           ELSE run'[Job].pc = run[Job].pc /\ run'[Job].cur = run[Job].cur
  <2>1. Fits(run[Job]) /\ Fits(run[Deletion]) /\ run[Deletion].pc = "idle" /\ Job \in Runs
    BY DEF Typed, Runs, Deletes, At
  <2>2. run[Deletion].cur = None /\ (run[Job].cur \in with => run[Job].pc = "queue")
    BY <2>1, PlanCapacityAssumption DEF Fits
  <2> QED BY <2>1, <2>2, DeleteHolds
<1>4. Calls'
  <2>1. \A k \in Monitors : /\ opener'[k] \in {"guard", "queue"} => k \in Open'
                            /\ noted'[k] => k \in Open' /\ incident'[k] # "silent"
    <3> TAKE k \in Monitors
    <3>1. CASE k \in with
      BY <1>1, <3>1
    <3>2. CASE k \notin with
      BY <1>1, <1>2, <3>2 DEF Said, Calls
    <3> QED BY <3>1, <3>2
  <2>2. (Paging(Job)' => run'[Job].todo \subseteq Open') /\ (run'[Job].cur # None => run'[Job].cur \in Open')
    <3>1. (Paging(Job) => run[Job].todo \subseteq Open) /\ (run[Job].cur # None => run[Job].cur \in Open)
      BY <1>3, InHandIsOpen DEF Said
    <3> QED BY <1>2, <1>3, <3>1 DEF Paging
  <2>3. ~Paging(Deletion)' /\ run'[Deletion].cur = None
    BY <1>3 DEF Paging
  <2> QED BY <2>1, <2>2, <2>3 DEF Calls, Runs
<1>5. Told'
  <2> SUFFICES ASSUME faults' = 0, NEW k \in Monitors \ hidden', Unsaid(k)', opener'[k] \notin {"guard", "queue"}
               PROVE  \E q \in Runs : Has(q, k)'
    BY DEF Told
  <2>1. k \notin with /\ Unsaid(k) /\ opener[k] \notin {"guard", "queue"} /\ k \notin hidden /\ faults = 0
    BY <1>1, <1>2 DEF Unsaid
  <2>2. PICK q \in Runs : Has(q, k)
    BY <2>1 DEF Said, Told
  <2>3. q = Job
    BY <1>3, <2>2, PlanCapacityAssumption DEF Has, Paging, Runs
  <2>4. Home[k] # p
    BY <2>1
  <2>5. Has(Job, k)'
    BY <1>3, <2>1, <2>2, <2>3, <2>4 DEF Has, Paging
  <2> QED BY <1>3, <2>5
<1> QED BY <1>4, <1>5 DEF Said

LEMMA NextSaid == Typed /\ Said /\ [Next]_vars => Said'
<1> SUFFICES ASSUME Typed, Said, [Next]_vars PROVE Said'
  OBVIOUS
<1>1. CASE UNCHANGED vars
  <2>1. NoFault /\ UNCHANGED <<projects, incident, noted, opener, hidden, run>>
    BY <1>1 DEF vars, rows, NoFault
  <2>2. \A q \in Runs : /\ Paging(q)' => run'[q].todo \subseteq Open
                        /\ run'[q].cur # None => run'[q].cur \in Open
    BY <2>1, InHandIsOpen DEF Paging, Said
  <2>3. \A q \in Runs, m \in Monitors : Unsaid(m) /\ Has(q, m) => Has(q, m)'
    BY <2>1 DEF Has, Paging
  <2> QED BY <2>1, <2>2, <2>3, QuietSaid
<1>2. CASE Ticks
  BY <1>2, GoSaid DEF Runs
<1>3. ASSUME NEW r \in Runs, RunStep(r) \/ Dies(r) PROVE Said'
  <2>1. ASSUME NEW newest, Ranks(r, newest) PROVE Said'
    BY <2>1, RankSaid
  <2>2. CASE Freezes(r) \/ Budgets(r) \/ Cuts(r)
    BY <2>2, FreezeSaid, RankSaid, CutSaid
  <2>3. CASE Closed(r) \/ Paged(r) \/ Ends(r) \/ Dies(r)
    BY <2>3, GoSaid
  <2>4. CASE Lists(r) \/ \E p \in Projects : ListsThawed(r, p)
    BY <2>4, ListSaid
  <2>5. CASE Pages(r) \/ \E m \in Monitors : PageGuards(r, m)
    BY <2>5, PageSaid, PageGuardSaid
  <2>6. ASSUME NEW m \in Monitors, Closes(r, m) PROVE Said'
    BY <2>6, CloseSaid
  <2> QED BY <1>3, <2>1, <2>2, <2>3, <2>4, <2>5, <2>6 DEF RunStep
<1>4. ASSUME NEW m \in Monitors, Fails(m) \/ OpenStep(m) \/ Delivers(m) \/ Recovers(m) PROVE Said'
  BY <1>4, OpenSaid, CloseSaid
<1>5. CASE \/ \E p \in Plans : Buys(p)
           \/ \E m \in Monitors, to \in {"active", "owner"} : PatchReads(m, to)
           \/ PatchWrites
  BY <1>5, OwnerSaid
<1>6. CASE PatchCommits
  BY <1>6, CommitSaid
<1>7. ASSUME NEW p \in Projects, Deletes(p) PROVE Said'
  BY <1>7, DeleteSaid
<1> QED BY <1>1, <1>2, <1>3, <1>4, <1>5, <1>6, <1>7 DEF Next

LEMMA InitSaid == Init => Said
<1> SUFFICES ASSUME Init PROVE Said
  OBVIOUS
<1>1. Open = {} /\ \A r \in Runs : run[r].pc = "idle" /\ run[r].cur = None
  BY DEF Init, Open, IdleRun
<1>2. \A m \in Monitors : ~noted[m] /\ opener[m] = "idle"
  BY DEF Init
<1> QED BY <1>1, <1>2 DEF Said, Calls, Told, Unsaid, Paging

\* While no statement fails and no process dies, an outage that is open in a
\* live project has been announced or is in the hands of the call that opened it
\* or of the run that thawed its project, for any number of projects and checks
\* and any overlap of runs, calls, PATCHes and deletions.
THEOREM OutagesAreAnnounced == Spec => []OpenOutageIsPaged
<1>1. Init => Said
  BY InitSaid
<1>2. Said => OpenOutageIsPaged
  BY DEF Said, Told, OpenOutageIsPaged, Announced, UnderWay, Unsaid, Has
<1> QED BY <1>1, <1>2, NextSaid, TypeCorrect, PTL DEF Spec

-----------------------------------------------------------------------------
(* What a run pauses it does not page.                                       *)

\* The places of a run past its closes.
Late == {"thawed", "page", "queue"}

\* A check the run paused is still paused or gone, no call is about to open it,
\* what is open of it is closed before the run pages, and it is not paged.
SparesOf(r) ==
  /\ \A m \in run[r].cut : monitors[m] \in {"plan", "gone"} /\ opener[m] # "insert"
  /\ run[r].pc = "close" => run[r].cut \cap Open \subseteq run[r].todo
  /\ run[r].pc \in Late => run[r].cut \cap Open = {}
  /\ run[r].cut \cap run[r].paged = {}

GoneIsClosed == \A m \in Monitors : monitors[m] = "gone" => m \notin Open

Spares == GoneIsClosed /\ (faults = 0 => \A r \in Runs : SparesOf(r))

\* A step by which the run pauses, closes and pages nothing.
LEMMA SparesFrame ==
  ASSUME NEW q \in Runs, SparesOf(q),
         run'[q].cut \subseteq run[q].cut, run'[q].paged = run[q].paged,
         \A m \in run'[q].cut : /\ monitors[m] \in {"plan", "gone"} => monitors'[m] \in {"plan", "gone"}
                                /\ opener[m] # "insert" => opener'[m] # "insert"
                                /\ m \in Open' => m \in Open,
         run'[q].pc = "close" => run[q].pc = "close" /\ \A m \in run[q].todo : m \in run'[q].todo \/ m \notin Open',
         run'[q].pc \in Late => run[q].pc \in Late
  PROVE  SparesOf(q)'
BY DEF SparesOf

\* The same when one run steps to x, and no check or incident changes.
LEMMA SparesStep ==
  ASSUME Typed, Spares, NEW r \in Runs, NEW x, Fits(x), Step(r, x), Fault \/ NoFault,
         UNCHANGED <<monitors, opener, incident>>,
         NoFault /\ SparesOf(r) =>
           /\ x.cut \subseteq run[r].cut /\ x.paged = run[r].paged
           /\ x.pc = "close" => x.cut \cap Open \subseteq x.todo
           /\ x.pc \in Late => x.cut \cap Open = {}
  PROVE  Spares'
<1>1. Open' = Open
  BY DEF Open
<1>2. run'[r] = x /\ \A q \in Runs \ {r} : run'[q] = run[q]
  BY StepHolds
<1>3. ASSUME faults' = 0, NEW q \in Runs PROVE SparesOf(q)'
  <2>1. NoFault /\ \A k \in Runs : SparesOf(k)
    BY <1>3, NoFaultBefore DEF Spares, Typed
  <2>2. CASE q = r
    <3>1. /\ x.cut \subseteq run[r].cut /\ x.paged = run[r].paged
          /\ x.pc = "close" => x.cut \cap Open \subseteq x.todo
          /\ x.pc \in Late => x.cut \cap Open = {}
      BY <2>1
    <3>2. SparesOf(r)
      BY <2>1
    <3> QED BY <1>1, <1>2, <2>2, <3>1, <3>2 DEF SparesOf
  <2>3. CASE q # r
    BY <1>1, <1>2, <2>1, <2>3 DEF SparesOf
  <2> QED BY <2>2, <2>3
<1> QED BY <1>1, <1>3 DEF Spares, GoneIsClosed

\* The cut itself: what it pauses was running, and no call was about to open it.
LEMMA CutSpares ==
  ASSUME Typed, Spares, NEW r \in Runs, Cuts(r)
  PROVE  Spares'
<1> DEFINE stop == Still(run[r].stop, "active")
           start == Still(run[r].start, "plan")
<1>1. UNCHANGED <<incident, opener>> /\ (Fault \/ NoFault)
  BY DEF Cuts
<1>2. Open' = Open
  BY <1>1 DEF Open
<1>3. \A m \in Monitors : monitors'[m] = "gone" => monitors[m] = "gone"
  BY CutsRuns DEF CutsTo
<1>4. ASSUME faults' = 0 PROVE \A q \in Runs : SparesOf(q)'
  <2>1. NoFault /\ ~Fault /\ \A k \in Runs : SparesOf(k)
    BY <1>1, <1>4, NoFaultBefore DEF Spares, Typed
  <2>2. CutsTo(r, stop, start)
    BY <2>1, CutsRuns
  <2>3. stop \subseteq Monitors /\ start \subseteq Monitors
    BY DEF Still, Cuts, At, Typed, Fits
  <2>4. /\ \A m \in stop : monitors[m] = "active" /\ monitors'[m] = "plan"
        /\ \A m \in Monitors \ (stop \cup start) : monitors'[m] = monitors[m]
    BY <2>2, <2>3 DEF CutsTo, Still
  <2>5. run'[r].cut = {m \in stop : opener[m] # "insert"} /\ \A q \in Runs \ {r} : run'[q].cut = run[q].cut \ start
    BY <2>2 DEF CutsTo
  <2> HIDE DEF stop, start
  <2>6. SparesOf(r)'
    <3>1. run'[r].pc = "list" /\ run'[r].paged = {}
      BY CutsRuns DEF Fits, Typed
    <3> QED BY <1>1, <2>4, <2>5, <3>1 DEF SparesOf, Late
  <2>7. ASSUME NEW q \in Runs \ {r} PROVE SparesOf(q)'
    <3>1. run'[q].pc = run[q].pc /\ run'[q].todo = run[q].todo /\ run'[q].paged = run[q].paged
      BY CutsRuns
    <3>2. run[q].cut \subseteq Monitors /\ \A m \in run[q].cut : m \notin stop
      BY <2>1, <2>4 DEF Typed, Fits, Run, SparesOf
    <3> QED BY <1>1, <1>2, <2>1, <2>4, <2>5, <3>1, <3>2, SparesFrame
  <2> QED BY <2>6, <2>7
<1> QED BY <1>2, <1>3, <1>4 DEF Spares, GoneIsClosed

\* The steps of a run that change no check and no incident.
LEMMA RunSpares ==
  ASSUME Typed, Said, Spares, NEW r \in Runs,
         \/ Ticks \/ Freezes(r) \/ Budgets(r) \/ Lists(r) \/ Closed(r) \/ Paged(r) \/ Ends(r) \/ Dies(r)
         \/ \E newest : Ranks(r, newest)
         \/ \E p \in Projects : ListsThawed(r, p)
         \/ \E m \in Monitors : PageGuards(r, m)
  PROVE  Spares'
<1>1. /\ UNCHANGED <<monitors, opener, incident>> /\ (Fault \/ NoFault)
      /\ Job \in Runs /\ Fits(run[Job]) /\ Fits(run[r])
  BY Zenon DEF Ticks, Ranks, Freezes, Budgets, Lists, Closed, Paged, Ends, Dies, ListsThawed, PageGuards, Passes, Skips,
         NoFault, rows, Runs, Typed
<1>2. CASE Ticks
  <2> DEFINE x == [run[Job] EXCEPT !.pc = "rank"]
  <2>1. Step(Job, x) /\ run[Job].pc = "idle"
    BY <1>2 DEF Ticks, Go, At
  <2>2. Fits(x) /\ x.cut = run[Job].cut /\ x.paged = run[Job].paged /\ x.pc = "rank"
    BY <1>1, <2>1 DEF Fits, Run
  <2> HIDE DEF x
  <2> QED BY <1>1, <2>1, <2>2, SparesStep DEF Late
<1>3. CASE Freezes(r)
  <2> DEFINE thaw == run[r].start \cap (Kept \ Live)
             x == [run[r] EXCEPT !.pc = "budget", !.stop = {}, !.start = {}, !.thawed = thaw]
             y == [run[r] EXCEPT !.pc = "budget", !.stop = {}, !.start = {}]
  <2>1. run[r].pc = "freeze" /\ (Step(r, x) \/ Step(r, y)) /\ thaw \in SUBSET Projects
    BY <1>3 DEF Freezes, At, Kept
  <2> HIDE DEF thaw
  <2>2. /\ Fits(x) /\ x.cut = run[r].cut /\ x.paged = run[r].paged /\ x.pc = "budget"
        /\ Fits(y) /\ y.cut = run[r].cut /\ y.paged = run[r].paged /\ y.pc = "budget"
    BY <1>1, <2>1 DEF Fits, Run
  <2> HIDE DEF x, y
  <2> QED BY <1>1, <2>1, <2>2, SparesStep DEF Late
<1>4. ASSUME NEW pc \in {"freeze", "cut"}, NEW stop \in SUBSET (Projects \cup Monitors),
             NEW start \in SUBSET (Projects \cup Monitors),
             Step(r, [run[r] EXCEPT !.pc = pc, !.stop = stop, !.start = start]),
             pc = "cut" => stop \subseteq Monitors /\ start \subseteq Monitors /\ run[r].pc = "budget",
             pc = "freeze" => run[r].pc = "rank"
      PROVE  Spares'
  <2> DEFINE x == [run[r] EXCEPT !.pc = pc, !.stop = stop, !.start = start]
  <2>1. x \in Run /\ x.pc = pc /\ x.stop = stop /\ x.start = start /\ x.thawed = run[r].thawed
        /\ x.todo = run[r].todo /\ x.cur = run[r].cur /\ x.paged = run[r].paged /\ x.cut = run[r].cut
    BY <1>1 DEF Fits, Run
  <2>2. Step(r, x)
    BY <1>4
  <2> HIDE DEF x
  <2>3. Fits(x)
    BY <1>1, <1>4, <2>1 DEF Fits
  <2> QED BY <1>1, <2>1, <2>2, <2>3, SparesStep DEF Late
<1>5. CASE Budgets(r)
  <2> DEFINE stop == {m \in Holding : Slot(m) > plan.checks /\ monitors[m] = "active"}
             start == {m \in Holding : Slot(m) <= plan.checks /\ monitors[m] = "plan"}
  <2>1. stop \in SUBSET Monitors /\ start \in SUBSET Monitors
    BY DEF Holding
  <2>2. Step(r, [run[r] EXCEPT !.pc = "cut", !.stop = stop, !.start = start]) /\ run[r].pc = "budget"
    BY <1>5 DEF Budgets, At
  <2> HIDE DEF stop, start
  <2> QED BY <1>4, <2>1, <2>2
<1>6. ASSUME NEW newest, Ranks(r, newest) PROVE Spares'
  <2> DEFINE stop == {p \in Live : Place(p, newest) > plan.projects}
             start == {p \in Kept \ Live : Place(p, newest) <= plan.projects}
  <2>1. stop \in SUBSET Projects /\ start \in SUBSET Projects
    BY DEF Live, Kept
  <2>2. Step(r, [run[r] EXCEPT !.pc = "freeze", !.stop = stop, !.start = start]) /\ run[r].pc = "rank"
    BY <1>6 DEF Ranks, At
  <2> HIDE DEF stop, start
  <2> QED BY <1>4, <2>1, <2>2
<1>7. CASE Lists(r)
  <2> DEFINE x == [run[r] EXCEPT !.pc = "close", !.todo = PlanPausedOpen]
             y == [run[r] EXCEPT !.pc = "thawed"]
  <2>1. run[r].pc = "list" /\ (Step(r, x) \/ (Step(r, y) /\ Fault))
    BY <1>7 DEF Lists, At, Go
  <2>2. PlanPausedOpen \in SUBSET Monitors
    BY DEF PlanPausedOpen, Open
  <2>3. /\ Fits(x) /\ x.pc = "close" /\ x.todo = PlanPausedOpen /\ x.cut = run[r].cut /\ x.paged = run[r].paged
        /\ Fits(y) /\ y.cut = run[r].cut /\ y.paged = run[r].paged
    BY <1>1, <2>1, <2>2, PlanCapacityAssumption, Zenon DEF Fits, Run
  <2>4. SparesOf(r) => run[r].cut \cap Open \subseteq PlanPausedOpen
    BY DEF SparesOf, PlanPausedOpen, Spares, GoneIsClosed, Open
  <2>5. ~(Fault /\ NoFault)
    BY DEF Fault, NoFault, Typed, TypeOK
  <2> HIDE DEF x, y
  <2>6. CASE Step(r, x)
    BY <1>1, <2>3, <2>4, <2>6, SparesStep DEF Late
  <2>7. CASE Step(r, y) /\ Fault
    BY <1>1, <2>3, <2>5, <2>7, SparesStep
  <2> QED BY <2>1, <2>6, <2>7
<1>8. CASE Closed(r) \/ Paged(r)
  <2> DEFINE x == [run[r] EXCEPT !.pc = "thawed"]
  <2>1. Step(r, x) /\ (run[r].pc = "close" \/ run[r].pc = "page") /\ run[r].todo = {}
    BY <1>8 DEF Closed, Paged, Go, At
  <2>2. Fits(x) /\ x.pc = "thawed" /\ x.cut = run[r].cut /\ x.paged = run[r].paged
    BY <1>1, <2>1 DEF Fits, Run
  <2>3. SparesOf(r) => run[r].cut \cap Open = {}
    BY <2>1 DEF SparesOf, Late
  <2> HIDE DEF x
  <2> QED BY <1>1, <2>1, <2>2, <2>3, SparesStep DEF Late
<1>9. CASE Ends(r) \/ Dies(r)
  <2>1. Step(r, IdleRun) /\ IdleRun.pc = "idle" /\ IdleRun.cut = {} /\ IdleRun.paged = {}
    BY <1>9 DEF Ends, Dies, IdleRun
  <2>2. Open' = Open /\ run'[r] = IdleRun /\ \A q \in Runs \ {r} : run'[q] = run[q]
    BY <1>1, <2>1, IdleRunFits, StepHolds DEF Open
  <2>3. ASSUME faults' = 0, NEW q \in Runs PROVE SparesOf(q)'
    <3>1. SparesOf(q)
      BY <1>1, <2>3, NoFaultBefore DEF Spares, Typed
    <3>2. CASE q = r
      BY <2>1, <2>2, <3>2 DEF SparesOf, Late
    <3>3. CASE q # r
      BY <1>1, <2>2, <3>1, <3>3 DEF SparesOf
    <3> QED BY <3>2, <3>3
  <2> QED BY <1>1, <2>2, <2>3 DEF Spares, GoneIsClosed
<1>10. ASSUME NEW p \in Projects, ListsThawed(r, p) PROVE Spares'
  <2> DEFINE todo == {m \in Open : Home[m] = p /\ ~noted[m]}
             x == [run[r] EXCEPT !.pc = "page", !.thawed = @ \ {p}, !.todo = todo]
             y == [run[r] EXCEPT !.thawed = @ \ {p}]
  <2>1. run[r].pc = "thawed" /\ (Step(r, x) \/ Step(r, y)) /\ todo \in SUBSET Monitors
    BY <1>10, Zenon DEF ListsThawed, At, Open
  <2> HIDE DEF todo
  <2>a. Fits(x) /\ x.pc = "page" /\ x.cut = run[r].cut /\ x.paged = run[r].paged
    BY <1>1, <2>1, PlanCapacityAssumption, Zenon DEF Fits, Run
  <2>b. Fits(y) /\ y.pc = "thawed" /\ y.cut = run[r].cut /\ y.paged = run[r].paged
    BY <1>1, <2>1, PlanCapacityAssumption DEF Fits, Run
  <2>2. /\ Fits(x) /\ x.pc = "page" /\ x.cut = run[r].cut /\ x.paged = run[r].paged
        /\ Fits(y) /\ y.pc = "thawed" /\ y.cut = run[r].cut /\ y.paged = run[r].paged
    BY <2>a, <2>b
  <2>3. SparesOf(r) => run[r].cut \cap Open = {}
    BY <2>1 DEF SparesOf, Late
  <2> HIDE DEF x, y
  <2> QED BY <1>1, <2>1, <2>2, <2>3, SparesStep
<1>11. ASSUME NEW m \in Monitors, PageGuards(r, m) PROVE Spares'
  <2> DEFINE x == [run[r] EXCEPT !.pc = "queue", !.cur = m, !.todo = @ \ {m}]
             y == [run[r] EXCEPT !.todo = @ \ {m}]
  <2>1. run[r].pc = "page" /\ (Step(r, x) \/ Step(r, y))
    BY <1>11, Zenon DEF PageGuards, At
  <2>a. Fits(x) /\ x.pc = "queue" /\ x.cut = run[r].cut /\ x.paged = run[r].paged
    BY <1>1, <2>1, PlanCapacityAssumption, Zenon DEF Fits, Run
  <2>b. Fits(y) /\ y.pc = "page" /\ y.cut = run[r].cut /\ y.paged = run[r].paged
    BY <1>1, <2>1, PlanCapacityAssumption DEF Fits, Run
  <2>2. /\ Fits(x) /\ x.pc = "queue" /\ x.cut = run[r].cut /\ x.paged = run[r].paged
        /\ Fits(y) /\ y.pc = "page" /\ y.cut = run[r].cut /\ y.paged = run[r].paged
    BY <2>a, <2>b
  <2>3. SparesOf(r) => run[r].cut \cap Open = {}
    BY <2>1 DEF SparesOf, Late
  <2> HIDE DEF x, y
  <2> QED BY <1>1, <2>1, <2>2, <2>3, SparesStep
<1>12. CASE Ticks \/ Freezes(r) \/ Budgets(r) \/ Lists(r) \/ Closed(r) \/ Paged(r) \/ Ends(r) \/ Dies(r)
  BY <1>2, <1>3, <1>5, <1>7, <1>8, <1>9, <1>12
<1>13. CASE \E newest : Ranks(r, newest)
  BY <1>6, <1>13
<1>14. CASE \/ \E p \in Projects : ListsThawed(r, p)
            \/ \E m \in Monitors : PageGuards(r, m)
  BY <1>10, <1>11, <1>14
<1> QED BY <1>12, <1>13, <1>14, Zenon

\* A page is of an open incident, and the run has closed those it paused.
LEMMA PageSpares ==
  ASSUME Typed, Said, Spares, NEW r \in Runs, Pages(r)
  PROVE  Spares'
<1> DEFINE k == run[r].cur
           x == [run[r] EXCEPT !.pc = "page", !.cur = None, !.paged = @ \cup {k}]
<1>1. Fits(run[r]) /\ run[r].pc = "queue" /\ Step(r, x) /\ Queue(k) /\ UNCHANGED <<monitors, opener>>
  BY DEF Pages, At, Typed
<1>2. Fits(x) /\ x.pc = "page" /\ x.cut = run[r].cut /\ x.paged = run[r].paged \cup {k}
  BY <1>1, PlanCapacityAssumption DEF Fits, Run
<1>3. k \in Monitors /\ k \in Open
  <2>1. k # None
    BY <1>1 DEF Fits
  <2> QED BY <2>1, InHandIsOpen DEF Said, Open
<1> HIDE DEF x, k
<1>4. run'[r] = x /\ \A q \in Runs \ {r} : run'[q] = run[q]
  BY <1>1, <1>2, StepHolds
<1>5. Open' = Open /\ (Fault \/ NoFault)
  <2>1. \/ Fault /\ UNCHANGED <<incident, noted>>
        \/ /\ NoFault
           /\ incident'[k] = (IF incident[k] = "silent" THEN "queued" ELSE incident[k])
           /\ \A m \in Monitors \ {k} : incident'[m] = incident[m]
    BY <1>1, <1>3, QueueHolds DEF Typed
  <2>2. CASE Fault /\ UNCHANGED <<incident, noted>>
    BY <2>2 DEF Open
  <2>3. CASE /\ NoFault
             /\ incident'[k] = (IF incident[k] = "silent" THEN "queued" ELSE incident[k])
             /\ \A m \in Monitors \ {k} : incident'[m] = incident[m]
    BY <1>3, <2>3 DEF Open
  <2> QED BY <2>1, <2>2, <2>3
<1>6. ASSUME faults' = 0, NEW q \in Runs PROVE SparesOf(q)'
  <2>1. SparesOf(q)
    BY <1>5, <1>6, NoFaultBefore DEF Spares, Typed
  <2>2. CASE q = r
    BY <1>1, <1>2, <1>3, <1>4, <1>5, <2>1, <2>2 DEF SparesOf, Late
  <2>3. CASE q # r
    BY <1>1, <1>4, <1>5, <2>1, <2>3 DEF SparesOf
  <2> QED BY <2>2, <2>3
<1> QED BY <1>1, <1>5, <1>6 DEF Spares, GoneIsClosed

LEMMA OverSpares ==
  ASSUME Typed, Spares, NEW m \in Monitors, NEW runs \in [Runs -> Run], Over(m, runs),
         UNCHANGED monitors, Fault \/ NoFault,
         \A q \in Runs : /\ Fits(runs[q]) /\ runs[q].pc = run[q].pc /\ runs[q].cur = run[q].cur
                         /\ runs[q].cut = run[q].cut /\ runs[q].paged = run[q].paged
                         /\ run[q].todo \subseteq runs[q].todo \cup {m}
  PROVE  Spares'
<1>1. Open' = Open \ {m} /\ \A k \in Monitors : opener[k] # "insert" => opener'[k] # "insert"
  <2>1. /\ incident' = [incident EXCEPT ![m] = "none"]
        /\ opener' = [opener EXCEPT ![m] = IF opener[m] \in {"guard", "queue"} THEN "idle" ELSE opener[m]]
    BY DEF Over
  <2>2. Open' = Open \ {m}
    BY <2>1 DEF Open, Typed, TypeOK
  <2>3. \A k \in Monitors : opener[k] # "insert" => opener'[k] # "insert"
    BY <2>1 DEF Typed, TypeOK
  <2> QED BY <2>2, <2>3
<1>2. ASSUME faults' = 0, NEW q \in Runs PROVE SparesOf(q)'
  <2>1. SparesOf(q)
    BY <1>2, NoFaultBefore DEF Spares, Typed
  <2>2. \A k \in Runs : Fits(runs[k]) /\ runs[k].pc = run[k].pc /\ runs[k].cur = run[k].cur
    OBVIOUS
  <2>3. LetsGo(q, m, runs[q]) /\ Fits(run[q])
    BY <2>2, OverHolds DEF Typed
  <2>4. run'[q].cut = run[q].cut /\ run'[q].paged = run[q].paged /\ run[q].cut \subseteq Monitors
    BY <2>3 DEF LetsGo, Fits, Run
  <2>5. run'[q].pc = "close" => run[q].pc = "close" /\ \A k \in run[q].todo : k \in run'[q].todo \/ k \notin Open'
    <3> SUFFICES ASSUME run'[q].pc = "close"
                 PROVE  run[q].pc = "close" /\ \A k \in run[q].todo : k \in run'[q].todo \/ k \notin Open'
      OBVIOUS
    <3>1. run[q].cur # m /\ run[q].pc = "close"
      BY <2>3 DEF LetsGo
    <3>2. run'[q].todo = runs[q].todo
      BY <2>3, <3>1 DEF LetsGo, Paging
    <3> QED BY <1>1, <3>1, <3>2
  <2>6. run'[q].pc \in Late => run[q].pc \in Late
    <3>1. CASE run[q].cur = m
      <4>1. run[q].pc = "queue"
        BY <2>3, <3>1, PlanCapacityAssumption DEF Fits
      <4> QED BY <4>1 DEF Late
    <3>2. CASE run[q].cur # m
      BY <2>3, <3>2 DEF LetsGo
    <3> QED BY <3>1, <3>2
  <2> QED BY <1>1, <2>1, <2>4, <2>5, <2>6, SparesFrame
<1> QED BY <1>1, <1>2 DEF Spares, GoneIsClosed

LEMMA CloseSpares ==
  ASSUME Typed, Spares, NEW m \in Monitors, Recovers(m) \/ \E r \in Runs : Closes(r, m)
  PROVE  Spares'
<1>1. \A q \in Runs : Fits(run[q]) /\ run \in [Runs -> Run]
  BY DEF Typed, TypeOK
<1>2. CASE Recovers(m)
  <2>1. run \in [Runs -> Run] /\ Over(m, run) /\ UNCHANGED monitors /\ NoFault
    BY <1>2 DEF Recovers, NoFault, Typed, TypeOK
  <2> QED BY <1>1, <2>1, OverSpares
<1>3. ASSUME NEW r \in Runs, Closes(r, m) PROVE Spares'
  <2> DEFINE x == [run[r] EXCEPT !.todo = @ \ {m}]
             runs == [run EXCEPT ![r].todo = @ \ {m}]
  <2>1. Fits(run[r]) /\ run \in [Runs -> Run] /\ run[r].pc = "close"
    BY <1>1, <1>3 DEF Closes, At
  <2>2. Fits(x) /\ x.pc = run[r].pc /\ x.cur = run[r].cur /\ x.cut = run[r].cut /\ x.paged = run[r].paged
        /\ x.todo = run[r].todo \ {m}
    BY <2>1 DEF Fits, Run
  <2>3. UNCHANGED monitors /\ (Fault \/ NoFault)
    BY <1>3 DEF Closes
  <2>4. CASE Over(m, runs)
    <3>1. runs = [run EXCEPT ![r] = x]
      OBVIOUS
    <3> HIDE DEF x, runs
    <3>2. runs \in [Runs -> Run] /\ \A q \in Runs : /\ Fits(runs[q]) /\ runs[q].pc = run[q].pc
                                                    /\ runs[q].cur = run[q].cur /\ runs[q].cut = run[q].cut
                                                    /\ runs[q].paged = run[q].paged
                                                    /\ run[q].todo \subseteq runs[q].todo \cup {m}
      BY <1>1, <2>1, <2>2, <3>1 DEF Fits
    <3> QED BY <2>3, <2>4, <3>2, OverSpares
  <2>5. CASE Step(r, x) /\ UNCHANGED <<incident, noted, hidden, opener>> /\ Fault
    <3>1. ~NoFault
      BY <2>5 DEF Fault, NoFault, Typed, TypeOK
    <3> HIDE DEF x
    <3> QED BY <2>2, <2>3, <2>5, <3>1, SparesStep
  <2> QED BY <1>3, <2>4, <2>5 DEF Closes
<1> QED BY <1>2, <1>3

\* A call opens only what was running when its fan-out listed it.
LEMMA OpenSpares ==
  ASSUME Typed, Said, Spares, NEW m \in Monitors, Fails(m) \/ OpenStep(m) \/ Delivers(m)
  PROVE  Spares'
<1>1. UNCHANGED <<monitors, run>> /\ (Fault \/ NoFault)
  BY DEF Fails, OpenStep, Inserts, Guards, Notifies, Delivers, Passes, Skips, Queue, NoFault, rows
<1>2. \A k \in Monitors \ {m} : incident'[k] = incident[k] /\ opener'[k] = opener[k]
  BY DEF Fails, OpenStep, Inserts, Guards, Notifies, Delivers, Passes, Skips, Queue, rows, Typed, TypeOK
<1>3. /\ opener'[m] = "insert" => opener[m] = "insert" \/ monitors[m] = "active"
      /\ m \in Open' /\ m \notin Open => monitors[m] # "gone" /\ opener[m] = "insert"
  <2>1. CASE Fails(m)
    BY <2>1 DEF Fails, Open, rows, Typed, TypeOK
  <2>2. CASE Inserts(m)
    BY <2>2 DEF Inserts, Open, Typed, TypeOK
  <2>3. CASE Guards(m)
    BY <2>3 DEF Guards, Open, Typed, TypeOK
  <2>4. CASE Notifies(m)
    <3>1. Queue(m) /\ opener'[m] = "idle"
      BY <2>4 DEF Notifies, Typed, TypeOK
    <3>2. incident'[m] # "none" => incident[m] # "none"
      BY <3>1, QueueHolds DEF Typed
    <3> QED BY <3>1, <3>2 DEF Open
  <2>5. CASE Delivers(m)
    <3>1. opener' = opener /\ incident[m] = "queued"
      BY <2>5 DEF Delivers
    <3>2. m \in Open
      BY <3>1 DEF Open
    <3> QED BY <3>1, <3>2
  <2> QED BY <2>1, <2>2, <2>3, <2>4, <2>5 DEF OpenStep
<1>4. Open' \subseteq Open \cup {m}
  BY <1>2 DEF Open
<1>5. ASSUME faults' = 0, NEW q \in Runs PROVE SparesOf(q)'
  <2>1. SparesOf(q) /\ run[q].cut \subseteq Monitors
    BY <1>1, <1>5, NoFaultBefore DEF Spares, Typed, Fits, Run
  <2>2. m \in run[q].cut => opener'[m] # "insert" /\ (m \in Open' => m \in Open)
    BY <1>3, <2>1 DEF SparesOf
  <2> QED BY <1>1, <1>2, <1>4, <2>1, <2>2 DEF SparesOf
<1> QED BY <1>1, <1>3, <1>4, <1>5 DEF Spares, GoneIsClosed

LEMMA QuietSpares ==
  ASSUME Spares, UNCHANGED <<monitors, opener, incident, run, faults>>
  PROVE  Spares'
BY DEF Spares, GoneIsClosed, SparesOf, Open

\* What the owner resumes the run no longer counts as paused.
LEMMA CommitSpares ==
  ASSUME Typed, Spares, PatchCommits
  PROVE  Spares'
<1> DEFINE m == patch.m
<1>1. m \in Monitors /\ UNCHANGED opener /\ NoFault /\ patch.to # "gone"
  BY DEF PatchCommits, Typed, TypeOK, NoFault
<1>2. monitors'[m] = patch.to /\ \A k \in Monitors \ {m} : monitors'[k] = monitors[k] /\ incident'[k] = incident[k]
  BY <1>1 DEF PatchCommits, Typed, TypeOK
<1>3. Open' \subseteq Open \cup {m}
  BY <1>2 DEF Open
<1>4. ASSUME faults' = 0, NEW q \in Runs PROVE SparesOf(q)'
  <2>1. SparesOf(q) /\ run[q].cut \subseteq Monitors
    BY <1>1, <1>4, NoFaultBefore DEF Spares, Typed, Fits, Run
  <2>2. /\ run'[q].cut = run[q].cut \ {m} /\ run'[q].paged = run[q].paged
        /\ run'[q].todo = run[q].todo /\ run'[q].pc = run[q].pc
    BY CommitHolds
  <2> QED BY <1>1, <1>2, <1>3, <2>1, <2>2, SparesFrame
<1> QED BY <1>1, <1>2, <1>3, <1>4 DEF Spares, GoneIsClosed

LEMMA DeleteSpares ==
  ASSUME Typed, Spares, NEW p \in Projects, Deletes(p)
  PROVE  Spares'
<1> DEFINE with == {m \in Monitors : Home[m] = p}
<1>1. /\ NoFault
      /\ monitors' = [m \in Monitors |-> IF m \in with THEN "gone" ELSE monitors[m]]
      /\ incident' = [m \in Monitors |-> IF m \in with THEN "none" ELSE incident[m]]
      /\ opener' = [m \in Monitors |-> IF m \in with THEN "idle" ELSE opener[m]]
  BY DEF Deletes, NoFault
<1>2. Open' = Open \ with
  BY <1>1 DEF Open
<1>3. ASSUME faults' = 0, NEW q \in Runs PROVE SparesOf(q)'
  <2>1. SparesOf(q) /\ run[q].cut \subseteq Monitors /\ Fits(run[q])
    BY <1>1, <1>3, NoFaultBefore DEF Spares, Typed, Fits, Run
  <2>2. \A m \in run[q].cut : /\ monitors[m] \in {"plan", "gone"} => monitors'[m] \in {"plan", "gone"}
                              /\ opener[m] # "insert" => opener'[m] # "insert"
                              /\ m \in Open' => m \in Open
    BY <1>1, <1>2, <2>1
  <2>3. CASE q = Deletion
    <3>1. run'[q].pc = "rank" /\ run'[q].cut = run[q].cut /\ run'[q].paged = run[q].paged
      <4>1. run[q].pc = "idle"
        BY <2>3 DEF Deletes, At
      <4> QED BY <2>1, <2>3, <4>1, DeleteHolds DEF Fits
    <3> QED BY <2>1, <2>2, <3>1, SparesFrame DEF Late
  <2>4. CASE q = Job
    <3>1. /\ run'[q].todo = run[q].todo \ with /\ run'[q].cut = run[q].cut /\ run'[q].paged = run[q].paged
          /\ IF run[q].cur \in with
               THEN run'[q].pc = "page" /\ run'[q].cur = None
               ELSE run'[q].pc = run[q].pc /\ run'[q].cur = run[q].cur
      BY <2>4, DeleteHolds
    <3>2. run[q].cur \in with => run[q].pc = "queue"
      BY <2>1, PlanCapacityAssumption DEF Fits
    <3>3. run'[q].pc \in Late => run[q].pc \in Late
      BY <3>1, <3>2 DEF Late
    <3>4. run'[q].pc = "close" => run[q].pc = "close" /\ \A m \in run[q].todo : m \in run'[q].todo \/ m \notin Open'
      BY <1>2, <3>1
    <3> QED BY <2>1, <2>2, <3>1, <3>3, <3>4, SparesFrame
  <2> QED BY <2>3, <2>4 DEF Runs
<1>4. GoneIsClosed'
  BY <1>1, <1>2 DEF Spares, GoneIsClosed
<1> QED BY <1>3, <1>4 DEF Spares

LEMMA NextSpares == Typed /\ Said /\ Spares /\ [Next]_vars => Spares'
<1> SUFFICES ASSUME Typed, Said, Spares, [Next]_vars PROVE Spares'
  OBVIOUS
<1>1. CASE UNCHANGED vars
  BY <1>1, QuietSpares DEF vars, rows
<1>2. CASE Ticks
  BY <1>2, RunSpares DEF Runs
<1>3. ASSUME NEW r \in Runs, RunStep(r) \/ Dies(r) PROVE Spares'
  <2>1. ASSUME NEW m \in Monitors, Closes(r, m) PROVE Spares'
    BY <2>1, CloseSpares
  <2>2. CASE Cuts(r) \/ Pages(r)
    BY <2>2, CutSpares, PageSpares
  <2>3. CASE \/ Freezes(r) \/ Budgets(r) \/ Lists(r) \/ Closed(r) \/ Paged(r) \/ Ends(r) \/ Dies(r)
             \/ \E newest : Ranks(r, newest)
             \/ \E p \in Projects : ListsThawed(r, p)
             \/ \E m \in Monitors : PageGuards(r, m)
    BY <2>3, RunSpares
  <2> QED BY <1>3, <2>1, <2>2, <2>3 DEF RunStep
<1>4. ASSUME NEW m \in Monitors, Fails(m) \/ OpenStep(m) \/ Delivers(m) \/ Recovers(m) PROVE Spares'
  <2>1. CASE Fails(m) \/ OpenStep(m) \/ Delivers(m)
    BY <2>1, OpenSpares
  <2>2. CASE Recovers(m)
    <3>1. Recovers(m) \/ \E r \in Runs : Closes(r, m)
      BY <2>2
    <3> QED BY <3>1, CloseSpares
  <2> QED BY <1>4, <2>1, <2>2
<1>5. CASE \/ \E p \in Plans : Buys(p)
           \/ \E m \in Monitors, to \in {"active", "owner"} : PatchReads(m, to)
           \/ PatchWrites
  BY <1>5, QuietSpares, Zenon DEF Buys, PatchReads, PatchWrites, rows
<1>6. CASE PatchCommits
  BY <1>6, CommitSpares
<1>7. ASSUME NEW p \in Projects, Deletes(p) PROVE Spares'
  BY <1>7, DeleteSpares
<1> QED BY <1>1, <1>2, <1>3, <1>4, <1>5, <1>6, <1>7 DEF Next

\* While no statement fails and no process dies, no run announces the outage of
\* a check it paused, however its closes, the fan-outs, the owner's PATCHes and
\* the other run meet; a fan-out that had listed the check as running is out.
THEOREM CutsAreNotPaged == Spec => []CutIsNotPaged
<1>1. Init => Spares
  BY DEF Init, IdleRun, Spares, GoneIsClosed, SparesOf, Open, Late
<1>2. Spares => CutIsNotPaged
  BY DEF Spares, SparesOf, CutIsNotPaged
<1>3. Spec => []Said
  <2>1. Init => Said
    BY InitSaid
  <2> QED BY <2>1, NextSaid, TypeCorrect, PTL DEF Spec
<1> QED BY <1>1, <1>2, <1>3, NextSpares, TypeCorrect, PTL DEF Spec

-----------------------------------------------------------------------------
(* An owner's pause.                                                         *)

\* The write of MonitorBudgetSweep leaves a check its owner paused alone: the
\* rows it still finds are running or paused by the plan.
LEMMA CutsLeaveOwner ==
  ASSUME NEW r \in Runs, Cuts(r), NEW m \in Monitors, monitors[m] = "owner"
  PROVE  monitors'[m] = "owner"
<1>1. m \notin Still(run[r].stop, "active") /\ m \notin Still(run[r].start, "plan")
  BY DEF Still
<1>2. CASE UNCHANGED monitors
  BY <1>2
<1>3. CASE monitors' = [k \in Monitors |->
             IF k \in Still(run[r].stop, "active") THEN "plan"
             ELSE IF k \in Still(run[r].start, "plan") THEN "active" ELSE monitors[k]]
  BY <1>1, <1>3
<1> QED
  BY <1>2, <1>3 DEF Cuts

\* No other statement of a run touches a check.
LEMMA RunStepLeavesOwner ==
  ASSUME NEW r \in Runs, RunStep(r), NEW m \in Monitors, monitors[m] = "owner"
  PROVE  monitors'[m] = "owner"
<1>1. CASE Cuts(r)
  BY <1>1, CutsLeaveOwner
<1>2. CASE ~Cuts(r)
  <2>1. ASSUME NEW newest, Ranks(r, newest) PROVE monitors'[m] = "owner"
    BY <2>1 DEF Ranks, rows
  <2>2. CASE Freezes(r) \/ Budgets(r) \/ Lists(r) \/ Closed(r)
    BY <2>2 DEF Freezes, Budgets, Lists, Closed, rows
  <2>3. CASE Pages(r) \/ Paged(r) \/ Ends(r)
    BY <2>3 DEF Pages, Paged, Ends, rows
  <2>4. ASSUME NEW k \in Monitors, Closes(r, k) \/ PageGuards(r, k) PROVE monitors'[m] = "owner"
    BY <2>4 DEF Closes, PageGuards
  <2>5. ASSUME NEW p \in Projects, ListsThawed(r, p) PROVE monitors'[m] = "owner"
    BY <2>5 DEF ListsThawed, rows
  <2>6. CASE \E newest \in [Kept -> 0..1] : Ranks(r, newest)
    BY <2>1, <2>6
  <2>7. CASE \E k \in Monitors : Closes(r, k) \/ PageGuards(r, k)
    BY <2>4, <2>7
  <2>8. CASE \E p \in Projects : ListsThawed(r, p)
    BY <2>5, <2>8
  <2> QED
    BY <1>2, RunStep(r), <2>2, <2>3, <2>6, <2>7, <2>8, Zenon DEF RunStep
<1> QED
  BY <1>1, <1>2

\* An owner's pause ends with the owner's own PATCH or with the release of the
\* project, whatever the sweeps have read and however they overlap.
THEOREM OwnerPauseHolds == Spec => OwnerPauseIsKept
<1>1. ASSUME [Next]_vars, NEW m \in Monitors, monitors[m] = "owner", monitors'[m] # "owner"
      PROVE  PatchCommits \/ Deletes(Home[m])
  <2>1. CASE UNCHANGED vars
    BY <1>1, <2>1 DEF vars, rows
  <2>2. CASE Ticks
    BY <1>1, <2>2 DEF Ticks, rows
  <2>3. ASSUME NEW r \in Runs, RunStep(r) PROVE FALSE
    BY <1>1, <2>3, RunStepLeavesOwner
  <2>4. ASSUME NEW r \in Runs, Dies(r) PROVE FALSE
    BY <1>1, <2>4 DEF Dies, rows
  <2>5. ASSUME NEW k \in Monitors, Fails(k) \/ OpenStep(k) \/ Delivers(k) \/ Recovers(k) PROVE FALSE
    BY <1>1, <2>5 DEF Fails, OpenStep, Inserts, Guards, Notifies, Delivers, Recovers, rows
  <2>6. ASSUME NEW p \in Plans, Buys(p) PROVE FALSE
    BY <1>1, <2>6 DEF Buys, rows
  <2>7. ASSUME NEW k \in Monitors, NEW to \in {"active", "owner"}, PatchReads(k, to) PROVE FALSE
    BY <1>1, <2>7 DEF PatchReads, rows
  <2>8. CASE PatchWrites
    BY <1>1, <2>8 DEF PatchWrites, rows
  <2>9. ASSUME NEW p \in Projects, Deletes(p) PROVE Deletes(Home[m])
    <3>1. monitors' = [k \in Monitors |->
             IF k \in {x \in Monitors : Home[x] = p} THEN "gone" ELSE monitors[k]]
      BY <2>9 DEF Deletes
    <3>2. Home[m] = p
      BY <1>1, <3>1
    <3> QED
      BY <2>9, <3>2
  <2> QED
    BY <1>1, <2>1, <2>2, <2>3, <2>4, <2>5, <2>6, <2>7, <2>8, <2>9 DEF Next
<1>2. [Next]_vars => [\A m \in Monitors : monitors[m] = "owner" /\ monitors'[m] # "owner" =>
                        PatchCommits \/ Deletes(Home[m])]_vars
  BY <1>1
<1> QED
  BY <1>2, PTL DEF Spec, OwnerPauseIsKept

-----------------------------------------------------------------------------
(* The pick is made once.                                                    *)

LEMMA Few ==
  ASSUME NEW S, S \subseteq Projects \/ S \subseteq Monitors
  PROVE  /\ IsFiniteSet(S) /\ Cardinality(S) \in Nat /\ (Cardinality(S) = 0 <=> S = {})
         /\ \A T \in SUBSET S : /\ IsFiniteSet(T) /\ Cardinality(T) \in Nat /\ Cardinality(T) <= Cardinality(S)
                                /\ Cardinality(T) = Cardinality(S) => T = S
         /\ \A x \in S : Cardinality(S \ {x}) = Cardinality(S) - 1
<1>1. IsFiniteSet(S)
  BY PlanCapacityAssumption, FS_Subset
<1>2. Cardinality(S) \in Nat /\ (Cardinality(S) = 0 <=> S = {})
  BY <1>1, FS_CardinalityType, FS_EmptySet
<1>3. ASSUME NEW T \in SUBSET S
      PROVE  /\ IsFiniteSet(T) /\ Cardinality(T) \in Nat /\ Cardinality(T) <= Cardinality(S)
             /\ Cardinality(T) = Cardinality(S) => T = S
  BY <1>1, FS_Subset, FS_CardinalityType
<1>4. ASSUME NEW x \in S PROVE Cardinality(S \ {x}) = Cardinality(S) - 1
  BY <1>1, FS_RemoveElement
<1> QED BY <1>1, <1>2, <1>3, <1>4

\* A live project is an incumbent: it comes before every other, whatever the logs say.
LEMMA LiveFirst ==
  ASSUME NEW p \in Live, NEW q \in Kept \ Live, NEW newest
  PROVE  Before(p, q, newest) /\ ~Before(q, p, newest)
<1> DEFINE key(x) == <<IF x \in Live THEN 1 ELSE 0, Cardinality(Running(x)), newest[x]>>
<1>1. key(p)[1] = 1 /\ key(q)[1] = 0
  OBVIOUS
<1> HIDE DEF key
<1>2. \A j \in 1..(1 - 1) : key(p)[j] = key(q)[j]
  OBVIOUS
<1>3. \E i \in 1..3 : key(p)[i] > key(q)[i] /\ \A j \in 1..(i - 1) : key(p)[j] = key(q)[j]
  BY <1>1, <1>2
<1>4. ASSUME NEW i \in 1..3, key(q)[i] > key(p)[i], \A j \in 1..(i - 1) : key(q)[j] = key(p)[j] PROVE FALSE
  <2>1. i = 1 \/ 1 \in 1..(i - 1)
    OBVIOUS
  <2> QED BY <1>1, <1>4, <2>1
<1>5. key(q) # key(p)
  BY <1>1
<1> QED BY <1>3, <1>4, <1>5 DEF Before, key

\* So the live projects have the first places.
LEMMA Places ==
  ASSUME NEW p \in Kept, NEW newest
  PROVE  /\ Place(p, newest) \in Nat
         /\ p \in Live => Place(p, newest) <= Cardinality(Live)
         /\ p \notin Live => Place(p, newest) > Cardinality(Live)
<1> DEFINE ahead == {q \in Kept \ {p} : Before(q, p, newest)}
<1>1. Live \subseteq Projects /\ Live \subseteq Kept /\ ahead \subseteq Projects
  BY DEF Live, Kept
<1>2. Place(p, newest) = 1 + Cardinality(ahead)
  BY DEF Place
<1>3. Cardinality(ahead) \in Nat /\ Cardinality(Live) \in Nat
  BY <1>1, Few
<1>4. CASE p \in Live
  <2>1. ahead \subseteq Live \ {p}
    BY <1>4, LiveFirst
  <2>2. Cardinality(Live \ {p}) = Cardinality(Live) - 1
    BY <1>1, <1>4, Few
  <2>3. Live \ {p} \subseteq Projects
    BY <1>1
  <2> HIDE DEF ahead
  <2>4. Cardinality(ahead) <= Cardinality(Live \ {p})
    BY <2>1, <2>3, Few
  <2> QED BY <1>2, <1>3, <1>4, <2>2, <2>4
<1>5. CASE p \notin Live
  <2>1. Live \subseteq ahead
    BY <1>1, <1>5, LiveFirst
  <2> HIDE DEF ahead
  <2>2. Cardinality(Live) <= Cardinality(ahead)
    BY <1>1, <2>1, Few
  <2> QED BY <1>2, <1>3, <1>5, <2>2
<1> QED BY <1>4, <1>5

\* Once the live projects are as many as the plan carries, a ranking takes none and adds none.
LEMMA FullPicksNothing ==
  ASSUME Typed, LiveIsFull, NEW newest
  PROVE  /\ {p \in Live : Place(p, newest) > plan.projects} = {}
         /\ {p \in Kept \ Live : Place(p, newest) <= plan.projects} = {}
<1>1. Live \subseteq Kept /\ Kept \subseteq Projects /\ plan.projects \in Nat
  BY PlanCapacityAssumption DEF Live, Kept, Typed, TypeOK
<1>2. Cardinality(Live) \in Nat /\ Cardinality(Kept) \in Nat /\ (Cardinality(Live) = Cardinality(Kept) => Live = Kept)
  BY <1>1, Few
<1>3. Cardinality(Live) <= plan.projects /\ (Cardinality(Live) = plan.projects \/ Live = Kept)
  BY <1>1, <1>2 DEF LiveIsFull
<1>4. ASSUME NEW p \in Live PROVE ~(Place(p, newest) > plan.projects)
  <2>1. Place(p, newest) \in Nat /\ Place(p, newest) <= Cardinality(Live)
    BY <1>1, Places
  <2> QED BY <1>1, <1>2, <1>3, <2>1
<1>5. ASSUME NEW p \in Kept \ Live PROVE ~(Place(p, newest) <= plan.projects)
  <2>1. Place(p, newest) \in Nat /\ Place(p, newest) > Cardinality(Live)
    BY Places
  <2> QED BY <1>1, <1>2, <1>3, <2>1
<1> QED BY <1>4, <1>5

\* What a run has read, and has not written yet, changes no row any more.
NothingToWrite(r) ==
  /\ run[r].pc = "freeze" => run[r].stop \cap Live = {} /\ run[r].start \cap (Kept \ Live) = {}
  /\ run[r].pc = "cut" => Still(run[r].stop, "active") = {} /\ Still(run[r].start, "plan") = {}

\* The plan is kept, and no run is about to change it on an older reading.
Rested == LiveIsFull /\ BudgetIsKept /\ \A r \in Runs : NothingToWrite(r)

\* While no owner acts, no ranking, sweep, crash, failed statement or outage freezes,
\* thaws, pauses or resumes anything from then on, however the logs come in (sweep.go,
\* "so the pick is made once"); it is what CapacitySettles comes to rest in.
RestLasts ==
  [][Rested /\ UNCHANGED <<changes, patch>> => Rested' /\ UNCHANGED <<projects, monitors>>]_vars

LEMMA RestFrame ==
  ASSUME Rested, UNCHANGED <<plan, projects, monitors>>,
         \A q \in Runs : \/ run'[q].pc \notin {"freeze", "cut"}
                         \/ run'[q].pc = run[q].pc /\ run'[q].stop = run[q].stop /\ run'[q].start = run[q].start
  PROVE  Rested' /\ UNCHANGED <<projects, monitors>>
<1>1. Live' = Live /\ Kept' = Kept /\ Holding' = Holding
  BY DEF Live, Kept, Holding
<1>2. LiveIsFull'
  BY <1>1 DEF Rested, LiveIsFull
<1>3. BudgetIsKept'
  BY <1>1 DEF Rested, BudgetIsKept, Slot
<1>4. ASSUME NEW q \in Runs PROVE NothingToWrite(q)'
  <2>1. NothingToWrite(q)
    BY DEF Rested
  <2> QED BY <1>1, <2>1 DEF NothingToWrite, Still
<1> QED BY <1>2, <1>3, <1>4 DEF Rested

\* A step of run r alone, to a place where it has nothing to write.
LEMMA RestStep ==
  ASSUME Typed, Rested, NEW r \in Runs, NEW x, x.pc \notin {"freeze", "cut"}, Step(r, x),
         UNCHANGED <<plan, projects, monitors>>
  PROVE  Rested' /\ UNCHANGED <<projects, monitors>>
<1>1. run'[r] = x /\ \A q \in Runs \ {r} : run'[q] = run[q]
  BY DEF Step, Typed, TypeOK
<1> QED BY <1>1, RestFrame

\* The four statements of a run that read and write the plan's sets.
LEMMA SweepRests ==
  ASSUME Typed, Rested, NEW r \in Runs,
         (\E newest \in [Kept -> 0..1] : Ranks(r, newest)) \/ Freezes(r) \/ Budgets(r) \/ Cuts(r)
  PROVE  Rested' /\ UNCHANGED <<projects, monitors>>
<1>1. LiveIsFull /\ BudgetIsKept /\ NothingToWrite(r)
  BY DEF Rested
<1>2. Fits(run[r]) /\ run[r] \in Run /\ run \in [Runs -> Run]
  BY DEF Typed, TypeOK, Fits
<1>3. ASSUME NEW pc \in {"freeze", "cut"}, NEW x, x = [run[r] EXCEPT !.pc = pc, !.stop = {}, !.start = {}], Step(r, x),
             UNCHANGED <<plan, projects, monitors>>
      PROVE  Rested' /\ UNCHANGED <<projects, monitors>>
  <2>1. x.pc = pc /\ x.stop = {} /\ x.start = {}
    BY <1>2, <1>3 DEF Run
  <2>2. run'[r] = x /\ \A q \in Runs \ {r} : run'[q] = run[q]
    BY <1>2, <1>3 DEF Step
  <2>3. NothingToWrite(r)'
    BY <2>1, <2>2 DEF NothingToWrite, Still
  <2>4. Live' = Live /\ Kept' = Kept /\ Holding' = Holding
    BY <1>3 DEF Live, Kept, Holding
  <2>5. LiveIsFull'
    BY <1>1, <1>3, <2>4 DEF LiveIsFull
  <2>6. BudgetIsKept'
    BY <1>1, <1>3, <2>4 DEF BudgetIsKept, Slot
  <2>7. ASSUME NEW q \in Runs \ {r} PROVE NothingToWrite(q)'
    <3>1. NothingToWrite(q)
      BY DEF Rested
    <3> QED BY <1>3, <2>2, <2>4, <3>1 DEF NothingToWrite, Still
  <2> QED BY <1>3, <2>3, <2>5, <2>6, <2>7 DEF Rested
<1>4. ASSUME NEW newest, Ranks(r, newest) PROVE Rested' /\ UNCHANGED <<projects, monitors>>
  <2> DEFINE stop == {p \in Live : Place(p, newest) > plan.projects}
             start == {p \in Kept \ Live : Place(p, newest) <= plan.projects}
  <2>1. Step(r, [run[r] EXCEPT !.pc = "freeze", !.stop = stop, !.start = start])
    BY <1>4 DEF Ranks
  <2>3. UNCHANGED <<plan, projects, monitors>>
    BY <1>4 DEF Ranks, rows
  <2>2. stop = {} /\ start = {}
    BY <1>1, FullPicksNothing
  <2> HIDE DEF stop, start
  <2> QED BY <1>3, <2>1, <2>2, <2>3
<1>5. CASE Freezes(r)
  <2> DEFINE thaw == run[r].start \cap (Kept \ Live)
             x == [run[r] EXCEPT !.pc = "budget", !.stop = {}, !.start = {}, !.thawed = thaw]
             y == [run[r] EXCEPT !.pc = "budget", !.stop = {}, !.start = {}]
  <2>1. run[r].pc = "freeze" /\ (Step(r, x) \/ Step(r, y)) /\ UNCHANGED <<plan, monitors>>
    BY <1>5 DEF Freezes, At
  <2>2. thaw = {} /\ run[r].stop \cap Live = {}
    BY <1>1, <2>1 DEF NothingToWrite
  <2>3. UNCHANGED projects
    <3>1. \/ UNCHANGED projects
          \/ projects' = [p \in Projects |-> CASE p \in thaw -> "live"
                                               [] p \in run[r].stop \cap Live -> "frozen"
                                               [] OTHER -> projects[p]]
      BY <1>5 DEF Freezes
    <3> HIDE DEF thaw
    <3>2. projects = [p \in Projects |-> projects[p]]
      BY DEF Typed, TypeOK
    <3> QED BY <2>2, <3>1, <3>2
  <2> HIDE DEF thaw
  <2>4. x.pc = "budget" /\ y.pc = "budget"
    BY <1>2 DEF Run
  <2> HIDE DEF x, y
  <2> QED BY <2>1, <2>3, <2>4, RestStep
<1>6. CASE Budgets(r)
  <2> DEFINE stop == {m \in Holding : Slot(m) > plan.checks /\ monitors[m] = "active"}
             start == {m \in Holding : Slot(m) <= plan.checks /\ monitors[m] = "plan"}
  <2>1. Step(r, [run[r] EXCEPT !.pc = "cut", !.stop = stop, !.start = start])
        /\ UNCHANGED <<plan, projects, monitors>>
    BY <1>6 DEF Budgets, rows
  <2>2. ASSUME NEW m \in Holding PROVE ~(Slot(m) > plan.checks /\ monitors[m] = "active")
    BY <1>1, <2>2 DEF BudgetIsKept
  <2>3. ASSUME NEW m \in Holding PROVE ~(Slot(m) <= plan.checks /\ monitors[m] = "plan")
    <3>1. Slot(m) \in Nat /\ plan.checks \in Nat
      <4>1. {k \in Holding : k < m} \subseteq Monitors
        BY DEF Holding
      <4>2. Cardinality({k \in Holding : k < m}) \in Nat
        BY <4>1, Few
      <4>3. plan.checks \in Nat
        BY PlanCapacityAssumption DEF Typed, TypeOK
      <4> QED BY <4>2, <4>3 DEF Slot
    <3>2. monitors[m] # (IF Slot(m) > plan.checks THEN "active" ELSE "plan")
      BY <1>1, <2>3 DEF BudgetIsKept
    <3> QED BY <3>1, <3>2
  <2>4. stop = {} /\ start = {}
    BY <2>2, <2>3
  <2> HIDE DEF stop, start
  <2> QED BY <1>3, <2>1, <2>4
<1>7. CASE Cuts(r)
  <2> DEFINE stop == Still(run[r].stop, "active")
             start == Still(run[r].start, "plan")
             cut == {m \in stop : opener[m] # "insert"}
             others == [q \in Runs |-> [run[q] EXCEPT !.cut = @ \ start]]
  <2>1. /\ run[r].pc = "cut" /\ UNCHANGED <<plan, projects>>
        /\ \/ /\ monitors' = [m \in Monitors |-> IF m \in stop THEN "plan"
                                                ELSE IF m \in start THEN "active" ELSE monitors[m]]
              /\ run' = [others EXCEPT ![r] = [@ EXCEPT !.pc = "list", !.stop = {}, !.start = {}, !.cut = cut]]
           \/ /\ Step(r, [run[r] EXCEPT !.pc = "list", !.stop = {}, !.start = {}])
              /\ UNCHANGED monitors
    BY <1>7 DEF Cuts, At
  <2>2. stop = {} /\ start = {}
    BY <1>1, <2>1 DEF NothingToWrite
  <2>3. UNCHANGED monitors
    <3> HIDE DEF stop, start
    <3>1. monitors = [m \in Monitors |-> monitors[m]]
      BY DEF Typed, TypeOK
    <3> QED BY <2>1, <2>2, <3>1
  <2>4. run'[r].pc = "list"
    BY CutsRuns, <1>7
  <2>5. ASSUME NEW q \in Runs \ {r} PROVE run'[q].pc = run[q].pc /\ run'[q].stop = run[q].stop /\ run'[q].start = run[q].start
    <3>1. run'[q] = run[q] \/ run'[q] = [run[q] EXCEPT !.cut = @ \ start]
      <4> HIDE DEF start, cut, stop
      <4> QED BY <1>2, <2>1 DEF Step
    <3>2. run[q] \in Run
      BY <1>2
    <3> HIDE DEF start
    <3> QED BY <3>1, <3>2 DEF Run
  <2> QED BY <2>1, <2>3, <2>4, <2>5, RestFrame
<1> QED BY <1>4, <1>5, <1>6, <1>7

\* An incident that ends takes no run to a write.
LEMMA OverRests ==
  ASSUME Typed, Rested, NEW m, NEW runs \in [Runs -> Run],
         \A q \in Runs : runs[q].pc \notin {"freeze", "cut"} \/ runs[q] = run[q],
         Over(m, runs), UNCHANGED <<plan, projects, monitors>>
  PROVE  Rested' /\ UNCHANGED <<projects, monitors>>
<1>1. \A q \in Runs : runs[q].pc \notin {"freeze", "cut"} \/ runs[q] = run[q]
  OBVIOUS
<1> DEFINE next(q) == IF run[q].cur = m THEN [runs[q] EXCEPT !.pc = "page", !.cur = None]
                      ELSE IF Paging(q) THEN [runs[q] EXCEPT !.todo = @ \ {m}] ELSE runs[q]
<1>2. run' = [q \in Runs |-> next(q)]
  BY DEF Over
<1>3. ASSUME NEW q \in Runs
      PROVE  \/ run'[q] = [runs[q] EXCEPT !.pc = "page", !.cur = None]
             \/ run'[q] = [runs[q] EXCEPT !.todo = @ \ {m}]
             \/ run'[q] = runs[q]
  BY <1>2
<1> HIDE DEF next
<1>4. ASSUME NEW q \in Runs
      PROVE  \/ run'[q].pc \notin {"freeze", "cut"}
             \/ run'[q].pc = run[q].pc /\ run'[q].stop = run[q].stop /\ run'[q].start = run[q].start
  <2>1. runs[q] \in Run
    OBVIOUS
  <2>2. CASE run'[q] = [runs[q] EXCEPT !.pc = "page", !.cur = None]
    BY <2>1, <2>2 DEF Run
  <2>3. CASE run'[q] = [runs[q] EXCEPT !.todo = @ \ {m}]
    BY <1>1, <2>1, <2>3 DEF Run
  <2>4. CASE run'[q] = runs[q]
    BY <1>1, <2>4
  <2> QED BY <1>3, <2>2, <2>3, <2>4
<1> QED BY <1>4, RestFrame

\* A step that reads, announces or closes: no run comes to a write by it.
LEMMA RunRests ==
  ASSUME Typed, Rested, NEW r \in Runs, RunStep(r)
  PROVE  Rested' /\ UNCHANGED <<projects, monitors>>
<1>1. run[r] \in Run
  BY DEF Typed, TypeOK
<1>2. ASSUME NEW newest \in [Kept -> 0..1], Ranks(r, newest) PROVE Rested' /\ UNCHANGED <<projects, monitors>>
  BY <1>2, SweepRests
<1>3. CASE Freezes(r) \/ Budgets(r) \/ Cuts(r)
  BY <1>3, SweepRests
<1>4. CASE Lists(r)
  <2>1. \/ Step(r, [run[r] EXCEPT !.pc = "close", !.todo = PlanPausedOpen])
        \/ Step(r, [run[r] EXCEPT !.pc = "thawed"])
    BY <1>4 DEF Lists, Go
  <2>2. UNCHANGED <<plan, projects, monitors>>
    BY <1>4 DEF Lists, rows
  <2>3. [run[r] EXCEPT !.pc = "close", !.todo = PlanPausedOpen].pc = "close" /\ [run[r] EXCEPT !.pc = "thawed"].pc = "thawed"
    BY <1>1 DEF Run
  <2> QED BY <2>1, <2>2, <2>3, RestStep
<1>5. CASE Closed(r) \/ Paged(r)
  <2>1. Step(r, [run[r] EXCEPT !.pc = "thawed"])
    BY <1>5 DEF Closed, Paged, Go
  <2>2. UNCHANGED <<plan, projects, monitors>>
    BY <1>5 DEF Closed, Paged, rows
  <2>3. [run[r] EXCEPT !.pc = "thawed"].pc = "thawed"
    BY <1>1 DEF Run
  <2> QED BY <2>1, <2>2, <2>3, RestStep
<1>6. CASE Pages(r)
  <2> DEFINE x == [run[r] EXCEPT !.pc = "page", !.cur = None, !.paged = @ \cup {run[r].cur}]
  <2>1. Step(r, x) /\ UNCHANGED <<plan, projects, monitors>>
    BY <1>6 DEF Pages
  <2>2. x.pc = "page"
    BY <1>1 DEF Run
  <2> HIDE DEF x
  <2> QED BY <2>1, <2>2, RestStep
<1>7. CASE Ends(r)
  <2>1. Step(r, IdleRun) /\ UNCHANGED <<plan, projects, monitors>>
    BY <1>7 DEF Ends, rows
  <2>2. IdleRun.pc = "idle"
    BY DEF IdleRun
  <2> QED BY <2>1, <2>2, RestStep
<1>8. ASSUME NEW m \in Monitors, Closes(r, m) PROVE Rested' /\ UNCHANGED <<projects, monitors>>
  <2> DEFINE x == [run[r] EXCEPT !.todo = @ \ {m}]
  <2>1. run[r].pc = "close" /\ (Over(m, [run EXCEPT ![r].todo = @ \ {m}]) \/ Step(r, x))
    BY <1>8 DEF Closes, At
  <2>2. UNCHANGED <<plan, projects, monitors>>
    BY <1>8 DEF Closes
  <2>3. CASE Over(m, [run EXCEPT ![r].todo = @ \ {m}])
    <3>1. [run EXCEPT ![r].todo = @ \ {m}] = [run EXCEPT ![r] = x]
      OBVIOUS
    <3>2. x \in Run /\ x.pc = "close"
      BY <1>1, <2>1 DEF Run
    <3> HIDE DEF x
    <3>3. [run EXCEPT ![r] = x] \in [Runs -> Run]
          /\ \A q \in Runs : [run EXCEPT ![r] = x][q].pc \notin {"freeze", "cut"} \/ [run EXCEPT ![r] = x][q] = run[q]
      BY <3>2 DEF Typed, TypeOK
    <3> QED BY <2>2, <2>3, <3>1, <3>3, OverRests
  <2>4. CASE Step(r, x)
    <3>1. x.pc = "close"
      BY <1>1, <2>1 DEF Run
    <3> HIDE DEF x
    <3> QED BY <2>2, <2>4, <3>1, RestStep
  <2> QED BY <2>1, <2>3, <2>4
<1>9. ASSUME NEW m \in Monitors, PageGuards(r, m) PROVE Rested' /\ UNCHANGED <<projects, monitors>>
  <2> DEFINE x == [run[r] EXCEPT !.pc = "queue", !.cur = m, !.todo = @ \ {m}]
             y == [run[r] EXCEPT !.todo = @ \ {m}]
  <2>1. run[r].pc = "page" /\ (Step(r, x) \/ Step(r, y)) /\ UNCHANGED <<plan, projects, monitors>>
    BY <1>9 DEF PageGuards, At
  <2>2. x.pc = "queue" /\ y.pc = "page"
    BY <1>1, <2>1 DEF Run
  <2> HIDE DEF x, y
  <2> QED BY <2>1, <2>2, RestStep
<1>10. ASSUME NEW p \in Projects, ListsThawed(r, p) PROVE Rested' /\ UNCHANGED <<projects, monitors>>
  <2> DEFINE x == [run[r] EXCEPT !.pc = "page", !.thawed = @ \ {p}, !.todo = {m \in Open : Home[m] = p /\ ~noted[m]}]
             y == [run[r] EXCEPT !.thawed = @ \ {p}]
  <2>1. run[r].pc = "thawed" /\ (Step(r, x) \/ Step(r, y))
    BY <1>10 DEF ListsThawed, At
  <2>2. UNCHANGED <<plan, projects, monitors>>
    BY <1>10 DEF ListsThawed, rows
  <2>3. x.pc = "page" /\ y.pc = "thawed"
    BY <1>1, <2>1 DEF Run
  <2> HIDE DEF x, y
  <2> QED BY <2>1, <2>2, <2>3, RestStep
<1> QED BY <1>2, <1>3, <1>4, <1>5, <1>6, <1>7, <1>8, <1>9, <1>10 DEF RunStep

\* Nothing but a sweep's own write, the owner and a deletion moves what the plan pauses.
LEMMA NextRests ==
  ASSUME Typed, Rested, [Next]_vars, UNCHANGED <<changes, patch>>
  PROVE  Rested' /\ UNCHANGED <<projects, monitors>>
<1> DEFINE goal == Rested' /\ UNCHANGED <<projects, monitors>>
<1>1. run \in [Runs -> Run] /\ changes \in Nat /\ Job \in Runs
  BY PlanCapacityAssumption DEF Typed, TypeOK, Runs
<1>2. ASSUME UNCHANGED <<plan, projects, monitors, run>> PROVE goal
  BY <1>2, RestFrame
<1>3. CASE UNCHANGED vars
  BY <1>2, <1>3 DEF vars, rows
<1>4. CASE Ticks
  <2>1. Step(Job, [run[Job] EXCEPT !.pc = "rank"]) /\ UNCHANGED <<plan, projects, monitors>>
    BY <1>4 DEF Ticks, Go, rows
  <2>2. [run[Job] EXCEPT !.pc = "rank"].pc = "rank"
    BY <1>1 DEF Run
  <2> QED BY <1>1, <2>1, <2>2, RestStep
<1>5. ASSUME NEW r \in Runs, RunStep(r) PROVE goal
  BY <1>5, RunRests
<1>6. ASSUME NEW r \in Runs, Dies(r) PROVE goal
  <2>1. Step(r, IdleRun) /\ UNCHANGED <<plan, projects, monitors>> /\ IdleRun.pc = "idle"
    BY <1>6 DEF Dies, rows, IdleRun
  <2> QED BY <2>1, RestStep
<1>7. ASSUME NEW m \in Monitors, Fails(m) \/ OpenStep(m) \/ Delivers(m) PROVE goal
  BY <1>2, <1>7 DEF Fails, OpenStep, Inserts, Guards, Notifies, Delivers, rows
<1>8. ASSUME NEW m \in Monitors, Recovers(m) PROVE goal
  <2>1. Over(m, run) /\ UNCHANGED <<plan, projects, monitors>>
    BY <1>8 DEF Recovers
  <2> QED BY <1>1, <2>1, OverRests
<1>9. ASSUME NEW p \in Plans, Buys(p) PROVE FALSE
  BY <1>1, <1>9 DEF Buys, Change
<1>10. ASSUME NEW m \in Monitors, NEW to, PatchReads(m, to) PROVE FALSE
  BY <1>1, <1>10 DEF PatchReads, Change
<1>11. ASSUME NEW p \in Projects, Deletes(p) PROVE FALSE
  BY <1>1, <1>11 DEF Deletes, Change
<1>12. CASE PatchWrites
  BY <1>2, <1>12 DEF PatchWrites, rows
<1>13. CASE PatchCommits
  BY <1>13 DEF PatchCommits, NoPatch
<1>14. CASE \/ \E p \in Plans : Buys(p)
            \/ \E m \in Monitors, to \in {"active", "owner"} : PatchReads(m, to)
            \/ \E p \in Projects : Deletes(p)
  BY <1>9, <1>10, <1>11, <1>14
<1>15. CASE \E r \in Runs : RunStep(r) \/ Dies(r)
  BY <1>5, <1>6, <1>15
<1>16. CASE \E m \in Monitors : Fails(m) \/ OpenStep(m) \/ Delivers(m) \/ Recovers(m)
  BY <1>7, <1>8, <1>16
<1> QED BY <1>3, <1>4, <1>12, <1>13, <1>14, <1>15, <1>16 DEF Next

\* Once the plan is kept, it stays kept and nothing is written any more until the
\* owner acts: the safety half of CapacitySettles.
THEOREM RestIsKept == Spec => RestLasts
<1>1. Typed /\ [Next]_vars => [Rested /\ UNCHANGED <<changes, patch>> => Rested' /\ UNCHANGED <<projects, monitors>>]_vars
  BY NextRests
<1> QED BY <1>1, TypeCorrect, PTL DEF Spec, RestLasts

-----------------------------------------------------------------------------
(* A run ends: each of its statements takes it nearer to its end, and what    *)
(* anybody else does never takes it further away.                             *)

\* The statements of a run in their order, the last ones once per thawed project.
Phase(pc) ==
  CASE pc = "rank" -> 7 [] pc = "freeze" -> 6 [] pc = "budget" -> 5 [] pc = "cut" -> 4
    [] pc = "list" -> 3 [] pc = "close" -> 2 [] pc \in Late -> 1 [] OTHER -> 0

\* The statements the list in hand is still good for.
Waits(x) ==
  CASE x.pc = "close" -> Cardinality(x.todo)
    [] x.pc = "page"  -> 2 * Cardinality(x.todo) + 1
    [] x.pc = "queue" -> 2 * Cardinality(x.todo) + 2
    [] OTHER -> 0

Left(x) == <<Phase(x.pc), Cardinality(x.thawed), Waits(x)>>

\* The first number that differs decides.
Below(a, b) ==
  \/ a[1] < b[1]
  \/ a[1] = b[1] /\ a[2] < b[2]
  \/ a[1] = b[1] /\ a[2] = b[2] /\ a[3] < b[3]

\* No close, deletion, PATCH or other run gives a run more to do, and no statement of
\* its own, with a failure or without, leaves it as far from its end as it was
\* (worker.go, the sweeps and NotifyThawed as one sequence).
RunsEnd ==
  [][\A r \in Runs : run[r].pc # "idle" =>
       /\ Left(run[r]) \in Nat \X Nat \X Nat
       /\ Left(run'[r]) = Left(run[r]) \/ Below(Left(run'[r]), Left(run[r]))
       /\ RunStep(r) => Below(Left(run'[r]), Left(run[r]))]_vars

LEMMA Counted ==
  ASSUME NEW x, Fits(x)
  PROVE  /\ Phase(x.pc) \in Nat /\ Cardinality(x.thawed) \in Nat /\ Cardinality(x.todo) \in Nat /\ Waits(x) \in Nat
         /\ x.thawed \subseteq Projects /\ x.todo \subseteq Monitors
         /\ Left(x)[1] = Phase(x.pc) /\ Left(x)[2] = Cardinality(x.thawed) /\ Left(x)[3] = Waits(x)
<1>1. x.thawed \subseteq Projects /\ x.todo \subseteq Monitors
  BY DEF Fits, Run
<1>2. Cardinality(x.thawed) \in Nat /\ Cardinality(x.todo) \in Nat
  BY <1>1, Few
<1>3. Phase(x.pc) \in Nat
  BY DEF Phase
<1>4. Waits(x) \in Nat
  BY <1>2 DEF Waits
<1> QED BY <1>1, <1>2, <1>3, <1>4 DEF Left

LEMMA Phases ==
  /\ Phase("freeze") < Phase("rank") /\ Phase("budget") < Phase("freeze") /\ Phase("cut") < Phase("budget")
  /\ Phase("list") < Phase("cut") /\ Phase("close") < Phase("list") /\ Phase("thawed") < Phase("list")
  /\ Phase("thawed") < Phase("close") /\ Phase("page") = Phase("thawed") /\ Phase("queue") = Phase("thawed")
  /\ Phase("idle") < Phase("thawed")
BY DEF Phase, Late

\* The next statement, the next thawed project, the next of the list.
LEMMA Lower ==
  ASSUME NEW x, NEW y, Fits(x), Fits(y),
         \/ Phase(y.pc) < Phase(x.pc)
         \/ Phase(y.pc) = Phase(x.pc) /\ y.thawed \subseteq x.thawed /\ y.thawed # x.thawed
         \/ Phase(y.pc) = Phase(x.pc) /\ y.thawed = x.thawed /\ Waits(y) < Waits(x)
  PROVE  Below(Left(y), Left(x))
<1>1. ASSUME y.thawed \subseteq x.thawed, y.thawed # x.thawed PROVE Cardinality(y.thawed) < Cardinality(x.thawed)
  <2>1. /\ Cardinality(y.thawed) <= Cardinality(x.thawed)
        /\ Cardinality(y.thawed) = Cardinality(x.thawed) => y.thawed = x.thawed
        /\ Cardinality(y.thawed) \in Nat /\ Cardinality(x.thawed) \in Nat
    BY <1>1, Counted, Few
  <2> QED BY <1>1, <2>1
<1> QED BY <1>1, Counted DEF Below

\* A list that grows shorter is no more to do, wherever the run is.
LEMMA NotMore ==
  ASSUME NEW x, NEW y, Fits(x), Fits(y), y.pc = x.pc, y.thawed \subseteq x.thawed, y.todo \subseteq x.todo
  PROVE  Left(y) = Left(x) \/ Below(Left(y), Left(x))
<1>1. Cardinality(y.todo) <= Cardinality(x.todo) /\ Cardinality(y.todo) \in Nat /\ Cardinality(x.todo) \in Nat
  BY Counted, Few
<1>2. Waits(y) <= Waits(x)
  BY <1>1 DEF Waits
<1>3. Waits(y) < Waits(x) \/ Waits(y) = Waits(x)
  BY <1>2, Counted
<1>4. CASE y.thawed # x.thawed \/ Waits(y) < Waits(x)
  BY <1>4, Lower
<1>5. CASE y.thawed = x.thawed /\ Waits(y) = Waits(x)
  BY <1>5 DEF Left
<1> QED BY <1>3, <1>4, <1>5

\* The one in hand is done, or taken away.
LEMMA Handed ==
  ASSUME NEW x, NEW y, Fits(x), Fits(y), x.pc = "queue", y.pc = "page",
         y.thawed \subseteq x.thawed, y.todo \subseteq x.todo
  PROVE  Below(Left(y), Left(x))
<1>1. Cardinality(y.todo) <= Cardinality(x.todo) /\ Cardinality(y.todo) \in Nat /\ Cardinality(x.todo) \in Nat
  BY Counted, Few
<1>2. Waits(y) < Waits(x)
  BY <1>1 DEF Waits
<1>3. Phase(y.pc) = Phase(x.pc)
  BY DEF Phase, Late
<1> QED BY <1>2, <1>3, Lower

Nearer(r) == Below(Left(run'[r]), Left(run[r]))
NoFurther(r) == Left(run'[r]) = Left(run[r]) \/ Nearer(r)

\* A step that writes one run's record.
LEMMA StepNearer ==
  ASSUME Typed, NEW r \in Runs, NEW x, Step(r, x)
  PROVE  run'[r] = x /\ \A q \in Runs \ {r} : NoFurther(q)
BY DEF Step, Typed, TypeOK, NoFurther

\* The statements before the run has anything to announce.
LEMMA SweepNearer ==
  ASSUME Typed, Typed', NEW r \in Runs,
         \/ \E newest \in [Kept -> 0..1] : Ranks(r, newest)
         \/ Freezes(r) \/ Budgets(r) \/ Cuts(r) \/ Lists(r)
  PROVE  Nearer(r) /\ \A q \in Runs \ {r} : NoFurther(q)
<1>1. Fits(run[r]) /\ Fits(run'[r]) /\ run[r] \in Run
  BY DEF Typed, Fits
<1>2. ASSUME Phase(run'[r].pc) < Phase(run[r].pc) PROVE Nearer(r)
  BY <1>1, <1>2, Lower DEF Nearer
<1>3. ASSUME NEW x, Step(r, x), Phase(x.pc) < Phase(run[r].pc) PROVE Nearer(r) /\ \A q \in Runs \ {r} : NoFurther(q)
  <2>1. run'[r] = x /\ \A q \in Runs \ {r} : NoFurther(q)
    BY <1>3, StepNearer
  <2> QED BY <1>2, <1>3, <2>1
<1>4. ASSUME NEW newest, Ranks(r, newest) PROVE Nearer(r) /\ \A q \in Runs \ {r} : NoFurther(q)
  <2> DEFINE stop == {p \in Live : Place(p, newest) > plan.projects}
             start == {p \in Kept \ Live : Place(p, newest) <= plan.projects}
             x == [run[r] EXCEPT !.pc = "freeze", !.stop = stop, !.start = start]
  <2>1. run[r].pc = "rank" /\ Step(r, x)
    BY <1>4 DEF Ranks, At
  <2> HIDE DEF stop, start
  <2>2. x.pc = "freeze"
    BY <1>1 DEF Run
  <2> HIDE DEF x
  <2> QED BY <1>3, <2>1, <2>2, Phases
<1>5. CASE Freezes(r)
  <2> DEFINE thaw == run[r].start \cap (Kept \ Live)
             x == [run[r] EXCEPT !.pc = "budget", !.stop = {}, !.start = {}, !.thawed = thaw]
             y == [run[r] EXCEPT !.pc = "budget", !.stop = {}, !.start = {}]
  <2>1. run[r].pc = "freeze" /\ (Step(r, x) \/ Step(r, y))
    BY <1>5 DEF Freezes, At
  <2> HIDE DEF thaw
  <2>2. x.pc = "budget" /\ y.pc = "budget"
    BY <1>1 DEF Run
  <2> HIDE DEF x, y
  <2> QED BY <1>3, <2>1, <2>2, Phases
<1>6. CASE Budgets(r)
  <2> DEFINE stop == {m \in Holding : Slot(m) > plan.checks /\ monitors[m] = "active"}
             start == {m \in Holding : Slot(m) <= plan.checks /\ monitors[m] = "plan"}
             x == [run[r] EXCEPT !.pc = "cut", !.stop = stop, !.start = start]
  <2>1. run[r].pc = "budget" /\ Step(r, x)
    BY <1>6 DEF Budgets, At
  <2> HIDE DEF stop, start
  <2>2. x.pc = "cut"
    BY <1>1 DEF Run
  <2> HIDE DEF x
  <2> QED BY <1>3, <2>1, <2>2, Phases
<1>7. CASE Cuts(r)
  <2>1. run[r].pc = "cut" /\ run'[r].pc = "list"
    BY <1>7, CutsRuns
  <2>2. \A q \in Runs \ {r} : run'[q].pc = run[q].pc /\ run'[q].thawed = run[q].thawed /\ run'[q].todo = run[q].todo
    BY <1>7, CutsRuns
  <2>3. ASSUME NEW q \in Runs \ {r} PROVE NoFurther(q)
    <3>1. Fits(run[q]) /\ Fits(run'[q])
      BY DEF Typed
    <3> QED BY <2>2, <3>1, NotMore DEF NoFurther, Nearer
  <2> QED BY <1>2, <2>1, <2>3, Phases
<1>8. CASE Lists(r)
  <2> DEFINE x == [run[r] EXCEPT !.pc = "close", !.todo = PlanPausedOpen]
             y == [run[r] EXCEPT !.pc = "thawed"]
  <2>1. run[r].pc = "list" /\ (Step(r, x) \/ Step(r, y))
    BY <1>8 DEF Lists, At, Go
  <2>2. x.pc = "close" /\ y.pc = "thawed"
    BY <1>1 DEF Run
  <2> HIDE DEF x, y
  <2> QED BY <1>3, <2>1, <2>2, Phases
<1> QED BY <1>4, <1>5, <1>6, <1>7, <1>8

\* The end of an incident: its check leaves every list it is on.
LEMMA OverNearer ==
  ASSUME Typed, Typed', NEW m \in Monitors, NEW runs \in [Runs -> Run], Over(m, runs),
         \A q \in Runs : /\ Fits(runs[q]) /\ runs[q].pc = run[q].pc /\ runs[q].cur = run[q].cur
                         /\ runs[q].thawed = run[q].thawed /\ runs[q].todo \subseteq run[q].todo
  PROVE  \A q \in Runs : NoFurther(q) /\ (run[q].cur # m => run'[q].todo \subseteq runs[q].todo)
                         /\ run'[q].thawed = run[q].thawed /\ (run[q].cur # m => run'[q].pc = run[q].pc)
<1> SUFFICES ASSUME NEW q \in Runs
             PROVE  NoFurther(q) /\ (run[q].cur # m => run'[q].todo \subseteq runs[q].todo)
                    /\ run'[q].thawed = run[q].thawed /\ (run[q].cur # m => run'[q].pc = run[q].pc)
  OBVIOUS
<1>1. LetsGo(q, m, runs[q])
  BY OverHolds
<1>2. Fits(run[q]) /\ Fits(run'[q])
  BY DEF Typed
<1>3. CASE run[q].cur = m
  <2>1. run[q].pc = "queue" /\ run'[q].pc = "page" /\ run'[q].thawed = run[q].thawed /\ run'[q].todo \subseteq run[q].todo
    BY <1>1, <1>2, <1>3, PlanCapacityAssumption DEF LetsGo, Fits
  <2> QED BY <1>2, <1>3, <2>1, Handed DEF NoFurther, Nearer
<1>4. CASE run[q].cur # m
  <2>1. run'[q].pc = run[q].pc /\ run'[q].thawed = run[q].thawed /\ run'[q].todo \subseteq runs[q].todo
    BY <1>1, <1>4 DEF LetsGo
  <2> QED BY <1>2, <2>1, NotMore DEF NoFurther, Nearer
<1> QED BY <1>3, <1>4

\* What the run closes, lists and announces at its end.
LEMMA CloseNearer ==
  ASSUME Typed, Typed', NEW r \in Runs, NEW m \in Monitors, Closes(r, m)
  PROVE  Nearer(r) /\ \A q \in Runs \ {r} : NoFurther(q)
<1> DEFINE x == [run[r] EXCEPT !.todo = @ \ {m}]
<1>1. /\ run[r].pc = "close" /\ m \in run[r].todo
      /\ Over(m, [run EXCEPT ![r].todo = @ \ {m}]) \/ Step(r, x)
  BY DEF Closes, At
<1>2. Fits(run[r]) /\ run[r] \in Run /\ Fits(run'[r]) /\ run \in [Runs -> Run] /\ \A q \in Runs : Fits(run[q])
  BY DEF Typed, TypeOK, Fits
<1>3. /\ Fits(x) /\ x.pc = run[r].pc /\ x.cur = run[r].cur
      /\ x.thawed = run[r].thawed /\ x.todo = run[r].todo \ {m}
  BY <1>2 DEF Fits, Run
<1>4. ASSUME run'[r].pc = "close", run'[r].thawed = run[r].thawed, run'[r].todo \subseteq run[r].todo \ {m} PROVE Nearer(r)
  <2>1. run[r].todo \subseteq Monitors /\ run[r].todo \ {m} \subseteq Monitors
    BY <1>2, Counted
  <2>2. /\ Cardinality(run[r].todo \ {m}) = Cardinality(run[r].todo) - 1 /\ Cardinality(run[r].todo) \in Nat
        /\ Cardinality(run'[r].todo) <= Cardinality(run[r].todo \ {m}) /\ Cardinality(run'[r].todo) \in Nat
    BY <1>1, <1>4, <2>1, Few
  <2>3. Waits(run'[r]) < Waits(run[r])
    BY <1>1, <1>4, <2>2 DEF Waits
  <2> QED BY <1>1, <1>2, <1>4, <2>3, Lower DEF Nearer
<1>5. CASE Step(r, x)
  <2> HIDE DEF x
  <2>1. run'[r] = x /\ \A q \in Runs \ {r} : NoFurther(q)
    BY <1>5, StepNearer
  <2> QED BY <1>1, <1>3, <1>4, <2>1
<1>6. CASE Over(m, [run EXCEPT ![r].todo = @ \ {m}])
  <2> DEFINE runs == [run EXCEPT ![r] = x]
  <2>1. Over(m, runs)
    BY <1>6
  <2> HIDE DEF x
  <2>2. runs \in [Runs -> Run] /\ runs[r] = x /\ \A q \in Runs \ {r} : runs[q] = run[q]
    BY <1>2, <1>3 DEF Fits
  <2> HIDE DEF runs
  <2>3. \A q \in Runs : /\ Fits(runs[q]) /\ runs[q].pc = run[q].pc /\ runs[q].cur = run[q].cur
                        /\ runs[q].thawed = run[q].thawed /\ runs[q].todo \subseteq run[q].todo
    BY <1>2, <1>3, <2>2
  <2>4. \A q \in Runs : NoFurther(q) /\ (run[q].cur # m => run'[q].todo \subseteq runs[q].todo)
                        /\ run'[q].thawed = run[q].thawed /\ (run[q].cur # m => run'[q].pc = run[q].pc)
    BY <2>1, <2>2, <2>3, OverNearer
  <2>5. run[r].cur # m
    BY <1>1, <1>2 DEF Fits
  <2> QED BY <1>1, <1>3, <1>4, <2>2, <2>4, <2>5
<1> QED BY <1>1, <1>5, <1>6

LEMMA PageNearer ==
  ASSUME Typed, Typed', NEW r \in Runs,
         \/ Closed(r) \/ Paged(r) \/ Pages(r) \/ Ends(r) \/ Dies(r)
         \/ \E m \in Monitors : PageGuards(r, m)
         \/ \E p \in Projects : ListsThawed(r, p)
  PROVE  Nearer(r) /\ \A q \in Runs \ {r} : NoFurther(q)
<1>1. Fits(run[r]) /\ Fits(run'[r]) /\ run[r] \in Run
  BY DEF Typed, Fits
<1>2. ASSUME NEW x, Step(r, x), Fits(x) => Below(Left(x), Left(run[r]))
      PROVE  Nearer(r) /\ \A q \in Runs \ {r} : NoFurther(q)
  <2>1. run'[r] = x /\ \A q \in Runs \ {r} : NoFurther(q)
    BY <1>2, StepNearer
  <2> QED BY <1>1, <1>2, <2>1 DEF Nearer
<1>3. CASE Closed(r)
  <2> DEFINE x == [run[r] EXCEPT !.pc = "thawed"]
  <2>1. run[r].pc = "close" /\ Step(r, x) /\ x.pc = "thawed"
    BY <1>1, <1>3 DEF Closed, At, Go, Run
  <2> HIDE DEF x
  <2> QED BY <1>1, <1>2, <2>1, Lower, Phases
<1>4. CASE Paged(r)
  <2> DEFINE x == [run[r] EXCEPT !.pc = "thawed"]
  <2>1. run[r].pc = "page" /\ run[r].todo = {} /\ Step(r, x) /\ x.pc = "thawed" /\ x.thawed = run[r].thawed
    BY <1>1, <1>4 DEF Paged, At, Go, Run
  <2> HIDE DEF x
  <2>2. Waits(x) < Waits(run[r])
    <3>1. Cardinality(run[r].todo) \in Nat
      BY <1>1, Counted
    <3> QED BY <2>1, <3>1 DEF Waits
  <2> QED BY <1>1, <1>2, <2>1, <2>2, Lower, Phases
<1>5. CASE Pages(r)
  <2> DEFINE x == [run[r] EXCEPT !.pc = "page", !.cur = None, !.paged = @ \cup {run[r].cur}]
  <2>1. run[r].pc = "queue" /\ Step(r, x) /\ x.pc = "page" /\ x.thawed = run[r].thawed /\ x.todo = run[r].todo
    BY <1>1, <1>5 DEF Pages, At, Run
  <2> HIDE DEF x
  <2> QED BY <1>1, <1>2, <2>1, Handed
<1>6. CASE Ends(r) \/ Dies(r)
  <2>1. run[r].pc # "idle" /\ Step(r, IdleRun) /\ IdleRun.pc = "idle"
    BY <1>6 DEF Ends, Dies, At, IdleRun
  <2>2. Phase("idle") < Phase(run[r].pc)
    BY <1>1, <2>1 DEF Phase, Late, Run
  <2> QED BY <1>1, <1>2, <2>1, <2>2, Lower
<1>7. ASSUME NEW m \in Monitors, PageGuards(r, m) PROVE Nearer(r) /\ \A q \in Runs \ {r} : NoFurther(q)
  <2> DEFINE x == [run[r] EXCEPT !.pc = "queue", !.cur = m, !.todo = @ \ {m}]
             y == [run[r] EXCEPT !.todo = @ \ {m}]
  <2>1. run[r].pc = "page" /\ m \in run[r].todo /\ (Step(r, x) \/ Step(r, y))
    BY <1>7 DEF PageGuards, At
  <2>2. /\ x.pc = "queue" /\ x.thawed = run[r].thawed /\ x.todo = run[r].todo \ {m}
        /\ y.pc = "page" /\ y.thawed = run[r].thawed /\ y.todo = run[r].todo \ {m}
    BY <1>1, <2>1 DEF Run
  <2> HIDE DEF x, y
  <2>3. Cardinality(run[r].todo \ {m}) = Cardinality(run[r].todo) - 1 /\ Cardinality(run[r].todo) \in Nat
    BY <1>1, <2>1, Counted, Few
  <2>4. Waits(x) < Waits(run[r]) /\ Waits(y) < Waits(run[r])
    BY <2>1, <2>2, <2>3 DEF Waits
  <2>5. Phase(x.pc) = Phase(run[r].pc) /\ Phase(y.pc) = Phase(run[r].pc)
    BY <2>1, <2>2, Phases
  <2> QED BY <1>1, <1>2, <2>1, <2>2, <2>4, <2>5, Lower
<1>8. ASSUME NEW p \in Projects, ListsThawed(r, p) PROVE Nearer(r) /\ \A q \in Runs \ {r} : NoFurther(q)
  <2> DEFINE x == [run[r] EXCEPT !.pc = "page", !.thawed = @ \ {p}, !.todo = {m \in Open : Home[m] = p /\ ~noted[m]}]
             y == [run[r] EXCEPT !.thawed = @ \ {p}]
  <2>1. run[r].pc = "thawed" /\ p \in run[r].thawed /\ (Step(r, x) \/ Step(r, y))
    BY <1>8 DEF ListsThawed, At
  <2>2. /\ x.pc = "page" /\ x.thawed = run[r].thawed \ {p}
        /\ y.pc = "thawed" /\ y.thawed = run[r].thawed \ {p}
    BY <1>1, <2>1 DEF Run
  <2> HIDE DEF x, y
  <2>3. Phase(x.pc) = Phase(run[r].pc) /\ Phase(y.pc) = Phase(run[r].pc)
    BY <2>1, <2>2, Phases
  <2>4. /\ x.thawed \subseteq run[r].thawed /\ x.thawed # run[r].thawed
        /\ y.thawed \subseteq run[r].thawed /\ y.thawed # run[r].thawed
    BY <2>1, <2>2
  <2>5. (Fits(x) => Below(Left(x), Left(run[r]))) /\ (Fits(y) => Below(Left(y), Left(run[r])))
    BY <1>1, <2>3, <2>4, Lower
  <2> QED BY <1>2, <2>1, <2>5
<1> QED BY <1>3, <1>4, <1>5, <1>6, <1>7, <1>8

LEMMA RecoverNearer ==
  ASSUME Typed, Typed', NEW m \in Monitors, Recovers(m)
  PROVE  \A q \in Runs : NoFurther(q)
<1> DEFINE runs == run
<1>1. Over(m, runs)
  BY DEF Recovers
<1>2. runs \in [Runs -> Run] /\ \A q \in Runs : Fits(runs[q]) /\ runs[q] = run[q]
  BY DEF Typed, TypeOK
<1> HIDE DEF runs
<1>3. \A q \in Runs : /\ Fits(runs[q]) /\ runs[q].pc = run[q].pc /\ runs[q].cur = run[q].cur
                      /\ runs[q].thawed = run[q].thawed /\ runs[q].todo \subseteq run[q].todo
  BY <1>2
<1> QED BY <1>1, <1>2, <1>3, OverNearer

LEMMA DeleteNearer ==
  ASSUME Typed, Typed', NEW p \in Projects, Deletes(p), NEW r \in Runs, run[r].pc # "idle"
  PROVE  NoFurther(r)
<1>1. r = Job
  BY DEF Deletes, At, Runs
<1>2. Fits(run[Job]) /\ Fits(run'[Job])
  BY <1>1 DEF Typed
<1>3. run'[Job].todo \subseteq run[Job].todo /\ run'[Job].thawed \subseteq run[Job].thawed
  BY DeleteHolds
<1>4. \/ run'[Job].pc = run[Job].pc
      \/ run'[Job].pc = "page" /\ run[Job].pc = "queue"
  <2>1. run[Job].cur \in Monitors => run[Job].pc = "queue"
    BY <1>2, PlanCapacityAssumption DEF Fits
  <2> QED BY <2>1, DeleteHolds
<1>5. CASE run'[Job].pc = run[Job].pc
  BY <1>1, <1>2, <1>3, <1>5, NotMore DEF NoFurther, Nearer
<1>6. CASE run'[Job].pc = "page" /\ run[Job].pc = "queue"
  BY <1>1, <1>2, <1>3, <1>6, Handed DEF NoFurther, Nearer
<1> QED BY <1>4, <1>5, <1>6

LEMMA RunNearer ==
  ASSUME Typed, Typed', NEW r \in Runs, RunStep(r)
  PROVE  Nearer(r) /\ \A q \in Runs \ {r} : NoFurther(q)
<1>1. CASE \/ \E newest \in [Kept -> 0..1] : Ranks(r, newest)
           \/ Freezes(r) \/ Budgets(r) \/ Cuts(r) \/ Lists(r)
  BY <1>1, SweepNearer
<1>2. CASE \/ Closed(r) \/ Paged(r) \/ Pages(r) \/ Ends(r)
           \/ \E m \in Monitors : PageGuards(r, m)
           \/ \E p \in Projects : ListsThawed(r, p)
  BY <1>2, PageNearer
<1>3. ASSUME NEW m \in Monitors, Closes(r, m) PROVE Nearer(r) /\ \A q \in Runs \ {r} : NoFurther(q)
  BY <1>3, CloseNearer
<1> QED BY <1>1, <1>2, <1>3 DEF RunStep

LEMMA NextNearer ==
  ASSUME Typed, Typed', [Next]_vars, NEW r \in Runs, run[r].pc # "idle"
  PROVE  NoFurther(r)
<1>1. ASSUME UNCHANGED run PROVE NoFurther(r)
  BY <1>1 DEF NoFurther
<1>2. CASE UNCHANGED vars
  BY <1>1, <1>2 DEF vars
<1>3. CASE Ticks
  <2>1. Step(Job, [run[Job] EXCEPT !.pc = "rank"]) /\ r # Job /\ Job \in Runs
    BY <1>3 DEF Ticks, Go, At, Runs
  <2> QED BY <2>1, StepNearer
<1>4. ASSUME NEW q \in Runs, RunStep(q) PROVE NoFurther(r)
  BY <1>4, RunNearer DEF NoFurther
<1>5. ASSUME NEW q \in Runs, Dies(q) PROVE NoFurther(r)
  BY <1>5, PageNearer DEF NoFurther
<1>6. ASSUME NEW m \in Monitors, Fails(m) \/ OpenStep(m) \/ Delivers(m) PROVE NoFurther(r)
  BY <1>1, <1>6 DEF Fails, OpenStep, Inserts, Guards, Notifies, Delivers
<1>7. ASSUME NEW m \in Monitors, Recovers(m) PROVE NoFurther(r)
  BY <1>7, RecoverNearer
<1>8. CASE \/ \E p \in Plans : Buys(p)
           \/ \E m \in Monitors, to \in {"active", "owner"} : PatchReads(m, to)
           \/ PatchWrites
  <2>1. ASSUME NEW p \in Plans, Buys(p) PROVE UNCHANGED run
    BY <2>1 DEF Buys
  <2>2. ASSUME NEW m \in Monitors, NEW to, PatchReads(m, to) PROVE UNCHANGED run
    BY <2>2 DEF PatchReads
  <2>3. ASSUME PatchWrites PROVE UNCHANGED run
    BY <2>3 DEF PatchWrites
  <2> QED BY <1>1, <1>8, <2>1, <2>2, <2>3
<1>9. CASE PatchCommits
  <2>1. /\ run'[r].pc = run[r].pc /\ run'[r].thawed = run[r].thawed /\ run'[r].todo = run[r].todo
        /\ Fits(run[r]) /\ Fits(run'[r])
    BY <1>9, CommitHolds DEF Typed
  <2> QED BY <2>1, NotMore DEF NoFurther, Nearer
<1>10. ASSUME NEW p \in Projects, Deletes(p) PROVE NoFurther(r)
  BY <1>10, DeleteNearer
<1>11. CASE \E q \in Runs : RunStep(q) \/ Dies(q)
  BY <1>4, <1>5, <1>11
<1>12. CASE \E m \in Monitors : Fails(m) \/ OpenStep(m) \/ Delivers(m) \/ Recovers(m)
  BY <1>6, <1>7, <1>12
<1> QED BY <1>2, <1>3, <1>8, <1>9, <1>10, <1>11, <1>12 DEF Next

\* A run of the sweeps has an end that no other run, owner, outage or failure puts
\* off: the argument behind the liveness of CapacitySettles, for every value of the
\* constants.
THEOREM RunsComeToAnEnd == Spec => RunsEnd
<1>1. ASSUME Typed, Typed', [Next]_vars, NEW r \in Runs, run[r].pc # "idle"
      PROVE  /\ Left(run[r]) \in Nat \X Nat \X Nat
             /\ Left(run'[r]) = Left(run[r]) \/ Below(Left(run'[r]), Left(run[r]))
             /\ RunStep(r) => Below(Left(run'[r]), Left(run[r]))
  <2>1. NoFurther(r)
    BY <1>1, NextNearer
  <2>2. RunStep(r) => Nearer(r)
    BY <1>1, RunNearer
  <2>3. Left(run[r]) \in Nat \X Nat \X Nat
    <3>1. Fits(run[r])
      BY <1>1 DEF Typed
    <3>2. Phase(run[r].pc) \in Nat /\ Cardinality(run[r].thawed) \in Nat /\ Waits(run[r]) \in Nat
      BY <3>1, Counted
    <3> QED BY <3>2 DEF Left
  <2> QED BY <2>1, <2>2, <2>3 DEF NoFurther, Nearer
<1>2. Typed /\ [Next]_vars =>
        [\A r \in Runs : run[r].pc # "idle" =>
           /\ Left(run[r]) \in Nat \X Nat \X Nat
           /\ Left(run'[r]) = Left(run[r]) \/ Below(Left(run'[r]), Left(run[r]))
           /\ RunStep(r) => Below(Left(run'[r]), Left(run[r]))]_vars
  BY <1>1, NextTyped
<1> QED BY <1>2, TypeCorrect, PTL DEF Spec, RunsEnd
=============================================================================
