--------------------------- MODULE MonitoringProofs ---------------------------
(***************************************************************************)
(* Type correctness of Outage, and that no alarm goes out unearned, for any   *)
(* number of monitors, calls in flight, joins, commands and faults.  The      *)
(* invariant Earned says that whatever counts failures, the row or a call's   *)
(* copy of it, counts no more than there were since the target was last       *)
(* surely up, and that whoever is about to open an incident has them all.     *)
(*                                                                          *)
(* Then the heartbeat: Locked says that whoever sweeps holds the job's lock    *)
(* and inserts over nothing, Followed which call stands between a verdict     *)
(* and its incident while the two differ.                                    *)
(*                                                                          *)
(* Last the leases: Guarded says that the lease of a target a node has in      *)
(* hand is in that node's name and outlasts what is left of its budgets.      *)
(***************************************************************************)
EXTENDS Monitoring, FiniteSetTheorems, TLAPS

\* One result keeps the row a row (Detector.Process).
LEMMA ProcessType ==
  ASSUME NEW s \in Facts, NEW outcome \in Outcome
  PROVE  Process(s, outcome) \in Facts
<1>1. CASE outcome = "ok"
  BY <1>1 DEF Process, ProcessOK, Facts, Status
<1>2. CASE outcome = "fail"
  <2>1. ProcessFail(s) \in Facts
    BY ThresholdAssumption DEF ProcessFail, Facts, Status
  <2> QED BY <1>2, <2>1 DEF Process
<1>3. CASE outcome = "unmeasured"
  <2>1. PICK st \in Status : ProcessUnmeasured(s) =
          [[s EXCEPT !.unmeasured = @ + 1] EXCEPT !.status = st]
    BY DEF ProcessUnmeasured, Facts, Status
  <2>2. [s EXCEPT !.unmeasured = @ + 1] \in Facts
    BY DEF Facts
  <2>3. \A t \in Facts : [t EXCEPT !.status = st] \in Facts
    BY DEF Facts
  <2> QED BY <1>3, <2>1, <2>2, <2>3 DEF Process
<1> QED BY <1>1, <1>2, <1>3 DEF Outcome

LEMMA SaturateType ==
  ASSUME NEW s \in Facts
  PROVE  /\ Saturate(s) \in Facts
         /\ Saturate(s).status = s.status
         /\ Saturate(s).fails = IF s.fails > Threshold THEN Threshold ELSE s.fails
<1>1. PICK f \in Nat : f = IF s.fails > Threshold THEN Threshold ELSE s.fails
  BY ThresholdAssumption DEF Facts
<1>2. PICK u \in Nat : u = IF s.unmeasured > UnmeasuredThreshold THEN UnmeasuredThreshold ELSE s.unmeasured
  BY ThresholdAssumption DEF Facts
<1>3. Saturate(s) = [[s EXCEPT !.fails = f] EXCEPT !.unmeasured = u]
  BY <1>1, <1>2 DEF Saturate, Facts
<1>4. PICK t \in Facts : t = [s EXCEPT !.fails = f] /\ t.status = s.status /\ t.fails = f
  <2>1. /\ [s EXCEPT !.fails = f] \in Facts
        /\ [s EXCEPT !.fails = f].status = s.status
        /\ [s EXCEPT !.fails = f].fails = f
    BY DEF Facts
  <2> QED BY <2>1
<1>5. [t EXCEPT !.unmeasured = u] \in Facts /\ [t EXCEPT !.unmeasured = u].status = t.status
      /\ [t EXCEPT !.unmeasured = u].fails = t.fails
  BY DEF Facts
<1> QED BY <1>1, <1>3, <1>4, <1>5

LEMMA AfterType ==
  ASSUME TypeOK, NEW h \in Handlers
  PROVE  /\ handler[h] \in Handler
         /\ Process(handler[h].seen, handler[h].outcome) \in Facts
         /\ After(h) \in Facts
<1>1. handler[h] \in Handler BY DEF TypeOK
<1>2. handler[h].seen \in Facts /\ handler[h].outcome \in Outcome BY <1>1 DEF Handler
<1> QED BY <1>1, <1>2, ProcessType, SaturateType DEF After

-----------------------------------------------------------------------------
(* Type correctness.                                                         *)

LEMMA IdleType == Idle \in Handler
<1>1. NoFacts \in Facts BY DEF NoFacts, Facts, Status
<1> QED BY <1>1 DEF Idle, Handler, Outcome

\* A handler over a set of monitors is a handler.
LEMMA FanOutType ==
  ASSUME TypeOK, NEW h \in Handlers, NEW pc \in {"open", "close"}, NEW set \in SUBSET Monitors,
         FanOut(h, pc, set)
  PROVE  handler' \in [Handlers -> Handler]
<1>1. [Idle EXCEPT !.pc = pc, !.todo = set] \in Handler
  BY IdleType DEF Handler
<1> QED BY <1>1, IdleType DEF FanOut, TypeOK

LEMMA BoundsType ==
  ASSUME TypeOK, Change \/ Join \/ Fault \/ NoFault
  PROVE  joins' \in Nat /\ changes' \in Nat /\ faults' \in Nat
  BY DEF TypeOK, Change, Join, Fault, NoFault, bounds

LEMMA OpenType ==
  ASSUME TypeOK, NEW m \in Monitors, CloseAll(m) \/ OpenOne(m) \/ UNCHANGED open
  PROVE  open' \in [Monitors -> Nat]
  BY DEF TypeOK, CloseAll, OpenOne

LEMMA InitType == Init => TypeOK
<1> SUFFICES ASSUME Init PROVE TypeOK
  OBVIOUS
<1>1. NoFacts \in Facts BY DEF NoFacts, Facts, Status
<1>2. failures \in 0..Threshold BY ThresholdAssumption DEF Init
<1> QED BY <1>1, <1>2, IdleType DEF Init, TypeOK, MonitorState

\* The steps of SubmitResults.
LEMMA SubmitType ==
  ASSUME TypeOK, NEW h \in Handlers,
         SubmitStep(h) \/ CutOff(h) \/ \E outcome \in Outcome : Receive(h, outcome)
  PROVE  TypeOK'
<1>1. ASSUME NEW outcome \in Outcome, Receive(h, outcome) PROVE TypeOK'
  <2>1. [Idle EXCEPT !.pc = "write", !.outcome = outcome, !.seen = facts] \in Handler
    BY IdleType DEF Handler, TypeOK
  <2>2. handler' \in [Handlers -> Handler] BY <1>1, <2>1 DEF Receive, TypeOK
  <2>3. failures' \in 0..Threshold
    <3>1. failures \in 0..Threshold /\ Threshold \in Nat BY ThresholdAssumption DEF TypeOK
    <3>2. failures' = IF outcome = "fail" /\ failures < Threshold THEN failures + 1 ELSE failures
      BY <1>1 DEF Receive
    <3> QED BY <3>1, <3>2
  <2> QED BY <1>1, <2>2, <2>3 DEF Receive, TypeOK, bounds
<1>2. CASE WriteFacts(h)
  <2>1. facts' \in Facts BY <1>2, AfterType DEF WriteFacts, TypeOK
  <2>2. \A pc \in {"list_open", "list_close"} : [Idle EXCEPT !.pc = pc] \in Handler
    BY IdleType DEF Handler
  <2>3. NextPc(h) \in {"idle", "list_open", "list_close"} BY DEF NextPc
  <2>4. handler' \in [Handlers -> Handler]
    BY <1>2, <2>2, <2>3, IdleType DEF WriteFacts, TypeOK
  <2>5. failures' \in 0..Threshold BY <1>2, ThresholdAssumption DEF WriteFacts, TypeOK
  <2>6. NoFault \/ Fault BY <1>2 DEF WriteFacts
  <2> QED BY <1>2, <2>1, <2>4, <2>5, <2>6, BoundsType DEF WriteFacts, TypeOK
<1>3. CASE ListOpen(h)
  <2>1. PICK set \in SUBSET Monitors : FanOut(h, "open", set) BY <1>3 DEF ListOpen
  <2>2. handler' \in [Handlers -> Handler] BY <2>1, FanOutType
  <2>3. NoFault \/ Fault BY <1>3 DEF ListOpen
  <2> QED BY <1>3, <2>2, <2>3, BoundsType DEF ListOpen, TypeOK
<1>4. CASE OpenCheck(h)
  <2>1. handler' \in [Handlers -> Handler]
    <3>1. PICK m \in handler[h].todo : Inserts(h, m) \/ FanOut(h, "open", handler[h].todo \ {m})
      BY <1>4 DEF OpenCheck
    <3>2. handler[h] \in Handler /\ handler[h].todo \subseteq Monitors BY DEF TypeOK, Handler
    <3>3. CASE Inserts(h, m)
      <4>1. [Idle EXCEPT !.pc = "insert", !.cur = m, !.todo = handler[h].todo \ {m}] \in Handler
        BY <3>2, IdleType DEF Handler
      <4> QED BY <3>3, <4>1 DEF Inserts, TypeOK
    <3>4. CASE FanOut(h, "open", handler[h].todo \ {m})
      <4>1. handler[h].todo \ {m} \in SUBSET Monitors BY <3>2
      <4> QED BY <3>4, <4>1, FanOutType
    <3> QED BY <3>1, <3>3, <3>4
  <2>2. NoFault \/ Fault BY <1>4 DEF OpenCheck
  <2> QED BY <1>4, <2>1, <2>2, BoundsType DEF OpenCheck, TypeOK
<1>5. CASE OpenInsert(h)
  <2>1. handler[h].todo \in SUBSET Monitors BY DEF TypeOK, Handler
  <2>2. handler' \in [Handlers -> Handler] BY <1>5, <2>1, FanOutType DEF OpenInsert
  <2>3. open' \in [Monitors -> Nat]
    BY <1>5 DEF OpenInsert, OpenOne, TypeOK
  <2>4. NoFault \/ Fault BY <1>5 DEF OpenInsert
  <2> QED BY <1>5, <2>2, <2>3, <2>4, BoundsType DEF OpenInsert, TypeOK
<1>6. CASE ListClose(h)
  <2>1. PICK set \in SUBSET Monitors : FanOut(h, "close", set) BY <1>6 DEF ListClose
  <2>2. handler' \in [Handlers -> Handler] BY <2>1, FanOutType
  <2>3. NoFault \/ Fault BY <1>6 DEF ListClose
  <2> QED BY <1>6, <2>2, <2>3, BoundsType DEF ListClose, TypeOK
<1>7. CASE CloseNext(h)
  <2>1. PICK m \in handler[h].todo :
          /\ FanOut(h, "close", handler[h].todo \ {m})
          /\ CloseAll(m) \/ UNCHANGED open
          /\ NoFault \/ Fault
    BY <1>7 DEF CloseNext
  <2>2. m \in Monitors /\ handler[h].todo \ {m} \in SUBSET Monitors BY DEF TypeOK, Handler
  <2>3. handler' \in [Handlers -> Handler] BY <2>1, <2>2, FanOutType
  <2> QED BY <1>7, <2>1, <2>2, <2>3, OpenType, BoundsType DEF CloseNext, TypeOK
<1>8. CASE CutOff(h)
  <2>1. handler' \in [Handlers -> Handler] BY <1>8, IdleType DEF CutOff, TypeOK
  <2>2. Fault BY <1>8 DEF CutOff
  <2> QED BY <1>8, <2>1, <2>2, BoundsType DEF CutOff, TypeOK
<1> QED BY <1>1, <1>2, <1>3, <1>4, <1>5, <1>6, <1>7, <1>8 DEF SubmitStep

\* The commands on one monitor.
LEMMA CommandType ==
  ASSUME TypeOK, NEW m \in Monitors,
         \/ JoinBegin(m) \/ JoinCheck(m) \/ JoinCommit(m) \/ JoinFails(m) \/ Pause(m) \/ DeleteClose(m)
         \/ DeleteRow(m) \/ HumanResolve(m) \/ BudgetSweep(m)
  PROVE  TypeOK'
<1>1. CASE JoinBegin(m)
  <2>1. Join BY <1>1 DEF JoinBegin
  <2> QED BY <1>1, <2>1, BoundsType DEF JoinBegin, TypeOK
<1>2. CASE JoinCheck(m)
  BY <1>2 DEF JoinCheck, TypeOK, bounds
<1>3. CASE JoinCommit(m)
  <2>1. open' \in [Monitors -> Nat] BY <1>3, OpenType DEF JoinCommit
  <2> QED BY <1>3, <2>1 DEF JoinCommit, TypeOK, bounds, MonitorState
<1>4. CASE Pause(m)
  <2>1. Change BY <1>4 DEF Pause
  <2> QED BY <1>4, <2>1, BoundsType DEF Pause, TypeOK, callVars, MonitorState
<1>5. CASE DeleteClose(m)
  <2>1. joins' \in Nat /\ changes' \in Nat /\ faults' \in Nat
    BY <1>5 DEF DeleteClose, TypeOK
  <2>2. open' \in [Monitors -> Nat] BY <1>5, OpenType DEF DeleteClose, TypeOK
  <2> QED BY <1>5, <2>1, <2>2 DEF DeleteClose, TypeOK
<1>6. CASE DeleteRow(m)
  <2>1. NoFault \/ Fault BY <1>6 DEF DeleteRow
  <2> QED BY <1>6, <2>1, BoundsType DEF DeleteRow, TypeOK, MonitorState
<1>7. CASE HumanResolve(m)
  <2>1. Change /\ CloseAll(m) BY <1>7 DEF HumanResolve
  <2> QED BY <1>7, <2>1, BoundsType, OpenType DEF HumanResolve, TypeOK, callVars
<1>8. CASE BudgetSweep(m)
  <2>1. Change BY <1>8 DEF BudgetSweep
  <2> QED BY <1>8, <2>1, BoundsType DEF BudgetSweep, TypeOK, callVars, MonitorState
<1>9. CASE JoinFails(m)
  <2>1. Fault BY <1>9 DEF JoinFails
  <2> QED BY <1>9, <2>1, BoundsType DEF JoinFails, TypeOK
<1> QED BY <1>1, <1>2, <1>3, <1>4, <1>5, <1>6, <1>7, <1>8, <1>9

LEMMA NextType == TypeOK /\ [Next]_vars => TypeOK'
<1> SUFFICES ASSUME TypeOK, [Next]_vars PROVE TypeOK'
  OBVIOUS
<1>1. CASE UNCHANGED vars
  BY <1>1 DEF vars, TypeOK
<1>2. CASE SweepList
  BY <1>2 DEF SweepList, TypeOK, bounds
<1>3. CASE SweepClose
  <2>1. PICK m \in swept : /\ swept' = swept \ {m}
                           /\ CloseAll(m) \/ UNCHANGED open
                           /\ NoFault \/ Fault
    BY <1>3 DEF SweepClose
  <2>2. m \in Monitors BY DEF TypeOK
  <2> QED BY <1>3, <2>1, <2>2, OpenType, BoundsType DEF SweepClose, TypeOK
<1>4. CASE Settle
  BY <1>4 DEF Settle, TypeOK, callVars, bounds
<1> QED BY <1>1, <1>2, <1>3, <1>4, SubmitType, CommandType DEF Next

\* Every reachable state of a target, its monitors and its calls is well typed.
THEOREM TypeCorrect == Spec => []TypeOK
<1>1. Init => TypeOK BY InitType
<1>2. TypeOK /\ [Next]_vars => TypeOK' BY NextType
<1> QED BY <1>1, <1>2, PTL DEF Spec

-----------------------------------------------------------------------------
(* No alarm without the failures.                                            *)

\* The row s counts no more failures than n, and is down only with them all.
Counted(s, n) == s.fails <= n /\ (s.status = "down" => n >= Threshold)

\* Calls on their way to opening incidents.
Opening == {"list_open", "open", "insert"}

Earned ==
  /\ Counted(facts, failures)
  /\ \A h \in Handlers : handler[h].pc = "write" => Counted(After(h), failures)
  /\ \A h \in Handlers : handler[h].pc \in Opening => failures >= Threshold
  /\ \A m \in Monitors : txn[m] \in {"check", "open"} => failures >= Threshold

\* One result counts at most one failure, and only if it is one.
LEMMA ProcessCounted ==
  ASSUME NEW s \in Facts, NEW outcome \in Outcome, NEW n \in 0..Threshold, Counted(s, n)
  PROVE  Counted(Saturate(Process(s, outcome)),
                 IF outcome = "fail" /\ n < Threshold THEN n + 1 ELSE n)
<1> DEFINE t == Process(s, outcome)
<1>1. t \in Facts BY ProcessType
<1>2. /\ Saturate(t).status = t.status
      /\ Saturate(t).fails = IF t.fails > Threshold THEN Threshold ELSE t.fails
  BY <1>1, SaturateType
<1>3. s.fails \in Nat /\ t.fails \in Nat /\ Threshold \in Nat \ {0} /\ n \in Nat /\ n <= Threshold
  BY <1>1, ThresholdAssumption DEF Facts
<1>4. CASE outcome = "ok"
  <2>1. t.status = "ok" /\ t.fails = 0 BY <1>4 DEF Process, ProcessOK
  <2> QED BY <1>2, <1>3, <1>4, <2>1 DEF Counted
<1>5. CASE outcome = "fail"
  <2>1. t = ProcessFail(s) BY <1>5 DEF Process
  <2>2. /\ t.fails = s.fails + 1
        /\ t.status = "down" => s.status = "down" \/ s.fails + 1 >= Threshold
    BY <2>1 DEF ProcessFail
  <2> DEFINE st == Saturate(t)
             k == IF outcome = "fail" /\ n < Threshold THEN n + 1 ELSE n
  <2>3. k = IF n < Threshold THEN n + 1 ELSE n BY <1>5
  <2>4. s.fails <= n /\ (s.status = "down" => n >= Threshold) BY DEF Counted
  <2>5. st.fails <= k /\ (st.status = "down" => k >= Threshold)
    <3> HIDE DEF t, k
    <3> QED BY <1>2, <1>3, <2>2, <2>3, <2>4
  <2> QED BY <2>5 DEF Counted
<1>6. CASE outcome = "unmeasured"
  <2>1. t = ProcessUnmeasured(s) BY <1>6 DEF Process
  <2>2. t.fails = s.fails /\ (t.status = "down" => s.status = "down")
    BY <2>1 DEF ProcessUnmeasured, Facts
  <2>3. s.fails <= n /\ (s.status = "down" => n >= Threshold) BY DEF Counted
  <2>4. Saturate(t).fails <= n /\ (Saturate(t).status = "down" => n >= Threshold)
    <3> HIDE DEF t
    <3> QED BY <1>2, <1>3, <2>2, <2>3
  <2> QED BY <1>6, <2>4 DEF Counted
<1> QED BY <1>4, <1>5, <1>6 DEF Outcome

\* A step that counts nothing lets a call go on only along its way, and a
\* transaction join only an outage that is there.
LEMMA EarnedFrame ==
  ASSUME Earned, UNCHANGED <<facts, failures>>,
         \A h \in Handlers : \/ handler'[h] = handler[h]
                             \/ handler'[h].pc \in {"idle", "list_close", "close"}
                             \/ handler'[h].pc \in Opening /\ handler[h].pc \in Opening,
         \A m \in Monitors : txn'[m] \in {"check", "open"} =>
                                \/ txn[m] \in {"check", "open"}
                                \/ facts.status = "down"
  PROVE  Earned'
<1>1. Counted(facts, failures)' BY DEF Earned, Counted
<1>2. ASSUME NEW h \in Handlers, handler'[h].pc = "write" PROVE Counted(After(h), failures)'
  <2>1. handler'[h] = handler[h] BY <1>2 DEF Opening
  <2>2. After(h)' = After(h) BY <2>1 DEF After
  <2>3. Counted(After(h), failures) BY <1>2, <2>1 DEF Earned
  <2> QED BY <2>2, <2>3 DEF Counted
<1>3. \A h \in Handlers : handler'[h].pc \in Opening => failures' >= Threshold
  BY DEF Earned, Opening
<1>4. \A m \in Monitors : txn'[m] \in {"check", "open"} => failures' >= Threshold
  BY DEF Earned, Counted
<1> QED BY <1>1, <1>2, <1>3, <1>4 DEF Earned

LEMMA InitEarned == Init => Earned
<1> SUFFICES ASSUME Init PROVE Earned
  OBVIOUS
<1>1. Counted(facts, failures) BY DEF Init, NoFacts, Counted
<1>2. \A h \in Handlers : handler[h].pc = "idle" BY DEF Init, Idle
<1>3. \A m \in Monitors : txn[m] = "none" BY DEF Init
<1> QED BY <1>1, <1>2, <1>3 DEF Earned, Opening

\* A result that arrives counts at once; its call saw no more than the row.
LEMMA ReceiveEarned ==
  ASSUME TypeOK, Earned, NEW h \in Handlers, NEW outcome \in Outcome, Receive(h, outcome)
  PROVE  Earned'
<1> DEFINE w == [Idle EXCEPT !.pc = "write", !.outcome = outcome, !.seen = facts]
<1>1. w.pc = "write" /\ w.outcome = outcome /\ w.seen = facts BY DEF Idle
<1>2. handler' = [handler EXCEPT ![h] = w] /\ UNCHANGED <<facts, txn>> BY DEF Receive
<1> HIDE DEF w
<1>3. handler'[h] = w /\ \A g \in Handlers : g # h => handler'[g] = handler[g]
  BY <1>2 DEF TypeOK
<1>4. failures \in Nat /\ failures <= Threshold /\ Threshold \in Nat
  BY ThresholdAssumption DEF TypeOK
<1>5. failures' = IF outcome = "fail" /\ failures < Threshold THEN failures + 1 ELSE failures
  BY DEF Receive
<1>6. failures' \in Nat /\ failures' >= failures BY <1>4, <1>5
<1>7. \A s \in Facts : Counted(s, failures) => Counted(s, failures')
  BY <1>4, <1>6 DEF Counted, Facts
<1>8. Counted(facts, failures)' BY <1>2, <1>7 DEF Earned, TypeOK
<1>9. ASSUME NEW g \in Handlers, handler'[g].pc = "write" PROVE Counted(After(g), failures)'
  <2>1. CASE g = h
    <3>1. After(g)' = Saturate(Process(facts, outcome)) BY <1>1, <1>3, <2>1 DEF After
    <3>2. Counted(facts, failures) BY DEF Earned
    <3>3. Counted(Saturate(Process(facts, outcome)), failures')
      BY <1>5, <3>2, ProcessCounted DEF TypeOK
    <3> QED BY <3>1, <3>3
  <2>2. CASE g # h
    <3>1. After(g)' = After(g) /\ handler[g].pc = "write" BY <1>3, <1>9, <2>2 DEF After
    <3>2. Counted(After(g), failures') BY <1>7, <3>1, AfterType DEF Earned
    <3> QED BY <3>1, <3>2
  <2> QED BY <2>1, <2>2
<1>10. \A g \in Handlers : handler'[g].pc \in Opening => failures' >= Threshold
  <2>1. handler'[h].pc \notin Opening BY <1>1, <1>3 DEF Opening
  <2> QED BY <1>3, <1>4, <1>6, <2>1 DEF Earned
<1>11. \A m \in Monitors : txn'[m] \in {"check", "open"} => failures' >= Threshold
  BY <1>2, <1>4, <1>6 DEF Earned
<1> QED BY <1>8, <1>9, <1>10, <1>11 DEF Earned

\* The row takes what the call counted, or nothing.  The count starts over only
\* when nothing that began before can still write.
LEMMA WriteEarned ==
  ASSUME TypeOK, Earned, NEW h \in Handlers, WriteFacts(h)
  PROVE  Earned'
<1>1. /\ handler[h].pc = "write" /\ UNCHANGED txn
      /\ facts' = After(h) \/ facts' = facts
      /\ handler' = [handler EXCEPT ![h] = IF NextPc(h) = "idle" THEN Idle ELSE [Idle EXCEPT !.pc = NextPc(h)]]
  BY DEF WriteFacts
<1>2. handler'[h].pc = NextPc(h) /\ \A g \in Handlers : g # h => handler'[g] = handler[g]
  BY <1>1 DEF TypeOK, Idle
<1>3. /\ NextPc(h) \in {"idle", "list_open", "list_close"}
      /\ NextPc(h) = "list_open" => After(h).status = "down"
  BY DEF NextPc
<1>4. Counted(After(h), failures) /\ Counted(facts, failures) BY <1>1 DEF Earned
<1>5. CASE failures' = failures
  <2>1. Counted(facts, failures)' BY <1>1, <1>4, <1>5
  <2>2. ASSUME NEW g \in Handlers, handler'[g].pc = "write" PROVE Counted(After(g), failures)'
    <3>1. g # h BY <1>2, <1>3, <2>2
    <3>2. handler'[g] = handler[g] BY <1>2, <3>1
    <3>3. After(g)' = After(g) BY <3>2 DEF After
    <3>4. Counted(After(g), failures) BY <2>2, <3>2 DEF Earned
    <3> QED BY <1>5, <3>3, <3>4
  <2>3. \A g \in Handlers : handler'[g].pc \in Opening => failures' >= Threshold
    <3>1. handler'[h].pc \in Opening => failures >= Threshold
      BY <1>2, <1>3, <1>4 DEF Opening, Counted
    <3> QED BY <1>2, <1>5, <3>1 DEF Earned
  <2>4. \A m \in Monitors : txn'[m] \in {"check", "open"} => failures' >= Threshold
    BY <1>1, <1>5 DEF Earned
  <2> QED BY <2>1, <2>2, <2>3, <2>4 DEF Earned
<1>6. CASE handler[h].outcome = "ok" /\ facts' = After(h) /\ Alone(h) /\ failures' = 0
  <2>1. After(h).status = "ok" /\ After(h).fails = 0
    <3>1. Process(handler[h].seen, handler[h].outcome) = [status |-> "ok", fails |-> 0, unmeasured |-> 0]
      BY <1>6 DEF Process, ProcessOK
    <3>2. [status |-> "ok", fails |-> 0, unmeasured |-> 0] \in Facts BY DEF Facts, Status
    <3> QED BY <3>1, <3>2, SaturateType, ThresholdAssumption DEF After
  <2>2. Counted(facts, failures)' BY <1>6, <2>1 DEF Counted
  <2>3. NextPc(h) # "list_open" BY <1>3, <2>1
  <2>4. \A g \in Handlers : handler'[g].pc \in {"idle", "list_close"}
    BY <1>2, <1>3, <1>6, <2>3 DEF Alone
  <2>5. \A m \in Monitors : txn'[m] = "none" BY <1>1, <1>6 DEF Alone
  <2> QED BY <2>2, <2>4, <2>5 DEF Earned, Opening
<1> QED BY <1>5, <1>6 DEF WriteFacts

\* The fan-outs.
LEMMA FanOutEarned ==
  ASSUME TypeOK, Earned, NEW h \in Handlers,
         \/ ListOpen(h) \/ OpenCheck(h) \/ OpenInsert(h)
         \/ ListClose(h) \/ CloseNext(h) \/ CutOff(h)
  PROVE  Earned'
<1>1. UNCHANGED <<facts, failures, txn>>
  BY Zenon DEF ListOpen, OpenCheck, OpenInsert, ListClose, CloseNext, CutOff
<1>2. ASSUME NEW pc \in {"open", "close"}, NEW set, FanOut(h, pc, set),
             pc = "open" => handler[h].pc \in Opening
      PROVE  Earned'
  <2>1. \A g \in Handlers : g # h => handler'[g] = handler[g] BY <1>2 DEF FanOut, TypeOK
  <2>2. handler'[h].pc = IF set = {} THEN "idle" ELSE pc BY <1>2 DEF FanOut, TypeOK, Idle
  <2> QED BY <1>1, <1>2, <2>1, <2>2, EarnedFrame DEF Opening
<1>3. CASE ListOpen(h)
  <2>1. handler[h].pc \in Opening BY <1>3 DEF ListOpen, Opening
  <2> QED BY <1>2, <1>3, <2>1 DEF ListOpen
<1>4. CASE OpenCheck(h)
  <2>0. handler[h].pc = "open" BY <1>4, Zenon DEF OpenCheck
  <2>1. handler[h].pc \in Opening BY <2>0 DEF Opening
  <2>2. PICK m \in handler[h].todo : Inserts(h, m) \/ FanOut(h, "open", handler[h].todo \ {m})
    BY <1>4, Zenon DEF OpenCheck
  <2>3. CASE Inserts(h, m)
    <3>1. /\ \A g \in Handlers : g # h => handler'[g] = handler[g]
          /\ handler'[h].pc = "insert"
      BY <2>3 DEF Inserts, TypeOK, Idle
    <3>2. handler'[h].pc \in Opening BY <3>1 DEF Opening
    <3> QED BY <1>1, <2>1, <3>1, <3>2, EarnedFrame
  <2>4. CASE FanOut(h, "open", handler[h].todo \ {m})
    BY <1>2, <2>1, <2>4
  <2> QED BY <2>2, <2>3, <2>4
<1>5. CASE OpenInsert(h)
  <2>0. handler[h].pc = "insert" BY <1>5 DEF OpenInsert
  <2>1. handler[h].pc \in Opening BY <2>0 DEF Opening
  <2> QED BY <1>2, <1>5, <2>1 DEF OpenInsert
<1>6. CASE ListClose(h)
  BY <1>2, <1>6 DEF ListClose
<1>7. CASE CloseNext(h)
  BY <1>2, <1>7 DEF CloseNext
<1>8. CASE CutOff(h)
  <2>1. \A g \in Handlers : handler'[g] = handler[g] \/ handler'[g].pc = "idle"
    BY <1>8 DEF CutOff, TypeOK, Idle
  <2> QED BY <1>1, <2>1, EarnedFrame
<1> HIDE DEF Earned, TypeOK
<1> QED BY <1>3, <1>4, <1>5, <1>6, <1>7, <1>8

LEMMA NextEarned == TypeOK /\ Earned /\ [Next]_vars => Earned'
<1> SUFFICES ASSUME TypeOK, Earned, [Next]_vars PROVE Earned'
  OBVIOUS
<1>1. ASSUME UNCHANGED <<facts, failures, handler, txn>> PROVE Earned'
  BY <1>1, EarnedFrame
<1>2. CASE UNCHANGED vars
  BY <1>1, <1>2 DEF vars
<1>3. ASSUME NEW h \in Handlers, SubmitStep(h) \/ CutOff(h) PROVE Earned'
  BY <1>3, WriteEarned, FanOutEarned DEF SubmitStep
<1>4. ASSUME NEW m \in Monitors, JoinBegin(m) \/ JoinCheck(m) \/ JoinCommit(m) \/ JoinFails(m) PROVE Earned'
  <2>1. UNCHANGED <<facts, failures, handler>> BY <1>4 DEF JoinBegin, JoinCheck, JoinCommit, JoinFails
  <2>2. \A n \in Monitors : txn'[n] \in {"check", "open"} =>
          txn[n] \in {"check", "open"} \/ facts.status = "down"
    BY <1>4 DEF JoinBegin, JoinCheck, JoinCommit, JoinFails, TypeOK
  <2> QED BY <2>1, <2>2, EarnedFrame
<1>5. ASSUME NEW m \in Monitors,
             Pause(m) \/ DeleteClose(m) \/ DeleteRow(m) \/ HumanResolve(m) \/ BudgetSweep(m)
      PROVE  Earned'
  BY <1>1, <1>5 DEF Pause, DeleteClose, DeleteRow, HumanResolve, BudgetSweep, callVars
<1>6. CASE SweepList \/ SweepClose \/ Settle
  BY <1>1, <1>6 DEF SweepList, SweepClose, Settle, callVars
<1> QED BY <1>2, <1>3, <1>4, <1>5, <1>6, ReceiveEarned DEF Next

\* Only an insert and a joining commit raise a count of open incidents.
LEMMA OpensEarned ==
  TypeOK /\ Earned /\ [Next]_vars => \A m \in Monitors : open'[m] > open[m] => failures >= Threshold
<1> SUFFICES ASSUME TypeOK, Earned, [Next]_vars, NEW m \in Monitors, open'[m] > open[m]
             PROVE  failures >= Threshold
  OBVIOUS
<1>1. ~UNCHANGED open BY DEF TypeOK
<1>2. \A n \in Monitors : ~CloseAll(n) BY DEF TypeOK, CloseAll
<1>3. ASSUME NEW h \in Handlers, OpenInsert(h) PROVE failures >= Threshold
  BY <1>3 DEF OpenInsert, Earned, Opening
<1>4. ASSUME NEW n \in Monitors, JoinCommit(n) PROVE failures >= Threshold
  <2>1. IF txn[n] = "open" THEN OpenOne(n) ELSE UNCHANGED open BY <1>4 DEF JoinCommit
  <2>2. txn[n] = "open" BY <1>1, <2>1
  <2> QED BY <2>2 DEF Earned
<1>5. ASSUME NEW h \in Handlers, SubmitStep(h) \/ CutOff(h) PROVE OpenInsert(h)
  BY <1>1, <1>2, <1>5, Zenon DEF SubmitStep, WriteFacts, ListOpen, OpenCheck, ListClose, CloseNext, CutOff,
                          TypeOK, Handler
<1>6. ASSUME NEW h \in Handlers, NEW outcome \in Outcome PROVE ~Receive(h, outcome)
  BY <1>1 DEF Receive
<1>7. ASSUME NEW n \in Monitors,
             \/ JoinBegin(n) \/ JoinCheck(n) \/ JoinFails(n) \/ Pause(n) \/ DeleteClose(n)
             \/ DeleteRow(n) \/ HumanResolve(n) \/ BudgetSweep(n)
      PROVE  FALSE
  BY <1>1, <1>2, <1>7 DEF JoinBegin, JoinCheck, JoinFails, Pause, DeleteClose, DeleteRow, HumanResolve, BudgetSweep
<1>8. ~SweepList /\ ~SweepClose /\ ~Settle /\ ~UNCHANGED vars
  BY <1>1, <1>2 DEF SweepList, SweepClose, Settle, vars, TypeOK
<1> QED BY <1>3, <1>4, <1>5, <1>6, <1>7, <1>8 DEF Next

\* The blip the threshold is there to ride out pages nobody: whatever calls,
\* joins, commands and failed statements interleave, an incident opens only after
\* Threshold failing results since the target was last surely up.
THEOREM EarnedAlarms == Spec => AlarmIsEarned
<1>1. Init => Earned BY InitEarned
<1>2. TypeOK /\ Earned /\ [Next]_vars => Earned' BY NextEarned
<1>3. TypeOK /\ Earned /\ [Next]_vars =>
        [\A m \in Monitors : open'[m] > open[m] => failures >= Threshold]_vars
  BY OpensEarned
<1> QED BY <1>1, <1>2, <1>3, TypeCorrect, PTL DEF Spec, AlarmIsEarned

-----------------------------------------------------------------------------
(* Heartbeats.                                                               *)

PingCall == [pc : {"idle", "read", "write", "look", "close", "due"}, interval : Cadences \cup {0}, seen : H!Facts]
SweepCall == [pc : {"idle", "write", "look", "insert", "due", "unlock"}, interval : Cadences \cup {0}, seen : H!Facts]
PatchCall == [pc : {"idle", "commit"}, paused : BOOLEAN, interval : Cadences \cup {0},
              wasPaused : BOOLEAN, old : Cadences \cup {0}]
Windowed == left \in Nat /\ \E i \in Cadences : left <= H!Window(i)

\* The rows of the heartbeat and the calls on it.
BeatTypes ==
  /\ beat \in H!Facts /\ beat.status \in {"nodata", "ok", "down"}
  /\ beatOpen \in Nat /\ met \in BOOLEAN /\ suffered \subseteq H!Kinds
  /\ ping \in [Pings -> PingCall] /\ sweep \in [Workers -> SweepCall] /\ patch \in [Patches -> PatchCall]
  /\ lock \in Workers \cup {NoSession, LostSession}
  /\ paused \in BOOLEAN /\ interval \in Cadences /\ beatFaults \in 0..MaxFaults
  /\ Windowed

\* A call knows the interval it will open the next window with.
Paced ==
  /\ \A p \in Pings : ping[p].pc # "idle" => ping[p].interval \in Cadences
  /\ \A w \in Workers : sweep[w].pc # "idle" => sweep[w].interval \in Cadences
  /\ \A q \in Patches : patch[q].pc # "idle" => patch[q].interval \in Cadences

\* Whoever sweeps holds the lock, and looked before it inserts.
Locked ==
  "unguarded" \notin suffered =>
    /\ beatOpen <= 1
    /\ \A w \in Workers : /\ sweep[w].pc # "idle" => lock = w
                          /\ sweep[w].pc = "insert" => beatOpen = 0

PingAt(kinds) == \E p \in Pings : ping[p].pc \in kinds
SweepAt(kinds) == \E w \in Workers : sweep[w].pc \in kinds
Down == beat.status = "down"

\* While nothing failed and nobody met: the incident follows the verdict, but for the
\* call that has written the one and not come to the other.
Followed ==
  ~met /\ suffered = {} =>
    /\ ~(PingAt({"write", "look", "close"}) /\ SweepAt({"write", "look", "insert"}))
    /\ PingAt({"look", "close"}) => ~Down
    /\ SweepAt({"look", "insert"}) => Down /\ beatOpen = 0
    /\ ~PingAt({"look", "close"}) /\ ~SweepAt({"look", "insert"}) => (beatOpen = 1 <=> Down)
    /\ \A p \in Pings : ping[p].pc = "write" /\ Down => ping[p].seen.status = "down"
    /\ \A w \in Workers : sweep[w].pc = "write" => sweep[w].seen.status = beat.status

BeatInv == BeatTypes /\ Paced /\ Locked /\ Followed

LEMMA BeatConstants ==
  /\ NoSession \notin Workers /\ LostSession \notin Workers /\ NoSession # LostSession
  /\ Cadences \subseteq Nat \ {0} /\ GraceCap \in Nat /\ MaxFaults \in Nat
BY BeatAssumption DEF H!HeartbeatAssumption

LEMMA Windows ==
  ASSUME NEW i \in Cadences
  PROVE  /\ H!Window(i) \in Nat /\ i <= H!Window(i) /\ i \in Nat
         /\ \E j \in Cadences : H!Window(i) <= H!Window(j)
         /\ \E j \in Cadences : i <= H!Window(j)
<1>1. i \in Nat /\ GraceCap \in Nat
  BY BeatConstants
<1>2. H!Grace(i) \in Nat
  BY <1>1 DEF H!Grace
<1>3. H!Window(i) = i + H!Grace(i)
  BY DEF H!Window
<1> QED BY <1>1, <1>2, <1>3

\* What a ping or a miss makes of a row.
LEMMA Verdicts ==
  ASSUME NEW s \in H!Facts
  PROVE  /\ H!Process(s, "ok") \in H!Facts /\ H!Process(s, "ok").status = "ok"
         /\ H!Closes(s, "ok") <=> s.status = "down"
         /\ H!Opens(s, "fail") <=> s.status # "down"
         /\ H!Saturate(H!Process([s EXCEPT !.unmeasured = 0], "fail")) \in H!Facts
         /\ H!Saturate(H!Process([s EXCEPT !.unmeasured = 0], "fail")).status = "down"
<1>1. s.status \in H!Status /\ s.fails \in Nat /\ s.unmeasured \in Nat
  BY DEF H!Facts
<1>2. H!Process(s, "ok") = [status |-> "ok", fails |-> 0, unmeasured |-> 0]
  BY DEF H!Process, H!ProcessOK
<1>3. s.fails + 1 >= 1
  BY <1>1
<1>4. PICK t \in H!Facts : t = [s EXCEPT !.unmeasured = 0] /\ t.fails = s.fails
  <2>1. [s EXCEPT !.unmeasured = 0] \in H!Facts /\ [s EXCEPT !.unmeasured = 0].fails = s.fails
    BY <1>1 DEF H!Facts
  <2> QED BY <2>1
<1>5. H!Process(t, "fail") = H!ProcessFail(t)
  BY DEF H!Process
<1>6. H!ProcessFail(t) = [status |-> "down", fails |-> s.fails + 1, unmeasured |-> 0]
  BY <1>3, <1>4 DEF H!ProcessFail
<1>7. PICK u \in H!Facts : u = H!ProcessFail(t) /\ u.status = "down"
  BY <1>1, <1>6 DEF H!Facts, H!Status
<1>8. H!Saturate(u) \in H!Facts /\ H!Saturate(u).status = "down"
  <2>1. PICK n \in Nat : n = IF u.fails > 1 THEN 1 ELSE u.fails
    BY <1>7 DEF H!Facts
  <2>2. H!Saturate(u) = [u EXCEPT !.fails = n]
    BY <2>1 DEF H!Saturate
  <2> QED BY <1>7, <2>1, <2>2 DEF H!Facts
<1>9. H!Process(s, "ok") \in H!Facts /\ H!Process(s, "ok").status = "ok"
  BY <1>2 DEF H!Facts, H!Status
<1> QED BY <1>1, <1>3, <1>4, <1>5, <1>7, <1>8, <1>9 DEF H!Closes, H!Opens

\* A step of one ping leaves the sweep alone, and opens nothing.
LEMMA PingFrame ==
  ASSUME BeatInv, NEW p \in Pings, NEW x \in PingCall, ping' = [ping EXCEPT ![p] = x],
         x.pc # "idle" => x.interval \in Cadences,
         UNCHANGED <<interval, paused, sweep, lock, patch>>, H!Meet,
         beat' \in H!Facts, beat'.status \in {"nodata", "ok", "down"}, beatOpen' \in {beatOpen, 0}, Windowed',
         suffered \subseteq suffered', suffered' \subseteq H!Kinds, beatFaults' \in 0..MaxFaults
  PROVE  /\ BeatTypes' /\ Paced' /\ Locked'
         /\ ping'[p] = x /\ \A q \in Pings \ {p} : ping'[q] = ping[q]
         /\ ~met' => ~met /\ ~(PingAt({"write", "look", "close"})' /\ SweepAt({"write", "look", "insert"})')
<1>1. ping' \in [Pings -> PingCall] /\ ping'[p] = x /\ \A q \in Pings \ {p} : ping'[q] = ping[q]
  BY DEF BeatInv, BeatTypes
<1>2. met' \in BOOLEAN /\ (~met' => ~met /\ ~(PingAt({"write", "look", "close"})' /\ SweepAt({"write", "look", "insert"})'))
  BY DEF H!Meet, H!PingHolds, H!SweepHolds, PingAt, SweepAt, BeatInv, BeatTypes
<1>3. BeatTypes'
  BY <1>1, <1>2 DEF BeatInv, BeatTypes
<1>4. Paced'
  BY <1>1 DEF BeatInv, Paced
<1>5. Locked'
  BY DEF BeatInv, Locked
<1> QED BY <1>1, <1>2, <1>3, <1>4, <1>5

LEMMA ReceiveStep ==
  ASSUME BeatInv, NEW p \in Pings, H!Receive(p)
  PROVE  BeatInv'
<1> DEFINE x == [H!NoPing EXCEPT !.pc = "read", !.interval = interval]
<1>1. x \in PingCall /\ x.pc = "read" /\ x.interval = interval
  BY DEF H!NoPing, H!NoFacts, H!Facts, H!Status, PingCall, BeatInv, BeatTypes
<1>2. /\ ping' = [ping EXCEPT ![p] = x] /\ H!Meet
      /\ UNCHANGED <<beat, left, interval, paused, beatOpen, sweep, lock, patch, suffered, beatFaults>>
  BY DEF H!Receive, H!row, H!Well
<1> HIDE DEF x
<1>3. /\ BeatTypes' /\ Paced' /\ Locked' /\ ping'[p] = x /\ \A q \in Pings \ {p} : ping'[q] = ping[q]
      /\ ~met' => ~met /\ ~(PingAt({"write", "look", "close"})' /\ SweepAt({"write", "look", "insert"})')
  BY <1>1, <1>2, PingFrame DEF BeatInv, BeatTypes, Windowed
<1>4. ping[p].pc = "idle"
  BY DEF H!Receive
<1>5. Followed'
  BY <1>1, <1>2, <1>3, <1>4 DEF BeatInv, Followed, PingAt, SweepAt, Down
<1> QED BY <1>3, <1>5 DEF BeatInv

LEMMA PingReadsStep ==
  ASSUME BeatInv, NEW p \in Pings, H!PingReads(p)
  PROVE  BeatInv'
<1> DEFINE x == [ping[p] EXCEPT !.pc = "write", !.seen = beat]
<1>1. ping[p] \in PingCall /\ ping[p].pc = "read" /\ ping[p].interval \in Cadences /\ beat \in H!Facts
  BY DEF H!PingReads, BeatInv, BeatTypes, Paced
<1>2. x \in PingCall /\ x.pc = "write" /\ x.interval = ping[p].interval /\ x.seen = beat
  BY <1>1 DEF PingCall
<1>3. /\ ping' = [ping EXCEPT ![p] = x] /\ H!Meet
      /\ UNCHANGED <<beat, left, interval, paused, beatOpen, sweep, lock, patch, suffered, beatFaults>>
  BY DEF H!PingReads, H!row, H!Well, H!Beheld
<1> HIDE DEF x
<1>4. /\ BeatTypes' /\ Paced' /\ Locked' /\ ping'[p] = x /\ \A q \in Pings \ {p} : ping'[q] = ping[q]
      /\ ~met' => ~met /\ ~(PingAt({"write", "look", "close"})' /\ SweepAt({"write", "look", "insert"})')
  BY <1>1, <1>2, <1>3, PingFrame, Zenon DEF BeatInv, BeatTypes, Windowed
<1>5. Followed'
  BY <1>1, <1>2, <1>3, <1>4 DEF BeatInv, Followed, PingAt, SweepAt, Down
<1> QED BY <1>4, <1>5 DEF BeatInv

LEMMA PingWritesStep ==
  ASSUME BeatInv, NEW p \in Pings, H!PingWrites(p)
  PROVE  BeatInv'
<1>1. ping[p] \in PingCall /\ ping[p].pc = "write" /\ ping[p].interval \in Cadences /\ ping[p].seen \in H!Facts
  BY DEF H!PingWrites, BeatInv, BeatTypes, Paced, PingCall
<1>2. H!NoFacts \in H!Facts
  BY DEF H!NoFacts, H!Facts, H!Status
<1>3. PICK next \in {"look", "due"} : next = IF H!Closes(ping[p].seen, "ok") THEN "look" ELSE "due"
  OBVIOUS
<1> DEFINE x == [ping[p] EXCEPT !.seen = H!NoFacts, !.pc = next]
<1>4. x \in PingCall /\ x.pc = next /\ x.interval = ping[p].interval
  BY <1>1, <1>2 DEF PingCall
<1>5. /\ ping' = [ping EXCEPT ![p] = x] /\ H!Meet /\ beat' = H!Process(ping[p].seen, "ok")
      /\ UNCHANGED <<left, interval, paused, beatOpen, sweep, lock, patch, suffered, beatFaults>>
  BY <1>3 DEF H!PingWrites, H!Well
<1> HIDE DEF x
<1>6. beat' \in H!Facts /\ beat'.status = "ok" /\ (next = "look" <=> ping[p].seen.status = "down")
  BY <1>1, <1>3, <1>5, Verdicts
<1>7. /\ BeatTypes' /\ Paced' /\ Locked' /\ ping'[p] = x /\ \A q \in Pings \ {p} : ping'[q] = ping[q]
      /\ ~met' => ~met /\ ~(PingAt({"write", "look", "close"})' /\ SweepAt({"write", "look", "insert"})')
  BY <1>1, <1>4, <1>5, <1>6, PingFrame DEF BeatInv, BeatTypes, Windowed
<1>8. Followed'
  <2> SUFFICES ASSUME ~met', suffered' = {}
               PROVE  /\ ~(PingAt({"write", "look", "close"})' /\ SweepAt({"write", "look", "insert"})')
                      /\ PingAt({"look", "close"})' => ~Down'
                      /\ SweepAt({"look", "insert"})' => Down' /\ beatOpen' = 0
                      /\ ~PingAt({"look", "close"})' /\ ~SweepAt({"look", "insert"})' => (beatOpen' = 1 <=> Down')
                      /\ \A q \in Pings : ping'[q].pc = "write" /\ Down' => ping'[q].seen.status = "down"
                      /\ \A w \in Workers : sweep'[w].pc = "write" => sweep'[w].seen.status = beat'.status
    BY DEF Followed
  <2>1. ~SweepAt({"write", "look", "insert"}) /\ (Down => ping[p].seen.status = "down")
        /\ (~PingAt({"look", "close"}) => (beatOpen = 1 <=> Down))
    BY <1>1, <1>5, <1>7 DEF BeatInv, Followed, PingAt, SweepAt
  <2>2. ~Down' /\ ~SweepAt({"write", "look", "insert"})'
    BY <1>5, <1>6, <2>1 DEF Down, SweepAt
  <2>3. ~PingAt({"look", "close"})' => next = "due" /\ ~PingAt({"look", "close"})
    BY <1>1, <1>3, <1>4, <1>7 DEF PingAt
  <2> QED BY <1>5, <1>6, <1>7, <2>1, <2>2, <2>3 DEF SweepAt, Down
<1> QED BY <1>7, <1>8 DEF BeatInv

LEMMA PingLooksStep ==
  ASSUME BeatInv, NEW p \in Pings, H!PingLooks(p)
  PROVE  BeatInv'
<1>1. ping[p] \in PingCall /\ ping[p].pc = "look" /\ ping[p].interval \in Cadences
  BY DEF H!PingLooks, BeatInv, BeatTypes, Paced
<1>2. PICK next \in {"due", "close"} : next = IF beatOpen = 0 THEN "due" ELSE "close"
  OBVIOUS
<1> DEFINE x == [ping[p] EXCEPT !.pc = next]
<1>3. x \in PingCall /\ x.pc = next /\ x.interval = ping[p].interval
  BY <1>1, <1>2 DEF PingCall
<1>4. /\ ping' = [ping EXCEPT ![p] = x] /\ H!Meet
      /\ UNCHANGED <<beat, left, interval, paused, beatOpen, sweep, lock, patch, suffered, beatFaults>>
  BY <1>2 DEF H!PingLooks, H!PingAt, H!row, H!Well
<1> HIDE DEF x
<1>5. /\ BeatTypes' /\ Paced' /\ Locked' /\ ping'[p] = x /\ \A q \in Pings \ {p} : ping'[q] = ping[q]
      /\ ~met' => ~met /\ ~(PingAt({"write", "look", "close"})' /\ SweepAt({"write", "look", "insert"})')
  BY <1>1, <1>3, <1>4, PingFrame DEF BeatInv, BeatTypes, Windowed
<1>6. Followed'
  BY <1>1, <1>2, <1>3, <1>4, <1>5 DEF BeatInv, Followed, PingAt, SweepAt, Down
<1> QED BY <1>5, <1>6 DEF BeatInv

LEMMA PingClosesStep ==
  ASSUME BeatInv, NEW p \in Pings, H!PingCloses(p)
  PROVE  BeatInv'
<1>1. ping[p] \in PingCall /\ ping[p].pc = "close" /\ ping[p].interval \in Cadences
  BY DEF H!PingCloses, BeatInv, BeatTypes, Paced
<1> DEFINE x == [ping[p] EXCEPT !.pc = "due"]
<1>2. x \in PingCall /\ x.pc = "due" /\ x.interval = ping[p].interval
  BY <1>1 DEF PingCall
<1>3. /\ ping' = [ping EXCEPT ![p] = x] /\ H!Meet /\ beatOpen' = 0
      /\ UNCHANGED <<beat, left, interval, paused, sweep, lock, patch, suffered, beatFaults>>
  BY DEF H!PingCloses, H!PingAt, H!Well
<1> HIDE DEF x
<1>4. /\ BeatTypes' /\ Paced' /\ Locked' /\ ping'[p] = x /\ \A q \in Pings \ {p} : ping'[q] = ping[q]
      /\ ~met' => ~met /\ ~(PingAt({"write", "look", "close"})' /\ SweepAt({"write", "look", "insert"})')
  BY <1>1, <1>2, <1>3, PingFrame DEF BeatInv, BeatTypes, Windowed
<1>5. Followed'
  BY <1>1, <1>2, <1>3, <1>4 DEF BeatInv, Followed, PingAt, SweepAt, Down
<1> QED BY <1>4, <1>5 DEF BeatInv

LEMMA NoPingFine == H!NoPing \in PingCall /\ H!NoPing.pc = "idle"
BY DEF H!NoPing, H!NoFacts, H!Facts, H!Status, PingCall

LEMMA PingDueStep ==
  ASSUME BeatInv, NEW p \in Pings, H!PingDue(p)
  PROVE  BeatInv'
<1>1. ping[p].pc = "due" /\ ping[p].interval \in Cadences
  BY DEF H!PingDue, BeatInv, Paced
<1>2. PICK x \in PingCall : x = H!NoPing /\ x.pc = "idle"
  BY NoPingFine
<1>3. /\ ping' = [ping EXCEPT ![p] = x] /\ H!Meet /\ left' = H!Window(ping[p].interval)
      /\ UNCHANGED <<beat, interval, paused, beatOpen, sweep, lock, patch, suffered, beatFaults>>
  BY <1>2 DEF H!PingDue, H!Well
<1>4. PICK n : n = H!Window(ping[p].interval)
  OBVIOUS
<1>5. n \in Nat /\ \E j \in Cadences : n <= H!Window(j)
  BY <1>1, <1>4, Windows
<1>6. Windowed'
  BY <1>3, <1>4, <1>5 DEF Windowed, H!Window, H!Grace
<1>7. /\ BeatTypes' /\ Paced' /\ Locked' /\ ping'[p] = x /\ \A q \in Pings \ {p} : ping'[q] = ping[q]
      /\ ~met' => ~met /\ ~(PingAt({"write", "look", "close"})' /\ SweepAt({"write", "look", "insert"})')
  BY <1>2, <1>3, <1>6, PingFrame DEF BeatInv, BeatTypes
<1>8. Followed'
  BY <1>1, <1>2, <1>3, <1>7 DEF BeatInv, Followed, PingAt, SweepAt, Down
<1> QED BY <1>7, <1>8 DEF BeatInv

\* A ping that fails or is cut off.
LEMMA PingLost ==
  ASSUME BeatInv, NEW p \in Pings, H!PingFails(p) \/ H!PingCut(p)
  PROVE  BeatInv'
<1>1. ping[p] \in PingCall /\ (ping[p].pc # "idle" => ping[p].interval \in Cadences) /\ ping[p].pc # "idle"
  BY DEF H!PingFails, H!PingCut, BeatInv, BeatTypes, Paced
<1>2. [ping[p] EXCEPT !.pc = "due"] \in PingCall /\ [ping[p] EXCEPT !.pc = "due"].interval = ping[p].interval
  BY <1>1 DEF PingCall
<1>3. PICK x \in PingCall : ping' = [ping EXCEPT ![p] = x] /\ (x.pc # "idle" => x.interval \in Cadences)
  <2>1. CASE ping' = [ping EXCEPT ![p] = H!NoPing]
    BY <2>1, NoPingFine
  <2>2. CASE ping' = [ping EXCEPT ![p].pc = "due"]
    <3>1. ping' = [ping EXCEPT ![p] = [ping[p] EXCEPT !.pc = "due"]]
      BY <2>2
    <3> QED BY <1>1, <1>2, <3>1
  <2> QED BY <2>1, <2>2 DEF H!PingFails, H!PingCut
<1>4. /\ H!Meet /\ suffered' = suffered \cup {"lost"} /\ beatFaults' = beatFaults + 1 /\ beatFaults < MaxFaults
      /\ UNCHANGED <<beat, left, interval, paused, beatOpen, sweep, lock, patch>>
  BY DEF H!PingFails, H!PingCut, H!Fails, H!row
<1>5. suffered' \subseteq H!Kinds /\ suffered \subseteq suffered' /\ suffered' # {} /\ beatFaults' \in 0..MaxFaults
  BY <1>4, BeatConstants DEF H!Kinds, BeatInv, BeatTypes
<1>6. BeatTypes' /\ Paced' /\ Locked'
  BY <1>3, <1>4, <1>5, PingFrame DEF BeatInv, BeatTypes, Windowed
<1>7. Followed'
  BY <1>5 DEF Followed
<1> QED BY <1>6, <1>7 DEF BeatInv

\* A step of the sweep leaves the pings alone.
LEMMA SweepFrame ==
  ASSUME BeatInv, NEW w \in Workers, NEW x \in SweepCall, sweep' = [sweep EXCEPT ![w] = x],
         x.pc # "idle" => x.interval \in Cadences,
         UNCHANGED <<interval, paused, ping, patch>>, H!Meet,
         beat' \in H!Facts, beat'.status \in {"nodata", "ok", "down"}, beatOpen' \in Nat, Windowed',
         lock' \in Workers \cup {NoSession, LostSession},
         suffered' \subseteq H!Kinds, beatFaults' \in 0..MaxFaults
  PROVE  /\ BeatTypes' /\ Paced'
         /\ sweep'[w] = x /\ \A v \in Workers \ {w} : sweep'[v] = sweep[v]
         /\ ~met' => ~met /\ ~(PingAt({"write", "look", "close"})' /\ SweepAt({"write", "look", "insert"})')
<1>1. sweep' \in [Workers -> SweepCall] /\ sweep'[w] = x /\ \A v \in Workers \ {w} : sweep'[v] = sweep[v]
  BY DEF BeatInv, BeatTypes
<1>2. met' \in BOOLEAN /\ (~met' => ~met /\ ~(PingAt({"write", "look", "close"})' /\ SweepAt({"write", "look", "insert"})'))
  BY DEF H!Meet, H!PingHolds, H!SweepHolds, PingAt, SweepAt, BeatInv, BeatTypes
<1>3. BeatTypes'
  BY <1>1, <1>2 DEF BeatInv, BeatTypes
<1>4. Paced'
  BY <1>1 DEF BeatInv, Paced
<1> QED BY <1>1, <1>2, <1>3, <1>4

\* The lock leaves one sweep at a time.
LEMMA OneSweep ==
  ASSUME BeatInv, "unguarded" \notin suffered, NEW w \in Workers, sweep[w].pc # "idle"
  PROVE  lock = w /\ \A v \in Workers \ {w} : sweep[v].pc = "idle"
BY DEF BeatInv, Locked

LEMMA TickStep ==
  ASSUME BeatInv, NEW w \in Workers, H!Tick(w)
  PROVE  BeatInv'
<1> DEFINE x == [pc |-> "write", interval |-> interval, seen |-> beat]
<1>1. x \in SweepCall /\ x.pc = "write" /\ x.interval \in Cadences /\ x.seen = beat
  BY DEF SweepCall, BeatInv, BeatTypes
<1>2. /\ sweep' = [sweep EXCEPT ![w] = x] /\ H!Meet /\ lock' = w /\ lock = NoSession
      /\ UNCHANGED <<beat, left, interval, paused, beatOpen, ping, patch, suffered, beatFaults>>
  BY DEF H!Tick, H!MayRun, H!row, H!Well
<1> HIDE DEF x
<1>3. /\ BeatTypes' /\ Paced' /\ sweep'[w] = x /\ \A v \in Workers \ {w} : sweep'[v] = sweep[v]
      /\ ~met' => ~met /\ ~(PingAt({"write", "look", "close"})' /\ SweepAt({"write", "look", "insert"})')
  BY <1>1, <1>2, SweepFrame DEF BeatInv, BeatTypes, Windowed
<1>4. "unguarded" \notin suffered => \A v \in Workers : sweep[v].pc = "idle"
  BY <1>2, BeatConstants DEF BeatInv, Locked
<1>5. Locked'
  BY <1>1, <1>2, <1>3, <1>4 DEF BeatInv, Locked
<1>6. Followed'
  BY <1>1, <1>2, <1>3, <1>4 DEF BeatInv, Followed, PingAt, SweepAt, Down
<1> QED BY <1>3, <1>5, <1>6 DEF BeatInv

LEMMA SweepWritesStep ==
  ASSUME BeatInv, NEW w \in Workers, H!SweepWrites(w)
  PROVE  BeatInv'
<1>1. sweep[w] \in SweepCall /\ sweep[w].pc = "write" /\ sweep[w].interval \in Cadences /\ sweep[w].seen \in H!Facts
  BY DEF H!SweepWrites, BeatInv, BeatTypes, Paced, SweepCall
<1>2. H!NoFacts \in H!Facts
  BY DEF H!NoFacts, H!Facts, H!Status
<1>3. PICK next \in {"look", "due"} : next = IF H!Opens(sweep[w].seen, "fail") THEN "look" ELSE "due"
  OBVIOUS
<1> DEFINE x == [sweep[w] EXCEPT !.seen = H!NoFacts, !.pc = next]
<1>4. x \in SweepCall /\ x.pc = next /\ x.interval = sweep[w].interval
  BY <1>1, <1>2 DEF SweepCall
<1>5. /\ sweep' = [sweep EXCEPT ![w] = x] /\ H!Meet
      /\ beat' = H!Saturate(H!Process([sweep[w].seen EXCEPT !.unmeasured = 0], "fail"))
      /\ UNCHANGED <<left, interval, paused, beatOpen, ping, lock, patch, suffered, beatFaults>>
  BY <1>3 DEF H!SweepWrites, H!Well
<1> HIDE DEF x
<1>6. beat' \in H!Facts /\ beat'.status = "down" /\ (next = "look" <=> sweep[w].seen.status # "down")
  BY <1>1, <1>3, <1>5, Verdicts
<1>7. /\ BeatTypes' /\ Paced' /\ sweep'[w] = x /\ \A v \in Workers \ {w} : sweep'[v] = sweep[v]
      /\ ~met' => ~met /\ ~(PingAt({"write", "look", "close"})' /\ SweepAt({"write", "look", "insert"})')
  BY <1>1, <1>4, <1>5, <1>6, SweepFrame DEF BeatInv, BeatTypes, Windowed
<1>8. Locked'
  BY <1>1, <1>3, <1>4, <1>5, <1>7 DEF BeatInv, Locked
<1>9. Followed'
  <2> SUFFICES ASSUME ~met', suffered' = {}
               PROVE  /\ ~(PingAt({"write", "look", "close"})' /\ SweepAt({"write", "look", "insert"})')
                      /\ PingAt({"look", "close"})' => ~Down'
                      /\ SweepAt({"look", "insert"})' => Down' /\ beatOpen' = 0
                      /\ ~PingAt({"look", "close"})' /\ ~SweepAt({"look", "insert"})' => (beatOpen' = 1 <=> Down')
                      /\ \A q \in Pings : ping'[q].pc = "write" /\ Down' => ping'[q].seen.status = "down"
                      /\ \A v \in Workers : sweep'[v].pc = "write" => sweep'[v].seen.status = beat'.status
    BY DEF Followed
  <2>1. \A v \in Workers \ {w} : sweep[v].pc = "idle"
    BY <1>1, <1>5, OneSweep
  <2>2. SweepAt({"write", "look", "insert"}) /\ ~SweepAt({"look", "insert"})
    BY <1>1, <2>1 DEF SweepAt
  <2>3. ~PingAt({"write", "look", "close"}) /\ ~PingAt({"look", "close"})
        /\ (beatOpen = 1 <=> Down) /\ sweep[w].seen.status = beat.status
    BY <1>1, <1>5, <1>7, <2>2 DEF BeatInv, Followed, PingAt
  <2>4. ~PingAt({"write", "look", "close"})' /\ ~PingAt({"look", "close"})' /\ Down'
    BY <1>5, <1>6, <2>3 DEF PingAt, Down
  <2>5. beatOpen' \in {0, 1} /\ (SweepAt({"look", "insert"})' <=> next = "look")
    <3>1. beatOpen \in {0, 1}
      BY <1>5 DEF BeatInv, BeatTypes, Locked
    <3> QED BY <1>3, <1>4, <1>5, <1>7, <2>1, <3>1 DEF SweepAt
  <2>6. next = "look" <=> beatOpen' = 0
    BY <1>5, <1>6, <2>3, <2>5 DEF Down
  <2>7. \A v \in Workers : sweep'[v].pc # "write"
    BY <1>3, <1>4, <1>7, <2>1
  <2>8. \A q \in Pings : ping'[q].pc # "write"
    BY <2>4 DEF PingAt
  <2> QED BY <1>3, <2>4, <2>5, <2>6, <2>7, <2>8
<1> QED BY <1>7, <1>8, <1>9 DEF BeatInv

LEMMA SweepLooksStep ==
  ASSUME BeatInv, NEW w \in Workers, H!SweepLooks(w)
  PROVE  BeatInv'
<1>1. sweep[w] \in SweepCall /\ sweep[w].pc = "look" /\ sweep[w].interval \in Cadences
  BY DEF H!SweepLooks, BeatInv, BeatTypes, Paced
<1>2. PICK next \in {"due", "insert"} : next = IF beatOpen > 0 THEN "due" ELSE "insert"
  OBVIOUS
<1> DEFINE x == [sweep[w] EXCEPT !.pc = next]
<1>3. x \in SweepCall /\ x.pc = next /\ x.interval = sweep[w].interval
  BY <1>1, <1>2 DEF SweepCall
<1>4. /\ sweep' = [sweep EXCEPT ![w] = x] /\ H!Meet
      /\ UNCHANGED <<beat, left, interval, paused, beatOpen, ping, lock, patch, suffered, beatFaults>>
  BY <1>2 DEF H!SweepLooks, H!SweepAt, H!row, H!Well
<1> HIDE DEF x
<1>5. /\ BeatTypes' /\ Paced' /\ sweep'[w] = x /\ \A v \in Workers \ {w} : sweep'[v] = sweep[v]
      /\ ~met' => ~met /\ ~(PingAt({"write", "look", "close"})' /\ SweepAt({"write", "look", "insert"})')
  BY <1>1, <1>3, <1>4, SweepFrame DEF BeatInv, BeatTypes, Windowed
<1>6. next = "insert" <=> beatOpen = 0
  BY <1>2 DEF BeatInv, BeatTypes
<1>7. Locked'
  BY <1>1, <1>3, <1>4, <1>5, <1>6 DEF BeatInv, Locked
<1>8. Followed'
  BY <1>1, <1>2, <1>3, <1>4, <1>5, <1>6 DEF BeatInv, Followed, PingAt, SweepAt, Down
<1> QED BY <1>5, <1>7, <1>8 DEF BeatInv

LEMMA SweepOpensStep ==
  ASSUME BeatInv, NEW w \in Workers, H!SweepOpens(w)
  PROVE  BeatInv'
<1>1. sweep[w] \in SweepCall /\ sweep[w].pc = "insert" /\ sweep[w].interval \in Cadences
  BY DEF H!SweepOpens, BeatInv, BeatTypes, Paced
<1> DEFINE x == [sweep[w] EXCEPT !.pc = "due"]
<1>2. x \in SweepCall /\ x.pc = "due" /\ x.interval = sweep[w].interval
  BY <1>1 DEF SweepCall
<1>3. /\ sweep' = [sweep EXCEPT ![w] = x] /\ H!Meet /\ beatOpen' = beatOpen + 1
      /\ UNCHANGED <<beat, left, interval, paused, ping, lock, patch, suffered, beatFaults>>
  BY DEF H!SweepOpens, H!SweepAt, H!Well
<1> HIDE DEF x
<1>8. beatOpen' \in Nat /\ Windowed' /\ suffered' \subseteq H!Kinds /\ beatFaults' \in 0..MaxFaults
  BY <1>3 DEF BeatInv, BeatTypes, Windowed
<1>4. /\ BeatTypes' /\ Paced' /\ sweep'[w] = x /\ \A v \in Workers \ {w} : sweep'[v] = sweep[v]
      /\ ~met' => ~met /\ ~(PingAt({"write", "look", "close"})' /\ SweepAt({"write", "look", "insert"})')
  BY <1>1, <1>2, <1>3, <1>8, SweepFrame DEF BeatInv, BeatTypes
<1>5. "unguarded" \notin suffered => beatOpen = 0 /\ \A v \in Workers \ {w} : sweep[v].pc = "idle"
  BY <1>1, OneSweep DEF BeatInv, Locked
<1>6. Locked'
  BY <1>1, <1>2, <1>3, <1>4, <1>5 DEF BeatInv, Locked
<1>7. Followed'
  BY <1>1, <1>2, <1>3, <1>4, <1>5 DEF BeatInv, Followed, PingAt, SweepAt, Down
<1> QED BY <1>4, <1>6, <1>7 DEF BeatInv

LEMMA SweepDueStep ==
  ASSUME BeatInv, NEW w \in Workers, H!SweepDue(w)
  PROVE  BeatInv'
<1>1. sweep[w] \in SweepCall /\ sweep[w].pc = "due" /\ sweep[w].interval \in Cadences
  BY DEF H!SweepDue, BeatInv, BeatTypes, Paced
<1> DEFINE x == [sweep[w] EXCEPT !.pc = "unlock"]
<1>2. x \in SweepCall /\ x.pc = "unlock" /\ x.interval = sweep[w].interval
  BY <1>1 DEF SweepCall
<1>3. /\ sweep' = [sweep EXCEPT ![w] = x] /\ H!Meet /\ left' = sweep[w].interval
      /\ UNCHANGED <<beat, interval, paused, beatOpen, ping, lock, patch, suffered, beatFaults>>
  BY DEF H!SweepDue, H!SweepAt, H!Well
<1> HIDE DEF x
<1>4. PICK n : n = sweep[w].interval
  OBVIOUS
<1>5. n \in Nat /\ \E j \in Cadences : n <= H!Window(j)
  BY <1>1, <1>4, Windows
<1>6. Windowed'
  BY <1>3, <1>4, <1>5 DEF Windowed, H!Window, H!Grace
<1>7. /\ BeatTypes' /\ Paced' /\ sweep'[w] = x /\ \A v \in Workers \ {w} : sweep'[v] = sweep[v]
      /\ ~met' => ~met /\ ~(PingAt({"write", "look", "close"})' /\ SweepAt({"write", "look", "insert"})')
  BY <1>1, <1>2, <1>3, <1>6, SweepFrame DEF BeatInv, BeatTypes
<1>8. Locked'
  BY <1>1, <1>2, <1>3, <1>7 DEF BeatInv, Locked
<1>9. Followed'
  BY <1>1, <1>2, <1>3, <1>7 DEF BeatInv, Followed, PingAt, SweepAt, Down
<1> QED BY <1>7, <1>8, <1>9 DEF BeatInv

LEMMA NoSweepFine == H!NoSweep \in SweepCall /\ H!NoSweep.pc = "idle"
BY DEF H!NoSweep, H!NoFacts, H!Facts, H!Status, SweepCall

LEMMA UnlockStep ==
  ASSUME BeatInv, NEW w \in Workers, H!Unlock(w)
  PROVE  BeatInv'
<1>1. sweep[w].pc = "unlock"
  BY DEF H!Unlock
<1>2. PICK x \in SweepCall : x = H!NoSweep /\ x.pc = "idle"
  BY NoSweepFine
<1>3. /\ sweep' = [sweep EXCEPT ![w] = x] /\ H!Meet /\ lock' = IF lock = w THEN NoSession ELSE lock
      /\ UNCHANGED <<beat, left, interval, paused, beatOpen, ping, patch, suffered, beatFaults>>
  BY <1>2 DEF H!Unlock, H!Unlocked, H!row, H!Well
<1>8. lock' \in Workers \cup {NoSession, LostSession}
  BY <1>3 DEF BeatInv, BeatTypes
<1>9. Windowed' /\ suffered' \subseteq H!Kinds /\ beatFaults' \in 0..MaxFaults
  BY <1>3 DEF BeatInv, BeatTypes, Windowed
<1>4. /\ BeatTypes' /\ Paced' /\ sweep'[w] = x /\ \A v \in Workers \ {w} : sweep'[v] = sweep[v]
      /\ ~met' => ~met /\ ~(PingAt({"write", "look", "close"})' /\ SweepAt({"write", "look", "insert"})')
  BY <1>2, <1>3, <1>8, <1>9, SweepFrame DEF BeatInv, BeatTypes
<1>5. "unguarded" \notin suffered => \A v \in Workers \ {w} : sweep[v].pc = "idle"
  BY <1>1, OneSweep
<1>6. Locked'
  BY <1>2, <1>3, <1>4, <1>5 DEF BeatInv, Locked
<1>7. Followed'
  BY <1>1, <1>2, <1>3, <1>4, <1>5 DEF BeatInv, Followed, PingAt, SweepAt, Down
<1> QED BY <1>4, <1>6, <1>7 DEF BeatInv

LEMMA SweepFailsStep ==
  ASSUME BeatInv, NEW w \in Workers, H!SweepFails(w)
  PROVE  BeatInv'
<1>1. sweep[w] \in SweepCall /\ sweep[w].pc \in {"write", "look", "insert", "due"} /\ sweep[w].interval \in Cadences
  BY DEF H!SweepFails, BeatInv, BeatTypes, Paced
<1>2. PICK next \in {"insert", "due", "unlock"} :
         /\ sweep' = [sweep EXCEPT ![w].pc = next] /\ (next = "insert" => sweep[w].pc = "look")
  BY <1>1 DEF H!SweepFails, H!SweepAt
<1> DEFINE x == [sweep[w] EXCEPT !.pc = next]
<1>3. x \in SweepCall /\ x.pc = next /\ x.interval = sweep[w].interval
  BY <1>1, <1>2 DEF SweepCall
<1>4. sweep' = [sweep EXCEPT ![w] = x]
  BY <1>2
<1> HIDE DEF x
<1>5. PICK kind \in H!Kinds : suffered' = suffered \cup {kind} /\ (sweep[w].pc = "look" => kind = "unguarded")
  BY DEF H!SweepFails, H!Fails, H!Kinds
<1>6. /\ H!Meet /\ beatFaults' = beatFaults + 1 /\ beatFaults < MaxFaults
      /\ UNCHANGED <<beat, left, interval, paused, beatOpen, ping, lock, patch>>
  BY DEF H!SweepFails, H!Fails, H!row
<1>7. suffered' \subseteq H!Kinds /\ suffered \subseteq suffered' /\ suffered' # {} /\ beatFaults' \in 0..MaxFaults
  BY <1>5, <1>6, BeatConstants DEF BeatInv, BeatTypes
<1>8. BeatTypes' /\ Paced' /\ sweep'[w] = x /\ \A v \in Workers \ {w} : sweep'[v] = sweep[v]
  BY <1>1, <1>3, <1>4, <1>6, <1>7, SweepFrame DEF BeatInv, BeatTypes, Windowed
<1>9. Locked'
  BY <1>1, <1>2, <1>3, <1>5, <1>6, <1>7, <1>8 DEF BeatInv, Locked
<1>10. Followed'
  BY <1>7 DEF Followed
<1> QED BY <1>8, <1>9, <1>10 DEF BeatInv

LEMMA WorkerDiesStep ==
  ASSUME BeatInv, NEW w \in Workers, H!WorkerDies(w)
  PROVE  BeatInv'
<1>1. PICK x \in SweepCall : x = H!NoSweep /\ x.pc = "idle"
  BY NoSweepFine
<1>2. /\ sweep' = [sweep EXCEPT ![w] = x] /\ H!Meet /\ lock' = IF lock = w THEN LostSession ELSE lock
      /\ UNCHANGED <<beat, left, interval, paused, beatOpen, ping, patch>>
      /\ suffered' = suffered \cup {"lost"} /\ beatFaults' = beatFaults + 1 /\ beatFaults < MaxFaults
  BY <1>1 DEF H!WorkerDies, H!Fails, H!row
<1>3. suffered' \subseteq H!Kinds /\ suffered \subseteq suffered' /\ suffered' # {} /\ beatFaults' \in 0..MaxFaults
  BY <1>2, BeatConstants DEF H!Kinds, BeatInv, BeatTypes
<1>4. BeatTypes' /\ Paced' /\ sweep'[w] = x /\ \A v \in Workers \ {w} : sweep'[v] = sweep[v]
  BY <1>1, <1>2, <1>3, SweepFrame DEF BeatInv, BeatTypes, Windowed
<1>5. "unguarded" \notin suffered => \A v \in Workers \ {w} : sweep[v].pc = "idle"
  BY OneSweep DEF H!WorkerDies
<1>6. Locked'
  BY <1>1, <1>2, <1>3, <1>4, <1>5 DEF BeatInv, Locked
<1>7. Followed'
  BY <1>3 DEF Followed
<1> QED BY <1>4, <1>6, <1>7 DEF BeatInv

LEMMA ServerNoticesStep ==
  ASSUME BeatInv, H!ServerNotices
  PROVE  BeatInv'
<1>1. /\ lock = LostSession /\ lock' = NoSession
      /\ UNCHANGED <<beat, left, interval, paused, beatOpen, ping, sweep, patch, met, suffered, beatFaults>>
  BY DEF H!ServerNotices, H!row, H!Well
<1>2. BeatTypes' /\ Paced'
  BY <1>1 DEF BeatInv, BeatTypes, Paced, Windowed, H!Window, H!Grace
<1>3. Locked'
  BY <1>1, BeatConstants DEF BeatInv, Locked
<1>4. Followed'
  BY <1>1 DEF BeatInv, Followed, PingAt, SweepAt, Down
<1> QED BY <1>2, <1>3, <1>4 DEF BeatInv

LEMMA SessionLostStep ==
  ASSUME BeatInv, NEW w \in Workers, H!SessionLost(w)
  PROVE  BeatInv'
<1>1. /\ lock' = NoSession /\ suffered' = suffered \cup {"unguarded"} /\ beatFaults' = beatFaults + 1
      /\ beatFaults < MaxFaults
      /\ UNCHANGED <<beat, left, interval, paused, beatOpen, ping, sweep, patch, met>>
  BY DEF H!SessionLost, H!Fails, H!row
<1>2. suffered' \subseteq H!Kinds /\ "unguarded" \in suffered' /\ beatFaults' \in 0..MaxFaults
  BY <1>1, BeatConstants DEF H!Kinds, BeatInv, BeatTypes
<1>3. BeatTypes' /\ Paced'
  BY <1>1, <1>2 DEF BeatInv, BeatTypes, Paced, Windowed, H!Window, H!Grace
<1>4. Locked' /\ Followed'
  BY <1>2 DEF Locked, Followed
<1> QED BY <1>3, <1>4 DEF BeatInv

LEMMA AsksStep ==
  ASSUME BeatInv, NEW q \in Patches, NEW p \in BOOLEAN, NEW i \in Cadences, H!Asks(q, p, i)
  PROVE  BeatInv'
<1> DEFINE x == [pc |-> "commit", paused |-> p, interval |-> i, wasPaused |-> paused, old |-> interval]
<1>1. x \in PatchCall /\ x.interval = i
  BY DEF PatchCall, BeatInv, BeatTypes
<1>2. /\ patch' = [patch EXCEPT ![q] = x]
      /\ UNCHANGED <<beat, left, interval, paused, beatOpen, ping, sweep, lock, met, suffered, beatFaults>>
  BY DEF H!Asks, H!row, H!job, H!Well
<1> HIDE DEF x
<1>3. patch' \in [Patches -> PatchCall] /\ patch'[q] = x /\ \A r \in Patches \ {q} : patch'[r] = patch[r]
  BY <1>1, <1>2 DEF BeatInv, BeatTypes
<1>4. BeatTypes'
  BY <1>2, <1>3 DEF BeatInv, BeatTypes, Windowed, H!Window, H!Grace
<1>5. Paced'
  BY <1>1, <1>2, <1>3 DEF BeatInv, Paced
<1>6. Locked' /\ Followed'
  BY <1>2 DEF BeatInv, Locked, Followed, PingAt, SweepAt, Down
<1> QED BY <1>4, <1>5, <1>6 DEF BeatInv

LEMMA NoPatchFine == H!NoPatch \in PatchCall /\ H!NoPatch.pc = "idle"
BY DEF H!NoPatch, PatchCall

LEMMA CommitsStep ==
  ASSUME BeatInv, NEW q \in Patches, H!Commits(q)
  PROVE  BeatInv'
<1>1. patch[q] \in PatchCall /\ patch[q].interval \in Cadences
  BY DEF H!Commits, BeatInv, BeatTypes, Paced
<1>2. PICK x \in PatchCall : x = H!NoPatch /\ x.pc = "idle"
  BY NoPatchFine
<1>3. /\ patch' = [patch EXCEPT ![q] = x]
      /\ paused' \in {paused, patch[q].paused} /\ interval' \in {interval, patch[q].interval}
      /\ left' \in {left, H!Window(patch[q].interval)}
      /\ UNCHANGED <<beat, beatOpen, ping, sweep, lock, met, suffered, beatFaults>>
  BY <1>2 DEF H!Commits, H!job, H!Well
<1>4. PICK n : n = H!Window(patch[q].interval)
  OBVIOUS
<1>5. n \in Nat /\ \E j \in Cadences : n <= H!Window(j)
  BY <1>1, <1>4, Windows
<1>6. Windowed'
  BY <1>3, <1>4, <1>5 DEF BeatInv, BeatTypes, Windowed, H!Window, H!Grace
<1>7. patch' \in [Patches -> PatchCall] /\ patch'[q] = x /\ \A r \in Patches \ {q} : patch'[r] = patch[r]
  BY <1>2, <1>3 DEF BeatInv, BeatTypes
<1>8. paused' \in BOOLEAN /\ interval' \in Cadences
  BY <1>1, <1>3 DEF BeatInv, BeatTypes, PatchCall
<1>9. BeatTypes'
  BY <1>3, <1>6, <1>7, <1>8 DEF BeatInv, BeatTypes
<1>10. Paced'
  BY <1>2, <1>3, <1>7 DEF BeatInv, Paced
<1>11. Locked' /\ Followed'
  BY <1>3 DEF BeatInv, Locked, Followed, PingAt, SweepAt, Down
<1> QED BY <1>9, <1>10, <1>11 DEF BeatInv

LEMMA TimePassesStep ==
  ASSUME BeatInv, H!TimePasses
  PROVE  BeatInv'
<1>1. /\ left > 0 /\ left' = left - 1
      /\ UNCHANGED <<beat, interval, paused, beatOpen, ping, sweep, lock, patch, met, suffered, beatFaults>>
  BY DEF H!TimePasses, H!job, H!Well
<1>2. Windowed'
  <2>1. PICK j \in Cadences : left \in Nat /\ left <= H!Window(j)
    BY DEF BeatInv, BeatTypes, Windowed
  <2>2. H!Window(j) \in Nat
    BY Windows
  <2>3. left' \in Nat /\ left' <= H!Window(j)
    BY <1>1, <2>1, <2>2
  <2> QED BY <2>3 DEF Windowed, H!Window, H!Grace
<1>3. BeatTypes' /\ Paced'
  BY <1>1, <1>2 DEF BeatInv, BeatTypes, Paced
<1>4. Locked' /\ Followed'
  BY <1>1 DEF BeatInv, Locked, Followed, PingAt, SweepAt, Down
<1> QED BY <1>3, <1>4 DEF BeatInv

LEMMA BeatRests ==
  ASSUME BeatInv, UNCHANGED H!vars
  PROVE  BeatInv'
<1>1. UNCHANGED <<beat, left, interval, paused, beatOpen, ping, sweep, lock, patch, met, suffered, beatFaults>>
  BY DEF H!vars, H!row, H!job
<1>2. BeatTypes' /\ Paced'
  BY <1>1 DEF BeatInv, BeatTypes, Paced, Windowed, H!Window, H!Grace
<1>3. Locked' /\ Followed'
  BY <1>1 DEF BeatInv, Locked, Followed, PingAt, SweepAt, Down
<1> QED BY <1>2, <1>3 DEF BeatInv

LEMMA BeatInit ==
  ASSUME H!Init
  PROVE  BeatInv
<1>1. beat \in H!Facts /\ beat.status = "nodata"
  BY DEF H!Init, H!NoFacts, H!Facts, H!Status
<1>2. Windowed
  BY Windows DEF H!Init, Windowed
<1>3. /\ ping \in [Pings -> PingCall] /\ \A p \in Pings : ping[p].pc = "idle"
      /\ sweep \in [Workers -> SweepCall] /\ \A w \in Workers : sweep[w].pc = "idle"
      /\ patch \in [Patches -> PatchCall] /\ \A q \in Patches : patch[q].pc = "idle"
  BY NoPingFine, NoSweepFine, NoPatchFine DEF H!Init
<1>4. BeatTypes
  <2>1. beatFaults \in 0..MaxFaults /\ beatOpen \in Nat /\ interval \in Cadences /\ suffered \subseteq H!Kinds
    BY BeatConstants DEF H!Init
  <2>2. paused \in BOOLEAN /\ met \in BOOLEAN /\ lock \in Workers \cup {NoSession, LostSession}
    BY DEF H!Init
  <2> QED BY <1>1, <1>2, <1>3, <2>1, <2>2 DEF BeatTypes
<1>5. Paced /\ Locked
  BY <1>3 DEF H!Init, Paced, Locked
<1>6. Followed
  BY <1>1, <1>3 DEF H!Init, Followed, PingAt, SweepAt, Down
<1> QED BY <1>4, <1>5, <1>6 DEF BeatInv

LEMMA BeatStep ==
  ASSUME BeatInv, [H!Next]_(H!vars)
  PROVE  BeatInv'
<1>1. CASE \E p \in Pings : H!Receive(p) \/ H!PingStep(p) \/ H!PingFails(p) \/ H!PingCut(p)
  BY <1>1, ReceiveStep, PingReadsStep, PingWritesStep, PingLooksStep, PingClosesStep, PingDueStep, PingLost
     DEF H!PingStep
<1>2. CASE \E w \in Workers : H!Tick(w) \/ H!SweepStep(w) \/ H!SweepFails(w) \/ H!WorkerDies(w) \/ H!SessionLost(w)
  BY <1>2, TickStep, SweepWritesStep, SweepLooksStep, SweepOpensStep, SweepDueStep, UnlockStep, SweepFailsStep,
     WorkerDiesStep, SessionLostStep DEF H!SweepStep
<1>3. CASE H!ServerNotices
  BY <1>3, ServerNoticesStep
<1>4. CASE \E q \in Patches : \/ H!Commits(q) \/ H!Asks(q, ~paused, interval)
                              \/ \E i \in Cadences : H!Asks(q, paused, i)
  <2>1. interval \in Cadences /\ paused \in BOOLEAN
    BY DEF BeatInv, BeatTypes
  <2>2. PICK other \in BOOLEAN : other = ~paused
    OBVIOUS
  <2> QED BY <1>4, <2>1, <2>2, CommitsStep, AsksStep
<1>5. CASE H!TimePasses
  BY <1>5, TimePassesStep
<1>6. CASE UNCHANGED H!vars
  BY <1>6, BeatRests
<1> QED BY <1>1, <1>2, <1>3, <1>4, <1>5, <1>6 DEF H!Next

LEMMA BeatAlways == H!Spec => []BeatInv
BY BeatInit, BeatStep, PTL DEF H!Spec

\* The heartbeat's rows and the calls on it keep their types: a window is never longer
\* than that of the longest cadence, and the lock is free, a worker's or a lost session's.
THEOREM BeatTypeCorrect == H!Spec => []H!TypeOK
<1>1. BeatInv => H!TypeOK
  BY DEF BeatInv, BeatTypes, Windowed, PingCall, SweepCall, PatchCall, H!TypeOK
<1> QED BY <1>1, BeatAlways, PTL

\* A heartbeat never has two open incidents, for any number of pings, workers and PATCHes
\* and any failures but a lock session lost and a look that failed: whoever inserts holds
\* the lock of the job, and nothing was open when it looked.
THEOREM OneIncident == H!Spec => []OneOpen
<1>1. BeatInv => OneOpen
  BY DEF BeatInv, Locked, OneOpen, H!OneOpen
<1> QED BY <1>1, BeatAlways, PTL

\* When the calls in flight have ended, nothing failed and no ping and sweep held states
\* at once, an incident is open exactly while the stored verdict is down.
THEOREM IncidentsFollow == H!Spec => []IncidentFollowsFacts
<1>1. ASSUME BeatInv
      PROVE  IncidentFollowsFacts
  <2> SUFFICES ASSUME H!Quiet, ~met, suffered = {}
               PROVE  (beatOpen = 1 <=> Down) /\ beatOpen <= 1
    BY DEF IncidentFollowsFacts, H!IncidentFollowsFacts, Down
  <2>1. ~PingAt({"look", "close"}) /\ ~SweepAt({"look", "insert"})
    BY DEF H!Quiet, PingAt, SweepAt
  <2> QED BY <1>1, <2>1 DEF BeatInv, Followed, Locked
<1> QED BY <1>1, BeatAlways, PTL

-----------------------------------------------------------------------------
(* The leases.                                                               *)

\* What the argument needs of the types.
LeaseTypes ==
  /\ node \in [Nodes -> [pc : {"idle", "leasing", "executing", "submitting"},
                         batch : SUBSET Targets, budget : Int]]
  /\ by \in [Targets -> Nodes \cup {NoNode}]
  /\ lease \in [Targets -> Int]

\* What is left of the budgets of a node that has targets in hand.
Left(n) == node[n].budget + (IF node[n].pc = "executing" THEN SubmitBudget ELSE 0)

InHand(n, t) == node[n].pc \in {"executing", "submitting"} /\ t \in node[n].batch

\* A node asking for targets has no more than its batch budget.
Asking == \A n \in Nodes : node[n].pc \in {"leasing", "executing"} => node[n].budget <= BatchBudget

Guarded ==
  \A n \in Nodes, t \in Targets \ unmarked :
    InHand(n, t) => /\ by[t] = n
                    /\ node[n].budget >= 0
                    /\ lease[t] > Left(n)

Lasting == \A n \in Nodes : node[n].pc # "idle" => node[n].budget >= 0

LeaseInv == LeaseTypes /\ Asking /\ Lasting /\ Guarded

\* Only targets are leased.
WantedType == wanted \in SUBSET Targets

LEMMA BudgetsType ==
  /\ BatchBudget \in Nat /\ SubmitBudget \in Nat /\ LeaseTerm \in Nat
  /\ LeaseTerm > BatchBudget + SubmitBudget
  BY LeaseAssumption DEF L!ProbeLeaseAssumption

\* One tick takes at most one off what is left of a lease.
LEMMA PassedBound ==
  ASSUME NEW x \in Int
  PROVE  L!Passed(x) \in Int /\ L!Passed(x) >= x - 1
<1> DEFINE S == {x - 1, 0}
<1>1. \E z \in S : \A y \in S : z >= y
  <2>1. CASE x - 1 >= 0 BY <2>1
  <2>2. CASE ~(x - 1 >= 0) BY <2>2
  <2> QED BY <2>1, <2>2
<1>2. L!Max(S) \in S /\ \A y \in S : L!Max(S) >= y
  BY <1>1, Zenon DEF L!Max
<1> QED BY <1>2 DEF L!Passed

\* A target in hand is not free.
LEMMA InHandNotFree ==
  ASSUME LeaseInv, NEW n \in Nodes, NEW t \in Targets \ unmarked, InHand(n, t)
  PROVE  ~L!Free(t) /\ by[t] = n
<1>1. by[t] = n /\ node[n].budget >= 0 /\ lease[t] > Left(n) BY DEF LeaseInv, Guarded
<1>2. lease[t] # 0 BY <1>1, BudgetsType DEF Left, LeaseInv, LeaseTypes
<1>3. by[t] # NoNode BY <1>1, LeaseAssumption DEF L!ProbeLeaseAssumption
<1> QED BY <1>1, <1>2, <1>3 DEF L!Free

\* A step of one node that keeps the leases, takes no target into its hands and
\* does not outlive its budgets.
LEMMA NodeFrame ==
  ASSUME LeaseInv, NEW n \in Nodes,
         NEW v \in [pc : {"idle", "leasing", "executing", "submitting"},
                    batch : SUBSET Targets, budget : Int],
         node' = [node EXCEPT ![n] = v],
         UNCHANGED <<by, lease, unmarked>>,
         v.pc \in {"leasing", "executing"} => v.budget <= BatchBudget,
         v.pc # "idle" => v.budget >= 0,
         v.pc \in {"executing", "submitting"} =>
           /\ node[n].pc \in {"executing", "submitting"}
           /\ v.batch \subseteq node[n].batch
           /\ v.budget + (IF v.pc = "executing" THEN SubmitBudget ELSE 0) <= Left(n)
  PROVE  LeaseInv'
<1>1. node'[n] = v /\ \A m \in Nodes : m # n => node'[m] = node[m] BY DEF LeaseInv, LeaseTypes
<1>2. LeaseTypes' BY DEF LeaseInv, LeaseTypes
<1>3. Asking' /\ Lasting' BY <1>1 DEF LeaseInv, Asking, Lasting
<1>4. ASSUME NEW m \in Nodes, NEW t \in Targets \ unmarked', InHand(m, t)'
      PROVE  by'[t] = m /\ node'[m].budget >= 0 /\ lease'[t] > Left(m)'
  <2>1. CASE m # n
    <3>1. node'[m] = node[m] BY <1>1, <2>1
    <3>2. InHand(m, t) BY <1>4, <3>1 DEF InHand
    <3> QED BY <3>1, <3>2 DEF LeaseInv, Guarded, Left
  <2>2. CASE m = n
    <3>1. InHand(n, t) BY <1>1, <1>4, <2>2 DEF InHand
    <3>2. by[t] = n /\ lease[t] > Left(n) BY <3>1 DEF LeaseInv, Guarded
    <3>3. Left(n)' <= Left(n) /\ v.budget >= 0
      BY <1>1, <1>4, <2>2 DEF InHand, Left
    <3>4. Left(n) \in Int /\ Left(n)' \in Int /\ lease[t] \in Int
      BY <1>1, BudgetsType DEF Left, LeaseInv, LeaseTypes
    <3> QED BY <1>1, <2>2, <3>2, <3>3, <3>4
  <2> QED BY <2>1, <2>2
<1> QED BY <1>2, <1>3, <1>4 DEF LeaseInv, Guarded

LEMMA LeaseInit == L!Init => LeaseInv
<1> SUFFICES ASSUME L!Init PROVE LeaseInv
  OBVIOUS
<1>1. \A n \in Nodes : node[n] = L!Idle BY DEF L!Init
<1>2. L!Idle \in [pc : {"idle", "leasing", "executing", "submitting"},
                batch : SUBSET Targets, budget : Int] /\ L!Idle.pc = "idle"
  BY DEF L!Idle
<1> QED BY <1>1, <1>2 DEF L!Init, LeaseInv, LeaseTypes, Asking, Lasting, Guarded, InHand

\* SetLease puts into the node's hands what it marks, in its name and for the
\* term, and what it does not mark is accounted for.
LEMMA SetLeaseStep ==
  ASSUME LeaseInv, NEW n \in Nodes, L!SetLease(n)
  PROVE  LeaseInv'
<1>1. PICK set \in SUBSET Targets :
        /\ set \subseteq {t \in node[n].batch : L!Free(t)}
        /\ by' = [t \in Targets |-> IF t \in set THEN n ELSE by[t]]
        /\ lease' = [t \in Targets |-> IF t \in set THEN LeaseTerm ELSE lease[t]]
        /\ unmarked' = unmarked \cup (node[n].batch \ set)
  <2>1. node[n].batch \subseteq Targets BY DEF LeaseInv, LeaseTypes
  <2>2. {t \in node[n].batch : L!Free(t)} \in SUBSET Targets /\ {} \in SUBSET Targets BY <2>1
  <2> QED BY <2>2 DEF L!SetLease
<1>2. node' = [node EXCEPT ![n].pc = "executing"] /\ node[n].pc = "leasing" BY DEF L!SetLease
<1>3. /\ node'[n].pc = "executing" /\ node'[n].batch = node[n].batch /\ node'[n].budget = node[n].budget
      /\ \A m \in Nodes : m # n => node'[m] = node[m]
  BY <1>2 DEF LeaseInv, LeaseTypes
<1>4. node' \in [Nodes -> [pc : {"idle", "leasing", "executing", "submitting"},
                           batch : SUBSET Targets, budget : Int]]
  <2>1. \A r \in [pc : {"idle", "leasing", "executing", "submitting"}, batch : SUBSET Targets, budget : Int] :
          [r EXCEPT !.pc = "executing"] \in
             [pc : {"idle", "leasing", "executing", "submitting"}, batch : SUBSET Targets, budget : Int]
    OBVIOUS
  <2> QED BY <1>2, <2>1 DEF LeaseInv, LeaseTypes
<1>5. LeaseTypes' BY <1>1, <1>4, BudgetsType DEF LeaseInv, LeaseTypes
<1>6. Asking' /\ Lasting' BY <1>2, <1>3 DEF LeaseInv, Asking, Lasting
<1>7. ASSUME NEW m \in Nodes, NEW t \in Targets \ unmarked', InHand(m, t)'
      PROVE  by'[t] = m /\ node'[m].budget >= 0 /\ lease'[t] > Left(m)'
  <2>0. t \in Targets \ unmarked BY <1>1
  <2>1. CASE m = n
    <3>1. t \in set BY <1>1, <1>3, <1>7, <2>1 DEF InHand
    <3>2. by'[t] = n /\ lease'[t] = LeaseTerm BY <1>1, <3>1
    <3>3. node[n].budget \in Int /\ node[n].budget <= BatchBudget /\ node[n].budget >= 0
      BY <1>2 DEF LeaseInv, LeaseTypes, Asking, Lasting
    <3>4. Left(n)' = node[n].budget + SubmitBudget BY <1>3 DEF Left
    <3> QED BY <1>3, <2>1, <3>2, <3>3, <3>4, BudgetsType
  <2>2. CASE m # n
    <3>1. node'[m] = node[m] BY <1>3, <2>2
    <3>2. InHand(m, t) BY <1>7, <3>1 DEF InHand
    <3>3. ~L!Free(t) BY <2>0, <3>2, InHandNotFree
    <3>4. by'[t] = by[t] /\ lease'[t] = lease[t] BY <1>1, <3>3
    <3> QED BY <2>0, <3>1, <3>2, <3>4 DEF LeaseInv, Guarded, Left
  <2> QED BY <2>1, <2>2
<1> QED BY <1>5, <1>6, <1>7 DEF LeaseInv, Guarded

\* A result that is processed takes the target out of its node's hands; if the
\* row was marked, no other node has it.
LEMMA ResultStep ==
  ASSUME LeaseInv, NEW n \in Nodes, NEW t \in Targets, L!Submit(n, t) \/ L!Drop(n, t)
  PROVE  LeaseInv'
<1>1. /\ node[n].pc = "submitting" /\ t \in node[n].batch /\ UNCHANGED unmarked
      /\ node' = [node EXCEPT ![n] = IF node[n].batch = {t} THEN L!Idle
                                     ELSE [node[n] EXCEPT !.batch = @ \ {t}]]
  BY DEF L!Submit, L!Drop, L!Without
<1>2. \/ UNCHANGED <<by, lease>>
      \/ by' = [by EXCEPT ![t] = NoNode] /\ lease' = [lease EXCEPT ![t] = 0]
  BY DEF L!Submit, L!Drop, L!Reschedule
<1>3. PICK v \in [pc : {"idle", "submitting"}, batch : SUBSET Targets, budget : Int] :
        /\ node' = [node EXCEPT ![n] = v]
        /\ v.pc = "submitting" => v.budget = node[n].budget /\ v.batch \subseteq node[n].batch \ {t}
  <2>1. CASE node[n].batch = {t}
    <3>1. L!Idle \in [pc : {"idle", "submitting"}, batch : SUBSET Targets, budget : Int] /\ L!Idle.pc = "idle"
      BY DEF L!Idle
    <3>2. node' = [node EXCEPT ![n] = L!Idle] BY <1>1, <2>1
    <3> QED BY <3>1, <3>2
  <2>2. CASE node[n].batch # {t}
    <3>1. /\ [node[n] EXCEPT !.batch = @ \ {t}] \in
                [pc : {"idle", "submitting"}, batch : SUBSET Targets, budget : Int]
          /\ [node[n] EXCEPT !.batch = @ \ {t}].budget = node[n].budget
          /\ [node[n] EXCEPT !.batch = @ \ {t}].batch = node[n].batch \ {t}
      BY <1>1 DEF LeaseInv, LeaseTypes
    <3> QED BY <1>1, <2>2, <3>1
  <2> QED BY <2>1, <2>2
<1>4. node'[n] = v /\ \A m \in Nodes : m # n => node'[m] = node[m] BY <1>3 DEF LeaseInv, LeaseTypes
<1>5. LeaseTypes' BY <1>2, <1>3 DEF LeaseInv, LeaseTypes
<1>6. Asking' /\ Lasting' BY <1>1, <1>3, <1>4 DEF LeaseInv, Asking, Lasting
<1>7. ASSUME NEW m \in Nodes, NEW u \in Targets \ unmarked', InHand(m, u)'
      PROVE  by'[u] = m /\ node'[m].budget >= 0 /\ lease'[u] > Left(m)'
  <2>0. u \in Targets \ unmarked BY <1>1
  <2>1. InHand(m, u) /\ node'[m].budget = node[m].budget /\ Left(m)' = Left(m)
    <3>1. CASE m = n BY <1>1, <1>3, <1>4, <1>7, <3>1 DEF InHand, Left
    <3>2. CASE m # n BY <1>4, <1>7, <3>2 DEF InHand, Left
    <3> QED BY <3>1, <3>2
  <2>2. by[u] = m /\ node[m].budget >= 0 /\ lease[u] > Left(m)
    BY <2>0, <2>1 DEF LeaseInv, Guarded
  <2>3. u # t
    <3>1. SUFFICES ASSUME u = t PROVE FALSE
      OBVIOUS
    <3>2. InHand(n, t) BY <1>1 DEF InHand
    <3>3. by[t] = n BY <2>0, <3>1, <3>2 DEF LeaseInv, Guarded
    <3>4. m = n BY <2>2, <3>1, <3>3
    <3> QED BY <1>3, <1>4, <1>7, <3>1, <3>4 DEF InHand
  <2>4. by'[u] = by[u] /\ lease'[u] = lease[u] BY <1>2, <2>3 DEF LeaseInv, LeaseTypes
  <2> QED BY <2>1, <2>2, <2>4
<1> QED BY <1>5, <1>6, <1>7 DEF LeaseInv, Guarded

\* A blind node has nothing in hand and gives back rows in its own name only.
LEMMA ReportBlindStep ==
  ASSUME LeaseInv, NEW n \in Nodes, L!ReportBlind(n)
  PROVE  LeaseInv'
<1>1. /\ node[n].pc = "idle" /\ UNCHANGED <<node, unmarked>>
      /\ by' = [t \in Targets |-> IF by[t] = n THEN NoNode ELSE by[t]]
      /\ lease' = [t \in Targets |-> IF by[t] = n THEN 0 ELSE lease[t]]
  BY DEF L!ReportBlind
<1>2. LeaseTypes' /\ Asking' /\ Lasting' BY <1>1 DEF LeaseInv, LeaseTypes, Asking, Lasting
<1>3. ASSUME NEW m \in Nodes, NEW t \in Targets \ unmarked', InHand(m, t)'
      PROVE  by'[t] = m /\ node'[m].budget >= 0 /\ lease'[t] > Left(m)'
  <2>1. InHand(m, t) /\ m # n BY <1>1, <1>3 DEF InHand
  <2>2. by[t] = m /\ node[m].budget >= 0 /\ lease[t] > Left(m)
    BY <1>1, <2>1 DEF LeaseInv, Guarded
  <2> QED BY <1>1, <2>1, <2>2 DEF Left
<1> QED BY <1>2, <1>3 DEF LeaseInv, Guarded

\* Time takes as much from a node's budget as from its leases.
LEMMA LeaseTick ==
  ASSUME LeaseInv, L!Tick
  PROVE  LeaseInv'
<1>1. /\ \A n \in Nodes : node[n].pc # "idle" => node[n].budget > 0
      /\ lease' = [t \in Targets |-> L!Passed(lease[t])]
      /\ node' = [n \in Nodes |-> IF node[n].pc = "idle" THEN L!Idle
                                  ELSE [node[n] EXCEPT !.budget = @ - 1]]
      /\ UNCHANGED <<by, unmarked>>
  BY DEF L!Tick
<1>2. \A n \in Nodes : node[n].pc = "idle" => node'[n].pc = "idle"
  BY <1>1 DEF L!Idle
<1>3. \A n \in Nodes : node[n].pc # "idle" =>
        /\ node'[n].pc = node[n].pc /\ node'[n].batch = node[n].batch
        /\ node'[n].budget = node[n].budget - 1
  BY <1>1 DEF LeaseInv, LeaseTypes
<1>4. LeaseTypes'
  <2>1. lease' \in [Targets -> Int] BY <1>1, PassedBound DEF LeaseInv, LeaseTypes
  <2>2. L!Idle \in [pc : {"idle", "leasing", "executing", "submitting"}, batch : SUBSET Targets, budget : Int]
    BY DEF L!Idle
  <2>3. \A r \in [pc : {"idle", "leasing", "executing", "submitting"}, batch : SUBSET Targets, budget : Int] :
          [r EXCEPT !.budget = @ - 1] \in
             [pc : {"idle", "leasing", "executing", "submitting"}, batch : SUBSET Targets, budget : Int]
    OBVIOUS
  <2> QED BY <1>1, <2>1, <2>2, <2>3 DEF LeaseInv, LeaseTypes
<1>5. \A n \in Nodes : node[n].budget \in Int BY DEF LeaseInv, LeaseTypes
<1>6. Asking'
  <2>1. \A n \in Nodes : node'[n].pc \in {"leasing", "executing"} => node'[n].budget <= BatchBudget
    BY <1>2, <1>3, <1>5, BudgetsType DEF LeaseInv, Asking
  <2> QED BY <2>1 DEF Asking
<1>7. Lasting' BY <1>1, <1>2, <1>3, <1>5 DEF Lasting
<1>8. ASSUME NEW n \in Nodes, NEW t \in Targets \ unmarked', InHand(n, t)'
      PROVE  by'[t] = n /\ node'[n].budget >= 0 /\ lease'[t] > Left(n)'
  <2>1. node[n].pc # "idle" BY <1>2, <1>8 DEF InHand
  <2>2. InHand(n, t) BY <1>3, <1>8, <2>1 DEF InHand
  <2>3. by[t] = n /\ lease[t] > Left(n) BY <1>1, <2>2 DEF LeaseInv, Guarded
  <2>4. Left(n)' = Left(n) - 1 /\ Left(n) \in Int
    BY <1>3, <1>5, <2>1, BudgetsType DEF Left
  <2>5. lease[t] \in Int /\ lease'[t] = L!Passed(lease[t]) BY <1>1 DEF LeaseInv, LeaseTypes
  <2>6. lease'[t] \in Int /\ lease'[t] >= lease[t] - 1 BY <2>5, PassedBound
  <2>7. node'[n].budget >= 0 BY <1>1, <1>3, <1>5, <2>1
  <2> QED BY <1>1, <2>3, <2>4, <2>5, <2>6, <2>7
<1> QED BY <1>4, <1>6, <1>7, <1>8 DEF LeaseInv, Guarded

LEMMA WantedInit == L!Init => WantedType
  BY DEF L!Init, WantedType

LEMMA WantedNext == WantedType /\ [L!Next]_L!vars => WantedType'
<1> SUFFICES ASSUME WantedType, [L!Next]_L!vars PROVE WantedType'
  OBVIOUS
<1>1. ASSUME wanted' = wanted PROVE WantedType'
  BY <1>1 DEF WantedType
<1>2. ASSUME NEW n \in Nodes, L!NodeStep(n) PROVE WantedType'
  <2>1. wanted' = wanted
    BY <1>2 DEF L!NodeStep, L!LeaseDueTargets, L!SetLease, L!Execute, L!Submit
  <2> QED BY <1>1, <2>1
<1>3. ASSUME NEW n \in Nodes, L!GiveUp(n) \/ L!ReportBlind(n) PROVE WantedType'
  BY <1>1, <1>3 DEF L!GiveUp, L!ReportBlind
<1>4. ASSUME NEW n \in Nodes, NEW t \in Targets, L!Drop(n, t) PROVE WantedType'
  BY <1>1, <1>4 DEF L!Drop
<1>5. ASSUME NEW t \in Targets, L!Subscribe(t) \/ L!Unsubscribe(t) PROVE WantedType'
  BY <1>5 DEF L!Subscribe, L!Unsubscribe, WantedType
<1>6. CASE L!Tick
  BY <1>1, <1>6 DEF L!Tick
<1>7. CASE UNCHANGED L!vars
  BY <1>1, <1>7 DEF L!vars
<1> QED BY <1>2, <1>3, <1>4, <1>5, <1>6, <1>7 DEF L!Next

LEMMA LeaseNext == LeaseInv /\ WantedType /\ [L!Next]_L!vars => LeaseInv'
<1> SUFFICES ASSUME LeaseInv, WantedType, [L!Next]_L!vars PROVE LeaseInv'
  OBVIOUS
<1>1. ASSUME UNCHANGED <<node, by, lease, unmarked>> PROVE LeaseInv'
  BY <1>1 DEF LeaseInv, LeaseTypes, Asking, Lasting, Guarded, InHand, Left
<1>2. CASE UNCHANGED L!vars
  BY <1>1, <1>2 DEF L!vars
<1>3. ASSUME NEW n \in Nodes, L!LeaseDueTargets(n) PROVE LeaseInv'
  <2>1. PICK S \in L!Batches : node' = [node EXCEPT ![n] = [pc |-> "leasing", batch |-> S, budget |-> BatchBudget]]
    BY <1>3 DEF L!LeaseDueTargets
  <2>2. S \subseteq Targets BY DEF L!Batches, L!Eligible, WantedType
  <2>3. UNCHANGED <<by, lease, unmarked>> BY <1>3 DEF L!LeaseDueTargets
  <2> DEFINE v == [pc |-> "leasing", batch |-> S, budget |-> BatchBudget]
  <2>4. v \in [pc : {"idle", "leasing", "executing", "submitting"}, batch : SUBSET Targets, budget : Int]
    BY <2>2, BudgetsType
  <2>5. v.pc = "leasing" /\ v.budget = BatchBudget OBVIOUS
  <2>6. node' = [node EXCEPT ![n] = v] BY <2>1
  <2>7. v.budget <= BatchBudget /\ v.budget >= 0 BY BudgetsType
  <2> HIDE DEF v
  <2>8. v.pc \notin {"executing", "submitting"} BY <2>5
  <2> QED BY <2>3, <2>4, <2>6, <2>7, <2>8, NodeFrame
<1>4. ASSUME NEW n \in Nodes, L!Execute(n) PROVE LeaseInv'
  <2>1. PICK results \in SUBSET node[n].batch :
          node' = [node EXCEPT ![n] = IF results = {} THEN L!Idle
                     ELSE [pc |-> "submitting", batch |-> results, budget |-> SubmitBudget]]
    BY <1>4 DEF L!Execute
  <2>2. node[n].pc = "executing" /\ UNCHANGED <<by, lease, unmarked>> BY <1>4 DEF L!Execute
  <2>3. node[n].budget \in Int /\ node[n].budget >= 0 /\ node[n].batch \subseteq Targets
    BY <2>2 DEF LeaseInv, LeaseTypes, Lasting
  <2>4. CASE results = {}
    <3>1. node' = [node EXCEPT ![n] = L!Idle] BY <2>1, <2>4
    <3>2. L!Idle \in [pc : {"idle", "leasing", "executing", "submitting"}, batch : SUBSET Targets, budget : Int]
          /\ L!Idle.pc = "idle"
      BY DEF L!Idle
    <3> QED BY <2>2, <3>1, <3>2, NodeFrame
  <2>5. CASE results # {}
    <3> DEFINE v == [pc |-> "submitting", batch |-> results, budget |-> SubmitBudget]
    <3>1. v \in [pc : {"idle", "leasing", "executing", "submitting"}, batch : SUBSET Targets, budget : Int]
      BY <2>3, BudgetsType
    <3>2. node' = [node EXCEPT ![n] = v] BY <2>1, <2>5
    <3>3. v.pc = "submitting" /\ v.budget = SubmitBudget /\ v.batch = results OBVIOUS
    <3>4. SubmitBudget + 0 <= Left(n) BY <2>2, <2>3, BudgetsType DEF Left
    <3> HIDE DEF v
    <3> QED BY <2>1, <2>2, <3>1, <3>2, <3>3, <3>4, NodeFrame, BudgetsType
  <2> QED BY <2>4, <2>5
<1>5. ASSUME NEW n \in Nodes, L!GiveUp(n) PROVE LeaseInv'
  <2>1. L!Idle \in [pc : {"idle", "leasing", "executing", "submitting"}, batch : SUBSET Targets, budget : Int]
        /\ L!Idle.pc = "idle"
    BY DEF L!Idle
  <2>2. node' = [node EXCEPT ![n] = L!Idle] /\ UNCHANGED <<by, lease, unmarked>> BY <1>5 DEF L!GiveUp
  <2> QED BY <2>1, <2>2, NodeFrame
<1>6. ASSUME NEW t \in Targets, L!Subscribe(t) \/ L!Unsubscribe(t) PROVE LeaseInv'
  BY <1>1, <1>6 DEF L!Subscribe, L!Unsubscribe
<1> QED BY <1>2, <1>3, <1>4, <1>5, <1>6, SetLeaseStep, ResultStep, ReportBlindStep, LeaseTick
        DEF L!Next, L!NodeStep

\* ProbeLease counts with the library's Cardinality.
LEMMA SameCardinality == \A S : L!Cardinality(S) = Cardinality(S)
  BY DEF L!Cardinality, Cardinality

\* No expiry, crash, dropped result or blind report alone makes two nodes measure
\* one target at once: ProbeLease's OneHolderUnlessUnmarked for every fleet.
THEOREM Exclusive == L!Spec => []OneHolderUnlessUnmarked
<1>1. L!Init => LeaseInv /\ WantedType BY LeaseInit, WantedInit
<1>2. LeaseInv /\ WantedType /\ [L!Next]_L!vars => (LeaseInv /\ WantedType)' BY LeaseNext, WantedNext
<1>3. LeaseInv => OneHolderUnlessUnmarked
  <2> SUFFICES ASSUME LeaseInv, NEW t \in Targets \ unmarked PROVE Cardinality(L!Holders(t)) <= 1
    BY SameCardinality DEF OneHolderUnlessUnmarked, L!OneHolderUnlessUnmarked
  <2>1. \A n \in L!Holders(t) : n \in Nodes /\ by[t] = n
    BY DEF L!Holders, InHand, LeaseInv, Guarded
  <2>2. CASE L!Holders(t) = {}
    BY <2>2, FS_EmptySet
  <2>3. CASE L!Holders(t) # {}
    <3>1. L!Holders(t) = {by[t]} BY <2>1, <2>3
    <3> QED BY <3>1, FS_Singleton
  <2> QED BY <2>2, <2>3
<1> QED BY <1>1, <1>2, <1>3, PTL DEF L!Spec
=============================================================================
