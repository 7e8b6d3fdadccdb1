--------------------------- MODULE SideBySideProofs ---------------------------
(***************************************************************************)
(* What holds of the detectors, the product alerts and the numbers of log     *)
(* lines, for every value of the constants.                                  *)
(*                                                                          *)
(* The availability detector, for every threshold and every stream, however    *)
(* long: the row is well typed, it is the summary of the stream, it says down  *)
(* exactly when the counter is at the threshold, and the incident edges        *)
(* alternate.                                                                *)
(*                                                                          *)
(* The error-rate scan: two incidents are more than a cooldown apart.  No       *)
(* minute passes while a scan runs, so the row that is stamped after an insert *)
(* is as old as the incident, unless the stamp was lost.                      *)
(*                                                                          *)
(* The numbers: none is returned twice, for any number of instances and        *)
(* goroutines and any block size.  Uniqueness of what was returned is not      *)
(* inductive: the next value must also be nobody else's.  The invariant adds   *)
(* that every value below the counter row has at most one owner (a block's     *)
(* rest or a leased block), and none once it was returned.                    *)
(*                                                                          *)
(* The product alerts: an episode is of the rule it is shown for, and a channel *)
(* hears of it once, for any number of evaluators, requests and rules.  The     *)
(* invariant follows a PATCH from its read to its write: one that no other      *)
(* PATCH has written over holds the rule as it is (Fresh), and a rule that is   *)
(* firing is not paused (Episode), so a write without a reset changes nothing   *)
(* an episode is about.                                                       *)
(***************************************************************************)
EXTENDS SideBySide, FiniteSetTheorems, TLAPS

-----------------------------------------------------------------------------
(* The availability detector (DetectorStream).                               *)

\* One result keeps the row a row (Detector.Process).
LEMMA ProcessType ==
  ASSUME NEW s \in Facts, NEW outcome \in Outcome
  PROVE  Process(s, outcome) \in Facts
<1>1. CASE outcome = "ok"
  BY <1>1 DEF Process, ProcessOK, Facts, Status
<1>2. CASE outcome = "fail"
  <2>1. ProcessFail(s) \in Facts
    BY ThresholdAssumption DEF ProcessFail, Facts, Status
  <2> QED BY <1>2, <2>1 DEF Process
<1>3. CASE outcome = "unmeasured"
  <2>1. PICK st \in Status : ProcessUnmeasured(s) =
          [[s EXCEPT !.unmeasured = @ + 1] EXCEPT !.status = st]
    BY DEF ProcessUnmeasured, Facts, Status
  <2>2. [s EXCEPT !.unmeasured = @ + 1] \in Facts
    BY DEF Facts
  <2>3. \A t \in Facts : [t EXCEPT !.status = st] \in Facts
    BY DEF Facts
  <2> QED BY <1>3, <2>1, <2>2, <2>3 DEF Process
<1> QED BY <1>1, <1>2, <1>3 DEF Outcome

\* The row says down if and only if its counter is at the threshold.
DownRow(s) == (s.status = "down") <=> (s.fails >= Threshold)

\* One result keeps that agreement: an unreadable one leaves both sides alone,
\* a failure never lowers the counter, a success clears both.
LEMMA ProcessDownRow ==
  ASSUME NEW s \in Facts, NEW outcome \in Outcome, DownRow(s)
  PROVE  DownRow(Process(s, outcome))
<1> USE ThresholdAssumption
<1>1. CASE outcome = "ok"
  BY <1>1 DEF Process, ProcessOK, DownRow
<1>2. CASE outcome = "fail"
  <2>1. DownRow(ProcessFail(s))
    BY DEF ProcessFail, DownRow, Facts
  <2> QED BY <1>2, <2>1 DEF Process
<1>3. CASE outcome = "unmeasured"
  <2>1. DownRow(ProcessUnmeasured(s))
    BY DEF ProcessUnmeasured, DownRow, Facts
  <2> QED BY <1>3, <2>1 DEF Process
<1> QED BY <1>1, <1>2, <1>3 DEF Outcome

\* When the row is down afterwards: it was and no success came, or this result
\* opened (the Transition Process returns).
LEMMA ProcessEdges ==
  ASSUME NEW s \in Facts, NEW outcome \in Outcome
  PROVE  /\ Opens(s, outcome) => s.status # "down" /\ Process(s, outcome).status = "down"
         /\ Closes(s, outcome) => s.status = "down" /\ Process(s, outcome).status # "down"
         /\ ~Opens(s, outcome) /\ ~Closes(s, outcome) =>
              ((Process(s, outcome).status = "down") <=> (s.status = "down"))
<1> USE ThresholdAssumption
<1>1. CASE outcome = "ok"
  BY <1>1 DEF Process, ProcessOK, Opens, Closes
<1>2. CASE outcome = "fail"
  <2>1. Process(s, outcome) = ProcessFail(s)
    BY <1>2 DEF Process
  <2> QED BY <1>2, <2>1 DEF ProcessFail, Opens, Closes, Facts
<1>3. CASE outcome = "unmeasured"
  <2>1. Process(s, outcome) = ProcessUnmeasured(s)
    BY <1>3 DEF Process
  <2> QED BY <1>3, <2>1 DEF ProcessUnmeasured, Opens, Closes, Facts
<1> QED BY <1>1, <1>2, <1>3 DEF Outcome

-----------------------------------------------------------------------------

\* Every reachable state of the stream is well typed.
THEOREM TypeCorrect == Spec => []TypeOK
<1>1. Init => TypeOK
  BY DEF Init, TypeOK, NoFacts, Facts, Status
<1>2. TypeOK /\ [Next]_vars => TypeOK'
  <2> SUFFICES ASSUME TypeOK, [Next]_vars PROVE TypeOK'
    OBVIOUS
  <2>1. ASSUME NEW outcome \in Outcome, Submit(outcome) PROVE TypeOK'
    <3>1. facts' \in Facts
      BY <2>1, ProcessType DEF Submit, TypeOK
    <3>2. results' \in Seq(Outcome)
      BY <2>1 DEF Submit, TypeOK
    <3>3. edges' \in Seq({"open", "close"})
      BY <2>1 DEF Submit, TypeOK
    <3> QED BY <3>1, <3>2, <3>3 DEF TypeOK
  <2>2. CASE UNCHANGED vars
    BY <2>2 DEF vars, TypeOK
  <2> QED BY <2>1, <2>2 DEF Next
<1> QED BY <1>1, <1>2, PTL DEF Spec

\* The row says down exactly when the failures since the last success reached
\* the threshold, whatever unreadable answers came in between.
THEOREM DownIsEarned == Spec => []DownIffThreshold
<1>1. Init => DownIffThreshold
  BY ThresholdAssumption DEF Init, DownIffThreshold, NoFacts
<1>2. TypeOK /\ DownIffThreshold /\ [Next]_vars => DownIffThreshold'
  <2> SUFFICES ASSUME TypeOK, DownIffThreshold, [Next]_vars PROVE DownIffThreshold'
    OBVIOUS
  <2>1. ASSUME NEW outcome \in Outcome, Submit(outcome) PROVE DownIffThreshold'
    <3>1. DownRow(facts)
      BY DEF DownRow, DownIffThreshold
    <3>2. DownRow(Process(facts, outcome))
      BY <3>1, ProcessDownRow DEF TypeOK
    <3> QED BY <2>1, <3>2 DEF Submit, DownRow, DownIffThreshold
  <2>2. CASE UNCHANGED vars
    BY <2>2 DEF vars, DownIffThreshold
  <2> QED BY <2>1, <2>2 DEF Next
<1> QED BY <1>1, <1>2, TypeCorrect, PTL DEF Spec

\* Appending the edge whose turn it is keeps a sequence of edges alternating.
Alternating(e) == \A i \in 1..Len(e) : e[i] = IF i % 2 = 1 THEN "open" ELSE "close"

LEMMA AppendAlternating ==
  ASSUME NEW e \in Seq({"open", "close"}), Alternating(e),
         NEW x \in {"open", "close"}, (x = "open") <=> (Len(e) % 2 = 0)
  PROVE  Alternating(Append(e, x)) /\ (Len(Append(e, x)) % 2 = 1 <=> x = "open")
<1>1. Len(Append(e, x)) = Len(e) + 1 /\ Len(e) \in Nat
  OBVIOUS
<1>2. ((Len(e) + 1) % 2 = 1) <=> (Len(e) % 2 = 0)
  BY <1>1
<1>3. ASSUME NEW i \in 1..Len(e)
      PROVE  Append(e, x)[i] = IF i % 2 = 1 THEN "open" ELSE "close"
  BY <1>1 DEF Alternating
<1>4. Append(e, x)[Len(e) + 1] = x
  BY <1>1
<1>5. \A i \in 1..(Len(e) + 1) : i \in 1..Len(e) \/ i = Len(e) + 1
  BY <1>1
<1> QED BY <1>1, <1>2, <1>3, <1>4, <1>5 DEF Alternating

\* Open and Close alternate, Open first, and an Open is outstanding exactly
\* while the row says down.
THEOREM AlternatingEdges == Spec => []EdgesAlternate
<1>1. Init => EdgesAlternate
  BY DEF Init, EdgesAlternate, NoFacts
<1>2. TypeOK /\ EdgesAlternate /\ [Next]_vars => EdgesAlternate'
  <2> SUFFICES ASSUME TypeOK, EdgesAlternate, [Next]_vars PROVE EdgesAlternate'
    OBVIOUS
  <2>1. ASSUME NEW outcome \in Outcome, Submit(outcome) PROVE EdgesAlternate'
    <3>1. facts \in Facts /\ edges \in Seq({"open", "close"}) /\ Alternating(edges)
      BY DEF TypeOK, EdgesAlternate, Alternating
    <3>2. (Len(edges) % 2 = 1) <=> (facts.status = "down")
      BY DEF EdgesAlternate
    <3>3. Len(edges) % 2 \in {0, 1}
      BY <3>1
    <3>4. facts' = Process(facts, outcome)
      BY <2>1 DEF Submit
    <3>5. CASE Opens(facts, outcome)
      <4>1. edges' = Append(edges, "open")
        BY <2>1, <3>5 DEF Submit, Opens, Closes
      <4>2. Len(edges) % 2 = 0 /\ facts'.status = "down"
        BY <3>1, <3>2, <3>3, <3>4, <3>5, ProcessEdges
      <4>3. Alternating(Append(edges, "open")) /\ Len(Append(edges, "open")) % 2 = 1
        BY <3>1, <4>2, AppendAlternating
      <4> QED BY <4>1, <4>2, <4>3 DEF Alternating, EdgesAlternate
    <3>6. CASE Closes(facts, outcome)
      <4>1. edges' = Append(edges, "close")
        BY <2>1, <3>6 DEF Submit, Opens, Closes
      <4>2. Len(edges) % 2 # 0 /\ facts'.status # "down"
        BY <3>1, <3>2, <3>3, <3>4, <3>6, ProcessEdges
      <4>3. Alternating(Append(edges, "close")) /\ ~(Len(Append(edges, "close")) % 2 = 1)
        BY <3>1, <4>2, AppendAlternating
      <4> QED BY <4>1, <4>2, <4>3 DEF Alternating, EdgesAlternate
    <3>7. CASE ~Opens(facts, outcome) /\ ~Closes(facts, outcome)
      <4>1. edges' = edges
        BY <2>1, <3>7 DEF Submit
      <4>2. (facts'.status = "down") <=> (facts.status = "down")
        BY <3>1, <3>4, <3>7, ProcessEdges
      <4> QED BY <4>1, <4>2 DEF EdgesAlternate
    <3> QED BY <3>5, <3>6, <3>7
  <2>2. CASE UNCHANGED vars
    BY <2>2 DEF vars, EdgesAlternate
  <2> QED BY <2>1, <2>2 DEF Next
<1> QED BY <1>1, <1>2, TypeCorrect, PTL DEF Spec

-----------------------------------------------------------------------------
(* The reference definition, one result at a time.                           *)

LEMMA LastIndexBound ==
  ASSUME NEW n \in Nat, NEW S \in SUBSET (1..n)
  PROVE  LastIndex(S) \in 0..n /\ (LastIndex(S) # 0 => LastIndex(S) \in S)
<1>1. CASE \E i \in S : \A j \in S : j <= i
  <2>1. LastIndex(S) = CHOOSE i \in S : \A j \in S : j <= i
    BY <1>1 DEF LastIndex
  <2>2. (CHOOSE i \in S : \A j \in S : j <= i) \in S
    BY <1>1, Zenon
  <2>3. \A i \in S : i \in 0..n
    OBVIOUS
  <2> QED BY <2>1, <2>2, <2>3
<1>2. CASE ~\E i \in S : \A j \in S : j <= i
  BY <1>2 DEF LastIndex
<1> QED BY <1>1, <1>2

LEMMA LastIndexNew ==
  ASSUME NEW n \in Nat, NEW S \in SUBSET (1..n)
  PROVE  LastIndex(S \cup {n + 1}) = n + 1
<1> DEFINE T == S \cup {n + 1}
<1>1. \A j \in T : j \in Nat /\ j <= n + 1
  OBVIOUS
<1>2. n + 1 \in T /\ \A j \in T : j <= n + 1
  BY <1>1
<1>3. \A i \in T : (\A j \in T : j <= i) => i = n + 1
  BY <1>1, <1>2
<1> QED BY <1>2, <1>3 DEF LastIndex

\* Where the results of some kinds are after one more.
LEMMA AtAppend ==
  ASSUME NEW r \in Seq(Outcome), NEW x \in Outcome, NEW kinds
  PROVE  /\ At(r, kinds) \in SUBSET (1..Len(r)) /\ Len(r) \in Nat
         /\ Len(Append(r, x)) = Len(r) + 1
         /\ x \in kinds => At(Append(r, x), kinds) = At(r, kinds) \cup {Len(r) + 1}
         /\ x \notin kinds => At(Append(r, x), kinds) = At(r, kinds)
<1>1. Len(Append(r, x)) = Len(r) + 1 /\ Len(r) \in Nat
  OBVIOUS
<1>2. \A i \in 1..Len(r) : Append(r, x)[i] = r[i]
  OBVIOUS
<1>3. Append(r, x)[Len(r) + 1] = x
  OBVIOUS
<1>4. 1..(Len(r) + 1) = (1..Len(r)) \cup {Len(r) + 1} /\ Len(r) + 1 \notin 1..Len(r)
  BY <1>1
<1> QED BY <1>1, <1>2, <1>3, <1>4 DEF At

\* The measured results decide the blind streak and the measured status.
LEMMA MeasuredAppend ==
  ASSUME NEW r \in Seq(Outcome), NEW x \in Outcome
  PROVE  /\ x # "unmeasured" =>
              BlindStreak(Append(r, x)) = 0 /\ MeasuredStatus(Append(r, x)) = IF x = "ok" THEN "ok" ELSE "check"
         /\ x = "unmeasured" =>
              BlindStreak(Append(r, x)) = BlindStreak(r) + 1 /\ MeasuredStatus(Append(r, x)) = MeasuredStatus(r)
<1> DEFINE kinds == {"ok", "fail"}
           last == LastIndex(At(r, kinds))
<1>1. /\ At(r, kinds) \in SUBSET (1..Len(r)) /\ Len(r) \in Nat
      /\ Len(Append(r, x)) = Len(r) + 1
  BY AtAppend
<1>2. CASE x # "unmeasured"
  <2>1. At(Append(r, x), kinds) = At(r, kinds) \cup {Len(r) + 1}
    BY <1>2, AtAppend DEF Outcome
  <2>2. LastIndex(At(Append(r, x), kinds)) = Len(r) + 1
    BY <1>1, <2>1, LastIndexNew
  <2>3. Append(r, x)[Len(r) + 1] = x /\ Len(r) + 1 # 0
    BY <1>1
  <2> QED BY <1>1, <1>2, <2>2, <2>3 DEF BlindStreak, MeasuredStatus
<1>3. CASE x = "unmeasured"
  <2>1. At(Append(r, x), kinds) = At(r, kinds)
    BY <1>3, AtAppend
  <2>2. last \in 0..Len(r)
    BY <1>1, LastIndexBound
  <2>3. last # 0 => Append(r, x)[last] = r[last]
    BY <1>1, <2>2
  <2>4. BlindStreak(Append(r, x)) = BlindStreak(r) + 1
    BY <1>1, <2>1, <2>2 DEF BlindStreak
  <2>5. MeasuredStatus(Append(r, x)) = MeasuredStatus(r)
    BY <2>1, <2>3 DEF MeasuredStatus
  <2> QED BY <1>3, <2>4, <2>5
<1> QED BY <1>2, <1>3

\* A success clears the failure streak, a failure adds one to it, a reading
\* nobody could take leaves it.
LEMMA FailsAppend ==
  ASSUME NEW r \in Seq(Outcome), NEW x \in Outcome
  PROVE  /\ FailStreak(r) \in Nat
         /\ x = "ok" => FailStreak(Append(r, x)) = 0
         /\ x = "fail" => FailStreak(Append(r, x)) = FailStreak(r) + 1
         /\ x = "unmeasured" => FailStreak(Append(r, x)) = FailStreak(r)
<1> DEFINE rx == Append(r, x)
           n == Len(r)
<1>1. /\ At(r, {"ok"}) \in SUBSET (1..n) /\ At(r, {"fail"}) \in SUBSET (1..n)
      /\ n \in Nat /\ Len(rx) = n + 1
  BY AtAppend
<1>2. IsFiniteSet(1..n)
  BY <1>1, FS_Interval
<1>3. FailsSince(r) \in SUBSET (1..n) /\ IsFiniteSet(FailsSince(r))
  BY <1>1, <1>2, FS_Subset DEF FailsSince
<1>4. FailStreak(r) \in Nat
  BY <1>3, FS_CardinalityType DEF FailStreak
<1>5. CASE x = "ok"
  <2>1. At(rx, {"ok"}) = At(r, {"ok"}) \cup {n + 1} /\ At(rx, {"fail"}) = At(r, {"fail"})
    BY <1>5, AtAppend
  <2>2. LastIndex(At(rx, {"ok"})) = n + 1
    BY <1>1, <2>1, LastIndexNew
  <2>3. FailsSince(rx) = {}
    BY <1>1, <2>1, <2>2 DEF FailsSince
  <2>4. FailStreak(rx) = 0
    BY <2>3, FS_EmptySet DEF FailStreak
  <2> QED BY <1>4, <1>5, <2>4
<1>6. CASE x = "fail"
  <2>1. At(rx, {"ok"}) = At(r, {"ok"}) /\ At(rx, {"fail"}) = At(r, {"fail"}) \cup {n + 1}
    BY <1>6, AtAppend
  <2>2. LastIndex(At(r, {"ok"})) \in 0..n
    BY <1>1, LastIndexBound
  <2>3. FailsSince(rx) = FailsSince(r) \cup {n + 1}
    BY <1>1, <2>1, <2>2 DEF FailsSince
  <2>4. n + 1 \notin FailsSince(r)
    BY <1>1, <1>3
  <2>5. FailStreak(rx) = FailStreak(r) + 1
    BY <1>3, <2>3, <2>4, FS_AddElement DEF FailStreak
  <2> QED BY <1>4, <1>6, <2>5
<1>7. CASE x = "unmeasured"
  <2>1. At(rx, {"ok"}) = At(r, {"ok"}) /\ At(rx, {"fail"}) = At(r, {"fail"})
    BY <1>7, AtAppend
  <2>2. FailsSince(rx) = FailsSince(r)
    BY <2>1 DEF FailsSince
  <2> QED BY <1>4, <1>7, <2>2 DEF FailStreak
<1> QED BY <1>5, <1>6, <1>7 DEF Outcome

\* What the reference can say of a stream.
LEMMA ReferenceDown ==
  ASSUME NEW r \in Seq(Outcome)
  PROVE  /\ (ReferenceStatus(r) = "down") <=> (FailStreak(r) >= Threshold)
         /\ BlindStreak(r) \in Nat /\ FailStreak(r) \in Nat
<1>1. BlindStreak(r) \in Nat
  <2>1. Len(r) \in Nat /\ At(r, {"ok", "fail"}) \in SUBSET (1..Len(r))
    BY DEF At
  <2>2. LastIndex(At(r, {"ok", "fail"})) \in 0..Len(r)
    BY <2>1, LastIndexBound
  <2> QED BY <2>1, <2>2 DEF BlindStreak
<1>2. FailStreak(r) \in Nat
  BY FailsAppend DEF Outcome
<1>3. MeasuredStatus(r) # "down"
  BY DEF MeasuredStatus
<1> QED BY <1>1, <1>2, <1>3 DEF ReferenceStatus

\* The row as the reference has it for the stream r.
Summary(s, r) == /\ s.status = ReferenceStatus(r)
                 /\ s.fails = FailStreak(r)
                 /\ s.unmeasured = BlindStreak(r)

\* One result takes the summary of a stream to the summary of the longer one.
LEMMA ProcessSummary ==
  ASSUME NEW s \in Facts, NEW r \in Seq(Outcome), NEW x \in Outcome, Summary(s, r)
  PROVE  Summary(Process(s, x), Append(r, x))
<1> DEFINE rx == Append(r, x)
<1>1. /\ FailStreak(r) \in Nat /\ BlindStreak(r) \in Nat
      /\ (s.status = "down") <=> (FailStreak(r) >= Threshold)
      /\ s.fails = FailStreak(r) /\ s.unmeasured = BlindStreak(r)
  BY ReferenceDown DEF Summary
<1>2. CASE x = "ok"
  <2>1. FailStreak(rx) = 0 /\ BlindStreak(rx) = 0 /\ MeasuredStatus(rx) = "ok"
    BY <1>2, FailsAppend, MeasuredAppend
  <2>2. ReferenceStatus(rx) = "ok"
    BY <2>1, ThresholdAssumption DEF ReferenceStatus
  <2>3. Process(s, x) = [status |-> "ok", fails |-> 0, unmeasured |-> 0]
    BY <1>2 DEF Process, ProcessOK
  <2> QED BY <2>1, <2>2, <2>3 DEF Summary
<1>3. CASE x = "fail"
  <2>1. FailStreak(rx) = FailStreak(r) + 1 /\ BlindStreak(rx) = 0 /\ MeasuredStatus(rx) = "check"
    BY <1>3, FailsAppend, MeasuredAppend
  <2>2. ReferenceStatus(rx) = IF FailStreak(r) + 1 >= Threshold THEN "down" ELSE "check"
    BY <2>1, ThresholdAssumption DEF ReferenceStatus
  <2>3. Process(s, x) = ProcessFail(s)
    BY <1>3 DEF Process
  <2>4. s.status = "down" => FailStreak(r) + 1 >= Threshold
    BY <1>1, ThresholdAssumption
  <2>5. /\ ProcessFail(s).status = IF FailStreak(r) + 1 >= Threshold THEN "down" ELSE "check"
        /\ ProcessFail(s).fails = FailStreak(r) + 1
        /\ ProcessFail(s).unmeasured = 0
    BY <1>1, <2>4 DEF ProcessFail
  <2> QED BY <2>1, <2>2, <2>3, <2>5 DEF Summary
<1>4. CASE x = "unmeasured"
  <2>1. /\ FailStreak(rx) = FailStreak(r) /\ BlindStreak(rx) = BlindStreak(r) + 1
        /\ MeasuredStatus(rx) = MeasuredStatus(r)
    BY <1>4, FailsAppend, MeasuredAppend
  <2>2. Process(s, x) = ProcessUnmeasured(s)
    BY <1>4 DEF Process
  <2>3. /\ ProcessUnmeasured(s).fails = FailStreak(r)
        /\ ProcessUnmeasured(s).unmeasured = BlindStreak(r) + 1
        /\ ProcessUnmeasured(s).status =
             IF BlindStreak(r) + 1 >= UnmeasuredThreshold /\ s.status # "down"
               THEN "could_not_measure" ELSE s.status
    BY <1>1 DEF ProcessUnmeasured, Facts
  <2>4. CASE FailStreak(r) >= Threshold
    <3>1. s.status = "down" /\ ReferenceStatus(rx) = "down"
      BY <1>1, <2>1, <2>4 DEF ReferenceStatus
    <3> QED BY <2>1, <2>2, <2>3, <3>1 DEF Summary
  <2>5. CASE ~(FailStreak(r) >= Threshold)
    <3>1. s.status # "down"
      BY <1>1, <2>5
    <3>2. CASE BlindStreak(r) + 1 >= UnmeasuredThreshold
      <4>1. ReferenceStatus(rx) = "could_not_measure"
        BY <2>1, <2>5, <3>2 DEF ReferenceStatus
      <4> QED BY <2>1, <2>2, <2>3, <3>1, <3>2, <4>1 DEF Summary
    <3>3. CASE ~(BlindStreak(r) + 1 >= UnmeasuredThreshold)
      <4>1. ~(BlindStreak(r) >= UnmeasuredThreshold)
        BY <1>1, <3>3, ThresholdAssumption
      <4>2. ReferenceStatus(rx) = MeasuredStatus(r) /\ s.status = MeasuredStatus(r)
        BY <2>1, <2>5, <3>3, <4>1 DEF ReferenceStatus, Summary
      <4> QED BY <2>1, <2>2, <2>3, <3>3, <4>2 DEF Summary
    <3> QED BY <3>2, <3>3
  <2> QED BY <2>4, <2>5
<1> QED BY <1>2, <1>3, <1>4 DEF Outcome

\* The stored row is the summary of the whole stream: the status, the failures
\* since the last success and the trailing unreadable streak are those a
\* definition over all results gives, however long the stream.
THEOREM RowIsSummary == Spec => []StatusIsReference
<1>1. Init => StatusIsReference
  <2> SUFFICES ASSUME Init PROVE StatusIsReference
    OBVIOUS
  <2>1. results = <<>> /\ facts = NoFacts
    BY DEF Init
  <2>2. At(results, {"ok"}) = {} /\ At(results, {"fail"}) = {} /\ At(results, {"ok", "fail"}) = {}
    BY <2>1 DEF At
  <2>3. LastIndex({}) = 0
    BY DEF LastIndex
  <2>4. FailStreak(results) = 0
    BY <2>2, FS_EmptySet DEF FailStreak, FailsSince
  <2>5. BlindStreak(results) = 0 /\ MeasuredStatus(results) = "blank"
    <3>1. LastIndex(At(results, {"ok", "fail"})) = 0 /\ Len(results) = 0
      BY <2>1, <2>2, <2>3
    <3> QED BY <3>1 DEF BlindStreak, MeasuredStatus
  <2>6. ReferenceStatus(results) = "blank"
    BY <2>4, <2>5, ThresholdAssumption DEF ReferenceStatus
  <2> QED BY <2>1, <2>4, <2>5, <2>6 DEF StatusIsReference, NoFacts
<1>2. TypeOK /\ StatusIsReference /\ [Next]_vars => StatusIsReference'
  <2> SUFFICES ASSUME TypeOK, StatusIsReference, [Next]_vars PROVE StatusIsReference'
    OBVIOUS
  <2>1. ASSUME NEW outcome \in Outcome, Submit(outcome) PROVE StatusIsReference'
    <3>1. facts \in Facts /\ results \in Seq(Outcome) /\ Summary(facts, results)
      BY DEF TypeOK, StatusIsReference, Summary
    <3>2. Summary(Process(facts, outcome), Append(results, outcome))
      BY <3>1, ProcessSummary
    <3>3. facts' = Process(facts, outcome) /\ results' = Append(results, outcome)
      BY <2>1 DEF Submit
    <3>4. Summary(facts', results')
      BY <3>2, <3>3
    <3> QED BY <3>4 DEF Summary, StatusIsReference
  <2>2. CASE UNCHANGED vars
    BY <2>2 DEF vars, StatusIsReference
  <2> QED BY <2>1, <2>2 DEF Next
<1> QED BY <1>1, <1>2, TypeCorrect, PTL DEF Spec

-----------------------------------------------------------------------------
(* The error-rate scan (ErrorRate).                                          *)

Steps == {"idle", "lookup", "state", "deploy", "open", "insert", "stamp", "find", "close"}

RateTypes ==
  /\ open \in Nat
  /\ lastFire \in 0..R!Long /\ opened \in 0..R!Long
  /\ unstamped \in BOOLEAN
  /\ scan \in [pc : Steps, stream : {"hot", "normal", "thin"}, hasOpen : BOOLEAN, lastFire : 0..R!Long]
  /\ stream \in {"hot", "normal", "thin"}

\* No minute passes during a scan, and the row ages with the incident it stamps.
RateInv ==
  /\ RateTypes
  /\ scan.pc = "stamp" => opened = 0
  /\ ~unstamped /\ scan.pc # "stamp" => lastFire = opened
  /\ scan.pc = "deploy" => scan.lastFire = lastFire
  /\ scan.pc \in {"open", "insert"} => lastFire > Cooldown

LEMMA RateNumbers == Cooldown \in Nat /\ PostDeploy \in Nat /\ R!Long \in Nat /\ R!Long > Cooldown
BY RateAssumption DEF R!ErrorRateAssumption, R!Long

LEMMA RateInit == R!Init => RateInv
<1> SUFFICES ASSUME R!Init PROVE RateInv
  OBVIOUS
<1>1. R!Long \in 0..R!Long /\ 0 \in 0..R!Long
  BY RateNumbers
<1>2. R!Idle \in [pc : Steps, stream : {"hot", "normal", "thin"}, hasOpen : BOOLEAN, lastFire : 0..R!Long] /\ R!Idle.pc = "idle"
  BY <1>1 DEF R!Idle, Steps
<1> QED BY <1>1, <1>2 DEF R!Init, RateInv, RateTypes

LEMMA OlderIs ==
  ASSUME NEW a \in 0..R!Long
  PROVE  R!Older(a) \in 0..R!Long
BY RateNumbers DEF R!Older

\* What a scan becomes when it goes on or is over.
LEMMA GoIs ==
  ASSUME RateTypes, NEW pc \in Steps, R!Go(pc)
  PROVE  /\ scan' \in [pc : Steps, stream : {"hot", "normal", "thin"}, hasOpen : BOOLEAN, lastFire : 0..R!Long]
         /\ scan'.pc = pc /\ (pc # "idle" => scan'.lastFire = scan.lastFire)
<1>1. 0 \in 0..R!Long
  BY RateNumbers
<1>2. CASE pc = "idle"
  BY <1>1, <1>2 DEF R!Go, R!Idle, Steps
<1>3. CASE pc # "idle"
  BY <1>3 DEF R!Go, RateTypes
<1> QED BY <1>2, <1>3

LEMMA RateStep == RateInv /\ [R!Next]_R!vars => RateInv'
<1> SUFFICES ASSUME RateInv, [R!Next]_R!vars PROVE RateInv'
  OBVIOUS
<1> DEFINE Scans == [pc : Steps, stream : {"hot", "normal", "thin"}, hasOpen : BOOLEAN, lastFire : 0..R!Long]
<1>t. /\ RateTypes /\ scan \in Scans /\ lastFire \in 0..R!Long /\ opened \in 0..R!Long /\ 0 \in 0..R!Long
      /\ open \in Nat /\ unstamped \in BOOLEAN /\ stream \in {"hot", "normal", "thin"}
      /\ R!Long \in Nat /\ Cooldown \in Nat
  BY RateNumbers DEF RateInv, RateTypes
<1>i. R!Idle \in Scans /\ R!Idle.pc = "idle"
  BY <1>t DEF R!Idle, Steps
<1>s. \A pc \in {"idle", "lookup", "state", "deploy", "open", "insert", "stamp", "find", "close"} : pc \in Steps
  BY DEF Steps
<1>1. CASE R!Measures
  <2>1. scan' \in Scans /\ scan'.pc = "lookup"
    BY <1>1, <1>t, <1>s DEF R!Measures, R!Idle
  <2>2. UNCHANGED <<open, lastFire, opened, unstamped, stream>> /\ scan.pc = "idle"
    BY <1>1 DEF R!Measures, R!rows, R!World, R!Ghosts
  <2> QED BY <1>t, <2>1, <2>2 DEF RateInv, RateTypes
<1>2. CASE R!LooksUp
  <2>1. UNCHANGED <<open, lastFire, opened, unstamped, stream>> /\ scan.pc = "lookup"
    BY <1>2 DEF R!LooksUp, R!rows, R!World, R!Ghosts
  <2>2. scan' \in Scans /\ scan'.pc \in {"state", "find", "idle"}
    <3>1. CASE R!Fires
      <4>1. scan' = [scan EXCEPT !.pc = "state", !.hasOpen = open > 0] /\ (open > 0) \in BOOLEAN
        BY <1>2, <3>1 DEF R!LooksUp
      <4> QED BY <1>t, <1>s, <4>1
    <3>2. CASE ~R!Fires
      <4>1. R!Go("find") \/ R!Go("idle")
        BY <1>2, <3>2 DEF R!LooksUp
      <4> QED BY <1>t, <1>s, <4>1, GoIs
    <3> QED BY <3>1, <3>2
  <2> QED BY <1>t, <2>1, <2>2 DEF RateInv, RateTypes
<1>3. CASE R!ReadsState
  <2>1. UNCHANGED <<open, lastFire, opened, unstamped, stream>> /\ scan.pc = "state"
    BY <1>3 DEF R!ReadsState, R!rows, R!World, R!Ghosts
  <2>2. scan' \in Scans /\ scan'.pc = "deploy" /\ scan'.lastFire = lastFire
    BY <1>3, <1>t, <1>s DEF R!ReadsState
  <2> QED BY <1>t, <2>1, <2>2 DEF RateInv, RateTypes
<1>4. CASE R!Decides
  <2>1. UNCHANGED <<open, lastFire, opened, unstamped, stream>> /\ scan.pc = "deploy"
    BY <1>4 DEF R!Decides, R!World, R!Ghosts, R!OnSuppressed
  <2>2. CASE R!Suppressed
    <3>1. R!Go("idle")
      BY <1>4, <2>2 DEF R!Decides
    <3>2. scan' \in Scans /\ scan'.pc = "idle"
      BY <1>t, <1>s, <3>1, GoIs
    <3> QED BY <1>t, <2>1, <3>2 DEF RateInv, RateTypes
  <2>3. CASE ~R!Suppressed
    <3>1. R!Go("open")
      BY <1>4, <2>3 DEF R!Decides
    <3>2. scan' \in Scans /\ scan'.pc = "open"
      BY <1>t, <1>s, <3>1, GoIs
    <3>3. ~(scan.lastFire <= Cooldown) /\ scan.lastFire = lastFire
      BY <2>1, <2>3 DEF R!Suppressed, RateInv
    <3> QED BY <1>t, <2>1, <3>2, <3>3 DEF RateInv, RateTypes
  <2> QED BY <2>2, <2>3
<1>5. CASE R!OpenLooks
  <2>1. UNCHANGED <<open, lastFire, opened, unstamped, stream>> /\ scan.pc = "open"
    BY <1>5 DEF R!OpenLooks, R!rows, R!World, R!Ghosts
  <2>2. R!Go("idle") \/ R!Go("insert")
    BY <1>5 DEF R!OpenLooks
  <2>3. scan' \in Scans /\ scan'.pc \in {"idle", "insert"}
    BY <1>t, <1>s, <2>2, GoIs
  <2> QED BY <1>t, <2>1, <2>3 DEF RateInv, RateTypes
<1>6. CASE R!OpenInserts
  <2>1. UNCHANGED <<lastFire, unstamped, stream>> /\ open' = open + 1 /\ opened' = 0 /\ R!Go("stamp")
    BY <1>6 DEF R!OpenInserts, R!World
  <2>2. scan' \in Scans /\ scan'.pc = "stamp"
    BY <1>t, <1>s, <2>1, GoIs
  <2> QED BY <1>t, <2>1, <2>2 DEF RateInv, RateTypes
<1>7. CASE R!Stamps
  <2>1. UNCHANGED <<open, opened, unstamped, stream>> /\ lastFire' = 0 /\ R!Go("idle") /\ scan.pc = "stamp"
    BY <1>7 DEF R!Stamps, R!World, R!Ghosts
  <2>2. scan' \in Scans /\ scan'.pc = "idle"
    BY <1>t, <1>s, <2>1, GoIs
  <2> QED BY <1>t, <2>1, <2>2 DEF RateInv, RateTypes
<1>8. CASE R!CloseFinds
  <2>1. UNCHANGED <<open, lastFire, opened, unstamped, stream>> /\ scan.pc = "find" /\ (R!Go("close") \/ R!Go("idle"))
    BY <1>8 DEF R!CloseFinds, R!rows, R!World, R!Ghosts
  <2>2. scan' \in Scans /\ scan'.pc \in {"close", "idle"}
    BY <1>t, <1>s, <2>1, GoIs
  <2> QED BY <1>t, <2>1, <2>2 DEF RateInv, RateTypes
<1>9. CASE R!Closes
  <2>1. UNCHANGED <<lastFire, opened, unstamped, stream>> /\ open' = 0 /\ scan.pc = "close" /\ R!Go("idle")
    BY <1>9 DEF R!Closes, R!World, R!Ghosts
  <2>2. scan' \in Scans /\ scan'.pc = "idle"
    BY <1>t, <1>s, <2>1, GoIs
  <2> QED BY <1>t, <2>1, <2>2 DEF RateInv, RateTypes
<1>10. CASE R!ScanFails
  <2>1. /\ UNCHANGED <<open, lastFire, opened, stream>> /\ scan' = R!Idle
        /\ unstamped' = (unstamped \/ scan.pc = "stamp")
    BY <1>10 DEF R!ScanFails, R!rows
  <2>2. unstamped' \in BOOLEAN
    BY <2>1
  <2>3. ~unstamped' => ~unstamped /\ scan.pc # "stamp"
    BY <2>1
  <2> HIDE DEF Scans
  <2> QED BY <1>t, <1>i, <2>1, <2>2, <2>3 DEF RateInv, RateTypes, Scans
<1>11. CASE R!Minute
  <2>1. /\ UNCHANGED <<open, scan, unstamped, stream>> /\ scan.pc = "idle"
        /\ lastFire' = R!Older(lastFire) /\ opened' = R!Older(opened)
    BY <1>11 DEF R!Minute
  <2>2. lastFire' \in 0..R!Long /\ opened' \in 0..R!Long
    BY <1>t, <2>1, OlderIs
  <2> QED BY <1>t, <2>1, <2>2 DEF RateInv, RateTypes
<1>12. CASE (\E s \in {"hot", "normal", "thin"} : R!StreamChanges(s)) \/ R!Deploys
  <2>1. UNCHANGED <<open, lastFire, opened, unstamped, scan>> /\ stream' \in {"hot", "normal", "thin"}
    BY <1>12, <1>t DEF R!StreamChanges, R!Deploys, R!rows
  <2> QED BY <1>t, <2>1 DEF RateInv, RateTypes
<1>13. CASE R!Resolves
  <2>1. UNCHANGED <<lastFire, opened, unstamped, scan, stream>> /\ open' = 0
    BY <1>13 DEF R!Resolves
  <2> QED BY <1>t, <2>1 DEF RateInv, RateTypes
<1>14. CASE UNCHANGED R!vars
  <2>1. UNCHANGED <<open, lastFire, opened, unstamped, scan, stream>>
    BY <1>14 DEF R!vars, R!rows
  <2> QED BY <1>t, <2>1 DEF RateInv, RateTypes
<1> QED BY <1>1, <1>2, <1>3, <1>4, <1>5, <1>6, <1>7, <1>8, <1>9, <1>10, <1>11, <1>12, <1>13, <1>14 DEF R!Next, R!ScanStep

\* Two incidents of one project's error rate are more than a cooldown apart, for any
\* cooldown and any silence after deploys, whatever flaps, is resolved by hand or fails,
\* unless the stamp after an insert was lost (detect.go).
THEOREM PagesAreSpaced == R!Spec => Spaced
<1> DEFINE Apart == open' > open /\ ~unstamped => opened > Cooldown
<1>1. ASSUME RateInv, R!Next PROVE Apart
  <2>1. open \in Nat
    BY <1>1 DEF RateInv, RateTypes
  <2>2. CASE R!OpenInserts
    BY <1>1, <2>2 DEF R!OpenInserts, RateInv
  <2>3. CASE ~R!OpenInserts
    <3>1. open' = open \/ open' = 0
      BY <1>1, <2>3 DEF R!Next, R!Measures, R!ScanStep, R!LooksUp, R!ReadsState, R!Decides, R!OpenLooks, R!Stamps,
                        R!CloseFinds, R!Closes, R!ScanFails, R!Minute, R!StreamChanges, R!Deploys, R!Resolves, R!rows
    <3> QED BY <2>1, <3>1
  <2> QED BY <2>2, <2>3
<1> HIDE DEF Apart
<1>2. RateInv /\ [R!Next]_R!vars => [Apart]_R!vars
  BY <1>1
<1>3. R!Spec => [][Apart]_R!vars
  BY <1>2, RateInit, RateStep, PTL DEF R!Spec
<1> QED BY <1>3 DEF Spaced, R!Spaced, Apart

-----------------------------------------------------------------------------
(* The numbers of log lines (SeqAllocator).                                  *)

NumbersInv == N!TypeOK /\ N!OneOwner /\ N!Unique

\* A lease takes a block above everything owned or returned so far.
LEMMA LeaseKeeps ==
  ASSUME NumbersInv, NEW c \in Callers, N!LeaseSeqBlock(c)
  PROVE  NumbersInv'
<1>. USE NumbersAssumption DEF N!SeqAssumption, NumbersInv, N!TypeOK
<1>1. N!TypeOK'
  BY DEF N!LeaseSeqBlock, N!Caller
<1>2. N!BelowCounter'
  <2>0. handed' = handed /\ alloc' = alloc /\ dbNext' = dbNext + BlockSize
    BY DEF N!LeaseSeqBlock
  <2>. DEFINE took == [pc |-> "leased", at |-> caller[c].at, start |-> dbNext]
  <2>a. caller' = [caller EXCEPT ![c] = took]
    BY DEF N!LeaseSeqBlock, N!Caller
  <2>b. took.start = dbNext
    OBVIOUS
  <2>. HIDE DEF took
  <2>c. \A d \in Callers : \/ caller'[d] = caller[d]
                           \/ caller'[d].start = dbNext
    BY <2>a, <2>b
  <2>1. /\ handed' = handed /\ alloc' = alloc /\ dbNext' = dbNext + BlockSize
        /\ \A d \in Callers : \/ caller'[d] = caller[d]
                              \/ caller'[d].start = dbNext
    BY <2>0, <2>c
  <2>2. /\ dbNext \in Nat /\ BlockSize \in Nat \ {0}
        /\ \A i \in Instances : alloc[i].end \in Nat
        /\ \A d \in Callers : caller[d].start \in Nat
    BY DEF N!Block, N!Caller
  <2>3. N!BelowCounter
    BY DEF N!OneOwner
  <2>4. \A i \in Instances : alloc'[i].end <= dbNext'
    <3>1. \A i \in Instances : alloc'[i].end <= dbNext
      BY <2>1, <2>3 DEF N!BelowCounter
    <3>. QED
      BY <3>1, <2>1, <2>2
  <2>5. ASSUME NEW d \in Callers, caller'[d].pc = "leased"
        PROVE  caller'[d].start + BlockSize <= dbNext'
    <3>1. CASE caller'[d] = caller[d]
      <4>1. caller[d].start + BlockSize <= dbNext
        BY <2>3, <2>5, <3>1 DEF N!BelowCounter
      <4>. QED
        BY <2>0, <2>2, <3>1, <4>1
    <3>2. CASE caller'[d].start = dbNext
      BY <2>0, <2>2, <3>2
    <3>. QED
      BY <2>c, <3>1, <3>2
  <2>6. \A k \in 1..Len(handed') : handed'[k] < dbNext'
    BY <2>1, <2>2, <2>3 DEF N!BelowCounter
  <2>. QED
    BY <2>4, <2>5, <2>6 DEF N!BelowCounter
<1>3. /\ handed' = handed /\ alloc' = alloc
      /\ \A d \in Callers \ {c} : caller'[d] = caller[d]
      /\ caller'[c].start = dbNext /\ caller'[c].pc = "leased"
      /\ caller[c].pc # "leased"
      /\ dbNext' = dbNext + BlockSize
  BY DEF N!LeaseSeqBlock, N!Caller
<1>4. ASSUME NEW v \in 0..dbNext'
      PROVE  /\ \A i, j \in Instances : N!InRest(v, i)' /\ N!InRest(v, j)' => i = j
             /\ \A d, e \in Callers : N!InLease(v, d)' /\ N!InLease(v, e)' => d = e
             /\ \A i \in Instances, d \in Callers : ~(N!InRest(v, i)' /\ N!InLease(v, d)')
             /\ N!Returned(v)' => /\ \A i \in Instances : ~N!InRest(v, i)'
                                /\ \A d \in Callers : ~N!InLease(v, d)'
  <2>1. \A i \in Instances : N!InRest(v, i)' <=> N!InRest(v, i)
    BY <1>3 DEF N!InRest
  <2>2. \A d \in Callers \ {c} : N!InLease(v, d)' <=> N!InLease(v, d)
    BY <1>3 DEF N!InLease
  <2>3. N!InLease(v, c)' <=> (dbNext <= v /\ v < dbNext + BlockSize)
    BY <1>3 DEF N!InLease
  <2>4. N!Returned(v)' <=> N!Returned(v)
    BY <1>3 DEF N!Returned
  <2>5. CASE v < dbNext
    BY <1>3, <2>1, <2>2, <2>3, <2>4, <2>5 DEF N!OneOwner
  <2>6. CASE v >= dbNext
    <3>1. \A i \in Instances : ~N!InRest(v, i)
      BY <2>6 DEF N!InRest, N!OneOwner, N!BelowCounter, N!Block
    <3>2. \A d \in Callers : ~N!InLease(v, d)
      BY <2>6 DEF N!InLease, N!OneOwner, N!BelowCounter, N!Caller
    <3>3. ~N!Returned(v)
      BY <2>6 DEF N!Returned, N!OneOwner, N!BelowCounter
    <3>. QED
      BY <2>1, <2>2, <2>4, <3>1, <3>2, <3>3
  <2>. QED
    BY <1>3, <2>5, <2>6
<1>5. N!Unique'
  BY <1>3 DEF N!Unique
<1>. QED
  BY <1>1, <1>2, <1>4, <1>5 DEF N!OneOwner

\* Appending a value that was not returned before keeps the values distinct,
\* and adds just that one.
LEMMA AppendNew ==
  ASSUME NEW x \in Nat, handed \in Seq(Nat), handed' = Append(handed, x)
  PROVE  /\ handed' \in Seq(Nat)
         /\ \A v : N!Returned(v)' <=> (N!Returned(v) \/ v = x)
         /\ N!Unique /\ ~N!Returned(x) => N!Unique'
<1>1. /\ handed' \in Seq(Nat) /\ Len(handed') = Len(handed) + 1
      /\ handed'[Len(handed) + 1] = x
      /\ \A k \in 1..Len(handed) : handed'[k] = handed[k]
  OBVIOUS
<1>2. \A v : N!Returned(v)' <=> (N!Returned(v) \/ v = x)
  BY <1>1 DEF N!Returned
<1>3. N!Unique /\ ~N!Returned(x) => N!Unique'
  BY <1>1 DEF N!Unique, N!Returned
<1>. QED
  BY <1>1, <1>2, <1>3

\* Serving the next value of a block moves it from the rest to the returned.
LEMMA ServeKeeps ==
  ASSUME NumbersInv, NEW i \in Instances, N!Left(i), N!Serve(i), dbNext' = dbNext,
         caller' \in [Callers -> N!Caller],
         \A d \in Callers : caller'[d] = caller[d] \/ caller'[d].pc = "idle"
  PROVE  NumbersInv'
<1>. DEFINE x == alloc[i].next
<1>. USE DEF NumbersInv, N!TypeOK
<1>1. x \in Nat /\ alloc[i].end \in Nat /\ x < alloc[i].end /\ x < dbNext
  BY DEF N!Left, N!Block, N!OneOwner, N!BelowCounter
<1>2. /\ N!InRest(x, i) /\ ~N!Returned(x) /\ x \in 0..dbNext
  BY <1>1 DEF N!InRest, N!OneOwner
<1>3. handed' = Append(handed, x)
  BY DEF N!Serve
<1>4. /\ handed' \in Seq(Nat) /\ N!Unique'
      /\ \A v : N!Returned(v)' <=> (N!Returned(v) \/ v = x)
  BY <1>1, <1>2, <1>3, AppendNew
<1>5. /\ alloc' \in [Instances -> N!Block]
      /\ alloc'[i] = [next |-> x + 1, end |-> alloc[i].end]
      /\ \A j \in Instances \ {i} : alloc'[j] = alloc[j]
  BY <1>1 DEF N!Serve, N!Block
<1>. HIDE DEF x
<1>6. \A v \in Nat : N!InRest(v, i)' <=> (N!InRest(v, i) /\ v # x)
  <2>1. alloc'[i].next = x + 1 /\ alloc'[i].end = alloc[i].end /\ alloc[i].next = x
    BY <1>5 DEF x
  <2>. QED
    BY <1>1, <2>1 DEF N!InRest
<1>7. \A v \in Nat : \A j \in Instances \ {i} : N!InRest(v, j)' <=> N!InRest(v, j)
  BY <1>5 DEF N!InRest
<1>8. \A v \in Nat : \A d \in Callers : N!InLease(v, d)' => N!InLease(v, d)
  BY DEF N!InLease
<1>9. N!BelowCounter'
  <2>1. \A j \in Instances : alloc'[j].end = alloc[j].end
    BY <1>5
  <2>2. \A k \in 1..Len(handed') : handed'[k] < dbNext
    BY <1>1, <1>3 DEF N!OneOwner, N!BelowCounter
  <2>3. \A d \in Callers : caller'[d].pc = "leased" => caller'[d] = caller[d]
    OBVIOUS
  <2>. QED
    BY <2>1, <2>2, <2>3 DEF N!OneOwner, N!BelowCounter
<1>10. N!OneOwner'
  <2>1. ASSUME NEW v \in 0..dbNext
        PROVE  /\ \A j, k \in Instances : N!InRest(v, j)' /\ N!InRest(v, k)' => j = k
               /\ \A d, e \in Callers : N!InLease(v, d)' /\ N!InLease(v, e)' => d = e
               /\ \A j \in Instances, d \in Callers : ~(N!InRest(v, j)' /\ N!InLease(v, d)')
               /\ N!Returned(v)' => /\ \A j \in Instances : ~N!InRest(v, j)'
                                  /\ \A d \in Callers : ~N!InLease(v, d)'
    <3>0. v \in Nat
      BY <1>1
    <3>1. \A j \in Instances : N!InRest(v, j)' => N!InRest(v, j) /\ (j = i => v # x)
      BY <3>0, <1>6, <1>7
    <3>2. \A d \in Callers : N!InLease(v, d)' => N!InLease(v, d)
      BY <3>0, <1>8
    <3>3. N!Returned(v)' <=> (N!Returned(v) \/ v = x)
      BY <1>4
    <3>. QED
      BY <3>1, <3>2, <3>3, <1>2 DEF N!OneOwner
  <2>. QED
    BY <2>1, <1>9 DEF N!OneOwner
<1>. QED
  BY <1>4, <1>5, <1>10

\* Installing the own block returns its first value and makes it the current one.
LEMMA InstallKeeps ==
  ASSUME NumbersInv, NEW c \in Callers, N!Install(c)
  PROVE  NumbersInv'
<1>. USE NumbersAssumption DEF N!SeqAssumption, NumbersInv, N!TypeOK
<1>a. PICK i \in Instances, x \in Nat : i = caller[c].at /\ x = caller[c].start
  BY DEF N!Caller
<1>1. /\ i \in Instances /\ x \in Nat /\ x + BlockSize <= dbNext
      /\ caller[c].pc = "leased" /\ ~N!Left(i)
  BY <1>a DEF N!Install, N!Caller, N!OneOwner, N!BelowCounter
<1>2. N!InLease(x, c) /\ ~N!Returned(x) /\ x \in 0..dbNext
  BY <1>a, <1>1 DEF N!InLease, N!OneOwner
<1>3. handed' = Append(handed, x) /\ dbNext' = dbNext
  BY <1>a DEF N!Install
<1>4. /\ handed' \in Seq(Nat) /\ N!Unique'
      /\ \A v : N!Returned(v)' <=> (N!Returned(v) \/ v = x)
  BY <1>1, <1>2, <1>3, AppendNew
<1>5. /\ alloc' \in [Instances -> N!Block]
      /\ alloc'[i] = [next |-> x + 1, end |-> x + BlockSize]
      /\ \A j \in Instances \ {i} : alloc'[j] = alloc[j]
  <2>1. alloc' = [alloc EXCEPT ![i] = [next |-> x + 1, end |-> x + BlockSize]]
    BY <1>a DEF N!Install
  <2>2. [next |-> x + 1, end |-> x + BlockSize] \in N!Block
    BY <1>1 DEF N!Block
  <2>3. alloc \in [Instances -> N!Block]
    OBVIOUS
  <2>. DEFINE block == [next |-> x + 1, end |-> x + BlockSize]
  <2>. HIDE DEF block
  <2>4. alloc' = [alloc EXCEPT ![i] = block]
    BY <2>1 DEF block
  <2>5. block \in N!Block
    BY <2>2 DEF block
  <2>6. alloc' \in [Instances -> N!Block]
    BY <2>3, <2>4, <2>5, <1>1
  <2>7. alloc'[i] = block
    BY <2>3, <2>4, <1>1
  <2>8. \A j \in Instances \ {i} : alloc'[j] = alloc[j]
    BY <2>3, <2>4
  <2>. QED
    BY <2>6, <2>7, <2>8 DEF block
<1>6. /\ caller' \in [Callers -> N!Caller]
      /\ caller'[c].pc = "idle"
      /\ \A d \in Callers \ {c} : caller'[d] = caller[d]
  BY <1>a, <1>1 DEF N!Install, N!Idle, N!Caller
<1>7. \A v \in Nat : N!InRest(v, i)' => (N!InLease(v, c) /\ v # x)
  BY <1>a, <1>1, <1>5 DEF N!InRest, N!InLease
<1>8. \A v \in Nat : \A j \in Instances \ {i} : N!InRest(v, j)' <=> N!InRest(v, j)
  BY <1>5 DEF N!InRest
<1>9. \A v \in Nat : \A d \in Callers : N!InLease(v, d)' => (d # c /\ N!InLease(v, d))
  BY <1>6 DEF N!InLease
<1>10. N!BelowCounter'
  <2>1. \A j \in Instances : alloc'[j].end <= dbNext
    BY <1>1, <1>5 DEF N!OneOwner, N!BelowCounter
  <2>2. \A k \in 1..Len(handed') : handed'[k] < dbNext
    BY <1>1, <1>3 DEF N!OneOwner, N!BelowCounter
  <2>. QED
    BY <1>3, <1>6, <2>1, <2>2 DEF N!OneOwner, N!BelowCounter
<1>11. N!OneOwner'
  <2>1. ASSUME NEW v \in 0..dbNext
        PROVE  /\ \A j, k \in Instances : N!InRest(v, j)' /\ N!InRest(v, k)' => j = k
               /\ \A d, e \in Callers : N!InLease(v, d)' /\ N!InLease(v, e)' => d = e
               /\ \A j \in Instances, d \in Callers : ~(N!InRest(v, j)' /\ N!InLease(v, d)')
               /\ N!Returned(v)' => /\ \A j \in Instances : ~N!InRest(v, j)'
                                  /\ \A d \in Callers : ~N!InLease(v, d)'
    <3>1. v \in Nat
      BY <1>1
    <3>2. \A j \in Instances : N!InRest(v, j)' => \/ j = i /\ N!InLease(v, c) /\ v # x
                                                  \/ j # i /\ N!InRest(v, j)
      BY <3>1, <1>7, <1>8
    <3>3. \A d \in Callers : N!InLease(v, d)' => d # c /\ N!InLease(v, d)
      BY <3>1, <1>9
    <3>4. N!Returned(v)' <=> (N!Returned(v) \/ v = x)
      BY <1>4
    <3>5. v = x => N!InLease(v, c)
      BY <1>2
    <3>. QED
      BY <3>2, <3>3, <3>4, <3>5 DEF N!OneOwner
  <2>. QED
    BY <2>1, <1>3, <1>10 DEF N!OneOwner
<1>. QED
  BY <1>3, <1>4, <1>5, <1>6, <1>11

\* A step that only gives up owners keeps everything.
LEMMA ForgetKeeps ==
  ASSUME NumbersInv, dbNext' = dbNext, handed' = handed,
         alloc' \in [Instances -> N!Block], caller' \in [Callers -> N!Caller],
         \A i \in Instances : alloc'[i] = alloc[i] \/ alloc'[i] = N!Empty,
         \A c \in Callers : caller'[c] = caller[c] \/ caller'[c].pc # "leased"
  PROVE  NumbersInv'
<1>. USE DEF NumbersInv, N!TypeOK
<1>1. \A v \in Nat : \A i \in Instances : N!InRest(v, i)' => N!InRest(v, i)
  BY DEF N!InRest, N!Empty
<1>2. \A v \in Nat : \A c \in Callers : N!InLease(v, c)' => N!InLease(v, c)
  BY DEF N!InLease
<1>3. \A v : N!Returned(v)' <=> N!Returned(v)
  BY DEF N!Returned
<1>4. N!BelowCounter'
  BY DEF N!OneOwner, N!BelowCounter, N!Empty
<1>5. \A v \in 0..dbNext : v \in Nat
  OBVIOUS
<1>6. N!OneOwner'
  BY <1>1, <1>2, <1>3, <1>4, <1>5 DEF N!OneOwner
<1>7. N!Unique'
  BY DEF N!Unique
<1>. QED
  BY <1>6, <1>7

\* The invariant of the allocator holds in every reachable state.
THEOREM NumbersInvariance == N!Spec => []NumbersInv
<1>1. N!Init => NumbersInv
  <2>. SUFFICES ASSUME N!Init PROVE NumbersInv
    OBVIOUS
  <2>1. N!TypeOK
    BY DEF N!Init, N!TypeOK, N!Empty, N!Block, N!Idle, N!Caller
  <2>2. /\ handed = <<>> /\ Len(handed) = 0
        /\ \A i \in Instances : alloc[i].next = 0 /\ alloc[i].end = 0
        /\ \A c \in Callers : caller[c].pc = "idle" /\ dbNext = 1
    BY DEF N!Init, N!Empty, N!Idle
  <2>3. N!BelowCounter /\ N!Unique
    BY <2>1, <2>2 DEF N!TypeOK, N!BelowCounter, N!Unique
  <2>4. N!OneOwner
    BY <2>1, <2>2, <2>3 DEF N!TypeOK, N!OneOwner, N!InRest, N!InLease, N!Returned
  <2>. QED
    BY <2>1, <2>3, <2>4 DEF NumbersInv
<1>2. NumbersInv /\ [N!Next]_N!vars => NumbersInv'
  <2>. SUFFICES ASSUME NumbersInv, [N!Next]_N!vars PROVE NumbersInv'
    OBVIOUS
  <2>1. N!TypeOK
    BY DEF NumbersInv
  <2>2. ASSUME NEW c \in Callers, N!Fast(c) PROVE NumbersInv'
    BY <2>1, <2>2, ServeKeeps DEF N!Fast, N!TypeOK, N!Caller
  <2>3. ASSUME NEW c \in Callers, N!Exhausted(c) PROVE NumbersInv'
    <3>1. /\ caller' \in [Callers -> N!Caller]
          /\ \A d \in Callers : caller'[d] = caller[d] \/ caller'[d].pc # "leased"
      BY <2>1, <2>3 DEF N!Exhausted, N!TypeOK, N!Caller
    <3>. QED
      BY <2>1, <2>3, <3>1, ForgetKeeps DEF N!Exhausted, N!TypeOK
  <2>4. ASSUME NEW c \in Callers, N!LeaseSeqBlock(c) PROVE NumbersInv'
    BY <2>4, LeaseKeeps
  <2>5. ASSUME NEW c \in Callers, N!LeaseFails(c) PROVE NumbersInv'
    <3>1. /\ caller' \in [Callers -> N!Caller]
          /\ \A d \in Callers : caller'[d] = caller[d] \/ caller'[d].pc # "leased"
      BY <2>1, <2>5 DEF N!LeaseFails, N!TypeOK, N!Caller, N!Idle
    <3>. QED
      BY <2>1, <2>5, <3>1, ForgetKeeps DEF N!LeaseFails, N!TypeOK
  <2>6. ASSUME NEW c \in Callers, N!ServeFromOther(c) PROVE NumbersInv'
    <3>1. /\ caller' \in [Callers -> N!Caller]
          /\ \A d \in Callers : caller'[d] = caller[d] \/ caller'[d].pc = "idle"
          /\ caller[c].at \in Instances
      BY <2>1, <2>6 DEF N!ServeFromOther, N!TypeOK, N!Caller, N!Idle
    <3>. QED
      BY <2>6, <3>1, ServeKeeps DEF N!ServeFromOther
  <2>7. ASSUME NEW c \in Callers, N!Install(c) PROVE NumbersInv'
    BY <2>7, InstallKeeps
  <2>8. ASSUME NEW i \in Instances, N!Restart(i) PROVE NumbersInv'
    <3>1. /\ caller' \in [Callers -> N!Caller]
          /\ \A d \in Callers : caller'[d] = caller[d] \/ caller'[d].pc # "leased"
      BY <2>1, <2>8 DEF N!Restart, N!TypeOK, N!Caller, N!Idle
    <3>2. /\ alloc' \in [Instances -> N!Block]
          /\ \A j \in Instances : alloc'[j] = alloc[j] \/ alloc'[j] = N!Empty
      BY <2>1, <2>8 DEF N!Restart, N!TypeOK, N!Empty, N!Block
    <3>. QED
      BY <2>8, <3>1, <3>2, ForgetKeeps DEF N!Restart
  <2>9. CASE UNCHANGED N!vars
    BY <2>1, <2>9, ForgetKeeps DEF N!vars, N!TypeOK
  <2>. QED
    BY <2>2, <2>3, <2>4, <2>5, <2>6, <2>7, <2>8, <2>9 DEF N!Next, N!CallerStep
<1>. QED
  BY <1>1, <1>2, PTL DEF N!Spec

\* Every allocator, goroutine and number returned is well typed (ring/seq/seq.go).
THEOREM NumbersTypeCorrect == N!Spec => []N!TypeOK
<1>1. NumbersInv => N!TypeOK
  BY DEF NumbersInv
<1>. QED
  BY <1>1, NumbersInvariance, PTL

\* A value that may still be handed out has one owner, and was not returned.
THEOREM SingleOwner == N!Spec => []N!OneOwner
<1>1. NumbersInv => N!OneOwner
  BY DEF NumbersInv
<1>. QED
  BY <1>1, NumbersInvariance, PTL

\* No sequence number is returned twice.
THEOREM NeverTwice == N!Spec => []Unique
<1>1. NumbersInv => Unique
  BY DEF NumbersInv, Unique
<1>. QED
  BY <1>1, NumbersInvariance, PTL

-----------------------------------------------------------------------------
(* Product alerts (ProductAlert).                                            *)

Pending == [pc : {"write"}, rule : P!Rules, stored : P!Row, measure : AlertMeasures, paused : BOOLEAN, over : BOOLEAN]

RowIsFine(r) ==
  rules[r] \in P!Row /\ rules[r].fired <= clock /\ (rules[r].state = "firing" => rules[r].fired # P!Never)

RowsFine ==
  /\ born \in 0..MaxRules /\ P!Existing \subseteq 1..born
  /\ \A r \in P!Existing : RowIsFine(r)
  /\ limit \in Limits /\ frozen \in BOOLEAN
  /\ clock \in 0..MaxTicks /\ edits \in 0..MaxEdits

WordsFine ==
  /\ said \in [P!Rules -> {"nothing", "fired", "recovered"}]
  /\ sent \in [P!Rules -> BOOLEAN]
  /\ crossed \in SUBSET P!Rules
  /\ \A r \in P!Rules : r > born => said[r] = "nothing"

\* A run with rules left has begun, and it listed none that was paused.
TickIsFine(e) ==
  /\ tick[e] = [now |-> tick[e].now, todo |-> tick[e].todo]
  /\ tick[e].now \in 0..clock
  /\ DOMAIN tick[e].todo # {} => tick[e].now # 0
  /\ \A r \in DOMAIN tick[e].todo : tick[e].todo[r] \in P!Row /\ ~tick[e].todo[r].paused

TicksFine ==
  /\ tick = [e \in Evaluators |-> tick[e]]
  /\ \A e \in Evaluators : TickIsFine(e)

\* A PATCH that nobody has written over holds the rule as it is.
Fresh(p) ==
  patch[p].pc = "write" /\ ~patch[p].over /\ patch[p].rule \in P!Existing =>
    /\ patch[p].stored.measure = rules[patch[p].rule].measure
    /\ patch[p].stored.paused = rules[patch[p].rule].paused

DoorsFine ==
  /\ create \in [Creates -> [pc : {"idle", "insert"}, limit : Limits \cup {0}]]
  /\ patch \in [Patches -> {P!None} \cup Pending]
  /\ \A p \in Patches : (patch[p].pc = "write" => patch[p].rule <= born) /\ Fresh(p)

\* A pause ends an episode, but for a PATCH written over another.
Episode(r) ==
  /\ rules[r].state = "firing" <=> said[r] = "fired"
  /\ rules[r].state = "firing" /\ r \notin crossed => P!Describes(r) /\ ~rules[r].paused

AlertInv == RowsFine /\ WordsFine /\ TicksFine /\ DoorsFine /\ \A r \in P!Existing : Episode(r)

LEMMA AlertsAreNumbers ==
  MaxRules \in Nat /\ MaxTicks \in Nat /\ MaxEdits \in Nat /\ Limits \subseteq Nat
BY AlertsAssumption DEF P!ProductAlertAssumption

LEMMA ExistingIsBorn ==
  ASSUME RowsFine, NEW r \in P!Existing
  PROVE  r \in P!Rules /\ r <= born /\ r \in Nat /\ born \in Nat
<1>1. born \in Nat /\ born <= MaxRules /\ MaxRules \in Nat
  BY AlertsAreNumbers DEF RowsFine
<1>2. r \in 1..born
  BY DEF RowsFine
<1> QED BY <1>1, <1>2 DEF P!Rules

\* The two kinds of PATCH, told apart by the program counter.
LEMMA PendingIs ==
  ASSUME DoorsFine, NEW p \in Patches
  PROVE  \/ patch[p] = P!None /\ patch[p].pc = "idle"
         \/ patch[p] \in Pending /\ patch[p].pc = "write"
<1>1. patch[p] \in {P!None} \cup Pending
  BY DEF DoorsFine
<1>2. P!None.pc = "idle"
  BY DEF P!None
<1>3. \A q \in Pending : q.pc = "write"
  BY DEF Pending
<1> QED BY <1>1, <1>2, <1>3

LEMMA AlertTypes ==
  ASSUME AlertInv
  PROVE  P!TypeOK /\ EpisodeIsOfTheRule
<1>1. \A p \in Patches : patch[p].pc \in {"idle", "write"}
  BY PendingIs DEF AlertInv
<1>2. \A c \in Creates : create[c] \in [pc : {"idle", "insert"}, limit : Limits \cup {0}]
  BY DEF AlertInv, DoorsFine
<1>3. P!TypeOK
  BY <1>1, <1>2 DEF AlertInv, RowsFine, RowIsFine, WordsFine, TicksFine, TickIsFine, P!TypeOK
<1>4. EpisodeIsOfTheRule
  BY DEF AlertInv, Episode, EpisodeIsOfTheRule, P!EpisodeIsOfTheRule
<1> QED BY <1>3, <1>4

LEMMA AlertInit == P!Init => AlertInv
<1> SUFFICES ASSUME P!Init PROVE AlertInv
  OBVIOUS
<1>1. DOMAIN rules = {} /\ P!Existing = {}
  BY DEF P!Init, P!Existing
<1>2. RowsFine
  <2>1. born = 0 /\ clock = 0 /\ edits = 0 /\ limit \in Limits /\ frozen \in BOOLEAN
    BY DEF P!Init
  <2>2. 0 \in 0..MaxRules /\ 0 \in 0..MaxTicks /\ 0 \in 0..MaxEdits
    BY AlertsAreNumbers
  <2> QED BY <1>1, <2>1, <2>2 DEF RowsFine
<1>3. WordsFine
  BY DEF P!Init, WordsFine
<1>4. \A e \in Evaluators : tick[e] = P!NoTick /\ tick[e].now = 0 /\ DOMAIN tick[e].todo = {}
  BY DEF P!Init, P!NoTick
<1>5. \A e \in Evaluators : tick[e] = [now |-> tick[e].now, todo |-> tick[e].todo]
  BY <1>4 DEF P!NoTick
<1>6. tick = [e \in Evaluators |-> tick[e]]
  BY DEF P!Init
<1>7. TicksFine
  BY <1>2, <1>4, <1>5, <1>6 DEF TicksFine, TickIsFine, RowsFine
<1>8. DoorsFine
  BY DEF P!Init, DoorsFine, Fresh, P!None, P!NoCreate
<1> QED BY <1>1, <1>2, <1>3, <1>7, <1>8 DEF AlertInv

LEMMA WithoutIs ==
  ASSUME NEW f, NEW r
  PROVE  /\ DOMAIN P!Without(f, r) = DOMAIN f \ {r}
         /\ \A x \in DOMAIN f \ {r} : P!Without(f, r)[x] = f[x]
BY DEF P!Without

\* One evaluator moves on; what it has left is as it was listed.
LEMMA TickMoves ==
  ASSUME TicksFine, RowsFine, NEW e \in Evaluators, NEW t, tick' = [tick EXCEPT ![e] = t],
         t = [now |-> t.now, todo |-> t.todo],
         clock \in Nat, clock' \in Nat, clock <= clock', t.now \in 0..clock', DOMAIN t.todo # {} => t.now # 0,
         \A r \in DOMAIN t.todo : t.todo[r] \in P!Row /\ ~t.todo[r].paused
  PROVE  TicksFine'
<1>1. \A x \in Evaluators : tick'[x] = IF x = e THEN t ELSE tick[x]
  BY DEF TicksFine
<1>2. tick' = [x \in Evaluators |-> tick'[x]]
  BY DEF TicksFine
<1>3. ASSUME NEW x \in Evaluators PROVE TickIsFine(x)'
  <2>1. CASE x = e
    BY <1>1, <2>1 DEF TickIsFine
  <2>2. CASE x # e
    <3>1. tick'[x] = tick[x] /\ TickIsFine(x)
      BY <1>1, <2>2 DEF TicksFine
    <3>2. tick[x].now \in 0..clock'
      BY <3>1 DEF TickIsFine
    <3> QED BY <3>1, <3>2 DEF TickIsFine
  <2> QED BY <2>1, <2>2
<1> QED BY <1>2, <1>3 DEF TicksFine

\* What After leaves of a run.
LEMMA AfterIsFine ==
  ASSUME TicksFine, RowsFine, NEW e \in Evaluators, NEW r \in DOMAIN tick[e].todo,
         tick' = [tick EXCEPT ![e] = P!After(e, r)], clock' = clock
  PROVE  TicksFine'
<1> DEFINE left == P!Without(tick[e].todo, r)
<1>1. DOMAIN left = DOMAIN tick[e].todo \ {r} /\ \A x \in DOMAIN left : left[x] = tick[e].todo[x]
  BY WithoutIs
<1>2. TickIsFine(e) /\ clock \in Nat
  BY AlertsAreNumbers DEF TicksFine, RowsFine
<1>3. P!After(e, r) = P!NoTick \/ P!After(e, r) = [now |-> tick[e].now, todo |-> left]
  BY <1>2 DEF P!After, TickIsFine
<1> HIDE DEF left
<1>4. CASE P!After(e, r) = P!NoTick
  <2>1. DOMAIN P!NoTick.todo = {} /\ P!NoTick.now = 0 /\ P!NoTick = [now |-> P!NoTick.now, todo |-> P!NoTick.todo]
    BY DEF P!NoTick
  <2>2. PICK t : t = P!After(e, r)
    OBVIOUS
  <2>3. t = [now |-> t.now, todo |-> t.todo] /\ t.now = 0 /\ DOMAIN t.todo = {} /\ t.now \in 0..clock'
    BY <1>2, <1>4, <2>1, <2>2
  <2>4. tick' = [tick EXCEPT ![e] = t] /\ clock' \in Nat /\ clock <= clock'
    BY <1>2, <2>2
  <2> QED BY <1>2, <2>3, <2>4, TickMoves
<1>5. CASE P!After(e, r) = [now |-> tick[e].now, todo |-> left]
  <2>1. PICK t : t = P!After(e, r)
    OBVIOUS
  <2>2. t = [now |-> t.now, todo |-> t.todo] /\ t.now = tick[e].now /\ t.todo = left
    BY <1>5, <2>1
  <2>3. t.now \in 0..clock' /\ (DOMAIN t.todo # {} => t.now # 0)
    BY <1>1, <1>2, <2>2 DEF TickIsFine
  <2>4. \A x \in DOMAIN t.todo : t.todo[x] \in P!Row /\ ~t.todo[x].paused
    BY <1>1, <1>2, <2>2 DEF TickIsFine
  <2>5. tick' = [tick EXCEPT ![e] = t] /\ clock' \in Nat /\ clock <= clock'
    BY <1>2, <2>1
  <2> QED BY <1>2, <2>2, <2>3, <2>4, <2>5, TickMoves
<1> QED BY <1>3, <1>4, <1>5

\* A step that moves no row and says nothing: what it may change is the runs, the doors and the plan.
LEMMA AlertsStand ==
  ASSUME AlertInv, UNCHANGED <<rules, born, said, sent, under, crossed>>, TicksFine',
         clock' \in 0..MaxTicks, clock <= clock', limit' \in Limits, frozen' \in BOOLEAN, edits' \in 0..MaxEdits,
         create' \in [Creates -> [pc : {"idle", "insert"}, limit : Limits \cup {0}]],
         patch' \in [Patches -> {P!None} \cup Pending],
         \A p \in Patches : patch'[p] = patch[p]
                            \/ (patch'[p].rule \in P!Existing /\ patch'[p].stored = rules[patch'[p].rule])
  PROVE  AlertInv'
<1>1. P!Existing' = P!Existing
  BY DEF P!Existing
<1>2. RowsFine'
  <2>1. ASSUME NEW r \in P!Existing PROVE RowIsFine(r)'
    <3>1. clock \in Nat /\ clock' \in Nat
      BY AlertsAreNumbers DEF AlertInv, RowsFine
    <3>2. RowIsFine(r)
      BY DEF AlertInv, RowsFine
    <3>3. rules[r].fired \in Nat
      BY <3>2, AlertsAreNumbers DEF RowIsFine, P!Row
    <3>4. rules'[r].fired <= clock'
      BY <3>1, <3>2, <3>3 DEF RowIsFine
    <3> QED BY <3>2, <3>4 DEF RowIsFine
  <2> QED BY <1>1, <2>1 DEF AlertInv, RowsFine
<1>3. WordsFine'
  BY DEF AlertInv, WordsFine
<1>4. DoorsFine'
  <2>1. ASSUME NEW p \in Patches PROVE (patch'[p].pc = "write" => patch'[p].rule <= born') /\ Fresh(p)'
    <3>1. CASE patch'[p] = patch[p]
      BY <1>1, <3>1 DEF AlertInv, DoorsFine, Fresh
    <3>2. CASE patch'[p].rule \in P!Existing /\ patch'[p].stored = rules[patch'[p].rule]
      <4>1. patch'[p].rule <= born'
        BY <3>2, ExistingIsBorn DEF AlertInv
      <4> QED BY <1>1, <3>2, <4>1 DEF Fresh
    <3> QED BY <3>1, <3>2
  <2> QED BY <2>1 DEF DoorsFine
<1>5. \A r \in P!Existing : Episode(r)'
  BY DEF AlertInv, Episode, P!Describes
<1> QED BY <1>1, <1>2, <1>3, <1>4, <1>5 DEF AlertInv

LEMMA TickAlerts ==
  ASSUME AlertInv, NEW e \in Evaluators, P!Tick(e)
  PROVE  AlertInv'
<1> DEFINE todo == [r \in {x \in P!Existing : P!Live(x)} |-> rules[r]]
<1>1. clock \in 0..MaxTicks /\ clock \in Nat /\ clock' = clock + 1 /\ clock' \in 0..MaxTicks /\ MaxTicks \in Nat
  BY AlertsAreNumbers DEF AlertInv, RowsFine, P!Tick
<1>2. \A r \in DOMAIN todo : todo[r] \in P!Row /\ ~todo[r].paused
  BY DEF AlertInv, RowsFine, RowIsFine, P!Live
<1>3. tick' = [tick EXCEPT ![e] = [now |-> clock + 1, todo |-> todo]]
  BY DEF P!Tick
<1> HIDE DEF todo
<1>4. PICK t : t = [now |-> clock + 1, todo |-> todo]
  OBVIOUS
<1>5. /\ t = [now |-> t.now, todo |-> t.todo] /\ t.now = clock + 1 /\ t.todo = todo
      /\ t.now \in 0..clock' /\ t.now # 0
  BY <1>1, <1>4
<1>6. \A r \in DOMAIN t.todo : t.todo[r] \in P!Row /\ ~t.todo[r].paused
  BY <1>2, <1>5
<1>7. tick' = [tick EXCEPT ![e] = t] /\ clock' \in Nat /\ clock <= clock'
  BY <1>1, <1>3, <1>4
<1>8. TicksFine'
  BY <1>1, <1>5, <1>6, <1>7, TickMoves DEF AlertInv
<1>9. UNCHANGED <<rules, born, said, sent, under, crossed, limit, frozen, edits, create, patch>>
  BY DEF P!Tick, P!plan, P!ghosts
<1> QED BY <1>1, <1>7, <1>8, <1>9, AlertsStand DEF AlertInv, RowsFine, DoorsFine

LEMMA SkipAlerts ==
  ASSUME AlertInv, NEW e \in Evaluators, NEW r \in DOMAIN tick[e].todo, P!Skip(e, r)
  PROVE  AlertInv'
<1>1. UNCHANGED <<rules, born, said, sent, under, crossed, limit, frozen, edits, create, patch, clock>>
  BY DEF P!Skip, P!plan, P!ghosts
<1>2. TicksFine'
  BY <1>1, AfterIsFine DEF AlertInv, P!Skip
<1>3. clock \in Nat
  BY AlertsAreNumbers DEF AlertInv, RowsFine
<1> QED BY <1>1, <1>2, <1>3, AlertsStand DEF AlertInv, RowsFine, DoorsFine

LEMMA DiesAlerts ==
  ASSUME AlertInv, NEW e \in Evaluators, P!Dies(e)
  PROVE  AlertInv'
<1>1. UNCHANGED <<rules, born, said, sent, under, crossed, limit, frozen, edits, create, patch, clock>>
  BY DEF P!Dies, P!plan, P!ghosts
<1>2. clock \in Nat /\ clock' \in Nat /\ clock <= clock'
  BY <1>1, AlertsAreNumbers DEF AlertInv, RowsFine
<1>3. TicksFine'
  <2>1. PICK t : t = P!NoTick
    OBVIOUS
  <2>2. DOMAIN t.todo = {} /\ t.now = 0 /\ t = [now |-> t.now, todo |-> t.todo] /\ t.now \in 0..clock'
    BY <1>2, <2>1 DEF P!NoTick
  <2>3. tick' = [tick EXCEPT ![e] = t]
    BY <2>1 DEF P!Dies
  <2> QED BY <1>2, <2>2, <2>3, TickMoves DEF AlertInv
<1> QED BY <1>1, <1>2, <1>3, AlertsStand DEF AlertInv, RowsFine, DoorsFine

\* A step that leaves the runs and the clock as they were.
LEMMA TicksStand ==
  ASSUME TicksFine, tick' = tick, clock' = clock
  PROVE  TicksFine'
<1>1. \A e \in Evaluators : TickIsFine(e)'
  BY DEF TicksFine, TickIsFine
<1> QED BY <1>1 DEF TicksFine

LEMMA CreateReadsAlerts ==
  ASSUME AlertInv, NEW c \in Creates, P!CreateReads(c)
  PROVE  AlertInv'
<1>1. UNCHANGED <<rules, born, said, sent, under, crossed, limit, frozen, edits, patch, clock, tick>>
  BY DEF P!CreateReads, P!plan, P!ghosts
<1>2. clock \in Nat
  BY AlertsAreNumbers DEF AlertInv, RowsFine
<1>3. TicksFine'
  BY <1>1, TicksStand DEF AlertInv
<1>4. create' \in [Creates -> [pc : {"idle", "insert"}, limit : Limits \cup {0}]]
  BY DEF P!CreateReads, AlertInv, RowsFine, DoorsFine
<1> QED BY <1>1, <1>2, <1>3, <1>4, AlertsStand DEF AlertInv, RowsFine, DoorsFine

LEMMA PatchReadsAlerts ==
  ASSUME AlertInv, NEW p \in Patches, NEW r \in P!Existing, NEW m \in AlertMeasures, NEW paused \in BOOLEAN,
         P!PatchReads(p, r, m, paused)
  PROVE  AlertInv'
<1> DEFINE q == [pc |-> "write", rule |-> r, stored |-> rules[r], measure |-> m, paused |-> paused, over |-> FALSE]
<1>1. UNCHANGED <<rules, born, said, sent, under, crossed, limit, frozen, create, clock, tick>>
  BY DEF P!PatchReads, P!plan, P!ghosts
<1>2. clock \in Nat /\ edits' \in 0..MaxEdits
  BY AlertsAreNumbers DEF AlertInv, RowsFine, P!PatchReads
<1>3. TicksFine'
  BY <1>1, TicksStand DEF AlertInv
<1>4. r \in P!Rules /\ rules[r] \in P!Row
  BY ExistingIsBorn DEF AlertInv, RowsFine, RowIsFine
<1>5. q \in Pending /\ q.rule = r /\ q.stored = rules[r]
  BY <1>4 DEF Pending
<1>6. patch' = [patch EXCEPT ![p] = q]
  BY DEF P!PatchReads
<1> HIDE DEF q
<1>7. patch' \in [Patches -> {P!None} \cup Pending]
  BY <1>5, <1>6 DEF AlertInv, DoorsFine
<1>8. \A x \in Patches : patch'[x] = patch[x]
                         \/ (patch'[x].rule \in P!Existing /\ patch'[x].stored = rules[patch'[x].rule])
  BY <1>5, <1>6 DEF AlertInv, DoorsFine
<1> QED BY <1>1, <1>2, <1>3, <1>7, <1>8, AlertsStand DEF AlertInv, RowsFine, DoorsFine

LEMMA PlanChangesAlerts ==
  ASSUME AlertInv, NEW n \in Limits, NEW f \in BOOLEAN, P!PlanChanges(n, f)
  PROVE  AlertInv'
<1>1. UNCHANGED <<rules, born, said, sent, under, crossed, patch, create, clock, tick>>
  BY DEF P!PlanChanges, P!ghosts
<1>2. clock \in Nat /\ edits' \in 0..MaxEdits /\ limit' \in Limits /\ frozen' \in BOOLEAN
  BY AlertsAreNumbers DEF AlertInv, RowsFine, P!PlanChanges
<1>3. TicksFine'
  BY <1>1, TicksStand DEF AlertInv
<1> QED BY <1>1, <1>2, <1>3, AlertsStand DEF AlertInv, RowsFine, DoorsFine

\* One row is written: the other rows, and what was said of them, stay.
LEMMA OneRow ==
  ASSUME AlertInv, NEW r \in P!Existing, clock' = clock, born' = born, limit' = limit, frozen' = frozen, edits' = edits,
         P!Existing' = P!Existing, \A x \in P!Existing \ {r} : rules'[x] = rules[x] /\ said'[x] = said[x],
         \A x \in P!Existing \ {r} : P!Describes(x) => P!Describes(x)',
         crossed \subseteq crossed', crossed' \subseteq crossed \cup {r},
         RowIsFine(r)', Episode(r)',
         said' \in [P!Rules -> {"nothing", "fired", "recovered"}], sent' \in [P!Rules -> BOOLEAN],
         \A x \in P!Rules \ {r} : said'[x] = said[x]
  PROVE  RowsFine' /\ WordsFine' /\ \A x \in P!Existing' : Episode(x)'
<1>1. r \in P!Rules /\ r <= born /\ r \in Nat /\ born \in Nat
  BY ExistingIsBorn DEF AlertInv
<1>2. \A x \in P!Existing : RowIsFine(x)'
  BY DEF AlertInv, RowsFine, RowIsFine
<1>3. RowsFine'
  BY <1>2 DEF AlertInv, RowsFine
<1>4. crossed' \in SUBSET P!Rules
  BY <1>1 DEF AlertInv, WordsFine
<1>5. \A x \in P!Rules : x > born' => said'[x] = "nothing"
  <2> SUFFICES ASSUME NEW x \in P!Rules, x > born PROVE x # r /\ said[x] = "nothing"
    OBVIOUS
  <2>1. x # r
    BY <1>1
  <2> QED BY <2>1 DEF AlertInv, WordsFine
<1>6. WordsFine'
  BY <1>4, <1>5 DEF WordsFine
<1>7. ASSUME NEW x \in P!Existing \ {r} PROVE Episode(x)'
  BY DEF AlertInv, Episode
<1> QED BY <1>3, <1>6, <1>7

\* evaluate: the row goes to what was measured, and the message follows it.
LEMMA EvaluateAlerts ==
  ASSUME AlertInv, NEW e \in Evaluators, NEW r \in DOMAIN tick[e].todo, NEW cond \in P!State, P!Evaluate(e, r, cond)
  PROVE  AlertInv'
<1> DEFINE read == tick[e].todo[r]
           send == P!Send(read.state, cond)
<1>1. UNCHANGED <<born, limit, frozen, clock, patch, create, edits, crossed>>
  BY DEF P!Evaluate, P!plan
<1>2. TicksFine'
  BY <1>1, AfterIsFine DEF AlertInv, P!Evaluate
<1>3. clock \in Nat
  BY AlertsAreNumbers DEF AlertInv, RowsFine
<1>4. CASE ~P!Unmoved(r, read)
  <2>1. UNCHANGED <<rules, said, sent, under>>
    BY <1>4 DEF P!Evaluate
  <2> QED BY <1>1, <1>2, <1>3, <2>1, AlertsStand DEF AlertInv, RowsFine, DoorsFine
<1>5. CASE P!Unmoved(r, read)
  <2>1. r \in P!Existing /\ rules[r] = read /\ read \in P!Row /\ ~read.paused
    BY <1>5 DEF P!Unmoved, AlertInv, TicksFine, TickIsFine
  <2>2. r \in P!Rules
    BY <2>1, ExistingIsBorn DEF AlertInv
  <2>3. /\ rules' = [rules EXCEPT ![r].state = P!NextState(read.state, cond),
                                  ![r].fired = IF send = "fired" THEN tick[e].now ELSE read.fired]
        /\ said' = [said EXCEPT ![r] = IF send = "nothing" THEN @ ELSE send]
        /\ sent' = [sent EXCEPT ![r] = IF send = "nothing" THEN @ ELSE ~@]
        /\ under' = IF send = "fired" THEN P!With(under, r, read.measure) ELSE under
    BY <1>5 DEF P!Evaluate
  <2>4. /\ cond = "firing" /\ read.state # "firing" => send = "fired"
        /\ cond # "firing" /\ read.state = "firing" => send = "recovered"
        /\ (cond = "firing" <=> read.state = "firing") => send = "nothing"
        /\ send \in {"nothing", "fired", "recovered"}
    BY DEF P!Send
  <2>5. P!NextState(read.state, cond) = cond
    BY DEF P!NextState
  <2>6. TickIsFine(e) /\ DOMAIN tick[e].todo # {} /\ tick[e].now # 0 /\ tick[e].now \in 0..clock
    BY DEF AlertInv, TicksFine, TickIsFine
  <2>7. RowIsFine(r) /\ Episode(r)
    BY <2>1 DEF AlertInv, RowsFine
  <2> HIDE DEF read, send
  <2>8. /\ DOMAIN rules' = DOMAIN rules
        /\ \A x \in P!Existing \ {r} : rules'[x] = rules[x]
        /\ rules'[r] = [measure |-> read.measure, paused |-> read.paused, state |-> cond,
                        fired |-> IF send = "fired" THEN tick[e].now ELSE read.fired]
    BY <2>1, <2>3, <2>5 DEF P!Existing, P!Row
  <2>9. P!Existing' = P!Existing
    BY <2>8 DEF P!Existing
  <2>10. /\ said' \in [P!Rules -> {"nothing", "fired", "recovered"}] /\ sent' \in [P!Rules -> BOOLEAN]
         /\ \A x \in P!Rules \ {r} : said'[x] = said[x]
         /\ said'[r] = IF send = "nothing" THEN said[r] ELSE send
    BY <2>2, <2>3, <2>4 DEF AlertInv, WordsFine
  <2>11. RowIsFine(r)'
    <3>1. read.fired \in 0..MaxTicks /\ read.fired <= clock /\ (read.state = "firing" => read.fired # 0)
      BY <2>1, <2>7 DEF RowIsFine, P!Row, P!Never
    <3>2. tick[e].now \in 0..MaxTicks /\ tick[e].now <= clock /\ clock \in 0..MaxTicks
      BY <2>6, AlertsAreNumbers DEF AlertInv, RowsFine
    <3>3. rules'[r].fired \in 0..MaxTicks /\ rules'[r].fired <= clock
      BY <2>8, <3>1, <3>2
    <3>4. rules'[r].state = "firing" => rules'[r].fired # 0
      BY <2>4, <2>6, <2>8, <3>1
    <3>5. rules'[r] \in P!Row
      BY <2>1, <2>8, <3>3 DEF P!Row
    <3> QED BY <1>1, <3>3, <3>4, <3>5 DEF RowIsFine, P!Never
  <2>12. \A x \in P!Existing \ {r} : P!Describes(x) => P!Describes(x)'
    <3>1. \A x \in DOMAIN under \ {r} : x \in DOMAIN under' /\ under'[x] = under[x]
      <4>1. CASE send = "fired"
        <5>1. under' = P!With(under, r, read.measure)
          BY <2>3, <4>1
        <5>2. /\ DOMAIN P!With(under, r, read.measure) = DOMAIN under \cup {r}
              /\ \A x \in DOMAIN under \ {r} : P!With(under, r, read.measure)[x] = under[x]
          BY DEF P!With
        <5> QED BY <5>1, <5>2
      <4>2. CASE send # "fired"
        BY <2>3, <4>2
      <4> QED BY <4>1, <4>2
    <3> QED BY <2>8, <3>1 DEF P!Describes
  <2>13. Episode(r)'
    <3>1. (cond = "firing") <=> (said'[r] = "fired")
      BY <2>1, <2>4, <2>7, <2>10 DEF Episode
    <3>2. CASE send = "fired"
      <4>1. r \in DOMAIN under' /\ under'[r] = read.measure
        <5>1. under' = P!With(under, r, read.measure)
          BY <2>3, <3>2
        <5>2. /\ DOMAIN P!With(under, r, read.measure) = DOMAIN under \cup {r}
              /\ P!With(under, r, read.measure)[r] = read.measure
          BY DEF P!With
        <5> QED BY <5>1, <5>2
      <4> QED BY <2>1, <2>8, <3>1, <4>1 DEF Episode, P!Describes
    <3>3. CASE send # "fired"
      <4>1. under' = under
        BY <2>3, <3>3
      <4>2. cond = "firing" => rules[r].state = "firing"
        BY <2>1, <2>4, <3>3
      <4> QED BY <1>1, <2>1, <2>7, <2>8, <3>1, <4>1, <4>2 DEF Episode, P!Describes
    <3> QED BY <3>2, <3>3
  <2>14. RowsFine' /\ WordsFine' /\ \A x \in P!Existing' : Episode(x)'
    <3>1. \A x \in P!Existing \ {r} : x \in P!Rules \ {r}
      BY ExistingIsBorn DEF AlertInv
    <3>2. \A x \in P!Existing \ {r} : rules'[x] = rules[x] /\ said'[x] = said[x]
      BY <2>8, <2>10, <3>1
    <3> QED BY <1>1, <2>1, <2>9, <2>10, <2>11, <2>12, <2>13, <3>2, OneRow
  <2>15. DoorsFine'
    <3>1. rules'[r].measure = rules[r].measure /\ rules'[r].paused = rules[r].paused
      BY <2>1, <2>8
    <3>2. \A x \in P!Existing : rules'[x].measure = rules[x].measure /\ rules'[x].paused = rules[x].paused
      BY <2>8, <3>1
    <3> QED BY <1>1, <2>9, <3>2 DEF AlertInv, DoorsFine, Fresh
  <2> QED BY <1>2, <2>14, <2>15 DEF AlertInv
<1> QED BY <1>4, <1>5

\* A new rule has not been heard of, and nobody edits it.
LEMMA CreateCommitsAlerts ==
  ASSUME AlertInv, NEW c \in Creates, NEW m \in AlertMeasures, NEW paused \in BOOLEAN, P!CreateCommits(c, m, paused)
  PROVE  AlertInv'
<1> DEFINE row == [measure |-> m, paused |-> paused, state |-> "learning", fired |-> P!Never]
<1>1. UNCHANGED <<limit, frozen, clock, tick, patch, edits, said, sent, under, crossed>>
  BY DEF P!CreateCommits, P!plan, P!ghosts
<1>2. TicksFine'
  BY <1>1, TicksStand DEF AlertInv
<1>3. clock \in Nat /\ born \in Nat /\ MaxRules \in Nat /\ MaxTicks \in Nat /\ clock \in 0..MaxTicks
  BY AlertsAreNumbers DEF AlertInv, RowsFine
<1>4. create' \in [Creates -> [pc : {"idle", "insert"}, limit : Limits \cup {0}]]
  BY DEF P!CreateCommits, P!NoCreate, AlertInv, DoorsFine
<1>5. CASE born' = born /\ rules' = rules
  BY <1>1, <1>2, <1>3, <1>4, <1>5, AlertsStand DEF AlertInv, RowsFine, DoorsFine
<1>6. CASE born < MaxRules /\ born' = born + 1 /\ rules' = P!With(rules, born + 1, row)
  <2>0. PICK new \in Nat : new = born + 1
    BY <1>3
  <2>1. new \notin P!Existing /\ new \in P!Rules /\ new > born
    BY <1>3, <1>6, <2>0, ExistingIsBorn DEF AlertInv, P!Rules
  <2> HIDE DEF row
  <2>2. /\ P!Existing' = P!Existing \cup {new} /\ rules'[new] = row
        /\ \A x \in P!Existing : rules'[x] = rules[x]
    BY <1>6, <2>0, <2>1 DEF P!With, P!Existing
  <2>3. RowIsFine(new)'
    <3>1. row \in P!Row /\ row.fired = 0 /\ row.state = "learning"
      BY <1>3 DEF row, P!Row, P!State, P!Never
    <3> QED BY <1>1, <1>3, <2>2, <3>1 DEF RowIsFine
  <2>4. RowsFine'
    <3>1. \A x \in P!Existing : RowIsFine(x)'
      BY <1>1, <2>2 DEF AlertInv, RowsFine, RowIsFine
    <3>2. P!Existing' \subseteq 1..born' /\ born' \in 0..MaxRules
      <4>1. \A x \in P!Existing' : x \in 1..born'
        <5> SUFFICES ASSUME NEW x \in P!Existing' PROVE x \in 1..born'
          OBVIOUS
        <5>1. CASE x = new
          BY <1>3, <1>6, <2>0, <5>1
        <5>2. CASE x \in P!Existing
          <6>1. x \in 1..born
            BY <5>2 DEF AlertInv, RowsFine
          <6> QED BY <1>3, <1>6, <6>1
        <5> QED BY <2>2, <5>1, <5>2
      <4> QED BY <1>3, <1>6, <4>1
    <3> QED BY <1>1, <2>2, <2>3, <3>1, <3>2 DEF AlertInv, RowsFine
  <2>5. said[new] = "nothing"
    BY <2>1 DEF AlertInv, WordsFine
  <2>6. WordsFine'
    <3>1. \A x \in P!Rules : x > born' => said[x] = "nothing"
      BY <1>3, <1>6 DEF AlertInv, WordsFine, P!Rules
    <3> QED BY <1>1, <3>1 DEF AlertInv, WordsFine
  <2>7. \A x \in P!Existing' : Episode(x)'
    <3>1. rules'[new].state = "learning"
      BY <2>2 DEF row
    <3>2. Episode(new)'
      BY <1>1, <2>5, <3>1 DEF Episode
    <3>3. \A x \in P!Existing : Episode(x)'
      BY <1>1, <2>2 DEF AlertInv, Episode, P!Describes
    <3> QED BY <2>2, <3>2, <3>3
  <2>8. DoorsFine'
    <3>1. ASSUME NEW p \in Patches PROVE (patch'[p].pc = "write" => patch'[p].rule <= born') /\ Fresh(p)'
      <4>1. CASE patch[p].pc # "write"
        BY <1>1, <4>1 DEF Fresh
      <4>2. CASE patch[p].pc = "write"
        <5>1. patch[p].rule \in P!Rules /\ patch[p].rule <= born
          BY <4>2, PendingIs DEF AlertInv, DoorsFine, Pending
        <5>2. patch[p].rule <= born' /\ patch[p].rule # new
          BY <1>3, <1>6, <2>0, <5>1 DEF P!Rules
        <5>3. Fresh(p)
          BY DEF AlertInv, DoorsFine
        <5> QED BY <1>1, <2>2, <5>2, <5>3 DEF Fresh
      <4> QED BY <4>1, <4>2
    <3> QED BY <1>1, <1>4, <3>1 DEF AlertInv, DoorsFine
  <2> QED BY <1>2, <2>4, <2>6, <2>7, <2>8 DEF AlertInv
<1> QED BY <1>5, <1>6 DEF P!CreateCommits

LEMMA DeleteAlerts ==
  ASSUME AlertInv, NEW r \in P!Existing, P!Delete(r)
  PROVE  AlertInv'
<1>1. UNCHANGED <<born, limit, frozen, clock, tick, patch, create, edits, said, sent, under, crossed>>
  BY DEF P!Delete, P!plan, P!ghosts
<1>2. P!Existing' = P!Existing \ {r} /\ \A x \in P!Existing \ {r} : rules'[x] = rules[x]
  BY DEF P!Delete, P!Without, P!Existing
<1>3. TicksFine'
  BY <1>1, TicksStand DEF AlertInv
<1>4. \A x \in P!Existing' : RowIsFine(x)' /\ Episode(x)'
  BY <1>1, <1>2 DEF AlertInv, RowsFine, RowIsFine, Episode, P!Describes
<1>5. RowsFine'
  BY <1>1, <1>2, <1>4 DEF AlertInv, RowsFine
<1>6. WordsFine'
  BY <1>1 DEF AlertInv, WordsFine
<1>7. DoorsFine'
  BY <1>1, <1>2 DEF AlertInv, DoorsFine, Fresh
<1> QED BY <1>3, <1>4, <1>5, <1>6, <1>7 DEF AlertInv

\* The UPDATE of a PATCH: without a reset, and not over another write, the rule
\* stays what it was, and a rule that stays paused was not firing.
LEMMA PatchWritesAlerts ==
  ASSUME AlertInv, NEW p \in Patches, P!PatchWrites(p)
  PROVE  AlertInv'
<1> DEFINE q == patch[p]
           reset == P!EpisodeChanged(q)
<1>1. UNCHANGED <<born, limit, frozen, clock, tick, create, edits, sent>>
  BY DEF P!PatchWrites, P!plan
<1>2. TicksFine'
  BY <1>1, TicksStand DEF AlertInv
<1>3. clock \in Nat /\ clock \in 0..MaxTicks
  BY AlertsAreNumbers DEF AlertInv, RowsFine
<1>4. q \in Pending /\ q.pc = "write" /\ q.rule \in P!Rules /\ q.stored \in P!Row /\ q.measure \in AlertMeasures
      /\ q.paused \in BOOLEAN /\ q.over \in BOOLEAN
  <2>1. q.pc = "write"
    BY DEF P!PatchWrites
  <2>2. q \in Pending
    BY <2>1, PendingIs DEF AlertInv
  <2> QED BY <2>1, <2>2 DEF Pending
<1>5. PICK r \in P!Rules : r = q.rule
  BY <1>4
<1>6. CASE r \notin P!Existing
  <2>1. patch' = [patch EXCEPT ![p] = P!None] /\ UNCHANGED <<rules, said, under, crossed>>
    BY <1>5, <1>6 DEF P!PatchWrites
  <2>2. P!Existing' = P!Existing
    BY <2>1 DEF P!Existing
  <2>3. patch' \in [Patches -> {P!None} \cup Pending] /\ patch'[p] = P!None
        /\ \A x \in Patches \ {p} : patch'[x] = patch[x]
    BY <2>1 DEF AlertInv, DoorsFine
  <2>4. P!None.pc = "idle"
    BY DEF P!None
  <2>5. \A x \in Patches : (patch'[x].pc = "write" => patch'[x].rule <= born') /\ Fresh(x)'
    BY <1>1, <2>1, <2>2, <2>3, <2>4 DEF AlertInv, DoorsFine, Fresh
  <2>6. DoorsFine'
    BY <1>1, <2>3, <2>5 DEF AlertInv, DoorsFine
  <2>7. RowsFine' /\ WordsFine'
    BY <1>1, <2>1, <2>2 DEF AlertInv, RowsFine, RowIsFine, WordsFine
  <2>8. \A x \in P!Existing : Episode(x)'
    BY <2>1 DEF AlertInv, Episode, P!Describes
  <2> QED BY <1>2, <2>2, <2>6, <2>7, <2>8 DEF AlertInv
<1>7. CASE r \in P!Existing
  <2>1. /\ rules' = [rules EXCEPT ![r] = [measure |-> q.measure, paused |-> q.paused,
                       state |-> IF reset THEN "learning" ELSE @.state, fired |-> IF reset THEN P!Never ELSE @.fired]]
        /\ said' = [said EXCEPT ![r] = IF reset THEN "nothing" ELSE @]
        /\ under' = IF q.paused THEN P!Without(under, r) ELSE under
        /\ crossed' = IF q.over THEN crossed \cup {r} ELSE crossed
        /\ patch' = [x \in Patches |->
             IF x = p THEN P!None
             ELSE IF patch[x].pc = "write" /\ patch[x].rule = r THEN [patch[x] EXCEPT !.over = TRUE] ELSE patch[x]]
    BY <1>5, <1>7 DEF P!PatchWrites
  <2>2. reset = (q.measure # q.stored.measure \/ q.paused # q.stored.paused)
    BY DEF P!EpisodeChanged
  <2>3. ~q.over => q.stored.measure = rules[r].measure /\ q.stored.paused = rules[r].paused
    BY <1>5, <1>4, <1>7 DEF AlertInv, DoorsFine, Fresh
  <2>4. RowIsFine(r) /\ Episode(r)
    BY <1>7 DEF AlertInv, RowsFine
  <2>5. Pending = [pc : {"write"}, rule : P!Rules, stored : P!Row, measure : AlertMeasures, paused : BOOLEAN, over : BOOLEAN]
    BY DEF Pending
  <2> HIDE DEF reset
  <2>6. /\ P!Existing' = P!Existing
        /\ \A x \in P!Existing \ {r} : rules'[x] = rules[x]
        /\ rules'[r] = [measure |-> q.measure, paused |-> q.paused,
                        state |-> IF reset THEN "learning" ELSE rules[r].state,
                        fired |-> IF reset THEN P!Never ELSE rules[r].fired]
    BY <1>7, <2>1 DEF P!Existing
  <2>7. /\ said' \in [P!Rules -> {"nothing", "fired", "recovered"}]
        /\ \A x \in P!Rules \ {r} : said'[x] = said[x]
        /\ said'[r] = IF reset THEN "nothing" ELSE said[r]
    BY <1>4, <2>1 DEF AlertInv, WordsFine
  <2>8. RowIsFine(r)'
    <3>1. rules[r].state \in P!State /\ rules[r].fired \in 0..MaxTicks /\ rules[r].fired <= clock
          /\ (rules[r].state = "firing" => rules[r].fired # 0)
      BY <2>4 DEF RowIsFine, P!Row, P!Never
    <3>2. "learning" \in P!State /\ 0 \in 0..MaxTicks /\ 0 <= clock
      BY <1>3, AlertsAreNumbers DEF P!State
    <3>3. rules'[r].state \in P!State /\ rules'[r].fired \in 0..MaxTicks /\ rules'[r].fired <= clock
      BY <2>6, <3>1, <3>2 DEF P!Never
    <3>4. rules'[r].state = "firing" => rules'[r].fired # 0
      BY <2>6, <3>1
    <3>5. rules'[r] \in P!Row
      BY <1>4, <2>6, <3>3 DEF P!Row
    <3> QED BY <1>1, <3>3, <3>4, <3>5 DEF RowIsFine, P!Never
  <2>9. \A x \in P!Existing \ {r} : P!Describes(x) => P!Describes(x)'
    <3>1. \A x \in DOMAIN under \ {r} : x \in DOMAIN under' /\ under'[x] = under[x]
      BY <2>1 DEF P!Without
    <3> QED BY <2>6, <3>1 DEF P!Describes
  <2>10. Episode(r)'
    <3>1. (rules'[r].state = "firing") <=> (said'[r] = "fired")
      BY <2>4, <2>6, <2>7 DEF Episode
    <3>2. ASSUME rules'[r].state = "firing", r \notin crossed' PROVE P!Describes(r)' /\ ~rules'[r].paused
      <4>1. ~reset /\ rules[r].state = "firing"
        BY <2>6, <3>2
      <4>2. ~q.over /\ r \notin crossed
        BY <2>1, <3>2
      <4>3. q.measure = rules[r].measure /\ q.paused = rules[r].paused
        BY <2>2, <2>3, <4>1, <4>2
      <4>4. P!Describes(r) /\ ~rules[r].paused
        BY <2>4, <4>1, <4>2 DEF Episode
      <4>5. under' = under
        BY <2>1, <4>3, <4>4
      <4> QED BY <2>6, <4>3, <4>4, <4>5 DEF P!Describes
    <3> QED BY <3>1, <3>2 DEF Episode
  <2>11. crossed \subseteq crossed' /\ crossed' \subseteq crossed \cup {r}
    BY <2>1
  <2>12. RowsFine' /\ WordsFine' /\ \A x \in P!Existing' : Episode(x)'
    <3>1. \A x \in P!Existing \ {r} : x \in P!Rules \ {r}
      BY ExistingIsBorn DEF AlertInv
    <3>2. \A x \in P!Existing \ {r} : rules'[x] = rules[x] /\ said'[x] = said[x]
      BY <2>6, <2>7, <3>1
    <3>3. sent' \in [P!Rules -> BOOLEAN]
      BY <1>1 DEF AlertInv, WordsFine
    <3> QED BY <1>1, <1>7, <2>6, <2>7, <2>8, <2>9, <2>10, <2>11, <3>2, <3>3, OneRow
  <2>13. DoorsFine'
    <3>1. ASSUME NEW x \in Patches
          PROVE  /\ patch'[x] \in {P!None} \cup Pending
                 /\ patch'[x].pc = "write" => patch'[x].rule <= born'
                 /\ Fresh(x)'
      <4>1. CASE x = p
        <5>1. patch'[x] = P!None /\ P!None.pc = "idle"
          BY <2>1, <4>1 DEF P!None
        <5> QED BY <5>1 DEF Fresh
      <4>2. CASE x # p /\ patch[x].pc = "write" /\ patch[x].rule = r
        <5>1. patch'[x] = [patch[x] EXCEPT !.over = TRUE]
          BY <2>1, <4>2
        <5>2. patch[x] \in Pending /\ patch[x].rule <= born
          BY <4>2, PendingIs DEF AlertInv, DoorsFine, P!None
        <5>3. patch'[x] \in Pending /\ patch'[x].over = TRUE /\ patch'[x].rule = patch[x].rule
          BY <5>1, <5>2 DEF Pending
        <5> QED BY <1>1, <5>2, <5>3 DEF Fresh
      <4>3. CASE x # p /\ ~(patch[x].pc = "write" /\ patch[x].rule = r)
        <5>1. patch'[x] = patch[x]
          BY <2>1, <4>3
        <5>2. patch[x] \in {P!None} \cup Pending /\ (patch[x].pc = "write" => patch[x].rule <= born) /\ Fresh(x)
          BY DEF AlertInv, DoorsFine
        <5>3. Fresh(x)'
          BY <2>6, <4>3, <5>1, <5>2 DEF Fresh
        <5> QED BY <1>1, <5>1, <5>2, <5>3
      <4> QED BY <4>1, <4>2, <4>3
    <3>2. patch' = [x \in Patches |-> patch'[x]]
      BY <2>1
    <3> QED BY <1>1, <3>1, <3>2 DEF AlertInv, DoorsFine
  <2> QED BY <1>2, <2>12, <2>13 DEF AlertInv
<1> QED BY <1>6, <1>7

LEMMA AlertStep == AlertInv /\ [P!Next]_P!vars => AlertInv'
<1> SUFFICES ASSUME AlertInv, [P!Next]_P!vars PROVE AlertInv'
  OBVIOUS
<1>1. ASSUME NEW e \in Evaluators, P!Tick(e) PROVE AlertInv'
  BY <1>1, TickAlerts
<1>2. ASSUME NEW e \in Evaluators, P!Dies(e) PROVE AlertInv'
  BY <1>2, DiesAlerts
<1>3. ASSUME NEW e \in Evaluators, NEW r \in DOMAIN tick[e].todo, P!Skip(e, r) PROVE AlertInv'
  BY <1>3, SkipAlerts
<1>4. ASSUME NEW e \in Evaluators, NEW r \in DOMAIN tick[e].todo, NEW cond \in P!State, P!Evaluate(e, r, cond)
      PROVE  AlertInv'
  BY <1>4, EvaluateAlerts
<1>5. ASSUME NEW c \in Creates, P!CreateReads(c) PROVE AlertInv'
  BY <1>5, CreateReadsAlerts
<1>6. ASSUME NEW c \in Creates, NEW m \in AlertMeasures, NEW paused \in BOOLEAN, P!CreateCommits(c, m, paused) PROVE AlertInv'
  BY <1>6, CreateCommitsAlerts
<1>7. ASSUME NEW p \in Patches, P!PatchWrites(p) PROVE AlertInv'
  BY <1>7, PatchWritesAlerts
<1>8. ASSUME NEW p \in Patches, NEW r \in P!Existing, NEW m \in AlertMeasures, NEW paused \in BOOLEAN, P!PatchReads(p, r, m, paused)
      PROVE  AlertInv'
  BY <1>8, PatchReadsAlerts
<1>9. ASSUME NEW r \in P!Existing, P!Delete(r) PROVE AlertInv'
  BY <1>9, DeleteAlerts
<1>10. ASSUME NEW n \in Limits, NEW f \in BOOLEAN, P!PlanChanges(n, f) PROVE AlertInv'
  BY <1>10, PlanChangesAlerts
<1>11. CASE UNCHANGED P!vars
  <2>1. UNCHANGED <<rules, born, limit, frozen, clock, tick, patch, create, edits, said, sent, under, crossed>>
    BY <1>11 DEF P!vars
  <2>2. TicksFine' /\ clock \in Nat
    BY <2>1, TicksStand, AlertsAreNumbers DEF AlertInv, RowsFine
  <2> QED BY <2>1, <2>2, AlertsStand DEF AlertInv, RowsFine, DoorsFine
<1> QED BY <1>1, <1>2, <1>3, <1>4, <1>5, <1>6, <1>7, <1>8, <1>9, <1>10, <1>11 DEF P!Next

LEMMA AlertInvariant == P!Spec => []AlertInv
<1> QED BY AlertInit, AlertStep, PTL DEF P!Spec

\* The rules, the runs of the evaluator and the requests in flight keep their shapes
\* (productalert.go, api/product_alerts.go).
THEOREM AlertsTypeCorrect == P!Spec => []P!TypeOK
<1>1. AlertInv => P!TypeOK
  BY AlertTypes
<1> QED BY <1>1, AlertInvariant, PTL

\* An edit or a pause that lands during a run wins: a row is firing exactly while the
\* channels' last word is "fired", and for what the rule measures now, for any number of
\* evaluators on old lists, PATCHes and rules (productalert.go's evaluate, the PATCH's
\* episodeChanged).
THEOREM EpisodesAreOfTheRule == P!Spec => []EpisodeIsOfTheRule
<1>1. AlertInv => EpisodeIsOfTheRule
  BY AlertTypes
<1> QED BY <1>1, AlertInvariant, PTL

\* A channel hears once when an episode starts and once when it ends (productalert.go,
\* package comment), whatever two evaluators, edits, pauses and deletes do in between.
THEOREM EpisodesAreSaidOnce == P!Spec => OnceEach
<1> DEFINE Once == \A r \in P!Rules : sent'[r] # sent[r] =>
                     said'[r] # said[r] /\ (said'[r] = "recovered" => said[r] = "fired")
<1>1. ASSUME AlertInv, NEW e \in Evaluators, NEW r \in DOMAIN tick[e].todo, NEW cond \in P!State, P!Evaluate(e, r, cond)
      PROVE  Once
  <2> DEFINE read == tick[e].todo[r]
             send == P!Send(read.state, cond)
  <2>1. CASE ~P!Unmoved(r, read)
    BY <1>1, <2>1 DEF P!Evaluate
  <2>2. CASE P!Unmoved(r, read)
    <3>1. /\ said' = [said EXCEPT ![r] = IF send = "nothing" THEN @ ELSE send]
          /\ sent' = [sent EXCEPT ![r] = IF send = "nothing" THEN @ ELSE ~@]
      BY <1>1, <2>2 DEF P!Evaluate
    <3>2. r \in P!Existing /\ rules[r].state = read.state
      BY <2>2 DEF P!Unmoved
    <3>3. (read.state = "firing") <=> (said[r] = "fired")
      BY <1>1, <3>2 DEF AlertInv, Episode
    <3>4. /\ send \in {"nothing", "fired", "recovered"}
          /\ send = "fired" => read.state # "firing"
          /\ send = "recovered" => read.state = "firing"
      BY DEF P!Send
    <3> HIDE DEF read, send
    <3>5. ASSUME NEW x \in P!Rules, sent'[x] # sent[x]
          PROVE  said'[x] # said[x] /\ (said'[x] = "recovered" => said[x] = "fired")
      <4>1. x = r /\ send # "nothing"
        BY <1>1, <3>1, <3>5 DEF AlertInv, WordsFine
      <4>2. said'[x] = send
        BY <1>1, <3>1, <4>1 DEF AlertInv, WordsFine
      <4> QED BY <3>3, <3>4, <4>1, <4>2
    <3> QED BY <3>5
  <2> QED BY <2>1, <2>2
<1>2. ASSUME AlertInv, P!Next PROVE Once
  <2>1. sent' = sent => Once
    OBVIOUS
  <2> HIDE DEF Once
  <2>2. \A e \in Evaluators : P!Tick(e) \/ P!Dies(e) => sent' = sent
    BY DEF P!Tick, P!Dies, P!ghosts
  <2>3. \A e \in Evaluators : \A r : P!Skip(e, r) => sent' = sent
    BY DEF P!Skip, P!ghosts
  <2>4. \A c \in Creates : P!CreateReads(c) => sent' = sent
    BY DEF P!CreateReads, P!ghosts
  <2>5. \A c \in Creates, m \in AlertMeasures, paused \in BOOLEAN : P!CreateCommits(c, m, paused) => sent' = sent
    BY DEF P!CreateCommits, P!ghosts
  <2>6. \A p \in Patches : P!PatchWrites(p) => sent' = sent
    BY DEF P!PatchWrites
  <2>7. \A p \in Patches : \A r, m, paused : P!PatchReads(p, r, m, paused) => sent' = sent
    BY DEF P!PatchReads, P!ghosts
  <2>8. \A r : P!Delete(r) => sent' = sent
    BY DEF P!Delete, P!ghosts
  <2>9. \A n, f : P!PlanChanges(n, f) => sent' = sent
    BY DEF P!PlanChanges, P!ghosts
  <2> QED BY <1>1, <1>2, <2>1, <2>2, <2>3, <2>4, <2>5, <2>6, <2>7, <2>8, <2>9 DEF P!Next
<1>3. AlertInv /\ [P!Next]_P!vars => [Once]_P!vars
  BY <1>2
<1> HIDE DEF Once
<1>4. P!Spec => [][Once]_P!vars
  BY <1>3, AlertInvariant, PTL DEF P!Spec
<1> QED BY <1>4 DEF OnceEach, P!OnceEach, Once
===============================================================================
