----------------------------- MODULE BoardsProofs -----------------------------
(***************************************************************************)
(* A save lands on what it was edited from, and laying Main down takes        *)
(* nothing from the workspace, for any sessions, keys, cards, names and plan.  *)
(*                                                                          *)
(* The invariant follows the rows the transactions hold.  A transaction is    *)
(* under a stamp of its own and holds rows that are there, or rows it is       *)
(* about to add under that stamp (TxFine); no two hold the same row (Apart);   *)
(* the committed rows are older than the clock (Below).  What a save holds of  *)
(* the workspace still has the base of the first entry that names it           *)
(* (SaveFine), because whoever writes a row waits for the one that holds it.   *)
(***************************************************************************)
EXTENDS Boards, WellFoundedInduction, TLAPS

LEMMA NatIsWellFounded == IsWellFoundedOn({w \in Nat \X Nat : w[1] < w[2]}, Nat)
BY NatLessThanWellFounded DEF OpToRel

LEMMA LeastIs ==
  ASSUME NEW ids \in SUBSET Nat, ids # {}
  PROVE  Least(ids) \in ids /\ \A j \in ids : Least(ids) <= j
<1> DEFINE R == {w \in Nat \X Nat : w[1] < w[2]}
<1>1. \A i, j \in Nat : <<j, i>> \notin R => i <= j
  OBVIOUS
<1>2. IsWellFoundedOn(R, Nat)
  BY NatIsWellFounded
<1> HIDE DEF R
<1>3. \E i \in ids : \A j \in ids : <<j, i>> \notin R
  BY <1>2, WFMin
<1>4. \E i \in ids : \A j \in ids : i <= j
  BY <1>1, <1>3
<1> QED BY <1>4 DEF Least

\* Rows laid over rows are rows.
LEMMA OverRows ==
  ASSUME NEW rows, NEW old
  PROVE  /\ DOMAIN Over(rows, old) = DOMAIN rows \cup DOMAIN old
         /\ \A i \in DOMAIN rows : Over(rows, old)[i] = rows[i]
         /\ \A i \in DOMAIN old \ DOMAIN rows : Over(rows, old)[i] = old[i]
         /\ AreRows(rows) /\ AreRows(old) => AreRows(Over(rows, old))
<1>1. /\ DOMAIN Over(rows, old) = DOMAIN rows \cup DOMAIN old
      /\ \A i \in DOMAIN rows : Over(rows, old)[i] = rows[i]
      /\ \A i \in DOMAIN old \ DOMAIN rows : Over(rows, old)[i] = old[i]
  BY DEF Over
<1> QED BY <1>1 DEF AreRows

LEMMA OverAreRows ==
  ASSUME NEW rows, NEW old, AreRows(rows), AreRows(old)
  PROVE  AreRows(Over(rows, old))
BY OverRows

LEMMA OnlyRow ==
  ASSUME NEW i, NEW row
  PROVE  /\ DOMAIN Only(i, row) = {i} /\ Only(i, row)[i] = row
         /\ i \in Nat /\ row \in Row => AreRows(Only(i, row))
BY DEF Only, AreRows

LEMMA NoRows == DOMAIN <<>> = {} /\ AreRows(<<>>)
<1>1. DOMAIN <<>> = {}
  OBVIOUS
<1> QED BY <1>1 DEF AreRows

LEMMA NewRowIs ==
  ASSUME NEW n \in Names, NEW layout \in Layouts, NEW by \in {"session", "key"}
  PROVE  NewRow(n, layout, by) \in Row /\ NewRow(n, layout, by).own
BY DEF NewRow, Row

\* Laying Main down makes one new row or takes over rows of another tenant.
LEMMA UpsertIs ==
  ASSUME NEW view, AreRows(view), NEW t \in Nat, NEW layout \in Layouts, NEW by \in {"session", "key"}
  PROVE  /\ AreRows(Upsert(view, t, layout, by))
         /\ \A i \in DOMAIN Upsert(view, t, layout, by) : Upsert(view, t, layout, by)[i].own
         /\ \/ DOMAIN Upsert(view, t, layout, by) = {MainId(t)} /\ Named(view, Main) = {}
            \/ DOMAIN Upsert(view, t, layout, by) = Taken(view) /\ Named(view, Main) # {}
<1>1. PICK row \in Row : row = NewRow(Main, layout, by) /\ row.own
  BY NewRowIs, BoardsAssumption
<1>2. CASE Named(view, Main) = {}
  <2>1. Upsert(view, t, layout, by) = Only(MainId(t), row)
    BY <1>1, <1>2 DEF Upsert
  <2>2. MainId(t) \in Nat
    BY DEF MainId
  <2>3. /\ DOMAIN Only(MainId(t), row) = {MainId(t)} /\ Only(MainId(t), row)[MainId(t)] = row
        /\ AreRows(Only(MainId(t), row))
    BY <2>2, OnlyRow
  <2> QED BY <1>1, <1>2, <2>1, <2>3
<1>3. CASE Named(view, Main) # {}
  <2>1. Upsert(view, t, layout, by) = [i \in Taken(view) |-> row]
    BY <1>1, <1>3 DEF Upsert
  <2>2. Taken(view) \subseteq Nat
    BY DEF Taken, Named, AreRows
  <2> QED BY <1>1, <1>3, <2>1, <2>2 DEF AreRows
<1> QED BY <1>2, <1>3

LEMMA ViewIs ==
  ASSUME TypeOK, NEW c \in Requests
  PROVE  /\ AreRows(View(c)) /\ DOMAIN View(c) = DOMAIN pend[c] \cup DOMAIN boards
         /\ \A i \in DOMAIN pend[c] : View(c)[i] = pend[c][i]
         /\ \A i \in DOMAIN boards \ DOMAIN pend[c] : View(c)[i] = boards[i]
<1>1. PICK held : held = pend[c]
  OBVIOUS
<1>2. AreRows(held) /\ AreRows(boards) /\ View(c) = Over(held, boards)
  BY <1>1 DEF TypeOK, View
<1>3. AreRows(Over(held, boards))
  BY <1>2, OverAreRows
<1>4. /\ DOMAIN Over(held, boards) = DOMAIN held \cup DOMAIN boards
      /\ \A i \in DOMAIN held : Over(held, boards)[i] = held[i]
      /\ \A i \in DOMAIN boards \ DOMAIN held : Over(held, boards)[i] = boards[i]
  BY OverRows
<1>5. AreRows(View(c))
  BY <1>2, <1>3
<1> QED BY <1>1, <1>2, <1>4, <1>5

\* The board a request resolves is one of the workspace's.
LEMMA ResolveIs ==
  ASSUME NEW view, AreRows(view), NEW id \in Nat
  PROVE  /\ Oldest(view) \in Nat /\ (Oldest(view) # None => Oldest(view) \in Own(view))
         /\ Resolve(view, id) \in Nat /\ (Resolve(view, id) # None => Resolve(view, id) \in Own(view))
<1>1. Own(view) \in SUBSET Nat
  BY DEF Own, AreRows
<1>2. Oldest(view) \in Nat /\ (Oldest(view) # None => Oldest(view) \in Own(view))
  BY <1>1, LeastIs DEF Oldest, None
<1> QED BY <1>1, <1>2 DEF Resolve, None

-----------------------------------------------------------------------------
(* The invariant.                                                            *)

InTx(c) == req[c].op = "create" \/ (req[c].op = "save" /\ req[c].pc # "resolved")
Stamp(c) == {MainId(req[c].at), NamedId(req[c].at)}

\* A transaction has a stamp of its own, and holds rows that are there or that it
\* is about to add under that stamp.
TxFine(c) ==
  /\ InTx(c) => req[c].at < now /\ Stamp(c) \cap DOMAIN boards = {}
  /\ DOMAIN pend[c] \subseteq DOMAIN boards \cup Stamp(c)
  /\ ~InTx(c) \/ req[c].pc \in {"begun", "locked"} => DOMAIN pend[c] = {}
  /\ \A i \in DOMAIN pend[c] : pend[c][i].own

\* Entry k of the save is the first that names board i, and was edited from what i holds.
First(c, i, k) ==
  /\ req[c].edits[k].id = i /\ req[c].edits[k].base = boards[i].layout
  /\ \A j \in 1..(k - 1) : req[c].edits[j].id # i

\* A save holds the boards of the entries it has worked off, each by its base.
SaveFine(c) ==
  req[c].op = "save" =>
    /\ req[c].k <= Len(req[c].edits) + 1 /\ (InTx(c) => req[c].k >= 1)
    /\ \A j \in 1..(req[c].k - 1) : req[c].edits[j].id \in DOMAIN pend[c]
    /\ \A i \in DOMAIN pend[c] \cap Own(boards) : \E k \in 1..(req[c].k - 1) : First(c, i, k)

\* A create holds no board of the workspace.
CreateFine(c) == req[c].op = "create" => DOMAIN pend[c] \cap Own(boards) = {}

Fine(c) == TxFine(c) /\ SaveFine(c) /\ CreateFine(c)

Apart(c, d) ==
  /\ DOMAIN pend[c] \cap DOMAIN pend[d] = {}
  /\ InTx(c) /\ InTx(d) => req[c].at # req[d].at

Below == \A i \in DOMAIN boards : i < MainId(now)

IInv ==
  /\ TypeOK /\ Below
  /\ \A c \in Requests : Fine(c) /\ \A d \in Requests \ {c} : Apart(c, d)

-----------------------------------------------------------------------------
(* What a step of one request leaves of the others.                          *)

\* The rows d's transaction holds are as they were, and the ids of its stamp free.
Undisturbed(d) ==
  /\ \A i \in DOMAIN pend[d] : /\ i \in DOMAIN boards' <=> i \in DOMAIN boards
                               /\ i \in DOMAIN boards => boards'[i] = boards[i]
  /\ InTx(d) => Stamp(d) \cap DOMAIN boards' = {}

LEMMA Stands ==
  ASSUME IInv, NEW d \in Requests, req'[d] = req[d], pend'[d] = pend[d], now' \in {now, now + 1}, Undisturbed(d)
  PROVE  Fine(d)'
<1>1. Fine(d) /\ now \in Nat /\ req[d] \in Request
  BY DEF IInv, TypeOK
<1>2. TxFine(d)'
  <2>1. InTx(d)' <=> InTx(d)
    BY DEF InTx
  <2>2. Stamp(d)' = Stamp(d)
    BY DEF Stamp
  <2>3. InTx(d) => req[d].at < now'
    BY <1>1 DEF Fine, TxFine, Request
  <2> QED BY <1>1, <2>1, <2>2, <2>3 DEF Fine, TxFine, Undisturbed
<1>3. \A i \in DOMAIN pend[d] : i \in Own(boards') <=> i \in Own(boards)
  BY DEF Undisturbed, Own
<1>4. CreateFine(d)'
  BY <1>1, <1>3 DEF Fine, CreateFine
<1>5. SaveFine(d)'
  <2>1. \A i \in DOMAIN pend[d] \cap Own(boards) : boards'[i] = boards[i]
    BY DEF Undisturbed, Own
  <2>2. ASSUME req[d].op = "save", NEW i \in DOMAIN pend[d] \cap Own(boards')
        PROVE  \E k \in 1..(req[d].k - 1) : First(d, i, k)'
    <3>1. i \in Own(boards) /\ boards'[i] = boards[i]
      BY <1>3, <2>1, <2>2
    <3>2. PICK k \in 1..(req[d].k - 1) : First(d, i, k)
      BY <1>1, <2>2, <3>1 DEF Fine, SaveFine
    <3>3. First(d, i, k)'
      BY <3>1, <3>2 DEF First
    <3> QED BY <3>3
  <2>3. InTx(d)' <=> InTx(d)
    BY DEF InTx
  <2> QED BY <1>1, <2>2, <2>3 DEF Fine, SaveFine
<1> QED BY <1>2, <1>4, <1>5 DEF Fine

\* A step of request c keeps the invariant if it disturbs nobody and leaves c fine.
LEMMA Moves ==
  ASSUME IInv, NEW c \in Requests, NEW x \in Request, req' = [req EXCEPT ![c] = x],
         DOMAIN pend' = Requests, AreRows(pend'[c]), \A d \in Requests \ {c} : pend'[d] = pend[d],
         now' \in {now, now + 1}, AreRows(boards'), Below',
         \A d \in Requests \ {c} : /\ Undisturbed(d) /\ DOMAIN pend'[c] \cap DOMAIN pend[d] = {}
                                   /\ InTx(c)' /\ InTx(d) => x.at # req[d].at,
         Fine(c)'
  PROVE  IInv'
<1>1. /\ req' \in [Requests -> Request] /\ req'[c] = x
      /\ \A d \in Requests \ {c} : req'[d] = req[d]
  BY DEF IInv, TypeOK
<1>2. TypeOK'
  <2>1. now' \in Nat
    BY DEF IInv, TypeOK
  <2>2. \A d \in Requests : AreRows(pend'[d])
    BY DEF IInv, TypeOK
  <2> QED BY <1>1, <2>1, <2>2 DEF TypeOK, AreRows
<1>3. \A d \in Requests \ {c} : Fine(d)'
  BY <1>1, Stands
<1>4. \A d \in Requests \ {c} : InTx(d)' <=> InTx(d)
  BY <1>1 DEF InTx
<1>5. \A d \in Requests \ {c} : Apart(c, d)' /\ Apart(d, c)'
  BY <1>1, <1>4 DEF Apart
<1>6. \A d \in Requests \ {c} : \A e \in Requests \ {c, d} : Apart(d, e)'
  BY <1>1, <1>4 DEF IInv, Apart
<1> QED BY <1>2, <1>3, <1>5, <1>6 DEF IInv

\* A request that is not in a transaction, and holds nothing, is fine.
LEMMA RestFine ==
  ASSUME NEW c \in Requests, req[c] \in Request, DOMAIN pend[c] = {},
         req[c].op \notin {"create", "save"} \/ (req[c].op = "save" /\ req[c].pc = "resolved" /\ req[c].k = 0)
  PROVE  Fine(c) /\ ~InTx(c)
<1>1. ~InTx(c)
  BY DEF InTx
<1>2. req[c].op = "save" => req[c].k <= Len(req[c].edits) + 1 /\ 1..(req[c].k - 1) = {}
  <2>1. Len(req[c].edits) \in Nat
    BY DEF Request
  <2> QED BY <2>1
<1> QED BY <1>1, <1>2 DEF Fine, TxFine, SaveFine, CreateFine

LEMMA Stamps ==
  ASSUME IInv, NEW d \in Requests
  PROVE  /\ InTx(d) => MainId(now) \notin Stamp(d) /\ \A i \in Stamp(d) : i < MainId(now)
         /\ \A i \in DOMAIN pend[d] : i < MainId(now) /\ i # MainId(now)
         /\ ~InTx(d) => DOMAIN pend[d] = {}
         /\ now \in Nat /\ MainId(now) \in Nat /\ MainId(now + 1) = MainId(now) + 2
<1>1. now \in Nat /\ req[d].at \in Nat /\ TxFine(d)
  BY DEF IInv, TypeOK, Request, Fine
<1>2. InTx(d) => \A i \in Stamp(d) : i < MainId(now)
  BY <1>1 DEF TxFine, Stamp, MainId, NamedId
<1>3. \A i \in DOMAIN pend[d] : i \in Nat /\ i < MainId(now)
  BY <1>1, <1>2 DEF TxFine, IInv, Below, TypeOK, AreRows
<1>4. MainId(now) \in Nat /\ MainId(now + 1) = MainId(now) + 2
  BY <1>1 DEF MainId
<1>5. InTx(d) => MainId(now) \notin Stamp(d)
  BY <1>2, <1>4
<1> QED BY <1>1, <1>2, <1>3, <1>4, <1>5 DEF TxFine

\* Nobody is disturbed when the boards stay as they are.
LEMMA SameBoards ==
  ASSUME IInv, UNCHANGED boards, now' \in {now, now + 1}
  PROVE  AreRows(boards') /\ Below' /\ \A d \in Requests : Undisturbed(d)
<1>1. now \in Nat /\ AreRows(boards)
  BY DEF IInv, TypeOK
<1>2. Below'
  BY <1>1 DEF IInv, Below, MainId, AreRows
<1>3. \A d \in Requests : Undisturbed(d)
  BY DEF IInv, Fine, TxFine, Undisturbed
<1> QED BY <1>1, <1>2, <1>3 DEF AreRows

\* Nor when what is written is rows nobody holds, or a row under a stamp just taken.
LEMMA Written ==
  ASSUME IInv, NEW c \in Requests, NEW rows, AreRows(rows), boards' = Over(rows, boards),
         \/ now' = now /\ DOMAIN rows \subseteq DOMAIN boards
         \/ now' = now + 1 /\ DOMAIN rows \subseteq DOMAIN boards \cup {MainId(now)},
         \A i \in DOMAIN rows \cap DOMAIN boards : RowFree(c, i)
  PROVE  /\ AreRows(boards') /\ Below' /\ \A d \in Requests \ {c} : Undisturbed(d)
         /\ DOMAIN boards \subseteq DOMAIN boards' /\ \A i \in DOMAIN boards \ DOMAIN rows : boards'[i] = boards[i]
<1>1. now \in Nat /\ AreRows(boards)
  BY DEF IInv, TypeOK
<1>2. PICK all : all = Over(rows, boards)
  OBVIOUS
<1>3. /\ DOMAIN all = DOMAIN rows \cup DOMAIN boards /\ AreRows(all)
      /\ \A i \in DOMAIN boards \ DOMAIN rows : all[i] = boards[i]
  <2>1. /\ DOMAIN Over(rows, boards) = DOMAIN rows \cup DOMAIN boards /\ AreRows(Over(rows, boards))
        /\ \A i \in DOMAIN boards \ DOMAIN rows : Over(rows, boards)[i] = boards[i]
    BY <1>1, OverRows, OverAreRows, Zenon
  <2> QED BY <1>2, <2>1
<1>4. boards' = all
  BY <1>2
<1>5. AreRows(boards')
  BY <1>3, <1>4 DEF AreRows
<1>6. Below'
  <2>1. \A i \in DOMAIN all : i \in Nat /\ (i < MainId(now) \/ (i = MainId(now) /\ now' = now + 1))
    BY <1>3 DEF IInv, Below, AreRows
  <2>2. MainId(now) \in Nat /\ (now' = now + 1 => MainId(now') = MainId(now) + 2) /\ (now' = now => MainId(now') = MainId(now))
    BY <1>1 DEF MainId
  <2> QED BY <1>4, <2>1, <2>2 DEF Below
<1>7. ASSUME NEW d \in Requests \ {c}
      PROVE  Undisturbed(d)
  <2>1. \A i \in DOMAIN rows : i \notin DOMAIN pend[d]
    BY Stamps DEF RowFree
  <2>2. InTx(d) => Stamp(d) \cap DOMAIN all = {}
    BY <1>3, Stamps DEF IInv, Fine, TxFine
  <2> QED BY <1>3, <1>4, <2>1, <2>2 DEF Undisturbed
<1> QED BY <1>3, <1>4, <1>5, <1>6, <1>7

\* A door of one statement, or a refusal: c holds nothing afterwards.
LEMMA Answers ==
  ASSUME IInv, NEW c \in Requests, NEW x \in Request, req' = [req EXCEPT ![c] = x],
         x.op \notin {"create", "save"} \/ (x.op = "save" /\ x.pc = "resolved" /\ x.k = 0),
         \/ UNCHANGED pend /\ DOMAIN pend[c] = {}
         \/ pend' = [pend EXCEPT ![c] = <<>>],
         now' \in {now, now + 1}, AreRows(boards'), Below', \A d \in Requests \ {c} : Undisturbed(d)
  PROVE  IInv'
<1>1. /\ DOMAIN pend' = Requests /\ AreRows(pend'[c]) /\ DOMAIN pend'[c] = {}
      /\ \A d \in Requests \ {c} : pend'[d] = pend[d]
  BY NoRows DEF IInv, TypeOK
<1>2. req'[c] = x
  BY DEF IInv, TypeOK
<1>3. Fine(c)' /\ ~InTx(c)'
  <2>1. ~InTx(c)'
    BY <1>2 DEF InTx
  <2>2. x.op = "save" => x.k <= Len(x.edits) + 1 /\ 1..(x.k - 1) = {}
    <3>1. Len(x.edits) \in Nat
      BY DEF Request
    <3> QED BY <3>1
  <2> QED BY <1>1, <1>2, <2>1, <2>2 DEF Fine, TxFine, SaveFine, CreateFine
<1> QED BY <1>1, <1>3, Moves

LEMMA IdleIs == Idle \in Request /\ Done \in Request /\ Done.op = "done" /\ Idle.op = "idle"
<1>1. <<>> \in Seq(Entry) /\ {} \in Layouts /\ Main \in Names
  BY BoardsAssumption DEF Layouts
<1>2. Idle \in Request /\ Idle.op = "idle"
  BY <1>1 DEF Idle, Request, None
<1>3. [Idle EXCEPT !.op = "done"] \in Request /\ [Idle EXCEPT !.op = "done"].op = "done"
  BY <1>2 DEF Request
<1> QED BY <1>2, <1>3 DEF Done

\* A request that ends its transaction without a word to the boards.
LEMMA RefuseStep ==
  ASSUME IInv, NEW c \in Requests, Refuse(c), UNCHANGED <<boards, now>>
  PROVE  IInv'
BY IdleIs, SameBoards, Answers DEF Refuse, Answer

-----------------------------------------------------------------------------
(* The doors of one statement.                                               *)

LEMMA RequestIs ==
  ASSUME TypeOK, NEW c \in Requests
  PROVE  /\ req[c] \in Request /\ req[c].b \in Nat /\ req[c].seen \in Layouts /\ req[c].doc \in Layouts
         /\ req[c].name \in Names /\ req[c].at \in Nat /\ req[c].edits \in Seq(Entry) /\ req[c].k \in Nat
         /\ req[c].by \in {"session", "key"} /\ Door(c) \in {"session", "key"}
BY DEF TypeOK, Request, Door

LEMMA BeginStep ==
  ASSUME IInv, NEW c \in Requests, NEW id \in Nat, NEW doc \in Layouts, NEW n \in Names,
         NEW op \in {"put", "append", "rename", "delete", "clear"}, Begin(c, op, id, doc, n)
  PROVE  IInv'
<1> DEFINE b == Resolve(boards, id)
           seen == IF b = None THEN {} ELSE boards[b].layout
           by == IF b = None THEN "key" ELSE boards[b].by
           x == [Idle EXCEPT !.op = op, !.pc = "resolved", !.b = b, !.doc = doc, !.name = n,
                             !.seen = seen, !.by = by]
<1>1. b \in Nat /\ (b # None => b \in DOMAIN boards /\ boards[b] \in Row)
  <2>1. AreRows(boards)
    BY DEF IInv, TypeOK
  <2>2. b \in Nat /\ (b # None => b \in Own(boards))
    BY <2>1, ResolveIs
  <2> HIDE DEF b
  <2> QED BY <2>1, <2>2 DEF Own, AreRows
<1>2. seen \in Layouts /\ by \in {"session", "key"}
  <2> HIDE DEF b
  <2> QED BY <1>1 DEF Row, Layouts
<1>3. x \in Request /\ x.op = op
  <2> HIDE DEF b, seen, by
  <2> QED BY <1>1, <1>2, IdleIs, Zenon DEF Request
<1>4. req[c].op = "idle" /\ req' = [req EXCEPT ![c] = x] /\ UNCHANGED <<boards, pend, now>>
  BY DEF Begin
<1> HIDE DEF x
<1>5. DOMAIN pend[c] = {}
  BY <1>4, Stamps DEF InTx
<1> QED BY <1>3, <1>4, <1>5, SameBoards, Answers

LEMMA LayAliasStep ==
  ASSUME IInv, NEW c \in Requests, LayAlias(c)
  PROVE  IInv' /\ \A i \in Own(boards) : i \in DOMAIN boards' /\ boards'[i] = boards[i]
<1>1. /\ now \in Nat /\ req[c] \in Request /\ req[c].doc \in Layouts /\ Door(c) \in {"session", "key"} /\ AreRows(boards)
      /\ DOMAIN pend[c] = {}
  BY RequestIs, Stamps DEF IInv, TypeOK, LayAlias, InTx
<1> DEFINE laid == Upsert(boards, now, req[c].doc, Door(c))
<1>2. /\ AreRows(laid)
      /\ \/ DOMAIN laid = {MainId(now)} /\ Named(boards, Main) = {}
         \/ DOMAIN laid = Taken(boards)
  BY <1>1, UpsertIs
<1>3. MayUpsert(c) /\ now' = now + 1 /\ boards' = Over(laid, boards) /\ UNCHANGED pend
  BY DEF LayAlias
<1>4. PICK x \in Request : req' = [req EXCEPT ![c] = x] /\ x.op \in {"done", "put", "append"}
  <2>1. CASE Answer(c)
    BY <2>1, IdleIs DEF Answer
  <2>2. CASE req' = [req EXCEPT ![c].pc = "relay"]
    <3>1. [req[c] EXCEPT !.pc = "relay"] \in Request /\ [req[c] EXCEPT !.pc = "relay"].op = req[c].op
      BY <1>1 DEF Request
    <3>2. req' = [req EXCEPT ![c] = [req[c] EXCEPT !.pc = "relay"]]
      BY <2>2
    <3> QED BY <3>1, <3>2 DEF LayAlias
  <2> QED BY <2>1, <2>2 DEF LayAlias
<1> HIDE DEF laid
<1>5. \A i \in DOMAIN laid \cap DOMAIN boards : RowFree(c, i) /\ i \notin Own(boards)
  <2>1. MainId(now) \notin DOMAIN boards
    BY <1>1 DEF IInv, Below, MainId
  <2> QED BY <1>2, <1>3, <2>1 DEF MayUpsert, Taken, Own
<1>6. /\ AreRows(boards') /\ Below' /\ \A d \in Requests \ {c} : Undisturbed(d)
      /\ DOMAIN boards \subseteq DOMAIN boards' /\ \A i \in DOMAIN boards \ DOMAIN laid : boards'[i] = boards[i]
  <2>1. DOMAIN laid \subseteq DOMAIN boards \cup {MainId(now)}
    BY <1>2 DEF Taken, Named
  <2> QED BY <1>2, <1>3, <1>5, <2>1, Written
<1>7. IInv'
  BY <1>1, <1>3, <1>4, <1>6, Answers
<1>8. \A i \in Own(boards) : i \in DOMAIN boards /\ i \notin DOMAIN laid
  BY <1>5 DEF Own
<1> QED BY <1>6, <1>7, <1>8

\* One UPDATE of a row of the workspace nobody holds.
LEMMA UpdateStep ==
  ASSUME IInv, NEW c \in Requests, NEW row, Update(c, row), req[c].op \notin {"create", "save"},
         req[c].b \in Own(boards) => row \in Row
  PROVE  IInv'
<1>1. DOMAIN pend[c] = {} /\ req' = [req EXCEPT ![c] = Done] /\ UNCHANGED <<pend, now>>
  BY Stamps DEF Update, Answer, InTx
<1>2. CASE req[c].b \in Own(boards)
  <2> DEFINE rows == Only(req[c].b, row)
  <2>1. boards' = Over(rows, boards) /\ RowFree(c, req[c].b)
    BY <1>2 DEF Update
  <2>2. DOMAIN rows = {req[c].b} /\ AreRows(rows) /\ req[c].b \in DOMAIN boards
    BY <1>2, RequestIs, OnlyRow DEF IInv, Own
  <2> HIDE DEF rows
  <2>3. AreRows(boards') /\ Below' /\ \A d \in Requests \ {c} : Undisturbed(d)
    BY <1>1, <2>1, <2>2, Written
  <2> QED BY <1>1, <2>3, IdleIs, Answers
<1>3. CASE req[c].b \notin Own(boards)
  <2>1. UNCHANGED boards
    BY <1>3 DEF Update
  <2> QED BY <1>1, <2>1, IdleIs, SameBoards, Answers
<1> QED BY <1>2, <1>3

\* A board's row stays one under an edit of one of its fields.
LEMMA RowOffered == \A row \in Row, offer \in SUBSET Layouts : [row EXCEPT !.offer = offer] \in Row
BY DEF Row

LEMMA RowRedrawn == \A row \in Row, layout \in Layouts : [row EXCEPT !.layout = layout] \in Row
BY DEF Row

LEMMA RowWritten ==
  \A row \in Row, layout \in Layouts, by \in {"session", "key"} :
    [row EXCEPT !.layout = layout, !.by = by, !.offer = {}] \in Row
BY DEF Row

LEMMA RowNamed == \A row \in Row, n \in Names : [row EXCEPT !.name = n] \in Row
BY DEF Row

\* What a request can write, and the row it writes over.
LEMMA TargetIs ==
  ASSUME TypeOK, NEW c \in Requests
  PROVE  req[c].b \in Own(boards) => Target(c) \in Row
BY DEF TypeOK, AreRows, Own, Target

LEMMA DoorsStep ==
  ASSUME IInv, NEW c \in Requests, PutBoard(c) \/ AppendBoard(c) \/ ClearProposal(c) \/ RenameBoard(c)
  PROVE  IInv'
<1>1. /\ req[c].doc \in Layouts /\ req[c].seen \in Layouts /\ req[c].name \in Names /\ Door(c) \in {"session", "key"}
      /\ req[c].b \in Own(boards) => Target(c) \in Row
  BY RequestIs, TargetIs DEF IInv
<1>2. req[c].seen \cup req[c].doc \in Layouts
  BY <1>1 DEF Layouts
<1>3. PutBoard(c) => IInv'
  <2> SUFFICES ASSUME PutBoard(c) PROVE IInv'
    OBVIOUS
  <2> DEFINE offered == [Target(c) EXCEPT !.offer = {req[c].doc}]
             written == [Target(c) EXCEPT !.layout = req[c].doc, !.by = Door(c), !.offer = {}]
             row == IF Door(c) = "key" /\ req[c].by = "session" THEN offered ELSE written
  <2>1. Update(c, row) /\ req[c].op = "put"
    BY DEF PutBoard
  <2>2. {req[c].doc} \in SUBSET Layouts
    BY <1>1
  <2>3. req[c].b \in Own(boards) => offered \in Row
    <3>1. Target(c) \in Row => offered \in Row
      BY <2>2, RowOffered
    <3> QED BY <1>1, <3>1
  <2>4. req[c].b \in Own(boards) => written \in Row
    <3>1. Target(c) \in Row => written \in Row
      BY <1>1, RowWritten, Zenon
    <3> QED BY <1>1, <3>1
  <2> HIDE DEF offered, written
  <2>5. req[c].b \in Own(boards) => row \in Row
    BY <2>3, <2>4
  <2> HIDE DEF row
  <2> QED BY <2>1, <2>5, UpdateStep
<1>4. AppendBoard(c) => IInv'
  <2> SUFFICES ASSUME AppendBoard(c) PROVE IInv'
    OBVIOUS
  <2> DEFINE row == [Target(c) EXCEPT !.layout = req[c].seen \cup req[c].doc]
  <2>1. Update(c, row) /\ req[c].op = "append"
    BY DEF AppendBoard
  <2>2. req[c].b \in Own(boards) => row \in Row
    BY <1>1, <1>2, RowRedrawn
  <2> HIDE DEF row
  <2> QED BY <2>1, <2>2, UpdateStep
<1>5. ClearProposal(c) => IInv'
  <2> SUFFICES ASSUME ClearProposal(c) PROVE IInv'
    OBVIOUS
  <2> DEFINE row == [Target(c) EXCEPT !.offer = {}]
  <2>1. Update(c, row) /\ req[c].op = "clear"
    BY DEF ClearProposal
  <2>2. req[c].b \in Own(boards) => row \in Row
    BY <1>1, RowOffered
  <2> HIDE DEF row
  <2> QED BY <2>1, <2>2, UpdateStep
<1>6. RenameBoard(c) => IInv'
  <2> SUFFICES ASSUME RenameBoard(c) PROVE IInv'
    OBVIOUS
  <2> DEFINE row == [Target(c) EXCEPT !.name = req[c].name]
  <2>1. req[c].op = "rename"
    BY DEF RenameBoard
  <2>2. req[c].b \in Own(boards) => row \in Row
    BY <1>1, RowNamed
  <2>3. CASE Update(c, row)
    <3> HIDE DEF row
    <3> QED BY <2>1, <2>2, <2>3, UpdateStep
  <2>4. CASE Answer(c) /\ UNCHANGED <<boards, pend, now>>
    BY <2>1, <2>4, IdleIs, SameBoards, Answers, Stamps DEF Answer, InTx
  <2> QED BY <2>3, <2>4 DEF RenameBoard
<1> QED BY <1>3, <1>4, <1>5, <1>6

LEMMA RenameCreatesStep ==
  ASSUME IInv, NEW c \in Requests, RenameCreates(c)
  PROVE  IInv'
<1>1. /\ now \in Nat /\ req[c] \in Request /\ req[c].name \in Names /\ DOMAIN pend[c] = {}
      /\ req[c].op = "rename" /\ now' = now + 1 /\ UNCHANGED pend
  BY RequestIs, Stamps DEF IInv, TypeOK, RenameCreates, InTx
<1>2. CASE boards' = Over(Only(MainId(now), NewRow(req[c].name, {}, "key")), boards) /\ Answer(c)
  <2> DEFINE rows == Only(MainId(now), NewRow(req[c].name, {}, "key"))
  <2>1. NewRow(req[c].name, {}, "key") \in Row
    BY <1>1, NewRowIs DEF Layouts
  <2>2. DOMAIN rows = {MainId(now)} /\ AreRows(rows) /\ boards' = Over(rows, boards)
    BY <1>2, <2>1, Stamps, OnlyRow
  <2>3. MainId(now) \notin DOMAIN boards
    BY <1>1 DEF IInv, Below, MainId
  <2> HIDE DEF rows
  <2>4. AreRows(boards') /\ Below' /\ \A d \in Requests \ {c} : Undisturbed(d)
    BY <1>1, <2>2, <2>3, Written
  <2> QED BY <1>1, <1>2, <2>4, IdleIs, Answers DEF Answer
<1>3. CASE req' = [req EXCEPT ![c].pc = "relay"] /\ UNCHANGED boards
  <2>1. [req[c] EXCEPT !.pc = "relay"] \in Request /\ [req[c] EXCEPT !.pc = "relay"].op = "rename"
    BY <1>1 DEF Request
  <2>2. req' = [req EXCEPT ![c] = [req[c] EXCEPT !.pc = "relay"]]
    BY <1>3
  <2> QED BY <1>1, <1>3, <2>1, <2>2, SameBoards, Answers
<1> QED BY <1>2, <1>3 DEF RenameCreates

LEMMA DeleteCountsStep ==
  ASSUME IInv, NEW c \in Requests, DeleteCounts(c)
  PROVE  IInv'
<1>1. /\ req[c] \in Request /\ DOMAIN pend[c] = {} /\ req[c].op = "delete" /\ UNCHANGED <<boards, pend, now>>
  BY RequestIs, Stamps DEF IInv, DeleteCounts, InTx
<1>2. [req[c] EXCEPT !.pc = "counted"] \in Request /\ [req[c] EXCEPT !.pc = "counted"].op = "delete"
  BY <1>1 DEF Request
<1>3. PICK x \in Request : req' = [req EXCEPT ![c] = x] /\ x.op \in {"done", "delete"}
  <2>1. CASE Answer(c)
    BY <2>1, IdleIs DEF Answer
  <2>2. CASE req' = [req EXCEPT ![c].pc = "counted"]
    BY <1>2, <2>2
  <2> QED BY <2>1, <2>2 DEF DeleteCounts
<1> QED BY <1>1, <1>3, SameBoards, Answers

LEMMA DeleteBoardStep ==
  ASSUME IInv, NEW c \in Requests, DeleteBoard(c)
  PROVE  IInv'
<1>1. /\ DOMAIN pend[c] = {} /\ RowFree(c, req[c].b) /\ req' = [req EXCEPT ![c] = Done] /\ UNCHANGED <<pend, now>>
      /\ boards' = [i \in DOMAIN boards \ {req[c].b} |-> boards[i]]
  BY Stamps DEF DeleteBoard, Answer, InTx
<1>2. AreRows(boards') /\ Below'
  BY <1>1 DEF IInv, TypeOK, AreRows, Below
<1>3. \A d \in Requests \ {c} : Undisturbed(d)
  BY <1>1 DEF RowFree, Undisturbed, IInv, Fine, TxFine
<1> QED BY <1>1, <1>2, <1>3, IdleIs, Answers

-----------------------------------------------------------------------------
(* Transactions.                                                             *)

\* A step inside a request that writes nothing.
LEMMA WritesNothing ==
  ASSUME IInv, NEW c \in Requests, NEW x \in Request, req' = [req EXCEPT ![c] = x],
         x.op = req[c].op, x.at = req[c].at, x.edits = req[c].edits, x.k = req[c].k,
         x.op = "save" => (x.pc = "resolved" <=> req[c].pc = "resolved"),
         x.pc \in {"begun", "locked"} => DOMAIN pend[c] = {},
         UNCHANGED <<boards, pend, now>>
  PROVE  IInv'
<1>1. req'[c] = x /\ req[c] \in Request /\ Fine(c) /\ DOMAIN pend' = Requests /\ AreRows(pend'[c])
  BY DEF IInv, TypeOK, AreRows
<1>2. (InTx(c)' <=> InTx(c)) /\ Stamp(c)' = Stamp(c)
  BY <1>1 DEF InTx, Stamp
<1>3. TxFine(c)'
  BY <1>1, <1>2 DEF Fine, TxFine
<1>4. SaveFine(c)' /\ CreateFine(c)'
  <2>1. \A i, k : First(c, i, k)' <=> First(c, i, k)
    BY <1>1 DEF First
  <2> QED BY <1>1, <1>2, <2>1 DEF Fine, SaveFine, CreateFine, Own
<1>5. Fine(c)'
  BY <1>3, <1>4 DEF Fine
<1>6. AreRows(boards') /\ Below' /\ \A d \in Requests : Undisturbed(d)
  BY SameBoards
<1>7. \A d \in Requests \ {c} : /\ DOMAIN pend'[c] \cap DOMAIN pend[d] = {}
                                /\ InTx(c)' /\ InTx(d) => x.at # req[d].at
  BY <1>2 DEF IInv, Apart
<1> QED BY <1>1, <1>5, <1>6, <1>7, Moves

\* A transaction begins, under a stamp nobody had.
LEMMA TakesStamp ==
  ASSUME IInv, NEW c \in Requests, ~InTx(c), NEW x \in Request, req' = [req EXCEPT ![c] = x], x.at = now,
         x.op = "create" \/ (x.op = "save" /\ x.pc = "saving" /\ x.k = 1),
         now' = now + 1, UNCHANGED <<boards, pend>>
  PROVE  IInv'
<1>1. req'[c] = x /\ now \in Nat /\ DOMAIN pend' = Requests /\ DOMAIN pend'[c] = {} /\ AreRows(pend'[c])
  BY Stamps DEF IInv, TypeOK, AreRows
<1>2. AreRows(boards') /\ Below' /\ \A d \in Requests : Undisturbed(d)
  BY SameBoards
<1>3. Stamp(c)' \cap DOMAIN boards' = {}
  <2>1. Stamp(c)' = {2 * now, 2 * now + 1}
    BY <1>1 DEF Stamp, MainId, NamedId
  <2>2. \A i \in DOMAIN boards : i \in Nat /\ i < 2 * now
    BY DEF IInv, TypeOK, AreRows, Below, MainId
  <2> QED BY <1>1, <2>1, <2>2
<1>4. TxFine(c)' /\ CreateFine(c)'
  BY <1>1, <1>3 DEF TxFine, CreateFine
<1>5. SaveFine(c)'
  <2>1. x.op = "save" => x.k <= Len(x.edits) + 1 /\ x.k >= 1 /\ 1..(x.k - 1) = {}
    <3>1. Len(x.edits) \in Nat
      BY DEF Request
    <3> QED BY <3>1
  <2> QED BY <1>1, <2>1 DEF SaveFine
<1>6. \A d \in Requests \ {c} : InTx(d) => x.at # req[d].at
  BY <1>1 DEF IInv, TypeOK, Request, Fine, TxFine
<1>7. Fine(c)'
  BY <1>4, <1>5 DEF Fine
<1> QED BY <1>1, <1>2, <1>6, <1>7, Moves

\* The ids of a stamp are nobody else's.
LEMMA StampIsFree ==
  ASSUME IInv, NEW c \in Requests, InTx(c), NEW d \in Requests \ {c}
  PROVE  Stamp(c) \cap DOMAIN pend[d] = {}
<1>1. req[c].at \in Nat /\ req[d].at \in Nat /\ TxFine(c) /\ TxFine(d) /\ Apart(c, d)
  BY RequestIs DEF IInv, Fine
<1>2. CASE InTx(d)
  <2>1. req[c].at # req[d].at
    BY <1>1, <1>2 DEF Apart
  <2>2. Stamp(c) \cap Stamp(d) = {}
    BY <1>1, <2>1 DEF Stamp, MainId, NamedId
  <2> QED BY <1>1, <2>2 DEF TxFine
<1>3. CASE ~InTx(d)
  BY <1>1, <1>3 DEF TxFine
<1> QED BY <1>2, <1>3

\* A transaction writes rows: its own, nobody's, or under its stamp.
LEMMA Grows ==
  ASSUME IInv, NEW c \in Requests, InTx(c), NEW x \in Request, req' = [req EXCEPT ![c] = x],
         x.op = req[c].op, x.at = req[c].at, x.pc \notin {"begun", "locked", "resolved"},
         NEW y, AreRows(y), pend' = [pend EXCEPT ![c] = y], UNCHANGED <<boards, now>>,
         \A i \in DOMAIN y : /\ y[i].own
                             /\ i \in DOMAIN pend[c] \cup Stamp(c) \/ (i \in DOMAIN boards /\ RowFree(c, i)),
         SaveFine(c)', CreateFine(c)'
  PROVE  IInv'
<1>1. /\ req'[c] = x /\ DOMAIN pend' = Requests /\ pend'[c] = y /\ Fine(c) /\ AreRows(pend'[c])
      /\ \A d \in Requests \ {c} : pend'[d] = pend[d]
  BY DEF IInv, TypeOK
<1>2. AreRows(boards') /\ Below' /\ \A d \in Requests : Undisturbed(d)
  BY SameBoards
<1>3. InTx(c)' /\ Stamp(c)' = Stamp(c)
  BY <1>1 DEF InTx, Stamp
<1>4. TxFine(c)'
  BY <1>1, <1>3 DEF Fine, TxFine
<1>5. \A d \in Requests \ {c} : DOMAIN y \cap DOMAIN pend[d] = {} /\ (InTx(d) => x.at # req[d].at)
  BY StampIsFree DEF RowFree, IInv, Apart
<1> QED BY <1>1, <1>2, <1>4, <1>5, Moves DEF Fine

LEMMA ResolveAgainStep ==
  ASSUME IInv, NEW c \in Requests, ResolveAgain(c)
  PROVE  IInv'
<1> DEFINE b == Oldest(View(c))
           next == IF req[c].op = "save" THEN "checked" ELSE "resolved"
           x == [req[c] EXCEPT !.pc = next, !.b = b, !.seen = View(c)[b].layout, !.by = View(c)[b].by]
<1>1. UNCHANGED <<boards, now>> /\ req[c].pc = "relay" /\ req[c] \in Request
  BY RequestIs DEF IInv, ResolveAgain
<1>2. CASE b = None
  BY <1>1, <1>2, RefuseStep DEF ResolveAgain
<1>3. CASE b # None
  <2>1. AreRows(View(c)) /\ b \in Nat /\ b \in Own(View(c))
    BY <1>3, ViewIs, ResolveIs DEF IInv
  <2>2. View(c)[b] \in Row
    BY <2>1 DEF AreRows, Own
  <2>3. next \in {"checked", "resolved"} /\ (req[c].op = "save" => next = "checked")
    OBVIOUS
  <2>4. req' = [req EXCEPT ![c] = x] /\ UNCHANGED pend
    BY <1>3 DEF ResolveAgain
  <2> HIDE DEF next, b
  <2>5. x \in Request /\ x.op = req[c].op /\ x.at = req[c].at /\ x.edits = req[c].edits /\ x.k = req[c].k /\ x.pc = next
    BY <1>1, <2>1, <2>2, <2>3 DEF Request, Row
  <2> HIDE DEF x
  <2> QED BY <1>1, <2>3, <2>4, <2>5, WritesNothing
<1> QED BY <1>2, <1>3

LEMMA CreateBeginsStep ==
  ASSUME IInv, NEW c \in Requests, NEW n \in Names, NEW doc \in Layouts, NEW by \in {"session", "key"},
         CreateBegins(c, n, doc, by)
  PROVE  IInv'
<1> DEFINE x == [Idle EXCEPT !.op = "create", !.pc = "begun", !.doc = doc, !.name = n, !.by = by, !.at = now]
<1>1. now \in Nat
  BY DEF IInv, TypeOK
<1>2. x \in Request /\ x.at = now /\ x.op = "create"
  BY <1>1, IdleIs DEF Request
<1>3. req[c].op = "idle" /\ req' = [req EXCEPT ![c] = x] /\ now' = now + 1 /\ UNCHANGED <<boards, pend>>
  BY DEF CreateBegins
<1> HIDE DEF x
<1> QED BY <1>2, <1>3, TakesStamp DEF InTx

LEMMA CreateLocksStep ==
  ASSUME IInv, NEW c \in Requests, CreateLocks(c)
  PROVE  IInv'
<1>1. /\ UNCHANGED <<boards, pend, now>> /\ req[c].op = "create" /\ req[c].pc = "begun" /\ req[c] \in Request
      /\ DOMAIN pend[c] = {}
  BY RequestIs DEF IInv, CreateLocks, Fine, TxFine
<1>2. CASE Answer(c)
  BY <1>1, <1>2, IdleIs, SameBoards, Answers DEF Answer
<1>3. CASE ~Answer(c)
  <2>1. PICK next \in {"locked", "laid"} : req' = [req EXCEPT ![c].pc = next]
    BY <1>3 DEF CreateLocks
  <2> DEFINE x == [req[c] EXCEPT !.pc = next]
  <2>2. x \in Request /\ x.op = req[c].op /\ x.at = req[c].at /\ x.edits = req[c].edits /\ x.k = req[c].k
    BY <1>1, <2>1 DEF Request
  <2>3. req' = [req EXCEPT ![c] = x]
    BY <2>1
  <2> HIDE DEF x
  <2> QED BY <1>1, <2>2, <2>3, WritesNothing
<1> QED BY <1>2, <1>3

LEMMA CreateLaysMainStep ==
  ASSUME IInv, NEW c \in Requests, CreateLaysMain(c)
  PROVE  IInv'
<1> DEFINE rows == Upsert(boards, req[c].at, {}, "key")
           x == [req[c] EXCEPT !.pc = "laid"]
<1>1. /\ req[c].op = "create" /\ InTx(c) /\ req[c] \in Request /\ req[c].at \in Nat /\ AreRows(boards) /\ Fine(c)
      /\ req' = [req EXCEPT ![c] = x] /\ pend' = [pend EXCEPT ![c] = rows] /\ UNCHANGED <<boards, now>> /\ MayUpsert(c)
  BY RequestIs DEF IInv, TypeOK, CreateLaysMain, InTx
<1>2. x \in Request /\ x.op = req[c].op /\ x.at = req[c].at /\ x.pc = "laid"
  BY <1>1 DEF Request
<1>3. /\ AreRows(rows) /\ \A i \in DOMAIN rows : rows[i].own
      /\ DOMAIN rows = {MainId(req[c].at)} \/ DOMAIN rows = Taken(boards)
  BY <1>1, UpsertIs DEF Layouts
<1> HIDE DEF rows, x
<1>4. \A i \in DOMAIN rows : i \notin Own(boards) /\ (i \in Stamp(c) \/ (i \in DOMAIN boards /\ RowFree(c, i)))
  BY <1>1, <1>3 DEF MayUpsert, Taken, Named, Own, Stamp, Fine, TxFine
<1>5. req'[c] = x /\ pend'[c] = rows
  BY <1>1 DEF IInv, TypeOK
<1>6. SaveFine(c)' /\ CreateFine(c)'
  BY <1>1, <1>2, <1>4, <1>5 DEF SaveFine, CreateFine, Own
<1> QED BY <1>1, <1>2, <1>3, <1>4, <1>6, Grows

LEMMA CreateInsertsStep ==
  ASSUME IInv, NEW c \in Requests, CreateInserts(c)
  PROVE  IInv'
<1>1. /\ req[c].op = "create" /\ req[c].pc = "laid" /\ InTx(c) /\ req[c] \in Request /\ AreRows(pend[c]) /\ Fine(c)
      /\ UNCHANGED <<boards, now>>
  BY RequestIs DEF IInv, TypeOK, CreateInserts, InTx
<1>2. CASE Refuse(c)
  BY <1>1, <1>2, RefuseStep
<1>3. CASE ~Refuse(c)
  <2> DEFINE id == NamedId(req[c].at)
             row == NewRow(req[c].name, req[c].doc, req[c].by)
             y == Over(Only(id, row), pend[c])
             x == [req[c] EXCEPT !.pc = "written"]
  <2>1. req' = [req EXCEPT ![c] = x] /\ pend' = [pend EXCEPT ![c] = y]
    BY <1>3 DEF CreateInserts
  <2>2. x \in Request /\ x.op = req[c].op /\ x.at = req[c].at /\ x.pc = "written"
    BY <1>1 DEF Request
  <2>3. row \in Row /\ row.own /\ id \in Nat /\ id \in Stamp(c)
    BY RequestIs, NewRowIs DEF IInv, NamedId, Stamp
  <2> HIDE DEF id, row, x
  <2>4. DOMAIN Only(id, row) = {id} /\ Only(id, row)[id] = row /\ AreRows(Only(id, row))
    BY <2>3, OnlyRow
  <2>5. /\ AreRows(y) /\ DOMAIN y = DOMAIN pend[c] \cup {id} /\ y[id] = row
        /\ \A i \in DOMAIN pend[c] \ {id} : y[i] = pend[c][i]
    <3>1. PICK o : o = Only(id, row)
      OBVIOUS
    <3>2. PICK p : p = pend[c]
      OBVIOUS
    <3>3. /\ AreRows(Over(o, p)) /\ DOMAIN Over(o, p) = DOMAIN o \cup DOMAIN p
          /\ \A i \in DOMAIN o : Over(o, p)[i] = o[i]
          /\ \A i \in DOMAIN p \ DOMAIN o : Over(o, p)[i] = p[i]
      <4>1. AreRows(o) /\ AreRows(p)
        BY <1>1, <2>4, <3>1, <3>2
      <4> QED BY <4>1, OverRows
    <3>4. y = Over(o, p)
      BY <3>1, <3>2
    <3> HIDE DEF y
    <3> QED BY <2>4, <3>1, <3>2, <3>3, <3>4
  <2> HIDE DEF y
  <2>6. \A i \in DOMAIN y : y[i].own /\ i \in DOMAIN pend[c] \cup Stamp(c)
    BY <1>1, <2>3, <2>5 DEF Fine, TxFine
  <2>7. req'[c] = x /\ pend'[c] = y
    BY <2>1 DEF IInv, TypeOK
  <2>8. id \notin Own(boards)
    BY <1>1, <2>3 DEF Fine, TxFine, Own
  <2>9. SaveFine(c)' /\ CreateFine(c)'
    BY <1>1, <2>2, <2>5, <2>7, <2>8 DEF SaveFine, CreateFine, Fine, Own
  <2> QED BY <1>1, <2>1, <2>2, <2>5, <2>6, <2>9, Grows
<1> QED BY <1>2, <1>3

-----------------------------------------------------------------------------
(* A save.                                                                   *)

LEMMA EditsAre ==
  ASSUME TypeOK, NEW edits \in Edits
  PROVE  edits \in Seq(Entry)
<1>1. \A i \in Readable : Read(i) \in Layouts /\ i \in Nat
  <2> SUFFICES ASSUME NEW i \in Readable PROVE Read(i) \in Layouts /\ i \in Nat
    OBVIOUS
  <2>1. AreRows(boards)
    BY DEF TypeOK
  <2>2. i \in Nat
    BY <2>1 DEF Readable, Alias, Own, AreRows
  <2>3. PICK b : b = Resolve(boards, i)
    OBVIOUS
  <2>4. b = None \/ (b \in DOMAIN boards /\ boards[b] \in Row)
    <3>1. b # None => b \in Own(boards)
      BY <2>1, <2>2, <2>3, ResolveIs
    <3> QED BY <2>1, <3>1 DEF Own, AreRows
  <2>5. Read(i) = IF b = None THEN {} ELSE boards[b].layout
    BY <2>3 DEF Read
  <2>6. {} \in Layouts /\ \A row \in Row : row.layout \in Layouts
    BY DEF Row, Layouts
  <2> QED BY <2>2, <2>4, <2>5, <2>6
<1>2. \A i \in Readable, l \in Layouts : EditOf(i, l) \in Entry
  BY <1>1 DEF EditOf, Entry
<1>3. \A i \in Readable, w \in Widgets : Read(i) \ {w} \in Layouts /\ Read(i) \cup {w} \in Layouts
  BY <1>1 DEF Layouts
<1>4. \A e, f \in Entry : <<e>> \in Seq(Entry) /\ <<e, f>> \in Seq(Entry)
  OBVIOUS
<1> DEFINE Moved(i, j, w) == {<<EditOf(i, Read(i) \ {w}), EditOf(j, Read(j) \cup {w})>>,
                              <<EditOf(j, Read(j) \cup {w}), EditOf(i, Read(i) \ {w})>>}
<1>5. ASSUME NEW i \in Readable, NEW l \in Layouts, edits = <<EditOf(i, l)>>
      PROVE  edits \in Seq(Entry)
  BY <1>2, <1>4, <1>5
<1>6. ASSUME NEW i \in Readable, NEW j \in Readable, NEW w \in Widgets, edits \in Moved(i, j, w)
      PROVE  edits \in Seq(Entry)
  <2>1. EditOf(i, Read(i) \ {w}) \in Entry /\ EditOf(j, Read(j) \cup {w}) \in Entry
    BY <1>2, <1>3
  <2> QED BY <1>4, <1>6, <2>1
<1> DEFINE Single == {<<EditOf(i, l)>> : i \in Readable, l \in Layouts}
<1>7. Edits = Single \cup UNION {Moved(i, j, w) : i \in Readable \ {Alias}, j \in Readable \ {Alias}, w \in Widgets}
  BY DEF Edits
<1>8. edits \in Single => \E i \in Readable, l \in Layouts : edits = <<EditOf(i, l)>>
  OBVIOUS
<1> HIDE DEF Moved, Single
<1>9. edits \notin Single => \E i \in Readable, j \in Readable, w \in Widgets : edits \in Moved(i, j, w)
  BY <1>7
<1> QED BY <1>5, <1>6, <1>8, <1>9

LEMMA EditStep ==
  ASSUME IInv, NEW c \in Requests, NEW edits \in Edits, Edit(c, edits)
  PROVE  IInv'
<1> DEFINE x == [Idle EXCEPT !.op = "save", !.pc = "resolved", !.edits = edits]
<1>1. edits \in Seq(Entry)
  BY EditsAre DEF IInv
<1>2. x \in Request /\ x.op = "save" /\ x.pc = "resolved" /\ x.k = 0
  BY <1>1, IdleIs DEF Request, Idle
<1>3. req[c].op = "idle" /\ req' = [req EXCEPT ![c] = x] /\ UNCHANGED <<boards, pend, now>>
  BY DEF Edit
<1> HIDE DEF x
<1>4. DOMAIN pend[c] = {}
  BY <1>3, Stamps DEF InTx
<1> QED BY <1>2, <1>3, <1>4, SameBoards, Answers

LEMMA SaveBeginsStep ==
  ASSUME IInv, NEW c \in Requests, SaveBegins(c)
  PROVE  IInv'
<1> DEFINE x == [req[c] EXCEPT !.pc = "saving", !.at = now, !.k = 1]
<1>1. now \in Nat /\ req[c] \in Request /\ req[c].op = "save" /\ ~InTx(c)
  BY RequestIs DEF IInv, TypeOK, SaveBegins, InTx
<1>2. x \in Request /\ x.at = now /\ x.op = "save" /\ x.pc = "saving" /\ x.k = 1
  BY <1>1 DEF Request
<1>3. req' = [req EXCEPT ![c] = x] /\ now' = now + 1 /\ UNCHANGED <<boards, pend>>
  BY DEF SaveBegins
<1> HIDE DEF x
<1> QED BY <1>1, <1>2, <1>3, TakesStamp

LEMMA SaveResolvesStep ==
  ASSUME IInv, NEW c \in Requests, SaveResolves(c)
  PROVE  IInv'
<1> DEFINE b == Resolve(View(c), Here(c).id)
           next == IF b = None THEN "unlaid" ELSE "checked"
           x == [req[c] EXCEPT !.pc = next, !.b = b]
<1>1. req[c].op = "save" /\ req[c].pc = "saving" /\ req[c] \in Request /\ UNCHANGED <<boards, now>>
  BY RequestIs DEF IInv, SaveResolves, Saving
<1>2. CASE Refuse(c)
  BY <1>1, <1>2, RefuseStep
<1>3. CASE ~Refuse(c)
  <2>1. req' = [req EXCEPT ![c] = x] /\ UNCHANGED pend
    BY <1>3 DEF SaveResolves
  <2>2. Here(c) \in Entry
    <3>1. req[c].k \in 1..Len(req[c].edits) /\ req[c].edits \in Seq(Entry)
      BY <1>1, RequestIs DEF IInv, SaveResolves, Saving, Fine, SaveFine, InTx
    <3> QED BY <3>1 DEF Here
  <2>3. b \in Nat
    BY <2>2, ViewIs, ResolveIs DEF IInv, Entry
  <2>4. next \in {"unlaid", "checked"}
    OBVIOUS
  <2> HIDE DEF b, next
  <2>5. x \in Request /\ x.op = req[c].op /\ x.at = req[c].at /\ x.edits = req[c].edits /\ x.k = req[c].k /\ x.pc = next
    BY <1>1, <2>3, <2>4 DEF Request
  <2> HIDE DEF x
  <2> QED BY <1>1, <2>1, <2>4, <2>5, WritesNothing
<1> QED BY <1>2, <1>3

\* An entry written onto b: it counts as b's first if b was not held, and every other
\* board keeps the entry that was its first.
LEMMA SavedStep ==
  ASSUME IInv, NEW c \in Requests, Saving(c, "checked") \/ Saving(c, "unlaid"), UNCHANGED <<boards, now>>,
         NEW rows, AreRows(rows), NEW b \in DOMAIN rows, Saved(c, rows, b),
         \A i \in DOMAIN rows :
           /\ rows[i].own
           /\ i \in DOMAIN pend[c] \cup Stamp(c) \/ (i \in DOMAIN boards /\ RowFree(c, i))
           /\ i \in Own(boards) \ DOMAIN pend[c] => i = b /\ Here(c).base = boards[i].layout
  PROVE  IInv'
<1> DEFINE r == req[c]
           edits == [r.edits EXCEPT ![r.k].id = b]
           x == [r EXCEPT !.pc = "saving", !.b = None, !.k = r.k + 1, !.edits = edits]
           y == Over(rows, pend[c])
<1>1. /\ r \in Request /\ r.op = "save" /\ InTx(c) /\ Fine(c) /\ AreRows(pend[c]) /\ b \in Nat
      /\ r.edits \in Seq(Entry) /\ r.k \in 1..Len(r.edits)
  BY RequestIs DEF IInv, TypeOK, Saving, InTx, Fine, SaveFine, AreRows
<1>2. /\ edits \in Seq(Entry) /\ Len(edits) = Len(r.edits)
      /\ edits[r.k].id = b /\ edits[r.k].base = r.edits[r.k].base
      /\ \A j \in 1..Len(r.edits) : j # r.k => edits[j] = r.edits[j]
  <2>1. r.edits[r.k] \in Entry
    BY <1>1
  <2>2. [r.edits[r.k] EXCEPT !.id = b] \in Entry /\ [r.edits[r.k] EXCEPT !.id = b].id = b
        /\ [r.edits[r.k] EXCEPT !.id = b].base = r.edits[r.k].base
    BY <1>1, <2>1 DEF Entry
  <2>3. edits = [r.edits EXCEPT ![r.k] = [r.edits[r.k] EXCEPT !.id = b]]
    OBVIOUS
  <2> QED BY <1>1, <2>2, <2>3
<1>3. req' = [req EXCEPT ![c] = x] /\ pend' = [pend EXCEPT ![c] = y]
  BY DEF Saved
<1> HIDE DEF edits
<1>4. /\ x \in Request /\ x.op = "save" /\ x.at = r.at /\ x.pc = "saving" /\ x.k = r.k + 1 /\ x.edits = edits
  <2>1. PICK n \in Nat : n = r.k + 1
    BY <1>1
  <2>2. edits \in Seq(Entry)
    BY <1>2
  <2> QED BY <1>1, <2>1, <2>2 DEF Request, None
<1>5. /\ AreRows(y) /\ DOMAIN y = DOMAIN rows \cup DOMAIN pend[c]
      /\ \A i \in DOMAIN rows : y[i] = rows[i]
      /\ \A i \in DOMAIN pend[c] \ DOMAIN rows : y[i] = pend[c][i]
  <2>1. PICK p : p = pend[c]
    OBVIOUS
  <2>2. AreRows(p)
    BY <1>1, <2>1
  <2>3. /\ AreRows(Over(rows, p)) /\ DOMAIN Over(rows, p) = DOMAIN rows \cup DOMAIN p
        /\ \A i \in DOMAIN rows : Over(rows, p)[i] = rows[i]
        /\ \A i \in DOMAIN p \ DOMAIN rows : Over(rows, p)[i] = p[i]
    <3>1. AreRows(Over(rows, p))
      BY <2>2, OverAreRows
    <3>2. /\ DOMAIN Over(rows, p) = DOMAIN rows \cup DOMAIN p
          /\ \A i \in DOMAIN rows : Over(rows, p)[i] = rows[i]
          /\ \A i \in DOMAIN p \ DOMAIN rows : Over(rows, p)[i] = p[i]
      BY DEF Over
    <3> QED BY <3>1, <3>2
  <2>4. y = Over(rows, p)
    BY <2>1
  <2> HIDE DEF y
  <2> QED BY <2>1, <2>3, <2>4
<1>6. req'[c] = x /\ pend'[c] = y
  BY <1>3 DEF IInv, TypeOK
<1> HIDE DEF x, y
<1>7. \A i \in DOMAIN y : /\ y[i].own
                          /\ i \in DOMAIN pend[c] \cup Stamp(c) \/ (i \in DOMAIN boards /\ RowFree(c, i))
  BY <1>1, <1>5 DEF Fine, TxFine
<1>8. SaveFine(c)'
  <2>1. \A j \in 1..(r.k - 1) : edits[j] = r.edits[j] /\ edits[j].id \in DOMAIN pend[c]
    <3>1. \A j \in 1..(r.k - 1) : r.edits[j].id \in DOMAIN pend[c]
      BY <1>1 DEF Fine, SaveFine
    <3>2. \A j \in 1..(r.k - 1) : j \in 1..Len(r.edits) /\ j # r.k
      <4>1. r.k \in Nat /\ Len(r.edits) \in Nat /\ r.k <= Len(r.edits)
        BY <1>1
      <4> QED BY <4>1
    <3> QED BY <1>2, <3>1, <3>2
  <2>2. \A j \in 1..(x.k - 1) : edits[j].id \in DOMAIN y
    BY <1>1, <1>2, <1>4, <1>5, <2>1
  <2>3. ASSUME NEW i \in DOMAIN y \cap Own(boards)
        PROVE  \E k \in 1..(x.k - 1) : First(c, i, k)'
    <3>1. CASE i \in DOMAIN pend[c]
      <4>1. PICK k \in 1..(r.k - 1) : First(c, i, k)
        BY <1>1, <2>3, <3>1 DEF Fine, SaveFine
      <4>2. edits[k] = r.edits[k] /\ \A j \in 1..(k - 1) : edits[j] = r.edits[j]
        BY <1>1, <2>1
      <4>3. First(c, i, k)'
        BY <1>4, <1>6, <4>1, <4>2 DEF First
      <4> QED BY <1>1, <1>4, <4>3
    <3>2. CASE i \notin DOMAIN pend[c]
      <4>1. i = b /\ r.edits[r.k].base = boards[i].layout
        BY <1>5, <2>3, <3>2 DEF Here
      <4>2. \A j \in 1..(r.k - 1) : edits[j].id # i
        BY <2>1, <3>2
      <4>3. PICK k \in 1..(x.k - 1) : k = r.k
        BY <1>1, <1>4
      <4>4. First(c, i, k)'
        BY <1>2, <1>4, <1>6, <4>1, <4>2, <4>3 DEF First
      <4> QED BY <4>4
    <3> QED BY <3>1, <3>2
  <2>4. x.k <= Len(edits) + 1 /\ x.k >= 1
    BY <1>1, <1>2, <1>4
  <2> QED BY <1>4, <1>6, <2>2, <2>3, <2>4 DEF SaveFine, Own
<1>9. CreateFine(c)'
  BY <1>4, <1>6 DEF CreateFine
<1> QED BY <1>1, <1>3, <1>4, <1>5, <1>7, <1>8, <1>9, Grows

LEMMA SaveLaysStep ==
  ASSUME IInv, NEW c \in Requests, SaveLays(c)
  PROVE  IInv'
<1> DEFINE laid == Upsert(View(c), req[c].at, Here(c).layout, "session")
<1>1. /\ req[c].op = "save" /\ req[c].pc = "unlaid" /\ InTx(c) /\ req[c] \in Request /\ Fine(c) /\ MayUpsert(c)
      /\ UNCHANGED <<boards, now>> /\ Here(c) \in Entry /\ req[c].at \in Nat
  <2>1. req[c].op = "save" /\ req[c].pc = "unlaid" /\ InTx(c) /\ Fine(c)
    BY DEF IInv, SaveLays, Saving, InTx
  <2>2. req[c].k \in 1..Len(req[c].edits) /\ req[c].edits \in Seq(Entry)
    BY <2>1, RequestIs DEF IInv, SaveLays, Saving, Fine, SaveFine
  <2> QED BY <2>1, <2>2, RequestIs DEF IInv, SaveLays, Here
<1>2. CASE Refuse(c)
  BY <1>1, <1>2, RefuseStep
<1>3. CASE req' = [req EXCEPT ![c].pc = "relay"] /\ UNCHANGED pend
  <2> DEFINE x == [req[c] EXCEPT !.pc = "relay"]
  <2>1. x \in Request /\ x.op = req[c].op /\ x.at = req[c].at /\ x.edits = req[c].edits /\ x.k = req[c].k /\ x.pc = "relay"
    BY <1>1 DEF Request
  <2>2. req' = [req EXCEPT ![c] = x]
    BY <1>3
  <2> HIDE DEF x
  <2> QED BY <1>1, <1>3, <2>1, <2>2, WritesNothing
<1>4. CASE DOMAIN laid # {} /\ Saved(c, laid, CHOOSE b \in DOMAIN laid : TRUE)
  <2>1. AreRows(View(c)) /\ Here(c).layout \in Layouts
    BY <1>1, ViewIs DEF IInv, Entry
  <2>2. /\ AreRows(laid) /\ \A i \in DOMAIN laid : laid[i].own
        /\ DOMAIN laid = {MainId(req[c].at)} \/ DOMAIN laid = Taken(View(c))
    BY <1>1, <2>1, UpsertIs
  <2> HIDE DEF laid
  <2>3. PICK b \in DOMAIN laid : Saved(c, laid, b)
    BY <1>4
  <2>4. \A i \in Taken(View(c)) : i \in DOMAIN boards \ Own(boards) /\ i \in Named(boards, Main)
    <3>1. \A i \in DOMAIN pend[c] : View(c)[i].own
      <4>1. \A i \in DOMAIN pend[c] : View(c)[i] = pend[c][i]
        BY ViewIs DEF IInv
      <4>2. \A i \in DOMAIN pend[c] : pend[c][i].own
        BY <1>1 DEF Fine, TxFine
      <4> QED BY <4>1, <4>2
    <3>2. /\ DOMAIN View(c) = DOMAIN pend[c] \cup DOMAIN boards
          /\ \A i \in DOMAIN boards \ DOMAIN pend[c] : View(c)[i] = boards[i]
      BY ViewIs DEF IInv
    <3> QED BY <3>1, <3>2 DEF Taken, Named, Own
  <2>5. \A i \in DOMAIN laid : i \notin Own(boards) /\ (i \in Stamp(c) \/ (i \in DOMAIN boards /\ RowFree(c, i)))
    BY <1>1, <2>2, <2>4 DEF MayUpsert, Own, Stamp, Fine, TxFine
  <2> QED BY <1>1, <2>2, <2>3, <2>5, SavedStep DEF SaveLays
<1> QED BY <1>2, <1>3, <1>4 DEF SaveLays

LEMMA SaveWritesStep ==
  ASSUME IInv, NEW c \in Requests, SaveWrites(c)
  PROVE  IInv'
<1>1. /\ req[c].op = "save" /\ req[c].pc = "checked" /\ InTx(c) /\ req[c] \in Request /\ Fine(c)
      /\ UNCHANGED <<boards, now>> /\ Here(c) \in Entry /\ RowFree(c, req[c].b)
  <2>1. req[c].op = "save" /\ req[c].pc = "checked" /\ InTx(c) /\ Fine(c)
    BY DEF IInv, SaveWrites, Saving, InTx
  <2>2. req[c].k \in 1..Len(req[c].edits) /\ req[c].edits \in Seq(Entry)
    BY <2>1, RequestIs DEF IInv, SaveWrites, Saving, Fine, SaveFine
  <2> QED BY <2>1, <2>2, RequestIs DEF IInv, SaveWrites, Here
<1>2. CASE Refuse(c)
  BY <1>1, <1>2, RefuseStep
<1>3. CASE ~Refuse(c)
  <2> DEFINE b == req[c].b
             row == Curated(View(c)[b], Here(c).layout)
             rows == Only(b, row)
  <2>1. b \in Own(View(c)) /\ View(c)[b].layout = Here(c).base /\ Saved(c, rows, b)
    BY <1>3 DEF SaveWrites
  <2>2. AreRows(View(c)) /\ b \in Nat /\ View(c)[b] \in Row /\ View(c)[b].own
    BY <2>1, ViewIs DEF IInv, AreRows, Own
  <2>3. row \in Row /\ row.own
    BY <1>1, <2>2 DEF Curated, Row, Entry
  <2> HIDE DEF row
  <2>4. DOMAIN rows = {b} /\ rows[b] = row /\ AreRows(rows)
    BY <2>2, <2>3, OnlyRow
  <2> HIDE DEF rows
  <2>5. b \in DOMAIN pend[c] \/ (b \in DOMAIN boards /\ View(c)[b] = boards[b])
    <3>1. b \in DOMAIN View(c)
      BY <2>1 DEF Own
    <3>2. /\ DOMAIN View(c) = DOMAIN pend[c] \cup DOMAIN boards
          /\ \A i \in DOMAIN boards \ DOMAIN pend[c] : View(c)[i] = boards[i]
      BY ViewIs DEF IInv
    <3> QED BY <3>1, <3>2
  <2> QED BY <1>1, <2>1, <2>3, <2>4, <2>5, SavedStep DEF SaveWrites, Own
<1> QED BY <1>2, <1>3

LEMMA CommitsStep ==
  ASSUME IInv, NEW c \in Requests, Commits(c)
  PROVE  /\ IInv' /\ DOMAIN boards \subseteq DOMAIN boards'
         /\ \A i \in DOMAIN boards \ DOMAIN pend[c] : boards'[i] = boards[i]
<1>1. /\ boards' = Over(pend[c], boards) /\ req' = [req EXCEPT ![c] = Done] /\ pend' = [pend EXCEPT ![c] = <<>>]
      /\ now' = now /\ AreRows(boards) /\ AreRows(pend[c])
  BY DEF Commits, Refuse, Answer, IInv, TypeOK
<1>2. PICK rows, old : rows = pend[c] /\ old = boards
  OBVIOUS
<1>3. AreRows(rows) /\ AreRows(old)
  BY <1>1, <1>2
<1>4. PICK all : all = Over(rows, old)
  OBVIOUS
<1>5. /\ DOMAIN Over(rows, old) = DOMAIN rows \cup DOMAIN old /\ AreRows(Over(rows, old))
      /\ \A i \in DOMAIN old \ DOMAIN rows : Over(rows, old)[i] = old[i]
  BY <1>3, OverRows
<1>6. /\ boards' = all /\ DOMAIN all = DOMAIN pend[c] \cup DOMAIN boards /\ AreRows(all)
      /\ \A i \in DOMAIN boards \ DOMAIN pend[c] : all[i] = boards[i]
  BY <1>1, <1>2, <1>4, <1>5
<1>7. AreRows(boards')
  BY <1>6 DEF AreRows
<1>8. Below'
  BY <1>1, <1>6, Stamps DEF IInv, Below, MainId
<1>9. ASSUME NEW d \in Requests \ {c}
      PROVE  Undisturbed(d)
  <2>1. DOMAIN pend[c] \cap DOMAIN pend[d] = {}
    BY DEF IInv, Apart
  <2>2. InTx(d) => Stamp(d) \cap DOMAIN pend[c] = {} /\ Stamp(d) \cap DOMAIN boards = {}
    BY StampIsFree DEF IInv, Fine, TxFine
  <2> QED BY <1>6, <2>1, <2>2 DEF Undisturbed
<1>10. IInv'
  BY <1>1, <1>7, <1>8, <1>9, IdleIs, Answers
<1> QED BY <1>6, <1>10

LEMMA AsksStep ==
  ASSUME IInv, NEW c \in Requests, Asks(c)
  PROVE  IInv'
<1>1. /\ Ids \subseteq Nat /\ {} \in Layouts /\ Main \in Names /\ Door(c) \in {"session", "key"}
      /\ \A w \in Widgets : {w} \in Layouts
  BY RequestIs, BoardsAssumption DEF IInv, TypeOK, AreRows, Ids, Own, Alias, Layouts
<1>2. ASSUME NEW i \in Ids, NEW d \in Layouts, Begin(c, "put", i, d, Main)
      PROVE  IInv'
  BY <1>1, <1>2, BeginStep
<1>3. ASSUME NEW n \in Names, NEW d \in Layouts, CreateBegins(c, n, d, Door(c))
      PROVE  IInv'
  BY <1>1, <1>3, CreateBeginsStep
<1>4. ASSUME NEW n \in Names, CreateBegins(c, n, {}, "key")
      PROVE  IInv'
  BY <1>1, <1>4, CreateBeginsStep
<1>5. ASSUME NEW i \in Ids, NEW w \in Widgets, Begin(c, "append", i, {w}, Main)
      PROVE  IInv'
  BY <1>1, <1>5, BeginStep
<1>6. ASSUME NEW i \in Ids, NEW n \in Names, Begin(c, "rename", i, {}, n)
      PROVE  IInv'
  BY <1>1, <1>6, BeginStep
<1>7. ASSUME NEW i \in Ids, Begin(c, "delete", i, {}, Main) \/ Begin(c, "clear", i, {}, Main)
      PROVE  IInv'
  BY <1>1, <1>7, BeginStep
<1>8. ASSUME NEW e \in Edits, Edit(c, e)
      PROVE  IInv'
  BY <1>8, EditStep
<1> QED BY <1>2, <1>3, <1>4, <1>5, <1>6, <1>7, <1>8 DEF Asks

LEMMA GoesStep ==
  ASSUME IInv, NEW c \in Requests, Goes(c)
  PROVE  IInv'
<1>1. CASE Fails(c)
  BY <1>1, RefuseStep DEF Fails
<1>2. CASE Commits(c) \/ LayAlias(c)
  BY <1>2, CommitsStep, LayAliasStep
<1>3. CASE ResolveAgain(c) \/ RenameCreates(c) \/ DeleteCounts(c) \/ DeleteBoard(c)
  BY <1>3, ResolveAgainStep, RenameCreatesStep, DeleteCountsStep, DeleteBoardStep
<1>4. CASE PutBoard(c) \/ AppendBoard(c) \/ ClearProposal(c) \/ RenameBoard(c)
  BY <1>4, DoorsStep
<1>5. CASE CreateLocks(c) \/ CreateLaysMain(c) \/ CreateInserts(c)
  BY <1>5, CreateLocksStep, CreateLaysMainStep, CreateInsertsStep
<1>6. CASE SaveBegins(c) \/ SaveResolves(c) \/ SaveLays(c) \/ SaveWrites(c)
  BY <1>6, SaveBeginsStep, SaveResolvesStep, SaveLaysStep, SaveWritesStep
<1> QED BY <1>1, <1>2, <1>3, <1>4, <1>5, <1>6 DEF Goes

LEMMA RestStep ==
  ASSUME IInv, UNCHANGED vars
  PROVE  IInv'
<1>1. UNCHANGED <<boards, req, pend, now>>
  BY DEF vars
<1>2. TypeOK' /\ Below'
  BY <1>1 DEF IInv, TypeOK, AreRows, Below
<1>3. \A c \in Requests : Undisturbed(c)
  BY <1>1, SameBoards
<1>4. \A c \in Requests : Fine(c)'
  BY <1>1, <1>3, Stands
<1>5. \A c \in Requests : \A d \in Requests \ {c} : Apart(c, d)'
  BY <1>1 DEF IInv, Apart, InTx
<1> QED BY <1>2, <1>4, <1>5 DEF IInv

LEMMA InitIInv ==
  ASSUME Init
  PROVE  IInv
<1>1. /\ req = [c \in Requests |-> Idle] /\ pend = [c \in Requests |-> <<>>] /\ now = 2
  BY DEF Init
<1>2. \A n \in Names, l \in Layouts : Kept(n, l) \in Row
  BY NewRowIs DEF Kept
<1>3. AreRows(boards) /\ DOMAIN boards \subseteq 0..3
  <2>1. CASE boards = <<>>
    BY <2>1, NoRows
  <2>2. CASE boards = Only(LeftBehind, [NewRow(Main, {}, "key") EXCEPT !.own = FALSE])
    <3>1. NewRow(Main, {}, "key") \in Row
      BY NewRowIs, BoardsAssumption DEF Layouts
    <3>2. PICK row \in Row : row = [NewRow(Main, {}, "key") EXCEPT !.own = FALSE]
      BY <3>1 DEF Row
    <3>3. DOMAIN Only(LeftBehind, row) = {1} /\ AreRows(Only(LeftBehind, row))
      BY OnlyRow DEF LeftBehind
    <3>4. boards = Only(LeftBehind, row)
      BY <2>2, <3>2
    <3> QED BY <3>3, <3>4 DEF AreRows
  <2>3. ASSUME NEW l \in Layouts, boards = Only(2, Kept(Main, l))
        PROVE  AreRows(boards) /\ DOMAIN boards \subseteq 0..3
    <3>1. PICK row \in Row : row = Kept(Main, l)
      BY <1>2, BoardsAssumption
    <3>2. DOMAIN Only(2, row) = {2} /\ AreRows(Only(2, row))
      BY OnlyRow
    <3> QED BY <2>3, <3>1, <3>2 DEF AreRows
  <2>4. ASSUME NEW l \in Layouts, NEW n \in Names, boards = Over(Only(2, Kept(Main, l)), Only(3, Kept(n, {})))
        PROVE  AreRows(boards) /\ DOMAIN boards \subseteq 0..3
    <3>1. Kept(Main, l) \in Row /\ Kept(n, {}) \in Row
      BY <1>2, BoardsAssumption DEF Layouts
    <3>2. PICK f : f = Only(2, Kept(Main, l)) /\ DOMAIN f = {2} /\ AreRows(f)
      BY <3>1, OnlyRow
    <3>3. PICK g : g = Only(3, Kept(n, {})) /\ DOMAIN g = {3} /\ AreRows(g)
      BY <3>1, OnlyRow
    <3>4. AreRows(f) /\ AreRows(g)
      BY <3>2, <3>3
    <3>5. DOMAIN Over(f, g) = DOMAIN f \cup DOMAIN g /\ AreRows(Over(f, g))
      BY <3>4, OverRows
    <3> QED BY <2>4, <3>2, <3>3, <3>5 DEF AreRows
  <2> QED BY <2>1, <2>2, <2>3, <2>4 DEF Init
<1>4. TypeOK
  BY <1>1, <1>3, IdleIs, NoRows DEF TypeOK
<1>5. Below
  BY <1>1, <1>3 DEF Below, MainId
<1>6. ASSUME NEW c \in Requests
      PROVE  Fine(c) /\ ~InTx(c) /\ DOMAIN pend[c] = {}
  <2>1. req[c] \in Request /\ DOMAIN pend[c] = {} /\ req[c].op = "idle"
    BY <1>1, IdleIs, NoRows
  <2> QED BY <2>1, RestFine
<1>7. \A c \in Requests : \A d \in Requests \ {c} : Apart(c, d)
  BY <1>6 DEF Apart
<1> QED BY <1>4, <1>5, <1>6, <1>7 DEF IInv

LEMMA Invariant == Spec => []IInv
<1>1. IInv /\ [Next]_vars => IInv'
  BY AsksStep, GoesStep, RestStep DEF Next
<1> QED BY <1>1, InitIInv, PTL DEF Spec

\* Every board, every row a transaction holds and every request is well typed.
THEOREM TypeCorrect == Spec => []TypeOK
<1>1. IInv => TypeOK
  BY DEF IInv
<1> QED BY <1>1, Invariant, PTL

\* A save lands only on the documents it was edited from, for any sessions, keys, boards and
\* entries, whatever is appended, put, renamed, deleted or saved meanwhile: what it has
\* compared stays locked until it commits (saveBoards).
THEOREM SavesLandOnTheirBase == Spec => SaveOnItsBase
<1>1. ASSUME IInv, NEW c \in Sessions, SaveDone(c), NEW i \in DOMAIN pend[c] \cap Own(boards)
      PROVE  boards[i].layout = FirstEntry(c, i).base
  <2>1. c \in Requests /\ req[c].op = "save" /\ Fine(c)
    BY <1>1 DEF SaveDone, Requests, IInv
  <2>2. req[c].edits \in Seq(Entry) /\ req[c].k \in Nat /\ req[c].k = Len(req[c].edits) + 1
    BY <1>1, <2>1, RequestIs DEF IInv, SaveDone, Fine, SaveFine
  <2>3. PICK k \in 1..Len(req[c].edits) : First(c, i, k)
    BY <1>1, <2>1, <2>2 DEF Fine, SaveFine
  <2> DEFINE ks == {j \in 1..Len(req[c].edits) : req[c].edits[j].id = i}
  <2>4. ks \in SUBSET Nat /\ k \in ks /\ \A j \in ks : k <= j
    BY <2>2, <2>3 DEF First
  <2> HIDE DEF ks
  <2>5. Least(ks) \in ks /\ Least(ks) <= k
    BY <2>4, LeastIs
  <2>6. Least(ks) = k
    <3>1. Least(ks) \in Nat /\ k \in Nat /\ k <= Least(ks)
      BY <2>4, <2>5
    <3> QED BY <2>5, <3>1
  <2>7. FirstEntry(c, i) = req[c].edits[k]
    BY <2>6 DEF FirstEntry, ks
  <2> QED BY <2>3, <2>7 DEF First
<1>2. IInv => [\A c \in Sessions :
                 SaveDone(c) /\ Commits(c)
                   => \A i \in DOMAIN pend[c] \cap Own(boards) :
                        boards[i].layout = FirstEntry(c, i).base]_vars
  BY <1>1
<1> QED BY <1>2, Invariant, PTL DEF SaveOnItsBase

\* Laying Main down touches no board the workspace already holds, for any requests at the
\* two doors: it takes a name that is free, or a row an earlier tenant left (UpsertBoard).
THEOREM LayingTakesNothing == Spec => LayingKeeps
<1>1. ASSUME IInv, NEW c \in Requests, LayAlias(c) \/ (req[c].op = "create" /\ Commits(c)), NEW i \in Own(boards)
      PROVE  i \in DOMAIN boards' /\ boards'[i] = boards[i]
  <2>1. CASE LayAlias(c)
    BY <1>1, <2>1, LayAliasStep
  <2>2. CASE req[c].op = "create" /\ Commits(c)
    <3>1. i \in DOMAIN boards \ DOMAIN pend[c]
      BY <1>1, <2>2 DEF IInv, Fine, CreateFine, Own
    <3> QED BY <1>1, <2>2, <3>1, CommitsStep
  <2> QED BY <1>1, <2>1, <2>2
<1>2. IInv => [\A c \in Requests :
                 LayAlias(c) \/ (req[c].op = "create" /\ Commits(c))
                   => \A i \in Own(boards) : i \in DOMAIN boards' /\ boards'[i] = boards[i]]_vars
  BY <1>1
<1> QED BY <1>2, Invariant, PTL DEF LayingKeeps
===============================================================================
