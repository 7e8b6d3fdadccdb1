-------------------------------- MODULE Boards --------------------------------
(***************************************************************************)
(* The named boards of one project behind their two doors, a session and an  *)
(* agent's key (src/back/internal/api/dashboard.go, queries/dashboard.sql).  *)
(* A request is split at its database statements; what a transaction has     *)
(* written is in pend until it commits, and locks its rows and names.        *)
(***************************************************************************)
EXTENDS Naturals, Sequences, FiniteSets

CONSTANTS
  Sessions, Keys,  \* requests, by the door they come through
  Widgets,         \* cards; a layout is a set of them
  Names, Main,     \* board names, firstBoardName among them
  Limit,           \* boards per project in the plan
  MaxNow           \* bound on the stamps given out

ASSUME BoardsAssumption == Main \in Names /\ Limit \in Nat \ {0} /\ MaxNow \in Nat

VARIABLES
  boards,  \* the committed rows: id -> row, ids in the order of (created_at, id)
  req,     \* each request: where it is
  pend,    \* each request: the rows its transaction has written, uncommitted
  now      \* the database's clock, in transactions that insert

vars == <<boards, req, pend, now>>

Requests == Sessions \cup Keys
Door(c) == IF c \in Sessions THEN "session" ELSE "key"
Alias == 0   \* the id "main"
None == 0    \* no row
LeftBehind == 1  \* the row an earlier tenant of the project may have left
Layouts == SUBSET Widgets
Row == [own : BOOLEAN, name : Names, layout : Layouts, by : {"session", "key"},
        offer : SUBSET Layouts]
Entry == [id : Nat, base : Layouts, layout : Layouts]

\* created_at is when the transaction began: a transaction that began at stamp t
\* inserts Main as 2t and the board it creates as 2t + 1.
MainId(t) == 2 * t
NamedId(t) == 2 * t + 1

Idle == [op |-> "idle", pc |-> "idle", b |-> None, seen |-> {}, by |-> "key",
         doc |-> {}, name |-> Main, at |-> 0, edits |-> <<>>, k |-> 0]
Done == [Idle EXCEPT !.op = "done"]

Request ==
  [op : {"idle", "done", "put", "append", "save", "create", "rename", "delete", "clear"},
   pc : {"idle", "resolved", "relay", "counted", "begun", "locked", "laid",
         "saving", "unlaid", "checked", "written"},
   b : Nat, seen : Layouts, by : {"session", "key"}, doc : Layouts,
   name : Names, at : Nat, edits : Seq(Entry), k : Nat]

AreRows(rows) == DOMAIN rows \subseteq Nat /\ \A i \in DOMAIN rows : rows[i] \in Row

TypeOK ==
  /\ AreRows(boards)
  /\ req \in [Requests -> Request]
  /\ DOMAIN pend = Requests /\ \A c \in Requests : AreRows(pend[c])
  /\ now \in Nat

-----------------------------------------------------------------------------
(* Rows, ranks and locks.                                                    *)

Only(i, row) == [j \in {i} |-> row]

\* Rows laid over what there was.
Over(rows, old) ==
  [i \in DOMAIN rows \cup DOMAIN old |-> IF i \in DOMAIN rows THEN rows[i] ELSE old[i]]

\* What a statement of c sees: the committed rows and the transaction's own.
View(c) == Over(pend[c], boards)
Own(view) == {i \in DOMAIN view : view[i].own}
Rank(view, i) == Cardinality({j \in Own(view) : j <= i})
Least(ids) == CHOOSE i \in ids : \A j \in ids : i <= j
Oldest(view) == IF Own(view) = {} THEN None ELSE Least(Own(view))

\* resolveBoardQ: an id of the caller's tenant and project, or the oldest row.
Resolve(view, id) ==
  IF id = Alias THEN Oldest(view) ELSE IF id \in Own(view) THEN id ELSE None

\* boardRuns: past the plan's count a board is frozen.
Runs(view, i) == Rank(view, i) <= Limit

Named(view, n) == {i \in DOMAIN view : view[i].name = n}

\* Waiting for another transaction: on a row, on a name in the unique index, and
\* on the project row, which a create locks and every insert share-locks.
RowFree(c, i) == \A d \in Requests \ {c} : i \notin DOMAIN pend[d]
NameFree(c, n) == \A d \in Requests \ {c} : Named(pend[d], n) = {}
Locks(d) == req[d].op = "create" /\ req[d].pc \in {"locked", "laid", "written"}
Inserted(d) == DOMAIN pend[d] \ DOMAIN boards
MayInsert(c) == \A d \in Requests \ {c} : ~Locks(d)
MayLock(c) == \A d \in Requests \ {c} : ~Locks(d) /\ Inserted(d) = {}

NewRow(n, layout, by) ==
  [own |-> TRUE, name |-> n, layout |-> layout, by |-> by, offer |-> {}]

Answer(c) == req' = [req EXCEPT ![c] = Done]
Refuse(c) == Answer(c) /\ pend' = [pend EXCEPT ![c] = <<>>]

-----------------------------------------------------------------------------
(* The doors of one statement after the read.                                *)

\* liveBoard: the board resolved and within the plan; the alias may be missing.
\* A request on an unknown or a frozen board is refused and changes nothing.
Begin(c, op, id, doc, n) ==
  LET b == Resolve(boards, id) IN
  /\ req[c].op = "idle"
  /\ b # None \/ id = Alias
  /\ b # None => Runs(boards, b) \/ op = "delete"
  /\ req' = [req EXCEPT ![c] =
       [Idle EXCEPT !.op = op, !.pc = "resolved", !.b = b, !.doc = doc, !.name = n,
                    !.seen = IF b = None THEN {} ELSE boards[b].layout,
                    !.by = IF b = None THEN "key" ELSE boards[b].by]]
  /\ UNCHANGED <<boards, pend, now>>

\* MUTANT of Taken: a row of the same workspace is overwritten as well.
Taken_Any(view) == Named(view, Main)

\* UpsertBoard's conflict: the row named Main it may take over, one an earlier
\* tenant left.
Taken(view) == {i \in Named(view, Main) : ~view[i].own}

\* What UpsertBoard writes, seen from view and begun at t: the new Main, the row
\* taken over, or nothing when this workspace has a Main.
Upsert(view, t, layout, by) ==
  IF Named(view, Main) = {} THEN Only(MainId(t), NewRow(Main, layout, by))
  ELSE [i \in Taken(view) |-> NewRow(Main, layout, by)]

MayUpsert(c) ==
  /\ NameFree(c, Main)
  /\ \A i \in Named(boards, Main) : RowFree(c, i)
  /\ Named(View(c), Main) = {} => MayInsert(c)

\* layAlias outside a transaction, by a put or an append that read no board.
LayAlias(c) ==
  LET laid == Upsert(boards, now, req[c].doc, Door(c)) IN
  /\ req[c].op \in {"put", "append"} /\ req[c].pc = "resolved" /\ req[c].b = None
  /\ MayUpsert(c)
  /\ now < MaxNow
  /\ now' = now + 1
  /\ boards' = Over(laid, boards)
  /\ IF DOMAIN laid # {} THEN Answer(c)
     ELSE req' = [req EXCEPT ![c].pc = "relay"]
  /\ UNCHANGED pend

\* Main was laid down since the read: the alias as it is now is written, or the
\* request fails, and its transaction with it, when there is none.
ResolveAgain(c) ==
  LET b == Oldest(View(c)) IN
  /\ req[c].pc = "relay"
  /\ IF b = None THEN Refuse(c)
     ELSE /\ req' = [req EXCEPT ![c] = [@ EXCEPT
               !.pc = IF req[c].op = "save" THEN "checked" ELSE "resolved",
               !.b = b, !.seen = View(c)[b].layout, !.by = View(c)[b].by]]
          /\ UNCHANGED pend
  /\ UNCHANGED <<boards, now>>

\* One UPDATE of the row the request resolved: nothing when it is gone.
Update(c, row) ==
  LET b == req[c].b IN
  /\ req[c].pc = "resolved" /\ b # None
  /\ RowFree(c, b)
  /\ boards' = IF b \in Own(boards) THEN Over(Only(b, row), boards) ELSE boards
  /\ Answer(c)
  /\ UNCHANGED <<pend, now>>

Target(c) == boards[req[c].b]

\* putBoardLayout: ProposeBoard when a key meets a board it read as curated,
\* PutBoardLayout otherwise, which resolves the offer.
PutBoard(c) ==
  /\ req[c].op = "put"
  /\ Update(c, IF Door(c) = "key" /\ req[c].by = "session"
               THEN [Target(c) EXCEPT !.offer = {req[c].doc}]
               ELSE [Target(c) EXCEPT !.layout = req[c].doc, !.by = Door(c), !.offer = {}])

\* AppendBoardLayout: the cards below what the request read, nothing else.
AppendBoard(c) ==
  /\ req[c].op = "append"
  /\ Update(c, [Target(c) EXCEPT !.layout = req[c].seen \cup req[c].doc])

ClearProposal(c) ==
  /\ req[c].op = "clear"
  /\ Update(c, [Target(c) EXCEPT !.offer = {}])

\* renameBoard of a stored board; a name of another row is a 409.
RenameBoard(c) ==
  /\ req[c].op = "rename"
  /\ NameFree(c, req[c].name)
  /\ IF Named(boards, req[c].name) \subseteq {req[c].b}
     THEN Update(c, [Target(c) EXCEPT !.name = req[c].name])
     ELSE /\ req[c].pc = "resolved" /\ req[c].b # None
          /\ Answer(c)
          /\ UNCHANGED <<boards, pend, now>>

\* renameBoard of a missing alias creates it under the name: no project lock and
\* no count.  A name that is taken sends it back to what the alias is now.
RenameCreates(c) ==
  LET n == req[c].name IN
  /\ req[c].op = "rename" /\ req[c].pc = "resolved" /\ req[c].b = None
  /\ NameFree(c, n)
  /\ MayInsert(c)
  /\ now < MaxNow
  /\ now' = now + 1
  /\ IF Named(boards, n) = {}
     THEN boards' = Over(Only(MainId(now), NewRow(n, {}, "key")), boards) /\ Answer(c)
     ELSE req' = [req EXCEPT ![c].pc = "relay"] /\ UNCHANGED boards
  /\ UNCHANGED pend

\* deleteBoard: the count is read, then the row goes; no transaction.
DeleteCounts(c) ==
  /\ req[c].op = "delete" /\ req[c].pc = "resolved"
  /\ IF req[c].b = None \/ Cardinality(Own(boards)) <= 1 THEN Answer(c)
     ELSE req' = [req EXCEPT ![c].pc = "counted"]
  /\ UNCHANGED <<boards, pend, now>>

DeleteBoard(c) ==
  /\ req[c].op = "delete" /\ req[c].pc = "counted"
  /\ RowFree(c, req[c].b)
  /\ boards' = [i \in DOMAIN boards \ {req[c].b} |-> boards[i]]
  /\ Answer(c)
  /\ UNCHANGED <<pend, now>>

-----------------------------------------------------------------------------
(* createBoard: one transaction under the project row's lock.                *)

CreateBegins(c, n, doc, by) ==
  /\ req[c].op = "idle"
  /\ now < MaxNow
  /\ now' = now + 1
  /\ req' = [req EXCEPT ![c] = [Idle EXCEPT !.op = "create", !.pc = "begun", !.doc = doc,
                                            !.name = n, !.by = by, !.at = now]]
  /\ UNCHANGED <<boards, pend>>

\* The lock, then the count: a project with nothing stored holds the alias.
CreateLocks(c) ==
  LET have == IF Own(boards) = {} THEN 1 ELSE Cardinality(Own(boards)) IN
  /\ req[c].op = "create" /\ req[c].pc = "begun"
  /\ MayLock(c)
  /\ IF have >= Limit THEN Answer(c)
     ELSE req' = [req EXCEPT ![c].pc = IF Own(boards) = {} THEN "locked" ELSE "laid"]
  /\ UNCHANGED <<boards, pend, now>>

CreateLaysMain(c) ==
  /\ req[c].op = "create" /\ req[c].pc = "locked"
  /\ MayUpsert(c)
  /\ pend' = [pend EXCEPT ![c] = Upsert(boards, req[c].at, {}, "key")]
  /\ req' = [req EXCEPT ![c].pc = "laid"]
  /\ UNCHANGED <<boards, now>>

\* CreateBoard: a name that is taken is a 409.
CreateInserts(c) ==
  LET r == req[c] IN
  /\ r.op = "create" /\ r.pc = "laid"
  /\ NameFree(c, r.name)
  /\ IF Named(View(c), r.name) # {} THEN Refuse(c)
     ELSE /\ pend' = [pend EXCEPT ![c] = Over(Only(NamedId(r.at), NewRow(r.name, r.doc, r.by)), @)]
          /\ req' = [req EXCEPT ![c].pc = "written"]
  /\ UNCHANGED <<boards, now>>

-----------------------------------------------------------------------------
(* saveBoards: every board one Save changed, in one transaction.             *)

\* What the session reads before it edits: the live boards and the alias.
Readable == {i \in Own(boards) : Runs(boards, i)} \cup {Alias}
Read(i) == LET b == Resolve(boards, i) IN IF b = None THEN {} ELSE boards[b].layout
EditOf(i, layout) == [id |-> i, base |-> Read(i), layout |-> layout]

\* One board redrawn, or one card moved between two, listed in either order.
Edits ==
  {<<EditOf(i, l)>> : i \in Readable, l \in Layouts}
  \cup UNION {LET from == EditOf(i, Read(i) \ {w})
                  to == EditOf(j, Read(j) \cup {w})
              IN  {<<from, to>>, <<to, from>>}
              : i, j \in Readable \ {Alias}, w \in Widgets}

Edit(c, edits) ==
  /\ req[c].op = "idle"
  /\ req' = [req EXCEPT ![c] = [Idle EXCEPT !.op = "save", !.pc = "resolved", !.edits = edits]]
  /\ UNCHANGED <<boards, pend, now>>

SaveBegins(c) ==
  /\ req[c].op = "save" /\ req[c].pc = "resolved"
  /\ now < MaxNow
  /\ now' = now + 1
  /\ req' = [req EXCEPT ![c] = [@ EXCEPT !.pc = "saving", !.at = now, !.k = 1]]
  /\ UNCHANGED <<boards, pend>>

Saving(c, pc) == /\ req[c].op = "save" /\ req[c].pc = pc
                 /\ req[c].k <= Len(req[c].edits)
Here(c) == req[c].edits[req[c].k]

\* The entry is written onto row b: the next one follows.
Saved(c, rows, b) ==
  LET r == req[c] IN
  /\ pend' = [pend EXCEPT ![c] = Over(rows, pend[c])]
  /\ req' = [req EXCEPT ![c] = [r EXCEPT !.pc = "saving", !.b = None, !.k = r.k + 1,
                                         !.edits = [r.edits EXCEPT ![r.k].id = b]]]

SaveResolves(c) ==
  LET b == Resolve(View(c), Here(c).id) IN
  /\ Saving(c, "saving")
  /\ IF (b = None /\ Here(c).id # Alias) \/ (b # None /\ ~Runs(View(c), b)) THEN Refuse(c)
     ELSE /\ req' = [req EXCEPT ![c] = [@ EXCEPT !.pc = IF b = None THEN "unlaid" ELSE "checked",
                                                 !.b = b]]
          /\ UNCHANGED pend
  /\ UNCHANGED <<boards, now>>

\* A Main this save lays down was the empty layout it is served as.
SaveLays(c) ==
  LET laid == Upsert(View(c), req[c].at, Here(c).layout, "session") IN
  /\ Saving(c, "unlaid")
  /\ MayUpsert(c)
  /\ IF DOMAIN laid = {} THEN req' = [req EXCEPT ![c].pc = "relay"] /\ UNCHANGED pend
     ELSE IF Here(c).base # {} THEN Refuse(c)
     ELSE Saved(c, laid, CHOOSE b \in DOMAIN laid : TRUE)
  /\ UNCHANGED <<boards, now>>

Curated(row, layout) == [row EXCEPT !.layout = layout, !.by = "session", !.offer = {}]

\* MUTANT of SaveWrites: the base is compared without waiting for the row.
SaveWrites_NoLock(c) ==
  LET b == req[c].b IN
  /\ Saving(c, "checked")
  /\ IF b \notin Own(View(c)) THEN Refuse(c)
     ELSE IF View(c)[b].layout # Here(c).base THEN Refuse(c)
     ELSE Saved(c, Only(b, Curated(View(c)[b], Here(c).layout)), b)
  /\ UNCHANGED <<boards, now>>

\* SELECT ... FOR UPDATE, boardRev against the base, PutBoardLayout.
SaveWrites(c) ==
  LET b == req[c].b IN
  /\ Saving(c, "checked")
  /\ RowFree(c, b)
  /\ IF b \notin Own(View(c)) THEN Refuse(c)
     ELSE IF View(c)[b].layout # Here(c).base THEN Refuse(c)
     ELSE Saved(c, Only(b, Curated(View(c)[b], Here(c).layout)), b)
  /\ UNCHANGED <<boards, now>>

SaveDone(c) == req[c].op = "save" /\ req[c].pc = "saving" /\ req[c].k > Len(req[c].edits)

Commits(c) ==
  /\ (req[c].op = "create" /\ req[c].pc = "written") \/ SaveDone(c)
  /\ boards' = Over(pend[c], boards)
  /\ Refuse(c)
  /\ UNCHANGED now

\* The connection, the process or, of two saves that wait on each other, the one
\* postgres picks: the request ends and its transaction is undone.
Fails(c) ==
  /\ req[c].op \notin {"idle", "done"}
  /\ Refuse(c)
  /\ UNCHANGED <<boards, now>>

-----------------------------------------------------------------------------

\* A row an earlier tenant left, nothing, or boards of the workspace, as many as
\* an earlier plan carried.  A board with cards is a person's.
Kept(n, layout) == NewRow(n, layout, IF layout = {} THEN "key" ELSE "session")
Init ==
  /\ boards \in {<<>>, Only(LeftBehind, [NewRow(Main, {}, "key") EXCEPT !.own = FALSE])}
       \cup {Only(2, Kept(Main, l)) : l \in Layouts}
       \cup {Over(Only(2, Kept(Main, l)), Only(3, Kept(n, {}))) : l \in Layouts, n \in Names \ {Main}}
  /\ req = [c \in Requests |-> Idle]
  /\ pend = [c \in Requests |-> <<>>]
  /\ now = 2

Ids == Own(boards) \cup {Alias}

Asks(c) ==
  \/ \E i \in Ids, d \in Layouts : Begin(c, "put", i, d, Main)
  \/ \E n \in Names, d \in Layouts : CreateBegins(c, n, d, Door(c))
  \/ \E n \in Names : CreateBegins(c, n, {}, "key")
  \/ c \in Keys /\ \E i \in Ids, w \in Widgets :
       w \notin Read(i) /\ Begin(c, "append", i, {w}, Main)
  \/ c \in Sessions /\ \E i \in Ids :
       \/ \E n \in Names : Begin(c, "rename", i, {}, n)
       \/ Begin(c, "delete", i, {}, Main)
       \/ i # Alias /\ Begin(c, "clear", i, {}, Main)
  \/ c \in Sessions /\ \E e \in Edits : Edit(c, e)

Goes(c) ==
  \/ LayAlias(c) \/ ResolveAgain(c) \/ PutBoard(c) \/ AppendBoard(c) \/ ClearProposal(c)
  \/ RenameBoard(c) \/ RenameCreates(c) \/ DeleteCounts(c) \/ DeleteBoard(c)
  \/ CreateLocks(c) \/ CreateLaysMain(c) \/ CreateInserts(c)
  \/ SaveBegins(c) \/ SaveResolves(c) \/ SaveLays(c) \/ SaveWrites(c)
  \/ Commits(c) \/ Fails(c)

Next == \E c \in Requests : Asks(c) \/ Goes(c)

Spec == Init /\ [][Next]_vars

-----------------------------------------------------------------------------
(* Properties.                                                               *)

\* A save lands only on the documents it was edited from: at its commit each
\* board still holds the base of the first entry that names it, so a card the
\* agent appended meanwhile is never erased by a draft that never held it
\* (saveBoards; the locked read, the base, and every other door's writes).
FirstEntry(c, i) ==
  LET ks == {k \in 1..Len(req[c].edits) : req[c].edits[k].id = i} IN req[c].edits[Least(ks)]
SaveOnItsBase ==
  [][\A c \in Sessions :
       SaveDone(c) /\ Commits(c)
         => \A i \in DOMAIN pend[c] \cap Own(boards) :
              boards[i].layout = FirstEntry(c, i).base]_vars

\* Laying Main down never touches a board this workspace already holds: a save
\* that answered is not undone by a request that read the project as empty
\* (layAlias and UpsertBoard).
LayingKeeps ==
  [][\A c \in Requests :
       LayAlias(c) \/ (req[c].op = "create" /\ Commits(c))
         => \A i \in Own(boards) : i \in DOMAIN boards' /\ boards'[i] = boards[i]]_vars

\* What the code's comments and tests say beyond that, and what the code does not
\* keep.  "it removes nothing" (appendBoardWidgets): a save that lands between an
\* append's read and its write is erased by it.
AppendRemovesNothing ==
  [][\A c \in Keys :
       AppendBoard(c) => \A i \in Own(boards) : boards[i].layout \subseteq boards'[i].layout]_vars

\* "a curated board is never overwritten by a credential" (putBoardLayout): the
\* provenance is read before the write.
CuratedKept ==
  [][\A c \in Keys : PutBoard(c) =>
       \A i \in Own(boards) :
         boards[i].by = "session" => boards'[i].layout = boards[i].layout]_vars

\* "A project keeps its last board" (deleteBoard): two deletes count two boards.
LastBoardKept == [][Own(boards) # {} => Own(boards') # {}]_vars

\* "Materialising Main first keeps the alias where every caller left it"
\* (createBoard): a create that began before Main was laid down by another dates
\* its board earlier, and the alias moves to it.
AliasStays ==
  [][Own(boards) # {} /\ (\A c \in Sessions : ~DeleteBoard(c))
       => Oldest(boards') = Oldest(boards)]_vars
===============================================================================
