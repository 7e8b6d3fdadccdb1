------------------------------ MODULE TeamProofs ------------------------------
(***************************************************************************)
(* Proofs about Team: for any humans, groups, projects, plans and calls, who *)
(* is active has proved it, who is written to was on the team, a chat stays   *)
(* with its person, and a removal that met nobody leaves nothing behind.      *)
(*                                                                          *)
(* TeamInv is the inductive invariant.  The four properties are conjuncts of  *)
(* it, and the others say what makes them last: what a request has read and   *)
(* is about to write (CallFine) and what the message in hand will (BotFine).  *)
(* While no removal has met another call, a request that adds writes for      *)
(* somebody who is still on the team, and a removal has found all there is    *)
(* (Alone).  RequestStands and MessageStands say when a step of somebody else *)
(* leaves these alone; every step of the system is one lemma over them.       *)
(***************************************************************************)
EXTENDS Team, SequenceTheorems, TLAPS

-----------------------------------------------------------------------------
(* The shapes of the rows, the requests and the message in hand.              *)

Mails == {r \in Rows : r.kind = "mail"}
Channel == [project : Projects, kind : {"email", "chat"}, to : Humans \cup Groups, row : Rows \cup {NoRow}]
Link == [project : Projects, row : Rows \cup {NoRow}, by : Rows, state : {"live", "redeemed", "burnt"}]

Invite == [op : {"invite"}, pc : {"carry", "upsert", "code", "commit"}, project : Projects, row : Mails,
           carry : BOOLEAN, locked : SUBSET (Projects \X Rows), status : Status]
Signin == [op : {"signin"}, pc : {"activate", "seed"}, row : Mails, seeds : SUBSET Projects]
Ask == [op : {"channel"}, pc : {"insert"}, project : Projects, kind : {"email", "chat"}, to : Humans \cup Groups]
Mint == [op : {"mint"}, pc : {"check", "insert"}, project : Projects, row : Rows \cup {NoRow}, by : Rows]
Removal == [op : {"remove"}, pc : {"member", "chats", "mails", "links", "commit"}, project : Projects, row : Rows,
            locked : SUBSET (Projects \X Rows), drops : SUBSET Channel, burns : SUBSET Nat]
Request == {Idle} \cup Invite \cup Signin \cup Ask \cup Mint \cup Removal

Message == [pc : {"person", "connect", "commit"}, link : Nat, chat : Humans \cup Groups, project : Projects,
            row : Rows \cup {NoRow}, forked : SUBSET Rows, joins : BOOLEAN, adds : BOOLEAN]

RowsFine ==
  /\ person \in [Rows -> [there : BOOLEAN, spent : BOOLEAN, tg : Humans \cup {Nobody}]]
  /\ member \in [Projects -> [Rows -> Status]]
  /\ channels \subseteq Channel
  /\ links \in Seq(Link)
  /\ proved \subseteq Rows /\ served \subseteq Projects \X Rows
  /\ crossed \in BOOLEAN /\ made \in Nat

\* An account is linked to rows that are there and were made once.
LinkedAreThere == \A r \in Rows : person[r].tg # Nobody => person[r].there /\ person[r].spent

\* Who is active has proved the address, and was active once.
ActivesAreServed == \A p \in Projects, r \in Rows : member[p][r] = "active" => r \in proved /\ <<p, r>> \in served

\* An e-mail destination has the address and no row.
AddressesAreOfNoRow == \A ch \in channels : ch.kind = "email" => ch.row = NoRow

LEMMA RowsAre ==
  /\ NoRow \notin Rows /\ NoRow.kind = "none"
  /\ \A h \in Humans : /\ Mail(h) \in Rows /\ Mail(h) \in Mails /\ Mail(h).kind = "mail" /\ Mail(h).of = h
                       /\ Fork(h) \in Rows /\ Fork(h).kind = "fork" /\ Fork(h).of = h
  /\ \A r \in Rows : r.kind \in {"mail", "fork"} /\ r.of \in Humans
  /\ \A r \in Mails : r \in Rows /\ r.kind = "mail" /\ r = Mail(r.of)
BY DEF Rows, NoRow, Mail, Fork, Mails

\* The kinds of request, told apart by their operation.
LEMMA RequestKinds ==
  ASSUME NEW x \in Request
  PROVE  /\ x.op \in {"none", "invite", "signin", "channel", "mint", "remove"}
         /\ x.op = "none" => x = Idle
         /\ x.op = "invite" => x \in Invite
         /\ x.op = "signin" => x \in Signin
         /\ x.op = "channel" => x \in Ask
         /\ x.op = "mint" => x \in Mint
         /\ x.op = "remove" => x \in Removal
<1>1. Idle.op = "none"
  BY DEF Idle
<1>2. \A y \in Invite : y.op = "invite"
  BY DEF Invite
<1>3. \A y \in Signin : y.op = "signin"
  BY DEF Signin
<1>4. \A y \in Ask : y.op = "channel"
  BY DEF Ask
<1>5. \A y \in Mint : y.op = "mint"
  BY DEF Mint
<1>6. \A y \in Removal : y.op = "remove"
  BY DEF Removal
<1> QED BY <1>1, <1>2, <1>3, <1>4, <1>5, <1>6 DEF Request

LEMMA SeqOf ==
  ASSUME NEW S, NEW n \in Nat, NEW f \in [1..n -> S]
  PROVE  f \in Seq(S) /\ Len(f) = n
<1>1. f \in Seq(S)
  BY SeqDef
<1>2. Len(f) \in Nat /\ 1..Len(f) = 1..n
  BY <1>1, LenProperties
<1>3. CASE Len(f) < n
  <2>1. n \in 1..n /\ n \notin 1..Len(f)
    BY <1>2, <1>3
  <2> QED BY <1>2, <2>1
<1>4. CASE Len(f) > n
  <2>1. Len(f) \in 1..Len(f) /\ Len(f) \notin 1..n
    BY <1>2, <1>4
  <2> QED BY <1>2, <2>1
<1> QED BY <1>1, <1>2, <1>3, <1>4

-----------------------------------------------------------------------------
(* The invariant.                                                            *)

\* An invitation makes somebody active only on a proof.
Carrying(c) ==
  call[c].op = "invite" =>
    /\ call[c].carry => call[c].row \in proved
    /\ call[c].status = "active" => call[c].row \in proved
    /\ call[c].pc \in {"code", "commit"} => call[c].status # "none"

\* What a request is about to write is for somebody on the team, unless a removal met it.
OnTeamStill(p, r) == ~crossed => member[p][r] # "none"

Seeding(c) ==
  call[c].op = "signin" =>
    \A p \in call[c].seeds : <<p, call[c].row>> \in served /\ OnTeamStill(p, call[c].row)

Asking(c) ==
  call[c].op = "channel" /\ call[c].kind = "email" =>
    /\ call[c].to \in Humans
    /\ call[c].to # Owner => /\ <<call[c].project, Mail(call[c].to)>> \in served
                            /\ OnTeamStill(call[c].project, Mail(call[c].to))

Minting(c) ==
  call[c].op = "mint" /\ call[c].pc = "insert" =>
    call[c].row \in {NoRow, Mail(Owner)} \/ OnTeamStill(call[c].project, call[c].row)

\* What a removal has found so far is all there is of the person in the project.
Removing(c) ==
  call[c].op = "remove" /\ ~crossed =>
    /\ call[c].pc \in {"mails", "links", "commit"} =>
         \A ch \in channels : ch.project = call[c].project /\ ch.row = call[c].row => ch \in call[c].drops
    /\ call[c].pc \in {"links", "commit"} =>
         \A ch \in channels : call[c].row.kind = "mail" /\ ch = Address(call[c].project, call[c].row.of) => ch \in call[c].drops
    /\ call[c].pc = "commit" =>
         \A i \in LinkIds : links[i].state = "live" /\ links[i].project = call[c].project /\ links[i].row = call[c].row
                              => i \in call[c].burns

CallFine(c) ==
  call[c] \in Request /\ Carrying(c) /\ Seeding(c) /\ Asking(c) /\ Minting(c) /\ Removing(c)

\* A removal that met nobody is among removals.
Alone ==
  ~crossed => \A c \in Calls : call[c].op = "remove" =>
    bot.pc = "idle" /\ \A d \in Calls : call[d].op \in {"none", "remove"}

\* The message in hand: the row it goes to may carry the account, and the rows it
\* absorbs are nobody's.
BotFine ==
  \/ bot = Idle
  \/ /\ bot \in Message
     /\ bot.link \in LinkIds
     /\ bot.pc = "person" => bot.row = NoRow /\ bot.chat \in Humans
     /\ bot.pc # "person" /\ bot.chat \in Humans => bot.row \in Rows
     /\ bot.row = NoRow => bot.forked = {} /\ ~bot.joins
     /\ bot.row \in Rows => bot.chat \in Humans /\ person[bot.row].tg \in {Nobody, bot.chat}
     /\ \A f \in bot.forked : /\ f.kind = "fork" /\ f # bot.row /\ person[f].tg = bot.chat
                              /\ \A p \in Projects : member[p][f] = "none"
     /\ bot.joins => links[bot.link].row = NoRow
     /\ ~crossed => /\ links[bot.link].state = "live" /\ links[bot.link].project = bot.project
                    /\ bot.row \in Rows /\ ~bot.joins => bot.row = Mail(Owner) \/ member[bot.project][bot.row] # "none"

TeamInv ==
  /\ call \in [Calls -> Request]
  /\ RowsFine /\ LinkedAreThere /\ ActivesAreServed /\ AddressesAreOfNoRow
  /\ MailKnowsItsReader /\ ChatIsOfItsPerson /\ RemovedIsOut
  /\ \A c \in Calls : CallFine(c)
  /\ Alone /\ BotFine

LEMMA LinksAre ==
  ASSUME RowsFine
  PROVE  Len(links) \in Nat /\ LinkIds = 1..Len(links) /\ DOMAIN links = LinkIds
         /\ \A i \in LinkIds : i \in Nat /\ links[i] \in Link
<1>1. links \in Seq(Link)
  BY DEF RowsFine
<1>2. Len(links) \in Nat /\ links \in [1..Len(links) -> Link] /\ DOMAIN links = 1..Len(links)
  BY <1>1, LenProperties
<1> QED BY <1>2 DEF LinkIds

LEMMA TeamTypes == ASSUME TeamInv PROVE TypeOK
<1>1. \A i \in LinkIds : links[i] \in Link
  BY LinksAre DEF TeamInv
<1> QED BY <1>1 DEF TeamInv, RowsFine, TypeOK, Channel, Link

-----------------------------------------------------------------------------
(* What a step leaves alone.                                                 *)

\* A request that does not move stays fine while what was proved and served stays
\* so, nobody's membership ends under one that adds, and nothing is added under a
\* removal.
LEMMA RequestStands ==
  ASSUME RowsFine, NEW c \in Calls, CallFine(c), call'[c] = call[c],
         proved \subseteq proved', served \subseteq served', ~crossed' => ~crossed,
         call[c].op \in {"signin", "channel", "mint"} /\ ~crossed' =>
           \A p \in Projects, r \in Rows : member[p][r] # "none" => member'[p][r] # "none",
         call[c].op = "remove" /\ ~crossed' =>
           /\ channels' \subseteq channels
           /\ \A i \in LinkIds' : /\ i \in LinkIds /\ links'[i].project = links[i].project /\ links'[i].row = links[i].row
                                  /\ links'[i].state = "live" => links[i].state = "live"
  PROVE  CallFine(c)'
<1>1. call[c] \in Request /\ call'[c] \in Request
  BY DEF CallFine
<1>2. Carrying(c)'
  BY DEF CallFine, Carrying
<1>3. Seeding(c)'
  <2> SUFFICES ASSUME call[c].op = "signin", NEW p \in call[c].seeds
               PROVE  <<p, call[c].row>> \in served' /\ OnTeamStill(p, call[c].row)'
    BY DEF Seeding
  <2>1. p \in Projects /\ call[c].row \in Rows
    BY <1>1, RequestKinds, RowsAre DEF Signin
  <2>2. <<p, call[c].row>> \in served /\ OnTeamStill(p, call[c].row)
    BY DEF CallFine, Seeding
  <2> QED BY <2>1, <2>2 DEF OnTeamStill
<1>4. Asking(c)'
  <2>1. ASSUME call[c].op = "channel", call[c].kind = "email"
        PROVE  call[c].to \in Humans
    BY <2>1 DEF CallFine, Asking
  <2> SUFFICES ASSUME call[c].op = "channel", call[c].kind = "email", call[c].to # Owner
               PROVE  /\ <<call[c].project, Mail(call[c].to)>> \in served'
                      /\ OnTeamStill(call[c].project, Mail(call[c].to))'
    BY <2>1 DEF Asking
  <2>2. call[c].project \in Projects /\ Mail(call[c].to) \in Rows
    BY <1>1, <2>1, RequestKinds, RowsAre DEF Ask
  <2>3. /\ <<call[c].project, Mail(call[c].to)>> \in served
        /\ OnTeamStill(call[c].project, Mail(call[c].to))
    BY DEF CallFine, Asking
  <2> QED BY <2>2, <2>3 DEF OnTeamStill
<1>5. Minting(c)'
  <2> SUFFICES ASSUME call[c].op = "mint", call[c].pc = "insert", call[c].row \notin {NoRow, Mail(Owner)}
               PROVE  OnTeamStill(call[c].project, call[c].row)'
    BY DEF Minting
  <2>1. call[c].project \in Projects /\ call[c].row \in Rows
    BY <1>1, RequestKinds, RowsAre DEF Mint
  <2>2. OnTeamStill(call[c].project, call[c].row)
    BY DEF CallFine, Minting
  <2> QED BY <2>1, <2>2 DEF OnTeamStill
<1>6. Removing(c)'
  BY DEF CallFine, Removing
<1> QED BY <1>1, <1>2, <1>3, <1>4, <1>5, <1>6 DEF CallFine

\* The message in hand stays fine while its link does, and nobody's membership ends
\* but by a removal.
LEMMA MessageStands ==
  ASSUME RowsFine, BotFine, bot' = bot, ~crossed' => ~crossed,
         \A i \in LinkIds : /\ i \in LinkIds' /\ links'[i].project = links[i].project /\ links'[i].row = links[i].row
                            /\ i = bot.link /\ bot # Idle /\ ~crossed' => (links[i].state = "live" => links'[i].state = "live"),
         \A r \in Rows : person'[r].tg = person[r].tg,
         \A p \in Projects, r \in Rows : r.kind = "fork" /\ member[p][r] = "none" => member'[p][r] = "none",
         bot # Idle /\ ~crossed' => \A p \in Projects, r \in Rows : member[p][r] # "none" => member'[p][r] # "none"
  PROVE  BotFine'
<1>1. CASE bot = Idle
  BY <1>1 DEF BotFine
<1>2. CASE bot # Idle
  <2>1. bot \in Message /\ bot.link \in LinkIds /\ bot.project \in Projects /\ bot.forked \subseteq Rows
    BY <1>2 DEF BotFine, Message
  <2>2. \A f \in bot.forked : /\ f.kind = "fork" /\ f # bot.row /\ person'[f].tg = bot.chat
                              /\ \A p \in Projects : member'[p][f] = "none"
    BY <1>2, <2>1 DEF BotFine
  <2>3. bot.row \in Rows => bot.chat \in Humans /\ person'[bot.row].tg \in {Nobody, bot.chat}
    BY <1>2 DEF BotFine
  <2>4. links'[bot.link].row = links[bot.link].row /\ links'[bot.link].project = links[bot.link].project
        /\ bot.link \in LinkIds' /\ (~crossed' => (links[bot.link].state = "live" => links'[bot.link].state = "live"))
    BY <1>2, <2>1
  <2>5. ~crossed' =>
          /\ links'[bot.link].state = "live" /\ links'[bot.link].project = bot.project
          /\ bot.row \in Rows /\ ~bot.joins => bot.row = Mail(Owner) \/ member'[bot.project][bot.row] # "none"
    BY <1>2, <2>1, <2>4 DEF BotFine
  <2>6. /\ bot.pc = "person" => bot.row = NoRow /\ bot.chat \in Humans
        /\ bot.pc # "person" /\ bot.chat \in Humans => bot.row \in Rows
        /\ bot.row = NoRow => bot.forked = {} /\ ~bot.joins
        /\ bot.joins => links[bot.link].row = NoRow
    BY <1>2 DEF BotFine
  <2> QED BY <2>1, <2>2, <2>3, <2>4, <2>5, <2>6 DEF BotFine
<1> QED BY <1>1, <1>2

\* One request moves and writes nothing.
LEMMA RequestMoves ==
  ASSUME TeamInv, NEW c \in Calls, call' \in [Calls -> Request],
         \A d \in Calls \ {c} : call'[d] = call[d],
         UNCHANGED <<person, member, channels, links, bot, proved, served>>,
         made' \in Nat, crossed' \in BOOLEAN, ~crossed' => ~crossed,
         CallFine(c)', Alone'
  PROVE  TeamInv'
<1>1. RowsFine' /\ LinkedAreThere' /\ ActivesAreServed' /\ AddressesAreOfNoRow' /\ MailKnowsItsReader' /\ ChatIsOfItsPerson' /\ RemovedIsOut'
  BY DEF TeamInv, RowsFine, LinkedAreThere, ActivesAreServed, AddressesAreOfNoRow, MailKnowsItsReader, ChatIsOfItsPerson, RemovedIsOut, There, LinkIds
<1>2. LinkIds' = LinkIds
  BY DEF LinkIds
<1>3. ASSUME NEW d \in Calls PROVE CallFine(d)'
  <2>1. CASE d = c
    BY <2>1
  <2>2. CASE d # c
    <3>1. call'[d] = call[d]
      BY <2>2
    <3> QED BY <1>2, <3>1, RequestStands DEF TeamInv
  <2> QED BY <2>1, <2>2
<1>4. BotFine'
  BY <1>2, MessageStands DEF TeamInv
<1> QED BY <1>1, <1>3, <1>4 DEF TeamInv

\* Only the message in hand moves.
LEMMA MessageMoves ==
  ASSUME TeamInv, UNCHANGED <<person, member, channels, links, call, proved, served>>,
         made' \in Nat, crossed' \in BOOLEAN, ~crossed' => ~crossed,
         BotFine', Alone'
  PROVE  TeamInv'
<1>1. RowsFine' /\ LinkedAreThere' /\ ActivesAreServed' /\ AddressesAreOfNoRow' /\ MailKnowsItsReader' /\ ChatIsOfItsPerson' /\ RemovedIsOut'
  BY DEF TeamInv, RowsFine, LinkedAreThere, ActivesAreServed, AddressesAreOfNoRow, MailKnowsItsReader, ChatIsOfItsPerson, RemovedIsOut, There, LinkIds
<1>2. LinkIds' = LinkIds
  BY DEF LinkIds
<1>3. ASSUME NEW d \in Calls PROVE CallFine(d)'
  BY <1>2, RequestStands DEF TeamInv
<1> QED BY <1>1, <1>3 DEF TeamInv

\* A step after which nobody is removing who was not, and nobody adds who did not.
LEMMA AloneStands ==
  ASSUME Alone, ~crossed' => ~crossed,
         \A d \in Calls : call'[d].op \in {call[d].op, "none"},
         bot'.pc = "idle" \/ bot'.pc = bot.pc \/ bot.pc # "idle"
  PROVE  Alone'
BY DEF Alone
-----------------------------------------------------------------------------
(* Steps of a request that write nothing.                                     *)

\* A request moves on to a record of its own operation, or ends.
LEMMA Moving ==
  ASSUME TeamInv, NEW c \in Calls, NEW x \in Request, call' = [call EXCEPT ![c] = x]
  PROVE  call' \in [Calls -> Request] /\ call'[c] = x /\ \A d \in Calls \ {c} : call'[d] = call[d]
BY DEF TeamInv

LEMMA IdleIsFine ==
  ASSUME NEW c \in Calls, call'[c] = Idle
  PROVE  CallFine(c)'
<1>1. Idle \in Request /\ Idle.op = "none"
  BY DEF Idle, Request
<1> QED BY <1>1 DEF CallFine, Carrying, Seeding, Asking, Minting, Removing

LEMMA EndsStep ==
  ASSUME TeamInv, NEW c \in Calls, Ends(c), UNCHANGED team, Quietly
  PROVE  TeamInv'
<1>1. Idle \in Request /\ Idle.op = "none"
  BY DEF Idle, Request
<1>2. call' \in [Calls -> Request] /\ call'[c] = Idle /\ \A d \in Calls \ {c} : call'[d] = call[d]
  BY <1>1, Moving DEF Ends
<1>3. CallFine(c)'
  BY <1>2, IdleIsFine
<1>4. Alone'
  <2>1. \A d \in Calls : call'[d].op \in {call[d].op, "none"}
    BY <1>1, <1>2
  <2> QED BY <2>1, AloneStands DEF TeamInv, Quietly, ghosts
<1> QED BY <1>2, <1>3, <1>4, RequestMoves DEF TeamInv, RowsFine, Quietly, ghosts, team

\* A request goes on as what it is.
LEMMA GoesOn ==
  ASSUME TeamInv, NEW c \in Calls, NEW x \in Request, call' = [call EXCEPT ![c] = x], x.op = call[c].op,
         UNCHANGED team, Quietly, CallFine(c)'
  PROVE  TeamInv'
<1>1. call' \in [Calls -> Request] /\ call'[c] = x /\ \A d \in Calls \ {c} : call'[d] = call[d]
  BY Moving
<1>2. Alone'
  <2>1. \A d \in Calls : call'[d].op \in {call[d].op, "none"}
    BY <1>1
  <2> QED BY <2>1, AloneStands DEF TeamInv, Quietly, ghosts
<1> QED BY <1>1, <1>2, RequestMoves DEF TeamInv, RowsFine, Quietly, ghosts, team

LEMMA BeginsStep ==
  ASSUME TeamInv, NEW c \in Calls, NEW x \in Request, x.op # "none", Begins(c, x),
         call'[c] = x => CallFine(c)'
  PROVE  TeamInv'
<1>1. call' \in [Calls -> Request] /\ call'[c] = x /\ \A d \in Calls \ {c} : call'[d] = call[d]
  BY Moving DEF Begins
<1>2. made' \in Nat
  BY DEF Begins, TeamInv, RowsFine
<1>3. crossed' \in BOOLEAN /\ (~crossed' => ~crossed)
  BY DEF Begins, TeamInv, RowsFine
<1>4. Alone'
  <2> SUFFICES ASSUME ~crossed', NEW d \in Calls, call'[d].op = "remove"
               PROVE  bot'.pc = "idle" /\ \A e \in Calls : call'[e].op \in {"none", "remove"}
    BY DEF Alone
  <2>1. bot' = bot
    BY DEF Begins
  <2>2. CASE x.op = "remove"
    <3>1. ~Meets
      BY <2>2 DEF Begins
    <3>2. bot.pc = "idle" /\ \A e \in Calls : call[e].op \in {"none", "remove"}
      BY <3>1 DEF Meets, Adding
    <3> QED BY <1>1, <2>1, <2>2, <3>2
  <2>3. CASE x.op # "remove"
    <3>1. \A e \in Calls : call[e].op # "remove"
      BY <2>3 DEF Begins
    <3> QED BY <1>1, <2>3, <3>1
  <2> QED BY <2>2, <2>3
<1> QED BY <1>1, <1>2, <1>3, <1>4, RequestMoves DEF Begins, team

LEMMA InvitesStep ==
  ASSUME TeamInv, NEW c \in Calls, NEW p \in Projects, NEW h \in Humans, Invites(c, p, h)
  PROVE  TeamInv'
<1> DEFINE x == [op |-> "invite", pc |-> "carry", project |-> p, row |-> Mail(h), carry |-> FALSE,
                 locked |-> {}, status |-> "none"]
<1>1. x \in Invite
  BY RowsAre DEF Invite, Status
<1>2. x \in Request
  BY <1>1 DEF Request
<1>3. ASSUME call'[c] = x PROVE CallFine(c)'
  <2>1. call'[c] \in Request /\ call'[c].op = "invite" /\ call'[c].carry = FALSE /\ call'[c].status = "none" /\ call'[c].pc = "carry"
    BY <1>2, <1>3
  <2> QED BY <2>1 DEF CallFine, Carrying, Seeding, Asking, Minting, Removing
<1>4. Begins(c, x) /\ x.op # "none"
  BY DEF Invites
<1> HIDE DEF x
<1> QED BY <1>2, <1>3, <1>4, BeginsStep

LEMMA SignsInStep ==
  ASSUME TeamInv, NEW c \in Calls, NEW h \in Humans, SignsIn(c, h)
  PROVE  TeamInv'
<1> DEFINE x == [op |-> "signin", pc |-> "activate", row |-> Mail(h), seeds |-> {}]
<1>1. x \in Signin
  BY RowsAre DEF Signin
<1>2. x \in Request
  BY <1>1 DEF Request
<1>3. ASSUME call'[c] = x PROVE CallFine(c)'
  <2>1. call'[c] \in Request /\ call'[c].op = "signin" /\ call'[c].seeds = {}
    BY <1>2, <1>3
  <2> QED BY <2>1 DEF CallFine, Carrying, Seeding, Asking, Minting, Removing
<1>4. Begins(c, x) /\ x.op # "none"
  BY DEF SignsIn
<1> HIDE DEF x
<1> QED BY <1>2, <1>3, <1>4, BeginsStep

LEMMA AsksChannelStep ==
  ASSUME TeamInv, NEW c \in Calls, NEW p \in Projects, NEW kind \in {"email", "chat"},
         NEW to \in Humans \cup Groups, AsksChannel(c, p, kind, to)
  PROVE  TeamInv'
<1> DEFINE x == [op |-> "channel", pc |-> "insert", project |-> p, kind |-> kind, to |-> to]
<1>1. x \in Ask
  BY DEF Ask
<1>2. x \in Request
  BY <1>1 DEF Request
<1>3. ASSUME call'[c] = x PROVE CallFine(c)'
  <2>1. call'[c] \in Request /\ call'[c].op = "channel" /\ call'[c].project = p /\ call'[c].kind = kind /\ call'[c].to = to
    BY <1>2, <1>3
  <2>2. ASSUME kind = "email"
        PROVE  to \in Humans /\ (to # Owner => <<p, Mail(to)>> \in served /\ member[p][Mail(to)] # "none")
    BY <2>2, RowsAre DEF AsksChannel, Known, TeamInv, ActivesAreServed
  <2>3. served' = served /\ member' = member
    BY DEF AsksChannel, Begins, team
  <2>4. Asking(c)'
    BY <2>1, <2>2, <2>3 DEF Asking, OnTeamStill
  <2> QED BY <2>1, <2>4 DEF CallFine, Carrying, Seeding, Minting, Removing
<1>4. Begins(c, x) /\ x.op # "none"
  BY DEF AsksChannel
<1> HIDE DEF x
<1> QED BY <1>2, <1>3, <1>4, BeginsStep

LEMMA CountsSeatsStep ==
  ASSUME TeamInv, NEW c \in Calls, NEW p \in Projects, NEW r \in Rows \cup {NoRow}, NEW by \in Rows,
         CountsSeats(c, p, r, by)
  PROVE  TeamInv'
<1> DEFINE x == [op |-> "mint", pc |-> "check", project |-> p, row |-> r, by |-> by]
<1>1. x \in Mint
  BY DEF Mint
<1>2. x \in Request
  BY <1>1 DEF Request
<1>3. ASSUME call'[c] = x PROVE CallFine(c)'
  <2>1. call'[c] \in Request /\ call'[c].op = "mint" /\ call'[c].pc = "check"
    BY <1>2, <1>3
  <2> QED BY <2>1 DEF CallFine, Carrying, Seeding, Asking, Minting, Removing
<1>4. Begins(c, x) /\ x.op # "none"
  BY DEF CountsSeats
<1> HIDE DEF x
<1> QED BY <1>2, <1>3, <1>4, BeginsStep

LEMMA RemovesStep ==
  ASSUME TeamInv, NEW c \in Calls, NEW p \in Projects, NEW r \in Rows, Removes(c, p, r)
  PROVE  TeamInv'
<1> DEFINE x == [op |-> "remove", pc |-> "member", project |-> p, row |-> r,
                 locked |-> {}, drops |-> {}, burns |-> {}]
<1>1. x \in Removal
  BY DEF Removal
<1>2. x \in Request
  BY <1>1 DEF Request
<1>3. ASSUME call'[c] = x PROVE CallFine(c)'
  <2>1. call'[c] \in Request /\ call'[c].op = "remove" /\ call'[c].pc = "member"
    BY <1>2, <1>3
  <2> QED BY <2>1 DEF CallFine, Carrying, Seeding, Asking, Minting, Removing
<1>4. Begins(c, x) /\ x.op # "none"
  BY DEF Removes
<1> HIDE DEF x
<1> QED BY <1>2, <1>3, <1>4, BeginsStep

LEMMA CarriesStep ==
  ASSUME TeamInv, NEW c \in Calls, Carries(c)
  PROVE  TeamInv'
<1> DEFINE x == [call[c] EXCEPT !.pc = "upsert", !.carry = \E p \in Projects : member[p][call[c].row] = "active"]
<1>1. call[c] \in Invite
  BY RequestKinds DEF Carries, TeamInv
<1>2. x \in Invite /\ x.op = "invite" /\ x.row = call[c].row /\ x.pc = "upsert" /\ x.status = call[c].status
      /\ x.carry = (\E p \in Projects : member[p][call[c].row] = "active")
  BY <1>1 DEF Invite
<1>3. call' = [call EXCEPT ![c] = x]
  BY DEF Carries
<1>4. UNCHANGED team /\ Quietly /\ call[c].op = "invite"
  BY DEF Carries
<1> HIDE DEF x
<1>5. x \in Request
  BY <1>2 DEF Request
<1>6. call'[c] = x
  BY <1>3, <1>5, Moving
<1>7. x.carry => x.row \in proved
  <2>1. call[c].row \in Rows
    BY <1>1, RowsAre DEF Invite
  <2> QED BY <1>2, <2>1 DEF TeamInv, ActivesAreServed
<1>8. x.status = "active" => x.row \in proved
  BY <1>2, <1>4 DEF TeamInv, CallFine, Carrying
<1>9. CallFine(c)'
  BY <1>2, <1>4, <1>5, <1>6, <1>7, <1>8
     DEF CallFine, Carrying, Seeding, Asking, Minting, Removing, Quietly, ghosts
<1> QED BY <1>2, <1>3, <1>4, <1>5, <1>9, GoesOn

LEMMA UpsertsStep ==
  ASSUME TeamInv, NEW c \in Calls, Upserts(c)
  PROVE  TeamInv'
<1>1. call[c] \in Invite
  BY RequestKinds DEF Upserts, TeamInv
<1>2. call[c].project \in Projects /\ call[c].row \in Rows /\ call[c].carry \in BOOLEAN
  BY <1>1, RowsAre DEF Invite
<1>3. PICK s \in Status : s = Upserted(member[call[c].project][call[c].row], call[c].carry)
  BY <1>2 DEF Upserted, Status, TeamInv, RowsFine
<1>4. s # "none" /\ (s = "active" => member[call[c].project][call[c].row] = "active" \/ call[c].carry)
  BY <1>3 DEF Upserted
<1> DEFINE x == [call[c] EXCEPT !.locked = {<<call[c].project, call[c].row>>}, !.status = s,
                                !.pc = IF s = "active" THEN "commit" ELSE "code"]
<1>5. x \in Invite /\ x.op = "invite" /\ x.row = call[c].row /\ x.status = s /\ x.carry = call[c].carry
  <2>1. {<<call[c].project, call[c].row>>} \in SUBSET (Projects \X Rows)
    BY <1>2
  <2>2. (IF s = "active" THEN "commit" ELSE "code") \in {"carry", "upsert", "code", "commit"}
    OBVIOUS
  <2> QED BY <1>1, <2>1, <2>2 DEF Invite
<1>6. call' = [call EXCEPT ![c] = x]
  BY <1>3, Zenon DEF Upserts
<1>7. UNCHANGED team /\ Quietly /\ call[c].op = "invite"
  BY DEF Upserts
<1> HIDE DEF x
<1>8. x \in Request
  BY <1>5 DEF Request
<1>9. call'[c] = x
  BY <1>6, <1>8, Moving
<1>10. x.carry => x.row \in proved
  BY <1>5, <1>7 DEF TeamInv, CallFine, Carrying
<1>11. x.status = "active" => x.row \in proved
  BY <1>2, <1>4, <1>5, <1>10 DEF TeamInv, ActivesAreServed
<1>12. CallFine(c)'
  BY <1>4, <1>5, <1>7, <1>8, <1>9, <1>10, <1>11
     DEF CallFine, Carrying, Seeding, Asking, Minting, Removing, Quietly, ghosts
<1> QED BY <1>5, <1>6, <1>7, <1>8, <1>12, GoesOn

LEMMA MintsCodeStep ==
  ASSUME TeamInv, NEW c \in Calls, MintsCode(c)
  PROVE  TeamInv'
<1> DEFINE x == [call[c] EXCEPT !.pc = "commit"]
<1>1. call[c] \in Invite
  BY RequestKinds DEF MintsCode, TeamInv
<1>2. /\ x \in Invite /\ x.op = "invite" /\ x.row = call[c].row /\ x.status = call[c].status
      /\ x.carry = call[c].carry
  BY <1>1 DEF Invite
<1>3. call' = [call EXCEPT ![c] = x]
  BY DEF MintsCode, Go
<1>4. UNCHANGED team /\ Quietly /\ call[c].op = "invite" /\ call[c].pc = "code"
  BY DEF MintsCode
<1> HIDE DEF x
<1>5. x \in Request
  BY <1>2 DEF Request
<1>6. call'[c] = x
  BY <1>3, <1>5, Moving
<1>7. Carrying(c)
  BY DEF TeamInv, CallFine
<1>8. CallFine(c)'
  BY <1>2, <1>4, <1>5, <1>6, <1>7
     DEF CallFine, Carrying, Seeding, Asking, Minting, Removing, Quietly, ghosts
<1> QED BY <1>2, <1>3, <1>4, <1>5, <1>8, GoesOn

LEMMA ChecksPersonStep ==
  ASSUME TeamInv, NEW c \in Calls, ChecksPerson(c)
  PROVE  TeamInv'
<1>1. UNCHANGED team /\ Quietly /\ call[c].op = "mint"
  BY DEF ChecksPerson
<1>2. CASE Ends(c)
  BY <1>1, <1>2, EndsStep
<1>3. CASE ~Ends(c)
  <2> DEFINE x == [call[c] EXCEPT !.pc = "insert"]
  <2>1. call[c] \in Mint
    BY <1>1, RequestKinds DEF TeamInv
  <2>2. x \in Mint /\ x.op = "mint" /\ x.row = call[c].row /\ x.project = call[c].project
    BY <2>1 DEF Mint
  <2>3. call' = [call EXCEPT ![c] = x] /\ (call[c].row = NoRow \/ OnTeam(call[c].project, call[c].row))
    BY <1>3 DEF ChecksPerson, Go
  <2> HIDE DEF x
  <2>4. x \in Request
    BY <2>2 DEF Request
  <2>5. call'[c] = x
    BY <2>3, <2>4, Moving
  <2>6. x.row \in {NoRow, Mail(Owner)} \/ member[x.project][x.row] # "none"
    BY <2>2, <2>3 DEF OnTeam
  <2>7. Minting(c)'
    BY <1>1, <2>5, <2>6 DEF Minting, OnTeamStill, team
  <2>8. CallFine(c)'
    BY <2>2, <2>4, <2>5, <2>7 DEF CallFine, Carrying, Seeding, Asking, Removing
  <2> QED BY <1>1, <2>2, <2>3, <2>4, <2>8, GoesOn
<1> QED BY <1>2, <1>3

LEMMA DropsMemberStep ==
  ASSUME TeamInv, NEW c \in Calls, DropsMember(c)
  PROVE  TeamInv'
<1> DEFINE x == [call[c] EXCEPT !.pc = "chats", !.locked = {<<call[c].project, call[c].row>>}]
<1>1. call[c] \in Removal
  BY RequestKinds DEF DropsMember, TeamInv
<1>2. x \in Removal /\ x.op = "remove" /\ x.pc = "chats"
  <2>1. {<<call[c].project, call[c].row>>} \in SUBSET (Projects \X Rows)
    BY <1>1 DEF Removal
  <2> QED BY <1>1, <2>1 DEF Removal
<1>3. call' = [call EXCEPT ![c] = x]
  BY DEF DropsMember
<1>4. UNCHANGED team /\ Quietly /\ call[c].op = "remove"
  BY DEF DropsMember
<1> HIDE DEF x
<1>5. x \in Request
  BY <1>2 DEF Request
<1>6. call'[c] = x
  BY <1>3, <1>5, Moving
<1>7. CallFine(c)'
  BY <1>2, <1>5, <1>6 DEF CallFine, Carrying, Seeding, Asking, Minting, Removing
<1> QED BY <1>2, <1>3, <1>4, <1>5, <1>7, GoesOn

LEMMA DropsChatsStep ==
  ASSUME TeamInv, NEW c \in Calls, DropsChats(c)
  PROVE  TeamInv'
<1> DEFINE all == {ch \in channels : ch.project = call[c].project /\ ch.row = call[c].row}
<1> DEFINE found == {ch \in channels : ch.project = call[c].project /\ ch.kind = "chat" /\ ch.row = call[c].row}
<1> DEFINE x == [call[c] EXCEPT !.pc = "mails", !.drops = found]
<1>1. call[c] \in Removal
  BY RequestKinds DEF DropsChats, TeamInv
<1>2. found \subseteq Channel
  BY DEF TeamInv, RowsFine
<1>3. x \in Removal /\ x.op = "remove" /\ x.pc = "mails" /\ x.drops = found
      /\ x.project = call[c].project /\ x.row = call[c].row
  BY <1>1, <1>2 DEF Removal
<1>4. call' = [call EXCEPT ![c] = x]
  BY DEF DropsChats
<1>5. UNCHANGED team /\ Quietly /\ call[c].op = "remove"
  BY DEF DropsChats
<1> HIDE DEF x
<1>6. x \in Request
  BY <1>3 DEF Request
<1>7. call'[c] = x
  BY <1>4, <1>6, Moving
<1>8. all \subseteq found
  <2>1. call[c].row # NoRow
    BY <1>1, RowsAre DEF Removal
  <2> QED BY <2>1 DEF TeamInv, RowsFine, Channel, AddressesAreOfNoRow
<1>9. CallFine(c)'
  <2>1. \A ch \in channels' : ch.project = x.project /\ ch.row = x.row => ch \in x.drops
    BY <1>3, <1>5, <1>8 DEF team
  <2> QED BY <1>3, <1>6, <1>7, <2>1 DEF CallFine, Carrying, Seeding, Asking, Minting, Removing
<1> QED BY <1>3, <1>4, <1>5, <1>6, <1>9, GoesOn

LEMMA DropsMailsStep ==
  ASSUME TeamInv, NEW c \in Calls, DropsMails(c)
  PROVE  TeamInv'
<1> DEFINE found == {ch \in channels : ch = Address(call[c].project, call[c].row.of) /\ call[c].row.kind = "mail"}
<1> DEFINE x == [call[c] EXCEPT !.pc = "links", !.drops = @ \cup found]
<1>1. call[c] \in Removal
  BY RequestKinds DEF DropsMails, TeamInv
<1>2. call[c].drops \cup found \in SUBSET Channel
  BY <1>1 DEF TeamInv, RowsFine, Removal
<1>3. x \in Removal /\ x.op = "remove" /\ x.pc = "links" /\ x.drops = call[c].drops \cup found
      /\ x.project = call[c].project /\ x.row = call[c].row
  BY <1>1, <1>2 DEF Removal
<1>4. call' = [call EXCEPT ![c] = x]
  BY DEF DropsMails
<1>5. UNCHANGED team /\ Quietly /\ call[c].op = "remove" /\ call[c].pc = "mails"
  BY DEF DropsMails
<1>6. \A ch \in channels : x.row.kind = "mail" /\ ch = Address(x.project, x.row.of) => ch \in x.drops
  BY <1>3
<1> HIDE DEF found, x
<1>7. x \in Request
  BY <1>3 DEF Request
<1>8. call'[c] = x
  BY <1>4, <1>7, Moving
<1>9. ~crossed => \A ch \in channels : ch.project = x.project /\ ch.row = x.row => ch \in x.drops
  BY <1>3, <1>5 DEF TeamInv, CallFine, Removing
<1>10. Removing(c)'
  BY <1>3, <1>5, <1>6, <1>8, <1>9 DEF Removing, Address, Typed, team, Quietly, ghosts
<1>11. CallFine(c)'
  BY <1>3, <1>7, <1>8, <1>10 DEF CallFine, Carrying, Seeding, Asking, Minting
<1> QED BY <1>3, <1>4, <1>5, <1>7, <1>11, GoesOn

LEMMA DropsLinksStep ==
  ASSUME TeamInv, NEW c \in Calls, DropsLinks(c)
  PROVE  TeamInv'
<1>1. call[c] \in Removal
  BY RequestKinds DEF DropsLinks, TeamInv
<1>2. PICK ids \in SUBSET Nat : ids = LinksOf(call[c].project, call[c].row)
  BY LinksAre DEF LinksOf, TeamInv
<1> DEFINE x == [call[c] EXCEPT !.pc = "commit", !.burns = ids]
<1>3. x \in Removal /\ x.op = "remove" /\ x.pc = "commit" /\ x.drops = call[c].drops /\ x.burns = ids
      /\ x.project = call[c].project /\ x.row = call[c].row
  BY <1>1 DEF Removal
<1>4. call' = [call EXCEPT ![c] = x]
  BY <1>2 DEF DropsLinks
<1>5. UNCHANGED team /\ Quietly /\ call[c].op = "remove" /\ call[c].pc = "links"
  BY DEF DropsLinks
<1> HIDE DEF x
<1>6. x \in Request
  BY <1>3 DEF Request
<1>7. call'[c] = x
  BY <1>4, <1>6, Moving
<1>8. ~crossed =>
        /\ \A ch \in channels : ch.project = x.project /\ ch.row = x.row => ch \in x.drops
        /\ \A ch \in channels : x.row.kind = "mail" /\ ch = Address(x.project, x.row.of) => ch \in x.drops
  BY <1>3, <1>5 DEF TeamInv, CallFine, Removing
<1>9. \A i \in LinkIds : links[i].state = "live" /\ links[i].project = x.project /\ links[i].row = x.row => i \in x.burns
  BY <1>2, <1>3 DEF LinksOf
<1>10. Removing(c)'
  BY <1>3, <1>5, <1>7, <1>8, <1>9 DEF Removing, Address, Typed, LinkIds, team, Quietly, ghosts
<1>11. CallFine(c)'
  BY <1>3, <1>6, <1>7, <1>10 DEF CallFine, Carrying, Seeding, Asking, Minting
<1> QED BY <1>3, <1>4, <1>5, <1>6, <1>11, GoesOn

-----------------------------------------------------------------------------
(* Steps of the bot that write nothing.                                       *)

LEMMA IdleBotIsFine ==
  ASSUME bot' = Idle
  PROVE  BotFine'
BY DEF BotFine

LEMMA BotFailsStep ==
  ASSUME TeamInv, bot' = Idle, UNCHANGED <<team, call, made, ghosts>>
  PROVE  TeamInv'
<1>1. bot'.pc = "idle"
  BY DEF Idle
<1>2. Alone'
  BY <1>1, AloneStands DEF TeamInv, ghosts
<1> QED BY <1>2, IdleBotIsFine, MessageMoves DEF TeamInv, RowsFine, team, ghosts

LEMMA BotGoesOn ==
  ASSUME TeamInv, bot.pc # "idle", UNCHANGED <<team, call, made, ghosts>>, BotFine'
  PROVE  TeamInv'
<1>1. Alone'
  BY AloneStands DEF TeamInv, ghosts
<1> QED BY <1>1, MessageMoves DEF TeamInv, RowsFine, team, ghosts

LEMMA TakesStep ==
  ASSUME TeamInv, NEW i \in LinkIds, NEW chat \in Humans \cup Groups, Takes(i, chat)
  PROVE  TeamInv'
<1>1. links[i] \in Link /\ i \in Nat
  BY LinksAre DEF TeamInv
<1>2. links[i].project \in Projects /\ links[i].state = "live"
  BY <1>1 DEF Link, Takes, Redeemable
<1>3. UNCHANGED <<person, member, channels, links, call, proved, served>>
  BY DEF Takes, team
<1>4. made' \in Nat /\ crossed' \in BOOLEAN /\ (~crossed' => ~crossed)
  BY DEF Takes, TeamInv, RowsFine
<1>5. Alone'
  <2>1. ~crossed' => \A d \in Calls : call[d].op # "remove"
    BY DEF Takes
  <2> QED BY <1>3, <2>1 DEF Alone
<1>6. /\ bot' \in Message /\ bot'.link = i /\ bot'.row = NoRow /\ bot'.forked = {} /\ bot'.joins = FALSE
      /\ bot'.project = links[i].project /\ bot'.pc = (IF chat \in Groups THEN "connect" ELSE "person")
      /\ bot'.chat = chat
  BY <1>1, <1>2, RowsAre DEF Takes, Message
<1>7. bot'.pc = "person" => bot'.chat \in Humans
  BY <1>6
<1>8. bot'.chat \in Humans => bot'.pc = "person"
  BY <1>6, TeamAssumption
<1>9. BotFine'
  BY <1>2, <1>3, <1>6, <1>7, <1>8, RowsAre DEF BotFine, LinkIds
<1> QED BY <1>3, <1>4, <1>5, <1>9, MessageMoves

LEMMA LinksPersonStep ==
  ASSUME TeamInv, LinksPerson
  PROVE  TeamInv'
<1>1. bot # Idle /\ UNCHANGED <<team, call, made, ghosts>> /\ bot.pc = "person"
  BY DEF LinksPerson, Idle
<1>2. CASE bot' = Idle
  BY <1>1, <1>2, BotFailsStep
<1>3. CASE bot' # Idle
  <2>1. PICK h : h = bot.chat
    OBVIOUS
  <2>2. PICK b : b = links[bot.link].row
    OBVIOUS
  <2>3. PICK others : others = Holder(h) \ {b}
    OBVIOUS
  <2>4. /\ bot' = [bot EXCEPT !.pc = "connect", !.row = b, !.forked = others]
        /\ b # NoRow /\ (\A r \in others : ~Live(r)) /\ Linkable(b, h)
    BY <1>3, <2>1, <2>2, <2>3 DEF LinksPerson, Bound
  <2>5. bot \in Message /\ bot.link \in LinkIds /\ h \in Humans /\ bot.row = NoRow /\ ~bot.joins
        /\ (~crossed => links[bot.link].state = "live" /\ links[bot.link].project = bot.project)
    BY <1>1, <2>1 DEF TeamInv, BotFine
  <2>6. links[bot.link] \in Link /\ bot.project \in Projects
    BY <2>5, LinksAre DEF TeamInv, Message
  <2>7. b \in Rows
    BY <2>2, <2>4, <2>6 DEF Link
  <2>8. others \subseteq Rows /\ \A f \in others : f # b /\ person[f].tg = h
    BY <2>3 DEF Holder, There
  <2>9. \A f \in others : f.kind = "fork" /\ \A p \in Projects : member[p][f] = "none"
    BY <2>4, <2>8, RowsAre DEF Live
  <2>10. person[b].tg \in {Nobody, h}
    BY <2>4 DEF Linkable
  <2>11. ~crossed => b = Mail(Owner) \/ member[bot.project][b] # "none"
    BY <2>2, <2>5, <2>6, <2>7 DEF TeamInv, RemovedIsOut
  <2>12. /\ bot' \in Message /\ bot'.pc = "connect" /\ bot'.link = bot.link /\ bot'.chat = h
         /\ bot'.project = bot.project /\ bot'.row = b /\ bot'.forked = others /\ bot'.joins = bot.joins
    BY <2>1, <2>4, <2>5, <2>7, <2>8 DEF Message
  <2>13. BotFine'
    BY <1>1, <2>5, <2>7, <2>8, <2>9, <2>10, <2>11, <2>12, RowsAre DEF BotFine, LinkIds, team, ghosts
  <2> QED BY <1>1, <2>13, BotGoesOn
<1> QED BY <1>2, <1>3

LEMMA FindsPersonStep ==
  ASSUME TeamInv, FindsPerson
  PROVE  TeamInv'
<1>1. bot # Idle /\ UNCHANGED <<team, call, made, ghosts>> /\ bot.pc = "person" /\ links[bot.link].row = NoRow
  BY DEF FindsPerson, Bound, Idle
<1>2. PICK h : h = bot.chat
  OBVIOUS
<1>3. PICK r \in IF Holder(h) = {} THEN {Fork(h)} ELSE Holder(h) :
         /\ Holder(h) = {} => ~person[r].spent
         /\ bot' = [bot EXCEPT !.pc = "connect", !.row = r, !.joins = member[bot.project][r] = "none"]
  BY <1>2 DEF FindsPerson
<1>4. bot \in Message /\ bot.link \in LinkIds /\ h \in Humans /\ bot.row = NoRow /\ bot.forked = {}
      /\ (~crossed => links[bot.link].state = "live" /\ links[bot.link].project = bot.project)
  BY <1>1, <1>2 DEF TeamInv, BotFine
<1>5. r \in Rows /\ person[r].tg \in {Nobody, h}
  BY <1>3, <1>4, RowsAre DEF TeamInv, LinkedAreThere, Holder, There
<1>6. bot.project \in Projects
  BY <1>4 DEF Message
<1>7. PICK j \in BOOLEAN : j = (member[bot.project][r] = "none")
  OBVIOUS
<1>8. bot' = [bot EXCEPT !.pc = "connect", !.row = r, !.joins = j]
  BY <1>3, <1>7
<1>9. /\ bot' \in Message /\ bot'.pc = "connect" /\ bot'.link = bot.link /\ bot'.chat = h
      /\ bot'.project = bot.project /\ bot'.row = r /\ bot'.forked = {} /\ bot'.joins = j
  BY <1>2, <1>4, <1>5, <1>8 DEF Message
<1>10. BotFine'
  BY <1>1, <1>4, <1>5, <1>6, <1>7, <1>9, RowsAre DEF BotFine, LinkIds, team, ghosts
<1>11. bot.pc # "idle"
  BY <1>1
<1> QED BY <1>1, <1>10, <1>11, BotGoesOn

LEMMA ConnectsStep ==
  ASSUME TeamInv, Connects
  PROVE  TeamInv'
<1>1. bot # Idle /\ UNCHANGED <<team, call, made, ghosts>> /\ bot.pc = "connect" /\ bot.pc # "idle"
  BY DEF Connects, Idle
<1>2. PICK a \in BOOLEAN : a = ~\E ch \in channels : ch.project = bot.project /\ ch.kind = "chat" /\ ch.to = bot.chat
  OBVIOUS
<1>3. bot' = [bot EXCEPT !.pc = "commit", !.adds = a]
  BY <1>2 DEF Connects
<1>4. bot \in Message
  BY <1>1 DEF TeamInv, BotFine
<1>5. /\ bot' \in Message /\ bot'.pc = "commit" /\ bot'.link = bot.link /\ bot'.chat = bot.chat
      /\ bot'.project = bot.project /\ bot'.row = bot.row /\ bot'.forked = bot.forked /\ bot'.joins = bot.joins
  BY <1>3, <1>4 DEF Message
<1>6. BotFine'
  BY <1>1, <1>5 DEF TeamInv, BotFine, LinkIds, team, ghosts
<1> QED BY <1>1, <1>6, BotGoesOn

-----------------------------------------------------------------------------
(* Steps that only take away.                                                 *)

\* Fewer destinations: everybody stays as fine as they were.
LEMMA FewerChannels ==
  ASSUME TeamInv, channels' \subseteq channels, UNCHANGED <<person, member, links, call, bot, ghosts>>, made' \in Nat
  PROVE  TeamInv'
<1>1. RowsFine'
  BY DEF TeamInv, RowsFine, ghosts
<1>2. LinkIds' = LinkIds /\ There' = There
  BY DEF LinkIds, There
<1>3. LinkedAreThere' /\ ActivesAreServed' /\ AddressesAreOfNoRow' /\ MailKnowsItsReader'
  BY DEF TeamInv, LinkedAreThere, ActivesAreServed, AddressesAreOfNoRow, MailKnowsItsReader, ghosts
<1>4. ChatIsOfItsPerson'
  BY <1>2 DEF TeamInv, ChatIsOfItsPerson
<1>5. RemovedIsOut'
  BY <1>2 DEF TeamInv, RemovedIsOut, Address, Typed, ghosts
<1>6. ASSUME NEW d \in Calls PROVE CallFine(d)'
  BY <1>2, RequestStands DEF TeamInv, ghosts
<1>7. BotFine'
  BY <1>2, MessageStands DEF TeamInv, ghosts
<1>8. Alone'
  BY DEF TeamInv, Alone, ghosts
<1> QED BY <1>1, <1>3, <1>4, <1>5, <1>6, <1>7, <1>8 DEF TeamInv

LEMMA DropsChannelStep ==
  ASSUME TeamInv, DropsChannel
  PROVE  TeamInv'
<1>1. made' \in Nat /\ channels' \subseteq channels
  BY DEF DropsChannel, TeamInv, RowsFine
<1> QED BY <1>1, FewerChannels DEF DropsChannel

LEMMA StopsStep ==
  ASSUME TeamInv, NEW h \in Humans, Stops(h)
  PROVE  TeamInv'
<1>1. made' \in Nat /\ channels' \subseteq channels
  BY DEF Stops, TeamInv, RowsFine
<1> QED BY <1>1, FewerChannels DEF Stops

\* Links only end: each keeps whose it is.
LEMMA Burnt ==
  ASSUME RowsFine, NEW ids, Burn(ids)
  PROVE  /\ links' \in Seq(Link) /\ LinkIds' = LinkIds
         /\ \A i \in LinkIds : /\ links'[i].project = links[i].project /\ links'[i].row = links[i].row
                               /\ links'[i].state = IF i \in ids THEN "burnt" ELSE links[i].state
<1>1. Len(links) \in Nat /\ LinkIds = 1..Len(links) /\ \A i \in LinkIds : links[i] \in Link
  BY LinksAre
<1>2. \A i \in LinkIds : [links[i] EXCEPT !.state = "burnt"] \in Link
  BY <1>1 DEF Link
<1>3. links' \in [1..Len(links) -> Link]
  BY <1>1, <1>2 DEF Burn
<1>4. links' \in Seq(Link) /\ Len(links') = Len(links)
  BY <1>1, <1>3, SeqOf
<1>5. LinkIds' = LinkIds
  BY <1>4 DEF LinkIds
<1>6. ASSUME NEW i \in LinkIds
      PROVE  /\ links'[i].project = links[i].project /\ links'[i].row = links[i].row
             /\ links'[i].state = IF i \in ids THEN "burnt" ELSE links[i].state
  <2>1. links'[i] = IF i \in ids THEN [links[i] EXCEPT !.state = "burnt"] ELSE links[i]
    BY DEF Burn
  <2>2. links[i] \in Link
    BY <1>1
  <2>3. [links[i] EXCEPT !.state = "burnt"].state = "burnt" /\ [links[i] EXCEPT !.state = "burnt"].row = links[i].row
        /\ [links[i] EXCEPT !.state = "burnt"].project = links[i].project
    BY <2>2 DEF Link
  <2> QED BY <2>1, <2>3
<1> QED BY <1>4, <1>5, <1>6

LEMMA BurnsLinkStep ==
  ASSUME TeamInv, BurnsLink
  PROVE  TeamInv'
<1>1. PICK i \in LinkIds : ~LinkLocked(i) /\ Burn({i})
  BY DEF BurnsLink
<1>2. UNCHANGED <<person, member, channels, call, bot, ghosts>> /\ made' \in Nat
  BY DEF BurnsLink, TeamInv, RowsFine
<1>3. /\ links' \in Seq(Link) /\ LinkIds' = LinkIds
      /\ \A j \in LinkIds : /\ links'[j].project = links[j].project /\ links'[j].row = links[j].row
                            /\ links'[j].state = IF j = i THEN "burnt" ELSE links[j].state
  BY <1>1, Burnt DEF TeamInv
<1>4. RowsFine'
  BY <1>2, <1>3 DEF TeamInv, RowsFine, ghosts
<1>5. LinkedAreThere' /\ ActivesAreServed' /\ AddressesAreOfNoRow' /\ MailKnowsItsReader' /\ ChatIsOfItsPerson'
  BY <1>2 DEF TeamInv, LinkedAreThere, ActivesAreServed, AddressesAreOfNoRow, MailKnowsItsReader, ChatIsOfItsPerson, There, ghosts
<1>6. RemovedIsOut'
  BY <1>2, <1>3 DEF TeamInv, RemovedIsOut, Address, Typed, ghosts
<1>7. ASSUME NEW d \in Calls PROVE CallFine(d)'
  BY <1>2, <1>3, RequestStands DEF TeamInv, ghosts
<1>8. BotFine'
  <2>1. bot # Idle => bot.link # i
    BY <1>1 DEF LinkLocked, TeamInv, BotFine, Message
  <2> QED BY <1>2, <1>3, <2>1, MessageStands DEF TeamInv, ghosts
<1>9. Alone'
  BY <1>2 DEF TeamInv, Alone, ghosts
<1> QED BY <1>2, <1>4, <1>5, <1>6, <1>7, <1>8, <1>9 DEF TeamInv

-----------------------------------------------------------------------------
(* Steps that give somebody a membership.                                     *)

\* Nobody's membership ends, nobody loses or gains a Telegram account, and whoever
\* is active now has proved the address.
LEMMA MembersGrow ==
  ASSUME TeamInv, NEW c \in Calls, UNCHANGED <<channels, links, bot, made, crossed>>,
         call' \in [Calls -> Request], \A d \in Calls \ {c} : call'[d] = call[d],
         call'[c].op \in {call[c].op, "none"}, CallFine(c)',
         person' \in [Rows -> [there : BOOLEAN, spent : BOOLEAN, tg : Humans \cup {Nobody}]],
         \A r \in Rows : /\ person'[r].tg = person[r].tg /\ person'[r].spent = person[r].spent
                         /\ person[r].there => person'[r].there,
         member' \in [Projects -> [Rows -> Status]],
         \A p \in Projects, r \in Rows : /\ member[p][r] # "none" => member'[p][r] # "none"
                                         /\ r.kind = "fork" => member'[p][r] = member[p][r],
         proved \subseteq proved', served \subseteq served', proved' \subseteq Rows, served' \subseteq Projects \X Rows,
         ActivesAreServed'
  PROVE  TeamInv'
<1>1. RowsFine'
  BY DEF TeamInv, RowsFine
<1>2. LinkIds' = LinkIds
  BY DEF LinkIds
<1>3. There \subseteq There'
  BY DEF There
<1>4. LinkedAreThere'
  BY DEF TeamInv, LinkedAreThere
<1>5. AddressesAreOfNoRow' /\ MailKnowsItsReader'
  BY DEF TeamInv, AddressesAreOfNoRow, MailKnowsItsReader
<1>6. ChatIsOfItsPerson'
  <2> SUFFICES ASSUME NEW ch \in channels, ch.row # NoRow
               PROVE  ch.row \in There' /\ person'[ch.row].tg = ch.to
    BY DEF ChatIsOfItsPerson
  <2>1. ch.row \in There /\ person[ch.row].tg = ch.to
    BY DEF TeamInv, ChatIsOfItsPerson
  <2> QED BY <1>3, <2>1 DEF There
<1>7. RemovedIsOut'
  <2>1. \A p \in Projects, r \in Rows : member'[p][r] = "none" => member[p][r] = "none"
    OBVIOUS
  <2> QED BY <1>2, <2>1 DEF TeamInv, RemovedIsOut, Address, Typed
<1>8. ASSUME NEW d \in Calls PROVE CallFine(d)'
  <2>1. CASE d = c
    BY <2>1
  <2>2. CASE d # c
    BY <1>2, <2>2, RequestStands DEF TeamInv
  <2> QED BY <2>1, <2>2
<1>9. BotFine'
  BY <1>2, MessageStands DEF TeamInv
<1>10. Alone'
  <2>1. \A d \in Calls : call'[d].op \in {call[d].op, "none"}
    OBVIOUS
  <2> QED BY <2>1, AloneStands DEF TeamInv
<1> QED BY <1>1, <1>4, <1>5, <1>6, <1>7, <1>8, <1>9, <1>10 DEF TeamInv

LEMMA InviteCommitsStep ==
  ASSUME TeamInv, NEW c \in Calls, InviteCommits(c)
  PROVE  TeamInv'
<1>1. PICK p, r, s : p = call[c].project /\ r = call[c].row /\ s = call[c].status
  OBVIOUS
<1>2. call[c] \in Invite /\ call[c].op = "invite" /\ call[c].pc = "commit"
  BY RequestKinds DEF InviteCommits, TeamInv
<1>3. p \in Projects /\ r \in Rows /\ r.kind = "mail" /\ s \in Status
  BY <1>1, <1>2, RowsAre DEF Invite
<1>4. s # "none" /\ (s = "active" => r \in proved)
  BY <1>1, <1>2 DEF TeamInv, CallFine, Carrying
<1>5. /\ person' = [person EXCEPT ![r].there = TRUE]
      /\ member' = [member EXCEPT ![p][r] = s]
      /\ served' = IF s = "active" THEN served \cup {<<p, r>>} ELSE served
      /\ Ends(c) /\ UNCHANGED <<channels, links, bot, made, proved, crossed>>
  BY <1>1 DEF InviteCommits
<1>6. person \in [Rows -> [there : BOOLEAN, spent : BOOLEAN, tg : Humans \cup {Nobody}]]
      /\ member \in [Projects -> [Rows -> Status]]
  BY DEF TeamInv, RowsFine
<1>7. Idle \in Request /\ Idle.op = "none"
  BY DEF Idle, Request
<1>8. call' \in [Calls -> Request] /\ call'[c] = Idle /\ \A d \in Calls \ {c} : call'[d] = call[d]
  BY <1>5, <1>7, Moving DEF Ends
<1>9. CallFine(c)'
  BY <1>8, IdleIsFine
<1>10. person' \in [Rows -> [there : BOOLEAN, spent : BOOLEAN, tg : Humans \cup {Nobody}]]
       /\ \A x \in Rows : /\ person'[x].tg = person[x].tg /\ person'[x].spent = person[x].spent
                          /\ person[x].there => person'[x].there
  BY <1>3, <1>5, <1>6
<1>11. member' \in [Projects -> [Rows -> Status]]
       /\ \A q \in Projects, x \in Rows : member'[q][x] = IF q = p /\ x = r THEN s ELSE member[q][x]
  BY <1>3, <1>5, <1>6
<1>12. served \subseteq served' /\ served' \subseteq Projects \X Rows /\ (s = "active" => <<p, r>> \in served')
  BY <1>3, <1>5 DEF TeamInv, RowsFine
<1>13. ActivesAreServed'
  BY <1>4, <1>5, <1>11, <1>12 DEF TeamInv, ActivesAreServed
<1>14. \A q \in Projects, x \in Rows : /\ member[q][x] # "none" => member'[q][x] # "none"
                                       /\ x.kind = "fork" => member'[q][x] = member[q][x]
  BY <1>3, <1>4, <1>11
<1> QED BY <1>5, <1>7, <1>8, <1>9, <1>10, <1>11, <1>12, <1>13, <1>14, MembersGrow DEF TeamInv, RowsFine

LEMMA ActivatesStep ==
  ASSUME TeamInv, NEW c \in Calls, Activates(c)
  PROVE  TeamInv'
<1>1. call[c] \in Signin /\ call[c].op = "signin"
  BY RequestKinds DEF Activates, TeamInv
<1>2. PICK r : r = call[c].row
  OBVIOUS
<1>3. r \in Rows /\ r.kind = "mail"
  BY <1>1, <1>2, RowsAre DEF Signin
<1>4. PICK waiting \in SUBSET Projects : waiting = {p \in Projects : member[p][r] = "pending"}
  OBVIOUS
<1> DEFINE x == [call[c] EXCEPT !.pc = "seed", !.seeds = waiting]
<1>5. /\ person' = [person EXCEPT ![r].there = TRUE]
      /\ member' = [p \in Projects |-> IF p \in waiting THEN [member[p] EXCEPT ![r] = "active"] ELSE member[p]]
      /\ call' = [call EXCEPT ![c] = x]
      /\ proved' = proved \cup {r} /\ served' = served \cup {<<p, r>> : p \in waiting}
      /\ UNCHANGED <<channels, links, bot, made, crossed>>
  BY <1>2, <1>4 DEF Activates
<1>6. x \in Signin /\ x.op = "signin" /\ x.row = r /\ x.seeds = waiting
  BY <1>1, <1>2 DEF Signin
<1> HIDE DEF x
<1>7. x \in Request
  BY <1>6 DEF Request
<1>8. call' \in [Calls -> Request] /\ call'[c] = x /\ \A d \in Calls \ {c} : call'[d] = call[d]
  BY <1>5, <1>7, Moving
<1>9. person \in [Rows -> [there : BOOLEAN, spent : BOOLEAN, tg : Humans \cup {Nobody}]]
      /\ member \in [Projects -> [Rows -> Status]]
  BY DEF TeamInv, RowsFine
<1>10. person' \in [Rows -> [there : BOOLEAN, spent : BOOLEAN, tg : Humans \cup {Nobody}]]
       /\ \A y \in Rows : /\ person'[y].tg = person[y].tg /\ person'[y].spent = person[y].spent
                          /\ person[y].there => person'[y].there
  BY <1>3, <1>5, <1>9
<1>11. member' \in [Projects -> [Rows -> Status]]
       /\ \A q \in Projects, y \in Rows : member'[q][y] = IF q \in waiting /\ y = r THEN "active" ELSE member[q][y]
  BY <1>3, <1>5, <1>9 DEF Status
<1>12. proved \subseteq proved' /\ proved' \subseteq Rows /\ r \in proved'
  BY <1>3, <1>5 DEF TeamInv, RowsFine
<1>13. served \subseteq served' /\ served' \subseteq Projects \X Rows /\ \A p \in waiting : <<p, r>> \in served'
  BY <1>3, <1>5 DEF TeamInv, RowsFine
<1>14. ActivesAreServed'
  BY <1>11, <1>12, <1>13 DEF TeamInv, ActivesAreServed
<1>15. \A q \in Projects, y \in Rows : /\ member[q][y] # "none" => member'[q][y] # "none"
                                       /\ y.kind = "fork" => member'[q][y] = member[q][y]
  BY <1>3, <1>11
<1>16. \A p \in x.seeds : <<p, x.row>> \in served' /\ member'[p][x.row] # "none"
  BY <1>3, <1>4, <1>6, <1>11, <1>13
<1>17. CallFine(c)'
  BY <1>6, <1>7, <1>8, <1>16 DEF CallFine, Carrying, Seeding, OnTeamStill, Asking, Minting, Removing
<1> QED BY <1>1, <1>5, <1>6, <1>8, <1>10, <1>11, <1>12, <1>13, <1>14, <1>15, <1>17, MembersGrow

-----------------------------------------------------------------------------
(* Steps that give somebody a destination or a link.                          *)

\* While no removal met another call, whoever adds has no removal beside it.
LEMMA NobodyRemoves ==
  ASSUME TeamInv, NEW c \in Calls, call[c].op \notin {"none", "remove"}, ~crossed
  PROVE  \A d \in Calls : call[d].op # "remove"
BY DEF TeamInv, Alone

LEMMA TypedAdded ==
  ASSUME TeamInv, NEW c \in Calls, NEW p \in Projects, NEW kind \in {"email", "chat"}, NEW to \in Humans \cup Groups,
         call[c].op \notin {"none", "remove"},
         channels' = channels \cup {Typed(p, kind, to)},
         kind = "email" => /\ to \in Humans
                           /\ to # Owner => <<p, Mail(to)>> \in served /\ OnTeamStill(p, Mail(to)),
         call' \in [Calls -> Request], \A d \in Calls \ {c} : call'[d] = call[d],
         call'[c].op \in {call[c].op, "none"}, CallFine(c)',
         UNCHANGED <<person, member, links, bot, made, ghosts>>
  PROVE  TeamInv'
<1> DEFINE new == Typed(p, kind, to)
<1>1. new \in Channel /\ new.kind = kind /\ new.row = NoRow /\ new.project = p /\ new.to = to
  BY DEF Typed, Channel
<1>2. RowsFine'
  BY <1>1 DEF TeamInv, RowsFine, ghosts
<1>3. LinkIds' = LinkIds /\ There' = There
  BY DEF LinkIds, There
<1>4. LinkedAreThere' /\ ActivesAreServed'
  BY DEF TeamInv, LinkedAreThere, ActivesAreServed, ghosts
<1> HIDE DEF new
<1>5. channels' = channels \cup {new}
  BY DEF new
<1>6. AddressesAreOfNoRow' /\ MailKnowsItsReader' /\ ChatIsOfItsPerson'
  BY <1>1, <1>3, <1>5 DEF TeamInv, AddressesAreOfNoRow, MailKnowsItsReader, ChatIsOfItsPerson, ghosts
<1>7. RemovedIsOut'
  <2> SUFFICES ASSUME ~crossed, NEW q \in Projects, NEW r \in Rows, r # Mail(Owner), member[q][r] = "none"
               PROVE  /\ \A ch \in channels' : ch.project = q => ch.row # r /\ (r.kind = "mail" => ch # Address(q, r.of))
                      /\ \A i \in LinkIds : links[i].project = q /\ links[i].row = r => links[i].state # "live"
    BY <1>3 DEF RemovedIsOut, Address, Typed, ghosts
  <2>1. /\ \A ch \in channels : ch.project = q => ch.row # r /\ (r.kind = "mail" => ch # Address(q, r.of))
        /\ \A i \in LinkIds : links[i].project = q /\ links[i].row = r => links[i].state # "live"
    BY DEF TeamInv, RemovedIsOut
  <2>2. new.row # r
    BY <1>1, RowsAre
  <2>3. ASSUME r.kind = "mail", new = Address(q, r.of)
        PROVE  FALSE
    <3>1. r.of = to /\ q = p /\ kind = "email"
      BY <1>1, <2>3 DEF Address, Typed
    <3>2. r = Mail(to)
      BY <2>3, <3>1, RowsAre DEF Mails
    <3> QED BY <3>1, <3>2 DEF OnTeamStill
  <2> QED BY <1>5, <2>1, <2>2, <2>3
<1>8. ASSUME NEW d \in Calls PROVE CallFine(d)'
  <2>1. CASE d = c
    BY <2>1
  <2>2. CASE d # c
    <3>1. ~crossed => call[d].op # "remove"
      BY NobodyRemoves
    <3> QED BY <1>3, <2>2, <3>1, RequestStands DEF TeamInv, ghosts
  <2> QED BY <2>1, <2>2
<1>9. BotFine'
  BY <1>3, MessageStands DEF TeamInv, ghosts
<1>10. Alone'
  <2>1. \A d \in Calls : call'[d].op \in {call[d].op, "none"}
    OBVIOUS
  <2> QED BY <2>1, AloneStands DEF TeamInv, ghosts
<1> QED BY <1>2, <1>4, <1>6, <1>7, <1>8, <1>9, <1>10 DEF TeamInv

LEMMA SeedsStep ==
  ASSUME TeamInv, NEW c \in Calls, Seeds(c)
  PROVE  TeamInv'
<1>1. call[c] \in Signin /\ call[c].op = "signin" /\ UNCHANGED <<person, member, links>> /\ Quietly
  BY RequestKinds DEF Seeds, TeamInv
<1>2. CASE Ends(c) /\ UNCHANGED channels
  BY <1>1, <1>2, EndsStep DEF team
<1>3. ASSUME NEW p \in call[c].seeds,
             channels' = channels \cup {Address(p, call[c].row.of)},
             call' = [call EXCEPT ![c].seeds = @ \ {p}]
      PROVE  TeamInv'
  <2> DEFINE x == [call[c] EXCEPT !.seeds = @ \ {p}]
  <2>1. x \in Signin /\ x.op = "signin" /\ x.row = call[c].row /\ x.seeds = call[c].seeds \ {p}
    BY <1>1 DEF Signin
  <2>2. call' = [call EXCEPT ![c] = x]
    BY <1>3
  <2> HIDE DEF x
  <2>3. x \in Request
    BY <2>1 DEF Request
  <2>4. call' \in [Calls -> Request] /\ call'[c] = x /\ \A d \in Calls \ {c} : call'[d] = call[d]
    BY <2>2, <2>3, Moving
  <2>5. p \in Projects /\ call[c].row.of \in Humans /\ call[c].row = Mail(call[c].row.of)
    BY <1>1, RowsAre DEF Signin
  <2>6. \A q \in call[c].seeds : <<q, call[c].row>> \in served /\ OnTeamStill(q, call[c].row)
    BY <1>1 DEF TeamInv, CallFine, Seeding
  <2>7. CallFine(c)'
    BY <1>1, <2>1, <2>3, <2>4, <2>6
       DEF CallFine, Carrying, Seeding, OnTeamStill, Asking, Minting, Removing, Quietly, ghosts
  <2>8. <<p, Mail(call[c].row.of)>> \in served /\ OnTeamStill(p, Mail(call[c].row.of))
    BY <2>5, <2>6
  <2>9. channels' = channels \cup {Typed(p, "email", call[c].row.of)}
    BY <1>3 DEF Address, Typed
  <2> QED BY <1>1, <2>1, <2>4, <2>5, <2>7, <2>8, <2>9, TypedAdded DEF Quietly
<1> QED BY <1>2, <1>3 DEF Seeds

LEMMA AddsChannelStep ==
  ASSUME TeamInv, NEW c \in Calls, AddsChannel(c)
  PROVE  TeamInv'
<1>1. call[c] \in Ask /\ call[c].op = "channel" /\ UNCHANGED <<person, member, links>> /\ Quietly /\ Ends(c)
      /\ channels' = channels \cup {Typed(call[c].project, call[c].kind, call[c].to)}
  BY RequestKinds DEF AddsChannel, TeamInv
<1>2. call[c].project \in Projects /\ call[c].kind \in {"email", "chat"} /\ call[c].to \in Humans \cup Groups
  BY <1>1 DEF Ask
<1>3. call[c].kind = "email" =>
        /\ call[c].to \in Humans
        /\ call[c].to # Owner => /\ <<call[c].project, Mail(call[c].to)>> \in served
                                /\ OnTeamStill(call[c].project, Mail(call[c].to))
  BY <1>1 DEF TeamInv, CallFine, Asking
<1>4. Idle \in Request /\ Idle.op = "none"
  BY DEF Idle, Request
<1>5. call' \in [Calls -> Request] /\ call'[c] = Idle /\ \A d \in Calls \ {c} : call'[d] = call[d]
  BY <1>1, <1>4, Moving DEF Ends
<1>6. CallFine(c)'
  BY <1>5, IdleIsFine
<1> QED BY <1>1, <1>2, <1>3, <1>4, <1>5, <1>6, TypedAdded DEF Quietly

LEMMA InsertsLinkStep ==
  ASSUME TeamInv, NEW c \in Calls, InsertsLink(c)
  PROVE  TeamInv'
<1>1. call[c] \in Mint /\ call[c].op = "mint" /\ call[c].pc = "insert" /\ Ends(c)
      /\ UNCHANGED <<person, member, channels>> /\ Quietly
  BY RequestKinds DEF InsertsLink, TeamInv
<1>2. PICK p, r : p = call[c].project /\ r = call[c].row
  OBVIOUS
<1>3. p \in Projects /\ r \in Rows \cup {NoRow}
  BY <1>1, <1>2 DEF Mint
<1>4. PICK l \in Link : l.project = p /\ l.row = r /\ links' = Append(links, l)
  <2>1. [project |-> p, row |-> r, by |-> call[c].by, state |-> "live"] \in Link
    BY <1>1, <1>3 DEF Mint, Link
  <2> QED BY <1>2, <2>1 DEF InsertsLink
<1>5. links \in Seq(Link) /\ Len(links) \in Nat /\ LinkIds = 1..Len(links)
  BY LinksAre DEF TeamInv, RowsFine
<1>6. /\ links' \in Seq(Link) /\ LinkIds' = 1..(Len(links) + 1)
      /\ links'[Len(links) + 1] = l /\ \A i \in LinkIds : links'[i] = links[i]
  BY <1>4, <1>5, AppendProperties DEF LinkIds
<1>7. LinkIds \subseteq LinkIds' /\ \A i \in LinkIds' : i \in LinkIds \/ i = Len(links) + 1
  BY <1>5, <1>6
<1>8. RowsFine'
  BY <1>1, <1>6 DEF TeamInv, RowsFine, Quietly, ghosts
<1>9. LinkedAreThere' /\ ActivesAreServed' /\ AddressesAreOfNoRow' /\ MailKnowsItsReader' /\ ChatIsOfItsPerson'
  BY <1>1 DEF TeamInv, LinkedAreThere, ActivesAreServed, AddressesAreOfNoRow, MailKnowsItsReader, ChatIsOfItsPerson,
              There, Quietly, ghosts
<1>10. r \in {NoRow, Mail(Owner)} \/ OnTeamStill(p, r)
  BY <1>1, <1>2 DEF TeamInv, CallFine, Minting
<1>11. RemovedIsOut'
  <2> SUFFICES ASSUME ~crossed, NEW q \in Projects, NEW s \in Rows, s # Mail(Owner), member[q][s] = "none"
               PROVE  /\ \A ch \in channels : ch.project = q => ch.row # s /\ (s.kind = "mail" => ch # Address(q, s.of))
                      /\ \A i \in LinkIds' : links'[i].project = q /\ links'[i].row = s => links'[i].state # "live"
    BY <1>1 DEF RemovedIsOut, Address, Typed, Quietly, ghosts
  <2>1. /\ \A ch \in channels : ch.project = q => ch.row # s /\ (s.kind = "mail" => ch # Address(q, s.of))
        /\ \A i \in LinkIds : links[i].project = q /\ links[i].row = s => links[i].state # "live"
    BY DEF TeamInv, RemovedIsOut
  <2>2. ~(l.project = q /\ l.row = s)
    BY <1>4, <1>10, RowsAre DEF OnTeamStill
  <2> QED BY <1>6, <1>7, <2>1, <2>2
<1>12. Idle \in Request /\ Idle.op = "none"
  BY DEF Idle, Request
<1>13. call' \in [Calls -> Request] /\ call'[c] = Idle /\ \A d \in Calls \ {c} : call'[d] = call[d]
  BY <1>1, <1>12, Moving DEF Ends
<1>14. CallFine(c)'
  BY <1>13, IdleIsFine
<1>15. ASSUME NEW d \in Calls PROVE CallFine(d)'
  <2>1. CASE d = c
    BY <1>14, <2>1
  <2>2. CASE d # c
    <3>1. ~crossed => call[d].op # "remove"
      BY <1>1, NobodyRemoves
    <3> QED BY <1>1, <1>13, <2>2, <3>1, RequestStands DEF TeamInv, Quietly, ghosts
  <2> QED BY <2>1, <2>2
<1>16. BotFine'
  BY <1>1, <1>6, <1>7, MessageStands DEF TeamInv, Quietly, ghosts
<1>17. Alone'
  <2>1. \A d \in Calls : call'[d].op \in {call[d].op, "none"}
    BY <1>12, <1>13
  <2> QED BY <1>1, <2>1, AloneStands DEF TeamInv, Quietly, ghosts
<1> QED BY <1>8, <1>9, <1>11, <1>13, <1>15, <1>16, <1>17 DEF TeamInv

-----------------------------------------------------------------------------
(* The removal, and the message that commits.                                 *)

LEMMA RemoveCommitsStep ==
  ASSUME TeamInv, NEW c \in Calls, RemoveCommits(c)
  PROVE  TeamInv'
<1>1. call[c] \in Removal /\ call[c].op = "remove" /\ call[c].pc = "commit" /\ Ends(c) /\ Burn(call[c].burns)
      /\ UNCHANGED person /\ Quietly
  BY RequestKinds DEF RemoveCommits, TeamInv
<1>2. PICK p, r : p = call[c].project /\ r = call[c].row
  OBVIOUS
<1>3. p \in Projects /\ r \in Rows
  BY <1>1, <1>2 DEF Removal
<1>4. channels' = channels \ call[c].drops /\ member' = [member EXCEPT ![p][r] = "none"]
  BY <1>2 DEF RemoveCommits
<1>5. member' \in [Projects -> [Rows -> Status]]
      /\ \A q \in Projects, s \in Rows : member'[q][s] = IF q = p /\ s = r THEN "none" ELSE member[q][s]
  BY <1>3, <1>4 DEF TeamInv, RowsFine, Status
<1>6. /\ links' \in Seq(Link) /\ LinkIds' = LinkIds
      /\ \A i \in LinkIds : /\ links'[i].project = links[i].project /\ links'[i].row = links[i].row
                            /\ links'[i].state = IF i \in call[c].burns THEN "burnt" ELSE links[i].state
  BY <1>1, Burnt DEF TeamInv
<1>7. RowsFine'
  BY <1>1, <1>4, <1>5, <1>6 DEF TeamInv, RowsFine, Quietly, ghosts
<1>8. LinkedAreThere' /\ ActivesAreServed'
  BY <1>1, <1>5 DEF TeamInv, LinkedAreThere, ActivesAreServed, Quietly, ghosts
<1>9. AddressesAreOfNoRow' /\ MailKnowsItsReader' /\ ChatIsOfItsPerson'
  BY <1>1, <1>4 DEF TeamInv, AddressesAreOfNoRow, MailKnowsItsReader, ChatIsOfItsPerson, There, Quietly, ghosts
<1>10. RemovedIsOut'
  <2> SUFFICES ASSUME ~crossed, NEW q \in Projects, NEW s \in Rows, s # Mail(Owner), member'[q][s] = "none"
               PROVE  /\ \A ch \in channels' : ch.project = q => ch.row # s /\ (s.kind = "mail" => ch # Address(q, s.of))
                      /\ \A i \in LinkIds : links'[i].project = q /\ links'[i].row = s => links'[i].state # "live"
    BY <1>1, <1>6 DEF RemovedIsOut, Address, Typed, Quietly, ghosts
  <2>1. CASE q = p /\ s = r
    <3>1. Removing(c)
      BY DEF TeamInv, CallFine
    <3>2. \A ch \in channels : ch.project = p => (ch.row = r => ch \in call[c].drops)
                                                 /\ (r.kind = "mail" /\ ch = Address(p, r.of) => ch \in call[c].drops)
      BY <1>1, <1>2, <3>1 DEF Removing
    <3>3. \A i \in LinkIds : links[i].state = "live" /\ links[i].project = p /\ links[i].row = r => i \in call[c].burns
      BY <1>1, <1>2, <3>1 DEF Removing
    <3> QED BY <1>4, <1>6, <2>1, <3>2, <3>3
  <2>2. CASE ~(q = p /\ s = r)
    <3>1. member[q][s] = "none"
      BY <1>5, <2>2
    <3>2. /\ \A ch \in channels : ch.project = q => ch.row # s /\ (s.kind = "mail" => ch # Address(q, s.of))
          /\ \A i \in LinkIds : links[i].project = q /\ links[i].row = s => links[i].state # "live"
      BY <3>1 DEF TeamInv, RemovedIsOut
    <3> QED BY <1>4, <1>6, <3>2
  <2> QED BY <2>1, <2>2
<1>11. Idle \in Request /\ Idle.op = "none" /\ Idle.pc = "idle"
  BY DEF Idle, Request
<1>12. call' \in [Calls -> Request] /\ call'[c] = Idle /\ \A d \in Calls \ {c} : call'[d] = call[d]
  BY <1>1, <1>11, Moving DEF Ends
<1>13. CallFine(c)'
  BY <1>12, IdleIsFine
<1>14. ~crossed => bot.pc = "idle" /\ \A d \in Calls : call[d].op \in {"none", "remove"}
  BY <1>1 DEF TeamInv, Alone
<1>15. ASSUME NEW d \in Calls PROVE CallFine(d)'
  <2>1. CASE d = c
    BY <1>13, <2>1
  <2>2. CASE d # c
    BY <1>1, <1>4, <1>6, <1>12, <1>14, <2>2, RequestStands DEF TeamInv, Quietly, ghosts
  <2> QED BY <2>1, <2>2
<1>16. BotFine'
  <2>1. ~crossed => bot = Idle
    BY <1>14 DEF TeamInv, BotFine, Message
  <2> QED BY <1>1, <1>5, <1>6, <2>1, MessageStands DEF TeamInv, Quietly, ghosts
<1>17. Alone'
  <2>1. \A d \in Calls : call'[d].op \in {call[d].op, "none"}
    BY <1>11, <1>12
  <2> QED BY <1>1, <2>1, AloneStands DEF TeamInv, Quietly, ghosts
<1> QED BY <1>7, <1>8, <1>9, <1>10, <1>12, <1>15, <1>16, <1>17 DEF TeamInv

LEMMA BotCommitsStep ==
  ASSUME TeamInv, BotCommits
  PROVE  TeamInv'
<1>1. bot # Idle /\ bot.pc = "commit" /\ bot.pc # "idle" /\ bot' = Idle /\ UNCHANGED <<call, made, crossed>>
  BY DEF BotCommits, Idle
<1>2. bot \in Message /\ BotFine
  BY <1>1 DEF TeamInv, BotFine
<1>3. PICK L, h, p, r, F : L = bot.link /\ h = bot.chat /\ p = bot.project /\ r = bot.row /\ F = bot.forked
  OBVIOUS
<1>4. /\ L \in LinkIds /\ h \in Humans \cup Groups /\ p \in Projects /\ r \in Rows \cup {NoRow} /\ F \subseteq Rows
      /\ bot.joins \in BOOLEAN /\ bot.adds \in BOOLEAN
  BY <1>1, <1>2, <1>3 DEF BotFine, Message
<1>5. /\ h \in Humans => r \in Rows
      /\ r = NoRow => F = {} /\ ~bot.joins
      /\ r \in Rows => h \in Humans /\ person[r].tg \in {Nobody, h}
      /\ \A f \in F : /\ f.kind = "fork" /\ f # r /\ person[f].tg = h
                      /\ \A q \in Projects : member[q][f] = "none"
      /\ bot.joins => links[L].row = NoRow
      /\ ~crossed => (r \in Rows /\ ~bot.joins => r = Mail(Owner) \/ member[p][r] # "none")
  BY <1>1, <1>2, <1>3 DEF BotFine
<1> DEFINE chat == [project |-> p, kind |-> "chat", to |-> h, row |-> r]
<1>6. /\ person' = [x \in Rows |-> IF x = r THEN [there |-> TRUE, spent |-> TRUE, tg |-> h]
                       ELSE IF x \in F THEN [there |-> FALSE, spent |-> TRUE, tg |-> Nobody] ELSE person[x]]
      /\ member' = IF bot.joins THEN [member EXCEPT ![p][r] = "active"] ELSE member
      /\ channels' = Repointed(channels) \cup (IF bot.adds THEN {chat} ELSE {})
      /\ links' = [i \in LinkIds |-> IF i = L THEN [links[i] EXCEPT !.state = "redeemed"]
                       ELSE IF links[i].row \in F THEN [links[i] EXCEPT !.state = "burnt"] ELSE links[i]]
      /\ proved' = IF links[L].row = NoRow /\ r # NoRow THEN proved \cup {r} ELSE proved
      /\ served' = IF bot.joins THEN served \cup {<<p, r>>} ELSE served
  BY <1>3 DEF BotCommits, Bound
<1>7. person \in [Rows -> [there : BOOLEAN, spent : BOOLEAN, tg : Humans \cup {Nobody}]]
      /\ member \in [Projects -> [Rows -> Status]]
  BY DEF TeamInv, RowsFine
<1>8. person' \in [Rows -> [there : BOOLEAN, spent : BOOLEAN, tg : Humans \cup {Nobody}]]
  BY <1>4, <1>5, <1>6, <1>7
<1>9. /\ r \in Rows => person'[r].tg = h /\ person'[r].there /\ person'[r].spent
      /\ \A x \in F : person'[x].tg = Nobody
      /\ \A x \in Rows : x # r /\ x \notin F => person'[x] = person[x]
  BY <1>4, <1>5, <1>6
<1>10. member' \in [Projects -> [Rows -> Status]]
       /\ \A q \in Projects, x \in Rows : member'[q][x] = IF bot.joins /\ q = p /\ x = r THEN "active" ELSE member[q][x]
  BY <1>4, <1>5, <1>6, <1>7 DEF Status
<1>11. bot.joins => r \in Rows /\ r # NoRow
  BY <1>4, <1>5, RowsAre
<1>12. /\ served \subseteq served' /\ served' \subseteq Projects \X Rows /\ proved \subseteq proved' /\ proved' \subseteq Rows
       /\ bot.joins => <<p, r>> \in served' /\ r \in proved'
  BY <1>4, <1>5, <1>6, <1>11 DEF TeamInv, RowsFine
\* Of the destinations, those of an absorbed row are of the linked person now.
<1>13. ASSUME NEW ch \in channels'
       PROVE  \/ ch \in channels /\ ch.row \notin F
              \/ /\ \E old \in channels : /\ old.row \in F /\ ch.kind = old.kind /\ ch.to = old.to
                                          /\ ch.project = old.project
                 /\ ch.row = r /\ ch \in Channel
              \/ ch = chat
  <2>1. CASE ch \notin Repointed(channels)
    BY <1>6, <2>1
  <2>2. CASE ch \in Repointed(channels)
    <3>1. PICK old \in channels : ch = [old EXCEPT !.row = IF old.row \in F THEN r ELSE old.row]
      BY <1>3, <2>2 DEF Repointed
    <3>2. old \in Channel
      BY DEF TeamInv, RowsFine
    <3>3. CASE old.row \in F
      <4>1. ch = [old EXCEPT !.row = r]
        BY <3>1, <3>3
      <4>2. ch \in Channel /\ ch.kind = old.kind /\ ch.to = old.to /\ ch.project = old.project /\ ch.row = r
        BY <1>4, <3>2, <4>1 DEF Channel
      <4> QED BY <3>3, <4>2
    <3>4. CASE old.row \notin F
      <4>1. ch = [old EXCEPT !.row = old.row]
        BY <3>1, <3>4
      <4>2. ch = old
        BY <3>2, <4>1 DEF Channel
      <4> QED BY <3>4, <4>2
    <3> QED BY <3>3, <3>4
  <2> QED BY <2>1, <2>2
<1>14. chat \in Channel /\ chat.kind = "chat" /\ chat.to = h /\ chat.row = r /\ chat.project = p
  BY <1>4 DEF Channel
<1> HIDE DEF chat
<1>15. channels' \subseteq Channel
  BY <1>13, <1>14 DEF TeamInv, RowsFine
<1>16. /\ links' \in Seq(Link) /\ LinkIds' = LinkIds
       /\ \A i \in LinkIds : /\ links'[i].project = links[i].project /\ links'[i].row = links[i].row
                             /\ links'[i].state = "live" => links[i].state = "live"
  <2>1. Len(links) \in Nat /\ LinkIds = 1..Len(links) /\ \A i \in LinkIds : links[i] \in Link
    BY LinksAre DEF TeamInv
  <2>2. ASSUME NEW i \in LinkIds
        PROVE  /\ links'[i] \in Link /\ links'[i].project = links[i].project /\ links'[i].row = links[i].row
               /\ links'[i].state = "live" => links[i].state = "live"
    <3>1. links[i] \in Link
      BY <2>1
    <3>2. CASE i = L
      <4>1. links'[i] = [links[i] EXCEPT !.state = "redeemed"]
        BY <1>6, <3>2
      <4> QED BY <3>1, <4>1 DEF Link
    <3>3. CASE i # L /\ links[i].row \in F
      <4>1. links'[i] = [links[i] EXCEPT !.state = "burnt"]
        BY <1>6, <3>3
      <4> QED BY <3>1, <4>1 DEF Link
    <3>4. CASE i # L /\ links[i].row \notin F
      <4>1. links'[i] = links[i]
        BY <1>6, <3>4
      <4> QED BY <3>1, <4>1
    <3> QED BY <3>2, <3>3, <3>4
  <2>3. links' \in [1..Len(links) -> Link]
    BY <1>6, <2>1, <2>2
  <2>4. links' \in Seq(Link) /\ Len(links') = Len(links)
    BY <2>1, <2>3, SeqOf
  <2>5. LinkIds' = LinkIds
    BY <2>4 DEF LinkIds
  <2> QED BY <2>2, <2>4, <2>5
<1>17. RowsFine'
  BY <1>1, <1>8, <1>10, <1>12, <1>15, <1>16 DEF TeamInv, RowsFine
<1>18. LinkedAreThere'
  <2> SUFFICES ASSUME NEW x \in Rows, person'[x].tg # Nobody PROVE person'[x].there /\ person'[x].spent
    BY DEF LinkedAreThere
  <2>1. CASE x = r
    BY <1>9, <2>1
  <2>2. CASE x # r
    BY <1>9, <2>2 DEF TeamInv, LinkedAreThere
  <2> QED BY <2>1, <2>2
<1>19. ActivesAreServed'
  BY <1>10, <1>12 DEF TeamInv, ActivesAreServed
<1>20. \A ch \in channels' : ch.kind = "email" => ch \in channels
  BY <1>4, <1>13, <1>14, RowsAre DEF TeamInv, AddressesAreOfNoRow
<1>21. AddressesAreOfNoRow' /\ MailKnowsItsReader'
  BY <1>12, <1>20 DEF TeamInv, AddressesAreOfNoRow, MailKnowsItsReader
<1>22. ChatIsOfItsPerson'
  <2> SUFFICES ASSUME NEW ch \in channels', ch.row # NoRow
               PROVE  ch.row \in There' /\ person'[ch.row].tg = ch.to
    BY DEF ChatIsOfItsPerson
  <2>1. CASE ch \in channels /\ ch.row \notin F
    <3>0. ch.to # Nobody
      BY <2>1, TeamAssumption DEF TeamInv, RowsFine, Channel
    <3>1. ch.row \in Rows /\ person[ch.row].there /\ person[ch.row].tg = ch.to
      BY <2>1 DEF TeamInv, ChatIsOfItsPerson, There
    <3>2. CASE ch.row = r
      BY <1>5, <1>9, <3>0, <3>1, <3>2 DEF There
    <3>3. CASE ch.row # r
      BY <1>9, <2>1, <3>1, <3>3 DEF There
    <3> QED BY <3>2, <3>3
  <2>2. ASSUME NEW old \in channels, old.row \in F, ch.kind = old.kind, ch.to = old.to, ch.row = r
        PROVE  ch.row \in There' /\ person'[ch.row].tg = ch.to
    <3>0. old.row # NoRow
      BY <1>4, <2>2, RowsAre
    <3>1. person[old.row].tg = ch.to
      BY <2>2, <3>0 DEF TeamInv, ChatIsOfItsPerson
    <3>2. ch.to = h /\ r # NoRow
      BY <1>5, <2>2, <3>1
    <3>3. r \in Rows
      BY <1>4, <3>2
    <3> QED BY <1>9, <2>2, <3>2, <3>3 DEF There
  <2>3. CASE ch = chat
    <3>1. r \in Rows
      BY <1>4, <1>14, <2>3
    <3> QED BY <1>9, <1>14, <2>3, <3>1 DEF There
  <2> QED BY <1>13, <2>1, <2>2, <2>3
<1>23. RemovedIsOut'
  <2> SUFFICES ASSUME ~crossed, NEW q \in Projects, NEW s \in Rows, s # Mail(Owner), member'[q][s] = "none"
               PROVE  /\ \A ch \in channels' : ch.project = q => ch.row # s /\ (s.kind = "mail" => ch # Address(q, s.of))
                      /\ \A i \in LinkIds : links'[i].project = q /\ links'[i].row = s => links'[i].state # "live"
    BY <1>1, <1>16 DEF RemovedIsOut, Address, Typed
  <2>1. member[q][s] = "none" /\ ~(bot.joins /\ q = p /\ s = r)
    BY <1>10
  <2>2. /\ \A ch \in channels : ch.project = q => ch.row # s /\ (s.kind = "mail" => ch # Address(q, s.of))
        /\ \A i \in LinkIds : links[i].project = q /\ links[i].row = s => links[i].state # "live"
    BY <2>1 DEF TeamInv, RemovedIsOut
  <2>3. ASSUME NEW ch \in channels', ch.project = q
        PROVE  ch.row # s /\ (s.kind = "mail" => ch # Address(q, s.of))
    <3>1. CASE ch \in channels
      BY <2>2, <2>3, <3>1
    <3>2. ASSUME NEW old \in channels, old.row \in F, ch.project = old.project
          PROVE  FALSE
      <4>1. old.row \in Rows /\ old.row.kind = "fork" /\ member[q][old.row] = "none"
        BY <1>4, <1>5, <3>2
      <4>2. old.row # Mail(Owner)
        BY <4>1, TeamAssumption, RowsAre
      <4> QED BY <2>3, <3>2, <4>1, <4>2 DEF TeamInv, RemovedIsOut
    <3>3. CASE ch = chat
      <4>1. q = p /\ ch.row = r /\ ch.kind = "chat"
        BY <1>14, <2>3, <3>3
      <4>2. r # s
        BY <1>5, <2>1, <4>1
      <4>3. ch # Address(q, s.of)
        BY <4>1 DEF Address, Typed
      <4> QED BY <4>1, <4>2, <4>3
    <3> QED BY <1>13, <3>1, <3>2, <3>3
  <2> QED BY <1>16, <2>2, <2>3
<1>24. ASSUME NEW d \in Calls PROVE CallFine(d)'
  <2>1. ~crossed => call[d].op # "remove"
    BY <1>1 DEF TeamInv, Alone
  <2> QED BY <1>1, <1>10, <1>12, <2>1, RequestStands DEF TeamInv
<1>25. BotFine'
  BY <1>1, IdleBotIsFine
<1>26. Alone'
  BY <1>1, AloneStands DEF TeamInv, Idle
<1> QED BY <1>1, <1>17, <1>18, <1>19, <1>21, <1>22, <1>23, <1>24, <1>25, <1>26 DEF TeamInv

-----------------------------------------------------------------------------
(* The start.                                                                *)

LEMMA TeamInit == ASSUME Init PROVE TeamInv
<1>1. PICK mails, forks \in [Projects -> SUBSET (Humans \ {Owner})], forked \in SUBSET (Humans \ {Owner}) :
         InUse(mails, forks, forked)
  BY DEF Init
<1> DEFINE joined(r) == {p \in Projects : r.of \in IF r.kind = "mail" THEN mails[p] ELSE forks[p]}
<1> DEFINE known(r) == r = Mail(Owner) \/ joined(r) # {} \/ (r.kind = "fork" /\ r.of \in forked)
<1>2. person = [r \in Rows |-> [there |-> known(r), spent |-> known(r),
                                tg |-> IF r.kind = "fork" /\ known(r) THEN r.of ELSE Nobody]]
  BY <1>1 DEF InUse
<1>3. member = [p \in Projects |-> [r \in Rows |-> IF p \in joined(r) THEN "active" ELSE "none"]]
  BY <1>1 DEF InUse
<1>4. served = {pr \in Projects \X Rows : pr[1] \in joined(pr[2])}
  BY <1>1 DEF InUse
<1>5. proved = {r \in Rows : joined(r) # {} \/ (r.kind = "fork" /\ known(r))}
  BY <1>1 DEF InUse
<1>6. \A ch \in channels : ch.to \in mails[ch.project]
                           /\ \E p \in Projects, h \in Humans : ch = Address(p, h)
  BY <1>1 DEF InUse
<1>7. PICK n \in 0..MaxLinks : links \in [1..n -> MintedFor({s \in Rows : joined(s) # {}})]
  BY <1>1 DEF InUse
<1>8. \A l \in LinkIds : links[l].row # NoRow =>
        OnTeam(links[l].project, links[l].row) /\ person[links[l].row].tg = Nobody
  BY DEF Init, LinksOfTeam
<1>9. crossed = FALSE /\ call = [c \in Calls |-> Idle] /\ bot = Idle /\ made = 0
  BY DEF Init
<1>10. \A p \in Projects, r \in Rows : p \in joined(r) => joined(r) # {}
  OBVIOUS
<1>11. \A p \in Projects, h \in Humans : h \in mails[p] => p \in joined(Mail(h))
  BY RowsAre
<1>12. links \in Seq(Link)
  <2>1. ASSUME NEW rows \in SUBSET Rows PROVE MintedFor(rows) \subseteq Link
    BY RowsAre, TeamAssumption DEF MintedFor, Link
  <2>2. n \in Nat
    BY TeamAssumption
  <2>3. links \in [1..n -> Link]
    BY <1>7, <2>1
  <2> QED BY <2>2, <2>3, SeqOf
<1>13. person \in [Rows -> [there : BOOLEAN, spent : BOOLEAN, tg : Humans \cup {Nobody}]]
  <2>1. \A r \in Rows : r.of \in Humans
    BY RowsAre
  <2>2. \A r \in Rows : known(r) \in BOOLEAN
    OBVIOUS
  <2> HIDE DEF known
  <2> QED BY <1>2, <2>1, <2>2
<1>14. \A r \in Rows : person[r].tg # Nobody => known(r) /\ person[r].there = known(r) /\ person[r].spent = known(r)
  <2> HIDE DEF known
  <2> QED BY <1>2
<1>15. member \in [Projects -> [Rows -> Status]]
       /\ \A p \in Projects, r \in Rows : /\ member[p][r] = "active" => p \in joined(r)
                                          /\ member[p][r] = "none" => p \notin joined(r)
  <2> HIDE DEF joined
  <2> QED BY <1>3 DEF Status
<1>16. proved \subseteq Rows /\ \A r \in Rows : joined(r) # {} => r \in proved
  <2> HIDE DEF joined, known
  <2> QED BY <1>5
<1>17. served \subseteq Projects \X Rows /\ \A p \in Projects, r \in Rows : p \in joined(r) => <<p, r>> \in served
  <2> HIDE DEF joined
  <2> QED BY <1>4
<1> HIDE DEF joined, known
<1>18. RowsFine
  <2>1. channels \subseteq Channel
    <3>1. \A p \in Projects, h \in Humans : Address(p, h) \in Channel
      BY DEF Address, Typed, Channel
    <3> QED BY <1>6, <3>1
  <2> QED BY <1>9, <1>12, <1>13, <1>15, <1>16, <1>17, <2>1 DEF RowsFine
<1>19. LinkedAreThere
  BY <1>14 DEF LinkedAreThere
<1>20. ActivesAreServed
  BY <1>10, <1>15, <1>16, <1>17 DEF ActivesAreServed
<1>21. AddressesAreOfNoRow /\ ChatIsOfItsPerson
  BY <1>6 DEF AddressesAreOfNoRow, ChatIsOfItsPerson, Address, Typed
<1>22. MailKnowsItsReader
  <2> SUFFICES ASSUME NEW ch \in channels PROVE <<ch.project, Mail(ch.to)>> \in served
    BY DEF MailKnowsItsReader
  <2>1. ch.project \in Projects /\ ch.to \in Humans /\ ch.to \in mails[ch.project]
    BY <1>6 DEF Address, Typed
  <2> QED BY <1>11, <1>17, <2>1, RowsAre
<1>23. RemovedIsOut
  <2> SUFFICES ASSUME NEW p \in Projects, NEW r \in Rows, r # Mail(Owner), member[p][r] = "none"
               PROVE  /\ \A ch \in channels : ch.project = p => ch.row # r /\ (r.kind = "mail" => ch # Address(p, r.of))
                      /\ \A i \in LinkIds : links[i].project = p /\ links[i].row = r => links[i].state # "live"
    BY DEF RemovedIsOut
  <2>1. ASSUME NEW ch \in channels, ch.project = p PROVE ch.row # r /\ (r.kind = "mail" => ch # Address(p, r.of))
    <3>1. ch.row = NoRow /\ ch.to \in mails[p] /\ ch.to \in Humans
      BY <1>6, <2>1 DEF Address, Typed
    <3>2. ASSUME r.kind = "mail", ch = Address(p, r.of) PROVE FALSE
      <4>1. ch.to = r.of /\ r = Mail(r.of)
        BY <3>2, RowsAre DEF Address, Typed, Mails
      <4> QED BY <1>11, <1>15, <3>1, <4>1
    <3> QED BY <3>1, <3>2, RowsAre
  <2>2. ASSUME NEW i \in LinkIds, links[i].project = p, links[i].row = r PROVE FALSE
    BY <1>8, <2>2, RowsAre DEF OnTeam
  <2> QED BY <2>1, <2>2
<1>24. Idle \in Request /\ Idle.op = "none"
  BY DEF Idle, Request
<1>25. \A c \in Calls : CallFine(c)
  BY <1>9, <1>24 DEF CallFine, Carrying, Seeding, Asking, Minting, Removing
<1>26. Alone /\ BotFine /\ call \in [Calls -> Request]
  BY <1>9, <1>24 DEF Alone, BotFine
<1> QED BY <1>18, <1>19, <1>20, <1>21, <1>22, <1>23, <1>25, <1>26 DEF TeamInv

-----------------------------------------------------------------------------
(* Every step keeps the invariant.                                            *)

LEMMA AsksStep ==
  ASSUME TeamInv, NEW c \in Calls, Asks(c)
  PROVE  TeamInv'
<1>0. ASSUME NEW p \in Projects, NEW kind \in {"email", "chat"}, NEW to \in Humans \cup Groups, AsksChannel(c, p, kind, to)
      PROVE  TeamInv'
  BY <1>0, AsksChannelStep
<1>1. ASSUME NEW p \in Projects, NEW h \in Humans, Invites(c, p, h) PROVE TeamInv'
  BY <1>1, InvitesStep
<1>2. ASSUME NEW h \in Humans, SignsIn(c, h) PROVE TeamInv'
  BY <1>2, SignsInStep
<1>3. There \subseteq Rows
  BY DEF There
<1>4. ASSUME NEW p \in Projects, NEW r \in There \cup {NoRow}, NEW by \in There, CountsSeats(c, p, r, by) PROVE TeamInv'
  BY <1>3, <1>4, CountsSeatsStep
<1>5. ASSUME NEW p \in Projects, NEW r \in There, Removes(c, p, r) PROVE TeamInv'
  BY <1>3, <1>5, RemovesStep
<1> QED BY <1>0, <1>1, <1>2, <1>4, <1>5 DEF Asks

LEMMA GoesStep ==
  ASSUME TeamInv, NEW c \in Calls, Goes(c)
  PROVE  TeamInv'
<1>1. CASE Carries(c) \/ Upserts(c) \/ MintsCode(c) \/ InviteCommits(c)
  BY <1>1, CarriesStep, UpsertsStep, MintsCodeStep, InviteCommitsStep
<1>2. CASE Activates(c) \/ Seeds(c) \/ AddsChannel(c) \/ ChecksPerson(c) \/ InsertsLink(c)
  BY <1>2, ActivatesStep, SeedsStep, AddsChannelStep, ChecksPersonStep, InsertsLinkStep
<1>3. CASE DropsMember(c) \/ DropsChats(c) \/ DropsMails(c) \/ DropsLinks(c) \/ RemoveCommits(c)
  BY <1>3, DropsMemberStep, DropsChatsStep, DropsMailsStep, DropsLinksStep, RemoveCommitsStep
<1>4. CASE Fails(c)
  BY <1>4, EndsStep DEF Fails
<1> QED BY <1>1, <1>2, <1>3, <1>4 DEF Goes

LEMMA BotStep ==
  ASSUME TeamInv, BotGoes
  PROVE  TeamInv'
<1>1. ASSUME NEW i \in LinkIds, NEW chat \in Humans \cup Groups, Takes(i, chat) PROVE TeamInv'
  BY <1>1, TakesStep
<1>2. ASSUME NEW h \in Humans, Stops(h) PROVE TeamInv'
  BY <1>2, StopsStep
<1>3. CASE LinksPerson \/ FindsPerson \/ Connects \/ BotCommits
  BY <1>3, LinksPersonStep, FindsPersonStep, ConnectsStep, BotCommitsStep
<1>4. CASE BotFails
  BY <1>4, BotFailsStep DEF BotFails
<1> QED BY <1>1, <1>2, <1>3, <1>4 DEF BotGoes

LEMMA StaysStep ==
  ASSUME TeamInv, UNCHANGED vars
  PROVE  TeamInv'
<1>1. UNCHANGED <<person, member, links, call, bot, ghosts>> /\ made' \in Nat /\ channels' \subseteq channels
  BY DEF vars, team, TeamInv, RowsFine
<1> QED BY <1>1, FewerChannels

LEMMA TeamStep ==
  ASSUME TeamInv, [Next]_vars
  PROVE  TeamInv'
<1>1. ASSUME NEW c \in Calls, Asks(c) \/ Goes(c) PROVE TeamInv'
  BY <1>1, AsksStep, GoesStep
<1>2. CASE BotGoes \/ DropsChannel \/ BurnsLink
  BY <1>2, BotStep, DropsChannelStep, BurnsLinkStep
<1> QED BY <1>1, <1>2, StaysStep DEF Next

LEMMA TeamHolds == Spec => []TeamInv
BY TeamInit, TeamStep, PTL DEF Spec

-----------------------------------------------------------------------------
(* The theorems.                                                             *)

\* The rows of people, memberships, destinations and links are what the tables
\* allow, whatever createRecipient, createChannel, createInvite, handleStart and
\* deleteRecipient write and in whatever order.
THEOREM TypeCorrect == Spec => []TypeOK
BY TeamHolds, TeamTypes, PTL

\* Nobody is active in a project without a proof of the address or the account:
\* an invitation carries a proof it has read and makes none (createRecipient), a
\* bound link and a merge give no membership (handleStart, mergeFork).
THEOREM ActivesAreProved == Spec => []ActiveIsProved
<1>1. TeamInv => ActiveIsProved
  BY DEF TeamInv, ActivesAreServed, ActiveIsProved
<1> QED BY <1>1, TeamHolds, PTL

\* Whatever meets between the check of createChannel, or the activation of a
\* sign-in, and the insert of the destination, the address is the owner's or one
\* that has been active in that very project.
THEOREM MailsAreKnown == Spec => []MailKnowsItsReader
<1>1. TeamInv => MailKnowsItsReader
  BY DEF TeamInv
<1> QED BY <1>1, TeamHolds, PTL

\* A destination that names a person is the private chat of that person's Telegram
\* account, and a chat that is typed in names nobody (createChannel): the redeem of a
\* bound link moves an account only off rows that are nobody's, with their
\* destinations, and never gives a person a second one (handleStart, mergeFork).
THEOREM ChatsStay == Spec => []ChatIsOfItsPerson
<1>1. TeamInv => ChatIsOfItsPerson
  BY DEF TeamInv
<1> QED BY <1>1, TeamHolds, PTL

\* A removal that meets no call that adds leaves the person no destination and no
\* live link in the project, and nothing gives one back before a new membership
\* (deleteRecipient, "Full revocation").
THEOREM RemovedAreOut == Spec => []RemovedIsOut
<1>1. TeamInv => RemovedIsOut
  BY DEF TeamInv
<1> QED BY <1>1, TeamHolds, PTL

===============================================================================
