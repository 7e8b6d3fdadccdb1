-------------------------------- MODULE Team --------------------------------
(***************************************************************************)
(* Who is on the team of a workspace's projects, and where alerts reach them: *)
(* invitations by mail and their acceptance (api/write_api.go                  *)
(* createRecipient, account/auth activateInvites), links that connect a        *)
(* Telegram chat (api/telegram.go, channel/telegram/bot.go handleStart),       *)
(* destinations typed in by hand (createChannel), and the removal that takes   *)
(* all of it back (deleteRecipient).                                          *)
(*                                                                          *)
(* A request is split at its statements. What a transaction has written lands *)
(* when it commits, and its rows are locked until then.  One bot runs, and    *)
(* works off its messages one by one (Run holds an advisory lock).  Two rows of *)
(* alert_channel that are equal count as one; frozen projects, roles, the      *)
(* sessions of a member and the kinds of destination that reach no one chat or *)
(* address (Slack, webhook) are left out.                                     *)
(***************************************************************************)
EXTENDS Naturals, Sequences, FiniteSets

CONSTANTS
  Humans,    \* each has one address and one Telegram account
  Owner,     \* of the workspace
  Nobody,
  Groups,    \* Telegram groups
  Projects,  \* of the workspace
  Calls,     \* requests that can be in flight together
  Seats,     \* Telegram recipients in the plan
  Conns,     \* connections of the pool
  MaxLinks,  \* bound on the links minted
  Load       \* bound on the requests made in a run

ASSUME TeamAssumption ==
  /\ Owner \in Humans /\ Nobody \notin Humans \cup Groups /\ Groups \cap Humans = {}
  /\ Seats \in Nat /\ Conns \in Nat \ {0} /\ MaxLinks \in Nat /\ Load \in Nat

\* Rows of person: the account of an address, and the row of a Telegram account
\* nobody knew.  A run makes one of the latter for each human.
Rows == [kind : {"mail", "fork"}, of : Humans]
Mail(h) == [kind |-> "mail", of |-> h]
Fork(h) == [kind |-> "fork", of |-> h]
NoRow == [kind |-> "none", of |-> Nobody]

VARIABLES
  person,    \* row -> is it there, and the Telegram account linked to it
  member,    \* project_member: status by project and row
  channels,  \* alert_channel; row = NoRow is a group or what was typed in
  links,     \* telegram_invite, by id
  call,      \* each request: where it is, what it has read and written
  bot,       \* the message the bot is working off
  made,      \* requests made so far
  proved,    \* ghost: rows that have signed in or opened a link of no one's
  served,    \* ghost: project and row of memberships that have been active
  crossed    \* ghost: a removal met another call that adds to the team

team == <<person, member, channels, links>>
ghosts == <<proved, served, crossed>>
vars == <<team, call, bot, made, ghosts>>

Status == {"none", "pending", "active"}
LinkIds == 1..Len(links)
There == {r \in Rows : person[r].there}
Idle == [op |-> "none", pc |-> "idle"]

TypeOK ==
  /\ person \in [Rows -> [there : BOOLEAN, spent : BOOLEAN, tg : Humans \cup {Nobody}]]
  /\ member \in [Projects -> [Rows -> Status]]
  /\ channels \subseteq [project : Projects, kind : {"email", "chat"},
                         to : Humans \cup Groups, row : Rows \cup {NoRow}]
  /\ \A i \in LinkIds : links[i] \in
       [project : Projects, row : Rows \cup {NoRow}, by : Rows, state : {"live", "redeemed", "burnt"}]
  /\ proved \subseteq Rows /\ served \subseteq Projects \X Rows
  /\ crossed \in BOOLEAN /\ made \in Nat

\* telegram_id is UNIQUE: the row it is on.
Holder(h) == {r \in There : person[r].tg = h}

\* Links that end with an UPDATE of theirs, by hand, by time or by a removal.
Burn(ids) == links' = [i \in LinkIds |-> IF i \in ids THEN [links[i] EXCEPT !.state = "burnt"] ELSE links[i]]

-----------------------------------------------------------------------------
(* Locks and connections.                                                    *)

\* The membership a transaction has written and not committed.
Locks(c) == IF "locked" \in DOMAIN call[c] THEN call[c].locked ELSE {}
Locked(p, r) ==
  \/ \E c \in Calls : <<p, r>> \in Locks(c)
  \/ bot.pc \in {"connect", "commit"} /\ bot.joins /\ bot.project = p /\ bot.row = r
LinkLocked(i) ==
  \/ bot.pc # "idle" /\ bot.link = i
  \/ \E c \in Calls : call[c].op = "remove" /\ call[c].pc = "commit" /\ i \in call[c].burns

Holders == {c \in Calls : call[c].op \in {"invite", "remove"} /\ call[c].pc # "idle"}
Free == Cardinality(Holders) + (IF bot.pc = "idle" THEN 0 ELSE 1) < Conns

Go(c, pc) == call' = [call EXCEPT ![c].pc = pc]
Ends(c) == call' = [call EXCEPT ![c] = Idle]

\* Another call that may give somebody a membership, a link or a destination.
Adding(c) == call[c].op \notin {"none", "remove"}
Meets == (\E c \in Calls : Adding(c)) \/ bot.pc # "idle"

Begins(c, record) ==
  /\ call[c] = Idle /\ made < Load
  /\ made' = made + 1
  /\ call' = [call EXCEPT ![c] = record]
  /\ crossed' = \/ crossed
                \/ record.op = "remove" /\ Meets
                \/ record.op # "remove" /\ \E d \in Calls : call[d].op = "remove"
  /\ UNCHANGED <<team, bot, proved, served>>

Quietly == UNCHANGED <<bot, made, ghosts>>

-----------------------------------------------------------------------------
(* An invitation by mail.                                                    *)

Creating(r) == \E c \in Calls : call[c].op = "invite" /\ call[c].row = r /\ ~person[r].there

\* createRecipient: a person of that address is found, or made in the
\* transaction; a second maker waits on the UNIQUE address and then fails.
\* The owner has no membership and gets none.
Invites(c, p, h) ==
  /\ Free /\ h # Owner /\ ~Creating(Mail(h))
  /\ Begins(c, [op |-> "invite", pc |-> "carry", project |-> p, row |-> Mail(h), carry |-> FALSE,
                locked |-> {}, status |-> "none"])

\* A second project of a workspace the person is active in needs no new proof.
Carries(c) ==
  /\ call[c].op = "invite" /\ call[c].pc = "carry"
  /\ call' = [call EXCEPT ![c].pc = "upsert",
                          ![c].carry = \E p \in Projects : member[p][call[c].row] = "active"]
  /\ UNCHANGED team /\ Quietly

\* MUTANT of Upserted: an invitation is an acceptance.
Upserted_Active(now, carry) == IF now = "none" THEN "active" ELSE now

\* The conflict arm heals a pending row, and only upward.
Upserted(now, carry) ==
  IF now = "none" THEN IF carry THEN "active" ELSE "pending"
  ELSE IF now = "pending" /\ carry THEN "active" ELSE now

Upserts(c) ==
  /\ call[c].op = "invite" /\ call[c].pc = "upsert"
  /\ ~Locked(call[c].project, call[c].row)
  /\ LET p == call[c].project
         r == call[c].row
         status == Upserted(member[p][r], call[c].carry)
     IN call' = [call EXCEPT ![c].locked = {<<p, r>>}, ![c].status = status,
                             ![c].pc = IF status = "active" THEN "commit" ELSE "code"]
  /\ UNCHANGED team /\ Quietly

\* The code is minted on another connection of the pool, or was moments ago.
MintsCode(c) ==
  /\ call[c].op = "invite" /\ call[c].pc = "code" /\ Free
  /\ Go(c, "commit")
  /\ UNCHANGED team /\ Quietly

InviteCommits(c) ==
  /\ call[c].op = "invite" /\ call[c].pc = "commit"
  /\ person' = [person EXCEPT ![call[c].row].there = TRUE]
  /\ member' = [member EXCEPT ![call[c].project][call[c].row] = call[c].status]
  /\ served' = IF call[c].status = "active" THEN served \cup {<<call[c].project, call[c].row>>} ELSE served
  /\ Ends(c)
  /\ UNCHANGED <<channels, links, bot, made, proved, crossed>>

\* The redeem of a code: the address is proved.
SignsIn(c, h) ==
  Begins(c, [op |-> "signin", pc |-> "activate", row |-> Mail(h), seeds |-> {}])

\* ensureAccount, and ActivateInvites in one statement.
Activates(c) ==
  /\ call[c].op = "signin" /\ call[c].pc = "activate"
  /\ LET r == call[c].row
         waiting == {p \in Projects : member[p][r] = "pending"}
     IN /\ ~Creating(r) /\ \A p \in waiting : ~Locked(p, r)
        /\ person' = [person EXCEPT ![r].there = TRUE]
        /\ member' = [p \in Projects |->
             IF p \in waiting THEN [member[p] EXCEPT ![r] = "active"] ELSE member[p]]
        /\ call' = [call EXCEPT ![c].pc = "seed", ![c].seeds = waiting]
        /\ proved' = proved \cup {r}
        /\ served' = served \cup {<<p, r>> : p \in waiting}
  /\ UNCHANGED <<channels, links, bot, made, crossed>>

\* A destination that is of no person's row.
Typed(p, kind, to) == [project |-> p, kind |-> kind, to |-> to, row |-> NoRow]
Address(p, h) == Typed(p, "email", h)

\* seedEmailChannel, for each activated project.
Seeds(c) ==
  /\ call[c].op = "signin" /\ call[c].pc = "seed"
  /\ \/ \E p \in call[c].seeds :
          /\ channels' = channels \cup {Address(p, call[c].row.of)}
          /\ call' = [call EXCEPT ![c].seeds = @ \ {p}]
     \/ call[c].seeds = {} /\ Ends(c) /\ UNCHANGED channels
  /\ UNCHANGED <<person, member, links>> /\ Quietly

-----------------------------------------------------------------------------
(* Destinations typed in by hand.                                            *)

\* MUTANT of Known: whoever was invited may be written to.
Known_Invited(p, h) == h = Owner \/ member[p][Mail(h)] # "none"

\* Only the owner or an active member of this project.
Known(p, h) == h = Owner \/ member[p][Mail(h)] = "active"

\* createChannel: who is behind an address is asked, and who is behind a chat is not.
AsksChannel(c, p, kind, to) ==
  /\ kind = "email" => to \in Humans /\ Known(p, to)
  /\ Begins(c, [op |-> "channel", pc |-> "insert", project |-> p, kind |-> kind, to |-> to])

AddsChannel(c) ==
  /\ call[c].op = "channel" /\ call[c].pc = "insert"
  /\ channels' = channels \cup {Typed(call[c].project, call[c].kind, call[c].to)}
  /\ Ends(c)
  /\ UNCHANGED <<person, member, links>> /\ Quietly

\* deleteChannel.
DropsChannel ==
  /\ made < Load /\ made' = made + 1
  /\ \E ch \in channels : channels' = channels \ {ch}
  /\ UNCHANGED <<person, member, links, call, bot, ghosts>>

-----------------------------------------------------------------------------
(* Links.                                                                    *)

OnTeam(p, r) == r = Mail(Owner) \/ member[p][r] = "active"

\* countTelegramRecipients, for the workspace.
Used ==
    Cardinality({r \in There : person[r].tg # Nobody /\ \E p \in Projects : OnTeam(p, r)})
  + Cardinality({i \in LinkIds : links[i].state = "live"})
  + Cardinality({ch \in channels : ch.kind = "chat" /\ ch.row = NoRow})

\* createInvite: the plan's seats are counted, then the person is checked, then
\* the link is inserted; r = NoRow leaves it open who redeems it.
CountsSeats(c, p, r, by) ==
  /\ by.kind = "mail" /\ OnTeam(p, by) /\ Used < Seats /\ Len(links) < MaxLinks
  /\ Begins(c, [op |-> "mint", pc |-> "check", project |-> p, row |-> r, by |-> by])

\* The owner or an active member, and not linked yet.
ChecksPerson(c) ==
  /\ call[c].op = "mint" /\ call[c].pc = "check"
  /\ LET r == call[c].row
     IN IF r = NoRow \/ (r \in There /\ OnTeam(call[c].project, r) /\ person[r].tg = Nobody)
        THEN Go(c, "insert") ELSE Ends(c)
  /\ UNCHANGED team /\ Quietly

InsertsLink(c) ==
  /\ call[c].op = "mint" /\ call[c].pc = "insert" /\ Len(links) < MaxLinks
  /\ call[c].row = NoRow \/ call[c].row \in There
  /\ links' = Append(links, [project |-> call[c].project, row |-> call[c].row,
                             by |-> call[c].by, state |-> "live"])
  /\ Ends(c)
  /\ UNCHANGED <<person, member, channels>> /\ Quietly

\* deleteInvite, and the seven days of a link.
BurnsLink ==
  /\ made < Load /\ made' = made + 1
  /\ \E i \in LinkIds : links[i].state = "live" /\ ~LinkLocked(i) /\ Burn({i})
  /\ UNCHANGED <<person, member, channels, call, bot, ghosts>>

-----------------------------------------------------------------------------
(* The bot: /start with a link, in the private chat of a human or a group.    *)

Redeemable(i) == links[i].state = "live"

\* The UPDATE that takes the link; a group is nobody's private chat.
Takes(i, chat) ==
  /\ bot.pc = "idle" /\ Free /\ made < Load
  /\ made' = made + 1
  /\ Redeemable(i) /\ ~LinkLocked(i)
  /\ chat \in Groups => links[i].row = NoRow
  /\ bot' = [pc |-> IF chat \in Groups THEN "connect" ELSE "person", link |-> i, chat |-> chat,
             project |-> links[i].project, row |-> NoRow, forked |-> {}, joins |-> FALSE, adds |-> FALSE]
  /\ crossed' = (crossed \/ \E c \in Calls : call[c].op = "remove")
  /\ UNCHANGED <<team, call, proved, served>>

Bound == links[bot.link].row

\* A row somebody signs in with, or a teammate anywhere, is never absorbed.
Live(r) == r.kind = "mail" \/ \E p \in Projects : member[p][r] # "none"

\* MUTANT of Linkable: a second link moves the person's alerts to another account.
Linkable_Moves(r, h) == TRUE

\* A person who has another Telegram account keeps it.
Linkable(r, h) == person[r].tg \in {Nobody, h}

\* A bound link: the account goes to that person, over an orphan row it was on
\* (mergeFork); refused when it is on a live one.
LinksPerson ==
  /\ bot.pc = "person" /\ Bound # NoRow
  /\ LET h == bot.chat
         others == Holder(h) \ {Bound}
     IN IF (\A r \in others : ~Live(r)) /\ Linkable(Bound, h)
        THEN bot' = [bot EXCEPT !.pc = "connect", !.row = Bound, !.forked = others]
        ELSE bot' = Idle
  /\ UNCHANGED <<team, call, made, ghosts>>

\* Anybody's link: the person is found by the account or made, and joins.
FindsPerson ==
  /\ bot.pc = "person" /\ Bound = NoRow
  /\ LET h == bot.chat
         found == Holder(h)
     IN \E r \in IF found = {} THEN {Fork(h)} ELSE found :
          /\ found = {} => ~person[r].spent
          /\ ~Locked(bot.project, r)
          /\ bot' = [bot EXCEPT !.pc = "connect", !.row = r,
                               !.joins = member[bot.project][r] = "none"]
  /\ UNCHANGED <<team, call, made, ghosts>>

\* WHERE NOT EXISTS a channel of that chat in the project.
Connects ==
  /\ bot.pc = "connect"
  /\ bot' = [bot EXCEPT !.pc = "commit",
                        !.adds = ~\E ch \in channels : ch.project = bot.project /\ ch.kind = "chat" /\ ch.to = bot.chat]
  /\ UNCHANGED <<team, call, made, ghosts>>

Repointed(chs) ==
  {[ch EXCEPT !.row = IF ch.row \in bot.forked THEN bot.row ELSE ch.row] : ch \in chs}

BotCommits ==
  /\ bot.pc = "commit"
  /\ LET r == bot.row
         p == bot.project
         chat == [project |-> p, kind |-> "chat", to |-> bot.chat, row |-> r]
     IN /\ person' = [x \in Rows |->
             IF x = r THEN [there |-> TRUE, spent |-> TRUE, tg |-> bot.chat]
             ELSE IF x \in bot.forked THEN [there |-> FALSE, spent |-> TRUE, tg |-> Nobody] ELSE person[x]]
        /\ member' = IF bot.joins THEN [member EXCEPT ![p][r] = "active"] ELSE member
        /\ channels' = Repointed(channels) \cup (IF bot.adds THEN {chat} ELSE {})
        /\ links' = [i \in LinkIds |->
             IF i = bot.link THEN [links[i] EXCEPT !.state = "redeemed"]
             ELSE IF links[i].row \in bot.forked THEN [links[i] EXCEPT !.state = "burnt"] ELSE links[i]]
        /\ proved' = IF Bound = NoRow /\ r # NoRow THEN proved \cup {r} ELSE proved
        /\ served' = IF bot.joins THEN served \cup {<<p, r>>} ELSE served
  /\ bot' = Idle
  /\ UNCHANGED <<call, made, crossed>>

\* A refusal after the link was taken, or a failed statement: rolled back.
BotFails ==
  /\ bot.pc # "idle"
  /\ bot' = Idle
  /\ UNCHANGED <<team, call, made, ghosts>>

\* handleStop, by somebody on the team.
Stops(h) ==
  /\ bot.pc = "idle" /\ made < Load /\ made' = made + 1
  /\ \E ch \in channels : /\ ch.kind = "chat" /\ ch.to = h
                          /\ \E r \in Holder(h) : OnTeam(ch.project, r)
  /\ channels' = {ch \in channels : ch.kind # "chat" \/ ch.to # h}
  /\ UNCHANGED <<person, member, links, call, bot, ghosts>>

-----------------------------------------------------------------------------
(* Removal from a project (deleteRecipient): one transaction, what each        *)
(* statement finds is gone when it commits.                                   *)

Removes(c, p, r) ==
  /\ Free /\ member[p][r] # "none"
  /\ Begins(c, [op |-> "remove", pc |-> "member", project |-> p, row |-> r,
                locked |-> {}, drops |-> {}, burns |-> {}])

DropsMember(c) ==
  /\ call[c].op = "remove" /\ call[c].pc = "member"
  /\ ~Locked(call[c].project, call[c].row)
  /\ call' = [call EXCEPT ![c].pc = "chats", ![c].locked = {<<call[c].project, call[c].row>>}]
  /\ UNCHANGED team /\ Quietly

DropsChats(c) ==
  /\ call[c].op = "remove" /\ call[c].pc = "chats"
  /\ call' = [call EXCEPT ![c].pc = "mails",
       ![c].drops = {ch \in channels : /\ ch.project = call[c].project
                                       /\ ch.kind = "chat" /\ ch.row = call[c].row}]
  /\ UNCHANGED team /\ Quietly

DropsMails(c) ==
  /\ call[c].op = "remove" /\ call[c].pc = "mails"
  /\ call' = [call EXCEPT ![c].pc = "links",
       ![c].drops = @ \cup {ch \in channels : /\ ch = Address(call[c].project, call[c].row.of)
                                              /\ call[c].row.kind = "mail"}]
  /\ UNCHANGED team /\ Quietly

\* MUTANT of LinksOf: only the links the person has minted.
LinksOf_Minted(p, r) ==
  {i \in LinkIds : links[i].state = "live" /\ links[i].project = p /\ links[i].by = r}

\* Both directions: the person's own and those bound to the person.
LinksOf(p, r) ==
  {i \in LinkIds : links[i].state = "live" /\ links[i].project = p /\ r \in {links[i].by, links[i].row}}

DropsLinks(c) ==
  /\ call[c].op = "remove" /\ call[c].pc = "links"
  /\ LET ids == LinksOf(call[c].project, call[c].row)
     IN /\ \A i \in ids : ~LinkLocked(i)
        /\ call' = [call EXCEPT ![c].pc = "commit", ![c].burns = ids]
  /\ UNCHANGED team /\ Quietly

RemoveCommits(c) ==
  /\ call[c].op = "remove" /\ call[c].pc = "commit"
  /\ member' = [member EXCEPT ![call[c].project][call[c].row] = "none"]
  /\ channels' = channels \ call[c].drops
  /\ Burn(call[c].burns)
  /\ Ends(c)
  /\ UNCHANGED person /\ Quietly

\* A statement fails, a refusal, or a request is cut off.
Fails(c) == /\ call[c].op # "none" /\ Ends(c) /\ UNCHANGED team /\ Quietly

-----------------------------------------------------------------------------
\* The links the owner mints: open, or bound to themself or to one of these rows.
MintedFor(rows) == {[project |-> p, row |-> r, by |-> Mail(Owner), state |-> "live"] :
                      p \in Projects, r \in {NoRow, Mail(Owner)} \cup rows}

\* A workspace that has been in use: who is on which project's team by address or
\* by a Telegram account of their own, with the destinations they were given and
\* may have dropped since, and the links the owner has minted.
InUse(mails, forks, forked) ==
  LET joined(r) == {p \in Projects : r.of \in IF r.kind = "mail" THEN mails[p] ELSE forks[p]}
      known(r) == r = Mail(Owner) \/ joined(r) # {} \/ (r.kind = "fork" /\ r.of \in forked)
  IN /\ person = [r \in Rows |-> [there |-> known(r), spent |-> known(r),
                                 tg |-> IF r.kind = "fork" /\ known(r) THEN r.of ELSE Nobody]]
     /\ member = [p \in Projects |-> [r \in Rows |-> IF p \in joined(r) THEN "active" ELSE "none"]]
     /\ served = {pr \in Projects \X Rows : pr[1] \in joined(pr[2])}
     /\ proved = {r \in Rows : joined(r) # {} \/ (r.kind = "fork" /\ known(r))}
     /\ channels \in SUBSET {Address(p, h) : p \in Projects, h \in Humans \ {Owner}}
     /\ \A ch \in channels : ch.to \in mails[ch.project]
     /\ \E n \in 0..MaxLinks : links \in [1..n -> MintedFor({s \in Rows : joined(s) # {}})]

\* A bound link is of somebody on the team who has no Telegram account yet.
LinksOfTeam ==
  \A l \in LinkIds : links[l].row # NoRow =>
    OnTeam(links[l].project, links[l].row) /\ person[links[l].row].tg = Nobody

Init ==
  /\ \E mails, forks \in [Projects -> SUBSET (Humans \ {Owner})], forked \in SUBSET (Humans \ {Owner}) :
       (\A p \in Projects : forks[p] \subseteq forked) /\ InUse(mails, forks, forked)
  /\ Used <= Seats /\ LinksOfTeam
  /\ crossed = FALSE
  /\ call = [c \in Calls |-> Idle] /\ bot = Idle /\ made = 0

Asks(c) ==
  \/ \E p \in Projects, h \in Humans : Invites(c, p, h)
  \/ \E p \in Projects, kind \in {"email", "chat"}, to \in Humans \cup Groups : AsksChannel(c, p, kind, to)
  \/ \E h \in Humans : SignsIn(c, h)
  \/ \E p \in Projects, r \in There \cup {NoRow}, by \in There : CountsSeats(c, p, r, by)
  \/ \E p \in Projects, r \in There : Removes(c, p, r)

Goes(c) ==
  \/ Carries(c) \/ Upserts(c) \/ MintsCode(c) \/ InviteCommits(c)
  \/ Activates(c) \/ Seeds(c) \/ AddsChannel(c)
  \/ ChecksPerson(c) \/ InsertsLink(c)
  \/ DropsMember(c) \/ DropsChats(c) \/ DropsMails(c) \/ DropsLinks(c) \/ RemoveCommits(c)
  \/ Fails(c)

BotGoes ==
  \/ \E i \in LinkIds, chat \in Humans \cup Groups : Takes(i, chat)
  \/ \E h \in Humans : Stops(h)
  \/ LinksPerson \/ FindsPerson \/ Connects \/ BotCommits \/ BotFails

Next == (\E c \in Calls : Asks(c) \/ Goes(c)) \/ BotGoes \/ DropsChannel \/ BurnsLink

Spec == Init /\ [][Next]_vars

-----------------------------------------------------------------------------
(* Properties.                                                               *)

\* Nobody is active in a project without having signed in with the address or
\* opened an open link: invitations, second projects, links bound to a person
\* and merges carry a proof and never make one (createRecipient, "This never
\* mints the first proof").
ActiveIsProved ==
  \A p \in Projects, r \in Rows : member[p][r] = "active" => r \in proved

\* Alerts are never mailed to an address that was not the owner's or a team
\* member's, active in that very project (createChannel, "a free mailer to
\* strangers"), whatever meets between the check and the insert.
MailKnowsItsReader ==
  \A ch \in channels : ch.kind = "email" =>
    ch.to = Owner \/ <<ch.project, Mail(ch.to)>> \in served

\* A destination that names a person is the private chat of that person's Telegram
\* account, over links, second links, merges and removals: alerts are never moved to
\* another reader (handleStart, "Refusal two"; mergeFork).
ChatIsOfItsPerson ==
  \A ch \in channels : ch.row # NoRow => ch.row \in There /\ person[ch.row].tg = ch.to

\* Who is not on a project's team has no destination and no live link there, as
\* long as no removal met another call (deleteRecipient, "Full revocation").
RemovedIsOut ==
  ~crossed => \A p \in Projects : \A r \in Rows \ {Mail(Owner)} : member[p][r] = "none" =>
    /\ \A ch \in channels : ch.project = p => ch.row # r /\ (r.kind = "mail" => ch # Address(p, r.of))
    /\ \A i \in LinkIds : links[i].project = p /\ links[i].row = r => links[i].state # "live"

(* What the comments promise and the code does not keep (README, section 4). *)

\* "Full revocation": a redeem, a createChannel or a mint that read the membership
\* before the removal writes after it.
RemovedStaysOut ==
  \A p \in Projects : \A r \in Rows \ {Mail(Owner)} : member[p][r] = "none" =>
    \A ch \in channels : ch.project = p => ch.row # r /\ (r.kind = "mail" => ch # Address(p, r.of))

\* "A chat id cannot be typed into a form" (openapi.yaml:531): not into the console's,
\* and createChannel inserts the one it is sent.
ChatIsConnected ==
  \A ch \in channels : ch.kind = "chat" /\ ch.to \in Humans => ch.row # NoRow

\* "Full revocation", when nothing overlaps the removal: a private chat that was typed
\* in names nobody, and stays when the person behind it is removed.
RemovedIsUnheard ==
  ~crossed => \A p \in Projects, r \in There :
    <<p, r>> \in served /\ member[p][r] = "none" =>
      \A ch \in channels : ch.project = p /\ ch.kind = "chat" => ch.to # person[r].tg

\* The plan's seats: two mints count the same free one, and a linked person who is
\* activated takes one that nobody counts.
SeatsWithinPlan == Used <= Seats

\* "countTelegramRecipients filters on no status" (bot.go:479): it filters on
\* 'active', and a linked person who was removed and invited again is pending.
LinkedIsCounted ==
  \A p \in Projects, r \in There : person[r].tg # Nobody /\ member[p][r] # "none" => OnTeam(p, r)

\* An invitation holds a connection while it takes a second one for the code: with
\* as many invitations as the pool has connections, none of them goes on.
SomeoneGoesOn ==
  (\E c \in Calls : call[c].op = "invite" /\ call[c].pc = "code") =>
    Free \/ bot.pc # "idle" \/ \E c \in Holders : call[c].pc # "code"

=============================================================================
