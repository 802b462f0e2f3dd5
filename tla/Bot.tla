-------------------------------- MODULE Bot --------------------------------
(***************************************************************************)
(* The Telegram bot of services/bot: a loop that long-polls getUpdates and *)
(* hands every update to a pool of workers, and the handlers that run on   *)
(* them side by side.  Telegram keeps an update until a later getUpdates   *)
(* asks for what comes after it; the offset the loop asks with is a local  *)
(* variable, gone when the process dies.                                   *)
(***************************************************************************)
EXTENDS Naturals, Sequences, FiniteSets

CONSTANTS
  Users, Chats,
  Messages,     \* what people may send
  None,         \* no pickem in the chat
  Capacity,     \* POOL_CAPACITY
  MaxRetries,   \* MAX_RETRIES of getUpdates
  MaxUpdates,   \* bound: messages sent
  MaxFaults     \* bound: failed calls and crashes

\* "play" stands for /ranking as well (both are todo!()), "other" for /help and
\* for whatever is no command to this bot.
Command == {"start", "new_pickem", "join", "play", "other"}
Message == [chat : Chats, user : Users, command : Command]
Updates == 1..MaxUpdates   \* update_ids

Stage == {"idle", "parse", "user", "find", "rule", "create", "member", "reply"}
Text  == {"hello", "created", "exists", "none yet", "joined", "sorry"}

ASSUME ConstantsAssumption ==
  /\ Messages \subseteq Message
  /\ None \notin [owner : Users, by : Updates]
  /\ Capacity \in Nat \ {0} /\ MaxRetries \in Nat \ {0}
  /\ MaxUpdates \in Nat /\ MaxFaults \in Nat

VARIABLES
  sent,       \* Telegram: every update there has been, update_id by update_id
  confirmed,  \* Telegram: it has forgotten the updates up to this one
  loop,       \* where the loop is
  offset,     \* its offset less one: the last update it has taken
  attempts,   \* failed getUpdates in a row
  batch,      \* the updates of the last answer it has not submitted yet
  work,       \* what the worker of each update is about to do
  text,       \* the reply each worker has in hand
  users,      \* the table `users`
  pickems,    \* the table `groups`, by chat
  members,    \* the table `group_members`
  runs,       \* history: how often each update was submitted
  told,       \* history: the replies delivered
  faults

telegram == <<sent, confirmed>>
poller   == <<loop, offset, attempts, batch, runs>>
workers  == <<work, text>>
tables   == <<users, pickems, members>>
vars     == <<sent, confirmed, loop, offset, attempts, batch, runs, work, text,
              users, pickems, members, told, faults>>

Init ==
  /\ sent = <<>> /\ confirmed = 0
  /\ loop = "down" /\ offset = 0 /\ attempts = 0 /\ batch = {}
  /\ work = [id \in Updates |-> "idle"]
  /\ text = [id \in Updates |-> "sorry"]
  /\ users = {}
  /\ pickems = [c \in Chats |-> None]
  /\ members = [c \in Chats |-> {}]
  /\ runs = [id \in Updates |-> 0]
  /\ told = {}
  /\ faults = 0

-----------------------------------------------------------------------------
(* The loop.                                                               *)

\* Somebody writes to the bot, or in a chat it is in.
SendMessage ==
  /\ Len(sent) < MaxUpdates
  /\ \E m \in Messages : sent' = Append(sent, m)
  /\ UNCHANGED <<confirmed, poller, workers, tables, told, faults>>

\* The process starts (getMe has answered): no offset, an empty pool.
Boot ==
  /\ loop = "down"
  /\ loop' = "poll" /\ offset' = 0 /\ attempts' = 0
  /\ UNCHANGED <<telegram, batch, runs, workers, tables, told, faults>>

\* Asking for offset + 1 confirms what comes before.
Confirm == confirmed' = IF offset > confirmed THEN offset ELSE confirmed

\* The answer: everything not confirmed.
GetUpdates ==
  /\ loop = "poll"
  /\ Confirm
  /\ batch' = (confirmed' + 1)..Len(sent)
  /\ attempts' = 0
  /\ loop' = "submit"
  /\ UNCHANGED <<sent, offset, runs, workers, tables, told, faults>>

Fault == faults < MaxFaults /\ faults' = faults + 1

\* The process is gone, and everything it had in memory.
Die ==
  /\ loop' = "down" /\ offset' = 0 /\ attempts' = 0 /\ batch' = {}
  /\ work' = [id \in Updates |-> "idle"]
  /\ text' = [id \in Updates |-> "sorry"]
  /\ UNCHANGED runs

\* A getUpdates fails, before Telegram saw it or after; when too many have in a
\* row, the service exits.
GetUpdatesFails ==
  /\ loop = "poll"
  /\ Fault
  /\ Confirm \/ UNCHANGED confirmed
  /\ IF attempts + 1 = MaxRetries THEN Die
     ELSE attempts' = attempts + 1 /\ UNCHANGED <<loop, offset, batch, runs, workers>>
  /\ UNCHANGED <<sent, tables, told>>

Busy == {id \in Updates : work[id] # "idle"}

First(id) == id \in batch /\ \A other \in batch : id <= other

\* Mutant: an update that finds no free worker is dropped.
SubmitOrDrop(id) ==
  /\ loop = "submit" /\ First(id)
  /\ batch' = batch \ {id}
  /\ offset' = id
  /\ IF Cardinality(Busy) < Capacity
     THEN /\ runs' = [runs EXCEPT ![id] = @ + 1]
          /\ work' = [work EXCEPT ![id] = "parse"]
     ELSE UNCHANGED <<runs, work>>
  /\ UNCHANGED <<telegram, loop, attempts, text, tables, told, faults>>

\* The next update of the batch: the offset moves past it, and a worker takes it
\* as soon as one is free.
Submit(id) ==
  /\ loop = "submit" /\ First(id)
  /\ Cardinality(Busy) < Capacity
  /\ batch' = batch \ {id}
  /\ offset' = id
  /\ runs' = [runs EXCEPT ![id] = @ + 1]
  /\ work' = [work EXCEPT ![id] = "parse"]
  /\ UNCHANGED <<telegram, loop, attempts, text, tables, told, faults>>

PollAgain ==
  /\ loop = "submit" /\ batch = {}
  /\ loop' = "poll"
  /\ UNCHANGED <<telegram, offset, attempts, batch, runs, workers, tables, told,
                 faults>>

-----------------------------------------------------------------------------
(* The handlers, one action per stretch between two awaits.                *)

Go(id, stage) == work' = [work EXCEPT ![id] = stage] /\ UNCHANGED text

Say(id, t) ==
  /\ work' = [work EXCEPT ![id] = "reply"]
  /\ text' = [text EXCEPT ![id] = t]

Rest == UNCHANGED <<telegram, poller, told, faults>>

\* Mutant: a panic leaks the slot of its worker.
ParseLeaking(id) ==
  /\ work[id] = "parse"
  /\ CASE sent[id].command \in {"start", "new_pickem", "join"} -> Go(id, "user")
       [] sent[id].command = "play" -> UNCHANGED workers
       [] sent[id].command = "other" -> Go(id, "idle") \/ Say(id, "hello")
  /\ Rest /\ UNCHANGED tables

\* Command::parse and the dispatch; /play and /ranking panic, which ends their
\* worker; what is no command gets a nudge in a private chat only.
Parse(id) ==
  /\ work[id] = "parse"
  /\ CASE sent[id].command \in {"start", "new_pickem", "join"} -> Go(id, "user")
       [] sent[id].command = "play" -> Go(id, "idle")
       [] sent[id].command = "other" -> Go(id, "idle") \/ Say(id, "hello")
  /\ Rest /\ UNCHANGED tables

\* The upsert of `users` every handler begins with: the row is there afterwards.
Upsert(id) == users' = users \cup {sent[id].user}

\* /start ends there, with a welcome.
Start(id) ==
  /\ work[id] = "user" /\ sent[id].command = "start"
  /\ Upsert(id)
  /\ Say(id, "hello")
  /\ Rest /\ UNCHANGED <<pickems, members>>

UpsertUser(id) ==
  /\ work[id] = "user" /\ sent[id].command # "start"
  /\ Upsert(id)
  /\ Go(id, "find")
  /\ Rest /\ UNCHANGED <<pickems, members>>

FoundByChat(id) == pickems[sent[id].chat] # None

\* /new_pickem: one pickem for each chat.
FindExisting(id) ==
  /\ work[id] = "find" /\ sent[id].command = "new_pickem"
  /\ IF FoundByChat(id) THEN Say(id, "exists") ELSE Go(id, "rule")
  /\ Rest /\ UNCHANGED tables

\* /join: there must be one.
FindToJoin(id) ==
  /\ work[id] = "find" /\ sent[id].command = "join"
  /\ IF FoundByChat(id) THEN Go(id, "member") ELSE Say(id, "none yet")
  /\ Rest /\ UNCHANGED tables

DefaultRule(id) ==
  /\ work[id] = "rule"
  /\ Go(id, "create")
  /\ Rest /\ UNCHANGED tables

\* The two INSERTs of create_with_owner, committed.
Created(id) ==
  LET m == sent[id]
  IN /\ pickems' = [pickems EXCEPT ![m.chat] = [owner |-> m.user, by |-> id]]
     /\ members' = [members EXCEPT ![m.chat] = @ \cup {m.user}]
     /\ UNCHANGED users

\* Mutant: the chat's row is overwritten.
CreateOver(id) ==
  /\ work[id] = "create"
  /\ Created(id) /\ Say(id, "created")
  /\ Rest

\* Mutant: the UNIQUE violation is swallowed.
CreateQuietly(id) ==
  /\ work[id] = "create"
  /\ Say(id, "created")
  /\ IF pickems[sent[id].chat] = None THEN Created(id) ELSE UNCHANGED tables
  /\ Rest

\* The transaction, or the UNIQUE on telegram_chat_id: an error like any other.
CreateWithOwner(id) ==
  /\ work[id] = "create"
  /\ IF pickems[sent[id].chat] = None
     THEN Created(id) /\ Say(id, "created")
     ELSE UNCHANGED tables /\ Say(id, "sorry")
  /\ Rest

\* The INSERT ... ON CONFLICT DO NOTHING of add_member.
Joined(id) ==
  members' = [members EXCEPT ![sent[id].chat] = @ \cup {sent[id].user}]

AddMember(id) ==
  /\ work[id] = "member"
  /\ Joined(id)
  /\ Say(id, "joined")
  /\ Rest /\ UNCHANGED <<users, pickems>>

SendText(id) ==
  /\ work[id] = "reply"
  /\ told' = told \cup {[update |-> id, text |-> text[id]]}
  /\ Go(id, "idle")
  /\ UNCHANGED <<telegram, poller, tables, faults>>

\* Mutant: the INSERTs of create_with_owner share no transaction.
LandedInPart(id) ==
  /\ work[id] = "create" /\ pickems[sent[id].chat] = None
  /\ pickems' = [pickems EXCEPT ![sent[id].chat] =
                   [owner |-> sent[id].user, by |-> id]]
  /\ UNCHANGED <<users, members>>

\* What a call that failed may have written all the same: everything it writes.
Landed(id) ==
  \/ /\ work[id] = "user"
     /\ Upsert(id)
     /\ UNCHANGED <<pickems, members>>
  \/ /\ work[id] = "create" /\ pickems[sent[id].chat] = None
     /\ Created(id)
  \/ /\ work[id] = "member"
     /\ Joined(id)
     /\ UNCHANGED <<users, pickems>>

\* A call of the handler fails; the user is told so.
CallFails(id) ==
  /\ work[id] \in {"user", "find", "rule", "create", "member"}
  /\ Fault
  /\ Say(id, "sorry")
  /\ UNCHANGED tables \/ Landed(id)
  /\ UNCHANGED <<telegram, poller, told>>

\* The reply is not delivered; that is logged and no more.
SendTextFails(id) ==
  /\ work[id] = "reply"
  /\ Fault
  /\ Go(id, "idle")
  /\ UNCHANGED <<telegram, poller, tables, told>>

Crash ==
  /\ loop # "down"
  /\ Fault
  /\ Die
  /\ UNCHANGED <<telegram, tables, told>>

Worker(id) ==
  \/ Parse(id) \/ Start(id) \/ UpsertUser(id) \/ FindExisting(id) \/ FindToJoin(id)
  \/ DefaultRule(id) \/ CreateWithOwner(id) \/ AddMember(id) \/ SendText(id)

Loop == Boot \/ GetUpdates \/ PollAgain \/ \E id \in Updates : Submit(id)

Next ==
  \/ SendMessage \/ Loop \/ GetUpdatesFails \/ Crash
  \/ \E id \in Updates : Worker(id) \/ CallFails(id) \/ SendTextFails(id)

Spec == Init /\ [][Next]_vars

\* Calls return, the runtime polls every task, the container restarts.
FairSpec == Spec /\ WF_vars(Loop) /\ \A id \in Updates : WF_vars(Worker(id))
-----------------------------------------------------------------------------
(* What the bot promises.                                                  *)

\* A pickem has its owner among its members, and nobody is a member without a
\* row in `users` and a pickem, whichever INSERT failed or crashed.
OwnerIsMember ==
  \A c \in Chats :
    /\ pickems[c] # None => pickems[c].owner \in members[c]
    /\ pickems[c] = None => members[c] = {}
    /\ members[c] \subseteq users

Types ==
  /\ sent \in Seq(Message) /\ Len(sent) <= MaxUpdates
  /\ confirmed \in 0..Len(sent)
  /\ loop \in {"down", "poll", "submit"}
  /\ offset \in 0..Len(sent)
  /\ attempts \in 0..(MaxRetries - 1)
  /\ batch \subseteq 1..Len(sent)
  /\ work \in [Updates -> Stage]
  /\ text \in [Updates -> Text]
  /\ users \subseteq Users
  /\ pickems \in [Chats -> [owner : Users, by : Updates] \cup {None}]
  /\ members \in [Chats -> SUBSET Users]
  /\ runs \in [Updates -> Nat]
  /\ told \subseteq [update : Updates, text : Text]
  /\ faults \in 0..MaxFaults

\* A worker runs only for an update that was submitted, and only while the process
\* is up.
WorkersOK == \A id \in Busy : loop # "down" /\ id <= offset /\ runs[id] > 0

\* Types and what the tables refer to; the workers, and never more of them than the
\* pool has room for.
TypeOK == Types /\ WorkersOK /\ Cardinality(Busy) <= Capacity /\ OwnerIsMember

\* Once a chat has a pickem it keeps that one and its members, whatever runs at
\* the same time or is delivered again.
PickemStands ==
  [][\A c \in Chats :
       /\ pickems[c] # None => pickems'[c] = pickems[c]
       /\ members[c] \subseteq members'[c]]_vars

\* What users were told is so: the pickem of a chat was created by the update
\* that was told "created", and who was told "joined" is in.
RepliesTrue ==
  \A reply \in told :
    LET m == sent[reply.update]
    IN /\ reply.text = "created" =>
            pickems[m.chat] = [owner |-> m.user, by |-> reply.update]
       /\ reply.text = "exists" => pickems[m.chat] # None
       /\ reply.text = "joined" => m.user \in members[m.chat]

\* Telegram never forgets an update that no worker was given, whatever crashes:
\* the offset of a batch goes out when all of it is submitted.
ForgottenMeansSubmitted == \A id \in 1..confirmed : runs[id] > 0

\* The bot implements ChatPickems, whatever the loop, the workers and the rows of
\* `users` are doing: one founding for each chat, made whole and never undone, and
\* every answer, to a message read twice or ten updates late too, one that fits its
\* command and is so when it is given.
Registry == INSTANCE ChatPickems WITH asked <- sent

ImplementsChatPickems == Registry!Spec

\* Again and again the bot has caught up with what was sent to it, panics and
\* crashes notwithstanding.
CatchesUp == []<>(\A id \in 1..Len(sent) : runs[id] > 0)
=============================================================================
