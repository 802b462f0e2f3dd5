----------------------------- MODULE BotProofs -----------------------------
(***************************************************************************)
(* The bot's safety properties for any people, chats and messages, any     *)
(* size of the pool, and any number of updates and of faults.              *)
(***************************************************************************)
EXTENDS Bot, FiniteSetTheorems, TLAPS

\* A step of the handler of one update, whether or not its call goes well.
Handles(id) == Worker(id) \/ CallFails(id) \/ SendTextFails(id)

\* The rest of Next.
Moves ==
  \/ SendMessage \/ Boot \/ GetUpdates \/ PollAgain \/ GetUpdatesFails \/ Crash
  \/ \E id \in Updates : Submit(id)

LEMMA NextSplits == Next => Moves \/ \E id \in Updates : Handles(id)
BY DEF Next, Loop, Moves, Handles

-----------------------------------------------------------------------------
(* Frames: what each kind of step moves.                                   *)

\* A worker that is busy has a message in hand.
LEMMA InHand ==
  ASSUME Types, WorkersOK, NEW id \in Updates, work[id] # "idle"
  PROVE  /\ id \in Nat /\ 1 <= id /\ id <= Len(sent) /\ id <= offset /\ Len(sent) \in Nat
         /\ sent[id] \in Message /\ sent[id].chat \in Chats /\ sent[id].user \in Users
         /\ sent[id].command \in Command
         /\ loop # "down" /\ runs[id] > 0
<1>1. id \in Nat /\ 1 <= id
  BY ConstantsAssumption DEF Updates
<1>2. id <= offset /\ loop # "down" /\ runs[id] > 0
  BY DEF WorkersOK, Busy
<1>3. sent \in Seq(Message) /\ offset \in 0..Len(sent)
  BY DEF Types
<1>4. Len(sent) \in Nat /\ id <= Len(sent)
  BY <1>1, <1>2, <1>3
<1>5. sent[id] \in Message
  BY <1>1, <1>3, <1>4
<1> QED BY <1>1, <1>2, <1>4, <1>5 DEF Message

LEMMA FaultTyped ==
  ASSUME Types, Fault \/ UNCHANGED faults
  PROVE  faults' \in 0..MaxFaults
BY ConstantsAssumption DEF Types, Fault

\* A handler moves its own worker, and nothing of Telegram's or of the loop's.
LEMMA HandlerFrame ==
  ASSUME Types, WorkersOK, NEW id \in Updates, Handles(id)
  PROVE  /\ work[id] # "idle"
         /\ \E stage \in Stage, t \in Text :
              /\ work' = [work EXCEPT ![id] = stage]
              /\ text' = [text EXCEPT ![id] = t]
              /\ stage \notin {"idle", "reply"} => work[id] \notin {"idle", "reply"}
         /\ UNCHANGED <<telegram, poller>>
         /\ faults' \in 0..MaxFaults
<1>1. work \in [Updates -> Stage] /\ text \in [Updates -> Text]
  BY DEF Types
<1>2. ASSUME NEW stage \in Stage, Go(id, stage)
      PROVE  \E t \in Text : text' = [text EXCEPT ![id] = t] /\ work' = [work EXCEPT ![id] = stage]
  <2>1. text[id] \in Text /\ text' = [text EXCEPT ![id] = text[id]]
    BY <1>1, <1>2 DEF Go
  <2> QED BY <1>2, <2>1 DEF Go
<1>3. ASSUME Parse(id) PROVE work[id] = "parse" /\ (Go(id, "user") \/ Go(id, "idle") \/ Say(id, "hello"))
  BY <1>3, InHand DEF Parse, Command
<1>4. CASE Parse(id)
  BY <1>1, <1>2, <1>3, <1>4, FaultTyped DEF Parse, Rest, Say, Stage, Text
<1>5. CASE Start(id)
  BY <1>1, <1>5, FaultTyped DEF Start, Rest, Say, Stage, Text
<1>6. CASE UpsertUser(id)
  BY <1>1, <1>2, <1>6, FaultTyped DEF UpsertUser, Rest, Stage, Text
<1>7. CASE FindExisting(id)
  BY <1>1, <1>2, <1>7, FaultTyped DEF FindExisting, Rest, Say, Stage, Text
<1>8. CASE FindToJoin(id)
  BY <1>1, <1>2, <1>8, FaultTyped DEF FindToJoin, Rest, Say, Stage, Text
<1>9. CASE DefaultRule(id)
  BY <1>1, <1>2, <1>9, FaultTyped DEF DefaultRule, Rest, Stage, Text
<1>10. CASE CreateWithOwner(id)
  BY <1>1, <1>10, FaultTyped DEF CreateWithOwner, Rest, Say, Stage, Text
<1>11. CASE AddMember(id)
  BY <1>1, <1>11, FaultTyped DEF AddMember, Rest, Say, Stage, Text
<1>12. CASE SendText(id)
  BY <1>1, <1>2, <1>12, FaultTyped DEF SendText, Stage, Text
<1>13. CASE CallFails(id)
  BY <1>1, <1>13, FaultTyped DEF CallFails, Say, Stage, Text
<1>14. CASE SendTextFails(id)
  BY <1>1, <1>2, <1>14, FaultTyped DEF SendTextFails, Stage, Text
<1> QED
  BY <1>4, <1>5, <1>6, <1>7, <1>8, <1>9, <1>10, <1>11, <1>12, <1>13, <1>14
  DEF Handles, Worker

\* The three writes of the handlers, and the stages they are made in.
Writes(id) ==
  \/ work[id] = "user" /\ Upsert(id) /\ UNCHANGED <<pickems, members>>
  \/ work[id] = "create" /\ pickems[sent[id].chat] = None /\ Created(id)
  \/ work[id] = "member" /\ Joined(id) /\ UNCHANGED <<users, pickems>>

LEMMA TablesMove ==
  ASSUME NEW id \in Updates, Handles(id)
  PROVE  UNCHANGED tables \/ Writes(id)
<1>1. CASE Parse(id) \/ FindExisting(id) \/ FindToJoin(id) \/ DefaultRule(id) \/ SendText(id)
           \/ SendTextFails(id)
  BY <1>1 DEF Parse, FindExisting, FindToJoin, DefaultRule, SendText, SendTextFails
<1>2. CASE Start(id) \/ UpsertUser(id)
  BY <1>2 DEF Start, UpsertUser, Writes
<1>3. CASE CreateWithOwner(id) \/ AddMember(id)
  BY <1>3 DEF CreateWithOwner, AddMember, Writes
<1>4. CASE CallFails(id)
  BY <1>4 DEF CallFails, Landed, Writes
<1> QED BY <1>1, <1>2, <1>3, <1>4 DEF Handles, Worker

\* Only a worker about to reply tells its user something: what it has in hand.
LEMMA ToldMoves ==
  ASSUME NEW id \in Updates, Handles(id)
  PROVE  \/ UNCHANGED told
         \/ work[id] = "reply" /\ told' = told \cup {[update |-> id, text |-> text[id]]}
BY DEF Handles, Worker, Parse, Start, UpsertUser, FindExisting, FindToJoin, DefaultRule,
       CreateWithOwner, AddMember, SendText, CallFails, SendTextFails, Rest

-----------------------------------------------------------------------------
(* Types.                                                                  *)

LEMMA TypesInit == Init => Types
<1> SUFFICES ASSUME Init PROVE Types
  OBVIOUS
<1>1. sent \in Seq(Message) /\ Len(sent) = 0
  BY DEF Init
<1>2. MaxRetries - 1 \in Nat /\ MaxUpdates \in Nat /\ MaxFaults \in Nat
  BY ConstantsAssumption
<1> QED BY <1>1, <1>2 DEF Init, Types, Stage, Text

\* What the tables hold after a write of a handler.
LEMMA TablesTyped ==
  ASSUME Types, WorkersOK, NEW id \in Updates, Handles(id)
  PROVE  /\ users' \subseteq Users
         /\ pickems' \in [Chats -> [owner : Users, by : Updates] \cup {None}]
         /\ members' \in [Chats -> SUBSET Users]
<1>1. work[id] # "idle"
  BY HandlerFrame
<1>2. sent[id].chat \in Chats /\ sent[id].user \in Users
  BY <1>1, InHand
<1>3. /\ users \subseteq Users
      /\ pickems \in [Chats -> [owner : Users, by : Updates] \cup {None}]
      /\ members \in [Chats -> SUBSET Users]
  BY DEF Types
<1>4. CASE UNCHANGED tables
  BY <1>3, <1>4 DEF tables
<1>5. CASE Upsert(id) /\ UNCHANGED <<pickems, members>>
  BY <1>2, <1>3, <1>5 DEF Upsert
<1>6. CASE Created(id)
  BY <1>2, <1>3, <1>6 DEF Created
<1>7. CASE Joined(id) /\ UNCHANGED <<users, pickems>>
  BY <1>2, <1>3, <1>7 DEF Joined
<1> QED BY <1>4, <1>5, <1>6, <1>7, TablesMove DEF Writes

LEMMA TypesKeptByHandlers ==
  ASSUME Types, WorkersOK, NEW id \in Updates, Handles(id)
  PROVE  Types'
<1>1. PICK stage \in Stage, t \in Text :
        work' = [work EXCEPT ![id] = stage] /\ text' = [text EXCEPT ![id] = t]
  BY HandlerFrame
<1>2. work' \in [Updates -> Stage] /\ text' \in [Updates -> Text]
  BY <1>1 DEF Types
<1>3. UNCHANGED <<sent, confirmed, loop, offset, attempts, batch, runs>>
  BY HandlerFrame DEF telegram, poller
<1>4. told' \subseteq [update : Updates, text : Text]
  <2>1. text[id] \in Text /\ told \subseteq [update : Updates, text : Text]
    BY DEF Types
  <2> QED BY <2>1, ToldMoves
<1>5. faults' \in 0..MaxFaults
  BY HandlerFrame
<1> QED BY <1>2, <1>3, <1>4, <1>5, TablesTyped DEF Types

LEMMA TypesKeptByDie ==
  ASSUME Types, Die, Fault, UNCHANGED <<sent, tables, told>>, confirmed' \in 0..Len(sent)
  PROVE  Types'
<1>1. MaxRetries - 1 \in Nat /\ Len(sent) \in Nat
  BY ConstantsAssumption DEF Types
<1>2. faults' \in 0..MaxFaults
  BY FaultTyped
<1>3. work' \in [Updates -> Stage] /\ text' \in [Updates -> Text]
  BY DEF Die, Stage, Text
<1>4. /\ loop' \in {"down", "poll", "submit"} /\ offset' \in 0..Len(sent')
      /\ attempts' \in 0..(MaxRetries - 1) /\ batch' \subseteq 1..Len(sent')
  BY <1>1 DEF Die
<1> QED BY <1>2, <1>3, <1>4 DEF Types, Die, tables

LEMMA ConfirmTyped ==
  ASSUME Types, Confirm
  PROVE  confirmed' \in 0..Len(sent) /\ confirmed <= confirmed' /\ offset <= confirmed'
         /\ (confirmed' = confirmed \/ confirmed' = offset)
BY DEF Types, Confirm

LEMMA TypesKeptByMoves ==
  ASSUME Types, Moves
  PROVE  Types'
<1>1. Len(sent) \in Nat /\ MaxRetries \in Nat \ {0} /\ MaxUpdates \in Nat
  BY ConstantsAssumption DEF Types
<1>2. CASE SendMessage
  <2>1. PICK m \in Messages : sent' = Append(sent, m)
    BY <1>2 DEF SendMessage
  <2>2. m \in Message
    BY ConstantsAssumption
  <2>3. sent' \in Seq(Message) /\ Len(sent') = Len(sent) + 1
    BY <2>1, <2>2 DEF Types
  <2>4. Len(sent') <= MaxUpdates /\ 0..Len(sent) \subseteq 0..Len(sent') /\ 1..Len(sent) \subseteq 1..Len(sent')
    BY <1>1, <1>2, <2>3 DEF SendMessage
  <2> QED BY <1>2, <2>3, <2>4 DEF SendMessage, Types, poller, workers, tables
<1>3. CASE Boot
  BY <1>1, <1>3 DEF Boot, Types, telegram, workers, tables
<1>4. CASE GetUpdates
  <2>1. confirmed' \in 0..Len(sent)
    BY <1>4, ConfirmTyped DEF GetUpdates
  <2>2. batch' \subseteq 1..Len(sent)
    BY <1>1, <1>4, <2>1 DEF GetUpdates
  <2> QED BY <1>1, <1>4, <2>1, <2>2 DEF GetUpdates, Types, workers, tables
<1>5. CASE PollAgain
  BY <1>5 DEF PollAgain, Types, telegram, workers, tables
<1>6. CASE GetUpdatesFails
  <2>1. confirmed' \in 0..Len(sent)
    BY <1>6, ConfirmTyped DEF GetUpdatesFails, Types
  <2>2. CASE attempts + 1 = MaxRetries
    BY <1>6, <2>1, <2>2, TypesKeptByDie DEF GetUpdatesFails
  <2>3. CASE attempts + 1 # MaxRetries
    <3>1. attempts' \in 0..(MaxRetries - 1)
      BY <1>1, <1>6, <2>3 DEF GetUpdatesFails, Types
    <3>2. faults' \in 0..MaxFaults
      BY <1>6, FaultTyped DEF GetUpdatesFails
    <3> QED BY <1>6, <2>1, <2>3, <3>1, <3>2 DEF GetUpdatesFails, Types, workers, tables
  <2> QED BY <2>2, <2>3
<1>7. CASE Crash
  BY <1>7, TypesKeptByDie DEF Crash, telegram, Types
<1>8. ASSUME NEW id \in Updates, Submit(id) PROVE Types'
  <2>1. id \in 1..Len(sent) /\ batch' \subseteq 1..Len(sent)
    BY <1>8 DEF Submit, First, Types
  <2>2. offset' \in 0..Len(sent)
    BY <1>1, <1>8, <2>1 DEF Submit
  <2>3. work' \in [Updates -> Stage]
    BY <1>8 DEF Submit, Types, Stage
  <2>4. runs' \in [Updates -> Nat]
    BY <1>8 DEF Submit, Types
  <2> QED BY <1>8, <2>1, <2>2, <2>3, <2>4 DEF Submit, Types, telegram, tables
<1> QED BY <1>2, <1>3, <1>4, <1>5, <1>6, <1>7, <1>8 DEF Moves

-----------------------------------------------------------------------------
(* The loop: what it has given to workers.                                 *)

OffsetSubmitted == \A i \in 1..offset : runs[i] > 0

\* The batch lies after the offset, and what it skips has been submitted.
BatchOK ==
  \A id \in batch :
    /\ offset < id
    /\ \A i \in 1..(id - 1) : i \notin batch => runs[i] > 0

LoopInv == WorkersOK /\ OffsetSubmitted /\ BatchOK /\ ForgottenMeansSubmitted

LEMMA LoopInit == Init => LoopInv
BY DEF Init, LoopInv, WorkersOK, Busy, OffsetSubmitted, BatchOK, ForgottenMeansSubmitted

LEMMA LoopKeptByHandlers ==
  ASSUME Types, LoopInv, NEW id \in Updates, Handles(id)
  PROVE  LoopInv'
<1>1. WorkersOK
  BY DEF LoopInv
<1>2. UNCHANGED <<sent, confirmed, loop, offset, attempts, batch, runs>>
  BY <1>1, HandlerFrame DEF telegram, poller
<1>3. PICK stage \in Stage : work' = [work EXCEPT ![id] = stage]
  BY <1>1, HandlerFrame
<1>4. \A other \in Updates : work'[other] # "idle" => work[other] # "idle"
  BY <1>1, <1>3, HandlerFrame DEF Types
<1>5. WorkersOK'
  BY <1>1, <1>2, <1>4 DEF WorkersOK, Busy
<1> QED BY <1>2, <1>5 DEF LoopInv, OffsetSubmitted, BatchOK, ForgottenMeansSubmitted

LEMMA LoopKeptByDie ==
  ASSUME Types, LoopInv, Die, Confirm \/ UNCHANGED confirmed
  PROVE  LoopInv'
<1>1. WorkersOK'
  BY DEF Die, WorkersOK, Busy
<1>2. OffsetSubmitted' /\ BatchOK'
  BY DEF Die, OffsetSubmitted, BatchOK
<1>3. ForgottenMeansSubmitted'
  BY DEF Die, LoopInv, ForgottenMeansSubmitted, OffsetSubmitted, Confirm
<1> QED BY <1>1, <1>2, <1>3 DEF LoopInv

LEMMA LoopKeptBySubmit ==
  ASSUME Types, LoopInv, NEW id \in Updates, Submit(id)
  PROVE  LoopInv'
<1>1. id \in batch /\ id \in Nat /\ 1 <= id /\ offset \in Nat /\ confirmed \in Nat
      /\ batch \subseteq Nat
  BY DEF Submit, First, Types
<1>2. \A i \in Updates : i \in Nat /\ 1 <= i /\ i <= MaxUpdates
  BY ConstantsAssumption DEF Updates
<1>3. MaxUpdates \in Nat /\ Len(sent) \in Nat /\ Len(sent) <= MaxUpdates
  BY ConstantsAssumption DEF Types
<1>4. /\ runs' = [runs EXCEPT ![id] = @ + 1] /\ work' = [work EXCEPT ![id] = "parse"]
      /\ batch' = batch \ {id} /\ offset' = id
      /\ UNCHANGED <<sent, confirmed, loop>> /\ loop = "submit"
  BY DEF Submit, telegram
<1>5. /\ runs' \in [Updates -> Nat] /\ runs'[id] > 0
      /\ \A i \in Updates : runs[i] > 0 => runs'[i] > 0
  BY <1>4 DEF Types
<1>6. offset < id
  BY <1>1 DEF LoopInv, BatchOK
<1>7. WorkersOK'
  <2> SUFFICES ASSUME NEW other \in Updates, work'[other] # "idle"
               PROVE  loop' # "down" /\ other <= offset' /\ runs'[other] > 0
    BY DEF WorkersOK, Busy
  <2>1. CASE other = id
    BY <1>1, <1>4, <1>5, <2>1
  <2>2. CASE other # id
    <3>1. work[other] # "idle"
      BY <1>4, <2>2 DEF Types
    <3>2. other <= offset /\ runs[other] > 0
      BY <3>1 DEF LoopInv, WorkersOK, Busy
    <3> QED BY <1>1, <1>2, <1>4, <1>5, <1>6, <3>2
  <2> QED BY <2>1, <2>2
<1>8. \A i \in 1..(id - 1) : runs[i] > 0
  <2> SUFFICES ASSUME NEW i \in 1..(id - 1) PROVE runs[i] > 0
    OBVIOUS
  <2>1. i \notin batch
    BY <1>1 DEF Submit, First
  <2> QED BY <1>1, <2>1 DEF LoopInv, BatchOK
<1>9. 1..id \subseteq Updates
  BY <1>1, <1>2, <1>3 DEF Updates
<1>10. OffsetSubmitted'
  <2> SUFFICES ASSUME NEW i \in 1..id PROVE runs'[i] > 0
    BY <1>4 DEF OffsetSubmitted
  <2>1. i \in Updates
    BY <1>9
  <2>2. i = id \/ i \in 1..(id - 1)
    BY <1>1
  <2> QED BY <1>5, <1>8, <2>1, <2>2
<1>11. BatchOK'
  <2> SUFFICES ASSUME NEW later \in batch \ {id}
               PROVE  /\ id < later
                      /\ \A i \in 1..(later - 1) : i \notin batch \ {id} => runs'[i] > 0
    BY <1>4 DEF BatchOK
  <2>1. id <= later /\ later \in Nat /\ later \in Updates
    BY <1>1, <1>3 DEF Submit, First, Types, Updates
  <2>2. ASSUME NEW i \in 1..(later - 1), i \notin batch \ {id}
        PROVE  runs'[i] > 0
    <3>1. i \in Updates
      BY <1>3, <2>1 DEF Updates
    <3>2. CASE i = id
      BY <1>5, <3>2
    <3>3. CASE i # id
      <4>1. i \notin batch
        BY <2>2, <3>3
      <4>2. runs[i] > 0
        BY <4>1 DEF LoopInv, BatchOK
      <4> QED BY <1>5, <3>1, <4>2
    <3> QED BY <3>2, <3>3
  <2> QED BY <1>1, <2>1, <2>2
<1>12. ForgottenMeansSubmitted'
  <2> SUFFICES ASSUME NEW i \in 1..confirmed PROVE runs'[i] > 0
    BY <1>4 DEF ForgottenMeansSubmitted
  <2>1. i \in Updates
    BY <1>1, <1>3 DEF Types, Updates
  <2> QED BY <1>5, <2>1 DEF LoopInv, ForgottenMeansSubmitted
<1> QED BY <1>7, <1>10, <1>11, <1>12 DEF LoopInv

\* Membership of the interval a batch is.
LEMMA AfterConfirmed ==
  ASSUME NEW a \in Nat, NEW b \in Nat, NEW i
  PROVE  /\ i \in (a + 1)..b => i \in Nat /\ a < i /\ i <= b
         /\ i \in Nat /\ i <= b /\ i \notin (a + 1)..b => i <= a
OBVIOUS

LEMMA LoopKeptByMoves ==
  ASSUME Types, LoopInv, Moves
  PROVE  LoopInv'
<1>1. CASE SendMessage
  BY <1>1 DEF SendMessage, poller, workers, LoopInv, WorkersOK, Busy, OffsetSubmitted, BatchOK,
              ForgottenMeansSubmitted
<1>2. CASE Boot
  <2>1. UNCHANGED <<confirmed, batch, runs, work>> /\ loop' = "poll" /\ loop = "down" /\ offset' = 0
    BY <1>2 DEF Boot, telegram, workers
  <2>2. WorkersOK'
    BY <2>1 DEF LoopInv, WorkersOK, Busy
  <2>3. BatchOK'
    BY <2>1 DEF LoopInv, BatchOK, Types
  <2> QED BY <2>1, <2>2, <2>3 DEF LoopInv, OffsetSubmitted, ForgottenMeansSubmitted
<1>3. CASE GetUpdates
  <2>1. /\ UNCHANGED <<sent, offset, runs, work>> /\ loop' = "submit" /\ loop = "poll"
        /\ batch' = (confirmed' + 1)..Len(sent)
    BY <1>3 DEF GetUpdates, workers
  <2>2. /\ confirmed' \in 0..Len(sent) /\ offset <= confirmed'
        /\ (confirmed' = confirmed \/ confirmed' = offset)
    BY <1>3, ConfirmTyped DEF GetUpdates
  <2>3. ForgottenMeansSubmitted'
    BY <2>1, <2>2 DEF LoopInv, ForgottenMeansSubmitted, OffsetSubmitted
  <2>4. BatchOK'
    <3> SUFFICES ASSUME NEW id \in (confirmed' + 1)..Len(sent)
                 PROVE  /\ offset < id
                        /\ \A i \in 1..(id - 1) : i \notin (confirmed' + 1)..Len(sent) => runs[i] > 0
      BY <2>1 DEF BatchOK
    <3>1. Len(sent) \in Nat /\ offset \in Nat /\ confirmed' \in Nat
      BY <2>2 DEF Types
    <3>2. id \in Nat /\ confirmed' < id /\ id <= Len(sent)
      BY <3>1, AfterConfirmed
    <3>3. offset < id
      BY <2>2, <3>1, <3>2
    <3>4. ASSUME NEW i \in 1..(id - 1), i \notin (confirmed' + 1)..Len(sent)
          PROVE  runs[i] > 0
      <4>1. i \in Nat /\ 1 <= i /\ i < id
        BY <3>2
      <4>2. i <= Len(sent)
        BY <3>1, <3>2, <4>1
      <4>3. i <= confirmed'
        BY <3>1, <3>4, <4>1, <4>2, AfterConfirmed
      <4>4. i \in 1..confirmed'
        BY <3>1, <4>1, <4>3
      <4> QED BY <2>1, <2>3, <4>4 DEF ForgottenMeansSubmitted
    <3> QED BY <3>3, <3>4
  <2>5. WorkersOK' /\ OffsetSubmitted'
    BY <2>1 DEF LoopInv, WorkersOK, Busy, OffsetSubmitted
  <2> QED BY <2>3, <2>4, <2>5 DEF LoopInv
<1>4. CASE PollAgain
  BY <1>4 DEF PollAgain, telegram, workers, LoopInv, WorkersOK, Busy, OffsetSubmitted, BatchOK,
              ForgottenMeansSubmitted
<1>5. CASE GetUpdatesFails
  <2>1. CASE attempts + 1 = MaxRetries
    BY <1>5, <2>1, LoopKeptByDie DEF GetUpdatesFails
  <2>2. CASE attempts + 1 # MaxRetries
    <3>1. UNCHANGED <<loop, offset, batch, runs, work>> /\ (Confirm \/ UNCHANGED confirmed)
      BY <1>5, <2>2 DEF GetUpdatesFails, workers
    <3>2. ForgottenMeansSubmitted'
      BY <3>1 DEF LoopInv, ForgottenMeansSubmitted, OffsetSubmitted, Confirm
    <3> QED BY <3>1, <3>2 DEF LoopInv, WorkersOK, Busy, OffsetSubmitted, BatchOK
  <2> QED BY <2>1, <2>2
<1>6. CASE Crash
  BY <1>6, LoopKeptByDie DEF Crash, telegram
<1>7. ASSUME NEW id \in Updates, Submit(id) PROVE LoopInv'
  BY <1>7, LoopKeptBySubmit
<1> QED BY <1>1, <1>2, <1>3, <1>4, <1>5, <1>6, <1>7 DEF Moves

-----------------------------------------------------------------------------
(* The pool.                                                               *)

PoolOK == Cardinality(Busy) <= Capacity

LEMMA BusyIsFinite == IsFiniteSet(Busy) /\ Cardinality(Busy) \in Nat
<1>1. IsFiniteSet(Updates)
  BY FS_Interval, ConstantsAssumption DEF Updates
<1>2. Busy \subseteq Updates
  BY DEF Busy
<1> QED BY <1>1, <1>2, FS_Subset, FS_CardinalityType

LEMMA PoolInit == Init => PoolOK
<1> SUFFICES ASSUME Init PROVE PoolOK
  OBVIOUS
<1>1. Busy = {}
  BY DEF Init, Busy
<1> QED BY <1>1, FS_EmptySet, ConstantsAssumption DEF PoolOK

\* Fewer workers are busy.
LEMMA FewerBusy ==
  ASSUME PoolOK, Busy' \subseteq Busy
  PROVE  PoolOK'
<1>1. Cardinality(Busy') <= Cardinality(Busy) /\ Cardinality(Busy') \in Nat
  BY BusyIsFinite, FS_Subset, FS_CardinalityType
<1> QED BY <1>1, BusyIsFinite, ConstantsAssumption DEF PoolOK

LEMMA PoolKept ==
  ASSUME Types, WorkersOK, PoolOK, Next
  PROVE  PoolOK'
<1>1. ASSUME NEW id \in Updates, Handles(id) PROVE PoolOK'
  <2>1. Busy' \subseteq Busy
    BY <1>1, HandlerFrame DEF Busy, Types
  <2> QED BY <2>1, FewerBusy
<1>2. ASSUME NEW id \in Updates, Submit(id) PROVE PoolOK'
  <2>1. Busy' \subseteq Busy \cup {id} /\ Cardinality(Busy) < Capacity
    BY <1>2 DEF Submit, Busy, Types
  <2>2. /\ IsFiniteSet(Busy \cup {id})
        /\ Cardinality(Busy \cup {id}) = IF id \in Busy THEN Cardinality(Busy) ELSE Cardinality(Busy) + 1
    BY BusyIsFinite, FS_AddElement, Zenon
  <2>3. Cardinality(Busy') <= Cardinality(Busy \cup {id}) /\ Cardinality(Busy') \in Nat
        /\ Cardinality(Busy \cup {id}) \in Nat
    BY <2>1, <2>2, FS_Subset, FS_CardinalityType
  <2> QED BY <2>1, <2>2, <2>3, BusyIsFinite, ConstantsAssumption DEF PoolOK
<1>3. CASE SendMessage \/ Boot \/ GetUpdates \/ PollAgain
  <2>1. UNCHANGED work
    BY <1>3 DEF SendMessage, Boot, GetUpdates, PollAgain, workers
  <2> QED BY <2>1 DEF PoolOK, Busy
<1>4. CASE GetUpdatesFails \/ Crash
  <2>1. Busy' \subseteq Busy
    BY <1>4 DEF GetUpdatesFails, Crash, Die, Busy, workers
  <2> QED BY <2>1, FewerBusy
<1> QED BY <1>1, <1>2, <1>3, <1>4, NextSplits DEF Moves

-----------------------------------------------------------------------------
(* The tables.                                                             *)

\* What the loop does touches no table and no reply.
LEMMA MovesFrame ==
  ASSUME Types, Moves
  PROVE  /\ UNCHANGED <<users, pickems, members, told>>
         /\ Len(sent) <= Len(sent') /\ Len(sent) \in Nat /\ Len(sent') \in Nat
         /\ \A i \in 1..Len(sent) : sent'[i] = sent[i]
<1>1. CASE SendMessage
  <2>1. PICK m \in Messages : sent' = Append(sent, m)
    BY <1>1 DEF SendMessage
  <2>2. m \in Message
    BY ConstantsAssumption
  <2> QED BY <1>1, <2>1, <2>2 DEF SendMessage, tables, Types
<1>2. CASE Boot \/ GetUpdates \/ PollAgain \/ GetUpdatesFails \/ Crash \/ \E id \in Updates : Submit(id)
  BY <1>2 DEF Boot, GetUpdates, PollAgain, GetUpdatesFails, Crash, Submit, tables, telegram, Types
<1> QED BY <1>1, <1>2 DEF Moves

\* A worker that is busy after a step of the loop and was not idle before is where it
\* was; the others have everything before them.
LEMMA MovesKeepWork ==
  ASSUME Types, Moves, NEW id \in Updates, work'[id] \notin {"idle", "parse"}
  PROVE  work'[id] = work[id] /\ text'[id] = text[id]
<1>1. CASE SendMessage \/ Boot \/ GetUpdates \/ PollAgain
  BY <1>1 DEF SendMessage, Boot, GetUpdates, PollAgain, workers
<1>2. CASE GetUpdatesFails \/ Crash
  BY <1>2 DEF GetUpdatesFails, Crash, Die, workers
<1>3. ASSUME NEW other \in Updates, Submit(other) PROVE work'[id] = work[id] /\ text'[id] = text[id]
  BY <1>3 DEF Submit, Types
<1> QED BY <1>1, <1>2, <1>3 DEF Moves

\* A handler past the first upsert has its user stored; one about to join has a
\* pickem to join; one with a reply in hand says what is so.
Truth(id, t) ==
  LET m == sent[id]
  IN /\ t = "created" => pickems[m.chat] = [owner |-> m.user, by |-> id]
     /\ t = "exists" => pickems[m.chat] # None
     /\ t = "joined" => m.user \in members[m.chat]

HandOK(id) ==
  /\ work[id] \in {"find", "rule", "create", "member"} => sent[id].user \in users
  /\ work[id] = "member" => pickems[sent[id].chat] # None
  /\ work[id] = "reply" => Truth(id, text[id])

ToldOK == \A reply \in told : reply.update <= Len(sent) /\ Truth(reply.update, reply.text)

TablesInv == OwnerIsMember /\ ToldOK /\ \A id \in Updates : HandOK(id)

LEMMA TablesInit == Init => TablesInv
BY DEF Init, TablesInv, OwnerIsMember, ToldOK, HandOK

\* No step takes a user, a pickem or a membership away.
TablesGrow ==
  /\ users \subseteq users'
  /\ \A c \in Chats : /\ pickems[c] # None => pickems'[c] = pickems[c]
                      /\ members[c] \subseteq members'[c]

LEMMA WritesGrow ==
  ASSUME Types, WorkersOK, NEW id \in Updates, Handles(id)
  PROVE  TablesGrow /\ (OwnerIsMember /\ HandOK(id) => OwnerIsMember')
<1>1. sent[id].chat \in Chats /\ sent[id].user \in Users
  BY HandlerFrame, InHand
<1>2. pickems \in [Chats -> [owner : Users, by : Updates] \cup {None}] /\ members \in [Chats -> SUBSET Users]
  BY DEF Types
<1>3. CASE UNCHANGED tables
  BY <1>3 DEF tables, TablesGrow, OwnerIsMember
<1>4. CASE Upsert(id) /\ UNCHANGED <<pickems, members>>
  BY <1>4 DEF Upsert, TablesGrow, OwnerIsMember
<1>5. CASE work[id] = "create" /\ pickems[sent[id].chat] = None /\ Created(id)
  <2> DEFINE c == sent[id].chat  u == sent[id].user  row == [owner |-> u, by |-> id]
  <2>1. /\ pickems' = [pickems EXCEPT ![c] = row]
        /\ members' = [members EXCEPT ![c] = @ \cup {u}]
        /\ users' = users
    BY <1>5 DEF Created
  <2>2. TablesGrow
    BY <1>1, <1>2, <1>5, <2>1 DEF TablesGrow
  <2>3. row # None
    BY <1>1, ConstantsAssumption
  <2>4. ASSUME OwnerIsMember, HandOK(id) PROVE OwnerIsMember'
    <3>1. u \in users
      BY <1>5, <2>4 DEF HandOK
    <3>2. ASSUME NEW d \in Chats
          PROVE  /\ pickems'[d] # None => pickems'[d].owner \in members'[d]
                 /\ pickems'[d] = None => members'[d] = {}
                 /\ members'[d] \subseteq users'
      <4>1. CASE d = c
        BY <1>1, <1>2, <2>1, <2>3, <2>4, <3>1, <4>1 DEF OwnerIsMember
      <4>2. CASE d # c
        BY <1>2, <2>1, <2>4, <4>2 DEF OwnerIsMember
      <4> QED BY <4>1, <4>2
    <3> QED BY <3>2 DEF OwnerIsMember
  <2> QED BY <2>2, <2>4
<1>6. CASE work[id] = "member" /\ Joined(id) /\ UNCHANGED <<users, pickems>>
  BY <1>1, <1>2, <1>6 DEF Joined, TablesGrow, OwnerIsMember, HandOK
<1> QED BY <1>3, <1>4, <1>5, <1>6, TablesMove DEF Writes

LEMMA RowsAreRows ==
  ASSUME Types, NEW id \in Updates, sent[id].user \in Users
  PROVE  [owner |-> sent[id].user, by |-> id] # None
BY ConstantsAssumption

\* A handler leaves the others with what they have in hand.
LEMMA OthersKeepHand ==
  ASSUME Types, WorkersOK, NEW id \in Updates, Handles(id), NEW other \in Updates \ {id},
         HandOK(other)
  PROVE  HandOK(other)'
<1>1. /\ work'[other] = work[other] /\ text'[other] = text[other] /\ sent' = sent
  BY HandlerFrame DEF Types, telegram
<1>2. CASE work[other] = "idle"
  BY <1>1, <1>2 DEF HandOK
<1>3. CASE work[other] # "idle"
  <2>1. sent[other].chat \in Chats /\ sent[other].user \in Users
    BY <1>3, InHand
  <2>2. TablesGrow
    BY WritesGrow
  <2>3. [owner |-> sent[other].user, by |-> other] # None
    BY <2>1, RowsAreRows
  <2>4. work[other] \in {"find", "rule", "create", "member"} => sent[other].user \in users'
    BY <2>2 DEF HandOK, TablesGrow
  <2>5. work[other] = "member" => pickems'[sent[other].chat] # None
    BY <2>1, <2>2 DEF HandOK, TablesGrow
  <2>6. work[other] = "reply" => Truth(other, text[other])'
    BY <1>1, <2>1, <2>2, <2>3 DEF HandOK, TablesGrow, Truth
  <2> QED BY <1>1, <2>4, <2>5, <2>6 DEF HandOK
<1> QED BY <1>2, <1>3

LEMMA GoesTo ==
  ASSUME Types, NEW id \in Updates, NEW stage, Go(id, stage)
  PROVE  work'[id] = stage /\ text'[id] = text[id]
BY DEF Go, Types

LEMMA Says ==
  ASSUME Types, NEW id \in Updates, NEW t, Say(id, t)
  PROVE  work'[id] = "reply" /\ text'[id] = t
BY DEF Say, Types

\* And itself with what the next stage needs.
LEMMA OwnHand ==
  ASSUME Types, WorkersOK, NEW id \in Updates, Handles(id), HandOK(id)
  PROVE  HandOK(id)'
<1>1. sent' = sent /\ work[id] # "idle"
  BY HandlerFrame DEF telegram
<1>2. sent[id].chat \in Chats /\ sent[id].user \in Users /\ sent[id].command \in Command
  BY <1>1, InHand
<1>3. pickems \in [Chats -> [owner : Users, by : Updates] \cup {None}] /\ members \in [Chats -> SUBSET Users]
  BY DEF Types
<1>4. CASE Parse(id)
  <2>1. Go(id, "user") \/ Go(id, "idle") \/ Say(id, "hello")
    BY <1>2, <1>4 DEF Parse, Command
  <2> QED BY <2>1, GoesTo, Says DEF HandOK, Truth
<1>5. CASE Start(id)
  BY <1>5, Says DEF Start, HandOK, Truth
<1>6. CASE UpsertUser(id)
  <2>1. work'[id] = "find" /\ sent[id].user \in users'
    BY <1>6, GoesTo DEF UpsertUser, Upsert
  <2> QED BY <1>1, <2>1 DEF HandOK
<1>7. CASE FindExisting(id)
  <2>1. UNCHANGED tables /\ work[id] = "find"
    BY <1>7 DEF FindExisting
  <2>2. CASE FoundByChat(id)
    BY <1>1, <1>7, <2>1, <2>2, Says DEF FindExisting, FoundByChat, HandOK, Truth, tables
  <2>3. CASE ~FoundByChat(id)
    BY <1>1, <1>7, <2>1, <2>3, GoesTo DEF FindExisting, HandOK, tables
  <2> QED BY <2>2, <2>3
<1>8. CASE FindToJoin(id)
  <2>1. UNCHANGED tables /\ work[id] = "find"
    BY <1>8 DEF FindToJoin
  <2>2. CASE FoundByChat(id)
    BY <1>1, <1>8, <2>1, <2>2, GoesTo DEF FindToJoin, FoundByChat, HandOK, tables
  <2>3. CASE ~FoundByChat(id)
    <3>1. work'[id] = "reply" /\ text'[id] = "none yet"
      BY <1>8, <2>3, Says DEF FindToJoin
    <3> QED BY <3>1 DEF HandOK, Truth
  <2> QED BY <2>2, <2>3
<1>9. CASE DefaultRule(id)
  BY <1>1, <1>9, GoesTo DEF DefaultRule, HandOK, tables
<1>10. CASE CreateWithOwner(id)
  <2>1. CASE pickems[sent[id].chat] = None
    <3>1. Created(id) /\ Say(id, "created")
      BY <1>10, <2>1 DEF CreateWithOwner
    <3>2. pickems'[sent[id].chat] = [owner |-> sent[id].user, by |-> id]
      BY <1>2, <1>3, <3>1 DEF Created
    <3> QED BY <1>1, <3>1, <3>2, Says DEF HandOK, Truth
  <2>2. CASE pickems[sent[id].chat] # None
    BY <1>10, <2>2, Says DEF CreateWithOwner, HandOK, Truth
  <2> QED BY <2>1, <2>2
<1>11. CASE AddMember(id)
  <2>1. sent[id].user \in members'[sent[id].chat]
    BY <1>2, <1>3, <1>11 DEF AddMember, Joined
  <2> QED BY <1>1, <1>11, <2>1, Says DEF AddMember, HandOK, Truth
<1>12. CASE SendText(id)
  BY <1>12, GoesTo DEF SendText, HandOK
<1>13. CASE CallFails(id)
  BY <1>13, Says DEF CallFails, HandOK, Truth
<1>14. CASE SendTextFails(id)
  BY <1>14, GoesTo DEF SendTextFails, HandOK
<1> QED
  BY <1>4, <1>5, <1>6, <1>7, <1>8, <1>9, <1>10, <1>11, <1>12, <1>13, <1>14
  DEF Handles, Worker

LEMMA TablesKeptByHandlers ==
  ASSUME Types, WorkersOK, TablesInv, NEW id \in Updates, Handles(id)
  PROVE  TablesInv'
<1>1. OwnerIsMember'
  BY WritesGrow DEF TablesInv
<1>2. \A other \in Updates : HandOK(other)'
  BY OwnHand, OthersKeepHand DEF TablesInv
<1>3. ToldOK'
  <2>1. TablesGrow
    BY WritesGrow
  <2>2. sent' = sent /\ Len(sent) \in Nat /\ Len(sent) <= MaxUpdates /\ MaxUpdates \in Nat
    BY HandlerFrame, ConstantsAssumption DEF telegram, Types
  <2>3. ASSUME NEW reply \in told
        PROVE  reply.update <= Len(sent') /\ Truth(reply.update, reply.text)'
    <3>1. reply.update \in Updates /\ reply.update <= Len(sent) /\ Truth(reply.update, reply.text)
      BY DEF Types, TablesInv, ToldOK
    <3>2. sent[reply.update] \in Message
      BY <2>2, <3>1 DEF Types, Updates
    <3>3. sent[reply.update].chat \in Chats /\ sent[reply.update].user \in Users
      BY <3>2 DEF Message
    <3>4. [owner |-> sent[reply.update].user, by |-> reply.update] # None
      BY <3>1, <3>3, RowsAreRows
    <3> QED BY <2>1, <2>2, <3>1, <3>3, <3>4 DEF TablesGrow, Truth
  <2>4. CASE UNCHANGED told
    BY <2>3, <2>4 DEF ToldOK
  <2>5. CASE work[id] = "reply" /\ told' = told \cup {[update |-> id, text |-> text[id]]}
    <3>1. Truth(id, text[id]) /\ id <= Len(sent) /\ sent[id].chat \in Chats /\ sent[id].user \in Users
      BY <2>5, InHand DEF TablesInv, HandOK
    <3>2. [owner |-> sent[id].user, by |-> id] # None
      BY <3>1, RowsAreRows
    <3>3. Truth(id, text[id])'
      <4>1. SendText(id) \/ SendTextFails(id)
        BY <2>5 DEF Handles, Worker, Parse, Start, UpsertUser, FindExisting, FindToJoin,
                    DefaultRule, CreateWithOwner, AddMember, CallFails
      <4>2. UNCHANGED <<sent, tables, text>>
        BY <4>1 DEF SendText, SendTextFails, telegram, Go
      <4> QED BY <3>1, <4>2 DEF Truth, tables
    <3>4. text'[id] = text[id]
      <4>1. SendText(id) \/ SendTextFails(id)
        BY <2>5 DEF Handles, Worker, Parse, Start, UpsertUser, FindExisting, FindToJoin,
                    DefaultRule, CreateWithOwner, AddMember, CallFails
      <4> QED BY <4>1 DEF SendText, SendTextFails, Go
    <3>5. ASSUME NEW reply \in told' PROVE reply.update <= Len(sent') /\ Truth(reply.update, reply.text)'
      <4>1. CASE reply \in told
        BY <2>3, <4>1
      <4>2. CASE reply = [update |-> id, text |-> text[id]]
        BY <2>2, <3>1, <3>3, <3>4, <4>2 DEF Truth
      <4> QED BY <2>5, <4>1, <4>2
    <3> QED BY <3>5 DEF ToldOK
  <2> QED BY <2>4, <2>5, ToldMoves
<1> QED BY <1>1, <1>2, <1>3 DEF TablesInv

LEMMA TablesKeptByMoves ==
  ASSUME Types, WorkersOK, TablesInv, Moves
  PROVE  TablesInv'
<1>1. UNCHANGED <<users, pickems, members, told>>
  BY MovesFrame
<1>2. /\ Len(sent) <= Len(sent') /\ Len(sent) \in Nat /\ Len(sent') \in Nat
      /\ \A i \in 1..Len(sent) : sent'[i] = sent[i]
  BY MovesFrame
<1>3. Updates \subseteq Nat \ {0}
  BY DEF Updates
<1>4. OwnerIsMember'
  BY <1>1 DEF TablesInv, OwnerIsMember
<1>5. ASSUME NEW id \in Updates PROVE HandOK(id)'
  <2>1. CASE work'[id] \in {"idle", "parse"}
    BY <2>1 DEF HandOK
  <2>2. CASE work'[id] \notin {"idle", "parse"}
    <3>1. work'[id] = work[id] /\ text'[id] = text[id]
      BY <2>2, MovesKeepWork
    <3>2. id \in 1..Len(sent)
      BY <2>2, <3>1, InHand
    <3>3. sent'[id] = sent[id]
      BY <1>2, <3>2
    <3> QED BY <1>1, <3>1, <3>3 DEF TablesInv, HandOK, Truth
  <2> QED BY <2>1, <2>2
<1>6. ToldOK'
  <2> SUFFICES ASSUME NEW reply \in told
               PROVE  reply.update <= Len(sent') /\ Truth(reply.update, reply.text)'
    BY <1>1 DEF ToldOK
  <2>1. reply.update \in Updates /\ reply.update <= Len(sent) /\ Truth(reply.update, reply.text)
    BY DEF Types, TablesInv, ToldOK
  <2>2. reply.update \in 1..Len(sent) /\ reply.update <= Len(sent')
    BY <1>2, <1>3, <2>1
  <2>3. sent'[reply.update] = sent[reply.update]
    BY <1>2, <2>2
  <2> QED BY <1>1, <2>1, <2>2, <2>3 DEF Truth
<1> QED BY <1>4, <1>5, <1>6 DEF TablesInv

-----------------------------------------------------------------------------
(* The theorems.                                                           *)

\* The inductive invariant: types, what the loop has given to workers, the bound of
\* the pool, and what the tables, the workers and the replies say of each other.
IInv == Types /\ LoopInv /\ PoolOK /\ TablesInv

\* Every step of the loop, of a handler, and every fault keeps it.
THEOREM Inductive == Spec => []IInv
<1>1. Init => IInv
  BY TypesInit, LoopInit, PoolInit, TablesInit DEF IInv
<1>2. IInv /\ [Next]_vars => IInv'
  <2> SUFFICES ASSUME IInv, [Next]_vars PROVE IInv'
    OBVIOUS
  <2>1. Types /\ LoopInv /\ PoolOK /\ TablesInv /\ WorkersOK
    BY DEF IInv, LoopInv
  <2>2. CASE Next
    <3>1. PoolOK'
      BY <2>1, <2>2, PoolKept
    <3>2. CASE Moves
      BY <2>1, <3>1, <3>2, TypesKeptByMoves, LoopKeptByMoves, TablesKeptByMoves DEF IInv
    <3>3. ASSUME NEW id \in Updates, Handles(id) PROVE IInv'
      BY <2>1, <3>1, <3>3, TypesKeptByHandlers, LoopKeptByHandlers, TablesKeptByHandlers DEF IInv
    <3> QED BY <2>2, <3>2, <3>3, NextSplits
  <2>3. CASE UNCHANGED vars
    BY <2>1, <2>3 DEF vars, IInv, Types, LoopInv, WorkersOK, Busy, OffsetSubmitted, BatchOK,
       ForgottenMeansSubmitted, PoolOK, TablesInv, OwnerIsMember, HandOK, ToldOK, Truth
  <2> QED BY <2>2, <2>3
<1> QED BY <1>1, <1>2, PTL DEF Spec

\* State of its types, no more workers than the pool has room for (update_loop.rs,
\* POOL_CAPACITY), and every pickem with its owner in it, whatever fails between the
\* INSERTs of create_with_owner.
THEOREM TypeCorrectness == Spec => []TypeOK
<1>1. IInv => TypeOK
  BY DEF IInv, LoopInv, PoolOK, TablesInv, TypeOK
<1> QED BY <1>1, Inductive, PTL

\* Telegram forgets no update that the loop of update_loop.rs did not submit.
THEOREM NothingForgotten == Spec => []ForgottenMeansSubmitted
<1>1. IInv => ForgottenMeansSubmitted
  BY DEF IInv, LoopInv
<1> QED BY <1>1, Inductive, PTL

\* What the handlers told people about their chat's pickem is true, and stays so.
THEOREM TrueReplies == Spec => []RepliesTrue
<1>1. IInv => RepliesTrue
  BY DEF IInv, TablesInv, ToldOK, Truth, RepliesTrue
<1> QED BY <1>1, Inductive, PTL

-----------------------------------------------------------------------------
(* The bot implements ChatPickems.                                         *)

\* The commands whose handlers come by each stage; a reply in hand is one its
\* command may get.
CommandOK(id) ==
  /\ work[id] = "user" => sent[id].command \in {"start", "new_pickem", "join"}
  /\ work[id] = "find" => sent[id].command \in {"new_pickem", "join"}
  /\ work[id] \in {"rule", "create"} => sent[id].command = "new_pickem"
  /\ work[id] = "member" => sent[id].command = "join"
  /\ work[id] = "reply" => text[id] \in Registry!Answers(sent[id].command)

CommandsInv == \A id \in Updates : CommandOK(id)

\* What ChatPickems lets the bot answer, command by command.
LEMMA AnswersAre ==
  /\ "hello" \in Registry!Answers("start")
  /\ "hello" \in Registry!Answers("other")
  /\ \A t \in {"created", "exists"} : t \in Registry!Answers("new_pickem")
  /\ \A t \in {"joined", "none yet"} : t \in Registry!Answers("join")
  /\ \A c \in {"start", "new_pickem", "join"} : "sorry" \in Registry!Answers(c)
BY DEF Registry!Answers

\* A reply that is said is in hand; a stage that is gone to is where the worker is.
LEMMA SaysWhatFits ==
  ASSUME Types, NEW id \in Updates, NEW t, Say(id, t), sent' = sent,
         t \in Registry!Answers(sent[id].command)
  PROVE  CommandOK(id)'
<1>1. work'[id] = "reply" /\ text'[id] = t
  BY Says
<1> QED BY <1>1 DEF CommandOK

\* A handler keeps to the stages of its command.
LEMMA OwnCommand ==
  ASSUME Types, WorkersOK, NEW id \in Updates, Handles(id), CommandOK(id)
  PROVE  CommandOK(id)'
<1> DEFINE command == sent[id].command
<1>1. sent' = sent /\ work[id] # "idle"
  BY HandlerFrame DEF telegram
<1>2. command \in Command
  BY <1>1, InHand
<1>3. CASE Parse(id)
  <2>1. CASE command \in {"start", "new_pickem", "join"}
    <3>1. Go(id, "user")
      BY <1>3, <2>1 DEF Parse
    <3>2. work'[id] = "user"
      BY <3>1, GoesTo
    <3> QED BY <1>1, <2>1, <3>2 DEF CommandOK
  <2>2. CASE command = "play"
    <3>1. Go(id, "idle")
      BY <1>3, <2>2 DEF Parse
    <3> QED BY <3>1, GoesTo DEF CommandOK
  <2>3. CASE command = "other"
    <3>1. Go(id, "idle") \/ Say(id, "hello")
      BY <1>3, <2>3 DEF Parse
    <3>2. CASE Go(id, "idle")
      BY <3>2, GoesTo DEF CommandOK
    <3>3. CASE Say(id, "hello")
      BY <1>1, <2>3, <3>3, AnswersAre, SaysWhatFits
    <3> QED BY <3>1, <3>2, <3>3
  <2> QED BY <1>2, <2>1, <2>2, <2>3 DEF Command
<1>4. CASE Start(id)
  <2>1. command = "start" /\ Say(id, "hello")
    BY <1>4 DEF Start
  <2> QED BY <1>1, <2>1, AnswersAre, SaysWhatFits
<1>5. CASE UpsertUser(id)
  <2>1. command \in {"new_pickem", "join"} /\ Go(id, "find")
    BY <1>5 DEF UpsertUser, CommandOK
  <2>2. work'[id] = "find"
    BY <2>1, GoesTo
  <2> QED BY <1>1, <2>1, <2>2 DEF CommandOK
<1>6. CASE FindExisting(id)
  <2>1. command = "new_pickem" /\ (Say(id, "exists") \/ Go(id, "rule"))
    BY <1>6 DEF FindExisting
  <2>2. CASE Say(id, "exists")
    BY <1>1, <2>1, <2>2, AnswersAre, SaysWhatFits
  <2>3. CASE Go(id, "rule")
    <3>1. work'[id] = "rule"
      BY <2>3, GoesTo
    <3> QED BY <1>1, <2>1, <3>1 DEF CommandOK
  <2> QED BY <2>1, <2>2, <2>3
<1>7. CASE FindToJoin(id)
  <2>1. command = "join" /\ (Say(id, "none yet") \/ Go(id, "member"))
    BY <1>7 DEF FindToJoin
  <2>2. CASE Say(id, "none yet")
    BY <1>1, <2>1, <2>2, AnswersAre, SaysWhatFits
  <2>3. CASE Go(id, "member")
    <3>1. work'[id] = "member"
      BY <2>3, GoesTo
    <3> QED BY <1>1, <2>1, <3>1 DEF CommandOK
  <2> QED BY <2>1, <2>2, <2>3
<1>8. CASE DefaultRule(id)
  <2>1. command = "new_pickem" /\ Go(id, "create")
    BY <1>8 DEF DefaultRule, CommandOK
  <2>2. work'[id] = "create"
    BY <2>1, GoesTo
  <2> QED BY <1>1, <2>1, <2>2 DEF CommandOK
<1>9. CASE CreateWithOwner(id)
  <2>1. command = "new_pickem" /\ (Say(id, "created") \/ Say(id, "sorry"))
    BY <1>9 DEF CreateWithOwner, CommandOK
  <2> QED BY <1>1, <2>1, AnswersAre, SaysWhatFits
<1>10. CASE AddMember(id)
  <2>1. command = "join" /\ Say(id, "joined")
    BY <1>10 DEF AddMember, CommandOK
  <2> QED BY <1>1, <2>1, AnswersAre, SaysWhatFits
<1>11. CASE SendText(id) \/ SendTextFails(id)
  <2>1. Go(id, "idle")
    BY <1>11 DEF SendText, SendTextFails
  <2> QED BY <2>1, GoesTo DEF CommandOK
<1>12. CASE CallFails(id)
  <2>1. command \in {"start", "new_pickem", "join"} /\ Say(id, "sorry")
    BY <1>12 DEF CallFails, CommandOK
  <2> QED BY <1>1, <2>1, AnswersAre, SaysWhatFits
<1> QED
  BY <1>3, <1>4, <1>5, <1>6, <1>7, <1>8, <1>9, <1>10, <1>11, <1>12 DEF Handles, Worker

LEMMA CommandsKept ==
  ASSUME Types, WorkersOK, CommandsInv, [Next]_vars
  PROVE  CommandsInv'
<1>1. ASSUME NEW id \in Updates, Handles(id) PROVE CommandsInv'
  <2>1. ASSUME NEW other \in Updates \ {id} PROVE CommandOK(other)'
    <3>1. work'[other] = work[other] /\ text'[other] = text[other] /\ sent' = sent
      BY <1>1, HandlerFrame DEF Types, telegram
    <3> QED BY <3>1 DEF CommandsInv, CommandOK
  <2>2. CommandOK(id)'
    BY <1>1, OwnCommand DEF CommandsInv
  <2> QED BY <2>1, <2>2 DEF CommandsInv
<1>2. CASE Moves
  <2> SUFFICES ASSUME NEW id \in Updates PROVE CommandOK(id)'
    BY DEF CommandsInv
  <2>1. CASE work'[id] \in {"idle", "parse"}
    BY <2>1 DEF CommandOK
  <2>2. CASE work'[id] \notin {"idle", "parse"}
    <3>1. work'[id] = work[id] /\ text'[id] = text[id]
      BY <1>2, <2>2, MovesKeepWork
    <3>2. id \in 1..Len(sent)
      BY <2>2, <3>1, InHand
    <3>3. sent'[id] = sent[id]
      BY <1>2, <3>2, MovesFrame
    <3> QED BY <3>1, <3>3 DEF CommandsInv, CommandOK
  <2> QED BY <2>1, <2>2
<1>3. CASE UNCHANGED vars
  BY <1>3 DEF vars, CommandsInv, CommandOK
<1> QED BY <1>1, <1>2, <1>3, NextSplits

THEOREM StagesFitCommands == Spec => []CommandsInv
<1>1. Init => CommandsInv
  BY DEF Init, CommandsInv, CommandOK
<1>2. IInv => Types /\ WorkersOK
  BY DEF IInv, LoopInv
<1>3. IInv /\ CommandsInv /\ [Next]_vars => CommandsInv'
  BY <1>2, CommandsKept
<1> QED BY <1>1, <1>3, Inductive, PTL DEF Spec

LEMMA RegistryInit == Init => Registry!Init
BY DEF Init, Registry!Init

\* A write of a handler founds a pickem, lets somebody in, or is none of ChatPickems'
\* concern.
LEMMA WritesRefine ==
  ASSUME Types, WorkersOK, TablesInv, CommandsInv, NEW id \in Updates, Handles(id), Writes(id)
  PROVE  Registry!Found(id) \/ Registry!Join(id) \/ UNCHANGED <<sent, pickems, members, told>>
<1>1. sent' = sent /\ sent[id].chat \in Chats
  BY HandlerFrame, InHand DEF telegram
<1>2. told' = told
  BY ToldMoves DEF Writes
<1>3. members \in [Chats -> SUBSET Users]
  BY DEF Types
<1>4. CASE work[id] = "user" /\ Upsert(id) /\ UNCHANGED <<pickems, members>>
  BY <1>1, <1>2, <1>4
<1>5. CASE work[id] = "create" /\ pickems[sent[id].chat] = None /\ Created(id)
  <2>1. sent[id].command = "new_pickem"
    BY <1>5 DEF CommandsInv, CommandOK
  <2>2. members[sent[id].chat] = {}
    BY <1>1, <1>5 DEF TablesInv, OwnerIsMember
  <2>3. /\ pickems' = [pickems EXCEPT ![sent[id].chat] = [owner |-> sent[id].user, by |-> id]]
        /\ members' = [members EXCEPT ![sent[id].chat] = @ \cup {sent[id].user}]
    BY <1>5 DEF Created
  <2>4. members' = [members EXCEPT ![sent[id].chat] = {sent[id].user}]
    BY <1>1, <1>3, <2>2, <2>3
  <2> QED BY <1>1, <1>2, <1>5, <2>1, <2>3, <2>4 DEF Registry!Found
<1>6. CASE work[id] = "member" /\ Joined(id) /\ UNCHANGED <<users, pickems>>
  <2>1. sent[id].command = "join" /\ pickems[sent[id].chat] # None
    BY <1>6 DEF CommandsInv, CommandOK, TablesInv, HandOK
  <2>2. members' = [members EXCEPT ![sent[id].chat] = @ \cup {sent[id].user}]
    BY <1>6 DEF Joined
  <2> QED BY <1>1, <1>2, <1>6, <2>1, <2>2 DEF Registry!Join
<1> QED BY <1>4, <1>5, <1>6 DEF Writes

\* A reply delivered fits its command, and is so.
LEMMA RepliesRefine ==
  ASSUME Types, WorkersOK, TablesInv, CommandsInv, NEW id \in Updates, Handles(id),
         UNCHANGED tables
  PROVE  Registry!Tell(id) \/ UNCHANGED <<sent, pickems, members, told>>
<1>1. sent' = sent
  BY HandlerFrame DEF telegram
<1>2. UNCHANGED <<pickems, members>>
  BY DEF tables
<1>3. CASE UNCHANGED told
  BY <1>1, <1>2, <1>3
<1>4. CASE work[id] = "reply" /\ told' = told \cup {[update |-> id, text |-> text[id]]}
  <2>1. text[id] \in Registry!Answers(sent[id].command)
    BY <1>4 DEF CommandsInv, CommandOK
  <2>2. Registry!IsSo(id, text[id])
    BY <1>4 DEF TablesInv, HandOK, Truth, Registry!IsSo
  <2> QED BY <1>1, <1>2, <1>4, <2>1, <2>2 DEF Registry!Tell
<1> QED BY <1>3, <1>4, ToldMoves

LEMMA NextRefines ==
  ASSUME IInv, CommandsInv, [Next]_vars
  PROVE  [Registry!Next]_(Registry!vars)
<1>1. Types /\ WorkersOK /\ TablesInv
  BY DEF IInv, LoopInv
<1>2. CASE Moves
  <2>1. UNCHANGED <<pickems, members, told>>
    BY <1>1, <1>2, MovesFrame
  <2>2. CASE SendMessage
    <3>1. Registry!Ask
      BY <2>1, <2>2 DEF SendMessage, Registry!Ask
    <3> QED BY <3>1 DEF Registry!Next
  <2>3. CASE ~SendMessage
    <3>1. sent' = sent
      BY <1>2, <2>3 DEF Moves, Boot, GetUpdates, PollAgain, GetUpdatesFails, Crash, Submit, telegram
    <3> QED BY <2>1, <3>1 DEF Registry!vars
  <2> QED BY <2>2, <2>3
<1>3. ASSUME NEW id \in Updates, Handles(id) PROVE [Registry!Next]_(Registry!vars)
  <2>1. id \in 1..Len(sent)
    BY <1>1, <1>3, HandlerFrame, InHand
  <2>2. Registry!Found(id) \/ Registry!Join(id) \/ Registry!Tell(id)
          \/ UNCHANGED <<sent, pickems, members, told>>
    BY <1>1, <1>3, TablesMove, WritesRefine, RepliesRefine
  <2> QED BY <2>1, <2>2 DEF Registry!Next, Registry!vars
<1>4. CASE UNCHANGED vars
  BY <1>4 DEF vars, Registry!vars
<1> QED BY <1>2, <1>3, <1>4, NextSplits

\* Every step of the bot, handlers side by side, deliveries repeated, calls failing
\* and crashes included, is one ChatPickems allows.
THEOREM Refinement == Spec => ImplementsChatPickems
<1> QED
  BY RegistryInit, NextRefines, Inductive, StagesFitCommands, PTL
  DEF Spec, ImplementsChatPickems, Registry!Spec

\* No step of new_pickem, join or anything else replaces a chat's pickem or takes a
\* member out of it.
THEOREM PickemsStand == Spec => PickemStands
<1> DEFINE Stands == \A c \in Chats :
                       /\ pickems[c] # None => pickems'[c] = pickems[c]
                       /\ members[c] \subseteq members'[c]
<1>1. IInv /\ [Next]_vars => [Stands]_vars
  <2> SUFFICES ASSUME IInv, Next PROVE Stands
    OBVIOUS
  <2>1. Types /\ WorkersOK
    BY DEF IInv, LoopInv
  <2>2. CASE Moves
    BY <2>1, <2>2, MovesFrame
  <2>3. ASSUME NEW id \in Updates, Handles(id) PROVE Stands
    BY <2>1, <2>3, WritesGrow DEF TablesGrow
  <2> QED BY <2>2, <2>3, NextSplits
<1> QED BY <1>1, Inductive, PTL DEF Spec, PickemStands
=============================================================================
