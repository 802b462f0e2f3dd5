------------------------------ MODULE Throttle ------------------------------
(***************************************************************************)
(* ThrottledTelegramClient: every message takes a cell of the bucket of    *)
(* its chat, then one of the bucket all chats share, and then goes out.    *)
(* The buckets are those of the rate limiter of rust_utils (GCRA): what is *)
(* kept of one is how far its theoretical arrival time is ahead of the     *)
(* clock, here its debt.  Waiting callers are not queued.  Every five      *)
(* minutes the bot drops the buckets that are as good as new.              *)
(***************************************************************************)
EXTENDS Integers, FiniteSets

CONSTANTS
  Chats,      \* chat ids; those of groups are negative
  Senders,    \* tasks that send: workers of the update loop, the notifier
  MaxCalls,   \* bound: messages of one sender
  Window,     \* bound: the longest stretch of time that is looked back on
  Period, Burst,  \* of each kind of bucket: ticks per cell, cells at once
  None        \* no call under way

Kind == {"private", "group", "global"}

ASSUME ConstantsAssumption ==
  /\ Chats \subseteq Int
  /\ IsFiniteSet(Senders)
  /\ MaxCalls \in Nat /\ Window \in Nat
  /\ Period \in [Kind -> Nat \ {0}] /\ Burst \in [Kind -> Nat \ {0}]

VARIABLES
  keyed,    \* private_chats and group_chats: the debts of the chats they know
  global,   \* the debt of the shared bucket
  pc,       \* where the call of each sender is
  chat,     \* to whom
  calls,    \* how many it has made
  cells,    \* history: how many cells each chat has taken in the last so many ticks
  wire,     \* history: how many messages have gone out to it in that time
  sent      \* history: how many to all of them

history == <<cells, wire, sent>>
vars == <<keyed, global, pc, chat, calls, history>>

Init ==
  /\ keyed = [k \in {"private", "group"} |-> [c \in {} |-> 0]]
  /\ global = 0
  /\ pc = [s \in Senders |-> "idle"]
  /\ chat = [s \in Senders |-> None]
  /\ calls = [s \in Senders |-> 0]
  /\ cells = [c \in Chats |-> [w \in 0..Window |-> 0]]
  /\ wire = cells
  /\ sent = [w \in 0..Window |-> 0]

per_chat(c) == IF c < 0 THEN "group" ELSE "private"

\* What a chat owes; nothing, if its bucket has been dropped.
Debt(c) == LET b == keyed[per_chat(c)] IN IF c \in DOMAIN b THEN b[c] ELSE 0

HasCell(debt, kind) == debt + Period[kind] <= Burst[kind] * Period[kind]

Charged(c, debt) ==
  [keyed EXCEPT ![per_chat(c)] =
     [d \in DOMAIN @ \cup {c} |-> IF d = c THEN debt ELSE @[d]]]

\* One more now is one more in every stretch of time up to now.
Counted(log) == [w \in 0..Window |-> log[w] + 1]

Goto(s, stage) == pc' = [pc EXCEPT ![s] = stage]

\* send_text or send_text_with_buttons.
Call(s, c) ==
  /\ pc[s] = "idle" /\ calls[s] < MaxCalls
  /\ Goto(s, "chat")
  /\ chat' = [chat EXCEPT ![s] = c]
  /\ calls' = [calls EXCEPT ![s] = @ + 1]
  /\ UNCHANGED <<keyed, global, history>>

\* Mutant: a call that is refused a cell sets the bucket back all the same.
AcquireOrPay(s) ==
  /\ pc[s] = "chat"
  /\ LET c == chat[s]  k == per_chat(c)
     IN  IF HasCell(Debt(c), k)
         THEN /\ keyed' = Charged(c, Debt(c) + Period[k])
              /\ cells' = [cells EXCEPT ![chat[s]] = Counted(@)]
              /\ Goto(s, "global")
         ELSE /\ keyed' = Charged(c, Burst[k] * Period[k])
              /\ UNCHANGED <<cells, pc>>
  /\ UNCHANGED <<global, chat, calls, wire, sent>>

AcquireChat(s) ==
  /\ pc[s] = "chat"
  /\ LET c == chat[s]  k == per_chat(c)
     IN  /\ HasCell(Debt(c), k)
         /\ keyed' = Charged(c, Debt(c) + Period[k])
  /\ cells' = [cells EXCEPT ![chat[s]] = Counted(@)]
  /\ Goto(s, "global")
  /\ UNCHANGED <<global, chat, calls, wire, sent>>

\* With its second cell the message goes to the inner client.
AcquireGlobal(s) ==
  /\ pc[s] = "global"
  /\ HasCell(global, "global")
  /\ global' = global + Period["global"]
  /\ wire' = [wire EXCEPT ![chat[s]] = Counted(@)]
  /\ sent' = Counted(sent)
  /\ Goto(s, "sending")
  /\ UNCHANGED <<keyed, chat, calls, cells>>

\* It has answered; an error is handed on, a 429 too.
Return(s) ==
  /\ pc[s] = "sending"
  /\ Goto(s, "idle")
  /\ chat' = [chat EXCEPT ![s] = None]
  /\ UNCHANGED <<keyed, global, calls, history>>

\* Mutant: the sweep drops every bucket.
SweepAll ==
  /\ keyed' = [k \in DOMAIN keyed |-> [c \in {} |-> 0]]
  /\ UNCHANGED <<global, pc, chat, calls, history>>

\* cleanup_idle_keys.
Sweep ==
  /\ keyed' = [k \in DOMAIN keyed |->
                 [c \in {d \in DOMAIN keyed[k] : keyed[k][d] > 0} |-> keyed[k][c]]]
  /\ UNCHANGED <<global, pc, chat, calls, history>>

Less(debt) == IF debt = 0 THEN 0 ELSE debt - 1

\* What was so many ticks ago is one more ago.
Older(log) == [w \in 0..Window |-> IF w = 0 THEN 0 ELSE log[w - 1]]

Tick ==
  /\ keyed' = [k \in DOMAIN keyed |-> [c \in DOMAIN keyed[k] |-> Less(keyed[k][c])]]
  /\ global' = Less(global)
  /\ cells' = [c \in Chats |-> Older(cells[c])]
  /\ wire' = [c \in Chats |-> Older(wire[c])]
  /\ sent' = Older(sent)
  /\ UNCHANGED <<pc, chat, calls>>

Step(s) == AcquireChat(s) \/ AcquireGlobal(s) \/ Return(s)

Next ==
  \/ Tick \/ Sweep
  \/ \E s \in Senders : Step(s) \/ \E c \in Chats : Call(s, c)

Spec == Init /\ [][Next]_vars

\* The clock goes on, and a caller that could have a cell tries again.
FairSpec == Spec /\ WF_vars(Tick) /\ \A s \in Senders : WF_vars(Step(s))
-----------------------------------------------------------------------------
(* What the wrapper promises.                                              *)

Allowed(kind, w) == Burst[kind] + w \div Period[kind]

\* Whatever is swept in between, no chat gets more cells, and the bot sends no more
\* messages, in any stretch of time than a burst and one per period.  The messages to
\* one chat may bunch, as each waits for the shared bucket with its cell in hand, but
\* never by more than the callers that can wait at the same time.
Paced ==
  \A w \in 0..Window :
    /\ sent[w] <= Allowed("global", w)
    /\ \A c \in Chats :
         /\ cells[c][w] <= Allowed(per_chat(c), w)
         /\ wire[c][w] <= Allowed(per_chat(c), w) + Cardinality(Senders)

\* The wrapper implements TwoBuckets: maps that forget chats and learn them again are
\* a bucket for each chat all the same, so a sweep at any moment gives nobody a cell,
\* and a caller that waits takes nothing.
Buckets == INSTANCE TwoBuckets WITH
  level <- [c \in Chats |-> Debt(c)],
  shared <- global,
  turn <- [s \in Senders |-> IF pc[s] = "global" THEN chat[s] ELSE None],
  Cost <- [c \in Chats |-> Period[per_chat(c)]],
  Room <- [c \in Chats |-> Burst[per_chat(c)] * Period[per_chat(c)]],
  SharedCost <- Period["global"],
  SharedRoom <- Burst["global"] * Period["global"]

ImplementsTwoBuckets == Buckets!Spec

\* Callers are not queued, so one that has just come may overtake one that waits.  None
\* is overtaken for ever by a finite lot of messages: each of them goes out.
EverySendGoesOut == \A s \in Senders : pc[s] = "chat" ~> pc[s] = "sending"
=============================================================================
