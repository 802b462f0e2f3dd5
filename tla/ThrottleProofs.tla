--------------------------- MODULE ThrottleProofs ---------------------------
(***************************************************************************)
(* The pace of the throttle holds for every set of chats and senders, any  *)
(* bursts and periods, and any stretch of time that is looked back on.     *)
(*                                                                         *)
(* What has gone through a bucket is bounded by what the bucket owes: each *)
(* cell adds a period to the debt, each tick takes one off, and the debt   *)
(* never passes a burst.  So a period for every cell of the last w ticks   *)
(* is at most the debt of now and w.  A message that is out has had its    *)
(* cell before, but may have waited with it, with one caller each.         *)
(***************************************************************************)
EXTENDS Throttle, FiniteSetTheorems, TLAPS

Keyed == {"private", "group"}

Log == [0..Window -> Nat]

\* A chat's debt in the given buckets.
Owes(K, c) ==
  IF c \in DOMAIN K[per_chat(c)] THEN K[per_chat(c)][c] ELSE 0

\* No bucket owes more than its burst.
KeyedOK(K) ==
  /\ K = [k \in Keyed |-> K[k]]
  /\ \A k \in Keyed : \A c \in DOMAIN K[k] : K[k][c] \in Nat
  /\ \A c \in Chats : Owes(K, c) <= Burst[per_chat(c)] * Period[per_chat(c)]

GlobalOK(g) == g \in Nat /\ g <= Burst["global"] * Period["global"]

CallsOK(p, h) ==
  /\ p \in [Senders -> {"idle", "chat", "global", "sending"}]
  /\ h \in [Senders -> Chats \cup {None}]
  /\ \A s \in Senders : p[s] \in {"chat", "global"} => h[s] \in Chats

LogsOK(ce, wi, se) == ce \in [Chats -> Log] /\ wi \in [Chats -> Log] /\ se \in Log

\* A bucket with this debt and period has let this many through.
Paid(log, debt, period) == \A w \in 0..Window : period * log[w] <= debt + w

CellsPaid(K, ce) ==
  \A c \in Chats : Paid(ce[c], Owes(K, c), Period[per_chat(c)])

SentPaid(g, se) == Paid(se, g, Period["global"])

\* The callers that wait for the shared bucket with a cell of this chat in hand.
Waiting(p, h, c) == {s \in Senders : p[s] = "global" /\ h[s] = c}

WireBacked(p, h, ce, wi) ==
  \A c \in Chats : \A w \in 0..Window :
    wi[c][w] + Cardinality(Waiting(p, h, c)) <= ce[c][w] + Cardinality(Senders)

IInv ==
  /\ KeyedOK(keyed) /\ GlobalOK(global)
  /\ CallsOK(pc, chat)
  /\ LogsOK(cells, wire, sent)
  /\ CellsPaid(keyed, cells)
  /\ SentPaid(global, sent)
  /\ WireBacked(pc, chat, cells, wire)
-----------------------------------------------------------------------------
(* Lemmas about the operators.                                             *)

LEMMA KindOfChat ==
  ASSUME NEW c \in Chats
  PROVE  /\ per_chat(c) \in Keyed
         /\ Period[per_chat(c)] \in Nat \ {0}
         /\ Burst[per_chat(c)] \in Nat \ {0}
BY ConstantsAssumption DEF per_chat, Keyed, Kind

LEMMA OwesNat ==
  ASSUME NEW K, KeyedOK(K), NEW c \in Chats
  PROVE  Owes(K, c) \in Nat
BY KindOfChat DEF KeyedOK, Owes

\* A cell more costs a period more.
LEMMA OneMoreCell ==
  ASSUME NEW p \in Nat, NEW x \in Nat
  PROVE  /\ p * (x + 1) = p * x + p
         /\ p * x \in Nat
OBVIOUS

\* What is paid for is allowed.
LEMMA PaidIsAllowed ==
  ASSUME NEW p \in Nat \ {0}, NEW b \in Nat, NEW w \in Nat, NEW x \in Nat,
         NEW debt \in Nat, debt <= b * p, p * x <= debt + w
  PROVE  x <= b + w \div p
<1> DEFINE q == w \div p
<1>1. q \in Nat /\ w < p * (q + 1)
  OBVIOUS
<1> HIDE DEF q
<1>2. SUFFICES ASSUME x >= b + q + 1 PROVE FALSE
  BY <1>1 DEF q
<1>3. p * x >= p * (b + q + 1)
  BY <1>1, <1>2
<1>4. p * (b + q + 1) = b * p + p * (q + 1)
  BY <1>1
<1>5. b * p \in Nat /\ p * (q + 1) \in Nat /\ p * x \in Nat
  BY <1>1
<1>6. QED
  BY <1>1, <1>3, <1>4, <1>5

\* The history of one more cell, and of one tick more.
LEMMA CountedLog ==
  ASSUME NEW log \in Log
  PROVE  /\ Counted(log) \in Log
         /\ \A w \in 0..Window : Counted(log)[w] = log[w] + 1
BY DEF Log, Counted

LEMMA OlderLog ==
  ASSUME NEW log \in Log
  PROVE  /\ Older(log) \in Log
         /\ \A w \in 0..Window :
              Older(log)[w] = IF w = 0 THEN 0 ELSE log[w - 1]
BY ConstantsAssumption DEF Log, Older

LEMMA CountedPaid ==
  ASSUME NEW log \in Log, NEW debt \in Nat, NEW p \in Nat, Paid(log, debt, p)
  PROVE  Paid(Counted(log), debt + p, p)
<1>1. SUFFICES ASSUME NEW w \in 0..Window
               PROVE  p * Counted(log)[w] <= debt + p + w
  BY DEF Paid
<1>2. w \in Nat /\ log[w] \in Nat
  BY DEF Log
<1>3. p * log[w] <= debt + w
  BY DEF Paid
<1>4. p * (log[w] + 1) = p * log[w] + p /\ p * log[w] \in Nat
  BY <1>2, OneMoreCell
<1>5. QED
  BY <1>2, <1>3, <1>4, CountedLog

LEMMA OlderPaid ==
  ASSUME NEW log \in Log, NEW debt \in Nat, NEW p \in Nat, Paid(log, debt, p)
  PROVE  Paid(Older(log), Less(debt), p)
<1>1. SUFFICES ASSUME NEW w \in 0..Window
               PROVE  p * Older(log)[w] <= Less(debt) + w
  BY DEF Paid
<1>2. Less(debt) \in Nat /\ Less(debt) >= debt - 1
  BY DEF Less
<1>3. CASE w = 0
  BY <1>2, <1>3, OlderLog
<1>4. CASE w # 0
  <2>1. w - 1 \in 0..Window /\ w \in Nat
    BY <1>4, ConstantsAssumption
  <2>2. log[w - 1] \in Nat
    BY <2>1 DEF Log
  <2>3. p * log[w - 1] \in Nat
    BY <2>2
  <2>4. p * log[w - 1] <= debt + (w - 1)
    BY <2>1 DEF Paid
  <2>5. QED
    BY <1>2, <1>4, <2>1, <2>3, <2>4, OlderLog
<1>5. QED
  BY <1>3, <1>4

\* No more callers wait than there are.
LEMMA FewWait ==
  ASSUME NEW p, NEW h, NEW c
  PROVE  /\ IsFiniteSet(Waiting(p, h, c))
         /\ Cardinality(Waiting(p, h, c)) \in Nat
         /\ Cardinality(Senders) \in Nat
         /\ Cardinality(Waiting(p, h, c)) <= Cardinality(Senders)
<1>1. Waiting(p, h, c) \in SUBSET Senders
  BY DEF Waiting
<1>2. IsFiniteSet(Senders)
  BY ConstantsAssumption
<1>3. /\ IsFiniteSet(Waiting(p, h, c))
      /\ Cardinality(Waiting(p, h, c)) <= Cardinality(Senders)
  BY <1>1, <1>2, FS_Subset
<1>4. QED
  BY <1>2, <1>3, FS_CardinalityType
-----------------------------------------------------------------------------
(* Every step keeps the invariant.                                         *)

LEMMA Initially == Init => IInv
<1> SUFFICES ASSUME Init PROVE IInv
  OBVIOUS
<1> DEFINE zero == [w \in 0..Window |-> 0]
<1>1. /\ zero \in Log
      /\ \A w \in 0..Window : zero[w] = 0
  BY DEF Log
<1>2. /\ keyed = [k \in Keyed |-> [c \in {} |-> 0]]
      /\ cells = [c \in Chats |-> zero] /\ wire = [c \in Chats |-> zero]
      /\ sent = zero
  BY DEF Init, Keyed
<1> HIDE DEF zero
<1>3. \A c \in Chats : Owes(keyed, c) = 0
  BY <1>2, KindOfChat DEF Owes
<1>4. \A c \in Chats : Burst[per_chat(c)] * Period[per_chat(c)] \in Nat
  BY KindOfChat
<1>5. KeyedOK(keyed)
  <2>1. \A c \in Chats : 0 <= Burst[per_chat(c)] * Period[per_chat(c)]
    BY <1>4
  <2>2. keyed = [k \in Keyed |-> keyed[k]]
    BY <1>2
  <2>3. \A k \in Keyed : \A c \in DOMAIN keyed[k] : keyed[k][c] \in Nat
    BY <1>2
  <2>4. QED
    BY <1>3, <2>1, <2>2, <2>3 DEF KeyedOK
<1>6. GlobalOK(global)
  <2>1. Burst["global"] * Period["global"] \in Nat
    BY ConstantsAssumption DEF Kind
  <2>2. QED
    BY <2>1 DEF GlobalOK, Init
<1>7. CallsOK(pc, chat)
  BY DEF CallsOK, Init
<1>8. LogsOK(cells, wire, sent)
  BY <1>1, <1>2 DEF LogsOK
<1>9. CellsPaid(keyed, cells)
  <2>1. ASSUME NEW c \in Chats, NEW w \in 0..Window
        PROVE  Period[per_chat(c)] * cells[c][w] <= Owes(keyed, c) + w
    <3>1. cells[c][w] = 0 /\ Owes(keyed, c) = 0 /\ w \in Nat
      BY <1>1, <1>2, <1>3
    <3>2. QED
      BY <3>1, KindOfChat
  <2>2. QED
    BY <2>1 DEF CellsPaid, Paid
<1>10. SentPaid(global, sent)
  <2>1. Period["global"] \in Nat /\ global = 0
    BY ConstantsAssumption DEF Kind, Init
  <2>2. ASSUME NEW w \in 0..Window
        PROVE  Period["global"] * sent[w] <= global + w
    BY <1>1, <1>2, <2>1
  <2>3. QED
    BY <2>2 DEF SentPaid, Paid
<1>11. WireBacked(pc, chat, cells, wire)
  <2>1. ASSUME NEW c \in Chats, NEW w \in 0..Window
        PROVE  wire[c][w] + Cardinality(Waiting(pc, chat, c))
                 <= cells[c][w] + Cardinality(Senders)
    <3>1. wire[c][w] = 0 /\ cells[c][w] = 0
      BY <1>1, <1>2
    <3>2. QED
      BY <3>1, FewWait
  <2>2. QED
    BY <2>1 DEF WireBacked
<1>12. QED
  BY <1>5, <1>6, <1>7, <1>8, <1>9, <1>10, <1>11 DEF IInv

\* What charging a chat's bucket leaves.
LEMMA ChargedOwes ==
  ASSUME KeyedOK(keyed), NEW c \in Chats, NEW debt \in Nat,
         debt <= Burst[per_chat(c)] * Period[per_chat(c)]
  PROVE  /\ KeyedOK(Charged(c, debt))
         /\ \A d \in Chats :
              Owes(Charged(c, debt), d) = IF d = c THEN debt ELSE Owes(keyed, d)
<1> DEFINE K == Charged(c, debt)
           k == per_chat(c)
<1>1. k \in Keyed
  BY KindOfChat
<1>2. DOMAIN keyed = Keyed
  BY DEF KeyedOK
<1>3. /\ K = [j \in Keyed |-> K[j]]
      /\ K[k] = [d \in DOMAIN keyed[k] \cup {c} |-> IF d = c THEN debt ELSE keyed[k][d]]
      /\ \A j \in Keyed : j # k => K[j] = keyed[j]
  BY <1>1, <1>2 DEF Charged
<1> HIDE DEF K
<1>4. ASSUME NEW d \in Chats
      PROVE  Owes(K, d) = IF d = c THEN debt ELSE Owes(keyed, d)
  <2>1. per_chat(d) \in Keyed
    BY KindOfChat
  <2>2. CASE d = c
    BY <1>3, <2>2 DEF Owes
  <2>3. CASE d # c /\ per_chat(d) = k
    BY <1>3, <2>3 DEF Owes
  <2>4. CASE d # c /\ per_chat(d) # k
    BY <1>3, <2>1, <2>4 DEF Owes
  <2>5. QED
    BY <2>2, <2>3, <2>4
<1>5. \A j \in Keyed : \A d \in DOMAIN K[j] : K[j][d] \in Nat
  BY <1>1, <1>3 DEF KeyedOK
<1>6. \A d \in Chats : Owes(K, d) <= Burst[per_chat(d)] * Period[per_chat(d)]
  <2> TAKE d \in Chats
  <2>1. CASE d = c
    BY <1>4, <2>1
  <2>2. CASE d # c
    BY <1>4, <2>2 DEF KeyedOK
  <2>3. QED
    BY <2>1, <2>2
<1>7. KeyedOK(K)
  BY <1>3, <1>5, <1>6 DEF KeyedOK
<1>8. QED
  BY <1>4, <1>7 DEF K

LEMMA CallStep ==
  ASSUME IInv, NEW s \in Senders, NEW c \in Chats, Call(s, c)
  PROVE  IInv'
<1>1. /\ pc[s] = "idle"
      /\ pc' = [pc EXCEPT ![s] = "chat"]
      /\ chat' = [chat EXCEPT ![s] = c]
      /\ UNCHANGED <<keyed, global, cells, wire, sent>>
  BY DEF Call, Goto, history
<1>2. CallsOK(pc, chat)
  BY DEF IInv
<1>3. CallsOK(pc', chat')
  BY <1>1, <1>2 DEF CallsOK
<1>4. ASSUME NEW d \in Chats
      PROVE  Waiting(pc', chat', d) = Waiting(pc, chat, d)
  BY <1>1, <1>2 DEF CallsOK, Waiting
<1>5. WireBacked(pc', chat', cells, wire)
  BY <1>4 DEF IInv, WireBacked
<1>6. QED
  BY <1>1, <1>3, <1>5 DEF IInv

LEMMA AcquireChatStep ==
  ASSUME IInv, NEW s \in Senders, AcquireChat(s)
  PROVE  IInv'
<1> DEFINE c == chat[s]
           k == per_chat(c)
           debt == Owes(keyed, c) + Period[k]
<1>1. /\ pc[s] = "chat"
      /\ pc' = [pc EXCEPT ![s] = "global"]
      /\ HasCell(Debt(c), k)
      /\ keyed' = Charged(c, Debt(c) + Period[k])
      /\ cells' = [cells EXCEPT ![c] = Counted(@)]
      /\ UNCHANGED <<global, chat, wire, sent>>
  BY DEF AcquireChat, Goto
<1>2. /\ KeyedOK(keyed) /\ CallsOK(pc, chat) /\ LogsOK(cells, wire, sent)
      /\ CellsPaid(keyed, cells) /\ WireBacked(pc, chat, cells, wire)
      /\ GlobalOK(global) /\ SentPaid(global, sent)
  BY DEF IInv
<1>3. c \in Chats
  BY <1>1, <1>2 DEF CallsOK
<1> HIDE DEF c
<1>4. Debt(c) = Owes(keyed, c)
  BY DEF Debt, Owes
<1>5. /\ Owes(keyed, c) \in Nat /\ Period[k] \in Nat
      /\ debt \in Nat /\ debt <= Burst[k] * Period[k]
      /\ keyed' = Charged(c, debt)
  BY <1>1, <1>2, <1>3, <1>4, OwesNat, KindOfChat DEF HasCell
<1>6. /\ KeyedOK(keyed')
      /\ \A d \in Chats :
           Owes(keyed', d) = IF d = c THEN debt ELSE Owes(keyed, d)
  BY <1>2, <1>3, <1>5, ChargedOwes
<1>7. CallsOK(pc', chat')
  BY <1>1, <1>2, <1>3 DEF CallsOK, c
<1>8. /\ cells[c] \in Log
      /\ cells' \in [Chats -> Log]
      /\ cells'[c] = Counted(cells[c])
      /\ \A d \in Chats : d # c => cells'[d] = cells[d]
  BY <1>1, <1>2, <1>3, CountedLog DEF LogsOK
<1>9. LogsOK(cells', wire', sent')
  BY <1>1, <1>2, <1>8 DEF LogsOK
<1>10. CellsPaid(keyed', cells')
  <2>1. ASSUME NEW d \in Chats
        PROVE  Paid(cells'[d], Owes(keyed', d), Period[per_chat(d)])
    <3>1. Paid(cells[d], Owes(keyed, d), Period[per_chat(d)])
      BY <1>2 DEF CellsPaid
    <3>2. CASE d # c
      BY <1>6, <1>8, <3>1, <3>2
    <3>3. CASE d = c
      <4>1. Paid(cells[c], Owes(keyed, c), Period[k])
        BY <3>1, <3>3
      <4>2. Paid(Counted(cells[c]), Owes(keyed, c) + Period[k], Period[k])
        BY <1>5, <1>8, <4>1, CountedPaid
      <4>3. cells'[d] = Counted(cells[c]) /\ Owes(keyed', d) = debt
        BY <1>6, <1>8, <3>3
      <4>4. QED
        BY <3>3, <4>2, <4>3
    <3>4. QED
      BY <3>2, <3>3
  <2>2. QED
    BY <2>1 DEF CellsPaid
<1>11. WireBacked(pc', chat', cells', wire')
  <2>1. ASSUME NEW d \in Chats, NEW w \in 0..Window
        PROVE  wire[d][w] + Cardinality(Waiting(pc', chat, d))
                 <= cells'[d][w] + Cardinality(Senders)
    <3>1. wire[d][w] \in Nat /\ cells[d][w] \in Nat
      BY <1>2 DEF LogsOK, Log
    <3>2. wire[d][w] + Cardinality(Waiting(pc, chat, d))
            <= cells[d][w] + Cardinality(Senders)
      BY <1>2 DEF WireBacked
    <3>3. CASE d # c
      <4>1. Waiting(pc', chat, d) = Waiting(pc, chat, d)
        BY <1>1, <1>2, <3>3 DEF Waiting, CallsOK, c
      <4>2. QED
        BY <1>8, <3>2, <3>3, <4>1
    <3>4. CASE d = c
      <4>1. Waiting(pc', chat, d) = Waiting(pc, chat, d) \cup {s}
        BY <1>1, <1>2, <3>4 DEF Waiting, CallsOK, c
      <4>2. s \notin Waiting(pc, chat, d)
        BY <1>1 DEF Waiting
      <4>3. Cardinality(Waiting(pc', chat, d)) = Cardinality(Waiting(pc, chat, d)) + 1
        <5>1. IsFiniteSet(Waiting(pc, chat, d))
          BY FewWait
        <5>2. Cardinality(Waiting(pc, chat, d) \cup {s}) = Cardinality(Waiting(pc, chat, d)) + 1
          BY <4>2, <5>1, FS_AddElement
        <5>3. QED
          BY <4>1, <5>2
      <4>4. cells'[d][w] = cells[d][w] + 1
        BY <1>8, <3>4, CountedLog
      <4>5. Cardinality(Waiting(pc, chat, d)) \in Nat /\ Cardinality(Senders) \in Nat
        BY FewWait
      <4>6. QED
        BY <3>1, <3>2, <4>3, <4>4, <4>5
    <3>5. QED
      BY <3>3, <3>4
  <2>2. QED
    BY <1>1, <2>1 DEF WireBacked
<1>12. QED
  BY <1>1, <1>2, <1>6, <1>7, <1>9, <1>10, <1>11 DEF IInv

LEMMA AcquireGlobalStep ==
  ASSUME IInv, NEW s \in Senders, AcquireGlobal(s)
  PROVE  IInv'
<1> DEFINE c == chat[s]
<1>1. /\ pc[s] = "global"
      /\ pc' = [pc EXCEPT ![s] = "sending"]
      /\ HasCell(global, "global")
      /\ global' = global + Period["global"]
      /\ wire' = [wire EXCEPT ![c] = Counted(@)]
      /\ sent' = Counted(sent)
      /\ UNCHANGED <<keyed, chat, cells>>
  BY DEF AcquireGlobal, Goto
<1>2. /\ KeyedOK(keyed) /\ CallsOK(pc, chat) /\ LogsOK(cells, wire, sent)
      /\ CellsPaid(keyed, cells) /\ WireBacked(pc, chat, cells, wire)
      /\ GlobalOK(global) /\ SentPaid(global, sent)
  BY DEF IInv
<1>3. c \in Chats
  BY <1>1, <1>2 DEF CallsOK
<1> HIDE DEF c
<1>4. Period["global"] \in Nat /\ global \in Nat
  BY <1>2, ConstantsAssumption DEF GlobalOK, Kind
<1>5. GlobalOK(global')
  BY <1>1, <1>4 DEF GlobalOK, HasCell
<1>6. CallsOK(pc', chat')
  BY <1>1, <1>2 DEF CallsOK
<1>7. /\ wire[c] \in Log /\ sent \in Log
      /\ wire' \in [Chats -> Log] /\ sent' \in Log
      /\ wire'[c] = Counted(wire[c])
      /\ \A d \in Chats : d # c => wire'[d] = wire[d]
  BY <1>1, <1>2, <1>3, CountedLog DEF LogsOK
<1>8. LogsOK(cells', wire', sent')
  BY <1>1, <1>2, <1>7 DEF LogsOK
<1>9. SentPaid(global', sent')
  <2>1. Paid(sent, global, Period["global"])
    BY <1>2 DEF SentPaid
  <2>2. Paid(Counted(sent), global + Period["global"], Period["global"])
    BY <1>4, <1>7, <2>1, CountedPaid
  <2>3. QED
    BY <1>1, <2>2 DEF SentPaid
<1>10. WireBacked(pc', chat', cells', wire')
  <2>1. ASSUME NEW d \in Chats, NEW w \in 0..Window
        PROVE  wire'[d][w] + Cardinality(Waiting(pc', chat, d))
                 <= cells[d][w] + Cardinality(Senders)
    <3>1. wire[d][w] \in Nat /\ cells[d][w] \in Nat
      BY <1>2 DEF LogsOK, Log
    <3>2. wire[d][w] + Cardinality(Waiting(pc, chat, d))
            <= cells[d][w] + Cardinality(Senders)
      BY <1>2 DEF WireBacked
    <3>3. CASE d # c
      <4>1. Waiting(pc', chat, d) = Waiting(pc, chat, d)
        BY <1>1, <1>2, <3>3 DEF Waiting, CallsOK, c
      <4>2. QED
        BY <1>7, <3>2, <3>3, <4>1
    <3>4. CASE d = c
      <4>1. Waiting(pc', chat, d) = Waiting(pc, chat, d) \ {s}
        BY <1>1, <1>2, <3>4 DEF Waiting, CallsOK, c
      <4>2. s \in Waiting(pc, chat, d)
        BY <1>1, <3>4 DEF Waiting, c
      <4>3. Cardinality(Waiting(pc', chat, d)) = Cardinality(Waiting(pc, chat, d)) - 1
        <5>1. IsFiniteSet(Waiting(pc, chat, d))
          BY FewWait
        <5>2. Cardinality(Waiting(pc, chat, d) \ {s}) = Cardinality(Waiting(pc, chat, d)) - 1
          BY <4>2, <5>1, FS_RemoveElement
        <5>3. QED
          BY <4>1, <5>2
      <4>4. wire'[d][w] = wire[d][w] + 1
        BY <1>7, <3>4, CountedLog
      <4>5. Cardinality(Waiting(pc, chat, d)) \in Nat /\ Cardinality(Senders) \in Nat
        BY FewWait
      <4>6. QED
        BY <3>1, <3>2, <4>3, <4>4, <4>5
    <3>5. QED
      BY <3>3, <3>4
  <2>2. QED
    BY <1>1, <2>1 DEF WireBacked
<1>11. QED
  BY <1>1, <1>2, <1>5, <1>6, <1>8, <1>9, <1>10 DEF IInv

LEMMA ReturnStep ==
  ASSUME IInv, NEW s \in Senders, Return(s)
  PROVE  IInv'
<1>1. /\ pc[s] = "sending"
      /\ pc' = [pc EXCEPT ![s] = "idle"]
      /\ chat' = [chat EXCEPT ![s] = None]
      /\ UNCHANGED <<keyed, global, cells, wire, sent>>
  BY DEF Return, Goto, history
<1>2. CallsOK(pc, chat)
  BY DEF IInv
<1>3. CallsOK(pc', chat')
  BY <1>1, <1>2 DEF CallsOK
<1>4. ASSUME NEW d \in Chats
      PROVE  Waiting(pc', chat', d) = Waiting(pc, chat, d)
  BY <1>1, <1>2 DEF CallsOK, Waiting
<1>5. WireBacked(pc', chat', cells, wire)
  BY <1>4 DEF IInv, WireBacked
<1>6. QED
  BY <1>1, <1>3, <1>5 DEF IInv

\* A bucket that owes nothing is as good as a new one.
LEMMA SweepStep ==
  ASSUME IInv, Sweep
  PROVE  IInv'
<1>1. /\ keyed' = [k \in DOMAIN keyed |->
                     [c \in {d \in DOMAIN keyed[k] : keyed[k][d] > 0} |-> keyed[k][c]]]
      /\ UNCHANGED <<global, pc, chat, cells, wire, sent>>
  BY DEF Sweep, history
<1>2. KeyedOK(keyed) /\ CellsPaid(keyed, cells)
  BY DEF IInv
<1>3. DOMAIN keyed = Keyed
  BY <1>2 DEF KeyedOK
<1>4. keyed' = [k \in Keyed |->
                  [c \in {d \in DOMAIN keyed[k] : keyed[k][d] > 0} |-> keyed[k][c]]]
  BY <1>1, <1>3
<1>5. ASSUME NEW c \in Chats
      PROVE  Owes(keyed', c) = Owes(keyed, c)
  <2>1. per_chat(c) \in Keyed
    BY KindOfChat
  <2>2. c \in DOMAIN keyed[per_chat(c)] => keyed[per_chat(c)][c] \in Nat
    BY <1>2, <2>1 DEF KeyedOK
  <2>3. QED
    BY <1>4, <2>1, <2>2 DEF Owes
<1>6. \A k \in Keyed : \A c \in DOMAIN keyed'[k] : keyed'[k][c] \in Nat
  BY <1>2, <1>4 DEF KeyedOK
<1>7. keyed' = [k \in Keyed |-> keyed'[k]]
  BY <1>4
<1>8. KeyedOK(keyed')
  BY <1>2, <1>5, <1>6, <1>7 DEF KeyedOK
<1>9. CellsPaid(keyed', cells)
  BY <1>2, <1>5 DEF CellsPaid
<1>10. QED
  BY <1>1, <1>8, <1>9 DEF IInv

LEMMA TickStep ==
  ASSUME IInv, Tick
  PROVE  IInv'
<1>1. /\ keyed' = [k \in DOMAIN keyed |->
                     [c \in DOMAIN keyed[k] |-> Less(keyed[k][c])]]
      /\ global' = Less(global)
      /\ cells' = [c \in Chats |-> Older(cells[c])]
      /\ wire' = [c \in Chats |-> Older(wire[c])]
      /\ sent' = Older(sent)
      /\ UNCHANGED <<pc, chat>>
  BY DEF Tick
<1>2. /\ KeyedOK(keyed) /\ CallsOK(pc, chat) /\ LogsOK(cells, wire, sent)
      /\ CellsPaid(keyed, cells) /\ WireBacked(pc, chat, cells, wire)
      /\ GlobalOK(global) /\ SentPaid(global, sent)
  BY DEF IInv
<1>3. keyed' = [k \in Keyed |-> [c \in DOMAIN keyed[k] |-> Less(keyed[k][c])]]
  BY <1>1, <1>2 DEF KeyedOK
<1>4. \A n \in Nat : Less(n) \in Nat /\ Less(n) <= n
  BY DEF Less
<1>5. ASSUME NEW c \in Chats
      PROVE  Owes(keyed', c) = Less(Owes(keyed, c))
  <2>1. per_chat(c) \in Keyed
    BY KindOfChat
  <2>2. QED
    BY <1>3, <2>1 DEF Owes, Less
<1>6. KeyedOK(keyed')
  <2>1. keyed' = [k \in Keyed |-> keyed'[k]]
    BY <1>3
  <2>2. \A k \in Keyed : \A c \in DOMAIN keyed'[k] : keyed'[k][c] \in Nat
    BY <1>2, <1>3, <1>4 DEF KeyedOK
  <2>3. ASSUME NEW c \in Chats
        PROVE  Owes(keyed', c) <= Burst[per_chat(c)] * Period[per_chat(c)]
    <3>1. Owes(keyed, c) <= Burst[per_chat(c)] * Period[per_chat(c)]
      BY <1>2 DEF KeyedOK
    <3>2. Burst[per_chat(c)] * Period[per_chat(c)] \in Nat
      BY KindOfChat
    <3>3. Owes(keyed, c) \in Nat
      BY <1>2, OwesNat
    <3>4. QED
      BY <1>4, <1>5, <3>1, <3>2, <3>3
  <2>4. QED
    BY <2>1, <2>2, <2>3 DEF KeyedOK
<1>7. GlobalOK(global')
  <2>1. Burst["global"] * Period["global"] \in Nat
    BY ConstantsAssumption DEF Kind
  <2>2. QED
    BY <1>1, <1>2, <1>4, <2>1 DEF GlobalOK
<1>8. LogsOK(cells', wire', sent')
  BY <1>1, <1>2, OlderLog DEF LogsOK
<1>9. CellsPaid(keyed', cells')
  <2>1. ASSUME NEW c \in Chats
        PROVE  Paid(cells'[c], Owes(keyed', c), Period[per_chat(c)])
    <3>1. Paid(cells[c], Owes(keyed, c), Period[per_chat(c)])
      BY <1>2 DEF CellsPaid
    <3>2. cells[c] \in Log /\ Owes(keyed, c) \in Nat /\ Period[per_chat(c)] \in Nat
      BY <1>2, OwesNat, KindOfChat DEF LogsOK
    <3>3. Paid(Older(cells[c]), Less(Owes(keyed, c)), Period[per_chat(c)])
      BY <3>1, <3>2, OlderPaid
    <3>4. QED
      BY <1>1, <1>5, <3>3
  <2>2. QED
    BY <2>1 DEF CellsPaid
<1>10. SentPaid(global', sent')
  <2>1. Paid(sent, global, Period["global"])
    BY <1>2 DEF SentPaid
  <2>2. sent \in Log /\ global \in Nat /\ Period["global"] \in Nat
    BY <1>2, ConstantsAssumption DEF LogsOK, GlobalOK, Kind
  <2>3. Paid(Older(sent), Less(global), Period["global"])
    BY <2>1, <2>2, OlderPaid
  <2>4. QED
    BY <1>1, <2>3 DEF SentPaid
<1>11. WireBacked(pc, chat, cells', wire')
  <2>1. ASSUME NEW c \in Chats, NEW w \in 0..Window
        PROVE  wire'[c][w] + Cardinality(Waiting(pc, chat, c))
                 <= cells'[c][w] + Cardinality(Senders)
    <3>1. cells[c] \in Log /\ wire[c] \in Log
      BY <1>2 DEF LogsOK
    <3>2. /\ cells'[c][w] = IF w = 0 THEN 0 ELSE cells[c][w - 1]
          /\ wire'[c][w] = IF w = 0 THEN 0 ELSE wire[c][w - 1]
      BY <1>1, <3>1, OlderLog
    <3>3. CASE w = 0
      BY <3>2, <3>3, FewWait
    <3>4. CASE w # 0
      <4>1. w - 1 \in 0..Window
        BY <3>4, ConstantsAssumption
      <4>2. wire[c][w - 1] + Cardinality(Waiting(pc, chat, c))
              <= cells[c][w - 1] + Cardinality(Senders)
        BY <1>2, <4>1 DEF WireBacked
      <4>3. QED
        BY <3>2, <3>4, <4>2
    <3>5. QED
      BY <3>3, <3>4
  <2>2. QED
    BY <2>1 DEF WireBacked
<1>12. QED
  BY <1>1, <1>2, <1>6, <1>7, <1>8, <1>9, <1>10, <1>11 DEF IInv

LEMMA StepKeeps == IInv /\ [Next]_vars => IInv'
<1> SUFFICES ASSUME IInv, [Next]_vars PROVE IInv'
  OBVIOUS
<1>1. CASE Tick
  BY <1>1, TickStep
<1>2. CASE Sweep
  BY <1>2, SweepStep
<1>3. ASSUME NEW s \in Senders, Step(s)
      PROVE  IInv'
  BY <1>3, AcquireChatStep, AcquireGlobalStep, ReturnStep DEF Step
<1>4. ASSUME NEW s \in Senders, NEW c \in Chats, Call(s, c)
      PROVE  IInv'
  BY <1>4, CallStep
<1>5. CASE UNCHANGED vars
  BY <1>5 DEF vars, history, IInv
<1>6. QED
  BY <1>1, <1>2, <1>3, <1>4, <1>5 DEF Next

LEMMA Inductive == Spec => []IInv
<1>1. QED
  BY Initially, StepKeeps, PTL DEF Spec
-----------------------------------------------------------------------------
(* What it gives.                                                          *)

LEMMA IInvPaced == IInv => Paced
<1> SUFFICES ASSUME IInv PROVE Paced
  OBVIOUS
<1> SUFFICES ASSUME NEW w \in 0..Window
             PROVE  /\ sent[w] <= Allowed("global", w)
                    /\ \A c \in Chats :
                         /\ cells[c][w] <= Allowed(per_chat(c), w)
                         /\ wire[c][w] <= Allowed(per_chat(c), w) + Cardinality(Senders)
  BY DEF Paced
<1>1. w \in Nat
  OBVIOUS
<1>2. LogsOK(cells, wire, sent)
  BY DEF IInv
<1>3. sent[w] <= Allowed("global", w)
  <2>1. GlobalOK(global) /\ SentPaid(global, sent)
    BY DEF IInv
  <2>2. Period["global"] \in Nat \ {0} /\ Burst["global"] \in Nat
    BY ConstantsAssumption DEF Kind
  <2>3. sent[w] \in Nat
    BY <1>2 DEF LogsOK, Log
  <2>4. Period["global"] * sent[w] <= global + w
    BY <2>1 DEF SentPaid, Paid
  <2>5. global \in Nat /\ global <= Burst["global"] * Period["global"]
    BY <2>1 DEF GlobalOK
  <2>6. sent[w] <= Burst["global"] + w \div Period["global"]
    BY <1>1, <2>2, <2>3, <2>4, <2>5, PaidIsAllowed
  <2>7. QED
    BY <2>6 DEF Allowed
<1>4. ASSUME NEW c \in Chats
      PROVE  /\ cells[c][w] <= Allowed(per_chat(c), w)
             /\ wire[c][w] <= Allowed(per_chat(c), w) + Cardinality(Senders)
  <2> DEFINE p == Period[per_chat(c)]
             b == Burst[per_chat(c)]
  <2>1. /\ KeyedOK(keyed) /\ CellsPaid(keyed, cells)
        /\ WireBacked(pc, chat, cells, wire)
    BY DEF IInv
  <2>2. p \in Nat \ {0} /\ b \in Nat
    BY KindOfChat
  <2>3. cells[c][w] \in Nat /\ wire[c][w] \in Nat
    BY <1>2 DEF LogsOK, Log
  <2>4. p * cells[c][w] <= Owes(keyed, c) + w
    BY <2>1 DEF CellsPaid, Paid
  <2>5. Owes(keyed, c) \in Nat /\ Owes(keyed, c) <= b * p
    BY <2>1, OwesNat DEF KeyedOK
  <2> HIDE DEF p, b
  <2>6. cells[c][w] <= b + w \div p
    BY <1>1, <2>2, <2>3, <2>4, <2>5, PaidIsAllowed
  <2>7. Allowed(per_chat(c), w) = b + w \div p /\ b + w \div p \in Nat
    BY <1>1, <2>2 DEF Allowed, p, b
  <2>8. wire[c][w] + Cardinality(Waiting(pc, chat, c))
          <= cells[c][w] + Cardinality(Senders)
    BY <2>1 DEF WireBacked
  <2>9. QED
    BY <2>3, <2>6, <2>7, <2>8, FewWait
<1>5. QED
  BY <1>3, <1>4

\* Whatever the bursts, the periods and the number of callers: no chat takes more
\* cells, and no more messages leave the bot, in any stretch of time than a burst and
\* one per period, and the messages of a chat bunch by no more than the callers.
THEOREM PaceIsKept == Spec => []Paced
<1>1. QED
  BY Inductive, IInvPaced, PTL

-----------------------------------------------------------------------------
(* The wrapper implements TwoBuckets.                                      *)

\* The state TwoBuckets sees.
Level == [c \in Chats |-> Owes(keyed, c)]
Turn  == [s \in Senders |-> IF pc[s] = "global" THEN chat[s] ELSE None]

LEMMA LevelIs == Level = [c \in Chats |-> Debt(c)] /\ Level' = [c \in Chats |-> Debt(c)]'
BY DEF Level, Owes, Debt

\* The buckets of the chats, the shared one and the turns stay as they are.
Still == Level' = Level /\ global' = global /\ Turn' = Turn

LEMMA StillStutters == Still => UNCHANGED Buckets!vars
BY LevelIs DEF Still, Turn, Buckets!vars

LEMMA InitRefines == Init => Buckets!Init
<1> SUFFICES ASSUME Init PROVE Buckets!Init
  OBVIOUS
<1>1. ASSUME NEW c \in Chats PROVE Debt(c) = 0
  <2>1. per_chat(c) \in Keyed
    BY KindOfChat
  <2> QED BY <2>1 DEF Init, Debt, Keyed
<1>2. [s \in Senders |-> IF pc[s] = "global" THEN chat[s] ELSE None] = [s \in Senders |-> None]
  BY DEF Init
<1> QED BY <1>1, <1>2 DEF Init, Buckets!Init

LEMMA CallRefines ==
  ASSUME IInv, NEW s \in Senders, NEW c \in Chats, Call(s, c)
  PROVE  Still
<1>1. /\ pc[s] = "idle" /\ pc' = [pc EXCEPT ![s] = "chat"] /\ chat' = [chat EXCEPT ![s] = c]
      /\ keyed' = keyed /\ global' = global
  BY DEF Call, Goto
<1>2. CallsOK(pc, chat)
  BY DEF IInv
<1>3. ASSUME NEW q \in Senders
      PROVE  (IF pc'[q] = "global" THEN chat'[q] ELSE None)
               = (IF pc[q] = "global" THEN chat[q] ELSE None)
  BY <1>1, <1>2 DEF CallsOK
<1> QED BY <1>1, <1>3 DEF Still, Level, Turn

LEMMA ReturnRefines ==
  ASSUME IInv, NEW s \in Senders, Return(s)
  PROVE  Still
<1>1. /\ pc[s] = "sending" /\ pc' = [pc EXCEPT ![s] = "idle"] /\ chat' = [chat EXCEPT ![s] = None]
      /\ keyed' = keyed /\ global' = global
  BY DEF Return, Goto
<1>2. CallsOK(pc, chat)
  BY DEF IInv
<1>3. ASSUME NEW q \in Senders
      PROVE  (IF pc'[q] = "global" THEN chat'[q] ELSE None)
               = (IF pc[q] = "global" THEN chat[q] ELSE None)
  BY <1>1, <1>2 DEF CallsOK
<1> QED BY <1>1, <1>3 DEF Still, Level, Turn

\* What a sweep leaves alone is what every chat owes.
LEMMA SweepOwes ==
  ASSUME IInv, Sweep, NEW c \in Chats
  PROVE  Owes(keyed', c) = Owes(keyed, c)
<1>1. KeyedOK(keyed) /\ per_chat(c) \in Keyed
  BY KindOfChat DEF IInv
<1>2. keyed' = [k \in Keyed |->
                  [d \in {e \in DOMAIN keyed[k] : keyed[k][e] > 0} |-> keyed[k][d]]]
  BY <1>1 DEF Sweep, KeyedOK
<1>3. c \in DOMAIN keyed[per_chat(c)] => keyed[per_chat(c)][c] \in Nat
  BY <1>1 DEF KeyedOK
<1> QED BY <1>1, <1>2, <1>3 DEF Owes

LEMMA SweepRefines ==
  ASSUME IInv, Sweep
  PROVE  Still
<1>1. \A c \in Chats : Owes(keyed', c) = Owes(keyed, c)
  BY SweepOwes
<1>2. UNCHANGED <<global, pc, chat>>
  BY DEF Sweep
<1> QED BY <1>1, <1>2 DEF Still, Level, Turn

LEMMA TickOwes ==
  ASSUME IInv, Tick, NEW c \in Chats
  PROVE  Owes(keyed', c) = Less(Owes(keyed, c))
<1>1. KeyedOK(keyed) /\ per_chat(c) \in Keyed
  BY KindOfChat DEF IInv
<1>2. keyed' = [k \in Keyed |-> [d \in DOMAIN keyed[k] |-> Less(keyed[k][d])]]
  BY <1>1 DEF Tick, KeyedOK
<1> QED BY <1>1, <1>2 DEF Owes, Less

LEMMA TickRefines ==
  ASSUME IInv, Tick
  PROVE  Buckets!Leak
<1>1. Level' = [c \in Chats |-> Less(Level[c])]
  BY TickOwes DEF Level
<1>2. global' = Less(global) /\ Turn' = Turn
  BY DEF Tick, Turn
<1>3. \A n : Buckets!Leaked(n) = Less(n)
  BY DEF Buckets!Leaked, Less
<1>4. Level' = [c \in Chats |-> Debt(c)]'
  BY LevelIs
<1> QED BY <1>1, <1>2, <1>3, <1>4, LevelIs DEF Turn, Buckets!Leak

LEMMA AcquireChatRefines ==
  ASSUME IInv, NEW s \in Senders, AcquireChat(s)
  PROVE  \E c \in Chats : Buckets!TakeTurn(s, c)
<1>1. CallsOK(pc, chat) /\ KeyedOK(keyed) /\ pc[s] = "chat"
  BY DEF IInv, AcquireChat
<1>2. PICK c \in Chats : c = chat[s]
  BY <1>1 DEF CallsOK
<1> DEFINE cost == Period[per_chat(c)]
           room == Burst[per_chat(c)] * Period[per_chat(c)]
<1>3. Debt(c) = Owes(keyed, c) /\ Owes(keyed, c) \in Nat /\ cost \in Nat
  BY <1>1, <1>2, OwesNat, KindOfChat DEF Debt, Owes
<1>4. /\ Owes(keyed, c) + cost <= room
      /\ keyed' = Charged(c, Owes(keyed, c) + cost)
      /\ pc' = [pc EXCEPT ![s] = "global"] /\ chat' = chat /\ global' = global
  BY <1>2, <1>3 DEF AcquireChat, HasCell, Goto
<1>5. Owes(keyed, c) + cost \in Nat
  BY <1>3
<1>6. \A d \in Chats : Owes(keyed', d) = IF d = c THEN Owes(keyed, c) + cost ELSE Owes(keyed, d)
  BY <1>1, <1>2, <1>4, <1>5, ChargedOwes
<1>7. Level' = [Level EXCEPT ![c] = @ + cost]
  BY <1>2, <1>6 DEF Level
<1>8. Turn' = [Turn EXCEPT ![s] = c] /\ Turn[s] = None
  BY <1>1, <1>2, <1>4 DEF Turn, CallsOK
<1>9. Level[c] + cost <= room
  BY <1>2, <1>4 DEF Level
<1>10. Buckets!TakeTurn(s, c)
  BY <1>4, <1>7, <1>8, <1>9, LevelIs DEF Turn, Buckets!TakeTurn
<1> QED BY <1>10

LEMMA AcquireGlobalRefines ==
  ASSUME IInv, NEW s \in Senders, AcquireGlobal(s)
  PROVE  Buckets!GoOut(s)
<1>1. CallsOK(pc, chat) /\ pc[s] = "global"
  BY DEF IInv, AcquireGlobal
<1>2. /\ global + Period["global"] <= Burst["global"] * Period["global"]
      /\ global' = global + Period["global"]
      /\ pc' = [pc EXCEPT ![s] = "sending"] /\ chat' = chat /\ keyed' = keyed
  BY DEF AcquireGlobal, HasCell, Goto
<1>3. Turn' = [Turn EXCEPT ![s] = None] /\ Turn[s] \in Chats
  BY <1>1, <1>2 DEF Turn, CallsOK
<1>4. Level' = Level
  BY <1>2 DEF Level
<1> QED BY <1>2, <1>3, <1>4, LevelIs DEF Turn, Buckets!GoOut

LEMMA NextRefines == IInv /\ [Next]_vars => [Buckets!Next]_(Buckets!vars)
<1> SUFFICES ASSUME IInv, [Next]_vars PROVE Buckets!Next \/ UNCHANGED Buckets!vars
  OBVIOUS
<1>1. CASE Tick
  BY <1>1, TickRefines DEF Buckets!Next
<1>2. CASE Sweep
  BY <1>2, SweepRefines, StillStutters
<1>3. ASSUME NEW s \in Senders, Step(s) PROVE Buckets!Next \/ UNCHANGED Buckets!vars
  <2>1. CASE AcquireChat(s)
    BY <2>1, AcquireChatRefines DEF Buckets!Next
  <2>2. CASE AcquireGlobal(s)
    BY <2>2, AcquireGlobalRefines DEF Buckets!Next
  <2>3. CASE Return(s)
    BY <2>3, ReturnRefines, StillStutters
  <2> QED BY <1>3, <2>1, <2>2, <2>3 DEF Step
<1>4. ASSUME NEW s \in Senders, NEW c \in Chats, Call(s, c)
      PROVE  Buckets!Next \/ UNCHANGED Buckets!vars
  BY <1>4, CallRefines, StillStutters
<1>5. CASE UNCHANGED vars
  <2>1. Still
    BY <1>5 DEF vars, Still, Level, Turn
  <2> QED BY <2>1, StillStutters
<1> QED BY <1>1, <1>2, <1>3, <1>4, <1>5 DEF Next

\* The wrapper of throttle.rs, its maps of buckets swept at any moment by main.rs, is
\* one bucket for each chat and one for all.
THEOREM Refinement == Spec => ImplementsTwoBuckets
<1> QED
  BY InitRefines, NextRefines, Inductive, PTL DEF Spec, ImplementsTwoBuckets, Buckets!Spec
=============================================================================
