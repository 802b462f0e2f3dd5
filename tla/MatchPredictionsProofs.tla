----------------------- MODULE MatchPredictionsProofs -----------------------
(***************************************************************************)
(* The safety properties of POST /api/predictions/matches for any matches, *)
(* picks, requests and bodies, and any number of faults and of reschedulings. *)
(***************************************************************************)
EXTENDS MatchPredictions, TLAPS

-----------------------------------------------------------------------------
(* Bodies, and what one statement does to the table.                       *)

\* An index of a body is a positive number up to its length, and names an input.
LEMMA BodyInput ==
  ASSUME TypeOK, NEW r \in Requests, NEW i \in DOMAIN body[r]
  PROVE  /\ i \in Nat /\ 1 <= i /\ i <= Len(body[r]) /\ Len(body[r]) \in Nat
         /\ DOMAIN body[r] = 1..Len(body[r])
         /\ body[r][i] \in Input /\ body[r][i].match \in Matches
<1>1. body[r] \in Seq(Input)
  BY DEF TypeOK, Types
<1>2. /\ Len(body[r]) \in Nat
      /\ DOMAIN body[r] = 1..Len(body[r])
      /\ body[r][i] \in Input
  BY <1>1
<1> QED BY <1>2 DEF Input

LEMMA UpsertedType ==
  ASSUME NEW old, NEW pick \in Picks, NEW t \in Time
  PROVE  Upserted(old, pick, t) \in Row
BY DEF Upserted, Row

LEMMA WriteRowType ==
  ASSUME TypeOK, NEW r \in Requests, NEW i \in DOMAIN body[r], WriteRow(r, i)
  PROVE  /\ rows' \in [Matches -> Row \cup {None}]
         /\ wrote' \in [Requests -> SUBSET Nat]
         /\ writes' \in [Matches -> Nat]
<1>1. /\ i \in Nat /\ body[r][i].match \in Matches /\ body[r][i].pick \in Picks
      /\ at[r] \in Time
  BY BodyInput DEF Input, TypeOK, Types
<1>2. Upserted(rows[body[r][i].match], body[r][i].pick, at[r]) \in Row
  BY <1>1, UpsertedType
<1>3. rows' \in [Matches -> Row \cup {None}]
  BY <1>1, <1>2 DEF WriteRow, TypeOK, Types
<1>4. wrote' \in [Requests -> SUBSET Nat]
  BY <1>1 DEF WriteRow, TypeOK, Types
<1>5. writes' \in [Matches -> Nat]
  BY <1>1 DEF WriteRow, TypeOK, Types
<1> QED BY <1>3, <1>4, <1>5

LEMMA FaultType ==
  ASSUME TypeOK, Fault
  PROVE  faults' \in 0..MaxFaults
BY ConstantsAssumption DEF TypeOK, Types, Fault

LEMMA MoveType ==
  ASSUME TypeOK, Move
  PROVE  moves' \in 0..MaxMoves
BY ConstantsAssumption DEF TypeOK, Types, Move

LEMMA TimeOrder ==
  \A t \in Time : t \in Nat /\ t <= t /\ t # None
BY ConstantsAssumption DEF Time

LEMMA LaterType ==
  ASSUME NEW t \in Time \cup {None}, NEW u \in Time
  PROVE  /\ Later(t, u) \in Time
         /\ u <= Later(t, u)
         /\ t # None => t <= Later(t, u)
BY ConstantsAssumption DEF Later, Time

LEMMA ReplyType ==
  ASSUME TypeOK, NEW r \in Requests, NEW a \in Answer, Reply(r, a)
  PROVE  /\ pc' \in [Requests -> Stage] /\ answer' \in [Requests -> Answer]
         /\ pc'[r] = "done" /\ answer'[r] = a
         /\ \A s \in Requests \ {r} : pc'[s] = pc[s] /\ answer'[s] = answer[s]
BY DEF TypeOK, Types, Reply, Stage

-----------------------------------------------------------------------------
(* Types.                                                                  *)

LEMMA InitTypes == Init => TypeOK
<1> SUFFICES ASSUME Init PROVE TypeOK
  OBVIOUS
<1>1. 0 \in Time /\ 0 \in 0..MaxMoves /\ 0 \in 0..MaxFaults
  BY ConstantsAssumption DEF Time
<1>2. body \in [Requests -> Seq(Input)]
  <2>1. <<>> \in Seq(Input)
    OBVIOUS
  <2> QED BY <2>1 DEF Init
<1>3. latest \in [kickoff : [Matches -> Time \cup {None}], deadline : Time]
  BY DEF Init
<1>4. Types
  BY <1>1, <1>2, <1>3 DEF Init, Types, Stage, Answer
<1>5. \A r \in Requests : LoopOK(r)
  BY DEF Init, LoopOK
<1> QED BY <1>4, <1>5 DEF TypeOK

\* A reply, a call that fails and a dropped request only close the request.
LEMMA SendTypes ==
  ASSUME TypeOK, NEW r \in Requests, Send(r)
  PROVE  TypeOK'
<1>1. PICK b \in Bodies : body' = [body EXCEPT ![r] = b]
  BY DEF Send
<1>2. body' \in [Requests -> Seq(Input)] /\ \A s \in Requests \ {r} : body'[s] = body[s]
  BY <1>1, ConstantsAssumption DEF TypeOK, Types
<1>3. pc' \in [Requests -> Stage] /\ rivals' \in [Requests -> SUBSET Requests]
  BY DEF Send, TypeOK, Types, Stage
<1>4. Types'
  BY <1>2, <1>3 DEF Send, TypeOK, Types, clock, schedule, table
<1>5. ASSUME NEW s \in Requests PROVE LoopOK(s)'
  BY <1>2 DEF Send, TypeOK, Types, LoopOK, table
<1> QED BY <1>4, <1>5 DEF TypeOK

LEMMA RequireMembershipTypes ==
  ASSUME TypeOK, NEW r \in Requests, RequireMembership(r)
  PROVE  TypeOK'
<1>1. CASE member
  <2>. /\ pc[r] = "member"
       /\ pc' = [pc EXCEPT ![r] = "parent"] /\ at' = [at EXCEPT ![r] = now]
       /\ UNCHANGED <<clock, schedule, table, answer, body, next, adrift, rivals>>
    BY <1>1 DEF RequireMembership
  <2>1. Types'
    BY DEF TypeOK, Types, clock, schedule, table, Stage
  <2>2. ASSUME NEW s \in Requests PROVE LoopOK(s)'
    BY DEF TypeOK, Types, LoopOK, table
  <2> QED BY <2>1, <2>2 DEF TypeOK
<1>2. CASE ~member
  <2>1. Reply(r, "forbidden") /\ UNCHANGED at
    BY <1>2 DEF RequireMembership
  <2>2. Types'
    BY <2>1, ReplyType
       DEF RequireMembership, TypeOK, Types, clock, schedule, table, Answer
  <2>3. ASSUME NEW s \in Requests PROVE LoopOK(s)'
    BY <2>1, ReplyType DEF RequireMembership, TypeOK, LoopOK, table, Answer
  <2> QED BY <2>2, <2>3 DEF TypeOK
<1> QED BY <1>1, <1>2

\* The other steps of the handler and of the faults.
LEMMA ReplyTypes ==
  ASSUME TypeOK, NEW r \in Requests, NEW a \in Answer \ {"none"}, Reply(r, a),
         pc[r] \notin {"idle", "done"}, faults' \in 0..MaxFaults,
         UNCHANGED <<now, moves, schedule, table, body, at, next, adrift, rivals>>
  PROVE  TypeOK'
<1>1. Types'
  BY ReplyType DEF TypeOK, Types, schedule, table
<1>2. ASSUME NEW s \in Requests PROVE LoopOK(s)'
  BY ReplyType DEF TypeOK, LoopOK, table
<1> QED BY <1>1, <1>2 DEF TypeOK

LEMMA FindParentTypes ==
  ASSUME TypeOK, NEW r \in Requests, FindParent(r)
  PROVE  TypeOK'
<1>1. CASE pc' = [pc EXCEPT ![r] = "list"] /\ UNCHANGED answer
  <2>1. Types'
    BY <1>1 DEF FindParent, TypeOK, Types, clock, schedule, table, Stage
  <2>2. ASSUME NEW s \in Requests PROVE LoopOK(s)'
    BY <1>1 DEF FindParent, TypeOK, Types, LoopOK, table
  <2> QED BY <2>1, <2>2 DEF TypeOK
<1>2. CASE Reply(r, "closed")
  BY <1>2, ReplyTypes DEF FindParent, clock, TypeOK, Types, Answer
<1> QED BY <1>1, <1>2 DEF FindParent

LEMMA ListMatchesTypes ==
  ASSUME TypeOK, NEW r \in Requests, ListMatches(r)
  PROVE  TypeOK'
<1>1. ASSUME NEW a \in {"bad", "ok"}, Reply(r, a) PROVE TypeOK'
  BY <1>1, ReplyTypes DEF ListMatches, clock, TypeOK, Types, Answer
<1>2. CASE body[r] # <<>> /\ pc' = [pc EXCEPT ![r] = "write"] /\ UNCHANGED answer
  <2>1. next[r] \in DOMAIN body[r]
    <3>1. next[r] = 1
      BY DEF ListMatches, TypeOK, LoopOK
    <3>2. body[r] \in Seq(Input)
      BY DEF TypeOK, Types
    <3> QED BY <1>2, <3>1, <3>2
  <2>2. Types'
    BY <1>2 DEF ListMatches, TypeOK, Types, clock, schedule, table, Stage
  <2>3. ASSUME NEW s \in Requests PROVE LoopOK(s)'
    BY <1>2, <2>1 DEF ListMatches, TypeOK, Types, LoopOK, table
  <2> QED BY <2>2, <2>3 DEF TypeOK
<1> QED BY <1>1, <1>2 DEF ListMatches

\* A statement of r touches the history of r alone.
LEMMA WriteRowFrame ==
  ASSUME TypeOK, NEW r \in Requests, NEW i, WriteRow(r, i)
  PROVE  \A s \in Requests : wrote'[s] = IF s = r THEN wrote[r] \cup {i} ELSE wrote[s]
BY DEF WriteRow, TypeOK, Types

\* The last statement of a request leaves it where it may be.
LEMMA WriteAndReplyLoop ==
  ASSUME TypeOK, NEW r \in Requests, NEW i, NEW a \in Answer,
         pc[r] = "write", WriteRow(r, i), Reply(r, a), UNCHANGED <<body, next, adrift>>
  PROVE  \A s \in Requests : LoopOK(s)'
<1> TAKE s \in Requests
<1>1. LoopOK(s)
  BY DEF TypeOK
<1>2. CASE s = r
  BY <1>1, <1>2, ReplyType DEF LoopOK
<1>3. CASE s # r
  <2>1. wrote'[s] = wrote[s] /\ pc'[s] = pc[s] /\ answer'[s] = answer[s]
    BY <1>3, ReplyType, WriteRowFrame
  <2> QED BY <1>1, <2>1 DEF LoopOK
<1> QED BY <1>2, <1>3

LEMMA UpsertTypes ==
  ASSUME TypeOK, NEW r \in Requests, Upsert(r)
  PROVE  TypeOK'
<1>1. next[r] \in DOMAIN body[r] /\ pc[r] = "write" /\ WriteRow(r, next[r])
  BY DEF Upsert, TypeOK, LoopOK
<1>2. CASE next[r] = Len(body[r])
  <2>1. Reply(r, "ok") /\ UNCHANGED next
    BY <1>2 DEF Upsert
  <2>2. Types'
    BY <1>1, <2>1, ReplyType, WriteRowType
       DEF Upsert, TypeOK, Types, clock, schedule, Answer
  <2>3. \A s \in Requests : LoopOK(s)'
    BY <1>1, <2>1, WriteAndReplyLoop DEF Upsert, Answer
  <2> QED BY <2>2, <2>3 DEF TypeOK
<1>3. CASE next[r] # Len(body[r])
  <2>1. next' = [next EXCEPT ![r] = @ + 1] /\ UNCHANGED <<pc, answer>>
    BY <1>3 DEF Upsert
  <2>2. next[r] + 1 \in DOMAIN body[r] /\ next[r] + 1 \in Nat
    BY <1>1, <1>3, BodyInput
  <2>3. Types'
    BY <1>1, <2>1, <2>2, WriteRowType DEF Upsert, TypeOK, Types, clock, schedule
  <2>4. ASSUME NEW s \in Requests PROVE LoopOK(s)'
    <3>1. LoopOK(s) /\ wrote'[s] = IF s = r THEN wrote[r] \cup {next[r]} ELSE wrote[s]
      BY <1>1, WriteRowFrame DEF Upsert, TypeOK
    <3>2. /\ next'[s] = IF s = r THEN next[r] + 1 ELSE next[s]
          /\ UNCHANGED <<pc, answer, body, adrift>>
      BY <1>1, <2>1 DEF Upsert, TypeOK, Types
    <3> QED BY <1>1, <2>2, <3>1, <3>2 DEF Upsert, LoopOK
  <2> QED BY <2>3, <2>4 DEF TypeOK
<1> QED BY <1>2, <1>3

LEMMA CallFailsTypes ==
  ASSUME TypeOK, NEW r \in Requests, CallFails(r)
  PROVE  TypeOK'
<1>1. faults' \in 0..MaxFaults
  BY FaultType DEF CallFails
<1>2. CASE UNCHANGED table
  BY <1>1, <1>2, ReplyTypes DEF CallFails, Answer
<1>3. CASE pc[r] = "write" /\ WriteRow(r, next[r])
  <2>1. next[r] \in DOMAIN body[r]
    BY <1>3 DEF TypeOK, LoopOK
  <2>2. Types'
    BY <1>1, <1>3, <2>1, ReplyType, WriteRowType
       DEF CallFails, TypeOK, Types, schedule, Answer
  <2>3. \A s \in Requests : LoopOK(s)'
    BY <1>3, WriteAndReplyLoop DEF CallFails, Answer
  <2> QED BY <2>2, <2>3 DEF TypeOK
<1> QED BY <1>2, <1>3 DEF CallFails

LEMMA DropTypes ==
  ASSUME TypeOK, NEW r \in Requests, Drop(r)
  PROVE  TypeOK'
<1>1. faults' \in 0..MaxFaults /\ Reply(r, "none")
  BY FaultType DEF Drop
<1>2. \/ adrift' = adrift
      \/ pc[r] = "write" /\ adrift' = [adrift EXCEPT ![r] = next[r]]
  BY DEF Drop
<1>3. Types'
  <2>1. adrift' \in [Requests -> Nat \cup {None}]
    BY <1>2 DEF TypeOK, Types
  <2>2. /\ UNCHANGED <<now, moves, schedule, table, body, at, next, rivals>>
        /\ pc' \in [Requests -> Stage] /\ answer' \in [Requests -> Answer]
    BY <1>1, ReplyType DEF Drop, Answer
  <2> QED BY <1>1, <2>1, <2>2 DEF TypeOK, Types, schedule, table
<1>4. ASSUME NEW s \in Requests PROVE LoopOK(s)'
  <2>1. LoopOK(s) /\ UNCHANGED <<table, body, next>> /\ pc[r] \notin {"idle", "done"}
    BY DEF Drop, TypeOK
  <2>2. CASE s = r
    BY <1>1, <1>2, <2>1, <2>2, ReplyType DEF TypeOK, Types, LoopOK, table, Answer
  <2>3. CASE s # r
    <3>1. pc'[s] = pc[s] /\ answer'[s] = answer[s] /\ adrift'[s] = adrift[s]
      BY <1>1, <1>2, <2>3, ReplyType DEF TypeOK, Types, Answer
    <3> QED BY <2>1, <3>1 DEF LoopOK, table
  <2> QED BY <2>2, <2>3
<1> QED BY <1>3, <1>4 DEF TypeOK

LEMMA LandTypes ==
  ASSUME TypeOK, NEW r \in Requests, Land(r)
  PROVE  TypeOK'
<1>1. adrift[r] \in DOMAIN body[r] /\ WriteRow(r, adrift[r]) /\ pc[r] = "done"
  BY DEF Land, TypeOK, LoopOK
<1>2. Types'
  BY <1>1, WriteRowType DEF Land, TypeOK, Types, clock, schedule, request
<1>3. ASSUME NEW s \in Requests PROVE LoopOK(s)'
  <2>1. LoopOK(s) /\ wrote'[s] = IF s = r THEN wrote[r] \cup {adrift[r]} ELSE wrote[s]
    BY <1>1, WriteRowFrame DEF TypeOK
  <2>2. /\ adrift'[s] = IF s = r THEN None ELSE adrift[s]
        /\ pc' = pc /\ next' = next /\ body' = body /\ answer' = answer
    BY DEF Land, TypeOK, Types, request
  <2> QED BY <1>1, <2>1, <2>2 DEF LoopOK
<1> QED BY <1>2, <1>3 DEF TypeOK

\* The clock, the membership, the ingester and the bootstrap.
LEMMA ScheduleTypes ==
  ASSUME TypeOK, Tick \/ Join \/ Reseed \/ \E m \in Matches : Ingest(m)
  PROVE  TypeOK'
<1>1. UNCHANGED <<table, request, adrift>>
  BY DEF Tick, Join, Reseed, Ingest
<1>2. ASSUME NEW s \in Requests PROVE LoopOK(s)'
  BY <1>1 DEF TypeOK, LoopOK, table, request
<1>3. CASE Tick
  <2>1. now' \in Time
    BY <1>3, ConstantsAssumption DEF Tick, TypeOK, Types, Time
  <2> QED BY <1>2, <1>3, <2>1 DEF Tick, TypeOK, Types, schedule, table, request
<1>4. CASE Join
  BY <1>2, <1>4 DEF Join, TypeOK, Types, clock, table, request
<1>5. CASE Reseed
  <2>1. PICK t \in Time : /\ parent' = [open |-> TRUE, deadline |-> t]
                          /\ latest' = [latest EXCEPT !.deadline = Later(@, t)]
    BY <1>5 DEF Reseed
  <2>2. parent' \in [open : BOOLEAN, deadline : Time]
    BY <2>1
  <2>3. latest' \in [kickoff : [Matches -> Time \cup {None}], deadline : Time]
    BY <2>1, LaterType DEF TypeOK, Types
  <2>4. moves' \in 0..MaxMoves
    BY <1>5, MoveType DEF Reseed
  <2> QED BY <1>2, <1>5, <2>2, <2>3, <2>4 DEF Reseed, TypeOK, Types, table, request
<1>6. ASSUME NEW m \in Matches, Ingest(m) PROVE TypeOK'
  <2>1. PICK t \in Time : /\ kickoff' = [kickoff EXCEPT ![m] = t]
                          /\ latest' = [latest EXCEPT !.kickoff[m] = Later(@, t)]
    BY <1>6 DEF Ingest
  <2>2. kickoff' \in [Matches -> Time \cup {None}]
    BY <2>1 DEF TypeOK, Types
  <2>3. latest' \in [kickoff : [Matches -> Time \cup {None}], deadline : Time]
    BY <2>1, LaterType DEF TypeOK, Types
  <2>4. moves' \in 0..MaxMoves
    BY <1>6, MoveType DEF Ingest
  <2> QED BY <1>2, <1>6, <2>2, <2>3, <2>4 DEF Ingest, TypeOK, Types, table, request
<1> QED BY <1>3, <1>4, <1>5, <1>6

\* A step of the handler, of the schedule or of a fault keeps the types.
LEMMA NextTypes == TypeOK /\ [Next]_vars => TypeOK'
<1> SUFFICES ASSUME TypeOK, [Next]_vars PROVE TypeOK'
  OBVIOUS
<1>1. ASSUME NEW r \in Requests, UpsertRefused(r) PROVE TypeOK'
  BY <1>1, ReplyTypes DEF UpsertRefused, clock, TypeOK, Types, Answer
<1>2. CASE UNCHANGED vars
  BY <1>2 DEF vars, TypeOK, Types, LoopOK
<1> QED
  BY <1>1, <1>2, SendTypes, RequireMembershipTypes, FindParentTypes, ListMatchesTypes,
     UpsertTypes, CallFailsTypes, DropTypes, LandTypes, ScheduleTypes
  DEF Next, Handle

\* The type invariant holds for any instance.
THEOREM TypesHold == Spec => []TypeOK
<1>1. Init => TypeOK
  BY InitTypes
<1>2. TypeOK /\ [Next]_vars => TypeOK'
  BY NextTypes
<1> QED BY <1>1, <1>2, PTL DEF Spec

-----------------------------------------------------------------------------
(* Which steps touch what.                                                 *)

\* A row is written by the upsert in flight of a request or by a statement
\* adrift; the bodies and the clocks of the requests are left alone.
LEMMA TableSteps ==
  ASSUME TypeOK, [Next]_vars
  PROVE  \/ UNCHANGED table
         \/ \E r \in Requests : \E i \in DOMAIN body[r] :
              /\ WriteRow(r, i)
              /\ pc[r] = "write" \/ adrift[r] # None
              /\ UNCHANGED <<body, at, rivals>>
<1>1. ASSUME NEW r \in Requests, Upsert(r) \/ CallFails(r)
      PROVE  \/ UNCHANGED table
             \/ \E i \in DOMAIN body[r] :
                  WriteRow(r, i) /\ pc[r] = "write" /\ UNCHANGED <<body, at, rivals>>
  BY <1>1 DEF Upsert, CallFails, TypeOK, LoopOK
<1>2. ASSUME NEW r \in Requests, Land(r)
      PROVE  \E i \in DOMAIN body[r] :
                  WriteRow(r, i) /\ adrift[r] # None /\ UNCHANGED <<body, at, rivals>>
  BY <1>2 DEF Land, TypeOK, LoopOK, request
<1>3. ASSUME NEW r \in Requests,
             \/ Send(r) \/ RequireMembership(r) \/ FindParent(r) \/ ListMatches(r)
             \/ UpsertRefused(r) \/ Drop(r)
      PROVE  UNCHANGED table
  BY <1>3 DEF Send, RequireMembership, FindParent, ListMatches, UpsertRefused, Drop
<1>4. CASE Tick \/ Join \/ Reseed \/ \E m \in Matches : Ingest(m)
  BY <1>4 DEF Tick, Join, Reseed, Ingest
<1>5. CASE UNCHANGED vars
  BY <1>5 DEF vars, table
<1> QED BY <1>1, <1>2, <1>3, <1>4, <1>5 DEF Next, Handle

\* A step of request r leaves every other request as it is.
LEMMA OthersRest ==
  ASSUME TypeOK, NEW r \in Requests,
         Send(r) \/ Handle(r) \/ CallFails(r) \/ Drop(r) \/ Land(r),
         NEW s \in Requests \ {r}
  PROVE  /\ pc'[s] = pc[s] /\ body'[s] = body[s] /\ answer'[s] = answer[s]
         /\ at'[s] = at[s] /\ next'[s] = next[s] /\ adrift'[s] = adrift[s]
         /\ wrote'[s] = wrote[s]
<1> USE DEF TypeOK, Types
<1>1. wrote'[s] = wrote[s]
  <2>1. CASE UNCHANGED table
    BY <2>1 DEF table
  <2>2. ASSUME NEW i, WriteRow(r, i) PROVE wrote'[s] = wrote[s]
    BY <2>2, WriteRowFrame
  <2> QED
    BY <2>1, <2>2 DEF Handle, Send, RequireMembership, FindParent, ListMatches,
       Upsert, UpsertRefused, CallFails, Drop, Land
<1>2. CASE Send(r)
  <2>1. PICK b \in Bodies : body' = [body EXCEPT ![r] = b]
    BY <1>2 DEF Send
  <2> QED BY <1>1, <1>2, <2>1 DEF Send
<1>3. CASE RequireMembership(r)
  <2>1. at' = at \/ at' = [at EXCEPT ![r] = now]
    BY <1>3 DEF RequireMembership
  <2>2. pc'[s] = pc[s] /\ answer'[s] = answer[s]
    BY <1>3 DEF RequireMembership, Reply
  <2>3. UNCHANGED <<body, next, adrift>>
    BY <1>3 DEF RequireMembership
  <2> QED BY <1>1, <2>1, <2>2, <2>3
<1>4. CASE FindParent(r) \/ ListMatches(r) \/ UpsertRefused(r)
  BY <1>1, <1>4 DEF FindParent, ListMatches, UpsertRefused, Reply
<1>5. CASE Upsert(r)
  <2>1. pc'[s] = pc[s] /\ answer'[s] = answer[s] /\ next'[s] = next[s]
    BY <1>5 DEF Upsert, Reply
  <2> QED BY <1>1, <1>5, <2>1 DEF Upsert
<1>6. CASE CallFails(r)
  <2>1. Reply(r, "error") /\ UNCHANGED <<body, at, next, adrift>>
    BY <1>6 DEF CallFails
  <2> QED BY <1>1, <2>1 DEF Reply
<1>7. CASE Drop(r)
  <2>1. Reply(r, "none") /\ UNCHANGED <<body, at, next>>
    BY <1>7 DEF Drop
  <2>2. adrift'[s] = adrift[s]
    BY <1>7 DEF Drop
  <2> QED BY <1>1, <2>1, <2>2 DEF Reply
<1>8. CASE Land(r)
  BY <1>1, <1>8 DEF Land, request
<1> QED BY <1>2, <1>3, <1>4, <1>5, <1>6, <1>7, <1>8 DEF Handle

\* The best deadline and the best kickoffs only get better.
LEMMA LatestGrows ==
  ASSUME TypeOK, [Next]_vars
  PROVE  /\ latest.deadline <= latest'.deadline
         /\ \A m \in Matches : latest.kickoff[m] # None =>
              /\ latest'.kickoff[m] # None
              /\ latest.kickoff[m] <= latest'.kickoff[m]
<1>1. /\ latest.deadline \in Time
      /\ \A m \in Matches : latest.kickoff[m] \in Time \cup {None}
  BY DEF TypeOK, Types
<1>2. CASE latest' = latest
  BY <1>1, <1>2, ConstantsAssumption DEF Time
<1>3. CASE Reseed
  <2>1. PICK t \in Time : latest' = [latest EXCEPT !.deadline = Later(@, t)]
    BY <1>3 DEF Reseed
  <2>2. /\ latest'.deadline = Later(latest.deadline, t)
        /\ latest'.kickoff = latest.kickoff
    BY <2>1 DEF TypeOK, Types
  <2>3. latest.deadline <= Later(latest.deadline, t)
    BY <1>1, LaterType, TimeOrder
  <2>4. \A m \in Matches : latest.kickoff[m] # None => latest.kickoff[m] <= latest.kickoff[m]
    BY <1>1, TimeOrder
  <2> QED BY <2>2, <2>3, <2>4
<1>4. ASSUME NEW n \in Matches, Ingest(n)
      PROVE  /\ latest'.deadline = latest.deadline
             /\ \A m \in Matches : latest.kickoff[m] # None =>
                  /\ latest'.kickoff[m] # None
                  /\ latest.kickoff[m] <= latest'.kickoff[m]
  <2>1. PICK t \in Time : latest' = [latest EXCEPT !.kickoff[n] = Later(@, t)]
    BY <1>4 DEF Ingest
  <2>2. /\ latest'.deadline = latest.deadline
        /\ latest'.kickoff = [latest.kickoff EXCEPT ![n] = Later(@, t)]
    BY <2>1 DEF TypeOK, Types
  <2>3. \A m \in Matches :
          latest'.kickoff[m] = IF m = n THEN Later(latest.kickoff[n], t) ELSE latest.kickoff[m]
    BY <2>2 DEF TypeOK, Types
  <2>4. ASSUME NEW m \in Matches, latest.kickoff[m] # None
        PROVE  latest'.kickoff[m] # None /\ latest.kickoff[m] <= latest'.kickoff[m]
    <3>1. CASE m = n
      <4>1. latest'.kickoff[n] = Later(latest.kickoff[n], t)
        BY <2>3
      <4>2. Later(latest.kickoff[n], t) \in Time /\ latest.kickoff[n] <= Later(latest.kickoff[n], t)
        BY <1>1, <2>4, <3>1, LaterType
      <4> QED BY <3>1, <4>1, <4>2, TimeOrder
    <3>2. CASE m # n
      <4>1. latest'.kickoff[m] = latest.kickoff[m] /\ latest.kickoff[m] \in Time
        BY <1>1, <2>3, <2>4, <3>2
      <4> QED BY <4>1, TimeOrder
    <3> QED BY <3>1, <3>2
  <2> QED BY <2>2, <2>4
<1>5. CASE UNCHANGED vars
  BY <1>2, <1>5 DEF vars
<1>6. ASSUME NEW r \in Requests,
             Send(r) \/ Handle(r) \/ CallFails(r) \/ Drop(r) \/ Land(r)
      PROVE  latest' = latest
  BY <1>6 DEF Handle, Send, RequireMembership, FindParent, ListMatches,
     Upsert, UpsertRefused, CallFails, Drop, Land, schedule
<1>7. CASE Tick \/ Join
  BY <1>2, <1>7 DEF Tick, Join, schedule
<1> QED BY <1>1, <1>2, <1>3, <1>4, <1>5, <1>6, <1>7, ConstantsAssumption DEF Next, Time

\* How a request gets past its gates: once sent it keeps its body, once past the
\* membership its clock; it lists the fixtures only before the deadline, and
\* writes only what it has validated.
LEMMA GateSteps ==
  ASSUME TypeOK, [Next]_vars, NEW r \in Requests
  PROVE  /\ pc[r] # "idle" => body'[r] = body[r] /\ pc'[r] # "idle"
         /\ pc[r] \notin {"idle", "member"} => at'[r] = at[r]
         /\ pc'[r] = "list" =>
              pc[r] = "list" \/ (pc[r] = "parent" /\ at[r] < parent.deadline)
         /\ pc'[r] = "write" \/ adrift'[r] # None =>
              pc[r] = "write" \/ adrift[r] # None \/ (pc[r] = "list" /\ Valid(r))
<1>. DEFINE Goal ==
         /\ pc[r] # "idle" => body'[r] = body[r] /\ pc'[r] # "idle"
         /\ pc[r] \notin {"idle", "member"} => at'[r] = at[r]
         /\ pc'[r] = "list" =>
              pc[r] = "list" \/ (pc[r] = "parent" /\ at[r] < parent.deadline)
         /\ pc'[r] = "write" \/ adrift'[r] # None =>
              pc[r] = "write" \/ adrift[r] # None \/ (pc[r] = "list" /\ Valid(r))
<1>0. /\ pc \in [Requests -> Stage] /\ at \in [Requests -> Time] /\ LoopOK(r)
      /\ adrift \in [Requests -> Nat \cup {None}]
      /\ parent.deadline \in Nat /\ at[r] \in Nat
  BY ConstantsAssumption DEF TypeOK, Types, Time
<1>1. ASSUME UNCHANGED <<pc, body, at, adrift>> PROVE Goal
  BY <1>1
<1>2. ASSUME NEW s \in Requests \ {r},
             Send(s) \/ Handle(s) \/ CallFails(s) \/ Drop(s) \/ Land(s)
      PROVE  Goal
  BY <1>2, OthersRest
<1>3. CASE Send(r)
  BY <1>0, <1>3 DEF Send, LoopOK
<1>4. CASE RequireMembership(r)
  <2>1. /\ pc[r] = "member" /\ UNCHANGED <<body, adrift>>
        /\ pc'[r] \in {"parent", "done"}
    BY <1>0, <1>4 DEF RequireMembership, Reply
  <2> QED BY <1>0, <2>1 DEF LoopOK
<1>5. CASE FindParent(r)
  <2>1. /\ pc[r] = "parent" /\ UNCHANGED <<body, at, adrift>>
        /\ (pc'[r] = "list" /\ parent.deadline > at[r]) \/ pc'[r] = "done"
    BY <1>0, <1>5 DEF FindParent, Reply
  <2> QED BY <1>0, <2>1 DEF LoopOK
<1>6. CASE ListMatches(r)
  <2>1. /\ pc[r] = "list" /\ UNCHANGED <<body, at, adrift>>
        /\ (pc'[r] = "write" /\ Valid(r)) \/ pc'[r] = "done"
    BY <1>0, <1>6 DEF ListMatches, Reply
  <2> QED BY <1>0, <2>1 DEF LoopOK
<1>7. CASE Upsert(r) \/ UpsertRefused(r)
  <2>1. /\ pc[r] = "write" /\ UNCHANGED <<body, at, adrift>>
        /\ pc'[r] \in {"write", "done"}
    BY <1>0, <1>7 DEF Upsert, UpsertRefused, Reply
  <2> QED BY <1>0, <2>1
<1>8. CASE CallFails(r)
  <2>1. /\ UNCHANGED <<body, at, adrift>> /\ pc'[r] = "done"
    BY <1>0, <1>8 DEF CallFails, Reply
  <2> QED BY <1>0, <2>1
<1>9. CASE Drop(r)
  <2>1. /\ UNCHANGED <<body, at>> /\ pc'[r] = "done"
        /\ adrift' = adrift \/ pc[r] = "write"
    BY <1>0, <1>9 DEF Drop, Reply
  <2> QED BY <1>0, <2>1
<1>10. CASE Land(r)
  BY <1>0, <1>10 DEF Land, request
<1>11. CASE Tick \/ Join \/ Reseed \/ \E m \in Matches : Ingest(m)
  BY <1>1, <1>11 DEF Tick, Join, Reseed, Ingest, request
<1>12. CASE UNCHANGED vars
  BY <1>1, <1>12 DEF vars
<1> QED
  BY <1>2, <1>3, <1>4, <1>5, <1>6, <1>7, <1>8, <1>9, <1>10, <1>11, <1>12
  DEF Next, Handle

\* A batch in time stays in time.
LEMMA TimelyKept ==
  ASSUME TypeOK, [Next]_vars, NEW r \in Requests, Timely(r),
         body'[r] = body[r], at'[r] = at[r]
  PROVE  Timely(r)'
<1>1. /\ at[r] \in Nat /\ latest.deadline \in Nat /\ latest'.deadline \in Nat
      /\ \A m \in Matches : latest.kickoff[m] # None => latest.kickoff[m] \in Nat
      /\ \A m \in Matches : latest'.kickoff[m] # None => latest'.kickoff[m] \in Nat
  BY NextTypes, TimeOrder DEF TypeOK, Types
<1>2. at'[r] < latest'.deadline
  BY <1>1, LatestGrows DEF Timely
<1>3. ASSUME NEW i \in DOMAIN body'[r]
      PROVE  /\ body'[r][i].fit # "refused"
             /\ latest'.kickoff[body'[r][i].match] # None
             /\ at'[r] < latest'.kickoff[body'[r][i].match]
  <2>1. body[r][i].match \in Matches /\ i \in DOMAIN body[r]
    BY <1>3, BodyInput
  <2> QED BY <1>1, <2>1, LatestGrows DEF Timely
<1> QED BY <1>2, <1>3 DEF Timely

-----------------------------------------------------------------------------
(* The invariant.                                                          *)

LEMMA GatesKept ==
  ASSUME TypeOK, GatesOK, [Next]_vars
  PROVE  GatesOK'
<1>1. parent'.deadline <= latest'.deadline
  <2>1. CASE Reseed
    <3>1. PICK t \in Time : /\ parent' = [open |-> TRUE, deadline |-> t]
                            /\ latest' = [latest EXCEPT !.deadline = Later(@, t)]
      BY <2>1 DEF Reseed
    <3>2. latest'.deadline = Later(latest.deadline, t) /\ latest.deadline \in Time
      BY <3>1 DEF TypeOK, Types
    <3> QED BY <3>1, <3>2, LaterType
  <2>2. ASSUME UNCHANGED parent PROVE parent'.deadline <= latest'.deadline
    <3>1. /\ parent.deadline \in Nat /\ latest.deadline \in Nat /\ latest'.deadline \in Nat
      BY NextTypes, TimeOrder DEF TypeOK, Types
    <3> QED BY <2>2, <3>1, LatestGrows DEF GatesOK
  <2>3. CASE ~Reseed
    BY <2>2, <2>3 DEF Next, vars, Handle, Send, RequireMembership, FindParent, ListMatches,
       Upsert, UpsertRefused, CallFails, Drop, Land, Tick, Join, Ingest, schedule
  <2> QED BY <2>1, <2>3
<1>2. ASSUME NEW m \in Matches, kickoff'[m] # None
      PROVE  latest'.kickoff[m] # None /\ kickoff'[m] <= latest'.kickoff[m]
  <2>1. ASSUME NEW n \in Matches, Ingest(n)
        PROVE  latest'.kickoff[m] # None /\ kickoff'[m] <= latest'.kickoff[m]
    <3>1. PICK t \in Time : /\ kickoff' = [kickoff EXCEPT ![n] = t]
                            /\ latest' = [latest EXCEPT !.kickoff[n] = Later(@, t)]
      BY <2>1 DEF Ingest
    <3>2. /\ kickoff'[m] = IF m = n THEN t ELSE kickoff[m]
          /\ latest'.kickoff[m] = IF m = n THEN Later(latest.kickoff[m], t)
                                  ELSE latest.kickoff[m]
          /\ latest.kickoff[m] \in Time \cup {None}
      BY <3>1 DEF TypeOK, Types
    <3> QED BY <1>2, <3>2, LaterType, TimeOrder DEF GatesOK
  <2>2. ASSUME UNCHANGED kickoff
        PROVE  latest'.kickoff[m] # None /\ kickoff'[m] <= latest'.kickoff[m]
    <3>1. /\ kickoff[m] # None /\ latest.kickoff[m] # None /\ latest'.kickoff[m] # None
          /\ kickoff[m] <= latest.kickoff[m] /\ latest.kickoff[m] <= latest'.kickoff[m]
      BY <1>2, <2>2, LatestGrows DEF GatesOK
    <3>2. /\ kickoff[m] \in Nat /\ latest.kickoff[m] \in Nat /\ latest'.kickoff[m] \in Nat
      BY <3>1, NextTypes, TimeOrder DEF TypeOK, Types
    <3> QED BY <2>2, <3>1, <3>2
  <2> QED
    BY <2>1, <2>2 DEF Next, vars, Handle, Send, RequireMembership, FindParent, ListMatches,
       Upsert, UpsertRefused, CallFails, Drop, Land, Tick, Join, Reseed, schedule
<1>3. ASSUME NEW r \in Requests, pc'[r] = "list" PROVE at'[r] < latest'.deadline
  <2>1. /\ at'[r] = at[r] /\ latest.deadline <= latest'.deadline
        /\ at[r] < latest.deadline \/ (at[r] < parent.deadline
                                        /\ parent.deadline <= latest.deadline)
    BY <1>3, GateSteps, LatestGrows DEF GatesOK
  <2>2. /\ at[r] \in Nat /\ parent.deadline \in Nat
        /\ latest.deadline \in Nat /\ latest'.deadline \in Nat
    BY NextTypes, TimeOrder DEF TypeOK, Types
  <2> QED BY <2>1, <2>2
<1>4. ASSUME NEW r \in Requests, pc'[r] = "write" \/ adrift'[r] # None
      PROVE  Timely(r)'
  <2>1. Timely(r)
    <3>1. CASE pc[r] = "write" \/ adrift[r] # None
      BY <3>1 DEF GatesOK
    <3>2. CASE pc[r] = "list" /\ Valid(r)
      <4>1. at[r] < latest.deadline
        BY <3>2 DEF GatesOK
      <4>2. ASSUME NEW i \in DOMAIN body[r]
            PROVE  /\ body[r][i].fit # "refused"
                   /\ latest.kickoff[body[r][i].match] # None
                   /\ at[r] < latest.kickoff[body[r][i].match]
        <5>1. body[r][i].match \in Matches
          BY BodyInput
        <5>2. /\ body[r][i].fit # "refused"
              /\ kickoff[body[r][i].match] # None
              /\ at[r] < kickoff[body[r][i].match]
          BY <3>2, TimeOrder, <5>1 DEF Valid, TypeOK, Types
        <5>3. /\ latest.kickoff[body[r][i].match] # None
              /\ kickoff[body[r][i].match] <= latest.kickoff[body[r][i].match]
          BY <5>1, <5>2 DEF GatesOK
        <5>4. /\ at[r] \in Nat /\ kickoff[body[r][i].match] \in Nat
              /\ latest.kickoff[body[r][i].match] \in Nat
          BY <5>1, <5>2, <5>3, TimeOrder DEF TypeOK, Types
        <5> QED BY <5>2, <5>3, <5>4
      <4> QED BY <4>1, <4>2 DEF Timely
    <3> QED BY <1>4, <3>1, <3>2, GateSteps
  <2>2. pc[r] \notin {"idle", "member"}
    BY <1>4, GateSteps DEF TypeOK, LoopOK
  <2> QED BY <2>1, <2>2, GateSteps, TimelyKept
<1> QED BY <1>1, <1>2, <1>3, <1>4 DEF GatesOK

LEMMA OnlyTimelyKept ==
  ASSUME TypeOK, GatesOK, OnlyTimelyBatches, [Next]_vars
  PROVE  OnlyTimelyBatches'
<1> SUFFICES ASSUME NEW r \in Requests, wrote'[r] # {} PROVE Timely(r)'
  BY DEF OnlyTimelyBatches
<1>1. wrote[r] # {} \/ pc[r] = "write" \/ adrift[r] # None
  <2>1. CASE UNCHANGED table
    BY <2>1 DEF table
  <2>2. ASSUME NEW s \in Requests, NEW i, WriteRow(s, i), pc[s] = "write" \/ adrift[s] # None
        PROVE  wrote[r] # {} \/ pc[r] = "write" \/ adrift[r] # None
    BY <2>2, WriteRowFrame
  <2> QED BY <2>1, <2>2, TableSteps
<1>2. Timely(r)
  BY <1>1 DEF OnlyTimelyBatches, GatesOK
<1>3. pc[r] \notin {"idle", "member"}
  BY <1>1 DEF TypeOK, LoopOK
<1> QED BY <1>2, <1>3, GateSteps, TimelyKept

LEMMA ChangedKept ==
  ASSUME TypeOK, ChangedIffRewritten, [Next]_vars
  PROVE  ChangedIffRewritten'
<1>1. CASE UNCHANGED table
  BY <1>1 DEF table, ChangedIffRewritten
<1>2. ASSUME NEW r \in Requests, NEW i \in DOMAIN body[r], WriteRow(r, i)
      PROVE  ChangedIffRewritten'
  <2> DEFINE n == body[r][i].match
             row == Upserted(rows[n], body[r][i].pick, at[r])
  <2>1. n \in Matches /\ row \in Row
    BY BodyInput, UpsertedType DEF Input, TypeOK, Types
  <2>2. row # None /\ (row.changed <=> rows[n] # None)
    BY <2>1, ConstantsAssumption DEF Upserted
  <2>3. rows' = [rows EXCEPT ![n] = row] /\ writes' = [writes EXCEPT ![n] = @ + 1]
    BY <1>2 DEF WriteRow
  <2>4. ASSUME NEW m \in Matches
        PROVE  /\ rows'[m] = None <=> writes'[m] = 0
               /\ rows'[m] # None => (rows'[m].changed <=> writes'[m] > 1)
    <3>1. /\ rows[m] = None <=> writes[m] = 0
          /\ rows[m] # None => (rows[m].changed <=> writes[m] > 1)
          /\ writes[m] \in Nat
      BY DEF ChangedIffRewritten, TypeOK, Types
    <3>2. CASE m = n
      <4>1. rows'[m] = row /\ writes'[m] = writes[m] + 1
        BY <2>1, <2>3, <3>2 DEF TypeOK, Types
      <4>2. writes[m] + 1 # 0 /\ (writes[m] + 1 > 1 <=> writes[m] # 0)
        BY <3>1
      <4> HIDE DEF n, row
      <4> QED BY <2>2, <3>1, <3>2, <4>1, <4>2
    <3>3. CASE m # n
      BY <2>1, <2>3, <3>1, <3>3 DEF TypeOK, Types
    <3> QED BY <3>2, <3>3
  <2> QED BY <2>4 DEF ChangedIffRewritten
<1> QED BY <1>1, <1>2, TableSteps

\* A request is unsettled after a step only if it was before, or is being sent.
LEMMA UnsettledSteps ==
  ASSUME TypeOK, [Next]_vars, NEW s \in Requests, Unsettled(s)', ~Send(s)
  PROVE  Unsettled(s)
<1>1. LoopOK(s) /\ pc \in [Requests -> Stage] /\ adrift \in [Requests -> Nat \cup {None}]
  BY DEF TypeOK, Types
<1>2. ASSUME NEW r \in Requests \ {s},
             Send(r) \/ Handle(r) \/ CallFails(r) \/ Drop(r) \/ Land(r)
      PROVE  Unsettled(s)
  BY <1>2, OthersRest DEF Unsettled
<1>3. CASE Handle(s) \/ CallFails(s) \/ Drop(s)
  BY <1>3 DEF Handle, RequireMembership, FindParent, ListMatches, Upsert, UpsertRefused,
     CallFails, Drop, Unsettled
<1>4. CASE Land(s)
  BY <1>4 DEF Land, Unsettled
<1>5. CASE UNCHANGED <<pc, adrift>>
  BY <1>5 DEF Unsettled
<1>6. CASE Tick \/ Join \/ Reseed \/ \E m \in Matches : Ingest(m)
  BY <1>5, <1>6 DEF Tick, Join, Reseed, Ingest, request
<1>7. CASE UNCHANGED vars
  BY <1>5, <1>7 DEF vars
<1> QED BY <1>2, <1>3, <1>4, <1>6, <1>7 DEF Next

\* Only a send adds to the rivals, and only to those of requests already sent.
LEMMA RivalSteps ==
  ASSUME TypeOK, [Next]_vars
  PROVE  (\E q \in Requests : Send(q)) \/ UNCHANGED rivals
BY DEF Next, vars, Handle, RequireMembership, FindParent, ListMatches, Upsert,
   UpsertRefused, CallFails, Drop, Land, Tick, Join, Reseed, Ingest, request

LEMMA RivalsKept ==
  ASSUME TypeOK, RivalsOK, [Next]_vars
  PROVE  RivalsOK'
<1> SUFFICES ASSUME NEW r \in Requests, NEW s \in Requests,
                    pc'[r] # "idle", s # r, Unsettled(s)'
             PROVE  s \in rivals'[r]
  BY DEF RivalsOK
<1>1. ASSUME NEW q \in Requests, Send(q) PROVE s \in rivals'[r]
  <2>1. rivals'[r] = IF r = q THEN {x \in Requests : Unsettled(x)}
                     ELSE IF pc[r] # "idle" THEN rivals[r] \cup {q} ELSE rivals[r]
    BY <1>1 DEF Send
  <2>2. CASE r = q
    <3>1. Unsettled(s)
      BY <1>1, <2>2, OthersRest DEF Unsettled
    <3> QED BY <2>1, <2>2, <3>1
  <2>3. CASE r # q
    <3>1. pc[r] # "idle"
      BY <1>1, <2>3, OthersRest
    <3>2. CASE s = q
      BY <2>1, <2>3, <3>1, <3>2
    <3>3. CASE s # q
      <4>1. Unsettled(s)
        BY <1>1, <3>3, OthersRest DEF Unsettled
      <4> QED BY <2>1, <2>3, <3>1, <4>1 DEF RivalsOK
    <3> QED BY <3>2, <3>3
  <2> QED BY <2>2, <2>3
<1>2. ASSUME \A q \in Requests : ~Send(q) PROVE s \in rivals'[r]
  <2>1. Unsettled(s) /\ rivals'[r] = rivals[r]
    BY <1>2, UnsettledSteps, RivalSteps
  <2>2. pc[r] # "idle"
    <3>1. ASSUME NEW q \in Requests, Handle(q) \/ CallFails(q) \/ Drop(q) \/ Land(q)
          PROVE  pc[r] # "idle"
      <4>1. CASE q = r
        BY <3>1, <4>1 DEF Handle, RequireMembership, FindParent, ListMatches, Upsert,
           UpsertRefused, CallFails, Drop, Land, TypeOK, LoopOK
      <4>2. CASE q # r
        BY <3>1, <4>2, OthersRest
      <4> QED BY <4>1, <4>2
    <3>2. CASE UNCHANGED pc
      BY <3>2
    <3> QED BY <1>2, <3>1, <3>2 DEF Next, vars, Tick, Join, Reseed, Ingest, request
  <2> QED BY <2>1, <2>2 DEF RivalsOK
<1> QED BY <1>1, <1>2

\* The part of a body that is done grows by an upsert of its own request only;
\* any other write meanwhile is an unsettled rival's.
LEMMA PassedSteps ==
  ASSUME TypeOK, [Next]_vars, NEW r \in Requests, Passed(r)' # {}
  PROVE  /\ pc[r] \notin {"idle", "member"}
         /\ body'[r] = body[r] /\ at'[r] = at[r]
         /\ \/ /\ Upsert(r)
               /\ Passed(r) = {i \in DOMAIN body[r] : i < next[r]}
               /\ Passed(r)' = Passed(r) \cup {next[r]}
            \/ /\ Passed(r)' = Passed(r)
               /\ \/ UNCHANGED table
                  \/ \E s \in Requests \ {r} : Unsettled(s)
<1>. DEFINE Rest == /\ Passed(r)' = Passed(r)
                    /\ UNCHANGED table \/ \E s \in Requests \ {r} : Unsettled(s)
<1>0. /\ LoopOK(r) /\ LoopOK(r)'
      /\ answer'[r] = "ok" \/ pc'[r] = "write"
      /\ answer'[r] = "ok" => pc'[r] = "done"
  BY NextTypes DEF Passed, TypeOK, LoopOK
<1>1. ASSUME NEW s \in Requests \ {r},
             Send(s) \/ Handle(s) \/ CallFails(s) \/ Drop(s) \/ Land(s)
      PROVE  Rest /\ pc[r] \notin {"idle", "member"}
  <2>1. /\ pc'[r] = pc[r] /\ body'[r] = body[r] /\ answer'[r] = answer[r]
        /\ next'[r] = next[r]
    BY <1>1, OthersRest
  <2>2. UNCHANGED table \/ Unsettled(s)
    BY <1>1 DEF Send, Handle, RequireMembership, FindParent, ListMatches, Upsert,
       UpsertRefused, CallFails, Drop, Land, Unsettled
  <2> QED BY <1>0, <2>1, <2>2 DEF Passed
<1>2. ASSUME UNCHANGED <<table, request>>
      PROVE  Rest /\ pc[r] \notin {"idle", "member"}
  BY <1>0, <1>2 DEF request, Passed
<1>3. ASSUME Tick \/ Join \/ Reseed \/ (\E m \in Matches : Ingest(m)) \/ UNCHANGED vars
      PROVE  Rest /\ pc[r] \notin {"idle", "member"}
  BY <1>2, <1>3 DEF Tick, Join, Reseed, Ingest, vars, table, request
<1>4. ~Send(r)
  BY <1>0 DEF Send, LoopOK, TypeOK, Types
<1>5. ~(RequireMembership(r) \/ FindParent(r))
  BY <1>0 DEF RequireMembership, FindParent, Reply, LoopOK, TypeOK, Types
<1>6. ~ListMatches(r)
  <2> SUFFICES ASSUME ListMatches(r) PROVE FALSE
    OBVIOUS
  <2>1. /\ body' = body /\ next' = next /\ next[r] = 1
        /\ pc[r] = "list"
    BY <1>0 DEF ListMatches, LoopOK
  <2>2. CASE Reply(r, "bad")
    BY <1>0, <2>2, ReplyType DEF Answer
  <2>3. CASE body[r] = <<>> /\ Reply(r, "ok")
    BY <2>1, <2>3 DEF Passed
  <2>4. CASE pc' = [pc EXCEPT ![r] = "write"] /\ UNCHANGED answer
    <3>1. Passed(r)' = {i \in DOMAIN body[r] : i < 1}
      BY <1>0, <2>1, <2>4 DEF Passed, LoopOK, TypeOK, Types
    <3> QED BY <3>1, BodyInput
  <2> QED BY <2>2, <2>3, <2>4 DEF ListMatches
<1>7. ~(UpsertRefused(r) \/ CallFails(r) \/ Drop(r))
  BY <1>0 DEF UpsertRefused, CallFails, Drop, Reply, TypeOK, Types
<1>8. ~Land(r)
  BY <1>0 DEF Land, LoopOK, request
<1>9. CASE Upsert(r)
  <2>1. /\ pc[r] = "write" /\ next[r] \in DOMAIN body[r] /\ answer[r] # "ok"
        /\ body' = body
    BY <1>0, <1>9 DEF Upsert, LoopOK
  <2>2. Passed(r) = {i \in DOMAIN body[r] : i < next[r]}
    BY <2>1 DEF Passed
  <2>3. Passed(r)' = Passed(r) \cup {next[r]}
    <3>1. CASE next[r] = Len(body[r])
      <4>1. answer'[r] = "ok"
        BY <1>9, <3>1, ReplyType DEF Upsert, Answer
      <4>2. Passed(r)' = DOMAIN body[r]
        BY <2>1, <4>1 DEF Passed
      <4>3. \A i \in DOMAIN body[r] : i < next[r] \/ i = next[r]
        BY <3>1, BodyInput
      <4> QED BY <2>1, <2>2, <4>2, <4>3
    <3>2. CASE next[r] # Len(body[r])
      <4>1. next'[r] = next[r] + 1 /\ pc'[r] = "write" /\ answer'[r] # "ok"
        BY <1>9, <2>1, <3>2 DEF Upsert, TypeOK, Types
      <4>2. Passed(r)' = {i \in DOMAIN body[r] : i < next[r] + 1}
        BY <2>1, <4>1 DEF Passed
      <4>3. \A i \in DOMAIN body[r] : i < next[r] + 1 <=> i < next[r] \/ i = next[r]
        BY <2>1, BodyInput
      <4> QED BY <2>1, <2>2, <4>2, <4>3
    <3> QED BY <3>1, <3>2
  <2> QED BY <1>9, <2>1, <2>2, <2>3, GateSteps
<1>10. pc[r] \notin {"idle", "member"} /\ (Rest \/ Upsert(r))
  BY <1>1, <1>3, <1>4, <1>5, <1>6, <1>7, <1>8, <1>9 DEF Next, Handle
<1> QED BY <1>9, <1>10, GateSteps

LEMMA StandsKept ==
  ASSUME TypeOK, RivalsOK, StandsOK, [Next]_vars
  PROVE  StandsOK'
<1> SUFFICES ASSUME NEW r \in Requests, rivals'[r] = {}, NEW i \in Passed(r)',
                    \A j \in Passed(r)' : j > i => body'[r][j].match # body'[r][i].match
             PROVE  Stands(r, i)'
  BY DEF StandsOK
<1>1. /\ pc[r] \notin {"idle", "member"} /\ body'[r] = body[r] /\ at'[r] = at[r]
  BY PassedSteps
<1>2. rivals[r] = {}
  <2>1. ASSUME NEW q \in Requests, Send(q) PROVE rivals[r] = {}
    BY <1>1, <2>1 DEF Send
  <2> QED BY <2>1, RivalSteps
<1>3. \A s \in Requests \ {r} : ~Unsettled(s)
  BY <1>1, <1>2 DEF RivalsOK
<1>4. CASE Passed(r)' = Passed(r) /\ UNCHANGED table
  <2>1. Stands(r, i)
    BY <1>1, <1>2, <1>4 DEF StandsOK
  <2> QED BY <1>1, <1>4, <2>1 DEF Stands, table
<1>5. CASE /\ Upsert(r)
           /\ Passed(r) = {j \in DOMAIN body[r] : j < next[r]}
           /\ Passed(r)' = Passed(r) \cup {next[r]}
  <2> DEFINE k == next[r]
             n == body[r][k].match
             row == Upserted(rows[n], body[r][k].pick, at[r])
  <2>1. k \in DOMAIN body[r] /\ n \in Matches
    BY <1>5, BodyInput DEF Upsert, TypeOK, LoopOK
  <2>2. rows' = [rows EXCEPT ![n] = row] /\ row \in Row
    BY <1>5, <2>1, BodyInput, UpsertedType DEF Upsert, WriteRow, Input, TypeOK, Types
  <2>3. row # None /\ row.pick = body[r][k].pick /\ row.at = at[r]
    BY <2>2, ConstantsAssumption DEF Upserted
  <2>4. CASE i = k
    <3>1. rows'[body'[r][i].match] = row
      BY <1>1, <2>1, <2>2, <2>4 DEF TypeOK, Types
    <3> HIDE DEF row
    <3> QED BY <1>1, <2>3, <2>4, <3>1 DEF Stands
  <2>5. CASE i # k
    <3>1. i \in Passed(r) /\ i < k /\ i \in DOMAIN body[r]
      BY <1>5, <2>5
    <3>2. body[r][i].match # n /\ body[r][i].match \in Matches
      <4>1. k > i /\ k \in Passed(r)'
        BY <1>5, <2>1, <3>1, BodyInput
      <4> QED BY <1>1, <3>1, <4>1, BodyInput
    <3>3. Stands(r, i)
      BY <1>1, <1>2, <1>5, <3>1 DEF StandsOK
    <3>4. rows'[body[r][i].match] = rows[body[r][i].match]
      BY <2>2, <3>2 DEF TypeOK, Types
    <3> QED BY <1>1, <3>3, <3>4 DEF Stands
  <2> QED BY <2>4, <2>5
<1> QED BY <1>3, <1>4, <1>5, PassedSteps

-----------------------------------------------------------------------------
(* Theorems.                                                               *)

LEMMA InitIInv == Init => IInv
<1> SUFFICES ASSUME Init PROVE IInv
  OBVIOUS
<1>1. TypeOK
  BY InitTypes
<1>2. GatesOK
  <2>1. \A m \in Matches : kickoff[m] # None => kickoff[m] <= kickoff[m]
    BY <1>1, TimeOrder DEF TypeOK, Types
  <2>2. parent.deadline <= parent.deadline
    BY <1>1, TimeOrder DEF TypeOK, Types
  <2> QED BY <2>1, <2>2 DEF Init, GatesOK
<1>3. OnlyTimelyBatches /\ ChangedIffRewritten /\ RivalsOK
  BY DEF Init, OnlyTimelyBatches, ChangedIffRewritten, RivalsOK
<1>4. StandsOK
  BY DEF Init, StandsOK, Passed
<1> QED BY <1>1, <1>2, <1>3, <1>4 DEF IInv

\* The inductive invariant: the types, the gates a request has passed, who it has
\* met, and what the done part of its batch left in the table.
THEOREM Inductive == Spec => []IInv
<1>1. IInv /\ [Next]_vars => IInv'
  BY NextTypes, GatesKept, OnlyTimelyKept, ChangedKept, RivalsKept, StandsKept DEF IInv
<1> QED BY InitIInv, <1>1, PTL DEF Spec

\* No row is written for a batch with a refused or a late prediction in it.
THEOREM BatchesInTime == Spec => []OnlyTimelyBatches
<1>1. IInv => OnlyTimelyBatches
  BY DEF IInv
<1> QED BY <1>1, Inductive, PTL

\* The re-pick flag counts writes, whatever requests are under way.
THEOREM FlagCountsWrites == Spec => []ChangedIffRewritten
<1>1. IInv => ChangedIffRewritten
  BY DEF IInv
<1> QED BY <1>1, Inductive, PTL

\* An acknowledged submission that met no other one is what the table says.
THEOREM Acknowledged == Spec => []AcknowledgedStands
<1>1. IInv => AcknowledgedStands
  <2> SUFFICES ASSUME IInv, NEW r \in Requests, answer[r] = "ok", rivals[r] = {},
                      NEW i \in LastWords(r)
               PROVE  Stands(r, i)
    BY DEF AcknowledgedStands
  <2>1. Passed(r) = DOMAIN body[r]
    BY DEF Passed
  <2> QED BY <2>1 DEF IInv, StandsOK, LastWords
<1> QED BY <1>1, Inductive, PTL
=============================================================================
