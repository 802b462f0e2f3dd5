--------------------------- MODULE BestThirdsProofs ---------------------------
(***************************************************************************)
(* The safety properties of POST /api/predictions/best-thirds and of       *)
(* /standings for any requests, teams, groups and bodies, any number of    *)
(* faults, of first kickoffs moved and of bootstraps that die.             *)
(***************************************************************************)
EXTENDS BestThirds, FiniteSetTheorems, SequenceTheorems, TLAPS

-----------------------------------------------------------------------------
(* The inductive invariant.                                                *)

\* Where a request is, what it has passed and what it carries.
Local(r) ==
  /\ pc[r] \in {"idle", "member", "groups", "gate"} => gate[r] = None
  /\ pc[r] \notin {"idle", "member", "groups", "gate", "done"} => gate[r] # None
  /\ pc[r] = "gate" => limit[r] # None
  /\ gate[r] # None => latest # None /\ gate[r] < latest
  /\ limit[r] # None => latest # None /\ limit[r] <= latest
  /\ body[r].group = None => pc[r] \notin {"find", "members", "upsert"}
  /\ body[r].group # None =>
       pc[r] \notin {"teams", "delete", "wait", "insert", "commit", "leaving"}
  /\ body[r].group = None /\ pc[r] \in {"delete", "wait", "insert", "commit", "landing"}
       => Valid(r)
  /\ body[r].group # None /\ pc[r] \in {"upsert", "landing"} => ValidOrder(r)
  /\ answer[r] = "ok" => pc[r] = "done"

\* What its transaction has read, deleted and inserted.
Held(r) ==
  /\ ~Open(r) => seen[r] = {} /\ deleted[r] = {} /\ inserted[r] = {}
  /\ ~Open(r) \/ pc[r] = "wait" => next[r] = 1
  /\ pc[r] = "wait" => deleted[r] = {} /\ inserted[r] = {}
  /\ Open(r) /\ pc[r] \in {"insert", "commit", "landing"} => deleted[r] = seen[r]
  /\ pc[r] = "insert" => /\ next[r] \in DOMAIN body[r].picks
                         /\ inserted[r] = {body[r].picks[i] : i \in 1..(next[r] - 1)}
  /\ Open(r) /\ pc[r] \in {"commit", "landing"} => inserted[r] = TeamIds(r)
  /\ deleted[r] \subseteq seen[r] /\ seen[r] \subseteq rows
  /\ inserted[r] \subseteq TeamIds(r) /\ inserted[r] \cap (rows \ deleted[r]) = {}

\* The locks: no row is held by two transactions.
Apart(r, s) == (deleted[r] \cup inserted[r]) \cap (deleted[s] \cup inserted[s]) = {}

\* The submissions that may be in the table: over, valid and in time.
Landed(g) == {r \in Requests : pc[r] = "done" /\ InTime(r, g)}

Whole(S) ==
  \E sent \in SUBSET Landed(None) : \E old \in Earlier \cup {{}} :
    S = old \cup UNION {TeamIds(r) : r \in sent}

\* What is left of the table when any of the transactions under way have deleted what
\* their DELETE saw is made of whole submissions.
Wholes == \A T \in SUBSET Requests : Whole(rows \ UNION {seen[t] : t \in T})

Orders ==
  \A g \in Groups : order[g] = <<>> \/ \E r \in Landed(g) : order[g] = body[r].picks

\* A request that has met no other one is alone with the tables.
Alone(r) ==
  pc[r] # "idle" /\ rivals[r] = {} =>
    /\ \A s \in Requests \ {r} : pc[s] \in {"idle", "done"}
    /\ pc[r] \in {"wait", "insert", "commit"} => seen[r] = rows
    /\ answer[r] = "ok" => IF body[r].group = None THEN rows = TeamIds(r)
                           ELSE order[body[r].group] = body[r].picks

\* Deadlines come from the bootstraps, which take the first kickoff.
Deadlines ==
  /\ \A g \in Groups : deadline[g] # None => latest # None /\ deadline[g] <= latest
  /\ moves = 0 => /\ \A g \in Groups : deadline[g] \in {kickoff, None}
                  /\ seeding # None => seeding.to = kickoff
                  /\ \A r \in Requests : limit[r] \in {kickoff, None}

IInv ==
  /\ Types /\ Deadlines /\ Wholes /\ Orders
  /\ \A r \in Requests : Local(r) /\ Held(r) /\ Alone(r)
  /\ \A r, s \in Requests : r # s => Apart(r, s)

-----------------------------------------------------------------------------
(* Instants, sequences and sets of picks.                                  *)

LEMMA TimeOrder ==
  /\ \A t \in Time : t \in Nat /\ t <= MaxTime /\ t <= t /\ t # None
  /\ 0 \in Time /\ MaxTime \in Nat
  /\ \A g \in Groups : g # None
BY ConstantsAssumption DEF Time

\* A nonempty finite set of numbers has a least element.
LEMMA SmallestOf ==
  ASSUME NEW S \in SUBSET Nat, IsFiniteSet(S), S # {}
  PROVE  SetMin(S) \in S /\ \A y \in S : SetMin(S) <= y
<1> DEFINE Below(x) == {y \in S : y < x}
           T == {Below(x) : x \in S}
<1>1. T \subseteq SUBSET S /\ T # {}
  OBVIOUS
<1>2. IsWellFoundedOn(StrictSubsetOrdering(S), SUBSET S)
  BY FS_StrictSubsetOrderingWellFounded, FS_FiniteSubsetsOfFinite
<1>3. PICK t \in T : \A u \in T : ~(<<u, t>> \in StrictSubsetOrdering(S))
  <2> HIDE DEF T
  <2> QED BY <1>1, <1>2, WFMin
<1>4. PICK x \in S : t = Below(x)
  OBVIOUS
<1>5. ASSUME NEW y \in S, y < x PROVE FALSE
  <2>0. x \in Nat /\ y \in Nat /\ \A z \in S : z \in Nat
    OBVIOUS
  <2>1. Below(y) \subseteq Below(x) /\ y \in Below(x) /\ y \notin Below(y)
    <3>1. \A z \in S : z < y => z < x
      BY <1>5, <2>0
    <3>2. ~(y < y)
      BY <2>0
    <3> QED BY <1>5, <3>1, <3>2
  <2>2. Below(y) \in SUBSET S /\ Below(x) \in SUBSET S /\ Below(y) \in T
    OBVIOUS
  <2> HIDE DEF Below, T
  <2>3. <<Below(y), Below(x)>> \in StrictSubsetOrdering(S)
    BY <2>1, <2>2 DEF StrictSubsetOrdering
  <2> QED BY <1>3, <1>4, <2>2, <2>3
<1>6. \A y \in S : x <= y
  BY <1>5
<1> QED BY <1>6 DEF SetMin

\* What ListActive takes for the deadline is one of the groups', and lies ahead.
LEMMA EarliestAhead ==
  ASSUME Types, Ahead # {}
  PROVE  /\ SetMin(Ahead) \in Time /\ now < SetMin(Ahead)
         /\ \E g \in Groups : deadline[g] = SetMin(Ahead)
<1>1. now \in Nat /\ MaxTime \in Nat
  BY TimeOrder DEF Types
<1>2. Ahead \subseteq (now + 1)..MaxTime
  BY DEF Ahead
<1>3. IsFiniteSet(Ahead)
  <2>1. now + 1 \in Int /\ MaxTime \in Int
    BY <1>1
  <2>2. IsFiniteSet((now + 1)..MaxTime)
    BY <2>1, FS_Interval
  <2> QED BY <1>2, <2>2, FS_Subset
<1>4. Ahead \in SUBSET Nat
  BY <1>1, <1>2
<1>5. SetMin(Ahead) \in Ahead
  BY <1>3, <1>4, SmallestOf
<1> QED BY <1>1, <1>2, <1>5 DEF Ahead, Time

\* Ids that are all ids of teams make a sequence of teams.
LEMMA PicksOfTeams ==
  ASSUME NEW s \in Seq(Ids), NEW S, \A i \in DOMAIN s : s[i] \in S
  PROVE  s \in Seq(S)
<1>1. Len(s) \in Nat /\ DOMAIN s = 1..Len(s) /\ s \in [1..Len(s) -> Ids]
  BY LenProperties
<1>2. s \in [1..Len(s) -> S]
  BY <1>1
<1> QED BY <1>1, <1>2, SeqDef

LEMMA BodyParts ==
  ASSUME Types, NEW r \in Requests
  PROVE  /\ body[r].group \in Groups \cup {None} /\ body[r].picks \in Seq(Ids)
         /\ Len(body[r].picks) \in Nat
         /\ DOMAIN body[r].picks = 1..Len(body[r].picks)
         /\ TeamIds(r) = {body[r].picks[i] : i \in 1..Len(body[r].picks)}
<1>1. body[r] \in [group : Groups \cup {None}, picks : Seq(Ids)]
  BY DEF Types
<1>2. body[r].group \in Groups \cup {None} /\ body[r].picks \in Seq(Ids)
  BY <1>1
<1> QED BY <1>2, LenProperties DEF TeamIds

\* A valid order of a group is a sequence of teams.
LEMMA OrderOfTeams ==
  ASSUME Types, NEW r \in Requests, body[r].group # None, ValidOrder(r)
  PROVE  body[r].picks \in Seq(Teams)
<1>1. TeamIds(r) \subseteq Teams
  <2>1. TeamsOf[body[r].group] \subseteq Teams
    BY BodyParts, ConstantsAssumption
  <2> QED BY <2>1 DEF ValidOrder
<1>2. \A i \in DOMAIN body[r].picks : body[r].picks[i] \in Teams
  BY <1>1 DEF TeamIds
<1> QED BY <1>2, BodyParts, PicksOfTeams

LEMMA NothingIsBody ==
  Nothing \in [group : Groups \cup {None}, picks : Seq(Ids)] /\ Nothing.group = None
BY DEF Nothing

\* The parts of the invariant say what TypeOK says.
LEMMA InvIsTyped == IInv => TypeOK
<1> SUFFICES ASSUME IInv, NEW r \in Requests PROVE HoldsOK(r)
  BY DEF IInv, TypeOK
<1> QED BY DEF IInv, Local, Held, HoldsOK

-----------------------------------------------------------------------------
(* The initial states.                                                     *)

LEMMA InvInit == Init => IInv
<1> SUFFICES ASSUME Init PROVE IInv
  OBVIOUS
<1>1. 0 \in Time /\ 0 \in 0..MaxMoves /\ 0 \in 0..MaxFaults
  BY ConstantsAssumption DEF Time
<1>2. Types
  <2>1. deadline \in [Groups -> Time \cup {None}] /\ latest \in Time \cup {None}
    BY DEF Init
  <2>2. rows \subseteq Teams
    BY ConstantsAssumption DEF Init
  <2>3. order \in [Groups -> Seq(Teams)]
    BY EmptySeq DEF Init
  <2>4. body \in [Requests -> [group : Groups \cup {None}, picks : Seq(Ids)]]
    BY NothingIsBody DEF Init
  <2> QED BY <1>1, <2>1, <2>2, <2>3, <2>4 DEF Init, Types, Stage, Answer
<1>3. Deadlines
  <2>1. \A g \in Groups : deadline[g] # None => latest = kickoff /\ deadline[g] = kickoff
    BY DEF Init
  <2>2. kickoff \in Time
    BY DEF Init
  <2> QED BY <2>1, <2>2, TimeOrder DEF Init, Deadlines
<1>4. Wholes
  <2> SUFFICES ASSUME NEW T \in SUBSET Requests PROVE Whole(rows \ UNION {seen[t] : t \in T})
    BY DEF Wholes
  <2>1. rows \ UNION {seen[t] : t \in T} = rows
    BY DEF Init
  <2>2. rows = rows \cup UNION {TeamIds(r) : r \in {}}
    OBVIOUS
  <2> QED BY <2>1, <2>2 DEF Whole, Init
<1>5. Orders
  BY DEF Init, Orders
<1>6. ASSUME NEW r \in Requests PROVE Local(r) /\ Held(r) /\ Alone(r)
  BY <1>6 DEF Init, Local, Held, Alone, Open, Nothing
<1>7. ASSUME NEW r \in Requests, NEW s \in Requests PROVE Apart(r, s)
  BY <1>7 DEF Init, Apart
<1> QED BY <1>2, <1>3, <1>4, <1>5, <1>6, <1>7 DEF IInv

-----------------------------------------------------------------------------
(* What a step leaves alone.                                               *)

\* The latest deadline only grows.
LatestGrows ==
  \/ latest' = latest
  \/ latest' \in Time /\ (latest = None \/ latest <= latest')

\* Request s has not moved.
Rests(s) ==
  /\ pc'[s] = pc[s] /\ body'[s] = body[s] /\ answer'[s] = answer[s]
  /\ limit'[s] = limit[s] /\ gate'[s] = gate[s]

LEMMA GrowsPast ==
  ASSUME Types, LatestGrows, NEW t \in Time, latest # None
  PROVE  latest' # None /\ (t < latest => t < latest') /\ (t <= latest => t <= latest')
<1>1. latest \in Time
  BY DEF Types
<1>2. CASE latest' = latest
  BY <1>2
<1>3. CASE latest' \in Time /\ latest <= latest'
  BY <1>1, <1>3, TimeOrder
<1> QED BY <1>2, <1>3 DEF LatestGrows

LEMMA LocalStays ==
  ASSUME Types, LatestGrows, NEW s \in Requests, Local(s), Rests(s)
  PROVE  Local(s)'
<1>1. gate[s] \in Time \cup {None} /\ limit[s] \in Time \cup {None}
  BY DEF Types
<1>2. (Valid(s) => Valid(s)') /\ (ValidOrder(s) => ValidOrder(s)')
  BY DEF Rests, Valid, ValidOrder, TeamIds
<1>3. gate'[s] # None => latest' # None /\ gate'[s] < latest'
  BY <1>1, GrowsPast DEF Local, Rests
<1>4. limit'[s] # None => latest' # None /\ limit'[s] <= latest'
  BY <1>1, GrowsPast DEF Local, Rests
<1> QED BY <1>2, <1>3, <1>4 DEF Local, Rests

LEMMA HeldStays ==
  ASSUME NEW s \in Requests, Held(s), Rests(s), rows' = rows,
         seen'[s] = seen[s], deleted'[s] = deleted[s], inserted'[s] = inserted[s],
         next'[s] = next[s]
  PROVE  Held(s)'
<1>1. Open(s) <=> Open(s)'
  BY DEF Rests, Open
<1>2. TeamIds(s)' = TeamIds(s)
  BY DEF Rests, TeamIds
<1> QED BY <1>1, <1>2 DEF Held, Rests

\* A request that is over stays as it is.
OverStays ==
  \A s \in Requests : pc[s] = "done" => pc'[s] = "done" /\ body'[s] = body[s] /\ gate'[s] = gate[s]

LEMMA LandedStays ==
  ASSUME Types, LatestGrows, OverStays, \A s \in Requests : Local(s)
  PROVE  \A g : \A s \in Landed(g) : s \in Landed(g)' /\ body'[s] = body[s] /\ TeamIds(s)' = TeamIds(s)
<1> SUFFICES ASSUME NEW g, NEW s \in Landed(g)
             PROVE  s \in Landed(g)' /\ body'[s] = body[s] /\ TeamIds(s)' = TeamIds(s)
  OBVIOUS
<1>1. s \in Requests /\ pc[s] = "done" /\ InTime(s, g)
  BY DEF Landed
<1>2. pc'[s] = "done" /\ body'[s] = body[s] /\ gate'[s] = gate[s]
  BY <1>1 DEF OverStays
<1>3. gate[s] # None /\ gate[s] \in Time \cup {None} /\ gate[s] < latest /\ latest # None
  BY <1>1 DEF InTime, Types, Local
<1>4. gate'[s] < latest'
  BY <1>2, <1>3, GrowsPast
<1>5. /\ TeamIds(s)' = TeamIds(s)
      /\ (Valid(s) => Valid(s)') /\ (ValidOrder(s) => ValidOrder(s)')
  BY <1>2 DEF TeamIds, Valid, ValidOrder
<1>6. InTime(s, g)'
  BY <1>1, <1>2, <1>3, <1>4, <1>5 DEF InTime
<1> QED BY <1>1, <1>2, <1>5, <1>6 DEF Landed

\* What was made of whole submissions still is,
LEMMA WholeStays ==
  ASSUME Types, LatestGrows, OverStays, \A s \in Requests : Local(s)
  PROVE  \A S : Whole(S) =>
           \E sent \in SUBSET (Landed(None)') : \E old \in Earlier \cup {{}} :
             S = old \cup UNION {TeamIds(q)' : q \in sent}
<1> SUFFICES ASSUME NEW S, Whole(S)
             PROVE  \E sent \in SUBSET (Landed(None)') : \E old \in Earlier \cup {{}} :
                      S = old \cup UNION {TeamIds(q)' : q \in sent}
  OBVIOUS
<1>1. PICK sent \in SUBSET Landed(None), old \in Earlier \cup {{}} :
        S = old \cup UNION {TeamIds(q) : q \in sent}
  BY DEF Whole
<1>2. \A q \in sent : q \in Landed(None)' /\ TeamIds(q)' = TeamIds(q)
  BY LandedStays
<1> QED BY <1>1, <1>2

\* and is so with a new one.
LEMMA WholeGrows ==
  ASSUME Types, LatestGrows, OverStays, \A s \in Requests : Local(s), NEW r, r \in Landed(None)'
  PROVE  \A S : Whole(S) =>
           \E sent \in SUBSET (Landed(None)') : \E old \in Earlier \cup {{}} :
             S \cup TeamIds(r)' = old \cup UNION {TeamIds(q)' : q \in sent}
<1> SUFFICES ASSUME NEW S, Whole(S)
             PROVE  \E sent \in SUBSET (Landed(None)') : \E old \in Earlier \cup {{}} :
                      S \cup TeamIds(r)' = old \cup UNION {TeamIds(q)' : q \in sent}
  OBVIOUS
<1>1. PICK sent \in SUBSET (Landed(None)'), old \in Earlier \cup {{}} :
        S = old \cup UNION {TeamIds(q)' : q \in sent}
  BY WholeStays
<1>2. /\ sent \cup {r} \in SUBSET (Landed(None)')
      /\ S \cup TeamIds(r)' = old \cup UNION {TeamIds(q)' : q \in sent \cup {r}}
  BY <1>1
<1> QED BY <1>2

LEMMA OrdersStay ==
  ASSUME Types, LatestGrows, OverStays, Orders, order' = order, \A s \in Requests : Local(s)
  PROVE  Orders'
<1> SUFFICES ASSUME NEW g \in Groups, order[g] # <<>>
             PROVE  \E r \in Landed(g)' : order[g] = body'[r].picks
  BY DEF Orders
<1>1. PICK r \in Landed(g) : order[g] = body[r].picks
  BY DEF Orders
<1>2. r \in Landed(g)' /\ body'[r] = body[r]
  BY LandedStays
<1> QED BY <1>1, <1>2

\* If no DELETE saw anything new, whole submissions are left as before.
LEMMA WholesStay ==
  ASSUME Types, LatestGrows, OverStays, Wholes, rows' = rows, \A s \in Requests : Local(s),
         \A T \in SUBSET Requests :
           \/ rows \ UNION {seen'[t] : t \in T} = {}
           \/ \E U \in SUBSET Requests :
                rows \ UNION {seen'[t] : t \in T} = rows \ UNION {seen[t] : t \in U}
  PROVE  Wholes'
<1> SUFFICES ASSUME NEW T \in SUBSET Requests
             PROVE  Whole(rows \ UNION {seen[t] : t \in T})'
  BY DEF Wholes
<1> DEFINE S == rows \ UNION {seen'[t] : t \in T}
<1>1. CASE S = {}
  <2>1. {} = {} \cup UNION {TeamIds(q)' : q \in {}}
    OBVIOUS
  <2> QED BY <1>1, <2>1 DEF Whole
<1>2. CASE \E U \in SUBSET Requests : S = rows \ UNION {seen[t] : t \in U}
  <2>1. Whole(S)
    BY <1>2 DEF Wholes
  <2> HIDE DEF S
  <2>2. \E sent \in SUBSET (Landed(None)') : \E old \in Earlier \cup {{}} :
          S = old \cup UNION {TeamIds(q)' : q \in sent}
    BY <2>1, WholeStays
  <2> QED BY <2>2 DEF Whole, S
<1> QED BY <1>1, <1>2

-----------------------------------------------------------------------------
(* The steps of one request that leave the tables alone.                   *)

HoldsStill(s) ==
  /\ seen'[s] = seen[s] /\ deleted'[s] = deleted[s]
  /\ inserted'[s] = inserted[s] /\ next'[s] = next[s]

Walk(r) ==
  /\ UNCHANGED <<now, moves, schedule, stored, rivals>>
  /\ \A s \in Requests \ {r} : Rests(s) /\ HoldsStill(s)
  /\ pc[r] \notin {"idle", "done"} /\ pc'[r] # "idle" /\ answer'[r] # "ok"
  /\ limit'[r] = limit[r] \/ limit'[r] = None \/ (moves = 0 => limit'[r] = kickoff)
  /\ \/ seen'[r] = seen[r] /\ (pc'[r] \in {"wait", "insert", "commit"} =>
                                 pc[r] \in {"wait", "insert", "commit"})
     \/ seen[r] = {} /\ seen'[r] = rows
     \/ seen'[r] = {} /\ pc'[r] = "done"

LEMMA WalkKeeps ==
  ASSUME IInv, NEW r \in Requests, Walk(r), Types', Local(r)', Held(r)',
         \A s \in Requests \ {r} : Apart(r, s)'
  PROVE  IInv'
<1>1. /\ Types /\ Deadlines /\ Wholes /\ Orders
      /\ \A s \in Requests : Local(s) /\ Held(s) /\ Alone(s)
  BY DEF IInv
<1>2. /\ UNCHANGED <<now, moves, member, kickoff, deadline, phases, seeding, latest, rows, order, rivals>>
      /\ \A s \in Requests \ {r} : Rests(s) /\ HoldsStill(s)
      /\ pc[r] \notin {"idle", "done"} /\ pc'[r] # "idle" /\ answer'[r] # "ok"
      /\ limit'[r] = limit[r] \/ limit'[r] = None \/ (moves = 0 => limit'[r] = kickoff)
      /\ \/ seen'[r] = seen[r] /\ (pc'[r] \in {"wait", "insert", "commit"} =>
                                     pc[r] \in {"wait", "insert", "commit"})
         \/ seen[r] = {} /\ seen'[r] = rows
         \/ seen'[r] = {} /\ pc'[r] = "done"
  BY DEF Walk, schedule, seeds, stored
<1>3. LatestGrows /\ OverStays
  <2>1. ASSUME NEW s \in Requests, pc[s] = "done"
        PROVE  pc'[s] = "done" /\ body'[s] = body[s] /\ gate'[s] = gate[s]
    <3>1. s # r
      BY <1>2, <2>1
    <3> QED BY <1>2, <2>1, <3>1 DEF Rests
  <2>2. OverStays
    BY <2>1 DEF OverStays
  <2>3. LatestGrows
    BY <1>2 DEF LatestGrows
  <2> QED BY <2>2, <2>3
<1>4. Deadlines'
  <2>1. \A s \in Requests \ {r} : limit'[s] = limit[s]
    BY <1>2 DEF Rests
  <2>2. moves = 0 => \A s \in Requests : limit'[s] \in {kickoff, None}
    BY <1>1, <1>2, <2>1 DEF Deadlines
  <2> QED BY <1>1, <1>2, <2>2 DEF Deadlines
<1>5. ASSUME NEW T \in SUBSET Requests
      PROVE  \/ rows \ UNION {seen'[t] : t \in T} = {}
             \/ \E U \in SUBSET Requests :
                  rows \ UNION {seen'[t] : t \in T} = rows \ UNION {seen[t] : t \in U}
  <2>1. CASE r \in T /\ seen'[r] = rows
    BY <2>1
  <2>2. CASE r \notin T \/ seen'[r] = seen[r]
    <3>1. \A t \in T : seen'[t] = seen[t]
      BY <1>2, <2>2 DEF HoldsStill
    <3> QED BY <3>1
  <2>3. CASE seen'[r] = {}
    <3>1. \A t \in T \ {r} : seen'[t] = seen[t]
      BY <1>2 DEF HoldsStill
    <3>2. UNION {seen'[t] : t \in T} = UNION {seen[t] : t \in T \ {r}}
      BY <2>3, <3>1
    <3> QED BY <3>2
  <2> QED BY <1>2, <2>1, <2>2, <2>3
<1>6. Wholes'
  BY <1>1, <1>2, <1>3, <1>5, WholesStay
<1>7. Orders'
  BY <1>1, <1>2, <1>3, OrdersStay
<1>8. \A s \in Requests : Local(s)' /\ Held(s)'
  BY <1>1, <1>2, <1>3, LocalStays, HeldStays DEF HoldsStill
<1>9. ASSUME NEW s \in Requests PROVE Alone(s)'
  <2> SUFFICES ASSUME pc'[s] # "idle", rivals[s] = {}
               PROVE  /\ \A q \in Requests \ {s} : pc'[q] \in {"idle", "done"}
                      /\ pc'[s] \in {"wait", "insert", "commit"} => seen'[s] = rows
                      /\ answer'[s] = "ok" => IF body'[s].group = None THEN rows = TeamIds(s)'
                                              ELSE order[body'[s].group] = body'[s].picks
    BY <1>2 DEF Alone
  <2>1. CASE s = r
    <3>1. \A q \in Requests \ {r} : pc'[q] \in {"idle", "done"}
      BY <1>1, <1>2, <2>1 DEF Alone, Rests
    <3>2. pc'[r] \in {"wait", "insert", "commit"} => seen'[r] = rows
      BY <1>1, <1>2, <2>1 DEF Alone
    <3> QED BY <1>2, <2>1, <3>1, <3>2
  <2>2. CASE s # r
    <3>1. pc[s] # "idle" /\ pc[r] \in {"idle", "done"}
      BY <1>1, <1>2, <2>2 DEF Alone, Rests
    <3> QED BY <1>2, <3>1
  <2> QED BY <2>1, <2>2
<1>10. ASSUME NEW s \in Requests, NEW q \in Requests, s # q PROVE Apart(s, q)'
  <2>1. CASE s # r /\ q # r
    <3>1. Apart(s, q)
      BY <1>10 DEF IInv
    <3> QED BY <1>2, <2>1, <3>1 DEF Apart, HoldsStill
  <2>2. CASE s = r
    BY <1>10, <2>2
  <2>3. CASE q = r
    <3>1. Apart(r, s)'
      BY <1>10, <2>3
    <3> QED BY <2>3, <3>1 DEF Apart
  <2> QED BY <2>1, <2>2, <2>3
<1> QED BY <1>4, <1>6, <1>7, <1>8, <1>9, <1>10 DEF IInv

LEMMA ApartStays ==
  ASSUME IInv, NEW r \in Requests, UNCHANGED <<deleted, inserted>>
  PROVE  \A s \in Requests \ {r} : Apart(r, s)'
BY DEF IInv, Apart

\* A request is closed without a trace.
LEMMA RefusedKeeps ==
  ASSUME IInv, NEW r \in Requests, NEW a \in {"refused", "error"}, Reply(r, a),
         pc[r] \notin {"idle", "done"}, ~Open(r), faults' \in 0..MaxFaults,
         UNCHANGED <<now, moves, schedule, stored, tx, gate, rivals>>,
         limit' = limit \/ limit' = [limit EXCEPT ![r] = None]
  PROVE  IInv'
<1>1. Types /\ Local(r) /\ Held(r) /\ body[r] \in [group : Groups \cup {None}, picks : Seq(Ids)]
  BY DEF IInv, Types
<1>2. /\ pc' = [pc EXCEPT ![r] = "done"] /\ answer' = [answer EXCEPT ![r] = a]
      /\ body' = [body EXCEPT ![r] = Nothing]
      /\ UNCHANGED <<now, moves, member, kickoff, deadline, phases, seeding, latest, rows, order,
                     seen, deleted, inserted, next, gate, rivals>>
  BY DEF Reply, schedule, seeds, stored, tx
<1>3. Types'
  <2>1. limit' \in [Requests -> Time \cup {None}]
    BY <1>1 DEF Types
  <2>2. body' \in [Requests -> [group : Groups \cup {None}, picks : Seq(Ids)]]
    BY <1>1, <1>2, NothingIsBody DEF Types
  <2> QED BY <1>1, <1>2, <2>1, <2>2 DEF Types, Stage, Answer
<1>4. /\ pc'[r] = "done" /\ answer'[r] = a /\ body'[r] = Nothing
      /\ limit'[r] = limit[r] \/ limit'[r] = None
      /\ \A s \in Requests \ {r} : Rests(s)
  BY <1>1, <1>2 DEF Types, Rests
<1>5. Local(r)'
  BY <1>1, <1>2, <1>4, NothingIsBody DEF Local
<1>6. Held(r)'
  <2>1. ~Open(r)'
    BY <1>4 DEF Open
  <2> QED BY <1>1, <1>2, <1>4, <2>1 DEF Held
<1>7. Walk(r) /\ \A s \in Requests \ {r} : Apart(r, s)'
  BY <1>2, <1>4, ApartStays DEF Walk, HoldsStill, schedule, stored, tx
<1> QED BY <1>3, <1>5, <1>6, <1>7, WalkKeeps

\* A request goes on to the next stage before its transaction.
LEMMA GoesOn ==
  ASSUME IInv, NEW r \in Requests, NEW stage \in Stage, Goto(r, stage),
         pc[r] \notin {"idle", "done"}, ~Open(r), stage \in {"groups", "gate", "teams", "find", "members", "upsert", "delete"},
         UNCHANGED <<now, moves, faults, schedule, stored, tx, rivals>>,
         limit' \in [Requests -> Time \cup {None}], gate' \in [Requests -> Time \cup {None}],
         \A s \in Requests \ {r} : limit'[s] = limit[s] /\ gate'[s] = gate[s],
         limit'[r] = limit[r] \/ limit'[r] = None \/ (moves = 0 => limit'[r] = kickoff),
         Local(r)'
  PROVE  IInv'
<1>1. Types /\ Held(r) /\ Local(r)
  BY DEF IInv
<1>2. /\ pc' = [pc EXCEPT ![r] = stage]
      /\ UNCHANGED <<now, moves, faults, member, kickoff, deadline, phases, seeding, latest, rows, order,
                     answer, body, seen, deleted, inserted, next, rivals>>
  BY DEF Goto, schedule, seeds, stored, tx
<1>3. Types'
  BY <1>1, <1>2 DEF Types, Stage
<1>4. /\ pc'[r] = stage /\ pc'[r] \notin {"idle", "wait", "insert", "commit"}
      /\ \A s \in Requests \ {r} : Rests(s)
  BY <1>1, <1>2 DEF Types, Rests
<1>5. Held(r)'
  <2>1. ~Open(r)'
    BY <1>4 DEF Open
  <2> QED BY <1>1, <1>2, <1>4, <2>1 DEF Held
<1>6. answer[r] # "ok"
  BY <1>1 DEF Local
<1>7. Walk(r) /\ \A s \in Requests \ {r} : Apart(r, s)'
  BY <1>2, <1>4, <1>6, ApartStays DEF Walk, HoldsStill, schedule, stored
<1> QED BY <1>3, <1>5, <1>7, WalkKeeps

LEMMA FaultCounted ==
  ASSUME Types, Fault
  PROVE  faults' \in 0..MaxFaults
BY ConstantsAssumption DEF Types, Fault

LEMMA RequireMembershipKeeps ==
  ASSUME IInv, NEW r \in Requests, RequireMembership(r)
  PROVE  IInv'
<1>1. /\ pc[r] = "member"
      /\ Goto(r, "groups") \/ Reply(r, "refused")
      /\ UNCHANGED <<now, moves, faults, schedule, stored, tx, limit, gate, rivals>>
  BY DEF RequireMembership, clock, request
<1>2. Types /\ Local(r) /\ ~Open(r)
  BY <1>1 DEF IInv, Open
<1>3. CASE Reply(r, "refused")
  <2>1. faults' \in 0..MaxFaults
    BY <1>1, <1>2 DEF Types
  <2> QED BY <1>1, <1>2, <1>3, <2>1, RefusedKeeps
<1>4. CASE Goto(r, "groups")
  <2>1. pc'[r] = "groups" /\ UNCHANGED <<body, answer, latest>>
    BY <1>1, <1>2, <1>4 DEF Goto, Types, schedule, seeds
  <2>2. Local(r)'
    BY <1>1, <1>2, <2>1 DEF Local
  <2> QED BY <1>1, <1>2, <1>4, <2>2, GoesOn DEF Types, Stage
<1> QED BY <1>1, <1>3, <1>4

LEMMA ListActiveKeeps ==
  ASSUME IInv, NEW r \in Requests, ListActive(r)
  PROVE  IInv'
<1>1. /\ pc[r] = "groups"
      /\ \/ Reply(r, "refused") /\ UNCHANGED limit
         \/ /\ Ahead # {} /\ Goto(r, "gate")
            /\ limit' = [limit EXCEPT ![r] = SetMin(Ahead)]
      /\ UNCHANGED <<now, moves, faults, schedule, stored, tx, gate, rivals>>
  BY DEF ListActive, clock
<1>2. Types /\ Deadlines /\ Local(r) /\ ~Open(r)
  BY <1>1 DEF IInv, Open
<1>3. CASE Reply(r, "refused") /\ UNCHANGED limit
  <2>1. faults' \in 0..MaxFaults
    BY <1>1, <1>2 DEF Types
  <2> QED BY <1>1, <1>2, <1>3, <2>1, RefusedKeeps
<1>4. CASE Ahead # {} /\ Goto(r, "gate") /\ limit' = [limit EXCEPT ![r] = SetMin(Ahead)]
  <2>1. SetMin(Ahead) \in Time /\ \E g \in Groups : deadline[g] = SetMin(Ahead)
    BY <1>2, <1>4, EarliestAhead
  <2>2. /\ SetMin(Ahead) # None /\ latest # None /\ SetMin(Ahead) <= latest
        /\ moves = 0 => SetMin(Ahead) = kickoff
    BY <1>2, <2>1, TimeOrder DEF Deadlines
  <2>3. /\ limit' \in [Requests -> Time \cup {None}] /\ limit'[r] = SetMin(Ahead)
        /\ \A s \in Requests \ {r} : limit'[s] = limit[s]
    BY <1>2, <1>4, <2>1 DEF Types
  <2>4. pc'[r] = "gate" /\ UNCHANGED <<body, answer, latest>>
    BY <1>1, <1>2, <1>4 DEF Goto, Types, schedule, seeds
  <2>5. Local(r)'
    BY <1>1, <1>2, <2>2, <2>3, <2>4 DEF Local
  <2> QED BY <1>1, <1>2, <1>4, <2>2, <2>3, <2>5, GoesOn DEF Types, Stage
<1> QED BY <1>1, <1>3, <1>4

LEMMA EnforceGlobalGroupDeadlineKeeps ==
  ASSUME IInv, NEW r \in Requests, EnforceGlobalGroupDeadline(r)
  PROVE  IInv'
<1>1. /\ pc[r] = "gate"
      /\ \/ now < limit[r] /\ Goto(r, AfterGate(r)) /\ gate' = [gate EXCEPT ![r] = now]
         \/ Reply(r, "refused") /\ UNCHANGED gate
      /\ limit' = [limit EXCEPT ![r] = None]
      /\ UNCHANGED <<now, moves, faults, schedule, stored, tx, rivals>>
  BY DEF EnforceGlobalGroupDeadline, clock
<1>2. Types /\ Local(r) /\ ~Open(r)
  BY <1>1 DEF IInv, Open
<1>3. CASE Reply(r, "refused") /\ UNCHANGED gate
  <2>1. faults' \in 0..MaxFaults
    BY <1>1, <1>2 DEF Types
  <2> QED BY <1>1, <1>2, <1>3, <2>1, RefusedKeeps
<1>4. CASE now < limit[r] /\ Goto(r, AfterGate(r)) /\ gate' = [gate EXCEPT ![r] = now]
  <2>1. /\ limit' \in [Requests -> Time \cup {None}] /\ limit'[r] = None
        /\ gate' \in [Requests -> Time \cup {None}] /\ gate'[r] = now
        /\ \A s \in Requests \ {r} : limit'[s] = limit[s] /\ gate'[s] = gate[s]
    BY <1>1, <1>2, <1>4 DEF Types
  <2>2. now # None /\ latest # None /\ now < latest
    <3>1. limit[r] # None /\ latest # None /\ limit[r] <= latest
      BY <1>1, <1>2 DEF Local
    <3>2. now \in Time /\ limit[r] \in Time /\ latest \in Time
      BY <1>2, <3>1 DEF Types
    <3> QED BY <1>4, <3>1, <3>2, TimeOrder
  <2>3. pc'[r] = AfterGate(r) /\ UNCHANGED <<body, answer, latest>>
    BY <1>1, <1>2, <1>4 DEF Goto, Types, schedule, seeds
  <2>4. AfterGate(r) = IF body[r].group = None THEN "teams" ELSE "find"
    BY DEF AfterGate
  <2>5. Local(r)'
    BY <1>1, <1>2, <2>1, <2>2, <2>3, <2>4 DEF Local
  <2> QED BY <1>1, <1>2, <1>4, <2>1, <2>4, <2>5, GoesOn DEF Stage
<1> QED BY <1>1, <1>3, <1>4

\* CheckTeams, FindGroup and ListTeamsInGroup: to the next stage if the body is right.
LEMMA ChecksKeep ==
  ASSUME IInv, NEW r \in Requests, CheckTeams(r) \/ FindGroup(r) \/ ListTeamsInGroup(r)
  PROVE  IInv'
<1>1. /\ UNCHANGED <<now, moves, faults, schedule, stored, tx, limit, gate, rivals>>
      /\ pc[r] \in {"teams", "find", "members"}
      /\ \/ Reply(r, "refused")
         \/ pc[r] = "teams" /\ Valid(r) /\ Goto(r, "delete")
         \/ pc[r] = "find" /\ Goto(r, "members")
         \/ pc[r] = "members" /\ ValidOrder(r) /\ Goto(r, "upsert")
  BY DEF CheckTeams, FindGroup, ListTeamsInGroup, clock, request
<1>2. Types /\ Local(r) /\ ~Open(r)
  BY <1>1 DEF IInv, Open
<1>3. CASE Reply(r, "refused")
  <2>1. faults' \in 0..MaxFaults
    BY <1>1, <1>2 DEF Types
  <2> QED BY <1>1, <1>2, <1>3, <2>1, RefusedKeeps
<1>4. ASSUME NEW stage \in {"delete", "members", "upsert"}, Goto(r, stage),
             \/ pc[r] = "teams" /\ Valid(r) /\ stage = "delete"
             \/ pc[r] = "find" /\ stage = "members"
             \/ pc[r] = "members" /\ ValidOrder(r) /\ stage = "upsert"
      PROVE  IInv'
  <2>1. pc'[r] = stage /\ UNCHANGED <<body, answer, latest>>
    BY <1>1, <1>2, <1>4 DEF Goto, Types, schedule, seeds
  <2>2. (Valid(r) => Valid(r)') /\ (ValidOrder(r) => ValidOrder(r)')
    BY <2>1 DEF Valid, ValidOrder, TeamIds
  <2>3. Local(r)'
    BY <1>1, <1>2, <1>4, <2>1, <2>2 DEF Local
  <2> QED BY <1>1, <1>2, <1>4, <2>3, GoesOn DEF Types, Stage
<1> QED BY <1>1, <1>3, <1>4

-----------------------------------------------------------------------------
(* The transaction, up to its end.                                         *)

LEMMA StartDeleteKeeps ==
  ASSUME IInv, NEW r \in Requests, StartDelete(r)
  PROVE  IInv'
<1>1. /\ pc[r] = "delete" /\ pc' = [pc EXCEPT ![r] = "wait"] /\ seen' = [seen EXCEPT ![r] = rows]
      /\ UNCHANGED <<now, moves, faults, member, kickoff, deadline, phases, seeding, latest, rows, order,
                     answer, body, deleted, inserted, next, limit, gate, rivals>>
  BY DEF StartDelete, Goto, clock, schedule, seeds, stored, request
<1>2. Types /\ Local(r) /\ Held(r)
  BY DEF IInv
<1>3. Types'
  BY <1>1, <1>2 DEF Types, Stage
<1>4. /\ pc'[r] = "wait" /\ seen'[r] = rows
      /\ \A s \in Requests \ {r} : Rests(s) /\ HoldsStill(s)
  BY <1>1, <1>2 DEF Types, Rests, HoldsStill
<1>5. body[r].group = None /\ ~Open(r) /\ Open(r)' /\ seen[r] = {}
  BY <1>1, <1>2, <1>4 DEF Local, Open, Held
<1>6. Valid(r)'
  BY <1>1, <1>2, <1>5 DEF Local, Valid, TeamIds
<1>7. Local(r)'
  BY <1>1, <1>2, <1>4, <1>5, <1>6 DEF Local
<1>8. Held(r)'
  BY <1>1, <1>2, <1>4, <1>5 DEF Held
<1>9. Walk(r) /\ \A s \in Requests \ {r} : Apart(r, s)'
  BY <1>1, <1>2, <1>4, <1>5, ApartStays DEF Walk, schedule, seeds, stored, Local
<1> QED BY <1>3, <1>7, <1>8, <1>9, WalkKeeps

\* What a transaction waits for is held by no other one.
LEMMA Unblocked ==
  ASSUME IInv, NEW r \in Requests, Blockers(r) = {}, NEW s \in Requests \ {r}
  PROVE  Wanted(r) \cap (deleted[s] \cup inserted[s]) = {}
<1>1. Held(s)
  BY DEF IInv
<1>2. CASE Open(s)
  BY <1>2 DEF Blockers
<1>3. CASE ~Open(s)
  BY <1>1, <1>3 DEF Held
<1> QED BY <1>2, <1>3

LEMMA DeleteKeeps ==
  ASSUME IInv, NEW r \in Requests, Delete(r)
  PROVE  IInv'
<1>1. /\ pc[r] = "wait" /\ Blockers(r) = {}
      /\ pc' = [pc EXCEPT ![r] = "insert"] /\ deleted' = [deleted EXCEPT ![r] = seen[r]]
      /\ UNCHANGED <<now, moves, faults, member, kickoff, deadline, phases, seeding, latest, rows, order,
                     answer, body, seen, inserted, next, limit, gate, rivals>>
  BY DEF Delete, Goto, clock, schedule, seeds, stored, request
<1>2. Types /\ Local(r) /\ Held(r)
  BY DEF IInv
<1>3. Types'
  BY <1>1, <1>2 DEF Types, Stage
<1>4. /\ pc'[r] = "insert" /\ deleted'[r] = seen[r]
      /\ \A s \in Requests \ {r} : Rests(s) /\ HoldsStill(s)
  BY <1>1, <1>2 DEF Types, Rests, HoldsStill
<1>5. body[r].group = None /\ Open(r) /\ Open(r)' /\ Valid(r)
  BY <1>1, <1>2, <1>4 DEF Local, Open
<1>6. Valid(r)'
  BY <1>1, <1>5 DEF Valid, TeamIds
<1>7. Local(r)'
  BY <1>1, <1>2, <1>4, <1>5, <1>6 DEF Local
<1>8. Held(r)'
  <2>1. next[r] = 1 /\ inserted[r] = {}
    BY <1>1, <1>2 DEF Held
  <2>2. 1 \in DOMAIN body[r].picks
    BY <1>2, <1>5, BodyParts, ConstantsAssumption DEF Valid
  <2>3. {body[r].picks[i] : i \in 1..(next[r] - 1)} = {}
    BY <2>1
  <2>4. TeamIds(r)' = TeamIds(r)
    BY <1>1 DEF TeamIds
  <2> QED BY <1>1, <1>2, <1>4, <1>5, <2>1, <2>2, <2>3, <2>4 DEF Held
<1>9. ASSUME NEW s \in Requests \ {r} PROVE Apart(r, s)'
  <2>1. seen[r] \cap (deleted[s] \cup inserted[s]) = {}
    BY <1>1, Unblocked DEF Wanted
  <2>2. inserted[r] = {}
    BY <1>1, <1>2 DEF Held
  <2> QED BY <1>1, <1>4, <2>1, <2>2 DEF Apart, HoldsStill
<1>10. Walk(r)
  BY <1>1, <1>2, <1>4 DEF Walk, schedule, seeds, stored, Local
<1> QED BY <1>3, <1>7, <1>8, <1>9, <1>10, WalkKeeps

LEMMA InsertKeeps ==
  ASSUME IInv, NEW r \in Requests, Insert(r)
  PROVE  IInv'
<1> DEFINE last == next[r] = Len(body[r].picks)
<1>1. /\ pc[r] = "insert" /\ Blockers(r) = {} /\ Pick(r) \notin rows \ deleted[r]
      /\ inserted' = [inserted EXCEPT ![r] = inserted[r] \cup {Pick(r)}]
      /\ pc' = [pc EXCEPT ![r] = IF last THEN "commit" ELSE "insert"]
      /\ next' = [next EXCEPT ![r] = IF last THEN next[r] ELSE next[r] + 1]
      /\ UNCHANGED <<now, moves, faults, member, kickoff, deadline, phases, seeding, latest, rows, order,
                     answer, body, seen, deleted, limit, gate, rivals>>
  <2>1. Types
    BY DEF IInv
  <2>2. /\ pc[r] = "insert" /\ Blockers(r) = {} /\ Pick(r) \notin rows \ deleted[r]
        /\ inserted' = [inserted EXCEPT ![r] = inserted[r] \cup {Pick(r)}]
        /\ UNCHANGED <<now, moves, faults, member, kickoff, deadline, phases, seeding, latest, rows, order,
                       answer, body, seen, deleted, limit, gate, rivals>>
    BY DEF Insert, Goto, clock, schedule, seeds, stored, request
  <2>3. CASE last
    BY <2>1, <2>2, <2>3 DEF Insert, Goto, Types
  <2>4. CASE ~last
    BY <2>1, <2>2, <2>4 DEF Insert, Types
  <2> QED BY <2>2, <2>3, <2>4
<1>2. Types /\ Local(r) /\ Held(r)
  BY DEF IInv
<1>3. /\ body[r].group = None /\ Open(r) /\ Valid(r)
      /\ next[r] \in DOMAIN body[r].picks /\ inserted[r] = {body[r].picks[i] : i \in 1..(next[r] - 1)}
      /\ deleted[r] = seen[r]
  BY <1>1, <1>2 DEF Local, Open, Held
<1>4. /\ Len(body[r].picks) \in Nat /\ next[r] \in 1..Len(body[r].picks)
      /\ DOMAIN body[r].picks = 1..Len(body[r].picks)
      /\ TeamIds(r) = {body[r].picks[i] : i \in 1..Len(body[r].picks)}
      /\ Pick(r) = body[r].picks[next[r]] /\ Pick(r) \in TeamIds(r)
  BY <1>2, <1>3, BodyParts DEF Pick
<1>5. Pick(r) \in Teams
  BY <1>3, <1>4 DEF Valid
<1>6. Types'
  <2>1. next' \in [Requests -> Nat]
    BY <1>1, <1>2 DEF Types
  <2>2. inserted' \in [Requests -> SUBSET Teams] /\ pc' \in [Requests -> Stage]
    BY <1>1, <1>2, <1>5 DEF Types, Stage
  <2> QED BY <1>1, <1>2, <2>1, <2>2 DEF Types
<1>7. /\ pc'[r] = (IF last THEN "commit" ELSE "insert") /\ inserted'[r] = inserted[r] \cup {Pick(r)}
      /\ next'[r] = IF last THEN next[r] ELSE next[r] + 1
      /\ \A s \in Requests \ {r} : Rests(s) /\ HoldsStill(s)
  BY <1>1, <1>2 DEF Types, Rests, HoldsStill
<1>8. Local(r)'
  <2>1. Valid(r)'
    BY <1>1, <1>3 DEF Valid, TeamIds
  <2> QED BY <1>1, <1>2, <1>3, <1>7, <2>1 DEF Local
<1>9. inserted[r] \cup {Pick(r)} = {body[r].picks[i] : i \in 1..next[r]}
  <2>1. \A i \in Nat : i \in 1..next[r] <=> i \in 1..(next[r] - 1) \/ i = next[r]
    BY <1>4
  <2>2. next[r] \in 1..next[r] /\ 1..(next[r] - 1) \subseteq 1..next[r]
    BY <1>4
  <2> QED BY <1>3, <1>4, <2>1, <2>2
<1>10. Held(r)'
  <2>1. TeamIds(r)' = TeamIds(r) /\ Open(r)'
    BY <1>1, <1>3, <1>7 DEF TeamIds, Open
  <2>2. /\ deleted'[r] = seen'[r] /\ seen'[r] \subseteq rows'
        /\ inserted'[r] \subseteq TeamIds(r) /\ inserted'[r] \cap (rows' \ deleted'[r]) = {}
    BY <1>1, <1>2, <1>3, <1>4, <1>7 DEF Held
  <2>3. CASE last
    <3>1. inserted'[r] = TeamIds(r) /\ pc'[r] = "commit"
      BY <1>4, <1>7, <1>9, <2>3
    <3> QED BY <2>1, <2>2, <3>1 DEF Held
  <2>4. CASE ~last
    <3>1. next'[r] \in DOMAIN body[r].picks /\ next'[r] - 1 = next[r] /\ pc'[r] = "insert"
      BY <1>4, <1>7, <2>4
    <3>2. inserted'[r] = {body'[r].picks[i] : i \in 1..(next'[r] - 1)} /\ next'[r] \in DOMAIN body'[r].picks
      BY <1>1, <1>7, <1>9, <3>1
    <3> QED BY <2>1, <2>2, <3>1, <3>2 DEF Held
  <2> QED BY <2>3, <2>4
<1>11. ASSUME NEW s \in Requests \ {r} PROVE Apart(r, s)'
  <2>1. Pick(r) \notin deleted[s] \cup inserted[s]
    BY <1>1, Unblocked DEF Wanted
  <2>2. Apart(r, s)
    BY DEF IInv
  <2> QED BY <1>1, <1>7, <2>1, <2>2 DEF Apart, HoldsStill
<1>12. Walk(r)
  <2>1. answer'[r] # "ok" /\ pc'[r] # "idle" /\ seen'[r] = seen[r]
    BY <1>1, <1>2, <1>7 DEF Local
  <2> QED BY <1>1, <1>7, <2>1 DEF Walk, schedule, seeds, stored
<1> QED BY <1>6, <1>8, <1>10, <1>11, <1>12, WalkKeeps

LEMMA LeaveKeeps ==
  ASSUME IInv, NEW r \in Requests, Leave(r), pc[r] \in {"wait", "insert", "commit"},
         faults' \in 0..MaxFaults, UNCHANGED <<now, moves, schedule, body, limit, gate, rivals>>
  PROVE  IInv'
<1>1. /\ pc' = [pc EXCEPT ![r] = "leaving"] /\ answer' = [answer EXCEPT ![r] = "error"]
      /\ UNCHANGED <<now, moves, member, kickoff, deadline, phases, seeding, latest, rows, order,
                     body, seen, deleted, inserted, next, limit, gate, rivals>>
  BY DEF Leave, schedule, seeds, stored, tx
<1>2. Types /\ Local(r) /\ Held(r)
  BY DEF IInv
<1>3. Types'
  BY <1>1, <1>2 DEF Types, Stage, Answer
<1>4. /\ pc'[r] = "leaving" /\ answer'[r] = "error"
      /\ \A s \in Requests \ {r} : Rests(s) /\ HoldsStill(s)
  BY <1>1, <1>2 DEF Types, Rests, HoldsStill
<1>5. body[r].group = None /\ Open(r)'
  BY <1>1, <1>2, <1>4 DEF Local, Open
<1>6. Local(r)'
  BY <1>1, <1>2, <1>4, <1>5 DEF Local
<1>7. Held(r)'
  <2>1. TeamIds(r)' = TeamIds(r)
    BY <1>1 DEF TeamIds
  <2> QED BY <1>1, <1>2, <1>4, <1>5, <2>1 DEF Held
<1>8. Walk(r) /\ \A s \in Requests \ {r} : Apart(r, s)'
  BY <1>1, <1>4, ApartStays DEF Walk, schedule, seeds, stored
<1> QED BY <1>3, <1>6, <1>7, <1>8, WalkKeeps

LEMMA InsertRefusedKeeps ==
  ASSUME IInv, NEW r \in Requests, InsertRefused(r)
  PROVE  IInv'
<1>1. /\ pc[r] = "insert" /\ Leave(r)
      /\ UNCHANGED <<now, moves, faults, schedule, body, limit, gate, rivals>>
  BY DEF InsertRefused, clock, request
<1>2. faults' \in 0..MaxFaults
  BY <1>1 DEF IInv, Types
<1> QED BY <1>1, <1>2, LeaveKeeps

\* Only who waits for a lock is picked as a victim.
LEMMA DeadlockKeeps ==
  ASSUME IInv, NEW r \in Requests, Deadlock(r)
  PROVE  IInv'
<1>1. /\ r \in Deadlocked /\ Leave(r)
      /\ UNCHANGED <<now, moves, faults, schedule, body, limit, gate, rivals>>
  BY DEF Deadlock, clock, request
<1>2. Blockers(r) # {}
  BY <1>1 DEF Deadlocked, IsRing
<1>3. pc[r] \in {"wait", "insert"}
  BY <1>2 DEF Blockers, Wanted
<1>4. faults' \in 0..MaxFaults
  BY <1>1 DEF IInv, Types
<1> QED BY <1>1, <1>3, <1>4, LeaveKeeps

LEMMA RollbackKeeps ==
  ASSUME IInv, NEW r \in Requests, Rollback(r)
  PROVE  IInv'
<1>1. /\ pc[r] = "leaving" /\ pc' = [pc EXCEPT ![r] = "done"] /\ seen' = [seen EXCEPT ![r] = {}]
      /\ deleted' = [deleted EXCEPT ![r] = {}] /\ inserted' = [inserted EXCEPT ![r] = {}]
      /\ next' = [next EXCEPT ![r] = 1]
      /\ UNCHANGED <<now, moves, faults, member, kickoff, deadline, phases, seeding, latest, rows, order,
                     answer, body, limit, gate, rivals>>
  BY DEF Rollback, Goto, End, clock, schedule, seeds, stored, request
<1>2. Types /\ Local(r)
  BY DEF IInv
<1>3. Types'
  BY <1>1, <1>2 DEF Types, Stage
<1>4. /\ pc'[r] = "done" /\ seen'[r] = {} /\ deleted'[r] = {} /\ inserted'[r] = {} /\ next'[r] = 1
      /\ \A s \in Requests \ {r} : Rests(s) /\ HoldsStill(s)
  BY <1>1, <1>2 DEF Types, Rests, HoldsStill
<1>5. Local(r)'
  BY <1>1, <1>2, <1>4 DEF Local
<1>6. Held(r)'
  <2>1. ~Open(r)'
    BY <1>4 DEF Open
  <2> QED BY <1>4, <2>1 DEF Held
<1>7. \A s \in Requests \ {r} : Apart(r, s)'
  BY <1>4 DEF Apart
<1>8. Walk(r)
  BY <1>1, <1>2, <1>4 DEF Walk, schedule, seeds, stored, Local
<1> QED BY <1>3, <1>5, <1>6, <1>7, <1>8, WalkKeeps

\* The COMMIT or the upsert is out, and nobody waits for its reply.
LEMMA OutKeeps ==
  ASSUME IInv, NEW r \in Requests, pc[r] \in {"commit", "upsert"},
         pc' = [pc EXCEPT ![r] = "landing"], answer' = [answer EXCEPT ![r] = "error"],
         faults' \in 0..MaxFaults,
         UNCHANGED <<now, moves, schedule, stored, tx, body, limit, gate, rivals>>
  PROVE  IInv'
<1>1. UNCHANGED <<now, moves, member, kickoff, deadline, phases, seeding, latest, rows, order,
                  body, seen, deleted, inserted, next, limit, gate, rivals>>
  BY DEF schedule, seeds, stored, tx
<1>2. Types /\ Local(r) /\ Held(r)
  BY DEF IInv
<1>3. Types'
  BY <1>1, <1>2 DEF Types, Stage, Answer
<1>4. /\ pc'[r] = "landing" /\ answer'[r] = "error"
      /\ \A s \in Requests \ {r} : Rests(s) /\ HoldsStill(s)
  BY <1>1, <1>2 DEF Types, Rests, HoldsStill
<1>5. (Valid(r) => Valid(r)') /\ (ValidOrder(r) => ValidOrder(r)') /\ TeamIds(r)' = TeamIds(r)
  BY <1>1 DEF Valid, ValidOrder, TeamIds
<1>6. Local(r)'
  BY <1>1, <1>2, <1>4, <1>5 DEF Local
<1>7. Held(r)'
  <2>1. (Open(r) <=> body[r].group = None) /\ (Open(r)' <=> body[r].group = None)
    BY <1>1, <1>2, <1>4 DEF Open, Local
  <2>2. body[r].group = None => pc[r] = "commit"
    BY <1>2 DEF Local
  <2> QED BY <1>1, <1>2, <1>4, <1>5, <2>1, <2>2 DEF Held
<1>8. Walk(r) /\ \A s \in Requests \ {r} : Apart(r, s)'
  BY <1>1, <1>4, ApartStays DEF Walk
<1> QED BY <1>3, <1>6, <1>7, <1>8, WalkKeeps

LEMMA FailKeeps ==
  ASSUME IInv, NEW r \in Requests, Fail(r)
  PROVE  IInv'
<1>1. /\ pc[r] \notin {"idle", "leaving", "landing", "done"}
      /\ \/ ~Open(r) /\ Reply(r, "error") /\ UNCHANGED <<stored, tx>>
         \/ Open(r) /\ Leave(r) /\ UNCHANGED body
         \/ /\ pc[r] \in {"commit", "upsert"}
            /\ pc' = [pc EXCEPT ![r] = "landing"]
            /\ answer' = [answer EXCEPT ![r] = "error"]
            /\ UNCHANGED <<stored, tx, body>>
      /\ UNCHANGED <<now, moves, schedule, limit, gate, rivals>>
  BY DEF Fail, request
<1>2. faults' \in 0..MaxFaults
  BY FaultCounted DEF Fail, IInv
<1>3. CASE ~Open(r) /\ Reply(r, "error") /\ UNCHANGED <<stored, tx>>
  BY <1>1, <1>2, <1>3, RefusedKeeps
<1>4. CASE Open(r) /\ Leave(r) /\ UNCHANGED body
  <2>1. pc[r] \in {"wait", "insert", "commit"}
    BY <1>1, <1>4 DEF Open
  <2> QED BY <1>1, <1>2, <1>4, <2>1, LeaveKeeps
<1>5. CASE /\ pc[r] \in {"commit", "upsert"}
           /\ pc' = [pc EXCEPT ![r] = "landing"]
           /\ answer' = [answer EXCEPT ![r] = "error"]
           /\ UNCHANGED <<stored, tx, body>>
  BY <1>1, <1>2, <1>5, OutKeeps
<1> QED BY <1>1, <1>3, <1>4, <1>5

-----------------------------------------------------------------------------
(* The steps that change a table.                                          *)

\* What a finished request leaves of the rest.
Ends(r) ==
  /\ pc' = [pc EXCEPT ![r] = "done"]
  /\ answer' \in [Requests -> Answer] /\ \A s \in Requests \ {r} : answer'[s] = answer[s]
  /\ UNCHANGED <<now, moves, faults, schedule, body, limit, gate, rivals>>

LEMMA EndsFrame ==
  ASSUME IInv, NEW r \in Requests, Ends(r), pc[r] \in {"commit", "upsert", "landing"}
  PROVE  /\ pc'[r] = "done" /\ \A s \in Requests \ {r} : Rests(s)
         /\ LatestGrows /\ OverStays /\ Local(r)' /\ Deadlines'
         /\ \A s \in Requests : TeamIds(s)' = TeamIds(s)
         /\ UNCHANGED <<now, moves, faults, member, kickoff, deadline, phases, seeding, latest,
                        body, limit, gate, rivals>>
<1>1. Types /\ Local(r) /\ Deadlines
  BY DEF IInv
<1>2. /\ pc' = [pc EXCEPT ![r] = "done"]
      /\ UNCHANGED <<now, moves, faults, member, kickoff, deadline, phases, seeding, latest,
                     body, limit, gate, rivals>>
  BY DEF Ends, schedule, seeds
<1>3. pc'[r] = "done" /\ \A s \in Requests \ {r} : Rests(s)
  BY <1>1, <1>2 DEF Ends, Rests, Types
<1>4. LatestGrows
  BY <1>2 DEF LatestGrows
<1>5. OverStays
  BY <1>1, <1>2 DEF OverStays, Types
<1>6. Local(r)'
  BY <1>1, <1>2, <1>3 DEF Local
<1>7. Deadlines'
  BY <1>1, <1>2 DEF Deadlines
<1>8. \A s \in Requests : TeamIds(s)' = TeamIds(s)
  BY <1>2 DEF TeamIds
<1> QED BY <1>2, <1>3, <1>4, <1>5, <1>6, <1>7, <1>8

\* A transaction that ends has landed; whoever was alone is this request.
LEMMA EndsLands ==
  ASSUME IInv, NEW r \in Requests, Ends(r), pc[r] \in {"commit", "upsert", "landing"}
  PROVE  \A g : g = body[r].group => r \in Landed(g)'
<1>1. Types /\ Local(r)
  BY DEF IInv
<1>2. UNCHANGED <<body, gate, latest>> /\ pc'[r] = "done"
  BY EndsFrame
<1>3. gate[r] # None /\ gate[r] < latest
  BY <1>1 DEF Local
<1>4. /\ body[r].group = None => Valid(r)
      /\ body[r].group # None => ValidOrder(r)
  BY <1>1 DEF Local
<1>5. (Valid(r) => Valid(r)') /\ (ValidOrder(r) => ValidOrder(r)')
  BY <1>2 DEF Valid, ValidOrder, TeamIds
<1>6. /\ gate'[r] # None /\ gate'[r] < latest'
      /\ IF body[r].group = None THEN Valid(r)' ELSE ValidOrder(r)'
  BY <1>2, <1>3, <1>4, <1>5
<1> QED BY <1>2, <1>6 DEF Landed, InTime

LEMMA AloneEnds ==
  ASSUME IInv, NEW r \in Requests, Ends(r), pc[r] \in {"commit", "upsert", "landing"},
         rivals[r] = {} /\ answer'[r] = "ok" =>
           IF body[r].group = None THEN rows' = TeamIds(r)
           ELSE order'[body[r].group] = body[r].picks
  PROVE  \A s \in Requests : Alone(s)'
<1>1. /\ pc'[r] = "done" /\ \A s \in Requests \ {r} : Rests(s)
      /\ UNCHANGED <<body, rivals>> /\ \A s \in Requests : TeamIds(s)' = TeamIds(s)
  BY EndsFrame
<1> TAKE s \in Requests
<1>2. CASE s = r
  <2>1. rivals[r] = {} => \A q \in Requests \ {r} : pc'[q] \in {"idle", "done"}
    BY <1>1 DEF IInv, Alone, Rests
  <2> QED BY <1>1, <1>2, <2>1 DEF Alone
<1>3. CASE s # r
  <2>1. pc[s] # "idle" => rivals[s] # {}
    BY <1>3 DEF IInv, Alone
  <2> QED BY <1>1, <1>3, <2>1 DEF Alone, Rests
<1> QED BY <1>2, <1>3

LEMMA EffectKeeps ==
  ASSUME IInv, NEW r \in Requests, Ends(r), TakeEffect(r), pc[r] \in {"commit", "landing"},
         body[r].group = None, answer'[r] = "ok" => pc[r] = "commit"
  PROVE  IInv'
<1>1. /\ UNCHANGED order
      /\ rows' = (rows \ deleted[r]) \cup inserted[r]
      /\ seen' = [s \in Requests |-> IF s = r THEN {} ELSE seen[s] \ deleted[r]]
      /\ deleted' = [deleted EXCEPT ![r] = {}]
      /\ inserted' = [inserted EXCEPT ![r] = {}]
      /\ next' = [next EXCEPT ![r] = 1]
  BY DEF TakeEffect, End
<1>2. /\ Types /\ Wholes /\ Orders
      /\ \A s \in Requests : Local(s) /\ Held(s) /\ Alone(s)
      /\ \A s \in Requests \ {r} : Apart(r, s)
  BY DEF IInv
<1>3. /\ pc'[r] = "done" /\ \A s \in Requests \ {r} : Rests(s)
      /\ LatestGrows /\ OverStays /\ Local(r)' /\ Deadlines'
      /\ \A s \in Requests : TeamIds(s)' = TeamIds(s)
      /\ UNCHANGED <<now, moves, faults, member, kickoff, deadline, phases, seeding, latest,
                     body, limit, gate, rivals>>
  BY EndsFrame
<1>4. /\ deleted[r] = seen[r] /\ inserted[r] = TeamIds(r)
      /\ inserted[r] \cap (rows \ deleted[r]) = {}
  <2>1. Open(r)
    BY DEF Open
  <2> QED BY <1>2, <2>1 DEF Held
<1>5. /\ seen'[r] = {} /\ deleted'[r] = {} /\ inserted'[r] = {} /\ next'[r] = 1
      /\ \A s \in Requests \ {r} :
           /\ seen'[s] = seen[s] \ deleted[r] /\ deleted'[s] = deleted[s]
           /\ inserted'[s] = inserted[s] /\ next'[s] = next[s]
  BY <1>1, <1>2 DEF Types
<1>6. Types'
  <2>1. rows' \subseteq Teams /\ seen' \in [Requests -> SUBSET Teams]
    BY <1>1, <1>2 DEF Types
  <2>2. /\ deleted' \in [Requests -> SUBSET Teams] /\ inserted' \in [Requests -> SUBSET Teams]
        /\ next' \in [Requests -> Nat]
    BY <1>1, <1>2 DEF Types
  <2>3. pc' \in [Requests -> Stage] /\ answer' \in [Requests -> Answer]
    BY <1>2 DEF Ends, Types, Stage
  <2> QED BY <1>1, <1>2, <1>3, <2>1, <2>2, <2>3 DEF Types
<1>7. ASSUME NEW s \in Requests PROVE Local(s)' /\ Held(s)'
  <2>1. CASE s = r
    <3>1. ~Open(r)'
      BY <1>3 DEF Open
    <3> QED BY <1>3, <1>5, <2>1, <3>1 DEF Held
  <2>2. CASE s # r
    <3>1. Held(s) /\ Rests(s) /\ Apart(r, s)
      BY <1>2, <1>3, <2>2
    <3>2. Open(s)' <=> Open(s)
      BY <3>1 DEF Open, Rests
    <3>3. /\ seen'[s] = seen[s] \ deleted[r] /\ deleted'[s] = deleted[s]
          /\ inserted'[s] = inserted[s] /\ next'[s] = next[s] /\ TeamIds(s)' = TeamIds(s)
          /\ pc'[s] = pc[s] /\ body'[s] = body[s]
      BY <1>3, <1>5, <2>2, <3>1 DEF Rests
    <3>4. deleted[s] = seen[s] => seen'[s] = seen[s]
      BY <3>1, <3>3 DEF Apart
    <3>5. /\ deleted'[s] \subseteq seen'[s] /\ seen'[s] \subseteq rows'
          /\ inserted'[s] \cap (rows' \ deleted'[s]) = {}
      BY <1>1, <3>1, <3>3 DEF Held, Apart
    <3>6. Held(s)'
      BY <3>1, <3>2, <3>3, <3>4, <3>5 DEF Held
    <3> QED BY <1>2, <1>3, <3>1, <3>6, LocalStays
  <2> QED BY <2>1, <2>2
<1>8. ASSUME NEW s \in Requests, NEW q \in Requests, s # q PROVE Apart(s, q)'
  <2>1. Apart(s, q)
    BY <1>8 DEF IInv
  <2> QED BY <1>5, <2>1 DEF Apart
<1>9. Wholes'
  <2> SUFFICES ASSUME NEW T \in SUBSET Requests
               PROVE  Whole(rows \ UNION {seen[t] : t \in T})'
    BY DEF Wholes
  <2> DEFINE S == rows \ UNION {seen[t] : t \in T \cup {r}}
             Z == rows' \ UNION {seen'[t] : t \in T}
  <2>1. Z = S \cup TeamIds(r)
    <3>1. ASSUME NEW x PROVE x \in Z <=> x \in S \cup inserted[r]
      <4>1. \A t \in Requests : seen[t] \subseteq rows
        BY <1>2 DEF Held
      <4>2. x \in Z <=> /\ x \in rows' /\ \A t \in T : x \notin seen'[t]
        OBVIOUS
      <4>3. x \in S <=> /\ x \in rows /\ x \notin seen[r] /\ \A t \in T : x \notin seen[t]
        OBVIOUS
      <4>4. x \in rows' <=> (x \in rows /\ x \notin seen[r]) \/ x \in inserted[r]
        BY <1>1, <1>4
      <4>5. CASE x \in inserted[r]
        <5>1. \A t \in Requests : x \notin seen'[t]
          BY <1>4, <1>5, <4>1, <4>5
        <5> QED BY <4>2, <4>4, <4>5, <5>1
      <4>6. CASE x \notin inserted[r] /\ x \in seen[r]
        BY <4>2, <4>3, <4>4, <4>6
      <4>7. CASE x \notin inserted[r] /\ x \notin seen[r]
        <5>1. \A t \in Requests : x \in seen'[t] <=> x \in seen[t]
          BY <1>4, <1>5, <4>7
        <5> HIDE DEF S, Z
        <5> QED BY <4>2, <4>3, <4>4, <4>7, <5>1
      <4> QED BY <4>5, <4>6, <4>7
    <3> HIDE DEF S, Z
    <3> QED BY <1>4, <3>1
  <2>2. Whole(S)
    BY <1>2 DEF Wholes
  <2>3. r \in Landed(None)'
    BY EndsLands
  <2> HIDE DEF S, Z
  <2>4. \E sent \in SUBSET (Landed(None)') : \E old \in Earlier \cup {{}} :
          S \cup TeamIds(r)' = old \cup UNION {TeamIds(q)' : q \in sent}
    <3>1. Types /\ LatestGrows /\ OverStays /\ \A s \in Requests : Local(s)
      BY <1>2, <1>3
    <3> QED BY <2>2, <2>3, <3>1, WholeGrows
  <2>5. \E sent \in SUBSET (Landed(None)') : \E old \in Earlier \cup {{}} :
          Z = old \cup UNION {TeamIds(q)' : q \in sent}
    BY <1>3, <2>1, <2>4
  <2> QED BY <2>5 DEF Whole, Z
<1>10. Orders'
  BY <1>1, <1>2, <1>3, OrdersStay
<1>11. \A s \in Requests : Alone(s)'
  <2>1. rivals[r] = {} /\ answer'[r] = "ok" => rows' = TeamIds(r)
    BY <1>1, <1>2, <1>4 DEF Alone
  <2> QED BY <2>1, AloneEnds
<1> QED BY <1>3, <1>6, <1>7, <1>8, <1>9, <1>10, <1>11 DEF IInv

LEMMA CommitKeeps ==
  ASSUME IInv, NEW r \in Requests, Commit(r)
  PROVE  IInv'
<1>1. /\ pc[r] = "commit" /\ TakeEffect(r)
      /\ pc' = [pc EXCEPT ![r] = "done"] /\ answer' = [answer EXCEPT ![r] = "ok"] /\ body' = body
      /\ UNCHANGED <<now, moves, faults, schedule, limit, gate, rivals>>
  BY DEF Commit, Reply, clock, request
<1>2. Types /\ Local(r)
  BY DEF IInv
<1>3. Ends(r)
  BY <1>1, <1>2 DEF Ends, Types, Answer
<1>4. body[r].group = None
  BY <1>1, <1>2 DEF Local
<1> QED BY <1>1, <1>3, <1>4, EffectKeeps

LEMMA UpsertKeeps ==
  ASSUME IInv, NEW r \in Requests, Ends(r), Upserted(r), pc[r] \in {"upsert", "landing"},
         body[r].group # None, UNCHANGED <<rows, tx>>
  PROVE  IInv'
<1>1. /\ order' = [order EXCEPT ![body[r].group] = body[r].picks]
      /\ UNCHANGED <<rows, seen, deleted, inserted, next>>
  BY DEF Upserted, tx
<1>2. /\ Types /\ Wholes /\ Orders
      /\ \A s \in Requests : Local(s) /\ Held(s) /\ Alone(s)
  BY DEF IInv
<1>3. /\ pc'[r] = "done" /\ \A s \in Requests \ {r} : Rests(s)
      /\ LatestGrows /\ OverStays /\ Local(r)' /\ Deadlines'
      /\ \A s \in Requests : TeamIds(s)' = TeamIds(s)
      /\ UNCHANGED <<now, moves, faults, member, kickoff, deadline, phases, seeding, latest,
                     body, limit, gate, rivals>>
  BY EndsFrame
<1>4. body[r].group \in Groups /\ body[r].picks \in Seq(Teams)
  <2>1. ValidOrder(r)
    BY <1>2 DEF Local
  <2> QED BY <1>2, <2>1, BodyParts, OrderOfTeams
<1>5. Types'
  <2>1. order' \in [Groups -> Seq(Teams)]
    BY <1>1, <1>2, <1>4 DEF Types
  <2>2. pc' \in [Requests -> Stage] /\ answer' \in [Requests -> Answer]
    BY <1>2 DEF Ends, Types, Stage
  <2> QED BY <1>1, <1>2, <1>3, <2>1, <2>2 DEF Types
<1>6. /\ order'[body[r].group] = body[r].picks
      /\ \A g \in Groups : g # body[r].group => order'[g] = order[g]
  BY <1>1, <1>2, <1>4 DEF Types
<1>7. Orders'
  <2> SUFFICES ASSUME NEW g \in Groups, order'[g] # <<>>
               PROVE  \E q \in Landed(g)' : order'[g] = body'[q].picks
    BY DEF Orders
  <2>1. CASE g = body[r].group
    <3>1. r \in Landed(g)'
      BY <2>1, EndsLands
    <3> QED BY <1>3, <1>6, <2>1, <3>1
  <2>2. CASE g # body[r].group
    <3>1. PICK q \in Landed(g) : order[g] = body[q].picks
      BY <1>2, <1>6, <2>2 DEF Orders
    <3>2. q \in Landed(g)' /\ body'[q] = body[q]
      BY <1>2, <1>3, LandedStays
    <3> QED BY <1>6, <2>2, <3>1, <3>2
  <2> QED BY <2>1, <2>2
<1>8. Wholes'
  BY <1>1, <1>2, <1>3, WholesStay
<1>9. \A s \in Requests : Local(s)' /\ Held(s)'
  <2>1. Held(r)'
    <3>1. ~Open(r) /\ ~Open(r)'
      BY <1>3 DEF Open
    <3> QED BY <1>1, <1>2, <1>3, <3>1 DEF Held
  <2>2. \A s \in Requests \ {r} : Held(s)'
    BY <1>1, <1>2, <1>3, HeldStays
  <2>3. \A s \in Requests \ {r} : Local(s)'
    BY <1>2, <1>3, LocalStays
  <2> QED BY <1>3, <2>1, <2>2, <2>3
<1>10. \A s \in Requests : Alone(s)'
  BY <1>6, AloneEnds
<1>11. \A s, q \in Requests : s # q => Apart(s, q)'
  BY <1>1 DEF IInv, Apart
<1> QED BY <1>3, <1>5, <1>7, <1>8, <1>9, <1>10, <1>11 DEF IInv

LEMMA UpsertOrderKeeps ==
  ASSUME IInv, NEW r \in Requests, UpsertOrder(r)
  PROVE  IInv'
<1>1. /\ pc[r] = "upsert" /\ Upserted(r) /\ UNCHANGED <<rows, tx>>
      /\ pc' = [pc EXCEPT ![r] = "done"] /\ answer' = [answer EXCEPT ![r] = "ok"] /\ body' = body
      /\ UNCHANGED <<now, moves, faults, schedule, limit, gate, rivals>>
  BY DEF UpsertOrder, Reply, clock, request
<1>2. Types /\ Local(r)
  BY DEF IInv
<1>3. Ends(r)
  BY <1>1, <1>2 DEF Ends, Types, Answer
<1>4. body[r].group # None
  BY <1>1, <1>2 DEF Local
<1> QED BY <1>1, <1>3, <1>4, UpsertKeeps

LEMMA LandKeeps ==
  ASSUME IInv, NEW r \in Requests, Land(r)
  PROVE  IInv'
<1>1. /\ pc[r] = "landing"
      /\ IF body[r].group = None THEN TakeEffect(r) ELSE Upserted(r) /\ UNCHANGED <<rows, tx>>
      /\ pc' = [pc EXCEPT ![r] = "done"] /\ UNCHANGED <<answer, body>>
      /\ UNCHANGED <<now, moves, faults, schedule, limit, gate, rivals>>
  BY DEF Land, Goto, clock, request
<1>2. Types /\ Local(r)
  BY DEF IInv
<1>3. Ends(r) /\ answer'[r] # "ok"
  BY <1>1, <1>2 DEF Ends, Types, Local
<1>4. CASE body[r].group = None
  BY <1>1, <1>3, <1>4, EffectKeeps
<1>5. CASE body[r].group # None
  BY <1>1, <1>3, <1>5, UpsertKeeps
<1> QED BY <1>4, <1>5

-----------------------------------------------------------------------------
(* A new request, and the rest of the system.                              *)

LEMMA SendKeeps ==
  ASSUME IInv, NEW r \in Requests, Send(r)
  PROVE  IInv'
<1>1. /\ pc[r] = "idle" /\ pc' = [pc EXCEPT ![r] = "member"]
      /\ rivals' = [s \in Requests |->
                      IF s = r THEN {q \in Requests : pc[q] \notin {"idle", "done"}}
                      ELSE IF pc[s] # "idle" THEN rivals[s] \cup {r} ELSE rivals[s]]
      /\ UNCHANGED <<now, moves, faults, member, kickoff, deadline, phases, seeding, latest, rows, order,
                     answer, seen, deleted, inserted, next, limit, gate>>
  BY DEF Send, clock, schedule, seeds, stored, tx
<1>2. PICK b \in Bodies : body' = [body EXCEPT ![r] = b]
  BY DEF Send
<1>3. /\ Types /\ Wholes /\ Orders /\ Deadlines
      /\ \A s \in Requests : Local(s) /\ Held(s) /\ Alone(s)
  BY DEF IInv
<1>4. Types'
  <2>1. body' \in [Requests -> [group : Groups \cup {None}, picks : Seq(Ids)]]
    <3>1. b \in [group : Groups \cup {None}, picks : Seq(Ids)]
      BY ConstantsAssumption
    <3> QED BY <1>2, <1>3, <3>1 DEF Types
  <2>2. rivals' \in [Requests -> SUBSET Requests] /\ pc' \in [Requests -> Stage]
    BY <1>1, <1>3 DEF Types, Stage
  <2> QED BY <1>1, <1>3, <2>1, <2>2 DEF Types
<1>5. pc'[r] = "member" /\ \A s \in Requests \ {r} : Rests(s)
  BY <1>1, <1>2, <1>3 DEF Types, Rests
<1>6. LatestGrows /\ OverStays
  <2>1. LatestGrows
    BY <1>1 DEF LatestGrows
  <2>2. ASSUME NEW s \in Requests, pc[s] = "done"
        PROVE  pc'[s] = "done" /\ body'[s] = body[s] /\ gate'[s] = gate[s]
    <3>1. s # r
      BY <1>1, <2>2
    <3> QED BY <1>5, <2>2, <3>1 DEF Rests
  <2> QED BY <2>1, <2>2 DEF OverStays
<1>7. \A s \in Requests : Local(s)'
  <2>1. Local(r)'
    <3>1. answer[r] # "ok"
      BY <1>1, <1>3 DEF Local
    <3> QED BY <1>1, <1>3, <1>5, <3>1 DEF Local
  <2> QED BY <1>3, <1>5, <1>6, <2>1, LocalStays
<1>8. \A s \in Requests : Held(s)'
  <2>1. Held(r)'
    <3>1. ~Open(r) /\ ~Open(r)'
      BY <1>1, <1>5 DEF Open
    <3> QED BY <1>1, <1>3, <1>5, <3>1 DEF Held
  <2>2. \A s \in Requests \ {r} : Held(s)'
    BY <1>1, <1>3, <1>5, HeldStays
  <2> QED BY <2>1, <2>2
<1>9. ASSUME NEW s \in Requests PROVE Alone(s)'
  <2>1. CASE s = r
    <3>1. answer'[r] # "ok"
      BY <1>1, <1>3 DEF Local
    <3>2. rivals'[r] = {} => \A q \in Requests \ {r} : pc[q] \in {"idle", "done"}
      BY <1>1
    <3>3. \A q \in Requests \ {r} : pc'[q] = pc[q]
      BY <1>5 DEF Rests
    <3> QED BY <1>5, <2>1, <3>1, <3>2, <3>3 DEF Alone
  <2>2. CASE s # r
    <3>1. pc[s] # "idle" => rivals'[s] # {}
      BY <1>1, <2>2
    <3>2. pc'[s] = pc[s]
      BY <1>5, <2>2 DEF Rests
    <3> QED BY <3>1, <3>2 DEF Alone
  <2> QED BY <2>1, <2>2
<1>10. Wholes'
  BY <1>1, <1>3, <1>6, WholesStay
<1>11. Orders'
  BY <1>1, <1>3, <1>6, OrdersStay
<1>12. Deadlines'
  BY <1>1, <1>3 DEF Deadlines
<1>13. \A s, q \in Requests : s # q => Apart(s, q)'
  BY <1>1 DEF IInv, Apart
<1> QED BY <1>4, <1>7, <1>8, <1>9, <1>10, <1>11, <1>12, <1>13 DEF IInv

LEMMA WorldKeeps ==
  ASSUME IInv, UNCHANGED <<stored, pc, body, answer, tx, request>>, Types', Deadlines', LatestGrows
  PROVE  IInv'
<1>1. UNCHANGED <<rows, order, pc, body, answer, seen, deleted, inserted, next, limit, gate, rivals>>
  BY DEF stored, tx, request
<1>2. /\ Types /\ Wholes /\ Orders
      /\ \A s \in Requests : Local(s) /\ Held(s) /\ Alone(s)
  BY DEF IInv
<1>3. OverStays /\ \A s \in Requests : Rests(s)
  BY <1>1 DEF OverStays, Rests
<1>4. \A s \in Requests : Local(s)' /\ Held(s)'
  BY <1>1, <1>2, <1>3, LocalStays, HeldStays
<1>5. Wholes' /\ Orders'
  BY <1>1, <1>2, <1>3, WholesStay, OrdersStay
<1>6. \A s \in Requests : Alone(s)'
  BY <1>1, <1>2 DEF Alone, TeamIds
<1>7. \A s, q \in Requests : s # q => Apart(s, q)'
  BY <1>1 DEF IInv, Apart
<1> QED BY <1>4, <1>5, <1>6, <1>7 DEF IInv

LEMMA WorldStepsKeep ==
  ASSUME IInv,
         \/ Tick \/ Join \/ Reschedule \/ StartSeeding \/ SeedPhases \/ SeedingDies
         \/ \E g \in Groups : UpsertGroup(g)
  PROVE  IInv'
<1>1. Types /\ Deadlines
  BY DEF IInv
<1>2. CASE Tick \/ Join
  <2>1. now' \in Time /\ member' \in BOOLEAN
    <3>1. CASE Tick
      <4>1. now \in 0..MaxTime /\ now < MaxTime /\ now' = now + 1 /\ member' = member /\ MaxTime \in Nat
        BY <1>1, <3>1, ConstantsAssumption DEF Tick, Types, Time, schedule
      <4>2. now' \in 0..MaxTime
        BY <4>1
      <4> QED BY <1>1, <4>1, <4>2 DEF Types, Time
    <3>2. CASE Join
      BY <1>1, <3>2 DEF Join, Types, clock
    <3> QED BY <1>2, <3>1, <3>2
  <2>2. /\ UNCHANGED <<moves, faults, kickoff, deadline, phases, seeding, latest>>
        /\ UNCHANGED <<stored, pc, body, answer, tx, request>>
    BY <1>2 DEF Tick, Join, clock, schedule, seeds
  <2>3. Types'
    BY <1>1, <2>1, <2>2 DEF Types, stored, tx, request
  <2>4. Deadlines' /\ LatestGrows
    BY <1>1, <2>2 DEF Deadlines, LatestGrows, request
  <2> QED BY <2>2, <2>3, <2>4, WorldKeeps
<1>3. CASE Reschedule
  <2>1. /\ moves' = moves + 1 /\ moves < MaxMoves /\ kickoff' \in Time
        /\ UNCHANGED <<now, faults, member, deadline, phases, seeding, latest>>
        /\ UNCHANGED <<stored, pc, body, answer, tx, request>>
    BY <1>3 DEF Reschedule, Move, seeds
  <2>2. moves' \in 0..MaxMoves /\ moves' # 0
    BY <1>1, <2>1, ConstantsAssumption DEF Types
  <2>3. Types'
    BY <1>1, <2>1, <2>2 DEF Types, stored, tx, request
  <2>4. Deadlines' /\ LatestGrows
    BY <1>1, <2>1, <2>2 DEF Deadlines, LatestGrows
  <2> QED BY <2>1, <2>3, <2>4, WorldKeeps
<1>4. CASE StartSeeding
  <2>1. /\ seeding' = [todo |-> Groups, to |-> kickoff]
        /\ UNCHANGED <<now, moves, faults, member, kickoff, deadline, phases, latest>>
        /\ UNCHANGED <<stored, pc, body, answer, tx, request>>
    BY <1>4 DEF StartSeeding, clock
  <2>2. seeding' \in [todo : SUBSET Groups, to : Time]
    BY <1>1, <2>1 DEF Types
  <2>3. Types'
    BY <1>1, <2>1, <2>2 DEF Types, stored, tx, request
  <2>4. Deadlines' /\ LatestGrows
    BY <1>1, <2>1 DEF Deadlines, LatestGrows, request
  <2> QED BY <2>1, <2>3, <2>4, WorldKeeps
<1>5. CASE SeedPhases \/ SeedingDies
  <2>1. /\ seeding' = None /\ phases' \in BOOLEAN /\ moves' \in {moves, moves + 1}
        /\ moves' = moves \/ moves < MaxMoves
        /\ UNCHANGED <<now, faults, member, kickoff, deadline, latest>>
        /\ UNCHANGED <<stored, pc, body, answer, tx, request>>
    BY <1>1, <1>5 DEF SeedPhases, SeedingDies, Move, clock, Types
  <2>2. moves' \in 0..MaxMoves /\ (moves' = 0 => moves = 0)
    BY <1>1, <2>1, ConstantsAssumption DEF Types
  <2>3. Types'
    BY <1>1, <2>1, <2>2 DEF Types, stored, tx, request
  <2>4. Deadlines' /\ LatestGrows
    BY <1>1, <2>1, <2>2 DEF Deadlines, LatestGrows, request
  <2> QED BY <2>1, <2>3, <2>4, WorldKeeps
<1>6. ASSUME NEW g \in Groups, UpsertGroup(g) PROVE IInv'
  <2>1. /\ seeding # None /\ seeding' = [seeding EXCEPT !.todo = @ \ {g}]
        /\ deadline' = [deadline EXCEPT ![g] = seeding.to]
        /\ latest' = IF latest = None \/ latest < seeding.to THEN seeding.to ELSE latest
        /\ UNCHANGED <<now, moves, faults, member, kickoff, phases>>
        /\ UNCHANGED <<stored, pc, body, answer, tx, request>>
    BY <1>6 DEF UpsertGroup, clock
  <2>2. seeding \in [todo : SUBSET Groups, to : Time]
    BY <1>1, <2>1 DEF Types
  <2>3. seeding' \in [todo : SUBSET Groups, to : Time] /\ seeding'.to = seeding.to /\ seeding.to \in Time
    BY <2>1, <2>2
  <2>4. latest' \in Time /\ seeding.to <= latest' /\ (latest # None => latest <= latest')
    <3>1. latest \in Time \cup {None}
      BY <1>1 DEF Types
    <3>2. CASE latest = None
      BY <2>1, <2>3, <3>2, TimeOrder
    <3>3. CASE latest # None
      BY <2>1, <2>3, <3>1, <3>3, TimeOrder
    <3> QED BY <3>2, <3>3
  <2>5. LatestGrows
    BY <2>4 DEF LatestGrows
  <2>6. Types'
    BY <1>1, <2>1, <2>3, <2>4 DEF Types, stored, tx, request
  <2>7. \A h \in Groups : deadline'[h] = IF h = g THEN seeding.to ELSE deadline[h]
    BY <1>1, <2>1 DEF Types
  <2>8. Deadlines'
    <3>1. ASSUME NEW h \in Groups, deadline'[h] # None PROVE latest' # None /\ deadline'[h] <= latest'
      <4>1. CASE h = g
        BY <2>3, <2>4, <2>7, <4>1, TimeOrder
      <4>2. CASE h # g
        <5>1. deadline'[h] = deadline[h] /\ latest # None /\ deadline[h] <= latest
          BY <1>1, <2>7, <3>1, <4>2 DEF Deadlines
        <5>2. deadline[h] \in Time /\ latest \in Time
          BY <1>1, <3>1, <5>1 DEF Types
        <5> QED BY <2>4, <5>1, <5>2, TimeOrder
      <4> QED BY <4>1, <4>2
    <3>2. moves' = 0 => \A h \in Groups : deadline'[h] \in {kickoff', None}
      BY <1>1, <2>1, <2>7 DEF Deadlines
    <3>3. moves' = 0 => seeding'.to = kickoff' /\ \A r \in Requests : limit'[r] \in {kickoff', None}
      BY <1>1, <2>1, <2>3 DEF Deadlines, request
    <3> QED BY <3>1, <3>2, <3>3 DEF Deadlines
  <2> QED BY <2>1, <2>5, <2>6, <2>8, WorldKeeps
<1> QED BY <1>2, <1>3, <1>4, <1>5, <1>6

LEMMA HandleKeeps ==
  ASSUME IInv, NEW r \in Requests, Handle(r)
  PROVE  IInv'
<1>1. CASE RequireMembership(r) \/ ListActive(r) \/ EnforceGlobalGroupDeadline(r)
  BY <1>1, RequireMembershipKeeps, ListActiveKeeps, EnforceGlobalGroupDeadlineKeeps
<1>2. CASE CheckTeams(r) \/ FindGroup(r) \/ ListTeamsInGroup(r)
  BY <1>2, ChecksKeep
<1>3. CASE UpsertOrder(r) \/ StartDelete(r) \/ Delete(r) \/ Insert(r)
  BY <1>3, UpsertOrderKeeps, StartDeleteKeeps, DeleteKeeps, InsertKeeps
<1>4. CASE InsertRefused(r) \/ Deadlock(r) \/ Rollback(r) \/ Commit(r) \/ Land(r)
  BY <1>4, InsertRefusedKeeps, DeadlockKeeps, RollbackKeeps, CommitKeeps, LandKeeps
<1> QED BY <1>1, <1>2, <1>3, <1>4 DEF Handle

LEMMA Inductive == Spec => []IInv
<1>1. IInv /\ [Next]_vars => IInv'
  <2> SUFFICES ASSUME IInv, [Next]_vars PROVE IInv'
    OBVIOUS
  <2>1. ASSUME NEW r \in Requests, Send(r) \/ Handle(r) \/ Fail(r) PROVE IInv'
    BY <2>1, SendKeeps, HandleKeeps, FailKeeps
  <2>2. CASE \/ Tick \/ Join \/ Reschedule \/ StartSeeding \/ SeedPhases \/ SeedingDies
             \/ \E g \in Groups : UpsertGroup(g)
    BY <2>2, WorldStepsKeep
  <2>3. CASE UNCHANGED vars
    <3>1. /\ UNCHANGED <<now, member, kickoff, deadline, phases, seeding, latest, moves, faults>>
          /\ UNCHANGED <<stored, pc, body, answer, tx, request>>
      BY <2>3 DEF vars, stored, tx, request
    <3>2. Types /\ Deadlines
      BY DEF IInv
    <3>3. Types'
      BY <3>1, <3>2 DEF Types, stored, tx, request
    <3>4. Deadlines' /\ LatestGrows
      BY <3>1, <3>2 DEF Deadlines, LatestGrows, request
    <3> QED BY <3>1, <3>3, <3>4, WorldKeeps
  <2> QED BY <2>1, <2>2, <2>3 DEF Next
<1> QED BY <1>1, InvInit, PTL DEF Spec

-----------------------------------------------------------------------------
(* The theorems.                                                           *)

\* The state is well typed, and a request holds rows only while its transaction is
\* open, only of its own team_ids and its own snapshot (replace of best_thirds.rs).
THEOREM TypeCorrectness == Spec => []TypeOK
BY Inductive, InvIsTyped, PTL

\* However many submissions interleave in replace, are refused by the primary key, are
\* the victim of a deadlock or lose their connection: the user's rows are made of whole
\* submissions, each of them valid and accepted before a deadline of the groups.
THEOREM WholeSubmissions == Spec => []WholeSubmissionsOnly
<1>1. IInv => WholeSubmissionsOnly
  <2> SUFFICES ASSUME IInv PROVE WholeSubmissionsOnly
    OBVIOUS
  <2>1. \A g : Landed(g) \subseteq {r \in Requests : InTime(r, g)}
    BY DEF Landed
  <2>2. PICK sent \in SUBSET Landed(None), old \in Earlier \cup {{}} :
          rows = old \cup UNION {TeamIds(r) : r \in sent}
    <3>1. Whole(rows \ UNION {seen[t] : t \in {}})
      BY DEF IInv, Wholes
    <3>2. rows \ UNION {seen[t] : t \in {}} = rows
      OBVIOUS
    <3> QED BY <3>1, <3>2 DEF Whole
  <2>3. sent \in SUBSET {r \in Requests : InTime(r, None)}
    BY <2>1
  <2>4. ASSUME NEW g \in Groups
        PROVE  order[g] = <<>> \/ \E r \in Requests : InTime(r, g) /\ order[g] = body[r].picks
    BY <2>1 DEF IInv, Orders
  <2> QED BY <2>2, <2>3, <2>4 DEF WholeSubmissionsOnly
<1> QED BY <1>1, Inductive, PTL

\* A submission answered with "ok" that met no other one is what the tables hold: no
\* pick of an earlier one is left (replace of best_thirds.rs, upsert of standings.rs).
THEOREM AcknowledgedIsStored == Spec => []AcknowledgedReplaces
<1>1. IInv => AcknowledgedReplaces
  <2> SUFFICES ASSUME IInv, NEW r \in Requests, answer[r] = "ok", rivals[r] = {}
               PROVE  IF body[r].group = None THEN rows = TeamIds(r)
                      ELSE order[body[r].group] = body[r].picks
    BY DEF AcknowledgedReplaces
  <2>1. Local(r) /\ Alone(r)
    BY DEF IInv
  <2>2. pc[r] # "idle"
    BY <2>1 DEF Local
  <2> QED BY <2>1, <2>2 DEF Alone
<1> QED BY <1>1, Inductive, PTL

\* As long as upstream moves no match, no submission passes the deadline from the first
\* kickoff of the group stage on, however the bootstraps write the deadlines
\* (enforce_global_group_deadline, upsert of tournament_groups.rs).
THEOREM GateLocks == Spec => LockedFromKickoffOn
<1> DEFINE Locks == moves = 0 => \A r \in Requests : gate'[r] # gate[r] => now < kickoff
<1>1. IInv /\ [Next]_vars => [Locks]_vars
  <2> SUFFICES ASSUME IInv, Next, moves = 0, NEW r \in Requests, gate'[r] # gate[r]
               PROVE  now < kickoff
    BY DEF vars
  <2>1. Deadlines
    BY DEF IInv
  <2>2. \A s \in Requests : ~Send(s) /\ ~Fail(s)
    BY DEF Send, Fail, request
  <2>3. PICK s \in Requests : Handle(s)
    BY <2>2 DEF Next, Tick, Join, Reschedule, StartSeeding, SeedPhases, SeedingDies, UpsertGroup, request
  <2>4. EnforceGlobalGroupDeadline(s)
    BY <2>3 DEF Handle, RequireMembership, ListActive, CheckTeams, FindGroup, ListTeamsInGroup,
                UpsertOrder, StartDelete, Delete, Insert, InsertRefused, Deadlock, Rollback,
                Commit, Land, request
  <2>5. pc[s] = "gate" /\ now < limit[s] /\ gate' = [gate EXCEPT ![s] = now]
    BY <2>4 DEF EnforceGlobalGroupDeadline
  <2>6. limit[s] # None /\ limit[s] \in {kickoff, None}
    <3>1. Local(s)
      BY DEF IInv
    <3> QED BY <2>1, <2>5, <3>1 DEF Local, Deadlines
  <2> QED BY <2>5, <2>6
<1> QED BY <1>1, Inductive, PTL DEF Spec, LockedFromKickoffOn

=============================================================================
