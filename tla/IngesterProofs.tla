--------------------------- MODULE IngesterProofs ---------------------------
(***************************************************************************)
(* The ingester's safety properties for any set of matches, ids, scores    *)
(* and feed contents and any number of upstream changes and faults.        *)
(***************************************************************************)
EXTENDS Ingester, TLAPS

-----------------------------------------------------------------------------
(* What one write does to the table and to the history.                    *)

\* A row written by process_match replaces the old one entirely: it carries the
\* id of the row it read, so the id ON CONFLICT keeps is the id it has.
LEMMA UpsertReplaces ==
  ASSUME NEW old \in Row \cup {None}, NEW new \in Row,
         old # None => new.id = old.id
  PROVE  Overwrite(old, new) = new
BY DEF Overwrite, Row

\* Every row counts as its status says; an absent one is not finished.
LEMMA FinishedRow ==
  ASSUME NEW row \in Row
  PROVE  IsFinished(row) <=> row.status = "finished"
BY ConstantsAssumption DEF IsFinished

LEMMA CountTurnType ==
  ASSUME NEW count \in [scored : Nat, unscored : Nat],
         NEW old \in Row \cup {None}, NEW new \in Row
  PROVE  /\ CountTurn(count, old, new) \in [scored : Nat, unscored : Nat]
         /\ CountTurn(count, old, new).scored =
              IF IsFinishedTransition(old, new) /\ new.score # None
              THEN count.scored + 1 ELSE count.scored
<1>1. CASE IsFinished(old) \/ ~IsFinished(new)
  BY <1>1, FinishedRow DEF CountTurn, IsFinishedTransition, IsFinished
<1>2. CASE ~(IsFinished(old) \/ ~IsFinished(new)) /\ new.score = None
  BY <1>2 DEF CountTurn
<1>3. CASE ~(IsFinished(old) \/ ~IsFinished(new)) /\ new.score # None
  <2>1. CountTurn(count, old, new) = [count EXCEPT !.scored = @ + 1]
    BY <1>3 DEF CountTurn
  <2>2. IsFinishedTransition(old, new)
    BY <1>3, FinishedRow DEF IsFinishedTransition, IsFinished
  <2> QED BY <1>3, <2>1, <2>2
<1> QED BY <1>1, <1>2, <1>3

-----------------------------------------------------------------------------
(* Types.                                                                  *)

LEMMA InitTypeOK == Init => TypeOK
BY ConstantsAssumption
   DEF Init, TypeOK, EmptyReport, Report, daemon

LEMMA ReturnType ==
  ASSUME TypeOK, NEW m \in Matches, NEW counted \in Report, Return(m, counted)
  PROVE  /\ pc' = "next" /\ cur' = None
         /\ payload' = payload /\ wait' = wait
         /\ todo' \subseteq Matches /\ report' \in Report
BY DEF TypeOK, Return

LEMMA CountType ==
  ASSUME TypeOK, NEW m \in Matches, NEW status
  PROVE  CountOk(m, status) \in Report /\ CountErr(m) \in Report
BY DEF TypeOK, CountOk, CountErr, Report

LEMMA UpsertRowType ==
  ASSUME TypeOK, NEW m \in Matches, NEW new \in Row, UpsertRow(m, new)
  PROVE  /\ rows' \in [Matches -> Row \cup {None}]
         /\ turns' \in [Matches -> [scored : Nat, unscored : Nat]]
<1>1. Overwrite(rows[m], new) \in Row
  BY DEF Overwrite, Row, TypeOK
<1>2. CountTurn(turns[m], rows[m], Overwrite(rows[m], new))
        \in [scored : Nat, unscored : Nat]
  BY <1>1, CountTurnType DEF TypeOK
<1> QED BY <1>1, <1>2 DEF UpsertRow, TypeOK

LEMMA FaultType ==
  ASSUME TypeOK, Fault
  PROVE  faults' \in 0..MaxFaults /\ faults' > 0
BY ConstantsAssumption DEF TypeOK, Fault

\* A step of the daemon, of a fault or of upstream keeps the types.
LEMMA NextTypeOK == TypeOK /\ [Next]_vars => TypeOK'
<1> SUFFICES ASSUME TypeOK, [Next]_vars PROVE TypeOK'
  OBVIOUS
<1> USE ConstantsAssumption
<1>1. ASSUME NEW m \in todo, SkipUnmapped(m) PROVE TypeOK'
  BY <1>1, ReturnType, CountType DEF SkipUnmapped, TypeOK, table, bus
<1>2. ASSUME NEW m \in todo, FindByExternalFails(m) PROVE TypeOK'
  BY <1>2, FaultType, ReturnType, CountType DEF FindByExternalFails, TypeOK, table, bus
<1>3. ASSUME NEW m \in todo, SkipUnchanged(m) PROVE TypeOK'
  BY <1>3, ReturnType, CountType DEF SkipUnchanged, TypeOK, table, bus
<1>4. ASSUME NEW m \in todo, FindByExternal(m) PROVE TypeOK'
  <2>1. PICK id \in MatchIds(rows[m]) :
          cur' = [match |-> m, prev |-> rows[m],
                  new |-> DtoToMatch(payload[m], id), fit |-> payload[m].fit]
    BY <1>4 DEF FindByExternal
  <2>2. m \in Matches /\ payload[m] \in Snapshot /\ rows[m] \in Row \cup {None}
    BY <1>4 DEF FindByExternal, TypeOK
  <2>3. id \in Ids
    BY <2>1, <2>2 DEF MatchIds, FreshIds, Row
  <2>4. cur' \in Work
    BY <2>1, <2>2, <2>3 DEF DtoToMatch, Work, Row, Snapshot
  <2> QED BY <1>4, <2>4 DEF FindByExternal, TypeOK, table, bus
<1>5. CASE Upsert
  <2>1. cur \in Work /\ cur.match \in Matches /\ cur.new \in Row
    BY <1>5 DEF Upsert, TypeOK, Work
  <2>2. /\ rows' \in [Matches -> Row \cup {None}]
        /\ turns' \in [Matches -> [scored : Nat, unscored : Nat]]
    BY <1>5, <2>1, UpsertRowType DEF Upsert
  <2>3. CASE IsFinishedTransition(cur.prev, cur.new) /\ cur.new.score # None
    BY <1>5, <2>2, <2>3 DEF Upsert, TypeOK, bus
  <2>4. CASE ~(IsFinishedTransition(cur.prev, cur.new) /\ cur.new.score # None)
    BY <1>5, <2>1, <2>2, <2>4, ReturnType, CountType DEF Upsert, TypeOK, bus
  <2> QED BY <2>3, <2>4
<1>6. CASE UpsertRejected
  BY <1>6, ReturnType, CountType DEF UpsertRejected, TypeOK, table, bus, Work
<1>7. CASE UpsertFails
  <2>1. cur \in Work /\ cur.match \in Matches /\ cur.new \in Row
    BY <1>7 DEF UpsertFails, TypeOK, Work
  <2>2. /\ rows' \in [Matches -> Row \cup {None}]
        /\ turns' \in [Matches -> [scored : Nat, unscored : Nat]]
    <3>1. CASE UNCHANGED table
      BY <3>1 DEF table, TypeOK
    <3>2. CASE UpsertRow(cur.match, cur.new)
      BY <2>1, <3>2, UpsertRowType
    <3> QED BY <1>7, <3>1, <3>2 DEF UpsertFails
  <2> QED
    BY <1>7, <2>1, <2>2, FaultType, ReturnType, CountType DEF UpsertFails, TypeOK, bus
<1>8. CASE Publish
  <2>1. cur \in Work /\ cur.match \in Matches /\ cur.new \in Row
    BY <1>8 DEF Publish, TypeOK, Work
  <2>2. FinishedEvent \in Event
    BY <1>8, <2>1 DEF Publish, FinishedEvent, Event, Row, TypeOK
  <2> QED BY <1>8, <2>1, <2>2, ReturnType, CountType DEF Publish, TypeOK, table
<1>9. CASE PublishFails
  BY <1>9, FaultType, ReturnType, CountType DEF PublishFails, TypeOK, table, bus, Work
<1>10. CASE Boot \/ EndTick \/ Wake
  BY <1>10 DEF Boot, EndTick, Wake, TypeOK, table, bus
<1>11. CASE Fetch \/ FetchFails \/ Crash
  <2>1. EmptyReport \in Report /\ [EmptyReport EXCEPT !.ok = TRUE] \in Report
    BY DEF EmptyReport, Report
  <2>2. CASE Fetch
    BY <2>1, <2>2 DEF Fetch, TypeOK, table, bus
  <2>3. CASE FetchFails
    BY <2>1, <2>3, FaultType DEF FetchFails, TypeOK, table, bus
  <2>4. CASE Crash
    BY <2>1, <2>4, FaultType DEF Crash, TypeOK, table, bus
  <2> QED BY <1>11, <2>2, <2>3, <2>4
<1>12. ASSUME NEW m \in Matches, FeedChanges(m) PROVE TypeOK'
  BY <1>12 DEF FeedChanges, TypeOK, table, bus, daemon
<1>13. CASE UNCHANGED vars
  BY <1>13 DEF TypeOK, vars
<1> QED
  BY <1>1, <1>2, <1>3, <1>4, <1>5, <1>6, <1>7, <1>8, <1>9, <1>10, <1>11, <1>12, <1>13
  DEF Next, Daemon, Failure, ProcessMatch

\* The types hold in every state of every behaviour: in particular a match is in
\* hand exactly between process_match's lookup and its return.
THEOREM TypesHold == Spec => []TypeOK
BY InitTypeOK, NextTypeOK, PTL DEF Spec

-----------------------------------------------------------------------------
(* The inductive invariant.                                                *)

LEMMA InitIInv == Init => IInv
<1> SUFFICES ASSUME Init PROVE IInv
  OBVIOUS
<1>1. TypeOK
  BY InitTypeOK
<1>2. HandOK /\ CadenceOK
  BY DEF Init, HandOK, CadenceOK, EmptyReport
<1>3. AccountsOK
  <2> SUFFICES ASSUME NEW m \in Matches
               PROVE  /\ emitted[m] + InFlight(m) <= turns[m].scored
                      /\ emitted[m] + InFlight(m) = turns[m].scored
    BY DEF AccountsOK
  <2>1. emitted[m] = 0 /\ turns[m].scored = 0
    BY DEF Init
  <2>2. InFlight(m) = 0
    BY DEF Init, InFlight
  <2> QED BY <2>1, <2>2
<1>4. EventsNameStoredRows
  BY DEF Init, EventsNameStoredRows
<1> QED BY <1>1, <1>2, <1>3, <1>4 DEF IInv

\* The write of the row in hand: the table then holds exactly that row, and the
\* history grows if process_match will call it a transition with scores.
LEMMA UpsertEffect ==
  ASSUME TypeOK, HandOK, pc = "upsert", UpsertRow(cur.match, cur.new)
  PROVE  /\ cur \in Work /\ cur.match \in Matches /\ cur.new \in Row
         /\ rows' = [rows EXCEPT ![cur.match] = cur.new]
         /\ \A m \in Matches : m # cur.match => turns'[m] = turns[m]
         /\ turns'[cur.match].scored =
              IF IsFinishedTransition(cur.prev, cur.new) /\ cur.new.score # None
              THEN turns[cur.match].scored + 1 ELSE turns[cur.match].scored
<1>1. cur \in Work /\ cur.match \in Matches /\ cur.new \in Row
  BY DEF TypeOK, Work
<1>2. cur.prev = rows[cur.match] /\ rows[cur.match] \in Row \cup {None}
  BY <1>1 DEF TypeOK, HandOK
<1>3. Overwrite(rows[cur.match], cur.new) = cur.new
  BY <1>1, <1>2, UpsertReplaces DEF HandOK
<1>4. /\ rows' = [rows EXCEPT ![cur.match] = cur.new]
      /\ turns' = [turns EXCEPT ![cur.match] =
                     CountTurn(turns[cur.match], rows[cur.match], cur.new)]
  BY <1>3 DEF UpsertRow
<1>5. turns[cur.match] \in [scored : Nat, unscored : Nat]
  BY <1>1 DEF TypeOK
<1>6. turns'[cur.match] = CountTurn(turns[cur.match], cur.prev, cur.new)
  BY <1>1, <1>2, <1>4 DEF TypeOK
<1>7. turns'[cur.match].scored =
        IF IsFinishedTransition(cur.prev, cur.new) /\ cur.new.score # None
        THEN turns[cur.match].scored + 1 ELSE turns[cur.match].scored
  <2>1. cur.new \in Row /\ cur.prev \in Row \cup {None}
    BY <1>1, <1>2 DEF HandOK
  <2>2. CountTurn(turns[cur.match], cur.prev, cur.new).scored =
          IF IsFinishedTransition(cur.prev, cur.new) /\ cur.new.score # None
          THEN turns[cur.match].scored + 1 ELSE turns[cur.match].scored
    BY <1>5, <2>1, CountTurnType
  <2> QED BY <1>6, <2>2
<1>8. \A m \in Matches : m # cur.match => turns'[m] = turns[m]
  BY <1>4 DEF TypeOK
<1> QED BY <1>1, <1>4, <1>7, <1>8

\* The steps that leave the table alone, and those that leave NATS alone.
LEMMA TableSteps ==
  ASSUME [Next]_vars
  PROVE  Upsert \/ UpsertFails \/ UNCHANGED <<rows, turns>>
BY DEF Next, Daemon, Failure, ProcessMatch, vars, table, SkipUnmapped,
       FindByExternalFails, SkipUnchanged, FindByExternal, UpsertRejected,
       Publish, PublishFails, Boot, Fetch, FetchFails, EndTick, Wake, Crash,
       FeedChanges

LEMMA BusSteps ==
  ASSUME [Next]_vars
  PROVE  Publish \/ UNCHANGED <<wire, emitted>>
BY DEF Next, Daemon, Failure, ProcessMatch, vars, bus, SkipUnmapped,
       FindByExternalFails, SkipUnchanged, FindByExternal, Upsert,
       UpsertRejected, UpsertFails, PublishFails, Boot, Fetch, FetchFails,
       EndTick, Wake, Crash, FeedChanges

\* HandOK: only the lookup puts a match in hand, only the upsert moves it on.
LEMMA NextHandOK == TypeOK /\ HandOK /\ [Next]_vars => HandOK'
<1> SUFFICES ASSUME TypeOK, HandOK, [Next]_vars PROVE HandOK'
  OBVIOUS
<1>1. ASSUME NEW m \in todo, FindByExternal(m) PROVE HandOK'
  <2>1. PICK id \in MatchIds(rows[m]) :
          cur' = [match |-> m, prev |-> rows[m],
                  new |-> DtoToMatch(payload[m], id), fit |-> payload[m].fit]
    BY <1>1 DEF FindByExternal
  <2>2. rows[m] # None => id = rows[m].id
    BY <2>1 DEF MatchIds
  <2>3. /\ cur'.match = m /\ cur'.prev = rows[m]
        /\ rows[m] # None => cur'.new.id = rows[m].id
    BY <2>1, <2>2 DEF DtoToMatch
  <2> QED BY <1>1, <2>3 DEF FindByExternal, HandOK, table
<1>2. CASE Upsert
  <2>1. UpsertRow(cur.match, cur.new) /\ pc = "upsert"
    BY <1>2 DEF Upsert
  <2>2. CASE IsFinishedTransition(cur.prev, cur.new) /\ cur.new.score # None
    <3>1. pc' = "publish" /\ cur' = cur /\ todo' = todo
      BY <1>2, <2>2 DEF Upsert
    <3>2. rows'[cur.match] = cur.new /\ cur.new.status = "finished"
      BY <2>1, <2>2, UpsertEffect DEF TypeOK, IsFinishedTransition
    <3> QED BY <2>1, <3>1, <3>2 DEF HandOK
  <2>3. CASE ~(IsFinishedTransition(cur.prev, cur.new) /\ cur.new.score # None)
    BY <1>2, <2>3 DEF Upsert, Return, HandOK
  <2> QED BY <2>2, <2>3
<1>3. CASE UNCHANGED vars
  BY <1>3 DEF vars, HandOK
<1>4. ASSUME NEW m \in Matches, FeedChanges(m) PROVE HandOK'
  BY <1>4 DEF FeedChanges, HandOK, table, daemon
<1>5. CASE pc' \notin {"upsert", "publish"}
  BY <1>5 DEF HandOK
<1> QED
  BY <1>1, <1>2, <1>3, <1>4, <1>5
  DEF Next, Daemon, Failure, ProcessMatch, Return, SkipUnmapped,
      FindByExternalFails, SkipUnchanged, UpsertRejected, UpsertFails, Publish,
      PublishFails, Boot, Fetch, FetchFails, EndTick, Wake, Crash

\* AccountsOK: a scored turn is in flight until its publish; only a failure or a
\* crash makes the two counts differ for good.
LEMMA NextAccountsOK ==
  TypeOK /\ HandOK /\ AccountsOK /\ [Next]_vars => AccountsOK'
<1> SUFFICES ASSUME TypeOK, HandOK, AccountsOK, [Next]_vars PROVE AccountsOK'
  OBVIOUS
<1>a. \A m \in Matches : emitted[m] \in Nat /\ turns[m].scored \in Nat
  BY DEF TypeOK
<1>b. faults \in Nat
  BY ConstantsAssumption DEF TypeOK
<1>1. CASE Upsert
  <2>1. UpsertRow(cur.match, cur.new) /\ pc = "upsert" /\ emitted' = emitted
        /\ faults' = faults
    BY <1>1 DEF Upsert, bus
  <2>2. CASE IsFinishedTransition(cur.prev, cur.new) /\ cur.new.score # None
    <3>1. pc' = "publish" /\ cur' = cur
      BY <1>1, <2>2 DEF Upsert
    <3> QED
      BY <1>a, <2>1, <2>2, <3>1, UpsertEffect DEF AccountsOK, InFlight
  <2>3. CASE ~(IsFinishedTransition(cur.prev, cur.new) /\ cur.new.score # None)
    <3>1. pc' = "next"
      BY <1>1, <2>3 DEF Upsert, Return
    <3> QED
      BY <1>a, <2>1, <2>3, <3>1, UpsertEffect DEF AccountsOK, InFlight
  <2> QED BY <2>2, <2>3
<1>2. CASE UpsertFails
  <2>1. pc = "upsert" /\ pc' = "next" /\ emitted' = emitted
    BY <1>2 DEF UpsertFails, Return, bus
  <2>2. faults' > 0
    BY <1>2, FaultType DEF UpsertFails
  <2>3. \A m \in Matches : turns'[m].scored \in {turns[m].scored, turns[m].scored + 1}
    <3>1. CASE UNCHANGED table
      BY <3>1 DEF table
    <3>2. CASE UpsertRow(cur.match, cur.new)
      BY <2>1, <3>2, UpsertEffect
    <3> QED BY <1>2, <3>1, <3>2 DEF UpsertFails
  <2> QED BY <1>a, <2>1, <2>2, <2>3 DEF AccountsOK, InFlight
<1>3. CASE Publish
  <2>1. cur.match \in Matches
    BY <1>3 DEF Publish, TypeOK, Work
  <2>2. pc = "publish" /\ pc' = "next" /\ turns' = turns /\ faults' = faults
        /\ emitted' = [emitted EXCEPT ![cur.match] = @ + 1]
    BY <1>3 DEF Publish, Return, table
  <2> QED BY <1>a, <2>1, <2>2 DEF AccountsOK, InFlight, TypeOK
<1>4. CASE PublishFails \/ Crash
  <2>1. pc' # "publish" /\ turns' = turns /\ emitted' = emitted
    BY <1>4 DEF PublishFails, Crash, Return, table, bus
  <2>2. faults' > 0
    BY <1>4, FaultType DEF PublishFails, Crash
  <2> QED BY <1>a, <2>1, <2>2 DEF AccountsOK, InFlight
<1>5. CASE /\ UNCHANGED <<turns, emitted>> /\ faults' >= faults
           /\ pc # "publish" /\ pc' # "publish"
  BY <1>a, <1>b, <1>5 DEF AccountsOK, InFlight
<1>6. CASE UNCHANGED <<turns, emitted, pc, cur, faults>>
  BY <1>6 DEF AccountsOK, InFlight
<1> QED
  BY <1>1, <1>2, <1>3, <1>4, <1>5, <1>6, <1>b
  DEF Next, Daemon, Failure, ProcessMatch, Return, Fault, table, bus, daemon,
      vars, SkipUnmapped, FindByExternalFails, SkipUnchanged, FindByExternal,
      UpsertRejected, Boot, Fetch, FetchFails, EndTick, Wake, FeedChanges

\* EventsNameStoredRows: a stored row is only ever replaced by one with its id,
\* and a publish names the row in hand.
LEMMA NextEventsNameStoredRows ==
  TypeOK /\ HandOK /\ EventsNameStoredRows /\ [Next]_vars => EventsNameStoredRows'
<1> SUFFICES ASSUME TypeOK, HandOK, EventsNameStoredRows, [Next]_vars
             PROVE  EventsNameStoredRows'
  OBVIOUS
<1>1. \A m \in Matches : rows[m] # None => /\ rows'[m] # None
                                         /\ rows'[m].id = rows[m].id
  <2>1. CASE UNCHANGED rows
    BY <2>1
  <2>2. CASE pc = "upsert" /\ UpsertRow(cur.match, cur.new)
    BY <2>2, UpsertEffect, ConstantsAssumption DEF HandOK, TypeOK
  <2> QED BY <2>1, <2>2, TableSteps DEF Upsert, UpsertFails, table
<1>2. \A e \in wire : e \in Event
  BY DEF TypeOK
<1>3. CASE UNCHANGED wire
  BY <1>1, <1>2, <1>3 DEF EventsNameStoredRows, Event
<1>4. CASE Publish
  <2>1. /\ wire' = wire \cup {FinishedEvent} /\ rows' = rows
        /\ pc = "publish"
    BY <1>4 DEF Publish, table
  <2>2. cur.new \in Row /\ rows[cur.match] = cur.new
    BY <2>1 DEF HandOK, TypeOK, Work
  <2>3. rows[FinishedEvent.match] # None
        /\ rows[FinishedEvent.match].id = FinishedEvent.id
    BY <2>2, ConstantsAssumption DEF FinishedEvent
  <2> QED BY <2>1, <2>3 DEF EventsNameStoredRows
<1> QED BY <1>3, <1>4, BusSteps

\* CadenceOK: however process_match returns, the match it is done with is either
\* skipped or counted by the status its row has.
LEMMA ReturnCadenceOK ==
  ASSUME TypeOK, CadenceOK, pc \in {"next", "upsert", "publish"},
         NEW m \in Matches, NEW counted, Return(m, counted),
         \A x \in Matches \ {m} : rows'[x] = rows[x],
         \/ counted = CountErr(m)
         \/ \E status : /\ counted = CountOk(m, status)
                        /\ rows'[m] # None => rows'[m].status = status
  PROVE  CadenceOK'
<1>1. /\ pc' = "next" /\ todo' = todo \ {m} /\ report' = counted
  BY DEF Return
<1>2. report \in Report
  BY DEF TypeOK
<1>3. CASE counted = CountErr(m)
  <2>1. /\ report'.ok = report.ok /\ report'.live = report.live
        /\ report'.skipped = report.skipped \cup {m}
    BY <1>1, <1>2, <1>3 DEF CountErr, Report
  <2> QED BY <1>1, <2>1 DEF CadenceOK
<1>4. ASSUME NEW status, counted = CountOk(m, status),
             rows'[m] # None => rows'[m].status = status
      PROVE  CadenceOK'
  <2>1. /\ report'.ok = report.ok /\ report'.skipped = report.skipped
        /\ report.live \subseteq report'.live
        /\ status \in Live => m \in report'.live
    BY <1>1, <1>2, <1>4 DEF CountOk, Report
  <2> QED BY <1>1, <1>4, <2>1 DEF CadenceOK
<1> QED BY <1>3, <1>4

LEMMA NextCadenceOK ==
  TypeOK /\ HandOK /\ CadenceOK /\ [Next]_vars => CadenceOK'
<1> SUFFICES ASSUME TypeOK, HandOK, CadenceOK, [Next]_vars PROVE CadenceOK'
  OBVIOUS
<1>1. ASSUME NEW m \in todo, SkipUnmapped(m) \/ FindByExternalFails(m)
      PROVE  CadenceOK'
  BY <1>1, ReturnCadenceOK DEF SkipUnmapped, FindByExternalFails, table, TypeOK
<1>2. ASSUME NEW m \in todo, SkipUnchanged(m) PROVE CadenceOK'
  <2>1. /\ m \in Matches /\ pc = "next" /\ rows' = rows
        /\ Return(m, CountOk(m, payload[m].status))
    BY <1>2 DEF SkipUnchanged, table, TypeOK
  <2>2. rows[m].status = payload[m].status
    BY <1>2 DEF SkipUnchanged, Unchanged, DtoToMatch
  <2> QED BY <2>1, <2>2, ReturnCadenceOK
<1>3. CASE Upsert
  <2>1. pc = "upsert" /\ UpsertRow(cur.match, cur.new)
    BY <1>3 DEF Upsert
  <2>2. /\ cur.match \in Matches /\ cur.match \in todo
        /\ \A x \in Matches \ {cur.match} : rows'[x] = rows[x]
        /\ rows'[cur.match] = cur.new
    BY <2>1, UpsertEffect DEF HandOK, TypeOK
  <2>3. CASE IsFinishedTransition(cur.prev, cur.new) /\ cur.new.score # None
    BY <1>3, <2>1, <2>2, <2>3 DEF Upsert, CadenceOK
  <2>4. CASE ~(IsFinishedTransition(cur.prev, cur.new) /\ cur.new.score # None)
    BY <1>3, <2>1, <2>2, <2>4, ReturnCadenceOK DEF Upsert
  <2> QED BY <2>3, <2>4
<1>4. CASE UpsertFails
  <2>1. pc = "upsert" /\ Return(cur.match, CountErr(cur.match))
    BY <1>4 DEF UpsertFails
  <2>2. cur.match \in Matches
    BY <2>1 DEF TypeOK, Work
  <2>3. \A x \in Matches \ {cur.match} : rows'[x] = rows[x]
    BY <1>4, <2>1, UpsertEffect DEF UpsertFails, TypeOK, table
  <2> QED BY <2>1, <2>2, <2>3, ReturnCadenceOK
<1>5. CASE UpsertRejected \/ PublishFails
  <2>1. /\ pc \in {"upsert", "publish"} /\ rows' = rows
        /\ Return(cur.match, CountErr(cur.match))
    BY <1>5 DEF UpsertRejected, PublishFails, table
  <2>2. cur.match \in Matches
    BY <2>1 DEF TypeOK, Work
  <2> QED BY <2>1, <2>2, ReturnCadenceOK
<1>6. CASE Publish
  <2>1. /\ pc = "publish" /\ rows' = rows
        /\ Return(cur.match, CountOk(cur.match, cur.new.status))
    BY <1>6 DEF Publish, table
  <2>2. cur.match \in Matches /\ rows[cur.match] = cur.new
    BY <2>1 DEF HandOK, TypeOK, Work
  <2> QED BY <2>1, <2>2, ReturnCadenceOK
<1>7. ASSUME NEW m \in todo, FindByExternal(m) PROVE CadenceOK'
  BY <1>7 DEF FindByExternal, CadenceOK, table
<1>8. CASE Boot \/ Wake \/ Crash
  BY <1>8 DEF Boot, Wake, Crash, CadenceOK
<1>9. CASE Fetch
  BY <1>9 DEF Fetch, CadenceOK
<1>10. CASE FetchFails
  BY <1>10 DEF FetchFails, EmptyReport, CadenceOK
<1>11. CASE EndTick
  BY <1>11 DEF EndTick, CadenceOK, table
<1>12. ASSUME NEW m \in Matches, FeedChanges(m) PROVE CadenceOK'
  BY <1>12 DEF FeedChanges, CadenceOK, table, daemon
<1>13. CASE UNCHANGED vars
  BY <1>13 DEF vars, CadenceOK
<1> QED
  BY <1>1, <1>2, <1>3, <1>4, <1>5, <1>6, <1>7, <1>8, <1>9, <1>10, <1>11, <1>12, <1>13
  DEF Next, Daemon, Failure, ProcessMatch

\* The inductive invariant, of which the properties below are consequences.
THEOREM Inductive == Spec => []IInv
<1>1. IInv /\ [Next]_vars => IInv'
  BY NextTypeOK, NextHandOK, NextAccountsOK, NextEventsNameStoredRows, NextCadenceOK
  DEF IInv
<1> QED BY InitIInv, <1>1, PTL DEF Spec

-----------------------------------------------------------------------------
(* The promises.                                                           *)

\* No match is announced more often than its row turned finished with a score,
\* whatever fails and however often the daemon restarts.
THEOREM AnnouncedAtMostOncePerTurn == Spec => []AtMostOncePerTurn
<1>1. IInv => AtMostOncePerTurn
  <2> SUFFICES ASSUME IInv, NEW m \in Matches PROVE emitted[m] <= turns[m].scored
    BY DEF AtMostOncePerTurn
  <2>1. emitted[m] \in Nat /\ turns[m].scored \in Nat
    BY DEF IInv, TypeOK
  <2>2. emitted[m] + InFlight(m) <= turns[m].scored /\ InFlight(m) \in {0, 1}
    BY DEF IInv, AccountsOK, InFlight
  <2> QED BY <2>1, <2>2
<1> QED BY <1>1, Inductive, PTL

\* Without a failed call or a crash every scored turn has been announced.
THEOREM AnnouncedWithoutFaults == Spec => []NothingLostWithoutFaults
<1>1. IInv => NothingLostWithoutFaults
  <2> SUFFICES ASSUME IInv, faults = 0, pc # "publish", NEW m \in Matches
               PROVE  emitted[m] = turns[m].scored
    BY DEF NothingLostWithoutFaults
  <2>1. emitted[m] \in Nat
    BY DEF IInv, TypeOK
  <2>2. emitted[m] + InFlight(m) = turns[m].scored /\ InFlight(m) = 0
    BY DEF IInv, AccountsOK, InFlight
  <2> QED BY <2>1, <2>2
<1> QED BY <1>1, Inductive, PTL

\* The match_id of every event is the id of a stored row, for ever.
THEOREM EventsReferToRows == Spec => []EventsNameStoredRows
<1>1. IInv => EventsNameStoredRows
  BY DEF IInv
<1> QED BY <1>1, Inductive, PTL

\* A clean tick that saw a live match is followed by the fast cadence.
THEOREM LiveMeansFast == Spec => []NoLiveRowPolledSlowly
<1>1. IInv => NoLiveRowPolledSlowly
  BY DEF IInv, TypeOK, CadenceOK, NoLiveRowPolledSlowly
<1> QED BY <1>1, Inductive, PTL

\* An event goes out only for a row stored as finished, with the row's score.
THEOREM StoreBeforeAnnounce == Spec => AnnounceFollowsStore
<1>1. IInv /\ [Next]_vars =>
        [\A m \in Matches : emitted'[m] # emitted[m] =>
           /\ IsFinished(rows[m])
           /\ [match |-> m, id |-> rows[m].id, score |-> rows[m].score] \in wire']_vars
  <2> SUFFICES ASSUME IInv, [Next]_vars, NEW m \in Matches, emitted'[m] # emitted[m]
               PROVE  /\ IsFinished(rows[m])
                      /\ [match |-> m, id |-> rows[m].id, score |-> rows[m].score]
                           \in wire'
    OBVIOUS
  <2>1. Publish
    BY BusSteps
  <2>2. /\ pc = "publish" /\ cur \in Work
        /\ emitted' = [emitted EXCEPT ![cur.match] = @ + 1]
        /\ wire' = wire \cup {FinishedEvent}
    BY <2>1, ConstantsAssumption DEF Publish, IInv, TypeOK
  <2>3. m = cur.match
    BY <2>2 DEF IInv, TypeOK
  <2>4. rows[m] = cur.new /\ cur.new \in Row /\ cur.new.status = "finished"
    BY <2>2, <2>3 DEF IInv, HandOK, Work
  <2> QED BY <2>2, <2>3, <2>4, FinishedRow DEF FinishedEvent
<1> QED BY <1>1, Inductive, PTL DEF Spec, AnnounceFollowsStore

-----------------------------------------------------------------------------
(* The daemon implements MatchNotice.                                      *)

LEMMA InitRefines == Init => Notice!Init
BY DEF Init, Notice!Init, IsFinished

\* The write: a turn (with or without a right to announce), its undoing, or
\* nothing MatchNotice sees.
LEMMA UpsertRefines ==
  ASSUME IInv, UpsertRow(cur.match, cur.new), emitted' = emitted,
         pc = "upsert", pc' # "publish" \/ (pc' = "publish" /\ cur' = cur),
         pc' = "publish" => IsFinishedTransition(cur.prev, cur.new)
  PROVE  Notice!Next \/ UNCHANGED Notice!vars
<1> DEFINE F == {m \in Matches : IsFinished(rows[m])}
           c == cur.match
           owed == IF pc = "publish" THEN {cur.match} ELSE {}
<1>1. /\ c \in Matches /\ cur.new \in Row
      /\ rows' = [rows EXCEPT ![c] = cur.new]
  BY UpsertEffect DEF IInv
<1>2. rows'[c] = cur.new /\ \A m \in Matches : m # c => rows'[m] = rows[m]
  BY <1>1 DEF IInv, TypeOK
<1>3. IsFinishedTransition(cur.prev, cur.new) <=> c \notin F /\ IsFinished(cur.new)
  <2>1. cur.prev = rows[c]
    BY DEF IInv, HandOK
  <2> QED BY <1>1, <2>1, FinishedRow DEF IsFinishedTransition, IsFinished
<1>4. owed = {} /\ owed' \in {{}, {c}}
  OBVIOUS
<1>5. CASE c \notin F /\ IsFinished(cur.new)
  <2>1. F' = F \cup {c}
    BY <1>1, <1>2, <1>5 DEF IsFinished
  <2>2. Notice!Finish(c)
    BY <1>4, <1>5, <2>1 DEF Notice!Finish
  <2> QED BY <1>1, <2>2 DEF Notice!Next
<1>6. CASE c \in F /\ ~IsFinished(cur.new)
  <2>1. F' = F \ {c}
    BY <1>1, <1>2, <1>6 DEF IsFinished
  <2>2. owed' = {}
    BY <1>3, <1>6
  <2>3. Notice!Reopen(c)
    BY <1>4, <1>6, <2>1, <2>2 DEF Notice!Reopen
  <2> QED BY <1>1, <2>3 DEF Notice!Next
<1>7. CASE c \in F <=> IsFinished(cur.new)
  <2>1. F' = F
    BY <1>1, <1>2, <1>7 DEF IsFinished
  <2>2. owed' = {}
    BY <1>3, <1>7
  <2> QED BY <1>4, <2>1, <2>2 DEF Notice!vars
<1> QED BY <1>5, <1>6, <1>7

LEMMA NextRefines == IInv /\ [Next]_vars => [Notice!Next]_(Notice!vars)
<1> SUFFICES ASSUME IInv, [Next]_vars
             PROVE  Notice!Next \/ UNCHANGED Notice!vars
  OBVIOUS
<1>1. CASE Upsert
  BY <1>1, UpsertRefines DEF Upsert, Return, bus
<1>2. CASE UpsertFails
  <2>1. pc = "upsert" /\ pc' = "next" /\ emitted' = emitted
    BY <1>2 DEF UpsertFails, Return, bus
  <2>2. CASE UNCHANGED table
    BY <2>1, <2>2 DEF Notice!vars, table
  <2>3. CASE UpsertRow(cur.match, cur.new)
    BY <2>1, <2>3, UpsertRefines
  <2> QED BY <1>2, <2>2, <2>3 DEF UpsertFails
<1>3. CASE Publish
  <2>1. /\ pc = "publish" /\ pc' = "next" /\ rows' = rows
        /\ emitted' = [emitted EXCEPT ![cur.match] = @ + 1]
        /\ cur.match \in Matches
    BY <1>3 DEF Publish, Return, table, IInv, TypeOK, Work
  <2>2. Notice!Notify(cur.match)
    BY <2>1 DEF Notice!Notify
  <2> QED BY <2>1, <2>2 DEF Notice!Next
<1>4. CASE PublishFails \/ Crash
  <2>1. pc' # "publish" /\ rows' = rows /\ emitted' = emitted
    BY <1>4 DEF PublishFails, Crash, Return, table, bus
  <2>2. CASE pc = "publish"
    <3>1. cur.match \in Matches
      BY <2>2 DEF IInv, TypeOK, Work
    <3>2. Notice!Drop(cur.match)
      BY <2>1, <2>2 DEF Notice!Drop
    <3> QED BY <3>1, <3>2 DEF Notice!Next
  <2>3. CASE pc # "publish"
    BY <2>1, <2>3 DEF Notice!vars
  <2> QED BY <2>2, <2>3
<1>5. CASE UNCHANGED <<rows, emitted>> /\ pc # "publish" /\ pc' # "publish"
  BY <1>5 DEF Notice!vars
<1>6. CASE UNCHANGED <<rows, emitted, pc, cur>>
  BY <1>6 DEF Notice!vars
<1> QED
  BY <1>1, <1>2, <1>3, <1>4, <1>5, <1>6
  DEF Next, Daemon, Failure, ProcessMatch, Return, table, bus, daemon, vars,
      SkipUnmapped, FindByExternalFails, SkipUnchanged, FindByExternal,
      UpsertRejected, Boot, Fetch, FetchFails, EndTick, Wake, FeedChanges

\* Every behaviour of the daemon, seen through its table and its published
\* events, is one MatchNotice allows.
THEOREM Refinement == Spec => ImplementsMatchNotice
BY InitRefines, NextRefines, Inductive, PTL DEF Spec, ImplementsMatchNotice, Notice!Spec
=============================================================================
