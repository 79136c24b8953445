---------------------------- MODULE Positions_proofs ----------------------------
(***************************************************************************)
(* SlotsInv and PositionsInv are inductive invariants of the trading       *)
(* cycle: what the ledger holds fits in the position slots, and is what    *)
(* its fills say, however the steps of the cycle interleave with crashes,  *)
(* failed writes and the broker.                                           *)
(***************************************************************************)
EXTENDS CycleSafety_proofs, Arithmetic_proofs, FiniteSetTheorems

-------------------------------------------------------------------------------
(***************************************************************************)
(* Steps that move no shares.                                              *)
(***************************************************************************)

\* M and L hold the same shares, fills and trades.
SameShares(M, L) == M.pos = L.pos /\ M.fills = L.fills /\ M.trades = L.trades

\* Nothing is bought or sold: what is committed and what is pending stay, or are
\* committed, or what is pending is lost.
StillShares ==
    \/ SameShares(db', db) /\ SameShares(work', work)
    \/ SameShares(db', work) /\ SameShares(work', work)
    \/ SameShares(db', db) /\ SameShares(work', db)

\* Such a step that plans no buy and takes up no order.
QuietStep ==
    /\ StillShares
    /\ \A o \in todo' : o \in todo \/ o.side = "sell"
    /\ pc' \in Deciding =>
           /\ pc \in Deciding \/ (pc = "idle" /\ todo = {})
           /\ SameShares(db', db) /\ SameShares(work', work)
    /\ pc' \in Handling =>
           /\ pc \in Handling /\ cur' = cur
           /\ SameShares(work', work) /\ SameShares(db', db) /\ work'.qty = work.qty

\* The rows of cycles, decisions, orders and the engine's state hold no shares.
LEMMA RowShares ==
  ASSUME NEW L \in LedgerState
  PROVE  /\ \A c \in Cycles : SameShares(InsertCycle(L, c), L)
         /\ \A D \in SUBSET Order : SameShares(InsertDecisions(L, D), L)
         /\ \A o \in Order, q \in 1..Lot : SameShares(RecordOrder(L, o, q), L)
         /\ \A o \in Order, s \in OrderStatus : SameShares(SetStatus(L, o, s), L)
         /\ \A c \in Cycles, r \in CycleOutcome : SameShares(FinishCycle(L, c, r), L)
         /\ \A b \in BOOLEAN : SameShares([L EXCEPT !.halted = b], L)
  BY DEF LedgerState, SameShares, InsertCycle, InsertDecisions, RecordOrder, SetStatus,
         FinishCycle

\* A cycle starts, judges its holdings and its risk, or fails to, without moving
\* a share.
LEMMA JudgingIsQuiet ==
  ASSUME IInv, InHand, InHand',
         \/ StartCycle
         \/ \E isOpen \in BOOLEAN, T, M \in SUBSET Tickers : EvaluateHoldings(isOpen, T, M)
         \/ WithinLimits
         \/ MarketClockUnavailable
         \/ AccountUnavailable
         \/ SnapshotFails
         \/ \E T \in SUBSET Tickers : HoldingsFail(T) \/ CandidatesFail(T)
  PROVE  QuietStep
  <1> USE DEF Deciding, Handling
  <1>0. /\ work \in LedgerState /\ db \in LedgerState
        /\ SameShares(work, work) /\ SameShares(db, db)
    BY DEF IInv, TypeOK, SameShares
  <1>1. CASE StartCycle
    <2>1. /\ cycle' \in Cycles /\ pc = "idle" /\ todo = {} /\ todo' = {} /\ db' = db
          /\ pc' \in {"market", "finish"}
      BY <1>1 DEF StartCycle, EndWith, IInv, TodoOfCycle, InHand
    <2>2. InsertCycle(work, cycle') \in LedgerState
      BY <1>0, <2>1, InsertTypes
    <2>3. SameShares(work', work)
      <3>1. CASE work' = InsertCycle(work, cycle')
        BY <1>0, <2>1, <3>1, RowShares
      <3>2. ASSUME NEW T \in SUBSET Held(work),
                   work' = InsertDecisions(InsertCycle(work, cycle'),
                       {[cycle |-> cycle', ticker |-> t, side |-> "sell"] : t \in T})
            PROVE  SameShares(work', work)
        <4>1. {[cycle |-> cycle', ticker |-> t, side |-> "sell"] : t \in T} \in SUBSET Order
          BY <2>1 DEF Order, Side, Held
        <4>2. SameShares(work', InsertCycle(work, cycle'))
          BY <2>2, <3>2, <4>1, RowShares
        <4>3. SameShares(InsertCycle(work, cycle'), work)
          BY <1>0, <2>1, RowShares
        <4> QED BY <4>2, <4>3 DEF SameShares
      <3> QED BY <1>1, <3>1, <3>2 DEF StartCycle
    <2> QED BY <1>0, <2>1, <2>3 DEF QuietStep, StillShares
  <1>2. ASSUME pc \in Deciding, NEW T \in SUBSET Tickers, NEW s \in Side,
               work' = InsertDecisions(work, Decisions(T, s)), db' = db
        PROVE  SameShares(work', work) /\ SameShares(db', db)
    BY <1>0, <1>2, DecisionsType, RowShares DEF InHand
  <1>3. ASSUME NEW isOpen \in BOOLEAN, NEW T \in SUBSET Tickers, NEW M \in SUBSET Tickers,
               EvaluateHoldings(isOpen, T, M)
        PROVE  QuietStep
    <2>1. SameShares(work', work) /\ SameShares(db', db)
      BY <1>2, <1>3 DEF EvaluateHoldings, Side
    <2> QED BY <1>3, <2>1
        DEF EvaluateHoldings, ExecuteIfOpen, EndWith, Decisions, Decision, QuietStep, StillShares
  <1>4. CASE WithinLimits
    BY <1>0, <1>4 DEF WithinLimits, ExecuteIfOpen, EndWith, QuietStep, StillShares, ledgerVars
  <1>5. CASE MarketClockUnavailable \/ AccountUnavailable \/ SnapshotFails
    BY <1>0, <1>5 DEF MarketClockUnavailable, AccountUnavailable, SnapshotFails, EndWith,
                      QuietStep, StillShares, ledgerVars
  <1>6. ASSUME NEW T \in SUBSET Tickers, HoldingsFail(T) \/ CandidatesFail(T)
        PROVE  QuietStep
    <2>1. SameShares(work', work) /\ SameShares(db', db)
      BY <1>2, <1>6 DEF HoldingsFail, CandidatesFail, Side
    <2> QED BY <1>6, <2>1 DEF HoldingsFail, CandidatesFail, EndWith, QuietStep, StillShares
  <1> QED BY <1>1, <1>3, <1>4, <1>5, <1>6

\* Neither does sending an order, halting, losing or ending the cycle, nor the
\* operator or the broker.
LEMMA OtherStepsAreQuiet ==
  ASSUME IInv, InHand,
         \/ \E o \in todo : NotApproved(o) \/ RecordFails(o)
         \/ Submit
         \/ \E accepted \in BOOLEAN : SubmitErr(accepted)
         \/ MarkSubmitted
         \/ MarkSubmittedFails
         \/ PollErr
         \/ NothingLeft
         \/ Finish
         \/ Crash
         \/ Resume
         \/ \E C \in SUBSET Order : LossLimitBreached(C)
         \/ PersistHalt
         \/ PersistHaltFails
         \/ \E o \in Order : BrokerFill(o) \/ BrokerClose(o)
  PROVE  QuietStep
  <1> USE DEF Deciding, Handling
  <1>0. /\ work \in LedgerState /\ db \in LedgerState
        /\ SameShares(work, work) /\ SameShares(db, db)
    BY DEF IInv, TypeOK, SameShares
  <1>1. CASE \E o \in todo : NotApproved(o) \/ RecordFails(o)
    BY <1>0, <1>1 DEF NotApproved, RecordFails, NextDecision, Rollback, QuietStep, StillShares,
                      ledgerVars
  <1>2. CASE Submit
    BY <1>0, <1>2 DEF Submit, QuietStep, StillShares, ledgerVars
  <1>3. ASSUME NEW accepted \in BOOLEAN, SubmitErr(accepted) PROVE QuietStep
    <2>1. SameShares(work', work)
      BY <1>0, <1>3, RowShares DEF SubmitErr, InHand, OrderStatus
    <2> QED BY <1>0, <1>3, <2>1 DEF SubmitErr, QuietStep, StillShares
  <1>4. CASE MarkSubmitted
    <2>1. SameShares(work', work)
      BY <1>0, <1>4, RowShares DEF MarkSubmitted, InHand, OrderStatus
    <2>2. work'.qty = work.qty
      BY <1>0, <1>4, StatusFields DEF MarkSubmitted, InHand, OrderStatus
    <2> QED BY <1>0, <1>4, <2>1, <2>2 DEF MarkSubmitted, QuietStep, StillShares
  <1>5. CASE MarkSubmittedFails \/ PollErr \/ NothingLeft
    BY <1>0, <1>5 DEF MarkSubmittedFails, PollErr, NothingLeft, QuietStep, StillShares, ledgerVars
  <1>6. CASE Finish
    <2>1. cycle \in Cycles /\ outcome \in CycleOutcome
      BY <1>6 DEF Finish, InHand, IInv, TypeOK
    <2>2. SameShares(work', work)
      BY <1>0, <1>6, <2>1, RowShares DEF Finish
    <2> QED BY <1>6, <2>2
        DEF Finish, Commit, Release, QuietStep, StillShares, SameShares
  <1>7. CASE Crash \/ PersistHaltFails
    BY <1>0, <1>7 DEF Crash, PersistHaltFails, Rollback, Release, EndWith, QuietStep, StillShares
  <1>8. CASE Resume
    <2>1. SameShares(work', work)
      BY <1>0, <1>8, RowShares DEF Resume
    <2>2. db' = work' /\ work = db
      BY <1>8 DEF Resume, Commit
    <2>3. pc \notin Deciding \cup Handling
      BY <1>8 DEF Resume, IInv, NotHalted
    <2> QED BY <1>8, <2>1, <2>2, <2>3 DEF Resume, runVars, QuietStep, StillShares
  <1>9. CASE \E C \in SUBSET Order : LossLimitBreached(C)
    BY <1>0, <1>9 DEF LossLimitBreached, QuietStep, StillShares, ledgerVars
  <1>10. CASE PersistHalt
    <2>1. SameShares(work', work)
      BY <1>0, <1>10, RowShares DEF PersistHalt
    <2> QED BY <1>10, <2>1 DEF PersistHalt, Commit, EndWith, QuietStep, StillShares, SameShares
  <1>11. CASE \E o \in Order : BrokerFill(o) \/ BrokerClose(o)
    <2>1. UNCHANGED <<db, work, pc, todo, cur>>
      BY <1>11 DEF BrokerFill, BrokerClose, ledgerVars, runVars
    <2> QED
      <3>1. pc \in Deciding \/ pc = "idle" => pc \in Deciding \/ (pc = "idle" /\ todo = {})
        BY DEF IInv, TodoOfCycle
      <3> QED BY <1>0, <2>1, <3>1 DEF QuietStep, StillShares
  <1> QED BY <1>1, <1>2, <1>3, <1>4, <1>5, <1>6, <1>7, <1>8, <1>9, <1>10, <1>11

-------------------------------------------------------------------------------
(***************************************************************************)
(* The steps that plan, record and fill.                                   *)
(***************************************************************************)

\* The buys a cycle decides are for tickers it does not hold and fit the slots.
PlanningStep ==
    /\ pc = "candidates"
    /\ SameShares(work', work) /\ SameShares(db', db)
    /\ pc' \in {"execute", "finish"}
    /\ \E T \in SUBSET Tickers :
           /\ T \cap Held(work) = {}
           /\ SlotsFor(T)
           /\ \A o \in todo' : o \in todo \/ o.ticker \in T

\* An order is recorded, with no more shares to sell than are held.
RecordingStep(o, q) ==
    /\ pc = "execute" /\ pc' = "submit"
    /\ cur' = o /\ todo' = todo \ {o}
    /\ SameShares(work', work) /\ SameShares(db', work)
    /\ work'.qty[o] = q
    /\ o.side = "sell" => q <= work.pos[o.ticker]

\* New shares of the order in hand are recorded, wholly, in part or not at all.
FillingStep ==
    /\ pc = "poll"
    /\ UNCHANGED <<db, broker, todo>>
    /\ work'.qty = work.qty
    /\ pc' = "execute" \/ (pc' = "poll" /\ cur' = cur)
    /\ \/ SameShares(work', work)
       \/ /\ NewShares > 0
          /\ \E M \in {InsertFill(work, cur, NewShares),
                       MovePosition(InsertFill(work, cur, NewShares), cur, NewShares),
                       SettleFill(InsertFill(work, cur, NewShares), cur, NewShares)} :
                 /\ SameShares(work', M)
                 /\ \/ Applicable(work, cur, NewShares)
                    \/ M = InsertFill(work, cur, NewShares)
                 /\ \/ M = SettleFill(InsertFill(work, cur, NewShares), cur, NewShares)
                    \/ ~Applicable(work, cur, NewShares)
                    \/ DbFaults \cap {"position", "trade"} # {}

LEMMA CandidatesPlan ==
  ASSUME IInv, InHand, NEW T \in SUBSET Tickers, EvaluateCandidates(T)
  PROVE  PlanningStep
  <1>1. work \in LedgerState /\ pc = "candidates" /\ cycle \in Cycles
    BY DEF EvaluateCandidates, IInv, TypeOK, InHand
  <1>2. Decisions(T, "buy") \in SUBSET Order
    BY <1>1, DecisionsType DEF Side
  <1>3. SameShares(work', work)
    BY <1>1, <1>2, RowShares DEF EvaluateCandidates
  <1>4. db' = db /\ SameShares(db', db)
    BY DEF EvaluateCandidates, SameShares
  <1>5. pc' \in {"execute", "finish"} /\ \A o \in todo' : o \in todo \/ o \in Decisions(T, "buy")
    BY DEF EvaluateCandidates, ExecuteIfOpen, EndWith
  <1>6. \A o \in Decisions(T, "buy") : o.ticker \in T
    BY DEF Decisions, Decision
  <1> QED BY <1>1, <1>3, <1>4, <1>5, <1>6 DEF EvaluateCandidates, PlanningStep

LEMMA RecordingRecords ==
  ASSUME IInv, NEW o \in todo, NEW q \in 1..Lot, RecordThenCommit(o, q)
  PROVE  RecordingStep(o, q)
  <1>1. work \in LedgerState /\ o \in Order
    BY DEF IInv, TypeOK
  <1>2. work' = RecordOrder(work, o, q) /\ db' = work'
    BY DEF RecordThenCommit, Commit
  <1>3. SameShares(work', work) /\ SameShares(db', work)
    BY <1>1, <1>2, RowShares
  <1>4. work'.qty[o] = q
    BY <1>1, <1>2, OrderFields
  <1> QED BY <1>3, <1>4 DEF RecordThenCommit, NextDecision, RecordingStep

LEMMA PollingFills ==
  ASSUME IInv,
         \/ \E priced \in BOOLEAN : Poll(priced)
         \/ \E fault \in DbFaults : PollWriteFails(fault)
  PROVE  FillingStep
  <1> DEFINE I == InsertFill(work, cur, NewShares)
             V == MovePosition(I, cur, NewShares)
             S == SettleFill(I, cur, NewShares)
  <1>0. /\ pc = "poll" /\ cur \in Order /\ work \in LedgerState
        /\ recorded = work.fills[cur]
        /\ work.fills[cur] <= broker[cur].filled
        /\ broker[cur].filled \in Nat
    BY DEF IInv, TypeOK, OrderInHand, Handling, LedgerNeverAheadOfBroker, BrokerOrder,
           Poll, PollWriteFails
  <1>1. NewShares \in Nat
    BY <1>0 DEF NewShares, LedgerState
  <1>2. NewShares > 0 => \A M \in {work, I, V, S} : M.qty = work.qty /\ SameShares(M, M)
    BY <1>0, <1>1, PollFields DEF IInv, SameOrders, SameShares
  <1>3. I \in LedgerState /\ I.pos = work.pos
    BY <1>0, <1>1, FillTypes DEF InsertFill, LedgerState
  <1>4. NewShares > 0 /\ Applicable(work, cur, NewShares) => V \in LedgerState /\ S \in LedgerState
    BY <1>0, <1>1, <1>3, FillTypes DEF Applicable
  <1>5. ASSUME NEW priced \in BOOLEAN, Poll(priced) PROVE FillingStep
    <2> DEFINE fill == NewShares > 0 /\ priced
               oversold == fill /\ ~Applicable(work, cur, NewShares)
               settled == IF fill THEN S ELSE work
               stat == Reported(broker[cur])
    <2>1. /\ work' = IF oversold THEN I ELSE SetStatus(settled, cur, stat)
          /\ pc' = "execute" \/ (pc' = "poll" /\ cur' = cur)
          /\ UNCHANGED <<db, broker, todo>>
      BY <1>0, <1>5 DEF Poll
    <2>2. CASE oversold
      <3>1. work' = I
        BY <2>1, <2>2
      <3> HIDE DEF I, V, S
      <3> QED BY <1>0, <1>2, <2>1, <2>2, <3>1 DEF FillingStep, I, V, S
    <2>3. CASE ~oversold
      <3>1. settled \in LedgerState /\ settled.qty = work.qty
        BY <1>0, <1>2, <1>4, <2>3
      <3>2. stat \in OrderStatus
        <4>1. broker[cur].status \in BrokerStatus
          BY <1>0 DEF IInv, TypeOK, BrokerOrder
        <4> QED BY <4>1 DEF Reported, BrokerStatus, OrderStatus
      <3> HIDE DEF settled, stat, I, V, S
      <3>3. work' = SetStatus(settled, cur, stat)
        BY <2>1, <2>3
      <3>4. SameShares(work', settled) /\ work'.qty = settled.qty
        BY <1>0, <3>1, <3>2, <3>3, RowShares, StatusFields
      <3>5. CASE fill
        <4>1. settled = S
          BY <3>5 DEF settled
        <4> HIDE DEF fill
        <4> QED BY <1>0, <2>1, <2>3, <3>1, <3>4, <3>5, <4>1 DEF FillingStep, fill, I, V, S
      <3>6. CASE ~fill
        <4>1. settled = work
          BY <3>6 DEF settled
        <4> QED BY <1>0, <2>1, <3>4, <4>1 DEF FillingStep
      <3> QED BY <3>5, <3>6
    <2> QED BY <2>2, <2>3
  <1>6. ASSUME NEW fault \in DbFaults, PollWriteFails(fault) PROVE FillingStep
    <2>1. /\ NewShares > 0 /\ Applicable(work, cur, NewShares)
          /\ work' \in {work, I, V, S}
          /\ work' \in {I, V} => fault \in {"position", "trade"} \/ work' \in {work, S}
          /\ pc' = "execute"
          /\ UNCHANGED <<db, broker, todo>>
      BY <1>6 DEF PollWriteFails
    <2>2. work'.qty = work.qty /\ SameShares(work', work')
      BY <1>2, <2>1
    <2> HIDE DEF I, V, S
    <2> QED BY <1>0, <2>1, <2>2 DEF FillingStep, I, V, S
  <1> QED BY <1>5, <1>6

\* Every step is one of these.
LEMMA EveryStep ==
  ASSUME IInv, InHand, InHand', [Next]_vars
  PROVE  \/ QuietStep
         \/ PlanningStep
         \/ \E o \in todo, q \in 1..Lot : RecordingStep(o, q)
         \/ FillingStep
  <1>1. CASE Decide
    BY <1>1, JudgingIsQuiet, OtherStepsAreQuiet, CandidatesPlan DEF Decide
  <1>2. CASE Execute
    BY <1>2, OtherStepsAreQuiet, RecordingRecords, PollingFills DEF Execute
  <1>3. CASE Fail
    BY <1>3, JudgingIsQuiet, OtherStepsAreQuiet, PollingFills DEF Fail
  <1>4. CASE Environment
    BY <1>4, OtherStepsAreQuiet DEF Environment
  <1>5. CASE UNCHANGED vars
    BY <1>5 DEF vars, ledgerVars, runVars, QuietStep, StillShares, SameShares, IInv, TodoOfCycle,
                Deciding, Handling
  <1> QED BY <1>1, <1>2, <1>3, <1>4, <1>5 DEF Next

-------------------------------------------------------------------------------
(***************************************************************************)
(* The position slots.                                                     *)
(***************************************************************************)

\* What fits in the slots still does when some of it goes.
LEMMA FewerFit ==
  ASSUME NEW X \in SUBSET Tickers, NEW Y \in SUBSET X, Cardinality(X) <= MaxPositions
  PROVE  Cardinality(Y) <= MaxPositions
  <1>1. IsFiniteSet(X)
    BY LedgerAssumption, FS_Subset
  <1>2. IsFiniteSet(Y) /\ Cardinality(Y) <= Cardinality(X)
    BY <1>1, FS_Subset
  <1>3. Cardinality(X) \in Nat /\ Cardinality(Y) \in Nat /\ MaxPositions \in Nat
    BY <1>1, <1>2, FS_CardinalityType, CycleAssumption
  <1> QED BY <1>2, <1>3

\* What is held or being bought are tickers.
LEMMA SlotsType ==
  ASSUME TypeOK, InHand
  PROVE  /\ Buying \in SUBSET Tickers
         /\ Held(db) \in SUBSET Tickers /\ Held(work) \in SUBSET Tickers
  BY DEF TypeOK, InHand, Buying, Held, Order

\* Recorded shares open no position but the one being bought.
LEMMA FillingHolds ==
  ASSUME TypeOK, InHand, FillingStep
  PROVE  \A t \in Tickers : work'.pos[t] > 0 /\ ~(work.pos[t] > 0) =>
                               cur.side = "buy" /\ t = cur.ticker
  <1>0. work \in LedgerState /\ cur \in Order /\ pc \in Handling
    BY DEF TypeOK, InHand, FillingStep, Handling
  <1>1. SUFFICES ASSUME NEW t \in Tickers, work'.pos[t] > 0, ~(work.pos[t] > 0)
                 PROVE  cur.side = "buy" /\ t = cur.ticker
    OBVIOUS
  <1>2. work'.pos # work.pos
    BY <1>1
  <1>3. PICK M \in {InsertFill(work, cur, NewShares),
                    MovePosition(InsertFill(work, cur, NewShares), cur, NewShares),
                    SettleFill(InsertFill(work, cur, NewShares), cur, NewShares)} :
               /\ SameShares(work', M)
               /\ \/ Applicable(work, cur, NewShares)
                  \/ M = InsertFill(work, cur, NewShares)
    BY <1>2 DEF FillingStep, SameShares
  <1>4. InsertFill(work, cur, NewShares).pos = work.pos
    BY <1>0 DEF InsertFill, LedgerState
  <1>5. M # InsertFill(work, cur, NewShares)
    BY <1>2, <1>3, <1>4 DEF SameShares
  <1>6. /\ \A u \in Tickers : u # cur.ticker => M.pos[u] = work.pos[u]
        /\ cur.side # "buy" => M.pos[cur.ticker] = work.pos[cur.ticker] - NewShares
    <2> DEFINE I == InsertFill(work, cur, NewShares)
               V == MovePosition(I, cur, NewShares)
    <2>1. M = V \/ M = SettleFill(I, cur, NewShares)
      BY <1>3, <1>5
    <2>2. I.pos = work.pos /\ DOMAIN I = DOMAIN work
      BY <1>0 DEF InsertFill, LedgerState
    <2>3. cur.ticker \in Tickers /\ work.pos \in [Tickers -> Nat]
          /\ {"pos", "trades"} \subseteq DOMAIN work
      BY <1>0 DEF LedgerState, Order
    <2> HIDE DEF I
    <2>4. /\ \A u \in Tickers : u # cur.ticker => V.pos[u] = I.pos[u]
          /\ cur.side # "buy" => V.pos[cur.ticker] = I.pos[cur.ticker] - NewShares
          /\ DOMAIN V = DOMAIN I
      BY <2>2, <2>3 DEF MovePosition
    <2>5. SettleFill(I, cur, NewShares).pos = V.pos
      <3> HIDE DEF V
      <3>1. SettleFill(I, cur, NewShares) \in {V, [V EXCEPT !.trades = @ \cup {cur}]}
        BY DEF SettleFill, V
      <3> QED BY <2>2, <2>3, <2>4, <3>1
    <2> HIDE DEF V
    <2> QED BY <2>1, <2>2, <2>4, <2>5
  <1>7. t = cur.ticker
    BY <1>0, <1>1, <1>3, <1>6 DEF SameShares, LedgerState
  <1>8. cur.side = "buy"
    <2> SUFFICES ASSUME cur.side # "buy" PROVE FALSE
      OBVIOUS
    <2>1. work'.pos[t] = work.pos[t] - NewShares /\ work.pos[t] \in Nat
      BY <1>0, <1>3, <1>6, <1>7 DEF SameShares, LedgerState, Order
    <2>2. NewShares > 0 /\ NewShares \in Int
      BY <1>0, <1>2 DEF FillingStep, SameShares, NewShares, TypeOK, BrokerOrder
    <2> QED BY <1>1, <2>1, <2>2
  <1> QED BY <1>7, <1>8

\* SlotsInv is inductive relative to IInv.
LEMMA SlotsPreserved ==
  ASSUME IInv, InHand, InHand', TypeOK', SlotsInv,
         \/ QuietStep
         \/ PlanningStep
         \/ \E o \in todo, q \in 1..Lot : RecordingStep(o, q)
         \/ FillingStep
  PROVE  SlotsInv'
  <1> DEFINE Fits(L, B) == Cardinality(Held(L) \cup B) <= MaxPositions
  <1>0. /\ TypeOK /\ todo \subseteq Order
        /\ Held(db) \cup Buying \in SUBSET Tickers
        /\ Held(work) \cup Buying \in SUBSET Tickers
        /\ Fits(db, Buying) /\ Fits(work, Buying)
    BY SlotsType DEF IInv, TypeOK, SlotsInv
  <1>1. \A M, L : SameShares(M, L) => Held(M) = Held(L)
    BY DEF SameShares, Held
  <1>2. ASSUME QuietStep PROVE SlotsInv'
    <2>1. Buying' \subseteq Buying
      BY <1>2 DEF QuietStep, Buying
    <2>2. /\ Held(db') \in {Held(db), Held(work)}
          /\ Held(work') \in {Held(db), Held(work)}
      BY <1>1, <1>2 DEF QuietStep, StillShares
    <2>3. Fits(db', Buying') /\ Fits(work', Buying')
      <3> HIDE DEF Buying
      <3>1. /\ Held(db') \cup Buying' \in SUBSET (Held(db) \cup Buying)
               \/ Held(db') \cup Buying' \in SUBSET (Held(work) \cup Buying)
            /\ Held(work') \cup Buying' \in SUBSET (Held(db) \cup Buying)
               \/ Held(work') \cup Buying' \in SUBSET (Held(work) \cup Buying)
        BY <2>1, <2>2
      <3> QED BY <1>0, <3>1, FewerFit
    <2>4. pc' \in Deciding => db'.pos = work'.pos /\ \A o \in todo' : o.side = "sell"
      <3>1. SUFFICES ASSUME pc' \in Deciding
                     PROVE  db'.pos = work'.pos /\ \A o \in todo' : o.side = "sell"
        OBVIOUS
      <3>2. CASE pc \in Deciding
        BY <1>2, <3>1, <3>2 DEF QuietStep, SlotsInv, SameShares
      <3>3. CASE pc = "idle" /\ todo = {}
        BY <1>2, <3>1, <3>3 DEF QuietStep, IInv, NothingPending, SameShares
      <3> QED BY <1>2, <3>1, <3>2, <3>3 DEF QuietStep
    <2> QED BY <2>3, <2>4 DEF SlotsInv
  <1>3. ASSUME PlanningStep PROVE SlotsInv'
    <2>1. PICK T \in SUBSET Tickers :
              SlotsFor(T) /\ \A o \in todo' : o \in todo \/ o.ticker \in T
      BY <1>3 DEF PlanningStep
    <2>2. \A o \in todo : o.side = "sell"
      BY <1>3 DEF PlanningStep, SlotsInv, Deciding
    <2>3. Held(db') = Held(work) /\ Held(work') = Held(work)
      BY <1>1, <1>3 DEF PlanningStep, SlotsInv, Deciding, SameShares, Held
    <2>4. pc' \notin Handling /\ pc' \notin Deciding
      BY <1>3 DEF PlanningStep, Handling, Deciding
    <2>5. Buying' \subseteq T
      BY <2>1, <2>2, <2>4 DEF Buying
    <2>6. Held(work) \cup T \in SUBSET Tickers
      BY DEF Held
    <2>7. Fits(db', Buying') /\ Fits(work', Buying')
      BY <2>1, <2>3, <2>5, <2>6, FewerFit DEF SlotsFor
    <2> QED BY <2>4, <2>7 DEF SlotsInv
  <1>4. ASSUME NEW o \in todo, NEW q \in 1..Lot, RecordingStep(o, q) PROVE SlotsInv'
    <2>1. Buying' \subseteq Buying
      BY <1>4 DEF RecordingStep, Buying
    <2>2. Held(db') = Held(work) /\ Held(work') = Held(work) /\ pc' \notin Deciding
      BY <1>1, <1>4 DEF RecordingStep, Deciding
    <2>3. Fits(db', Buying') /\ Fits(work', Buying')
      BY <1>0, <2>1, <2>2, FewerFit
    <2> QED BY <2>2, <2>3 DEF SlotsInv
  <1>5. ASSUME FillingStep PROVE SlotsInv'
    <2>1. Buying' \subseteq Buying
      BY <1>5 DEF FillingStep, Buying, Handling
    <2>2. Held(work') \subseteq Held(work) \cup Buying
      BY <1>0, <1>5, FillingHolds DEF Held, Buying, FillingStep, Handling
    <2>3. Held(db') = Held(db) /\ pc' \notin Deciding
      BY <1>5 DEF FillingStep, Deciding
    <2>4. Fits(db', Buying') /\ Fits(work', Buying')
      <3> HIDE DEF Buying
      <3>1. /\ Held(db') \cup Buying' \in SUBSET (Held(db) \cup Buying)
            /\ Held(work') \cup Buying' \in SUBSET (Held(work) \cup Buying)
        BY <2>1, <2>2, <2>3
      <3> QED BY <1>0, <3>1, FewerFit
    <2> QED BY <2>3, <2>4 DEF SlotsInv
  <1> QED BY <1>2, <1>3, <1>4, <1>5

\* Before the first cycle nothing is held.
LEMMA SlotsInit == Init => SlotsInv
  <1> SUFFICES ASSUME Init PROVE SlotsInv
    OBVIOUS
  <1>1. Held(db) \cup Buying = {} /\ Held(work) \cup Buying = {}
    BY DEF Init, EmptyLedger, Held, Buying, Handling
  <1>2. Cardinality({}) <= MaxPositions
    BY FS_EmptySet, CycleAssumption
  <1> QED BY <1>1, <1>2 DEF Init, SlotsInv, Deciding

THEOREM SlotsInvariant == Spec => []SlotsInv
  <1>1. /\ IInv /\ InHand /\ SlotsInv /\ [Next]_vars /\ IInv' /\ TypeOK' /\ InHand'
        => SlotsInv'
    BY EveryStep, SlotsPreserved
  <1> QED BY SlotsInit, <1>1, InductiveInvariant, TypeCorrect, PTL DEF Spec

\* R-12: a batch of buys decided before any of them fills never ends up holding more
\* tickers than max_concurrent_positions (candidates.evaluate_candidates,
\* entry_rules), whatever fails or crashes between the decision and the fills.
THEOREM PositionsWithinLimit == Spec => []PositionLimit
  <1>1. IInv /\ InHand /\ SlotsInv => PositionLimit
    <2> SUFFICES ASSUME IInv, InHand, SlotsInv PROVE PositionLimit
      OBVIOUS
    <2>1. Held(db) \cup Buying \in SUBSET Tickers
      BY SlotsType DEF IInv
    <2> QED BY <2>1, FewerFit DEF SlotsInv, PositionLimit
  <1> QED BY <1>1, SlotsInvariant, InductiveInvariant, TypeCorrect, PTL

-------------------------------------------------------------------------------
(***************************************************************************)
(* One fill, recorded and settled.                                         *)
(***************************************************************************)

\* The fills, the positions and the trades of L once n shares of o are settled.
FillsAfter(L, o, n) == [L.fills EXCEPT ![o] = @ + n]
PosAfter(L, o, n) ==
    [L.pos EXCEPT ![o.ticker] = IF o.side = "buy" THEN @ + n ELSE @ - n]
TradesAfter(L, o, n) == IF Closes(L, o, n) THEN L.trades \cup {o} ELSE L.trades

LEMMA SettledFields ==
  ASSUME NEW L \in LedgerState, NEW o \in Order, NEW n \in Nat
  PROVE  /\ SettleFill(InsertFill(L, o, n), o, n).fills = FillsAfter(L, o, n)
         /\ SettleFill(InsertFill(L, o, n), o, n).pos = PosAfter(L, o, n)
         /\ SettleFill(InsertFill(L, o, n), o, n).trades = TradesAfter(L, o, n)
  <1> DEFINE M == SettleFill(InsertFill(L, o, n), o, n)
  <1> DEFINE I == InsertFill(L, o, n)
  <1>1. I = [L EXCEPT !.fills = [L.fills EXCEPT ![o] = @ + n]]
    BY DEF InsertFill, LedgerState
  <1>2. /\ I.fills = [L.fills EXCEPT ![o] = @ + n] /\ I.pos = L.pos /\ I.trades = L.trades
        /\ DOMAIN I = DOMAIN L
    BY <1>1 DEF LedgerState
  <1>3. M = SettleFill(I, o, n)
    OBVIOUS
  <1> HIDE DEF I, M
  <1> DEFINE V == MovePosition(I, o, n)
  <1>4. /\ V.fills = I.fills /\ V.trades = I.trades /\ DOMAIN V = DOMAIN L
        /\ V.pos = [I.pos EXCEPT ![o.ticker] = IF o.side = "buy" THEN @ + n ELSE @ - n]
    BY <1>2 DEF MovePosition, LedgerState
  <1>5. M = IF Closes(I, o, n) THEN [V EXCEPT !.trades = @ \cup {o}] ELSE V
    BY <1>3 DEF SettleFill
  <1> HIDE DEF V
  <1>6. /\ M.fills = V.fills /\ M.pos = V.pos
        /\ M.trades = IF Closes(I, o, n) THEN V.trades \cup {o} ELSE V.trades
    BY <1>4, <1>5 DEF LedgerState
  <1> QED BY <1>2, <1>4, <1>6 DEF Closes, FillsAfter, PosAfter, TradesAfter, M

\* The order of a cycle, a ticker and a side, and what names an order.
LEMMA OrderNames ==
  ASSUME NEW t \in Tickers, NEW s \in Side
  PROVE  /\ \A c \in Cycles : OrderOf(c, t, s) \in Order
         /\ \A o \in Order, c \in Cycles :
                OrderOf(c, t, s) = o <=> c = o.cycle /\ t = o.ticker /\ s = o.side
         /\ \A o \in Order : o.cycle \in Cycles /\ o.ticker \in Tickers /\ o.side \in Side
  BY DEF OrderOf, Order

\* The filled shares of a ticker grow by those of an order of the ticker.
LEMMA FilledSharesGrow ==
  ASSUME NEW L \in LedgerState, NEW o \in Order, NEW n \in Nat,
         NEW M, M.fills = FillsAfter(L, o, n),
         NEW t \in Tickers, NEW s \in Side
  PROVE  /\ FilledShares(L, t, s) \in Int
         /\ FilledShares(M, t, s)
                = FilledShares(L, t, s) + IF t = o.ticker /\ s = o.side THEN n ELSE 0
  <1> DEFINE f == [c \in Cycles |-> L.fills[OrderOf(c, t, s)]]
             g == [c \in Cycles |-> M.fills[OrderOf(c, t, s)]]
  <1>0. /\ \A h : h \in [1..MaxCycles -> Int] => h \in Seq(Int) /\ Len(h) = MaxCycles
        /\ \A c \in Cycles : OrderOf(c, t, s) \in Order /\ L.fills[OrderOf(c, t, s)] \in Nat
    BY OrderNames, LedgerAssumption DEF LedgerState
  <1>1. f \in Seq(Int) /\ Len(f) = MaxCycles
    <2>1. f \in [1..MaxCycles -> Int]
      BY <1>0 DEF Cycles
    <2> HIDE DEF f
    <2> QED BY <1>0, <2>1
  <1>2. \A c \in Cycles :
            g[c] = f[c] + IF c = o.cycle /\ t = o.ticker /\ s = o.side THEN n ELSE 0
    BY <1>0, OrderNames DEF LedgerState, FillsAfter
  <1>3. g \in Seq(Int) /\ Len(g) = MaxCycles
    <2>1. \A c \in 1..MaxCycles : f[c] \in Int /\ g[c] \in Int
      BY <1>0, <1>2 DEF Cycles
    <2>2. g \in [1..MaxCycles -> Int]
      BY <2>1 DEF Cycles
    <2> HIDE DEF g
    <2> QED BY <1>0, <2>2
  <1>4. Total(f) \in Int
    BY <1>1, TotalType DEF Total
  <1>5. CASE t = o.ticker /\ s = o.side
    <2>1. o.cycle \in 1..Len(f) /\ g[o.cycle] = f[o.cycle] + n /\ f[o.cycle] \in Int
      <3>1. o.cycle \in Cycles /\ f[o.cycle] \in Int
        BY <1>0, OrderNames
      <3> HIDE DEF f, g
      <3> QED BY <1>1, <1>2, <1>5, <3>1 DEF Cycles
    <2> HIDE DEF f, g
    <2>2. \A c \in 1..Len(f) : c # o.cycle => g[c] = f[c]
      <3>1. \A c \in Cycles : f[c] \in Int
        BY <1>0 DEF f
      <3> QED BY <1>1, <1>2, <3>1 DEF Cycles
    <2>3. Total(g) = Total(f) + g[o.cycle] - f[o.cycle]
      BY <1>1, <1>3, <2>1, <2>2, TotalExcept
    <2>4. Total(g) = Total(f) + n
      BY <1>4, <2>1, <2>3
    <2> QED BY <1>4, <1>5, <2>4 DEF FilledShares, f, g
  <1>6. CASE ~(t = o.ticker /\ s = o.side)
    <2>1. g = f
      BY <1>2, <1>6, OrderNames DEF LedgerState
    <2> QED BY <1>4, <1>6, <2>1 DEF FilledShares
  <1> QED BY <1>5, <1>6

\* Settling a fill keeps a sound ledger sound, when the position being opened is
\* what its order has filled and the position being sold covers the fill.
LEMMA SettledSound ==
  ASSUME NEW L \in LedgerState, NEW o \in Order, NEW n \in Nat, n > 0,
         PositionsSound(L),
         o.side = "buy" => L.pos[o.ticker] = L.fills[o],
         o.side = "sell" => n <= L.pos[o.ticker] /\ (o \in L.trades => L.pos[o.ticker] = 0),
         NEW M, M.fills = FillsAfter(L, o, n),
         M.pos = PosAfter(L, o, n),
         M.trades = TradesAfter(L, o, n)
  PROVE  PositionsSound(M)
  <1>0. /\ o.cycle \in Cycles /\ o.ticker \in Tickers /\ o.side \in {"buy", "sell"}
        /\ \A t \in Tickers : L.pos[t] \in Nat
        /\ \A p \in Order : L.fills[p] \in Nat
        /\ L.trades \subseteq Order
    BY DEF Order, Side, LedgerState
  <1>1. DerivedFromFills(M)
    <2> SUFFICES ASSUME NEW t \in Tickers
                 PROVE  M.pos[t] + FilledShares(M, t, "sell") = FilledShares(M, t, "buy")
      BY DEF DerivedFromFills
    <2>1. \A s \in Side :
              /\ FilledShares(L, t, s) \in Int
              /\ FilledShares(M, t, s)
                     = FilledShares(L, t, s) + IF t = o.ticker /\ s = o.side THEN n ELSE 0
      BY FilledSharesGrow
    <2>2. L.pos[t] + FilledShares(L, t, "sell") = FilledShares(L, t, "buy")
      BY DEF PositionsSound, DerivedFromFills
    <2>3. M.pos[t] = IF t = o.ticker THEN IF o.side = "buy" THEN L.pos[t] + n ELSE L.pos[t] - n
                     ELSE L.pos[t]
      BY <1>0 DEF LedgerState, PosAfter
    <2>4. /\ FilledShares(M, t, "sell")
                 = FilledShares(L, t, "sell") + IF t = o.ticker /\ o.side = "sell" THEN n ELSE 0
          /\ FilledShares(M, t, "buy")
                 = FilledShares(L, t, "buy") + IF t = o.ticker /\ o.side = "buy" THEN n ELSE 0
          /\ FilledShares(L, t, "sell") \in Int /\ FilledShares(L, t, "buy") \in Int
      BY <2>1 DEF Side
    <2> QED BY <1>0, <2>2, <2>3, <2>4
  <1>2. TradesSound(M)
    <2> SUFFICES ASSUME NEW p \in M.trades PROVE p.side = "sell" /\ M.fills[p] > 0
      BY DEF TradesSound
    <2>1. p \in Order /\ (p \in L.trades \/ (p = o /\ o.side = "sell"))
      BY <1>0 DEF Closes, TradesAfter
    <2>2. M.fills[p] = IF p = o THEN L.fills[p] + n ELSE L.fills[p]
      BY <2>1 DEF LedgerState, FillsAfter
    <2>3. p \in L.trades => p.side = "sell" /\ L.fills[p] > 0
      BY DEF PositionsSound, TradesSound
    <2> QED BY <1>0, <2>1, <2>2, <2>3
  <1>3. ClosedAreTrades(M)
    <2> SUFFICES ASSUME NEW t \in Tickers
                 PROVE  Cardinality(Closed(M, t)) + (IF M.pos[t] > 0 THEN 1 ELSE 0)
                            = Cardinality(Bought(M, t))
      BY DEF ClosedAreTrades
    <2>1. Cardinality(Closed(L, t)) + (IF L.pos[t] > 0 THEN 1 ELSE 0) = Cardinality(Bought(L, t))
      BY DEF PositionsSound, ClosedAreTrades
    <2>2. /\ IsFiniteSet(Closed(L, t)) /\ Cardinality(Closed(L, t)) \in Nat
          /\ IsFiniteSet(Bought(L, t)) /\ Cardinality(Bought(L, t)) \in Nat
      <3>1. IsFiniteSet(Cycles)
        BY FS_Interval, LedgerAssumption DEF Cycles
      <3>2. Closed(L, t) \in SUBSET Cycles /\ Bought(L, t) \in SUBSET Cycles
        BY DEF Closed, Bought
      <3> QED BY <3>1, <3>2, FS_Subset, FS_CardinalityType
    <2>3. \A c \in Cycles :
              /\ c \in Closed(M, t) <=> c \in Closed(L, t)
                                        \/ (c = o.cycle /\ t = o.ticker /\ Closes(L, o, n))
              /\ c \in Bought(M, t) <=> c \in Bought(L, t)
                                        \/ (c = o.cycle /\ t = o.ticker /\ o.side = "buy")
      <3> TAKE c \in Cycles
      <3>1. /\ OrderOf(c, t, "sell") \in Order /\ OrderOf(c, t, "buy") \in Order
            /\ OrderOf(c, t, "sell") = o <=> c = o.cycle /\ t = o.ticker /\ o.side = "sell"
            /\ OrderOf(c, t, "buy") = o <=> c = o.cycle /\ t = o.ticker /\ o.side = "buy"
        BY OrderNames DEF Side
      <3>2. M.fills[OrderOf(c, t, "buy")] = IF OrderOf(c, t, "buy") = o
                THEN L.fills[OrderOf(c, t, "buy")] + n ELSE L.fills[OrderOf(c, t, "buy")]
        BY <3>1 DEF LedgerState, FillsAfter
      <3>3. c \in Bought(M, t) <=> c \in Bought(L, t) \/ OrderOf(c, t, "buy") = o
        BY <1>0, <3>1, <3>2 DEF Bought
      <3>4. c \in Closed(M, t) <=>
                c \in Closed(L, t) \/ (Closes(L, o, n) /\ OrderOf(c, t, "sell") = o)
        BY DEF Closed, TradesAfter
      <3> QED BY <3>1, <3>3, <3>4 DEF Closes
    <2>4. Closed(M, t) \subseteq Cycles /\ Bought(M, t) \subseteq Cycles
          /\ Closed(L, t) \subseteq Cycles /\ Bought(L, t) \subseteq Cycles
      BY DEF Closed, Bought
    <2>5. M.pos[t] = IF t = o.ticker THEN IF o.side = "buy" THEN L.pos[t] + n ELSE L.pos[t] - n
                     ELSE L.pos[t]
      BY <1>0 DEF LedgerState, PosAfter
    <2>6. CASE t # o.ticker
      <3>1. Closed(M, t) = Closed(L, t) /\ Bought(M, t) = Bought(L, t)
        BY <2>3, <2>4, <2>6
      <3> QED BY <2>1, <2>5, <2>6, <3>1
    <2>7. CASE t = o.ticker /\ o.side = "buy"
      <3>1. Closed(M, t) = Closed(L, t) /\ Bought(M, t) = Bought(L, t) \cup {o.cycle}
        BY <1>0, <2>3, <2>4, <2>7 DEF Closes
      <3>2. OrderOf(o.cycle, t, "buy") = o
        BY <1>0, <2>7, OrderNames DEF Side
      <3>3. o.cycle \in Bought(L, t) <=> L.pos[t] > 0
        BY <1>0, <2>7, <3>2 DEF Bought
      <3>4. Cardinality(Bought(M, t)) = IF L.pos[t] > 0 THEN Cardinality(Bought(L, t))
                                        ELSE Cardinality(Bought(L, t)) + 1
        BY <2>2, <3>1, <3>3, FS_AddElement
      <3>5. M.pos[t] > 0 /\ L.pos[t] \in Nat
        BY <1>0, <2>5, <2>7
      <3> QED BY <2>1, <2>2, <3>1, <3>4, <3>5
    <2>8. CASE t = o.ticker /\ o.side = "sell" /\ Closes(L, o, n)
      <3>1. Closed(M, t) = Closed(L, t) \cup {o.cycle} /\ Bought(M, t) = Bought(L, t)
        BY <1>0, <2>3, <2>4, <2>8
      <3>2. OrderOf(o.cycle, t, "sell") = o
        BY <1>0, <2>8, OrderNames DEF Side
      <3>3. n = L.pos[t] /\ M.pos[t] = 0
        BY <1>0, <2>5, <2>8 DEF Closes
      <3>4. o.cycle \notin Closed(L, t)
        BY <2>8, <3>2, <3>3 DEF Closed
      <3>5. Cardinality(Closed(M, t)) = Cardinality(Closed(L, t)) + 1
        BY <2>2, <3>1, <3>4, FS_AddElement
      <3> QED BY <2>1, <2>2, <3>1, <3>3, <3>5
    <2>9. CASE t = o.ticker /\ o.side = "sell" /\ ~Closes(L, o, n)
      <3>1. Closed(M, t) = Closed(L, t) /\ Bought(M, t) = Bought(L, t)
        BY <2>3, <2>4, <2>9
      <3>2. n < L.pos[t] /\ M.pos[t] > 0 /\ L.pos[t] > 0
        BY <1>0, <2>5, <2>9 DEF Closes
      <3> QED BY <2>1, <3>1, <3>2
    <2> QED BY <1>0, <2>6, <2>7, <2>8, <2>9
  <1> QED BY <1>1, <1>2, <1>3 DEF PositionsSound

-------------------------------------------------------------------------------
(***************************************************************************)
(* The broker fills an order within its share count.                       *)
(***************************************************************************)

\* An order of the broker that is filled within its share count.
WithinCount(b) == b.filled <= b.qty /\ (b.status = "open" => b.filled < b.qty)

\* Only orders in hand, open orders and new rows can change, and stay within it.
LEMMA FilledWithinOrderPreserved ==
  ASSUME IInv, IInv', InHand, FilledWithinOrder, [Next]_vars
  PROVE  FilledWithinOrder'
  <1> USE DEF Handling
  <1>0. /\ broker \in [Order -> BrokerOrder] /\ work \in LedgerState /\ db \in LedgerState
        /\ \A o \in Order : WithinCount(broker[o])
        /\ \A o \in Order : db.orders[o] # "none" => db.qty[o] > 0
        /\ \A o \in Order : broker[o].filled \in Nat /\ broker[o].qty \in Nat
    BY DEF IInv, TypeOK, FilledWithinOrder, WithinCount, BrokerOrder
  <1>1. \A o \in Order : WithinCount(broker'[o])
    <2> DEFINE Kept == broker' = broker
    <2>1. CASE Kept
      BY <1>0, <2>1
    <2>2. ASSUME pc = "submit", broker' = ReceiveOrder PROVE \A o \in Order : WithinCount(broker'[o])
      <3>1. cur \in Order /\ work.qty[cur] \in Nat /\ work.qty[cur] > 0
        <4>1. cur \in Order /\ db.orders[cur] # "none"
          BY <2>2 DEF IInv, OrderInHand
        <4>2. work.qty[cur] = db.qty[cur] /\ db.qty[cur] > 0
          BY <1>0, <4>1 DEF IInv, OrdersCommitted
        <4> QED BY <1>0, <4>1, <4>2 DEF LedgerState
      <3>2. \A o \in Order : broker'[o] = IF o = cur
                THEN [status |-> "open", qty |-> work.qty[cur], filled |-> 0] ELSE broker[o]
        BY <1>0, <2>2 DEF ReceiveOrder
      <3> QED BY <1>0, <3>1, <3>2 DEF WithinCount
    <2>3. ASSUME NEW C \in SUBSET Order, LossLimitBreached(C)
          PROVE  \A o \in Order : WithinCount(broker'[o])
      <3>1. \A o \in Order : broker'[o] =
                IF o \in C THEN [broker[o] EXCEPT !.status = "canceled"] ELSE broker[o]
        BY <2>3 DEF LossLimitBreached
      <3> QED BY <1>0, <3>1 DEF WithinCount, BrokerOrder
    <2>4. ASSUME NEW p \in Order, BrokerFill(p) PROVE \A o \in Order : WithinCount(broker'[o])
      <3> DEFINE f == broker[p].filled + 1
                 st == IF f = broker[p].qty THEN "filled" ELSE "open"
      <3>1. broker' = [broker EXCEPT ![p] = [broker[p] EXCEPT !.filled = f, !.status = st]]
        BY <1>0, <2>4 DEF BrokerFill, BrokerOrder
      <3>2. broker[p] \in BrokerOrder /\ broker[p].filled < broker[p].qty
        BY <1>0, <2>4 DEF BrokerFill, WithinCount
      <3>3. /\ broker'[p] = [broker[p] EXCEPT !.filled = f, !.status = st]
            /\ \A o \in Order : o # p => broker'[o] = broker[o]
        BY <1>0, <3>1
      <3>4. broker'[p].filled = f /\ broker'[p].status = st /\ broker'[p].qty = broker[p].qty
        BY <3>2, <3>3 DEF BrokerOrder
      <3>5. WithinCount(broker'[p])
        BY <1>0, <3>2, <3>4 DEF WithinCount
      <3> QED BY <1>0, <3>3, <3>5
    <2>5. ASSUME NEW p \in Order, BrokerClose(p) PROVE \A o \in Order : WithinCount(broker'[o])
      <3>1. PICK st \in {"canceled", "rejected"} : broker' = [broker EXCEPT ![p].status = st]
        BY <2>5 DEF BrokerClose
      <3>2. \A o \in Order : broker'[o] =
                IF o = p THEN [broker[o] EXCEPT !.status = st] ELSE broker[o]
        BY <1>0, <3>1
      <3> QED BY <1>0, <3>2 DEF WithinCount, BrokerOrder
    <2>6. \/ Kept
          \/ pc = "submit" /\ broker' = ReceiveOrder
          \/ \E C \in SUBSET Order : LossLimitBreached(C)
          \/ \E p \in Order : BrokerFill(p) \/ BrokerClose(p)
      BY DEF Next, Decide, Execute, Fail, Environment, vars, StartCycle, EvaluateHoldings,
             WithinLimits, PersistHalt, EvaluateCandidates, NotApproved, RecordThenCommit, Submit,
             MarkSubmitted, Poll, NothingLeft, Finish, MarketClockUnavailable, HoldingsFail,
             AccountUnavailable, SnapshotFails, PersistHaltFails, CandidatesFail, RecordFails,
             SubmitErr, MarkSubmittedFails, PollErr, PollWriteFails, Crash, Resume
    <2> QED BY <2>1, <2>2, <2>3, <2>4, <2>5, <2>6
  <1>2. ASSUME NEW o \in Order, db'.orders[o] # "none" PROVE db'.qty[o] > 0
    <2>1. CASE db' = db
      BY <1>0, <1>2, <2>1
    <2>2. CASE db' # db /\ \E p \in todo, q \in 1..Lot : RecordThenCommit(p, q)
      <3>1. PICK p \in todo, q \in 1..Lot : RecordThenCommit(p, q)
        BY <2>2
      <3>2. p \in Order /\ work' = RecordOrder(work, p, q) /\ db' = work'
        BY <3>1 DEF RecordThenCommit, Commit, IInv, TypeOK
      <3>3. /\ db'.qty[p] = q
            /\ o # p => db'.orders[o] = work.orders[o] /\ db'.qty[o] = work.qty[o]
        <4>1. work \in LedgerState /\ db' = RecordOrder(work, p, q)
          BY <1>0, <3>2 DEF TypeOK
        <4> QED BY <3>2, <4>1, OrderFields
      <3>4. CASE o = p
        BY <3>3, <3>4
      <3>5. CASE o # p
        <4>1. work.orders[o] # "none" /\ db'.qty[o] = work.qty[o]
          BY <1>2, <3>3, <3>5
        <4> QED BY <1>0, <4>1 DEF IInv, OrdersCommitted
      <3> QED BY <3>4, <3>5
    <2>3. CASE PersistHalt \/ Finish \/ Resume
      <3>1. db' = work' /\ work'.orders = work.orders /\ work'.qty = work.qty
        <4>1. CASE PersistHalt
          BY <1>0, <4>1, HaltedFields DEF PersistHalt, Commit, SameOrders
        <4>2. CASE Resume
          BY <1>0, <4>2, HaltedFields DEF Resume, Commit, SameOrders
        <4>3. CASE Finish
          <5>1. cycle \in Cycles /\ outcome \in CycleOutcome
            BY <4>3 DEF Finish, InHand, IInv, TypeOK
          <5>2. db' = work' /\ (work' = work \/ work' = FinishCycle(work, cycle, outcome))
            BY <4>3 DEF Finish, Commit
          <5>3. SameOrders(FinishCycle(work, cycle, outcome), work)
            BY <1>0, <5>1, OutcomeFields
          <5> QED BY <5>2, <5>3 DEF SameOrders
        <4> QED BY <2>3, <4>1, <4>2, <4>3
      <3> QED BY <1>0, <1>2, <3>1 DEF IInv, OrdersCommitted
    <2>4. \/ db' = db
          \/ \E p \in todo, q \in 1..Lot : RecordThenCommit(p, q)
          \/ PersistHalt \/ Finish \/ Resume
      BY DEF Next, Decide, Execute, Fail, Environment, vars, ledgerVars, StartCycle,
             EvaluateHoldings, WithinLimits, LossLimitBreached, EvaluateCandidates, NotApproved,
             Submit, MarkSubmitted, Poll, NothingLeft, MarketClockUnavailable, HoldingsFail,
             AccountUnavailable, SnapshotFails, PersistHaltFails, CandidatesFail, RecordFails,
             SubmitErr, MarkSubmittedFails, PollErr, PollWriteFails, Crash, Rollback,
             BrokerFill, BrokerClose
    <2> QED BY <2>1, <2>2, <2>3, <2>4
  <1> QED BY <1>1, <1>2 DEF FilledWithinOrder, WithinCount

-------------------------------------------------------------------------------
(***************************************************************************)
(* The positions, their fills and their trades.                            *)
(***************************************************************************)

\* No write fails between the writes of one settlement.
SettlementWhole == DbFaults \cap {"position", "trade"} = {}

\* What the shares, fills and trades alone decide.
LEMMA SameSharesSound ==
  ASSUME NEW L, NEW M, SameShares(M, L), PositionsSound(L)
  PROVE  PositionsSound(M)
  BY DEF SameShares, PositionsSound, DerivedFromFills, FilledShares, ClosedAreTrades, Closed,
         Bought, TradesSound

LEMMA SameSharesPending ==
  ASSUME NEW D, NEW L, NEW D2, NEW L2, SameShares(D2, D), SameShares(L2, L)
  PROVE  /\ \A o : AddsFillsOf(o, D, L) => AddsFillsOf(o, D2, L2)
         /\ AddsOneOrder(D, L) => AddsOneOrder(D2, L2)
         /\ AddsOneOrder(D, D2)
  BY DEF SameShares, AddsFillsOf, AddsOneOrder

\* A commit or a rollback leaves nothing pending.
LEMMA StillOneOrder ==
  ASSUME AddsOneOrder(db, work), StillShares
  PROVE  AddsOneOrder(db', work')
  <1>1. CASE SameShares(db', db) /\ SameShares(work', work)
    BY <1>1, SameSharesPending
  <1>2. CASE \/ SameShares(db', work) /\ SameShares(work', work)
             \/ SameShares(db', db) /\ SameShares(work', db)
    <2>1. work'.pos = db'.pos /\ work'.trades = db'.trades
      BY <1>2 DEF SameShares
    <2> QED BY <2>1 DEF AddsOneOrder
  <1> QED BY <1>1, <1>2 DEF StillShares

\* What is filled of the order in hand is applied to its position, wholly: the
\* broker fills no more than was ordered, and no more is ordered than is held.
LEMMA WholeFill ==
  ASSUME IInv, InHand, PositionsInv, SettlementWhole, FillingStep
  PROVE  \/ SameShares(work', work)
         \/ /\ NewShares \in Nat /\ NewShares > 0
            /\ cur.side = "sell" => NewShares <= work.pos[cur.ticker]
            /\ work'.fills = FillsAfter(work, cur, NewShares)
            /\ work'.pos = PosAfter(work, cur, NewShares)
            /\ work'.trades = TradesAfter(work, cur, NewShares)
  <1>0. /\ pc = "poll" /\ pc \in Handling /\ cur \in Order /\ work \in LedgerState
        /\ recorded = work.fills[cur] /\ Received(cur)
        /\ broker[cur].filled \in Nat /\ broker[cur].qty \in Nat
        /\ work.fills[cur] \in Nat /\ work.qty[cur] \in Nat
        /\ work.pos[cur.ticker] \in Nat
    <2>1. /\ pc = "poll" /\ pc \in Handling /\ cur \in Order /\ work \in LedgerState
          /\ recorded = work.fills[cur] /\ Received(cur) /\ broker[cur] \in BrokerOrder
      BY DEF FillingStep, IInv, TypeOK, OrderInHand, Handling
    <2>2. cur.ticker \in Tickers
      BY <2>1 DEF Order
    <2> QED BY <2>1, <2>2, LedgerAssumption DEF BrokerOrder, LedgerState
  <1>1. SUFFICES ASSUME ~SameShares(work', work), NewShares > 0
                 PROVE  /\ NewShares \in Nat
                        /\ cur.side = "sell" => NewShares <= work.pos[cur.ticker]
                        /\ work'.fills = FillsAfter(work, cur, NewShares)
                        /\ work'.pos = PosAfter(work, cur, NewShares)
                        /\ work'.trades = TradesAfter(work, cur, NewShares)
    BY DEF FillingStep
  <1>2. NewShares \in Nat /\ NewShares = broker[cur].filled - work.fills[cur]
    BY <1>0, <1>1 DEF NewShares
  <1>3. cur.side = "sell" => NewShares <= work.pos[cur.ticker]
    <2>1. broker[cur].filled <= broker[cur].qty
      BY <1>0 DEF PositionsInv, FilledWithinOrder
    <2>2. broker[cur].qty = work.qty[cur]
      BY <1>0 DEF IInv, SentIsDurable, OrdersCommitted
    <2>3. cur.side = "sell" => work.qty[cur] <= work.pos[cur.ticker] + work.fills[cur]
      BY <1>0 DEF PositionsInv, SharesInHand
    <2> QED BY <1>0, <1>2, <2>1, <2>2, <2>3
  <1>4. Applicable(work, cur, NewShares)
    BY <1>0, <1>3 DEF Applicable, Order, Side
  <1>5. SameShares(work', SettleFill(InsertFill(work, cur, NewShares), cur, NewShares))
    BY <1>1, <1>4 DEF FillingStep, SettlementWhole
  <1> DEFINE S == SettleFill(InsertFill(work, cur, NewShares), cur, NewShares)
  <1>6. work \in LedgerState /\ cur \in Order /\ NewShares \in Nat
    BY <1>0, <1>2
  <1>7. S.fills = FillsAfter(work, cur, NewShares)
    BY ONLY <1>6, SettledFields
  <1>8. S.pos = PosAfter(work, cur, NewShares)
    BY ONLY <1>6, SettledFields
  <1>9. S.trades = TradesAfter(work, cur, NewShares)
    BY ONLY <1>6, SettledFields
  <1>10. SameShares(work', S)
    BY <1>5
  <1> HIDE DEF S
  <1> QED BY <1>2, <1>3, <1>7, <1>8, <1>9, <1>10 DEF SameShares

\* PositionsInv is inductive relative to IInv and SlotsInv.
LEMMA PositionsPreserved ==
  ASSUME IInv, InHand, SlotsInv, PositionsInv, SettlementWhole, FilledWithinOrder',
         \/ QuietStep
         \/ PlanningStep
         \/ \E o \in todo, q \in 1..Lot : RecordingStep(o, q)
         \/ FillingStep
  PROVE  PositionsInv'
  <1> USE DEF Handling, Deciding
  <1>0. /\ TypeOK /\ work \in LedgerState /\ todo \subseteq Order
        /\ PositionsSound(db) /\ PositionsSound(work)
        /\ \A t \in Tickers : work.pos[t] \in Nat /\ db.pos[t] \in Nat
        /\ \A o \in Order : o.ticker \in Tickers /\ o.side \in {"buy", "sell"}
    BY DEF IInv, TypeOK, PositionsInv, LedgerState, Order, Side
  <1>1. ASSUME QuietStep PROVE PositionsInv'
    <2>1. PositionsSound(db') /\ PositionsSound(work')
      BY <1>0, <1>1, SameSharesSound DEF QuietStep, StillShares
    <2>2. BuysOfNewTickers'
      BY <1>1 DEF QuietStep, StillShares, SameShares, PositionsInv, BuysOfNewTickers
    <2>3. SharesInHand'
      BY <1>1 DEF QuietStep, SameShares, PositionsInv, SharesInHand
    <2>4. OneOrderPending'
      <3>1. AddsOneOrder(db', work')
        BY <1>1, StillOneOrder DEF QuietStep, PositionsInv, OneOrderPending
      <3>2. pc' \in Handling => AddsFillsOf(cur', db', work')
        BY <1>1, SameSharesPending DEF QuietStep, PositionsInv, OneOrderPending
      <3> QED BY <3>1, <3>2 DEF OneOrderPending
    <2> QED BY <2>1, <2>2, <2>3, <2>4 DEF PositionsInv
  <1>2. ASSUME PlanningStep PROVE PositionsInv'
    <2>1. PositionsSound(db') /\ PositionsSound(work')
      BY <1>0, <1>2, SameSharesSound DEF PlanningStep
    <2>2. BuysOfNewTickers'
      <3>1. PICK T \in SUBSET Tickers :
                T \cap Held(work) = {} /\ \A o \in todo' : o \in todo \/ o.ticker \in T
        BY <1>2 DEF PlanningStep
      <3>2. \A t \in T : work.pos[t] = 0 /\ db.pos[t] = 0
        BY <1>0, <1>2, <3>1 DEF PlanningStep, SlotsInv, Held
      <3> QED BY <1>2, <3>1, <3>2 DEF PlanningStep, SameShares, PositionsInv, BuysOfNewTickers
    <2>3. SharesInHand'
      BY <1>2 DEF PlanningStep, SharesInHand
    <2>4. OneOrderPending'
      BY <1>2, SameSharesPending DEF PlanningStep, PositionsInv, OneOrderPending
    <2> QED BY <2>1, <2>2, <2>3, <2>4 DEF PositionsInv
  <1>3. ASSUME NEW o \in todo, NEW q \in 1..Lot, RecordingStep(o, q) PROVE PositionsInv'
    <2>1. PositionsSound(db') /\ PositionsSound(work')
      BY <1>0, <1>3, SameSharesSound DEF RecordingStep
    <2>2. BuysOfNewTickers'
      BY <1>3 DEF RecordingStep, SameShares, PositionsInv, BuysOfNewTickers
    <2>3. o \in Order /\ work.fills[o] = 0 /\ o \notin work.trades
      BY <1>0 DEF IInv, FreshOrders, NotYet, PositionsSound, TradesSound
    <2>4. o.side = "buy" => work.pos[o.ticker] = 0
      BY DEF PositionsInv, BuysOfNewTickers
    <2>5. /\ cur' = o /\ work'.fills = work.fills /\ work'.pos = work.pos
          /\ work'.trades = work.trades /\ work'.qty[o] = q
          /\ o.side = "sell" => q <= work.pos[o.ticker]
      BY <1>3 DEF RecordingStep, SameShares
    <2>6. SharesInHand'
      BY <1>0, <2>3, <2>4, <2>5 DEF SharesInHand
    <2>7. /\ db'.pos = work.pos /\ db'.trades = work.trades
          /\ work.pos[o.ticker] \in Nat
          /\ o.side = "sell" => work.pos[o.ticker] > 0
      BY <1>0, <1>3, <2>3, <2>5 DEF RecordingStep, SameShares
    <2>8. AddsFillsOf(o, db', work') /\ AddsOneOrder(db', work')
      BY <2>3, <2>4, <2>5, <2>7 DEF AddsFillsOf, AddsOneOrder
    <2>9. OneOrderPending'
      BY <2>5, <2>8 DEF OneOrderPending
    <2> QED BY <2>1, <2>2, <2>6, <2>9 DEF PositionsInv
  <1>4. ASSUME FillingStep PROVE PositionsInv'
    <2>1. /\ pc = "poll" /\ cur \in Order /\ cur.cycle = cycle /\ cur \notin todo
          /\ db' = db /\ todo' = todo /\ work'.qty = work.qty
          /\ pc' = "execute" \/ (pc' = "poll" /\ cur' = cur)
          /\ work.fills[cur] \in Nat /\ work.qty[cur] \in Nat
          /\ cur.ticker \in Tickers /\ cur.side \in {"buy", "sell"}
      BY <1>0, <1>4 DEF FillingStep, IInv, OrderInHand, LedgerState
    <2>2. /\ cur.side = "buy" => work.pos[cur.ticker] = work.fills[cur]
          /\ cur.side = "sell" =>
                /\ work.qty[cur] <= work.pos[cur.ticker] + work.fills[cur]
                /\ cur \in work.trades => work.pos[cur.ticker] = 0
      BY <2>1 DEF PositionsInv, SharesInHand
    <2>3. CASE SameShares(work', work)
      <3>1. PositionsSound(db') /\ PositionsSound(work')
        BY <1>0, <2>1, <2>3, SameSharesSound
      <3>2. BuysOfNewTickers'
        BY <2>1, <2>3 DEF SameShares, PositionsInv, BuysOfNewTickers
      <3>3. SharesInHand'
        BY <2>1, <2>2, <2>3 DEF SameShares, SharesInHand
      <3>4. OneOrderPending'
        <4>1. SameShares(db', db)
          BY <2>1 DEF SameShares
        <4>2. AddsFillsOf(cur, db, work) /\ AddsOneOrder(db, work)
          BY <2>1 DEF PositionsInv, OneOrderPending
        <4>3. AddsFillsOf(cur, db', work') /\ AddsOneOrder(db', work')
          BY <2>3, <4>1, <4>2, SameSharesPending
        <4> QED BY <2>1, <4>3 DEF OneOrderPending
      <3> QED BY <3>1, <3>2, <3>3, <3>4 DEF PositionsInv
    <2>4. CASE ~SameShares(work', work)
      <3>1. /\ NewShares \in Nat /\ NewShares > 0
            /\ cur.side = "sell" => NewShares <= work.pos[cur.ticker]
            /\ work'.fills = FillsAfter(work, cur, NewShares)
            /\ work'.pos = PosAfter(work, cur, NewShares)
            /\ work'.trades = TradesAfter(work, cur, NewShares)
        BY <1>4, <2>4, WholeFill
      <3>2. PositionsSound(work')
        BY <1>0, <2>1, <2>2, <3>1, SettledSound
      <3>3. /\ work'.fills[cur] = work.fills[cur] + NewShares
            /\ work'.pos[cur.ticker] = IF cur.side = "buy" THEN work.pos[cur.ticker] + NewShares
                                       ELSE work.pos[cur.ticker] - NewShares
            /\ \A t \in Tickers : t # cur.ticker => work'.pos[t] = work.pos[t]
            /\ work.pos[cur.ticker] \in Nat
        BY <1>0, <2>1, <3>1 DEF LedgerState, FillsAfter, PosAfter
      <3>4. BuysOfNewTickers'
        <4> SUFFICES ASSUME NEW o \in todo, o.side = "buy"
                     PROVE  db.pos[o.ticker] = 0 /\ work'.pos[o.ticker] = 0
          BY <2>1 DEF BuysOfNewTickers
        <4>1. o \in Order /\ o.cycle = cycle /\ db.pos[o.ticker] = 0 /\ work.pos[o.ticker] = 0
          BY <1>0 DEF IInv, TodoOfCycle, PositionsInv, BuysOfNewTickers
        <4>2. CASE o.ticker # cur.ticker
          BY <1>0, <3>3, <4>1, <4>2
        <4>3. CASE o.ticker = cur.ticker /\ cur.side = "buy"
          <5>1. o = cur
            BY <2>1, <4>1, <4>3 DEF Order
          <5> QED BY <2>1, <5>1
        <4>4. CASE o.ticker = cur.ticker /\ cur.side = "sell"
          BY <3>1, <3>3, <4>1, <4>4
        <4> QED BY <2>1, <4>2, <4>3, <4>4
      <3>5. SharesInHand'
        <4>1. cur.side = "sell" /\ cur \in work'.trades => work'.pos[cur.ticker] = 0
          BY <2>2, <3>1, <3>3 DEF Closes, TradesAfter
        <4>2. cur.side = "buy" => work'.pos[cur.ticker] = work'.fills[cur]
          BY <2>2, <3>3
        <4>3. cur.side = "sell" => work'.qty[cur] <= work'.pos[cur.ticker] + work'.fills[cur]
          BY <2>1, <2>2, <3>1, <3>3
        <4> QED BY <2>1, <4>1, <4>2, <4>3 DEF SharesInHand
      <3>6. AddsFillsOf(cur, db, work')
        <4>1. AddsFillsOf(cur, db, work)
          BY <2>1 DEF PositionsInv, OneOrderPending
        <4>2. \A t \in Tickers \ {cur.ticker} : work'.pos[t] = db.pos[t]
          BY <3>3, <4>1 DEF AddsFillsOf
        <4>3. CASE cur.side = "buy"
          <5>1. work'.trades = work.trades
            BY <3>1, <4>3 DEF TradesAfter, Closes
          <5> QED BY <3>3, <4>1, <4>2, <4>3, <5>1 DEF AddsFillsOf
        <4>4. CASE cur.side = "sell"
          <5>1. /\ cur \notin db.trades /\ db.pos[cur.ticker] > 0
                /\ work.pos[cur.ticker] + work.fills[cur] = db.pos[cur.ticker]
                /\ work.trades = IF work.pos[cur.ticker] = 0 THEN db.trades \cup {cur}
                                 ELSE db.trades
            BY <4>1, <4>4 DEF AddsFillsOf
          <5>2. work.pos[cur.ticker] > 0 /\ work.trades = db.trades
            BY <3>1, <3>3, <4>4, <5>1
          <5>3. work'.trades = IF work'.pos[cur.ticker] = 0 THEN db.trades \cup {cur}
                               ELSE db.trades
            BY <3>1, <3>3, <4>4, <5>2 DEF TradesAfter, Closes
          <5>4. work'.pos[cur.ticker] + work'.fills[cur] = db.pos[cur.ticker]
            BY <2>1, <3>1, <3>3, <4>4, <5>1
          <5> QED BY <4>2, <4>4, <5>1, <5>3, <5>4 DEF AddsFillsOf
        <4> QED BY <2>1, <4>3, <4>4
      <3>7. OneOrderPending'
        BY <2>1, <3>6 DEF OneOrderPending, AddsOneOrder
      <3> QED BY <1>0, <2>1, <3>2, <3>4, <3>5, <3>7 DEF PositionsInv
    <2> QED BY <2>3, <2>4
  <1> QED BY <1>1, <1>2, <1>3, <1>4

\* Before the first cycle there are no fills.
LEMMA PositionsInit == Init => PositionsInv
  <1> SUFFICES ASSUME Init PROVE PositionsInv
    OBVIOUS
  <1>1. db = EmptyLedger /\ work = EmptyLedger /\ todo = {} /\ pc = "idle"
    BY DEF Init
  <1>2. DerivedFromFills(EmptyLedger)
    <2> SUFFICES ASSUME NEW t \in Tickers
                 PROVE  EmptyLedger.pos[t] + FilledShares(EmptyLedger, t, "sell")
                            = FilledShares(EmptyLedger, t, "buy")
      BY DEF DerivedFromFills
    <2>1. \A s \in Side : [c \in Cycles |-> EmptyLedger.fills[OrderOf(c, t, s)]]
                              = [c \in Cycles |-> 0]
      BY OrderNames DEF EmptyLedger
    <2>2. [c \in Cycles |-> 0] \in Seq(Int)
      BY LedgerAssumption DEF Cycles
    <2>3. Total([c \in Cycles |-> 0]) \in Int
      BY <2>2, TotalType DEF Total
    <2>4. FilledShares(EmptyLedger, t, "sell") = FilledShares(EmptyLedger, t, "buy")
          /\ FilledShares(EmptyLedger, t, "sell") \in Int
      BY <2>1, <2>3 DEF FilledShares, Side
    <2> QED BY <2>4 DEF EmptyLedger
  <1>3. ClosedAreTrades(EmptyLedger)
    <2>1. \A t \in Tickers : Closed(EmptyLedger, t) = {} /\ Bought(EmptyLedger, t) = {}
                             /\ EmptyLedger.pos[t] = 0
      BY OrderNames DEF Closed, Bought, EmptyLedger, Side
    <2> QED BY <2>1, FS_EmptySet DEF ClosedAreTrades
  <1>4. TradesSound(EmptyLedger)
    BY DEF TradesSound, EmptyLedger
  <1>5. FilledWithinOrder
    BY DEF Init, FilledWithinOrder, NoOrder, EmptyLedger
  <1> QED BY <1>1, <1>2, <1>3, <1>4, <1>5
      DEF PositionsInv, PositionsSound, BuysOfNewTickers, SharesInHand, OneOrderPending,
          AddsOneOrder, Handling

\* PositionsInv holds in every reachable state, when no write fails between those
\* of one settlement.
THEOREM PositionsInvariant ==
  ASSUME SettlementWhole
  PROVE  Spec => []PositionsInv
  <1>1. /\ IInv /\ InHand /\ SlotsInv /\ PositionsInv /\ [Next]_vars
        /\ IInv' /\ InHand'
        => PositionsInv'
    <2> SUFFICES ASSUME IInv, InHand, SlotsInv, PositionsInv, [Next]_vars, IInv', InHand'
                 PROVE  PositionsInv'
      OBVIOUS
    <2>1. FilledWithinOrder'
      BY FilledWithinOrderPreserved DEF PositionsInv
    <2> QED BY <2>1, EveryStep, PositionsPreserved
  <1> QED BY PositionsInit, <1>1, SlotsInvariant, InductiveInvariant, TypeCorrect, PTL DEF Spec

\* The spec's "positions: fills から導出": whatever crashes, rolls back or goes
\* unanswered, a committed position is the shares bought less the shares sold by the
\* committed fills (fills._settle_fill, trade_closer.apply_fill).
THEOREM PositionsAreDerived ==
  ASSUME SettlementWhole
  PROVE  Spec => []PositionsDerivedFromFills
  <1>1. PositionsInv => PositionsDerivedFromFills
    BY DEF PositionsInv, PositionsSound, PositionsDerivedFromFills
  <1> QED BY PositionsInvariant, <1>1, PTL

\* R-21: every buy that filled is the open position of its ticker or has been closed
\* into exactly one trade (trade_closer._close_trade).
THEOREM ClosedPositionsAreTrades ==
  ASSUME SettlementWhole
  PROVE  Spec => []EveryClosedPositionIsATrade
  <1>1. PositionsInv => EveryClosedPositionIsATrade
    BY DEF PositionsInv, PositionsSound, EveryClosedPositionIsATrade
  <1> QED BY PositionsInvariant, <1>1, PTL

-------------------------------------------------------------------------------
(***************************************************************************)
(* The commits keep the book of positions and trades.                      *)
(***************************************************************************)

\* The shares pending of an order are at most a lot.
LEMMA PendingWithinLot ==
  ASSUME IInv, FilledWithinOrder, NEW o \in Order
  PROVE  work.fills[o] \in 0..Lot
  <1>1. work.fills[o] \in Nat /\ broker[o].filled \in Nat /\ broker[o].qty \in 0..Lot
    BY DEF IInv, TypeOK, LedgerState, BrokerOrder
  <1>2. work.fills[o] <= broker[o].filled /\ broker[o].filled <= broker[o].qty
    BY DEF IInv, LedgerNeverAheadOfBroker, FilledWithinOrder
  <1> QED BY <1>1, <1>2, LedgerAssumption

\* A closing sell adds one trade of its ticker, and nothing else does.
LEMMA TradesOfTicker ==
  ASSUME NEW D \in LedgerState, NEW L \in LedgerState, NEW o \in Order, NEW t \in Tickers,
         o.side = "sell", o \notin D.trades
  PROVE  /\ L.trades = D.trades \cup {o} =>
                Cardinality(Closed(L, t)) = IF t = o.ticker THEN Cardinality(Closed(D, t)) + 1
                                            ELSE Cardinality(Closed(D, t))
         /\ L.trades = D.trades => Closed(L, t) = Closed(D, t)
  <1>1. L.trades = D.trades => Closed(L, t) = Closed(D, t)
    BY DEF Closed
  <1>2. SUFFICES ASSUME L.trades = D.trades \cup {o}
                 PROVE  Cardinality(Closed(L, t)) = IF t = o.ticker
                            THEN Cardinality(Closed(D, t)) + 1 ELSE Cardinality(Closed(D, t))
    BY <1>1
  <1>3. \A c \in Cycles : OrderOf(c, t, "sell") = o <=> c = o.cycle /\ t = o.ticker
    BY OrderNames DEF Side
  <1>4. o.cycle \in Cycles
    BY DEF Order
  <1>5. CASE t = o.ticker
    <2>1. Closed(L, t) = Closed(D, t) \cup {o.cycle} /\ o.cycle \notin Closed(D, t)
      BY <1>2, <1>3, <1>4, <1>5 DEF Closed
    <2>2. IsFiniteSet(Closed(D, t))
      <3>1. IsFiniteSet(Cycles)
        BY FS_Interval, LedgerAssumption DEF Cycles
      <3>2. Closed(D, t) \in SUBSET Cycles
        BY DEF Closed
      <3> QED BY <3>1, <3>2, FS_Subset
    <2>3. Cardinality(Closed(D, t) \cup {o.cycle}) = Cardinality(Closed(D, t)) + 1
      BY <2>1, <2>2, FS_AddElement
    <2> QED BY <1>5, <2>1, <2>3
  <1>6. CASE t # o.ticker
    <2>1. Closed(L, t) = Closed(D, t)
      BY <1>2, <1>3, <1>6 DEF Closed
    <2> QED BY <1>6, <2>1
  <1> QED BY <1>5, <1>6

TradesIn(L) == [t \in Tickers |-> Cardinality(Closed(L, t))]

\* A commit that leaves shares and trades as they were is none of the book's.
LEMMA BookStays ==
  ASSUME db'.pos = db.pos, db'.trades = db.trades
  PROVE  UNCHANGED Book!vars
  <1>1. TradesIn(db') = TradesIn(db)
    BY DEF TradesIn, Closed
  <1> QED BY <1>1 DEF Book!vars, TradesIn

\* A commit of what is pending books the fills of one order.
LEMMA CommitIsBooked ==
  ASSUME IInv, IInv', FilledWithinOrder, NEW o \in Order, AddsFillsOf(o, db, work),
         SameShares(db', work)
  PROVE  [Book!Next]_(Book!vars)
  <1> DEFINE n == work.fills[o]
             t == o.ticker
  <1>0. /\ db \in LedgerState /\ db' \in LedgerState /\ n \in 0..Lot
        /\ t \in Tickers /\ o.side \in {"buy", "sell"}
        /\ db'.pos = work.pos /\ db'.trades = work.trades
        /\ db.pos \in [Tickers -> Nat] /\ db'.pos \in [Tickers -> Nat]
    BY PendingWithinLot DEF IInv, TypeOK, Order, Side, LedgerState, SameShares
  <1>1. \A u \in Tickers : u # t => db'.pos[u] = db.pos[u]
    BY <1>0 DEF AddsFillsOf
  <1> HIDE DEF n, t
  <1>2. CASE o.side = "buy"
    <2>1. db.pos[t] = 0 /\ db'.pos[t] = db.pos[t] + n /\ db'.trades = db.trades
      BY <1>0, <1>2 DEF AddsFillsOf, n, t
    <2>2. db'.pos = [db.pos EXCEPT ![t] = @ + n]
      BY <1>0, <1>1, <2>1
    <2>3. CASE n = 0
      <3>1. db'.pos = db.pos
        BY <1>0, <2>2, <2>3
      <3> QED BY <2>1, <3>1, BookStays
    <2>4. CASE n # 0
      <3>1. TradesIn(db') = TradesIn(db)
        BY <2>1 DEF TradesIn, Closed
      <3>2. [u \in Tickers |-> FALSE] = [[u \in Tickers |-> FALSE] EXCEPT ![t] = FALSE]
        BY Zenon
      <3>3. Book!Buy(t, n, FALSE)
        BY <2>1, <2>2, <3>1, <3>2, Zenon DEF Book!Buy, TradesIn
      <3>4. n \in 1..Lot
        BY <1>0, <2>4
      <3> QED BY <1>0, <3>3, <3>4 DEF Book!Next
    <2> QED BY <2>3, <2>4
  <1>3. CASE o.side = "sell"
    <2>1. /\ o \notin db.trades /\ db.pos[t] > 0 /\ db'.pos[t] + n = db.pos[t]
          /\ db'.trades = IF db'.pos[t] = 0 THEN db.trades \cup {o} ELSE db.trades
          /\ db.pos[t] \in Nat /\ db'.pos[t] \in Nat
      BY <1>0, <1>3 DEF AddsFillsOf, n, t
    <2>2. n <= db.pos[t] /\ db'.pos[t] = db.pos[t] - n /\ (db'.pos[t] = 0 <=> n = db.pos[t])
      BY <1>0, <2>1
    <2>3. db'.pos = [db.pos EXCEPT ![t] = @ - n]
      BY <1>0, <1>1, <2>2
    <2>4. CASE n = 0
      <3>1. db'.pos = db.pos /\ db'.trades = db.trades
        BY <1>0, <2>1, <2>3, <2>4
      <3> QED BY <3>1, BookStays
    <2>5. CASE n # 0
      <3>1. TradesIn(db') = [TradesIn(db) EXCEPT ![t] = IF n = db.pos[t] THEN @ + 1 ELSE @]
        <4>1. \A u \in Tickers : Cardinality(Closed(db', u))
                  = IF u = t /\ n = db.pos[t] THEN Cardinality(Closed(db, u)) + 1
                    ELSE Cardinality(Closed(db, u))
          <5>1. CASE n = db.pos[t]
            <6>1. db'.trades = db.trades \cup {o}
              BY <2>1, <2>2, <5>1
            <6> QED BY <1>0, <1>3, <2>1, <5>1, <6>1, TradesOfTicker DEF t
          <5>2. CASE n # db.pos[t]
            <6>1. db'.trades = db.trades
              BY <2>1, <2>2, <5>2
            <6> QED BY <5>2, <6>1 DEF Closed
          <5> QED BY <5>1, <5>2
        <4> QED BY <1>0, <4>1 DEF TradesIn
      <3>2. Book!Sell(t, n)
        <4>1. [u \in Tickers |-> FALSE][t] = FALSE
          BY <1>0
        <4> QED BY <2>2, <2>3, <3>1, <4>1, Zenon DEF Book!Sell, TradesIn
      <3>3. n \in 1..Lot
        BY <1>0, <2>5
      <3> QED BY <1>0, <3>2, <3>3 DEF Book!Next
    <2> QED BY <2>4, <2>5
  <1> QED BY <1>0, <1>2, <1>3

\* Every step commits nothing, or all that is pending.
LEMMA StepIsBooked ==
  ASSUME IInv, IInv', InHand, InHand', PositionsInv, [Next]_vars
  PROVE  [Book!Next]_(Book!vars)
  <1>1. SameShares(db', db) \/ SameShares(db', work)
    BY EveryStep DEF QuietStep, StillShares, PlanningStep, RecordingStep, FillingStep,
                     SameShares
  <1>2. CASE SameShares(db', db)
    BY <1>2, BookStays DEF SameShares
  <1>3. CASE SameShares(db', work) /\ work.pos = db.pos /\ work.trades = db.trades
    BY <1>3, BookStays DEF SameShares
  <1>4. CASE SameShares(db', work) /\ \E o \in Order : AddsFillsOf(o, db, work)
    BY <1>4, CommitIsBooked DEF PositionsInv
  <1> QED BY <1>1, <1>2, <1>3, <1>4 DEF PositionsInv, OneOrderPending, AddsOneOrder

\* R-12, R-21: whatever crashes, rolls back or goes unanswered, the committed
\* positions and trades implement the PositionBook, when no write fails between those
\* of one settlement: each commit opens one position or sells from one, and adds
\* the trade of the sell that closes it with that sell.
THEOREM CommitsImplementPositionBook ==
  ASSUME SettlementWhole
  PROVE  Spec => CommitsKeepTheBook
  <1>1. Init => Book!Init
    <2> SUFFICES ASSUME Init PROVE Book!Init
      OBVIOUS
    <2>1. db.pos = [t \in Tickers |-> 0] /\ db.trades = {}
      BY DEF Init, EmptyLedger
    <2>2. \A t \in Tickers : Cardinality(Closed(db, t)) = 0
      BY <2>1, FS_EmptySet DEF Closed
    <2> QED BY <2>1, <2>2 DEF Book!Init
  <1>2. IInv /\ InHand /\ PositionsInv /\ [Next]_vars /\ IInv' /\ InHand'
        => [Book!Next]_(Book!vars)
    BY StepIsBooked
  <1> QED BY <1>1, <1>2, PositionsInvariant, InductiveInvariant, TypeCorrect, PTL
      DEF Spec, CommitsKeepTheBook, Book!Spec
===============================================================================
