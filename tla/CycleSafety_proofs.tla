--------------------------- MODULE CycleSafety_proofs ---------------------------
(***************************************************************************)
(* IInv is an inductive invariant of the trading cycle, and what follows   *)
(* from it.                                                                *)
(***************************************************************************)
EXTENDS TradingCycle_proofs

-------------------------------------------------------------------------------
(***************************************************************************)
(* What the ledger's writes leave alone.                                   *)
(***************************************************************************)

SameOrders(M, L) == M.orders = L.orders /\ M.qty = L.qty /\ M.approvals = L.approvals

\* M and L agree but for the positions and the trades.
SameRows(M, L) ==
    /\ SameOrders(M, L)
    /\ M.fills = L.fills
    /\ M.cycles = L.cycles
    /\ M.decisions = L.decisions
    /\ M.halted = L.halted

\* What inserting a cycle changes.
LEMMA CycleFields ==
  ASSUME NEW L \in LedgerState, NEW c \in Cycles
  PROVE  /\ SameOrders(InsertCycle(L, c), L)
         /\ InsertCycle(L, c).fills = L.fills
         /\ InsertCycle(L, c).halted = L.halted
         /\ InsertCycle(L, c).decisions = L.decisions
         /\ InsertCycle(L, c).cycles = [L.cycles EXCEPT ![c] = "running"]
  BY DEF LedgerState, InsertCycle, SameOrders

\* What inserting decisions changes.
LEMMA DecisionRowFields ==
  ASSUME NEW L \in LedgerState, NEW D \in SUBSET Order
  PROVE  /\ SameOrders(InsertDecisions(L, D), L)
         /\ InsertDecisions(L, D).fills = L.fills
         /\ InsertDecisions(L, D).halted = L.halted
         /\ InsertDecisions(L, D).cycles = L.cycles
         /\ InsertDecisions(L, D).decisions = L.decisions \cup D
  BY DEF LedgerState, InsertDecisions, SameOrders

\* What inserting an order with its parents changes.
LEMMA OrderFields ==
  ASSUME NEW L \in LedgerState, NEW o \in Order, NEW q \in 1..Lot
  PROVE  /\ RecordOrder(L, o, q).orders[o] = "recorded"
         /\ RecordOrder(L, o, q).qty[o] = q
         /\ \A p \in Order : p # o => /\ RecordOrder(L, o, q).orders[p] = L.orders[p]
                                     /\ RecordOrder(L, o, q).qty[p] = L.qty[p]
         /\ RecordOrder(L, o, q).decisions = L.decisions \cup {o}
         /\ RecordOrder(L, o, q).approvals = L.approvals \cup {o}
         /\ RecordOrder(L, o, q).fills = L.fills
         /\ RecordOrder(L, o, q).halted = L.halted
         /\ RecordOrder(L, o, q).cycles = L.cycles
  BY DEF LedgerState, RecordOrder

\* What updating an order's status changes.
LEMMA StatusFields ==
  ASSUME NEW L \in LedgerState, NEW o \in Order, NEW s \in OrderStatus
  PROVE  /\ SetStatus(L, o, s).orders[o] = s
         /\ \A p \in Order : p # o => SetStatus(L, o, s).orders[p] = L.orders[p]
         /\ SetStatus(L, o, s).qty = L.qty
         /\ SetStatus(L, o, s).approvals = L.approvals
         /\ SetStatus(L, o, s).fills = L.fills
         /\ SetStatus(L, o, s).cycles = L.cycles
         /\ SetStatus(L, o, s).decisions = L.decisions
         /\ SetStatus(L, o, s).halted = L.halted
  BY DEF LedgerState, SetStatus

\* What closing a cycle changes.
LEMMA OutcomeFields ==
  ASSUME NEW L \in LedgerState, NEW c \in Cycles, NEW r \in CycleOutcome
  PROVE  /\ SameOrders(FinishCycle(L, c, r), L)
         /\ FinishCycle(L, c, r).fills = L.fills
         /\ FinishCycle(L, c, r).decisions = L.decisions
         /\ FinishCycle(L, c, r).halted = L.halted
         /\ FinishCycle(L, c, r).cycles = [L.cycles EXCEPT ![c] = r]
  BY DEF LedgerState, FinishCycle, SameOrders

\* What raising or clearing the halted flag changes.
LEMMA HaltedFields ==
  ASSUME NEW L \in LedgerState, NEW b \in BOOLEAN, NEW M, M = [L EXCEPT !.halted = b]
  PROVE  /\ SameOrders(M, L)
         /\ M.fills = L.fills
         /\ M.decisions = L.decisions
         /\ M.cycles = L.cycles
  BY DEF LedgerState, SameOrders

\* What recording a fill and settling it changes.
LEMMA FillFields ==
  ASSUME NEW L \in LedgerState, NEW o \in Order, NEW n \in Nat
  PROVE  /\ InsertFill(L, o, n).fills = [L.fills EXCEPT ![o] = @ + n]
         /\ SameOrders(InsertFill(L, o, n), L)
         /\ InsertFill(L, o, n).cycles = L.cycles
         /\ InsertFill(L, o, n).decisions = L.decisions
         /\ InsertFill(L, o, n).halted = L.halted
         /\ SameRows(MovePosition(L, o, n), L)
         /\ SameRows(SettleFill(L, o, n), L)
  BY DEF LedgerState, InsertFill, MovePosition, SettleFill, SameOrders, SameRows

-------------------------------------------------------------------------------
(***************************************************************************)
(* Steps that only decide.                                                 *)
(***************************************************************************)

\* A step that inserts decisions of the current cycle, or nothing, and moves on
\* to the next question, to the orders or to the end.
DecidingStep ==
    /\ pc \in Deciding
    /\ pc' \in Deciding \cup {"execute", "finish"}
    /\ UNCHANGED <<db, broker, cycle, cur, recorded>>
    /\ SameOrders(work', work)
    /\ work'.fills = work.fills
    /\ work'.cycles = work.cycles
    /\ work'.halted = work.halted
    /\ \A o \in Order : o \in work'.decisions => o \in work.decisions \/ o.cycle = cycle
    /\ work.decisions \subseteq work'.decisions
    /\ \A o \in todo' : o.cycle = cycle
    /\ pc' = "finish" => todo' = {}
    /\ pc' \in {"risk", "candidates", "execute"} => outcome' \notin {"halted", "error"}
    /\ pc' = "execute" => open'

\* Such a step preserves the invariant: nothing of the cycle is recorded yet.
LEMMA DecidingPreserves ==
  ASSUME IInv, TypeOK', DecidingStep PROVE IInv'
  <1> USE DEF DecidingStep, Deciding, Handling
  <1>1. FreshOrders'
    BY DEF IInv, FreshOrders, NotYet, SameOrders, Received, TodoOfCycle
  <1>2. NothingPending' /\ FreshCycles' /\ CurrentCycle' /\ TodoOfCycle'
    BY DEF IInv, NothingPending, FreshCycles, CurrentCycle, TodoOfCycle
  <1>3. ForeignKeys(db)' /\ ForeignKeys(work)'
    BY DEF IInv, ForeignKeys, CurrentCycle, SameOrders
  <1>4. OrdersCommitted' /\ SentIsDurable' /\ OrderInHand' /\ LedgerNeverAheadOfBroker'
    BY DEF IInv, OrdersCommitted, SentIsDurable, OrderInHand, LedgerNeverAheadOfBroker,
           SameOrders, Received
  <1>5. StatusSound(db)' /\ StatusSound(work)' /\ Stopped(db)' /\ Stopped(work)'
    BY DEF IInv, StatusSound, Stopped, SameOrders, Received
  <1>6. NotHalted'
    BY DEF IInv, NotHalted
  <1>7. OutcomeSound' /\ OrdersInMarketHours'
    BY DEF IInv, OutcomeSound, OrdersInMarketHours, FreshOrders, NotYet, Received
  <1> QED BY <1>1, <1>2, <1>3, <1>4, <1>5, <1>6, <1>7 DEF IInv

\* The lock, the decisions and their failures are such steps.
LEMMA DecisionFields ==
  ASSUME TypeOK, cycle \in Cycles, NEW T \in SUBSET Tickers, NEW s \in Side,
         work' = InsertDecisions(work, Decisions(T, s))
  PROVE  /\ SameOrders(work', work)
         /\ work'.fills = work.fills
         /\ work'.cycles = work.cycles
         /\ work'.halted = work.halted
         /\ \A o \in Order : o \in work'.decisions => o \in work.decisions \/ o.cycle = cycle
         /\ work.decisions \subseteq work'.decisions
         /\ \A o \in Decisions(T, s) : o.cycle = cycle
  <1>1. Decisions(T, s) \in SUBSET Order
    BY DecisionsType
  <1>2. work'.decisions = work.decisions \cup Decisions(T, s)
    BY <1>1, DecisionRowFields DEF TypeOK
  <1>3. \A o \in Decisions(T, s) : o.cycle = cycle
    BY DEF Decisions, Decision
  <1> QED BY <1>1, <1>2, <1>3, DecisionRowFields DEF TypeOK

\* EvaluateHoldings, WithinLimits and EvaluateCandidates preserve the invariant.
LEMMA JudgingPreserves ==
  ASSUME IInv, TypeOK',
         \/ \E isOpen \in BOOLEAN, T, M \in SUBSET Tickers : EvaluateHoldings(isOpen, T, M)
         \/ WithinLimits
         \/ \E T \in SUBSET Tickers : EvaluateCandidates(T)
  PROVE  IInv'
  <1> USE DEF Deciding
  <1>0. TypeOK /\ (pc \in Deciding => cycle \in Cycles) /\ \A o \in todo : o.cycle = cycle
    BY DEF IInv, CurrentCycle, TodoOfCycle
  <1>1. ASSUME NEW isOpen \in BOOLEAN, NEW T \in SUBSET Tickers, NEW M \in SUBSET Tickers,
               EvaluateHoldings(isOpen, T, M)
        PROVE  DecidingStep
    BY <1>0, <1>1, DecisionFields
    DEF EvaluateHoldings, ExecuteIfOpen, EndWith, DecidingStep, Side
  <1>2. ASSUME WithinLimits PROVE DecidingStep
    <2>1. outcome \notin {"halted", "error"}
      BY <1>2 DEF WithinLimits, IInv, OutcomeSound
    <2> QED
      BY <1>0, <1>2, <2>1
      DEF WithinLimits, ExecuteIfOpen, EndWith, DecidingStep, SameOrders, ledgerVars
  <1>3. ASSUME NEW T \in SUBSET Tickers, EvaluateCandidates(T) PROVE DecidingStep
    BY <1>0, <1>3, DecisionFields
    DEF EvaluateCandidates, ExecuteIfOpen, EndWith, DecidingStep, Side
  <1> QED BY <1>1, <1>2, <1>3, DecidingPreserves

\* So do the failures that end a deciding cycle.
LEMMA JudgingFailsPreserves ==
  ASSUME IInv, TypeOK',
         \/ MarketClockUnavailable
         \/ AccountUnavailable
         \/ SnapshotFails
         \/ \E T \in SUBSET Tickers : HoldingsFail(T) \/ CandidatesFail(T)
  PROVE  IInv'
  <1> USE DEF Deciding
  <1>0. TypeOK /\ (pc \in Deciding => cycle \in Cycles)
    BY DEF IInv, CurrentCycle
  <1>1. ASSUME MarketClockUnavailable \/ AccountUnavailable \/ SnapshotFails
        PROVE  DecidingStep
    BY <1>1
    DEF MarketClockUnavailable, AccountUnavailable, SnapshotFails, EndWith, DecidingStep,
        SameOrders, ledgerVars
  <1>2. ASSUME NEW T \in SUBSET Tickers, HoldingsFail(T) PROVE DecidingStep
    BY <1>0, <1>2, DecisionFields DEF HoldingsFail, EndWith, DecidingStep, Side
  <1>3. ASSUME NEW T \in SUBSET Tickers, CandidatesFail(T) PROVE DecidingStep
    BY <1>0, <1>3, DecisionFields DEF CandidatesFail, EndWith, DecidingStep, Side
  <1> QED BY <1>1, <1>2, <1>3, DecidingPreserves

-------------------------------------------------------------------------------
(***************************************************************************)
(* Steps that submit, poll and settle.                                     *)
(***************************************************************************)

\* Only the order in hand changes in the pending ledger.
OnlyInHand ==
    /\ work'.qty = work.qty
    /\ work'.approvals = work.approvals
    /\ work'.decisions = work.decisions
    /\ work'.cycles = work.cycles
    /\ work'.halted = work.halted
    /\ work'.orders[cur] # "none"
    /\ \A o \in Order : o # cur => /\ work'.orders[o] = work.orders[o]
                                   /\ work'.fills[o] = work.fills[o]

\* A step of mark or poll_and_settle: the broker is only read.
PollingStep ==
    /\ pc \in {"mark", "poll"}
    /\ pc' \in {"poll", "execute"}
    /\ UNCHANGED <<db, broker, cycle, open, outcome, todo>>
    /\ OnlyInHand
    /\ work'.orders[cur] \in Terminal => work'.orders[cur] = broker[cur].status
    /\ work'.fills[cur] <= broker[cur].filled
    /\ pc' = "poll" => cur' = cur /\ recorded' = work'.fills[cur]

\* Such a step preserves the invariant.
LEMMA PollingPreserves ==
  ASSUME IInv, TypeOK', PollingStep PROVE IInv'
  <1> USE DEF PollingStep, OnlyInHand, Deciding, Handling
  <1>0. cur \in Order /\ cur.cycle = cycle /\ cur \notin todo /\ Received(cur)
        /\ db.orders[cur] # "none"
    BY DEF IInv, OrderInHand
  <1>1. FreshOrders'
    BY <1>0 DEF IInv, FreshOrders, NotYet, Received
  <1>2. NothingPending' /\ FreshCycles' /\ CurrentCycle' /\ TodoOfCycle'
    BY DEF IInv, NothingPending, FreshCycles, CurrentCycle, TodoOfCycle
  <1>3. ForeignKeys(db)' /\ ForeignKeys(work)'
    <2>1. work.orders[cur] # "none"
      BY <1>0 DEF IInv, OrdersCommitted
    <2> QED BY <1>0, <2>1 DEF IInv, ForeignKeys
  <1>4. OrdersCommitted' /\ SentIsDurable' /\ LedgerNeverAheadOfBroker'
    BY <1>0 DEF IInv, OrdersCommitted, SentIsDurable, LedgerNeverAheadOfBroker, Received
  <1>5. OrderInHand'
    BY <1>0 DEF IInv, OrderInHand, Received
  <1>6. StatusSound(db)' /\ StatusSound(work)' /\ Stopped(db)' /\ Stopped(work)'
    BY <1>0 DEF IInv, StatusSound, Stopped, Received
  <1>7. NotHalted' /\ OutcomeSound' /\ OrdersInMarketHours'
    BY DEF IInv, NotHalted, OutcomeSound, OrdersInMarketHours
  <1> QED BY <1>1, <1>2, <1>3, <1>4, <1>5, <1>6, <1>7 DEF IInv

\* A step of submit_market_order: the broker may have the order now.
SubmittingStep ==
    /\ pc = "submit"
    /\ \/ pc' = "mark" /\ cur' = cur /\ broker' = ReceiveOrder
       \/ pc' = "execute" /\ broker' \in {broker, ReceiveOrder}
    /\ UNCHANGED <<db, cycle, open, outcome, todo>>
    /\ OnlyInHand
    /\ work'.orders[cur] \in {"recorded", "failed"}
    /\ work'.fills = work.fills

\* What receiving the order in hand changes at the broker.
LEMMA ReceiveOrderFields ==
  ASSUME TypeOK, cur \in Order, broker' \in {broker, ReceiveOrder}
  PROVE  /\ \A o \in Order : o # cur => broker'[o] = broker[o]
         /\ broker' = ReceiveOrder => /\ broker'[cur].status = "open"
                                      /\ broker'[cur].qty = work.qty[cur]
                                      /\ broker'[cur].filled = 0
  BY DEF TypeOK, ReceiveOrder

\* Such a step preserves the invariant.
LEMMA SubmittingPreserves ==
  ASSUME IInv, TypeOK', SubmittingStep PROVE IInv'
  <1> USE DEF SubmittingStep, OnlyInHand, Deciding, Handling
  <1>0. /\ TypeOK /\ cur \in Order /\ cur.cycle = cycle /\ cur \notin todo /\ ~Received(cur)
        /\ db.orders[cur] = "recorded" /\ work.orders[cur] = "recorded"
        /\ db.fills[cur] = 0 /\ work.fills[cur] = 0
        /\ work.qty[cur] = db.qty[cur]
    BY DEF IInv, OrderInHand, OrdersCommitted
  <1>1. /\ \A o \in Order : o # cur => broker'[o] = broker[o]
        /\ broker'[cur] = broker[cur] \/ /\ broker'[cur].status = "open"
                                         /\ broker'[cur].qty = db.qty[cur]
                                         /\ broker'[cur].filled = 0
        /\ pc' = "mark" => Received(cur)'
    BY <1>0, ReceiveOrderFields DEF Received
  <1>2. FreshOrders'
    BY <1>0, <1>1 DEF IInv, FreshOrders, NotYet, Received
  <1>3. NothingPending' /\ FreshCycles' /\ CurrentCycle' /\ TodoOfCycle'
    BY DEF IInv, NothingPending, FreshCycles, CurrentCycle, TodoOfCycle
  <1>4. ForeignKeys(db)' /\ ForeignKeys(work)'
    BY <1>0 DEF IInv, ForeignKeys
  <1>5. OrdersCommitted' /\ SentIsDurable'
    BY <1>0, <1>1 DEF IInv, OrdersCommitted, SentIsDurable, Received
  <1>6. LedgerNeverAheadOfBroker'
    <2>1. broker'[cur].filled \in Nat
      BY <1>0 DEF TypeOK, BrokerOrder
    <2> QED BY <1>0, <1>1, <2>1 DEF IInv, LedgerNeverAheadOfBroker
  <1>7. OrderInHand'
    BY <1>0, <1>1 DEF IInv, OrderInHand
  <1>8. StatusSound(db)' /\ StatusSound(work)'
    BY <1>0, <1>1 DEF IInv, StatusSound, Received, Terminal
  <1>9. Stopped(db)' /\ Stopped(work)'
    BY <1>0, <1>1 DEF IInv, Stopped, Received, CurrentCycle
  <1>10. NotHalted' /\ OutcomeSound' /\ OrdersInMarketHours'
    BY DEF IInv, NotHalted, OutcomeSound, OrdersInMarketHours
  <1> QED BY <1>2, <1>3, <1>4, <1>5, <1>6, <1>7, <1>8, <1>9, <1>10 DEF IInv

\* Submitting the order, answered or not, preserves the invariant.
LEMMA SubmitPreserves ==
  ASSUME IInv, TypeOK', Submit \/ \E accepted \in BOOLEAN : SubmitErr(accepted)
  PROVE  IInv'
  <1>0. pc = "submit" => cur \in Order /\ work.orders[cur] = "recorded" /\ TypeOK
    BY DEF IInv, OrderInHand, Handling
  <1>1. ASSUME Submit PROVE SubmittingStep
    BY <1>0, <1>1 DEF Submit, SubmittingStep, OnlyInHand, ledgerVars
  <1>2. ASSUME NEW accepted \in BOOLEAN, SubmitErr(accepted) PROVE SubmittingStep
    <2>1. /\ cur \in Order /\ work.orders[cur] = "recorded" /\ TypeOK
          /\ pc = "submit" /\ pc' = "execute" /\ broker' \in {broker, ReceiveOrder}
          /\ UNCHANGED <<db, cycle, open, outcome, todo>>
          /\ work' = SetStatus(work, cur, "failed") \/ work' = work
      BY <1>0, <1>2 DEF SubmitErr
    <2>2. CASE work' = work
      BY <2>1, <2>2 DEF SubmittingStep, OnlyInHand
    <2>3. CASE work' = SetStatus(work, cur, "failed")
      <3>1. work \in LedgerState /\ "failed" \in OrderStatus
        BY <2>1 DEF TypeOK, OrderStatus
      <3> QED BY <2>1, <2>3, <3>1, StatusFields DEF SubmittingStep, OnlyInHand
    <2> QED BY <2>1, <2>2, <2>3
  <1> QED BY <1>1, <1>2, SubmittingPreserves

\* Marking the order submitted, and giving up on it, preserve the invariant.
LEMMA MarkPreserves ==
  ASSUME IInv, TypeOK', MarkSubmitted \/ MarkSubmittedFails \/ PollErr
  PROVE  IInv'
  <1>0. pc \in {"mark", "poll"} =>
            /\ TypeOK /\ cur \in Order
            /\ work.orders[cur] # "none"
            /\ work.orders[cur] \in Terminal => work.orders[cur] = broker[cur].status
            /\ work.fills[cur] <= broker[cur].filled
    BY DEF IInv, OrderInHand, Handling, OrdersCommitted, StatusSound, LedgerNeverAheadOfBroker
  <1>1. ASSUME MarkSubmitted PROVE PollingStep
    <2>1. work \in LedgerState /\ "submitted" \in OrderStatus
      BY <1>0, <1>1 DEF MarkSubmitted, TypeOK, OrderStatus
    <2> QED
      BY <1>0, <1>1, <2>1, StatusFields DEF MarkSubmitted, PollingStep, OnlyInHand, Terminal
  <1>2. ASSUME MarkSubmittedFails \/ PollErr PROVE PollingStep
    BY <1>0, <1>2 DEF MarkSubmittedFails, PollErr, PollingStep, OnlyInHand, ledgerVars
  <1> QED BY <1>1, <1>2, PollingPreserves

\* One turn of the poll: what it may write, and how far.
LEMMA PollFields ==
  ASSUME TypeOK, cur \in Order, NewShares \in Nat, NewShares > 0,
         NEW M, M \in {work, InsertFill(work, cur, NewShares),
                       MovePosition(InsertFill(work, cur, NewShares), cur, NewShares),
                       SettleFill(InsertFill(work, cur, NewShares), cur, NewShares)}
  PROVE  /\ SameOrders(M, work)
         /\ M.cycles = work.cycles
         /\ M.decisions = work.decisions
         /\ M.halted = work.halted
         /\ \A o \in Order : o # cur => M.fills[o] = work.fills[o]
         /\ M # work => M.fills[cur] = work.fills[cur] + NewShares
  <1> DEFINE I == InsertFill(work, cur, NewShares)
  <1>1. /\ I \in LedgerState
        /\ I.fills = [work.fills EXCEPT ![cur] = @ + NewShares]
        /\ SameOrders(I, work)
        /\ I.cycles = work.cycles
        /\ I.decisions = work.decisions
        /\ I.halted = work.halted
    BY FillTypes, FillFields DEF TypeOK
  <1>2. SameRows(MovePosition(I, cur, NewShares), I) /\ SameRows(SettleFill(I, cur, NewShares), I)
    BY <1>1, FillFields
  <1>3. /\ I.fills[cur] = work.fills[cur] + NewShares
        /\ \A o \in Order : o # cur => I.fills[o] = work.fills[o]
    BY <1>1 DEF TypeOK, LedgerState
  <1> HIDE DEF I
  <1>4. M \in {work, I, MovePosition(I, cur, NewShares), SettleFill(I, cur, NewShares)}
    BY DEF I
  <1>5. M = work \/ SameRows(M, I)
    BY <1>2, <1>4 DEF SameRows, SameOrders
  <1>6. CASE M = work
    BY <1>6 DEF SameOrders
  <1>7. CASE SameRows(M, I)
    BY <1>1, <1>3, <1>7 DEF SameRows, SameOrders
  <1> QED BY <1>5, <1>6, <1>7

\* A turn of the poll, or one whose write failed, preserves the invariant.
LEMMA PollPreserves ==
  ASSUME IInv, TypeOK',
         \/ \E priced \in BOOLEAN : Poll(priced)
         \/ \E fault \in DbFaults : PollWriteFails(fault)
  PROVE  IInv'
  <1> DEFINE I == InsertFill(work, cur, NewShares)
             S == SettleFill(I, cur, NewShares)
  <1>0. /\ TypeOK /\ pc = "poll" /\ cur \in Order
        /\ recorded = work.fills[cur]
        /\ work.orders[cur] # "none"
        /\ work.orders[cur] \in Terminal => work.orders[cur] = broker[cur].status
        /\ work.fills[cur] <= broker[cur].filled
    BY DEF IInv, OrderInHand, Handling, OrdersCommitted, StatusSound, LedgerNeverAheadOfBroker,
           Poll, PollWriteFails
  <1>1. /\ NewShares \in Nat
        /\ work.fills[cur] + NewShares = broker[cur].filled
    BY <1>0 DEF NewShares, TypeOK, LedgerState, BrokerOrder
  <1>2. ASSUME NEW priced \in BOOLEAN, Poll(priced) PROVE PollingStep
    <2> DEFINE fill == NewShares > 0 /\ priced
               oversold == fill /\ ~Applicable(work, cur, NewShares)
               inserted == IF fill THEN I ELSE work
               settled == IF fill THEN S ELSE work
    <2>1. /\ work' = IF oversold THEN inserted
                     ELSE SetStatus(settled, cur, Reported(broker[cur]))
          /\ \/ pc' = "execute"
             \/ /\ ~oversold
                /\ recorded' = IF fill THEN broker[cur].filled ELSE recorded
                /\ pc' = "poll" /\ cur' = cur
          /\ UNCHANGED <<db, broker, cycle, open, outcome, todo>>
      BY <1>0, <1>2 DEF Poll
    <2>2. CASE oversold
      <3>1. work' = I
        BY <2>1, <2>2
      <3>2. /\ SameOrders(I, work) /\ I.cycles = work.cycles /\ I.decisions = work.decisions
            /\ I.halted = work.halted
            /\ \A o \in Order : o # cur => I.fills[o] = work.fills[o]
            /\ I = work \/ I.fills[cur] = work.fills[cur] + NewShares
        BY <1>0, <1>1, <2>2, PollFields
      <3>3. work'.fills[cur] <= broker[cur].filled
        BY <1>0, <1>1, <3>1, <3>2 DEF TypeOK, BrokerOrder
      <3> HIDE DEF I
      <3> QED BY <1>0, <2>1, <2>2, <3>1, <3>2, <3>3 DEF PollingStep, OnlyInHand, SameOrders
    <2>3. CASE ~oversold
      <3>1. /\ SameOrders(settled, work) /\ settled.cycles = work.cycles
            /\ settled.decisions = work.decisions
            /\ settled.halted = work.halted
            /\ \A o \in Order : o # cur => settled.fills[o] = work.fills[o]
            /\ settled.fills[cur] = IF fill THEN broker[cur].filled ELSE recorded
        <4>1. CASE fill
          <5>0. work \in LedgerState /\ cur \in Order
            BY <1>0 DEF TypeOK
          <5>1. I \in LedgerState
            BY <1>1, <5>0, FillTypes
          <5>2. I.fills = [work.fills EXCEPT ![cur] = @ + NewShares]
            BY <1>1, <5>0, FillFields
          <5>3. S.fills = I.fills
            <6>1. SameRows(S, I)
              BY <1>1, <5>0, <5>1, FillFields
            <6> QED BY <6>1 DEF SameRows
          <5>4. S.fills[cur] = broker[cur].filled
            BY <1>0, <1>1, <5>2, <5>3 DEF TypeOK, LedgerState
          <5> QED BY <1>0, <1>1, <4>1, <5>4, PollFields
        <4>2. CASE ~fill
          BY <1>0, <4>2 DEF SameOrders
        <4> QED BY <4>1, <4>2
      <3>2. settled \in LedgerState
        <4>1. fill => Applicable(I, cur, NewShares)
          BY <1>0, <1>1, <2>3 DEF Applicable, InsertFill, TypeOK, LedgerState
        <4> QED BY <1>0, <1>1, <4>1, FillTypes DEF TypeOK
      <3>3. /\ Reported(broker[cur]) \in OrderStatus
            /\ Reported(broker[cur]) # "none"
            /\ Reported(broker[cur]) \in Terminal => Reported(broker[cur]) = broker[cur].status
        <4>1. broker[cur].status \in BrokerStatus \ {"none"}
          BY <1>0 DEF IInv, OrderInHand, Received, TypeOK, BrokerOrder
        <4> QED BY <4>1 DEF Reported, BrokerStatus, OrderStatus, Terminal
      <3> HIDE DEF settled, fill, I, S
      <3>4. work' = SetStatus(settled, cur, Reported(broker[cur]))
        BY <2>1, <2>3
      <3>5. /\ work'.orders[cur] = Reported(broker[cur])
            /\ \A o \in Order : o # cur => work'.orders[o] = settled.orders[o]
            /\ work'.qty = settled.qty /\ work'.approvals = settled.approvals
            /\ work'.fills = settled.fills /\ work'.cycles = settled.cycles
            /\ work'.decisions = settled.decisions /\ work'.halted = settled.halted
        BY <1>0, <3>2, <3>3, <3>4, StatusFields
      <3>6. work'.fills[cur] <= broker[cur].filled
        BY <1>0, <3>1, <3>5 DEF TypeOK, BrokerOrder
      <3>7. pc' = "poll" => recorded' = work'.fills[cur]
        BY <2>1, <3>1, <3>5
      <3>8. OnlyInHand
        BY <1>0, <3>1, <3>3, <3>5 DEF OnlyInHand, SameOrders
      <3>9. work'.orders[cur] \in Terminal => work'.orders[cur] = broker[cur].status
        BY <3>3, <3>5
      <3> HIDE DEF oversold
      <3> QED BY <1>0, <2>1, <3>6, <3>7, <3>8, <3>9 DEF PollingStep
    <2> QED BY <2>2, <2>3
  <1>3. ASSUME NEW fault \in DbFaults, PollWriteFails(fault) PROVE PollingStep
    <2>1. /\ NewShares > 0
          /\ work' \in {work, I, MovePosition(I, cur, NewShares), S}
          /\ pc' = "execute"
          /\ UNCHANGED <<db, broker, cycle, open, outcome, todo>>
      BY <1>3 DEF PollWriteFails
    <2>2. /\ SameOrders(work', work) /\ work'.cycles = work.cycles
          /\ work'.decisions = work.decisions /\ work'.halted = work.halted
          /\ \A o \in Order : o # cur => work'.fills[o] = work.fills[o]
          /\ work' = work \/ work'.fills[cur] = work.fills[cur] + NewShares
      BY <1>0, <1>1, <2>1, PollFields
    <2>3. work'.fills[cur] <= broker[cur].filled
      BY <1>0, <1>1, <2>2 DEF TypeOK, BrokerOrder
    <2> HIDE DEF I, S
    <2> QED BY <1>0, <2>1, <2>2, <2>3 DEF PollingStep, OnlyInHand, SameOrders
  <1> QED BY <1>2, <1>3, PollingPreserves

-------------------------------------------------------------------------------
(***************************************************************************)
(* Steps that record, roll back, end and start.                            *)
(***************************************************************************)

\* A step of the order loop that writes nothing.
LEMMA LoopPreserves ==
  ASSUME IInv, TypeOK', (\E o \in todo : NotApproved(o)) \/ NothingLeft
  PROVE  IInv'
  <1> USE DEF Deciding, Handling
  <1>1. /\ pc = "execute" /\ pc' \in {"execute", "finish"}
        /\ UNCHANGED <<db, work, broker, cycle, open, outcome, cur, recorded>>
        /\ todo' \subseteq todo
        /\ pc' = "finish" => todo' = {}
    BY DEF NotApproved, NothingLeft, NextDecision, ledgerVars
  <1>2. FreshOrders' /\ NothingPending' /\ FreshCycles' /\ CurrentCycle' /\ TodoOfCycle'
    BY <1>1 DEF IInv, FreshOrders, NotYet, Received, NothingPending, FreshCycles,
                CurrentCycle, TodoOfCycle
  <1>3. ForeignKeys(db)' /\ ForeignKeys(work)' /\ OrdersCommitted' /\ SentIsDurable'
    BY <1>1 DEF IInv, ForeignKeys, OrdersCommitted, SentIsDurable, Received
  <1>4. OrderInHand' /\ LedgerNeverAheadOfBroker' /\ StatusSound(db)' /\ StatusSound(work)'
    BY <1>1 DEF IInv, OrderInHand, LedgerNeverAheadOfBroker, StatusSound, Received
  <1>5. NotHalted' /\ Stopped(db)' /\ Stopped(work)' /\ OutcomeSound' /\ OrdersInMarketHours'
    BY <1>1 DEF IInv, NotHalted, Stopped, OutcomeSound, OrdersInMarketHours, Received
  <1> QED BY <1>1, <1>2, <1>3, <1>4, <1>5 DEF IInv

\* A step that loses everything pending.
RollbackStep ==
    /\ Rollback
    /\ UNCHANGED <<broker, cycle>>
    /\ todo' \subseteq todo
    /\ pc' \in {"idle", "finish", "execute"}
    /\ pc' # "execute" => todo' = {}
    /\ pc' = "execute" => pc = "execute" /\ outcome' = outcome /\ open' = open
    /\ pc' = "finish" => pc \in Deciding
    /\ pc # "idle"

\* What is committed satisfies the invariant by itself.
LEMMA RollbackPreserves ==
  ASSUME IInv, TypeOK', RollbackStep PROVE IInv'
  <1> USE DEF RollbackStep, Rollback, Deciding, Handling
  <1>1. FreshOrders'
    BY DEF IInv, FreshOrders, NotYet, Received, TodoOfCycle
  <1>2. NothingPending' /\ FreshCycles' /\ CurrentCycle' /\ TodoOfCycle'
    BY DEF IInv, NothingPending, FreshCycles, CurrentCycle, TodoOfCycle
  <1>3. ForeignKeys(db)' /\ ForeignKeys(work)' /\ OrdersCommitted' /\ SentIsDurable'
    BY DEF IInv, ForeignKeys, OrdersCommitted, SentIsDurable, Received
  <1>4. OrderInHand' /\ LedgerNeverAheadOfBroker' /\ StatusSound(db)' /\ StatusSound(work)'
    BY DEF IInv, OrderInHand, LedgerNeverAheadOfBroker, StatusSound, Received
  <1>5. NotHalted' /\ Stopped(db)' /\ Stopped(work)'
    BY DEF IInv, NotHalted, Stopped, Received
  <1>6. OutcomeSound' /\ OrdersInMarketHours'
    BY DEF IInv, OutcomeSound, OrdersInMarketHours, FreshOrders, NotYet, Received
  <1> QED BY <1>1, <1>2, <1>3, <1>4, <1>5, <1>6 DEF IInv

\* A failed recording, a failed halt and a crash are such steps.
LEMMA LosingPreserves ==
  ASSUME IInv, TypeOK', (\E o \in todo : RecordFails(o)) \/ PersistHaltFails \/ Crash
  PROVE  IInv'
  <1>1. ASSUME NEW o \in todo, RecordFails(o) PROVE RollbackStep
    BY <1>1 DEF RecordFails, NextDecision, RollbackStep
  <1>2. ASSUME PersistHaltFails PROVE RollbackStep
    BY <1>2 DEF PersistHaltFails, EndWith, RollbackStep, Deciding
  <1>3. ASSUME Crash PROVE RollbackStep
    BY <1>3 DEF Crash, Release, RollbackStep
  <1> QED BY <1>1, <1>2, <1>3, RollbackPreserves

\* Committing an order with its parents preserves the invariant.
LEMMA RecordPreserves ==
  ASSUME IInv, TypeOK', NEW o \in todo, NEW q \in 1..Lot, RecordThenCommit(o, q)
  PROVE  IInv'
  <1> USE DEF Deciding, Handling
  <1>1. /\ pc = "execute" /\ pc' = "submit" /\ cur' = o /\ todo' = todo \ {o}
        /\ UNCHANGED <<broker, cycle, open, outcome, recorded>>
        /\ db' = work'
        /\ DecisionInsertable(work, o)
    BY DEF RecordThenCommit, NextDecision, Commit
  <1>2. /\ o \in Order /\ o.cycle = cycle /\ ~(o.cycle > cycle) /\ TypeOK
        /\ work \in LedgerState /\ work' = RecordOrder(work, o, q)
    BY DEF IInv, TypeOK, TodoOfCycle, RecordThenCommit
  <1>3. /\ work'.decisions = work.decisions \cup {o}
        /\ work'.approvals = work.approvals \cup {o}
        /\ work'.fills = work.fills
        /\ work'.halted = work.halted
        /\ work'.cycles = work.cycles
    BY <1>2, OrderFields
  <1>4. /\ work'.orders[o] = "recorded"
        /\ \A p \in Order : p # o => /\ work'.orders[p] = work.orders[p]
                                     /\ work'.qty[p] = work.qty[p]
    BY <1>2, OrderFields
  <1>5. /\ ~Received(o)
        /\ db.orders[o] = "none" /\ db.fills[o] = 0 /\ work.fills[o] = 0
    BY <1>2 DEF IInv, FreshOrders, NotYet
  <1>6. FreshOrders'
    BY <1>1, <1>2, <1>3, <1>4 DEF IInv, FreshOrders, NotYet, Received, TodoOfCycle
  <1>7. NothingPending' /\ FreshCycles' /\ CurrentCycle' /\ TodoOfCycle'
    BY <1>1, <1>3 DEF IInv, NothingPending, FreshCycles, CurrentCycle, TodoOfCycle
  <1>8. ForeignKeys(work)'
    <2>1. work.cycles[o.cycle] # "none"
      BY <1>1, <1>2 DEF IInv, ForeignKeys, DecisionInsertable
    <2> QED BY <1>3, <1>4, <2>1 DEF IInv, ForeignKeys
  <1>9. ForeignKeys(db)' /\ OrdersCommitted'
    BY <1>1, <1>8 DEF ForeignKeys, OrdersCommitted
  <1>10. SentIsDurable'
    BY <1>1, <1>4, <1>5 DEF IInv, SentIsDurable, OrdersCommitted, Received
  <1>11. OrderInHand'
    BY <1>1, <1>2, <1>3, <1>4, <1>5 DEF OrderInHand, Received
  <1>12. LedgerNeverAheadOfBroker'
    BY <1>1, <1>3 DEF IInv, LedgerNeverAheadOfBroker
  <1>13. StatusSound(db)' /\ StatusSound(work)'
    BY <1>1, <1>4 DEF IInv, StatusSound, Received, Terminal
  <1>14. NotHalted' /\ Stopped(db)' /\ Stopped(work)' /\ OutcomeSound' /\ OrdersInMarketHours'
    BY <1>1, <1>3 DEF IInv, NotHalted, Stopped, OutcomeSound, OrdersInMarketHours, Received
  <1> QED
    BY <1>6, <1>7, <1>8, <1>9, <1>10, <1>11, <1>12, <1>13, <1>14 DEF IInv

\* Halting the engine commits the pending decisions and ends the cycle.
LEMMA PersistHaltPreserves ==
  ASSUME IInv, TypeOK', PersistHalt PROVE IInv'
  <1> USE DEF Deciding, Handling
  <1>1. /\ pc = "persist" /\ pc' = "finish" /\ todo' = {} /\ TypeOK
        /\ UNCHANGED <<broker, cycle, cur, recorded>>
        /\ db' = work'
    BY DEF PersistHalt, EndWith, Commit, IInv
  <1>2. /\ SameOrders(work', work)
        /\ work'.fills = work.fills
        /\ work'.decisions = work.decisions
        /\ work'.cycles = work.cycles
    BY HaltedFields, <1>1 DEF PersistHalt, TypeOK
  <1>3. FreshOrders' /\ NothingPending' /\ FreshCycles' /\ CurrentCycle' /\ TodoOfCycle'
    BY <1>1, <1>2 DEF IInv, FreshOrders, NotYet, Received, NothingPending, FreshCycles,
                      CurrentCycle, TodoOfCycle, SameOrders
  <1>4. ForeignKeys(db)' /\ ForeignKeys(work)' /\ OrdersCommitted' /\ SentIsDurable'
    BY <1>1, <1>2 DEF IInv, ForeignKeys, OrdersCommitted, SentIsDurable, Received, SameOrders
  <1>5. OrderInHand' /\ LedgerNeverAheadOfBroker' /\ StatusSound(db)' /\ StatusSound(work)'
    BY <1>1, <1>2 DEF IInv, OrderInHand, LedgerNeverAheadOfBroker, StatusSound, Received,
                      SameOrders
  <1>6. NotHalted' /\ Stopped(db)' /\ Stopped(work)'
    BY <1>1, <1>2 DEF IInv, NotHalted, Stopped, Received
  <1>7. OutcomeSound' /\ OrdersInMarketHours'
    BY <1>1 DEF IInv, OutcomeSound, OrdersInMarketHours, FreshOrders, NotYet, Received
  <1> QED BY <1>3, <1>4, <1>5, <1>6, <1>7 DEF IInv

\* Ending the cycle, with or without its row, preserves the invariant.
LEMMA FinishPreserves ==
  ASSUME IInv, TypeOK', Finish PROVE IInv'
  <1> USE DEF Deciding, Handling
  <1>1. /\ pc = "finish" /\ pc' = "idle" /\ todo' = {} /\ TypeOK /\ cycle \in Cycles
        /\ outcome \in CycleOutcome
        /\ UNCHANGED <<broker, cycle>>
        /\ db' = work'
        /\ work' = work \/ work' = FinishCycle(work, cycle, outcome)
    BY DEF Finish, Release, Commit, IInv, CurrentCycle, TypeOK
  <1>2. /\ SameOrders(work', work)
        /\ work'.fills = work.fills
        /\ work'.decisions = work.decisions
        /\ \/ work' = work
           \/ work'.cycles = [work.cycles EXCEPT ![cycle] = outcome]
    <2>1. work \in LedgerState
      BY <1>1 DEF TypeOK
    <2> QED BY <1>1, <2>1, OutcomeFields DEF SameOrders
  <1>3. /\ \A c \in Cycles : c # cycle => work'.cycles[c] = work.cycles[c]
        /\ \/ work'.cycles[cycle] = work.cycles[cycle]
           \/ work'.cycles[cycle] = outcome
    BY <1>1, <1>2 DEF TypeOK, LedgerState
  <1>4. FreshOrders' /\ NothingPending' /\ TodoOfCycle'
    BY <1>1, <1>2 DEF IInv, FreshOrders, NotYet, Received, NothingPending, TodoOfCycle,
                      SameOrders
  <1>5. FreshCycles' /\ CurrentCycle'
    <2>1. \A c \in Cycles : c > cycle => c # cycle
      BY <1>1 DEF Cycles
    <2> QED BY <1>1, <1>3, <2>1 DEF IInv, FreshCycles, CurrentCycle
  <1>6. ForeignKeys(work)'
    <2>1. \A o \in Order : work'.cycles[o.cycle] = "none" => work.cycles[o.cycle] = "none"
      BY <1>1, <1>3 DEF CycleOutcome, Order
    <2> QED BY <1>2, <2>1 DEF IInv, ForeignKeys, SameOrders
  <1>7. ForeignKeys(db)' /\ OrdersCommitted' /\ SentIsDurable'
    BY <1>1, <1>2, <1>6 DEF IInv, ForeignKeys, OrdersCommitted, SentIsDurable, Received, SameOrders
  <1>8. OrderInHand' /\ LedgerNeverAheadOfBroker' /\ StatusSound(db)' /\ StatusSound(work)'
    BY <1>1, <1>2 DEF IInv, OrderInHand, LedgerNeverAheadOfBroker, StatusSound, Received,
                      SameOrders
  <1>9. Stopped(work)'
    <2> SUFFICES ASSUME NEW o \in Order, work'.cycles[o.cycle] \in {"halted", "error"}
                 PROVE  ~Received(o)'
      BY DEF Stopped
    <2>1. o.cycle \in Cycles
      BY DEF Order
    <2>2. CASE work.cycles[o.cycle] = work'.cycles[o.cycle]
      BY <1>1, <2>2 DEF IInv, Stopped, Received
    <2>3. CASE o.cycle = cycle /\ outcome \in {"halted", "error"}
      BY <1>1, <2>3 DEF IInv, OutcomeSound, Received
    <2> QED BY <1>3, <2>1, <2>2, <2>3
  <1>10. Stopped(db)' /\ NotHalted' /\ OutcomeSound' /\ OrdersInMarketHours'
    BY <1>1, <1>9 DEF Stopped, NotHalted, OutcomeSound, OrdersInMarketHours, Received
  <1> QED BY <1>4, <1>5, <1>6, <1>7, <1>8, <1>9, <1>10 DEF IInv

\* Resuming the engine clears a flag no running cycle relies on.
LEMMA ResumePreserves ==
  ASSUME IInv, TypeOK', Resume PROVE IInv'
  <1> USE DEF Deciding, Handling
  <1>1. /\ UNCHANGED <<broker, pc, cycle, open, outcome, todo, cur, recorded>>
        /\ db.halted /\ db' = work' /\ work = db /\ TypeOK
    BY DEF Resume, Commit, IInv, runVars
  <1>2. /\ SameOrders(work', db)
        /\ work'.fills = db.fills
        /\ work'.decisions = db.decisions
        /\ work'.cycles = db.cycles
    <2>1. db \in LedgerState /\ work' = [db EXCEPT !.halted = FALSE] /\ FALSE \in BOOLEAN
      BY <1>1 DEF Resume, TypeOK
    <2> QED BY <2>1, HaltedFields
  <1>3. FreshOrders' /\ NothingPending' /\ FreshCycles' /\ CurrentCycle' /\ TodoOfCycle'
    BY <1>1, <1>2 DEF IInv, FreshOrders, NotYet, Received, NothingPending, FreshCycles,
                      CurrentCycle, TodoOfCycle, SameOrders
  <1>4. ForeignKeys(db)' /\ ForeignKeys(work)' /\ OrdersCommitted' /\ SentIsDurable'
    BY <1>1, <1>2 DEF IInv, ForeignKeys, OrdersCommitted, SentIsDurable, Received, SameOrders
  <1>5. OrderInHand' /\ LedgerNeverAheadOfBroker' /\ StatusSound(db)' /\ StatusSound(work)'
    BY <1>1, <1>2 DEF IInv, OrderInHand, LedgerNeverAheadOfBroker, StatusSound, Received,
                      SameOrders
  <1>6. NotHalted' /\ Stopped(db)' /\ Stopped(work)' /\ OutcomeSound' /\ OrdersInMarketHours'
    BY <1>1, <1>2 DEF IInv, NotHalted, Stopped, OutcomeSound, OrdersInMarketHours, Received
  <1> QED BY <1>3, <1>4, <1>5, <1>6 DEF IInv

\* M is L with the row of cycle c, and decisions of c.
StartedFrom(M, L, c) ==
    /\ SameOrders(M, L)
    /\ M.fills = L.fills
    /\ M.halted = L.halted
    /\ M.cycles = [L.cycles EXCEPT ![c] = "running"]
    /\ L.decisions \subseteq M.decisions
    /\ \A o \in Order : o \in M.decisions => o \in L.decisions \/ o.cycle = c

\* A cycle starts from a clean ledger: its row, and in a halted engine its exit
\* decisions, are all that is pending.
LEMMA StartPreserves ==
  ASSUME IInv, TypeOK', StartCycle PROVE IInv'
  <1> USE DEF Deciding, Handling
  <1>1. /\ pc = "idle" /\ TypeOK /\ cycle \in Nat /\ cycle' = cycle + 1 /\ cycle' \in Cycles
        /\ work = db /\ todo = {} /\ todo' = {}
        /\ UNCHANGED <<db, broker, cur, recorded>>
        /\ \/ pc' = "market" /\ ~work.halted
           \/ pc' = "finish"
    BY LedgerAssumption
    DEF StartCycle, IsHalted, EndWith, IInv, NothingPending, TodoOfCycle, TypeOK, Cycles
  <1>2. StartedFrom(work', work, cycle')
    <2> DEFINE I == InsertCycle(work, cycle')
    <2>1. /\ I \in LedgerState
          /\ SameOrders(I, work) /\ I.fills = work.fills /\ I.halted = work.halted
          /\ I.decisions = work.decisions
          /\ I.cycles = [work.cycles EXCEPT ![cycle'] = "running"]
      BY <1>1, InsertTypes, CycleFields DEF TypeOK
    <2> HIDE DEF I
    <2>2. CASE work' = I
      BY <2>1, <2>2 DEF StartedFrom
    <2>3. ASSUME NEW T \in SUBSET Held(work),
                 work' = InsertDecisions(I,
                     {[cycle |-> cycle', ticker |-> t, side |-> "sell"] : t \in T})
          PROVE  StartedFrom(work', work, cycle')
      <3> DEFINE D == {[cycle |-> cycle', ticker |-> t, side |-> "sell"] : t \in T}
      <3>1. D \in SUBSET Order
        BY <1>1 DEF Order, Side, Held
      <3>2. \A o \in D : o.cycle = cycle'
        OBVIOUS
      <3> HIDE DEF D
      <3>3. work' = InsertDecisions(I, D)
        BY <2>3 DEF D
      <3>4. /\ SameOrders(work', I)
            /\ work'.fills = I.fills /\ work'.halted = I.halted /\ work'.cycles = I.cycles
            /\ work'.decisions = I.decisions \cup D
        BY <2>1, <3>1, <3>3, DecisionRowFields
      <3> QED BY <2>1, <3>2, <3>4 DEF StartedFrom, SameOrders
    <2> QED BY <2>2, <2>3 DEF StartCycle, I
  <1>3. /\ work'.cycles[cycle'] = "running"
        /\ \A c \in Cycles : c # cycle' => work'.cycles[c] = work.cycles[c]
    BY <1>1, <1>2 DEF StartedFrom, TypeOK, LedgerState
  <1>4. db.cycles[cycle'] = "none" /\ \A c \in Cycles : c > cycle' => c # cycle' /\ c > cycle
    BY <1>1 DEF IInv, FreshCycles, Cycles
  <1>5. \A o \in Order : o.cycle = cycle' =>
            /\ db.orders[o] = "none" /\ db.fills[o] = 0
            /\ work.orders[o] = "none" /\ work.fills[o] = 0
            /\ ~Received(o)
    BY <1>1 DEF IInv, FreshOrders, NotYet
  <1>6. FreshOrders'
    <2>1. \A o \in Order : o.cycle > cycle' => o.cycle > cycle
      BY <1>1 DEF Order, Cycles
    <2> QED BY <1>1, <1>2, <1>5, <2>1 DEF IInv, FreshOrders, NotYet, Received, StartedFrom,
                                         SameOrders
  <1>7. NothingPending' /\ FreshCycles' /\ CurrentCycle' /\ TodoOfCycle'
    BY <1>1, <1>3, <1>4 DEF IInv, NothingPending, FreshCycles, CurrentCycle, TodoOfCycle
  <1>8. ForeignKeys(db)' /\ ForeignKeys(work)'
    <2>1. \A o \in Order : work.cycles[o.cycle] # "none" => work'.cycles[o.cycle] # "none"
      BY <1>3 DEF Order
    <2> QED BY <1>1, <1>2, <1>3, <2>1 DEF IInv, ForeignKeys, StartedFrom, SameOrders
  <1>9. OrdersCommitted' /\ SentIsDurable' /\ OrderInHand' /\ LedgerNeverAheadOfBroker'
    BY <1>1, <1>2 DEF IInv, OrdersCommitted, SentIsDurable, OrderInHand, Received,
                      LedgerNeverAheadOfBroker, StartedFrom, SameOrders
  <1>10. StatusSound(db)' /\ StatusSound(work)' /\ Stopped(db)'
    BY <1>1, <1>2 DEF IInv, StatusSound, Stopped, Received, StartedFrom, SameOrders
  <1>11. Stopped(work)'
    BY <1>1, <1>3, <1>5 DEF IInv, Stopped, Received, Order
  <1>12. NotHalted' /\ OutcomeSound' /\ OrdersInMarketHours'
    BY <1>1, <1>2, <1>5 DEF NotHalted, OutcomeSound, OrdersInMarketHours, Received, StartedFrom
  <1> QED BY <1>6, <1>7, <1>8, <1>9, <1>10, <1>11, <1>12 DEF IInv

\* A step of the broker, or the cancellation of the kill switch.
BrokerStep ==
    /\ UNCHANGED <<db, work, cycle, open, outcome, todo, cur, recorded>>
    /\ pc' = pc \/ (pc = "risk" /\ pc' = "persist")
    /\ \A o \in Order :
           \/ broker'[o] = broker[o]
           \/ /\ broker[o].status = "open"
              /\ broker'[o].status # "none"
              /\ broker'[o].qty = broker[o].qty
              /\ broker'[o].filled >= broker[o].filled

\* Such a step only touches orders the broker still has open.
LEMMA BrokerPreserves ==
  ASSUME IInv, TypeOK', BrokerStep PROVE IInv'
  <1> USE DEF BrokerStep, Deciding, Handling
  <1>0. \A o \in Order : Received(o)' <=> Received(o)
    BY DEF Received
  <1>1. FreshOrders'
    BY <1>0 DEF IInv, FreshOrders, NotYet
  <1>2. NothingPending' /\ FreshCycles' /\ CurrentCycle' /\ TodoOfCycle'
    BY DEF IInv, NothingPending, FreshCycles, CurrentCycle, TodoOfCycle
  <1>3. ForeignKeys(db)' /\ ForeignKeys(work)' /\ OrdersCommitted'
    BY DEF IInv, ForeignKeys, OrdersCommitted
  <1>4. SentIsDurable'
    BY <1>0 DEF IInv, SentIsDurable
  <1>5. OrderInHand'
    BY <1>0 DEF IInv, OrderInHand
  <1>6. LedgerNeverAheadOfBroker'
    <2>1. \A o \in Order : /\ broker[o].filled \in Nat /\ broker'[o].filled \in Nat
                           /\ db.fills[o] \in Nat /\ work.fills[o] \in Nat
      BY DEF IInv, TypeOK, BrokerOrder, LedgerState
    <2> QED BY <2>1 DEF IInv, LedgerNeverAheadOfBroker
  <1>7. StatusSound(db)' /\ StatusSound(work)'
    <2>1. "open" \notin Terminal
      BY DEF Terminal
    <2> QED BY <1>0, <2>1 DEF IInv, StatusSound
  <1>8. NotHalted' /\ Stopped(db)' /\ Stopped(work)' /\ OutcomeSound' /\ OrdersInMarketHours'
    BY <1>0 DEF IInv, NotHalted, Stopped, OutcomeSound, OrdersInMarketHours
  <1> QED BY <1>1, <1>2, <1>3, <1>4, <1>5, <1>6, <1>7, <1>8 DEF IInv

\* Fills, cancellations and rejections, and the kill switch's own, are such steps.
LEMMA ExternalPreserves ==
  ASSUME IInv, TypeOK',
         \/ \E C \in SUBSET Order : LossLimitBreached(C)
         \/ \E o \in Order : BrokerFill(o) \/ BrokerClose(o)
  PROVE  IInv'
  <1>0. broker \in [Order -> BrokerOrder]
    BY DEF IInv, TypeOK
  <1>1. ASSUME NEW C \in SUBSET Order, LossLimitBreached(C) PROVE BrokerStep
    <2>1. \A o \in Order :
              broker'[o] = IF o \in C THEN [broker[o] EXCEPT !.status = "canceled"] ELSE broker[o]
      BY <1>1 DEF LossLimitBreached
    <2>2. \A o \in Order :
              o \in C => /\ broker[o].status = "open"
                         /\ broker'[o].status = "canceled"
                         /\ broker'[o].qty = broker[o].qty
                         /\ broker'[o].filled = broker[o].filled
                         /\ broker[o].filled \in Nat
      BY <1>0, <1>1, <2>1 DEF LossLimitBreached, BrokerOrder
    <2> QED BY <1>1, <2>1, <2>2 DEF LossLimitBreached, BrokerStep, ledgerVars
  <1>2. ASSUME NEW o \in Order, BrokerFill(o) PROVE BrokerStep
    <2> DEFINE f == broker[o].filled + 1
               s == IF f = broker[o].qty THEN "filled" ELSE "open"
    <2>1. broker' = [broker EXCEPT ![o] = [broker[o] EXCEPT !.filled = f, !.status = s]]
      BY <1>0, <1>2 DEF BrokerFill, BrokerOrder
    <2>2. /\ \A p \in Order : p # o => broker'[p] = broker[p]
          /\ broker'[o].status = s /\ broker'[o].qty = broker[o].qty
          /\ broker'[o].filled = f /\ broker[o].filled \in Nat /\ s # "none"
      <3>1. broker'[o] = [broker[o] EXCEPT !.filled = f, !.status = s]
            /\ \A p \in Order : p # o => broker'[p] = broker[p]
        BY <1>0, <2>1
      <3>2. broker[o] \in BrokerOrder
        BY <1>0
      <3> QED BY <3>1, <3>2 DEF BrokerOrder
    <2>3. broker'[o].filled >= broker[o].filled
      BY <2>2
    <2> HIDE DEF s, f
    <2>4. broker[o].status = "open" /\ UNCHANGED <<ledgerVars, runVars>>
      BY <1>2 DEF BrokerFill
    <2> QED BY <2>2, <2>3, <2>4 DEF BrokerStep, ledgerVars, runVars
  <1>3. ASSUME NEW o \in Order, BrokerClose(o) PROVE BrokerStep
    <2>1. PICK s \in {"canceled", "rejected"} : broker' = [broker EXCEPT ![o].status = s]
      BY <1>3 DEF BrokerClose
    <2>2. /\ \A p \in Order : p # o => broker'[p] = broker[p]
          /\ broker'[o].status = s /\ broker'[o].qty = broker[o].qty
          /\ broker'[o].filled = broker[o].filled /\ broker[o].filled \in Nat
      <3>1. broker'[o] = [broker[o] EXCEPT !.status = s]
            /\ \A p \in Order : p # o => broker'[p] = broker[p]
        BY <1>0, <2>1
      <3>2. broker[o] \in BrokerOrder
        BY <1>0
      <3> QED BY <3>1, <3>2 DEF BrokerOrder
    <2> QED BY <1>3, <2>2 DEF BrokerClose, BrokerStep, ledgerVars, runVars
  <1> QED BY <1>1, <1>2, <1>3, BrokerPreserves

-------------------------------------------------------------------------------
(***************************************************************************)
(* The invariant, and what it says.                                        *)
(***************************************************************************)

\* Before the first cycle the invariant holds.
LEMMA InitIInv == Init => IInv
  <1> SUFFICES ASSUME Init PROVE IInv
    OBVIOUS
  <1>1. TypeOK
    BY InitType
  <1>2. \A o \in Order : ~Received(o) /\ broker[o].filled = 0
    BY DEF Init, Received, NoOrder
  <1>3. /\ \A o \in Order : EmptyLedger.orders[o] = "none" /\ EmptyLedger.fills[o] = 0
        /\ \A c \in Cycles : EmptyLedger.cycles[c] = "none"
        /\ EmptyLedger.decisions = {} /\ EmptyLedger.approvals = {}
    BY DEF EmptyLedger
  <1>4. db = EmptyLedger /\ work = EmptyLedger /\ pc = "idle" /\ todo = {}
    BY DEF Init
  <1> USE DEF Deciding, Handling
  <1>5. FreshOrders /\ NothingPending /\ FreshCycles /\ CurrentCycle /\ TodoOfCycle
    BY <1>2, <1>3, <1>4 DEF FreshOrders, NothingPending, FreshCycles, CurrentCycle, TodoOfCycle
  <1>6. ForeignKeys(db) /\ ForeignKeys(work) /\ OrdersCommitted /\ SentIsDurable
    BY <1>2, <1>3, <1>4 DEF ForeignKeys, OrdersCommitted, SentIsDurable
  <1>7. OrderInHand /\ LedgerNeverAheadOfBroker /\ StatusSound(db) /\ StatusSound(work)
    BY <1>2, <1>3, <1>4 DEF OrderInHand, LedgerNeverAheadOfBroker, StatusSound, Terminal
  <1>8. NotHalted /\ Stopped(db) /\ Stopped(work) /\ OutcomeSound /\ OrdersInMarketHours
    BY <1>2, <1>4 DEF NotHalted, Stopped, OutcomeSound, OrdersInMarketHours
  <1> QED BY <1>1, <1>5, <1>6, <1>7, <1>8 DEF IInv

\* IInv is inductive: it holds in every reachable state of the trading cycle.
THEOREM InductiveInvariant == Spec => []IInv
  <1>1. IInv /\ InHand /\ [Next]_vars => IInv'
    <2> SUFFICES ASSUME IInv, InHand, [Next]_vars PROVE IInv'
      OBVIOUS
    <2>1. TypeOK'
      <3>1. CASE Next
        BY <3>1, DecideType, ExecuteType, FailType, EnvironmentType DEF Next, IInv
      <3>2. CASE UNCHANGED vars
        BY <3>2 DEF vars, ledgerVars, runVars, IInv, TypeOK
      <3> QED BY <3>1, <3>2
    <2>2. CASE Decide
      BY <2>1, <2>2, StartPreserves, JudgingPreserves, ExternalPreserves, PersistHaltPreserves
      DEF Decide
    <2>3. CASE Execute
      BY <2>1, <2>3, LoopPreserves, RecordPreserves, SubmitPreserves, MarkPreserves,
         PollPreserves, FinishPreserves
      DEF Execute
    <2>4. CASE Fail
      BY <2>1, <2>4, JudgingFailsPreserves, LosingPreserves, SubmitPreserves, MarkPreserves,
         PollPreserves
      DEF Fail
    <2>5. CASE Environment
      BY <2>1, <2>5, LosingPreserves, ResumePreserves, ExternalPreserves DEF Environment
    <2>6. CASE UNCHANGED vars
      BY <2>1, <2>6
      DEF vars, ledgerVars, runVars, IInv, FreshOrders, NotYet, Received, NothingPending,
          FreshCycles, CurrentCycle, TodoOfCycle, ForeignKeys, OrdersCommitted, SentIsDurable,
          OrderInHand, LedgerNeverAheadOfBroker, StatusSound, NotHalted, Stopped,
          OutcomeSound, OrdersInMarketHours
    <2> QED BY <2>2, <2>3, <2>4, <2>5, <2>6 DEF Next
  <1> QED BY InitIInv, <1>1, TypeCorrect, PTL DEF Spec

-------------------------------------------------------------------------------
(***************************************************************************)
(* Corollaries: state properties.                                          *)
(***************************************************************************)

\* R-16: no crash and no failed write leaves the broker with an order that the
\* committed ledger does not explain (order_executor.execute).
THEOREM EverySentOrderIsRecorded == Spec => []RecordedBeforeSent
  <1>1. IInv => RecordedBeforeSent
    BY DEF IInv, RecordedBeforeSent, SentIsDurable, ForeignKeys
  <1> QED BY InductiveInvariant, <1>1, PTL

\* R-18: polling, however often and wherever it stops, never records shares the
\* broker has not filled (fills.poll_and_settle).
THEOREM NoInventedFills == Spec => []LedgerNeverAheadOfBroker
  <1>1. IInv => LedgerNeverAheadOfBroker
    BY DEF IInv
  <1> QED BY InductiveInvariant, <1>1, PTL

\* R-18: a committed status never claims more than the broker reported.
THEOREM StatusIsSound == Spec => []StatusFollowsBroker
  <1>1. IInv => StatusFollowsBroker
    BY DEF IInv, StatusFollowsBroker, StatusSound
  <1> QED BY InductiveInvariant, <1>1, PTL

\* R-19: a cycle recorded as halted or in error has sent nothing
\* (_evaluate_risk, _run_locked).
THEOREM StoppedCyclesAreQuiet == Spec => []StoppedCyclesNeverTrade
  <1>1. IInv => StoppedCyclesNeverTrade
    BY DEF IInv, StoppedCyclesNeverTrade, Stopped
  <1> QED BY InductiveInvariant, <1>1, PTL

-------------------------------------------------------------------------------
(***************************************************************************)
(* Corollaries: what a step may do.                                        *)
(***************************************************************************)

\* The broker receives an order only in a submitting step, which commits nothing;
\* no other step changes which orders it has received.
LEMMA OnlySubmittingSends ==
  ASSUME IInv, [Next]_vars
  PROVE  \/ \A o \in Order : Received(o)' <=> Received(o)
         \/ /\ pc = "submit" /\ db' = db /\ cur \in Order
            /\ \A o \in Order : Received(o)' <=> Received(o) \/ o = cur
  <1>0. TypeOK /\ (pc = "submit" => cur \in Order)
    BY DEF IInv, OrderInHand, Handling
  <1>1. CASE broker' = broker
    BY <1>1 DEF Received
  <1>2. ASSUME pc = "submit", db' = db, broker' = ReceiveOrder
        PROVE  \A o \in Order : Received(o)' <=> Received(o) \/ o = cur
    BY <1>0, <1>2, ReceiveOrderFields DEF Received
  <1>3. CASE Submit \/ \E accepted \in BOOLEAN : SubmitErr(accepted)
    BY <1>0, <1>1, <1>2, <1>3 DEF Submit, SubmitErr, ledgerVars
  <1>4. ASSUME NEW C \in SUBSET Order, LossLimitBreached(C)
        PROVE  \A o \in Order : Received(o)' <=> Received(o)
    <2>1. \A o \in Order :
              broker'[o] = IF o \in C THEN [broker[o] EXCEPT !.status = "canceled"] ELSE broker[o]
      BY <1>4 DEF LossLimitBreached
    <2>2. \A o \in C : broker[o].status = "open" /\ broker[o] \in BrokerOrder
      BY <1>0, <1>4 DEF LossLimitBreached, TypeOK
    <2>3. \A o \in C : broker'[o].status = "canceled"
      BY <2>1, <2>2 DEF BrokerOrder
    <2> QED BY <2>1, <2>2, <2>3 DEF Received
  <1>5. ASSUME NEW p \in Order, BrokerFill(p) \/ BrokerClose(p)
        PROVE  \A o \in Order : Received(o)' <=> Received(o)
    <2>1. broker[p].status = "open" /\ broker \in [Order -> BrokerOrder]
      BY <1>0, <1>5 DEF BrokerFill, BrokerClose, TypeOK
    <2>2. PICK b \in BrokerOrder : broker' = [broker EXCEPT ![p] = b] /\ b.status # "none"
      <3>1. CASE BrokerFill(p)
        <4> DEFINE f == broker[p].filled + 1
                   s == IF f = broker[p].qty THEN "filled" ELSE "open"
                   b == [broker[p] EXCEPT !.filled = f, !.status = s]
        <4>1. broker' = [broker EXCEPT ![p] = b]
          BY <2>1, <3>1 DEF BrokerFill, BrokerOrder
        <4>2. broker[p] \in BrokerOrder
          BY <2>1
        <4>3. f \in Nat /\ s \in BrokerStatus /\ s # "none"
          BY <4>2 DEF BrokerOrder, BrokerStatus
        <4> HIDE DEF f, s
        <4>4. b \in BrokerOrder /\ b.status # "none"
          BY <4>2, <4>3 DEF BrokerOrder
        <4> QED BY <4>1, <4>4
      <3>2. CASE BrokerClose(p)
        <4>1. PICK s \in {"canceled", "rejected"} : broker' = [broker EXCEPT ![p].status = s]
          BY <3>2 DEF BrokerClose
        <4> DEFINE b == [broker[p] EXCEPT !.status = s]
        <4>2. broker[p] \in BrokerOrder
          BY <2>1
        <4>3. b \in BrokerOrder /\ b.status # "none"
          BY <4>2 DEF BrokerOrder, BrokerStatus
        <4> QED BY <2>1, <4>1, <4>3
      <3> QED BY <1>5, <3>1, <3>2
    <2> QED BY <2>1, <2>2 DEF Received
  <1>6. CASE Decide
    BY <1>1, <1>4, <1>6
    DEF Decide, StartCycle, EvaluateHoldings, WithinLimits, PersistHalt, EvaluateCandidates
  <1>7. CASE Execute
    BY <1>1, <1>3, <1>7
    DEF Execute, NotApproved, RecordThenCommit, MarkSubmitted, Poll, NothingLeft, Finish
  <1>8. CASE Fail
    BY <1>1, <1>3, <1>8
    DEF Fail, MarketClockUnavailable, HoldingsFail, AccountUnavailable, SnapshotFails,
        PersistHaltFails, CandidatesFail, RecordFails, MarkSubmittedFails, PollErr,
        PollWriteFails
  <1>9. CASE Environment
    BY <1>1, <1>5, <1>9 DEF Environment, Crash, Resume
  <1>10. CASE UNCHANGED vars
    BY <1>1, <1>10 DEF vars
  <1> QED BY <1>6, <1>7, <1>8, <1>9, <1>10 DEF Next

\* R-19: no step sends an order while the committed ledger says `halted`.
THEOREM HaltedEngineSendsNothing == Spec => NoOrderWhileHalted
  <1>1. IInv /\ [Next]_vars =>
            [\A o \in Order : (~Received(o) /\ Received(o)') => ~db.halted]_vars
    BY OnlySubmittingSends DEF IInv, NotHalted
  <1> QED BY InductiveInvariant, <1>1, PTL DEF Spec, NoOrderWhileHalted

\* R-8: no step sends an order in a cycle that read a closed market.
THEOREM ClosedMarketSendsNothing == Spec => OrdersOnlyWhileOpen
  <1>1. IInv /\ [Next]_vars =>
            [\A o \in Order : (~Received(o) /\ Received(o)') => open]_vars
    BY OnlySubmittingSends DEF IInv, OrdersInMarketHours, Handling
  <1> QED BY InductiveInvariant, <1>1, PTL DEF Spec, OrdersOnlyWhileOpen

-------------------------------------------------------------------------------
(***************************************************************************)
(* Refinement of the write-ahead log.                                      *)
(***************************************************************************)

Durable == {o \in Order : db.orders[o] # "none"}

\* Orders become durable one at a time, in RecordThenCommit, and stay durable.
LEMMA OnlyRecordingIsDurable ==
  ASSUME IInv, IInv', [Next]_vars
  PROVE  \/ Durable' = Durable
         \/ \E o \in Order \ Durable : Durable' = Durable \cup {o} /\ broker' = broker
  <1>0. TypeOK /\ \A o \in Order : work.orders[o] # "none" <=> db.orders[o] # "none"
    BY DEF IInv, OrdersCommitted
  <1>1. ASSUME NEW o \in todo, NEW q \in 1..Lot, RecordThenCommit(o, q)
        PROVE  o \in Order \ Durable /\ Durable' = Durable \cup {o} /\ broker' = broker
    <2>1. o \in Order /\ db.orders[o] = "none" /\ work \in LedgerState
      BY DEF IInv, TypeOK, FreshOrders, NotYet
    <2>2. db' = RecordOrder(work, o, q) /\ broker' = broker
      BY <1>1 DEF RecordThenCommit, Commit
    <2>3. /\ db'.orders[o] = "recorded"
          /\ \A p \in Order : p # o => db'.orders[p] = work.orders[p]
      BY <2>1, <2>2, OrderFields
    <2> QED BY <1>0, <2>1, <2>2, <2>3 DEF Durable
  <1>2. CASE db' = db
    BY <1>2 DEF Durable
  <1>3. ASSUME db' = work', SameOrders(work', work) PROVE Durable' = Durable
    BY <1>0, <1>3 DEF Durable, SameOrders
  <1>4. CASE PersistHalt
    BY <1>0, <1>3, <1>4, HaltedFields DEF PersistHalt, Commit, TypeOK
  <1>5. CASE Finish
    <2>1. work \in LedgerState /\ outcome \in CycleOutcome /\ cycle \in Cycles
      BY <1>5 DEF Finish, IInv, TypeOK, CurrentCycle
    <2>2. db' = work' /\ (work' = work \/ work' = FinishCycle(work, cycle, outcome))
      BY <1>5 DEF Finish, Commit
    <2>3. SameOrders(work, work)
      BY DEF SameOrders
    <2>4. SameOrders(FinishCycle(work, cycle, outcome), work)
      BY <2>1, OutcomeFields
    <2> QED BY <1>3, <2>2, <2>3, <2>4
  <1>6. CASE Resume
    <2>1. work \in LedgerState /\ work' = [work EXCEPT !.halted = FALSE] /\ FALSE \in BOOLEAN
      BY <1>6 DEF Resume, IInv, TypeOK
    <2>2. SameOrders(work', work) /\ db' = work'
      BY <1>6, <2>1, HaltedFields DEF Resume, Commit
    <2> QED BY <1>3, <2>2
  <1>7. CASE Decide
    BY <1>2, <1>4, <1>7
    DEF Decide, StartCycle, EvaluateHoldings, WithinLimits, LossLimitBreached,
        EvaluateCandidates, ledgerVars
  <1>8. CASE Execute
    BY <1>1, <1>2, <1>5, <1>8
    DEF Execute, NotApproved, Submit, MarkSubmitted, Poll, NothingLeft, ledgerVars
  <1>9. CASE Fail
    BY <1>2, <1>9
    DEF Fail, MarketClockUnavailable, HoldingsFail, AccountUnavailable, SnapshotFails,
        PersistHaltFails, CandidatesFail, RecordFails, SubmitErr, MarkSubmittedFails, PollErr,
        PollWriteFails, Rollback, ledgerVars
  <1>10. CASE Environment
    BY <1>2, <1>6, <1>10
    DEF Environment, Crash, Rollback, BrokerFill, BrokerClose, ledgerVars
  <1>11. CASE UNCHANGED vars
    BY <1>2, <1>11 DEF vars, ledgerVars
  <1> QED BY <1>7, <1>8, <1>9, <1>10, <1>11 DEF Next

\* R-16: the trading cycle implements the write-ahead log, crashes, rollbacks and
\* lost answers included (order_executor.execute, ledger.db.transaction).
THEOREM ImplementsWriteAhead == Spec => WriteAheadLog
  <1> DEFINE sent == {o \in Order : Received(o)}
  <1>1. Init => WA!Init
    BY DEF Init, WA!Init, EmptyLedger, Received, NoOrder
  <1>2. IInv /\ IInv' /\ [Next]_vars => [WA!Next]_WA!vars
    <2> SUFFICES ASSUME IInv, IInv', [Next]_vars
                 PROVE  WA!Next \/ UNCHANGED WA!vars
      OBVIOUS
    <2>1. CASE Durable' = Durable /\ sent' = sent
      BY <2>1 DEF WA!vars, Durable
    <2>2. ASSUME NEW o \in Order \ Durable, Durable' = Durable \cup {o}, broker' = broker
          PROVE  WA!Next
      BY <2>2 DEF WA!Next, WA!Record, Durable, Received
    <2>3. ASSUME pc = "submit", db' = db, cur \in Order,
                 \A o \in Order : Received(o)' <=> Received(o) \/ o = cur
          PROVE  WA!Next
      <3>1. cur \in Durable \ sent
        BY <2>3 DEF IInv, OrderInHand, Durable, Handling
      <3>2. sent' = sent \cup {cur} /\ Durable' = Durable
        BY <2>3 DEF Durable
      <3> QED BY <2>3, <3>1, <3>2 DEF WA!Next, WA!Send, Durable
    <2>4. CASE \A o \in Order : Received(o)' <=> Received(o)
      BY <2>1, <2>2, <2>4, OnlyRecordingIsDurable
    <2> QED BY <2>3, <2>4, OnlySubmittingSends
  <1> QED BY <1>1, <1>2, InductiveInvariant, PTL DEF Spec, WriteAheadLog, WA!Spec
===============================================================================
