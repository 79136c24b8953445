------------------------------- MODULE CycleTime -------------------------------
(***************************************************************************)
(* How long a cycle takes: the calls to Alpaca and Anthropic that one       *)
(* `run-cycle` makes one after another, their timeouts and retries, and the *)
(* polls of its orders.  What the calls return is a choice; the module      *)
(* TradingCycle has what is done with it.                                   *)
(*                                                                         *)
(* Time is counted in half seconds, the shortest back-off.  A client's      *)
(* timeout bounds each wait for the network (for the connection, then for   *)
(* every read), not the request: a request is up to Waits such waits, and   *)
(* nothing in the code says how many.  What the program does between two    *)
(* waits takes no time, and neither does the resolution of a name.          *)
(***************************************************************************)
EXTENDS Integers

CONSTANTS
    MaxHeld,       \* bound: positions when a cycle starts
    MaxPositions,  \* max_concurrent_positions
    Candidates,    \* _MAX_CANDIDATES
    PollRounds,    \* poll_timeout_s / poll_interval_s
    PollInterval,  \* poll_interval_s
    Waits,         \* bound: waits for the network of one request
    Latencies,     \* how long one of them may take
    Faults         \* whether requests may fail

ASSUME CycleTimeAssumption ==
    /\ MaxHeld \in Nat
    /\ MaxPositions \in Nat \ {0}
    /\ Candidates \in Nat
    /\ PollRounds \in Nat
    /\ PollInterval \in Nat
    /\ Waits \in Nat \ {0}
    /\ Latencies \subseteq Nat
    /\ Faults \in BOOLEAN

VARIABLES
    now,           \* time since the cycle started
    at,            \* the call under way
    attempt,       \* its failed attempts
    repeats,       \* requests that alpaca-py repeated in this attempt
    waits,         \* waits of this request that are over
    left,          \* positions, candidates or orders left in the current loop
    rounds,        \* sleeps of the current poll
    held,          \* positions in the ledger
    halted, open,  \* what the ledger and the market clock said
    missing,       \* a held ticker has no price
    good, priced,  \* this candidate has a price; some candidate has price and bars
    sells          \* exit decisions waiting to be sent

start == <<held, halted>>
call == <<attempt, repeats, waits>>
vars == <<now, at, call, left, rounds, start, open, missing, good, priced, sells>>

\* alpaca-py repeats a request that is answered 429 or 504 three times, three seconds
\* apart, unless it is told not to, as the broker's client is and the market data's are
\* not.
SdkRepeats == 3
SdkWait == 6

\* How often a call is attempted and each wait's timeout: GET requests of the broker
\* and of the market data, the LLM call, and the requests that are sent once,
\* submit_order and cancel_orders.
Get == [attempts |-> 3, timeout |-> 20, repeats |-> 0, base |-> 1, max |-> 8]
Data == [attempts |-> 3, timeout |-> 20, repeats |-> SdkRepeats, base |-> 1, max |-> 8]
Llm == [attempts |-> 2, timeout |-> 120, repeats |-> 0, base |-> 2, max |-> 16]
Once == [attempts |-> 1, timeout |-> 20, repeats |-> 0, base |-> 0, max |-> 0]

Policy ==
    IF at = "llm" THEN Llm
    ELSE IF at \in {"submit", "cancel"} THEN Once
    ELSE IF at \in {"clock", "holdings", "price", "bars"} THEN Data
    ELSE Get

Min2(a, b) == IF a <= b THEN a ELSE b

\* A mutant: the exponent counts from 1.
DelayFromOne(policy, i) == Min2(policy.base * 2 ^ (i + 1), policy.max)

\* The delay after the failed attempt i, counted from 0.
Delay(policy, i) == Min2(policy.base * 2 ^ i, policy.max)

\* A mutant: max_attempts retries follow the first attempt.
LastOfRetries(policy, i) == i = policy.attempts

LastAttempt(policy, i) == i + 1 = policy.attempts

\* A wait that is longer than the timeout ends with it.
WaitTimes == {d \in Latencies : d <= Policy.timeout}

Init ==
    /\ now = 0
    /\ held \in 0..MaxHeld
    /\ halted \in BOOLEAN
    /\ at = IF halted THEN "holdings" ELSE "clock"
    /\ attempt = 0
    /\ repeats = 0
    /\ waits = 0
    /\ left = held
    /\ rounds = 0
    /\ open = FALSE
    /\ missing = FALSE
    /\ good = FALSE
    /\ priced = FALSE
    /\ sells = 0

-----------------------------------------------------------------------------
(* One request *)

Calling(stage) == at = stage /\ (stage = "holdings" => left > 0)

\* The request goes on after a wait: connected, or part of the answer is read.
Wait ==
    /\ at # "done"
    /\ Calling(at)
    /\ waits + 1 < Waits
    /\ \E d \in WaitTimes : now' = now + d
    /\ waits' = waits + 1
    /\ UNCHANGED <<at, attempt, repeats, left, rounds, start, open, missing, good, priced, sells>>

\* alpaca-py repeats the request on its own.
Repeat ==
    /\ Faults
    /\ at # "done"
    /\ Calling(at)
    /\ repeats < Policy.repeats
    /\ \E d \in WaitTimes : now' = now + d + SdkWait
    /\ repeats' = repeats + 1
    /\ waits' = 0
    /\ UNCHANGED <<at, attempt, left, rounds, start, open, missing, good, priced, sells>>

\* A failed attempt is repeated after its delay.
Retry ==
    /\ Faults
    /\ at # "done"
    /\ Calling(at)
    /\ ~LastAttempt(Policy, attempt)
    /\ \E d \in WaitTimes : now' = now + d + Delay(Policy, attempt)
    /\ attempt' = attempt + 1
    /\ repeats' = 0
    /\ waits' = 0
    /\ UNCHANGED <<at, left, rounds, start, open, missing, good, priced, sells>>

\* The next call begins with all its attempts.
CallOver == attempt' = 0 /\ repeats' = 0 /\ waits' = 0

Ends(stage) ==
    /\ Calling(stage)
    /\ \E d \in WaitTimes : now' = now + d
    /\ CallOver

Succeeds(stage) == Ends(stage)

\* The last attempt fails, or an answer is of no use, or an error is not transient.
Fails(stage) == Faults /\ Ends(stage)

End == at' = "done" /\ UNCHANGED left

\* Send n orders, or end the cycle.
SendOrders(n) ==
    IF open /\ n > 0 THEN at' = "submit" /\ left' = n ELSE End

-----------------------------------------------------------------------------
(* The calls of a cycle *)

ReadClock ==
    /\ \/ /\ Succeeds("clock")
          /\ open' \in BOOLEAN
          /\ at' = "holdings"
          /\ UNCHANGED left
       \/ /\ Fails("clock")
          /\ End
          /\ UNCHANGED open
    /\ UNCHANGED <<rounds, start, missing, good, priced, sells>>

\* A price that cannot be read does not keep the other holdings from theirs.
PriceHolding ==
    /\ \/ /\ Succeeds("holdings")
          /\ sells' \in {sells, sells + 1}
          /\ UNCHANGED missing
       \/ /\ Fails("holdings")
          /\ missing' = TRUE
          /\ UNCHANGED sells
    /\ left' = left - 1
    /\ UNCHANGED <<at, rounds, start, open, good, priced>>

HoldingsPriced ==
    /\ at = "holdings"
    /\ left = 0
    /\ IF halted THEN End
       ELSE IF missing THEN \E n \in 0..sells : SendOrders(n)
       ELSE at' = "account" /\ UNCHANGED left
    /\ UNCHANGED <<now, call, rounds, start, open, missing, good, priced, sells>>

\* A loss limit is reached, or no slot is free, or there are candidates.
ReadAccount ==
    /\ \/ /\ Succeeds("account")
          /\ \/ at' = "cancel" /\ UNCHANGED left
             \/ /\ held >= MaxPositions
                /\ \E n \in 0..sells : SendOrders(n)
             \/ /\ held < MaxPositions
                /\ \E n \in 0..Candidates :
                       IF n = 0 THEN \E k \in 0..sells : SendOrders(k)
                       ELSE at' = "price" /\ left' = n
       \/ /\ Fails("account")
          /\ End
    /\ UNCHANGED <<rounds, start, open, missing, good, priced, sells>>

CancelAllOpen ==
    /\ Succeeds("cancel") \/ Fails("cancel")
    /\ End
    /\ UNCHANGED <<rounds, start, open, missing, good, priced, sells>>

\* latest_price and daily_bars are both read, whatever the first returned.
PriceCandidate ==
    /\ \/ Succeeds("price") /\ good' = TRUE
       \/ Fails("price") /\ good' = FALSE
    /\ at' = "bars"
    /\ UNCHANGED <<left, rounds, start, open, missing, priced, sells>>

BarsOfCandidate ==
    /\ \/ Succeeds("bars") /\ priced' = (priced \/ good)
       \/ Fails("bars") /\ UNCHANGED priced
    /\ IF left > 1 THEN at' = "price" /\ left' = left - 1
       ELSE IF priced' THEN at' = "llm" /\ UNCHANGED left
       ELSE \E n \in 0..sells : SendOrders(n)
    /\ UNCHANGED <<rounds, start, open, missing, good, sells>>

\* Buys need a free slot each; sells and buys are sent together.
AskLlm ==
    /\ \/ /\ Succeeds("llm")
          /\ \E n \in 0..(sells + MaxPositions - held) : SendOrders(n)
       \/ /\ Fails("llm")
          /\ \E n \in 0..sells : SendOrders(n)
    /\ UNCHANGED <<rounds, start, open, missing, good, priced, sells>>

NextOrder ==
    IF left > 1 THEN at' = "submit" /\ left' = left - 1 ELSE End

Submit ==
    /\ \/ Succeeds("submit") /\ at' = "poll" /\ UNCHANGED left
       \/ Fails("submit") /\ NextOrder
    /\ rounds' = 0
    /\ UNCHANGED <<start, open, missing, good, priced, sells>>

\* A mutant: one round more.
ExpiredLate(n) == n > PollRounds

Expired(n) == n >= PollRounds

\* The order is final, or the poll gives up: only the sleeps count.
EndPoll ==
    /\ Succeeds("poll") \/ Fails("poll")
    /\ NextOrder
    /\ UNCHANGED <<rounds, start, open, missing, good, priced, sells>>

PollAgain ==
    /\ Calling("poll")
    /\ ~Expired(rounds)
    /\ \E d \in WaitTimes : now' = now + d + PollInterval
    /\ CallOver
    /\ rounds' = rounds + 1
    /\ UNCHANGED <<at, left, start, open, missing, good, priced, sells>>

Next ==
    \/ Wait
    \/ Repeat
    \/ Retry
    \/ ReadClock
    \/ PriceHolding
    \/ HoldingsPriced
    \/ ReadAccount
    \/ CancelAllOpen
    \/ PriceCandidate
    \/ BarsOfCandidate
    \/ AskLlm
    \/ Submit
    \/ EndPoll
    \/ PollAgain

Spec == Init /\ [][Next]_vars

-----------------------------------------------------------------------------
(* Properties *)

Stages == {"clock", "holdings", "account", "cancel", "price", "bars", "llm", "submit", "poll",
           "done"}

\* As many sells as holdings, as many buys as free slots.
MaxOrders == IF held < MaxPositions THEN MaxPositions ELSE held

\* Time and counters; no attempt is made beyond a call's policy, no sleep beyond the
\* poll's timeout.
TypeOK ==
    /\ now \in Nat
    /\ at \in Stages
    /\ attempt \in 0..(Policy.attempts - 1)
    /\ repeats \in 0..Policy.repeats
    /\ waits \in 0..(Waits - 1)
    /\ left \in Nat
    /\ rounds \in 0..PollRounds
    /\ halted \in BOOLEAN
    /\ open \in BOOLEAN
    /\ missing \in BOOLEAN
    /\ good \in BOOLEAN
    /\ priced \in BOOLEAN
    /\ held \in 0..MaxHeld
    /\ sells \in 0..held

\* The longest request, the longest attempt, and what a call may still take after i
\* failed attempts, r repeats in this one and w waits of this request.
RequestTime(policy) == Waits * policy.timeout
AttemptTime(policy) == RequestTime(policy) + policy.repeats * (RequestTime(policy) + SdkWait)

WaitsRest(policy, w) == (Waits - w) * policy.timeout
RepeatsRest(policy, r) == (policy.repeats - r) * (RequestTime(policy) + SdkWait)
DelaysRest(policy, i) == policy.base * (2 ^ (policy.attempts - 1) - 2 ^ i)
AttemptsRest(policy, i) == (policy.attempts - 1 - i) * AttemptTime(policy)

CallRest(policy, i, r, w) ==
    AttemptsRest(policy, i) + DelaysRest(policy, i) + RepeatsRest(policy, r) + WaitsRest(policy, w)

CallTime(policy) == CallRest(policy, 0, 0, 0)

RoundTime == CallTime(Get) + PollInterval
OrderTime == CallTime(Once) + CallTime(Get) + PollRounds * RoundTime
OrdersTime == MaxOrders * OrderTime
CandidatesTime == Candidates * (2 * CallTime(Data))

WorstCase ==
    (held + 1) * CallTime(Data) + CallTime(Get) + CandidatesTime + CallTime(Llm) + OrdersTime

\* N-4: the timeouts, the number of attempts and the poll's timeout leave only the
\* number of waits in a request open.  If none has more than Waits, the cycle is over by
\* this time, whichever requests fail.  It grows with Waits, on which the code sets no limit
\* (a body may trickle), and is no promise of a length.
WithinWorstCase == now <= WorstCase

-----------------------------------------------------------------------------
(* The inductive invariant: the time passed and the time that may still pass *)

Rest ==
    LET this == CallRest(Policy, attempt, repeats, waits)
        analysis == CallTime(Llm) + OrdersTime
        afterAccount == CandidatesTime + analysis
    IN  CASE at = "clock" -> this + held * CallTime(Data) + CallTime(Get) + afterAccount
          [] at = "holdings" ->
                 (IF left = 0 THEN 0 ELSE this + (left - 1) * CallTime(Data))
                     + CallTime(Get) + afterAccount
          [] at = "account" -> this + afterAccount
          [] at = "cancel" -> this
          [] at = "price" ->
                 this + CallTime(Data) + (left - 1) * (2 * CallTime(Data)) + analysis
          [] at = "bars" -> this + (left - 1) * (2 * CallTime(Data)) + analysis
          [] at = "llm" -> this + OrdersTime
          [] at = "submit" -> this + CallTime(Get) + PollRounds * RoundTime + (left - 1) * OrderTime
          [] at = "poll" -> this + (PollRounds - rounds) * RoundTime + (left - 1) * OrderTime
          [] at = "done" -> 0

\* The loops: what is left of them is at most what they began with.
Loops ==
    /\ at = "clock" => left = held /\ sells = 0
    /\ at = "holdings" => left <= held /\ sells <= held - left
    /\ at = "holdings" /\ left = 0 => attempt = 0 /\ repeats = 0 /\ waits = 0
    /\ at \in {"price", "bars", "llm"} => held < MaxPositions
    /\ at \in {"price", "bars"} => left \in 1..Candidates
    /\ at \in {"submit", "poll"} => left \in 1..MaxOrders

IInv ==
    /\ TypeOK
    /\ Loops
    /\ now + Rest <= WorstCase
===============================================================================
