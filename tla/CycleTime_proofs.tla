---------------------------- MODULE CycleTime_proofs ----------------------------
(***************************************************************************)
(* The time of a cycle is bounded for any number of positions, slots and    *)
(* candidates, any poll, and any number of waits in a request, in           *)
(* proportion to it.  The proof is a potential: no step makes the time      *)
(* passed and the time that may still pass grow together.                   *)
(***************************************************************************)
EXTENDS CycleTime, TLAPS

-------------------------------------------------------------------------------
(* Arithmetic of the loops *)

LEMMA Product == \A a, b \in Nat : a * b \in Nat
  OBVIOUS

LEMMA OneLess == \A a, b \in Nat : a > 0 => a * b = (a - 1) * b + b
  OBVIOUS

LEMMA NoMore == \A a, b, c \in Nat : a <= b => a * c <= b * c
  <1> SUFFICES ASSUME NEW a \in Nat, NEW b \in Nat, NEW c \in Nat, a <= b
               PROVE  a * c <= b * c
    OBVIOUS
  <1>1. b * c = a * c + (b - a) * c
    OBVIOUS
  <1>2. b - a \in Nat /\ (b - a) * c \in Nat /\ a * c \in Nat
    BY Product
  <1> QED BY <1>1, <1>2

\* One round out of those that are left of a loop.
LEMMA OneOf ==
  ASSUME NEW n \in Nat, NEW i \in Nat, i <= n, NEW t \in Nat
  PROVE  /\ (n - i) * t \in Nat
         /\ i < n => /\ (n - (i + 1)) * t \in Nat
                    /\ (n - i) * t = (n - (i + 1)) * t + t
  <1>1. n - i \in Nat /\ (i < n => n - i > 0 /\ n - i - 1 = n - (i + 1) /\ n - i - 1 \in Nat)
    OBVIOUS
  <1> QED BY <1>1, Product, OneLess

-------------------------------------------------------------------------------
(* Arithmetic of one call *)

Policies == {Get, Data, Llm, Once}

LEMMA PolicyTypes ==
  /\ Policy \in Policies
  /\ \A p \in Policies : /\ p.attempts \in Nat /\ p.attempts > 0
                          /\ p.timeout \in Nat /\ p.repeats \in Nat
  BY DEF Policies, Policy, Get, Data, Llm, Once, SdkRepeats

\* The delays that are left are the next one and those after it.
LEMMA Delays ==
  ASSUME NEW p \in Policies, NEW i \in 0..(p.attempts - 1)
  PROVE  /\ DelaysRest(p, i) \in Nat
         /\ i + 1 < p.attempts => /\ Delay(p, i) \in Nat
                                  /\ DelaysRest(p, i) = Delay(p, i) + DelaysRest(p, i + 1)
  <1>1. 2 ^ 0 = 1 /\ 2 ^ 1 = 2 /\ 2 ^ 2 = 4
    OBVIOUS
  <1>2. CASE p.attempts = 3 /\ p.base = 1 /\ p.max = 8
    <2>1. i = 0 \/ i = 1 \/ i = 2
      BY <1>2
    <2>2. 2 ^ (p.attempts - 1) = 4
      <3>1. p.attempts - 1 = 2
        BY <1>2
      <3> QED BY <1>1, <3>1
    <2>3. DelaysRest(p, 0) = 3 /\ DelaysRest(p, 1) = 2 /\ DelaysRest(p, 2) = 0
      BY <1>1, <1>2, <2>2 DEF DelaysRest
    <2>4. Delay(p, 0) = 1 /\ Delay(p, 1) = 2
      BY <1>1, <1>2 DEF Delay, Min2
    <2> QED BY <1>2, <2>1, <2>3, <2>4
  <1>3. CASE p.attempts = 2 /\ p.base = 2 /\ p.max = 16
    <2>1. i = 0 \/ i = 1
      BY <1>3
    <2>2. 2 ^ (p.attempts - 1) = 2
      <3>1. p.attempts - 1 = 1
        BY <1>3
      <3> QED BY <1>1, <3>1
    <2>3. DelaysRest(p, 0) = 2 /\ DelaysRest(p, 1) = 0
      BY <1>1, <1>3, <2>2 DEF DelaysRest
    <2>4. Delay(p, 0) = 2
      BY <1>1, <1>3 DEF Delay, Min2
    <2> QED BY <1>3, <2>1, <2>3, <2>4
  <1>4. CASE p.attempts = 1 /\ p.base = 0
    <2>1. i = 0
      BY <1>4
    <2>2. 2 ^ (p.attempts - 1) = 1
      <3>1. p.attempts - 1 = 0
        BY <1>4
      <3> QED BY <1>1, <3>1
    <2>3. DelaysRest(p, 0) = 0
      BY <1>1, <1>4, <2>2 DEF DelaysRest
    <2> QED BY <1>4, <2>1, <2>3
  <1> QED BY <1>2, <1>3, <1>4 DEF Policies, Get, Data, Llm, Once

\* The lengths of a request and of an attempt.
LEMMA Lengths ==
  ASSUME NEW p \in Policies
  PROVE  /\ RequestTime(p) \in Nat /\ AttemptTime(p) \in Nat /\ SdkWait \in Nat
         /\ WaitsRest(p, 0) = RequestTime(p)
         /\ RepeatsRest(p, 0) + RequestTime(p) = AttemptTime(p)
  <1>1. p.timeout \in Nat /\ p.repeats \in Nat /\ Waits \in Nat
    BY PolicyTypes, CycleTimeAssumption
  <1>2. RequestTime(p) \in Nat /\ SdkWait \in Nat
    BY <1>1, Product DEF RequestTime, SdkWait
  <1>3. p.repeats * (RequestTime(p) + SdkWait) \in Nat
    <2>1. RequestTime(p) + SdkWait \in Nat
      BY <1>2
    <2> QED BY <1>1, <2>1, Product
  <1>4. RepeatsRest(p, 0) = p.repeats * (RequestTime(p) + SdkWait)
    <2>1. p.repeats - 0 = p.repeats
      BY <1>1
    <2> QED BY <2>1 DEF RepeatsRest
  <1>5. WaitsRest(p, 0) = RequestTime(p)
    <2>1. Waits - 0 = Waits
      BY <1>1
    <2> QED BY <2>1 DEF WaitsRest, RequestTime
  <1> HIDE DEF RequestTime
  <1>6. AttemptTime(p) = RequestTime(p) + p.repeats * (RequestTime(p) + SdkWait)
    BY DEF AttemptTime
  <1> QED BY <1>2, <1>3, <1>4, <1>5, <1>6

\* A wait, a repeat, a failed attempt and the end of a call come out of what is left of
\* the call.
LEMMA CallSteps ==
  ASSUME NEW p \in Policies, NEW i \in 0..(p.attempts - 1), NEW r \in 0..p.repeats,
         NEW w \in 0..(Waits - 1), NEW d \in Nat, d <= p.timeout
  PROVE  /\ CallRest(p, i, r, w) \in Nat
         /\ d <= CallRest(p, i, r, w)
         /\ w + 1 < Waits => d + CallRest(p, i, r, w + 1) <= CallRest(p, i, r, w)
         /\ r < p.repeats => d + SdkWait + CallRest(p, i, r + 1, 0) <= CallRest(p, i, r, w)
         /\ i + 1 < p.attempts =>
              d + Delay(p, i) + CallRest(p, i + 1, 0, 0) <= CallRest(p, i, r, w)
  <1>1. /\ p.attempts \in Nat /\ p.attempts > 0 /\ p.timeout \in Nat /\ p.repeats \in Nat
        /\ Waits \in Nat /\ Waits > 0
    BY PolicyTypes, CycleTimeAssumption
  <1>2. /\ WaitsRest(p, w) \in Nat /\ d <= WaitsRest(p, w)
        /\ w + 1 < Waits => /\ WaitsRest(p, w + 1) \in Nat
                            /\ d + WaitsRest(p, w + 1) <= WaitsRest(p, w)
    <2>1. w \in Nat /\ w < Waits /\ w + 1 \in Nat /\ w + 1 <= Waits
      BY <1>1
    <2>2. /\ (Waits - w) * p.timeout \in Nat /\ (Waits - (w + 1)) * p.timeout \in Nat
          /\ (Waits - w) * p.timeout = (Waits - (w + 1)) * p.timeout + p.timeout
      BY <1>1, <2>1, OneOf
    <2>3. WaitsRest(p, w) = (Waits - w) * p.timeout
          /\ WaitsRest(p, w + 1) = (Waits - (w + 1)) * p.timeout
      BY DEF WaitsRest
    <2>4. /\ WaitsRest(p, w) \in Nat /\ WaitsRest(p, w + 1) \in Nat
          /\ WaitsRest(p, w) = WaitsRest(p, w + 1) + p.timeout
      BY <2>2, <2>3
    <2> QED BY <1>1, <2>4
  <1>3. /\ RequestTime(p) \in Nat /\ AttemptTime(p) \in Nat /\ SdkWait \in Nat
        /\ WaitsRest(p, 0) = RequestTime(p)
        /\ RepeatsRest(p, 0) + RequestTime(p) = AttemptTime(p)
    BY Lengths
  <1>4. /\ RepeatsRest(p, r) \in Nat /\ RepeatsRest(p, 0) \in Nat
        /\ r < p.repeats =>
             /\ RepeatsRest(p, r + 1) \in Nat
             /\ RepeatsRest(p, r) = RepeatsRest(p, r + 1) + RequestTime(p) + SdkWait
    <2> DEFINE t == RequestTime(p) + SdkWait
    <2>1. t \in Nat
      BY <1>3
    <2>2. /\ RepeatsRest(p, r) = (p.repeats - r) * t
          /\ RepeatsRest(p, r + 1) = (p.repeats - (r + 1)) * t
          /\ RepeatsRest(p, 0) = (p.repeats - 0) * t
      BY DEF RepeatsRest
    <2> HIDE DEF t
    <2>3. /\ (p.repeats - r) * t \in Nat /\ (p.repeats - 0) * t \in Nat
          /\ r < p.repeats => /\ (p.repeats - r) * t = (p.repeats - (r + 1)) * t + t
                              /\ (p.repeats - (r + 1)) * t \in Nat
      <3>1. r \in Nat /\ r <= p.repeats /\ 0 \in Nat /\ 0 <= p.repeats
        BY <1>1
      <3> QED BY <1>1, <2>1, <3>1, OneOf
    <2>4. RepeatsRest(p, r) \in Nat /\ RepeatsRest(p, 0) \in Nat
          /\ (r < p.repeats => /\ RepeatsRest(p, r + 1) \in Nat
                               /\ RepeatsRest(p, r) = RepeatsRest(p, r + 1) + t)
      BY <2>2, <2>3
    <2> QED BY <1>3, <2>4 DEF t
  <1>5. /\ AttemptsRest(p, i) \in Nat
        /\ i + 1 < p.attempts => /\ AttemptsRest(p, i + 1) \in Nat
                                 /\ AttemptsRest(p, i) = AttemptsRest(p, i + 1) + AttemptTime(p)
    <2> DEFINE n == p.attempts - 1
    <2>1. i \in Nat /\ n \in Nat /\ i <= n /\ (i + 1 < p.attempts => i < n)
      BY <1>1
    <2> HIDE DEF n
    <2>2. /\ (n - i) * AttemptTime(p) \in Nat
          /\ i < n => /\ (n - i) * AttemptTime(p) = (n - (i + 1)) * AttemptTime(p) + AttemptTime(p)
                     /\ (n - (i + 1)) * AttemptTime(p) \in Nat
      BY <1>3, <2>1, OneOf
    <2>3. /\ AttemptsRest(p, i) = (n - i) * AttemptTime(p)
          /\ AttemptsRest(p, i + 1) = (n - (i + 1)) * AttemptTime(p)
      BY DEF AttemptsRest, n
    <2> QED BY <2>1, <2>2, <2>3
  <1>6. /\ DelaysRest(p, i) \in Nat
        /\ i + 1 < p.attempts => /\ Delay(p, i) \in Nat
                                 /\ DelaysRest(p, i) = Delay(p, i) + DelaysRest(p, i + 1)
                                 /\ DelaysRest(p, i + 1) \in Nat
    <2>1. i + 1 < p.attempts => i + 1 \in 0..(p.attempts - 1)
      BY <1>1
    <2> QED BY <2>1, Delays
  <1>7. CallRest(p, i, r, w) \in Nat /\ d <= CallRest(p, i, r, w)
    BY <1>2, <1>4, <1>5, <1>6 DEF CallRest
  <1>8. w + 1 < Waits => d + CallRest(p, i, r, w + 1) <= CallRest(p, i, r, w)
    BY <1>2, <1>4, <1>5, <1>6 DEF CallRest
  <1>9. r < p.repeats => d + SdkWait + CallRest(p, i, r + 1, 0) <= CallRest(p, i, r, w)
    BY <1>2, <1>3, <1>4, <1>5, <1>6 DEF CallRest
  <1>10. i + 1 < p.attempts =>
           d + Delay(p, i) + CallRest(p, i + 1, 0, 0) <= CallRest(p, i, r, w)
    BY <1>2, <1>3, <1>4, <1>5, <1>6 DEF CallRest
  <1> QED BY <1>7, <1>8, <1>9, <1>10

\* Everything that may follow the account and the candidates.
Analysis == CallTime(Llm) + OrdersTime

\* What is left of the call under way.
Call == CallRest(Policy, attempt, repeats, waits)

LEMMA CallTimes ==
  ASSUME NEW p \in Policies
  PROVE  CallTime(p) \in Nat
  <1>1. 0 \in 0..(p.attempts - 1) /\ 0 \in 0..p.repeats /\ 0 \in 0..(Waits - 1)
        /\ 0 \in Nat /\ 0 <= p.timeout
    BY PolicyTypes, CycleTimeAssumption
  <1> QED BY <1>1, CallSteps DEF CallTime

\* Cancelling takes less than asking the LLM.
LEMMA OnceIsShort == CallTime(Once) <= CallTime(Llm)
  <1>1. /\ Once \in Policies /\ Llm \in Policies /\ Waits \in Nat
        /\ 0 \in 0..(Llm.attempts - 1) /\ 0 \in 0..Llm.repeats /\ 0 \in 0..(Waits - 1)
    BY CycleTimeAssumption DEF Policies, Llm
  <1>2. RequestTime(Llm) = Waits * 120 /\ RequestTime(Once) = Waits * 20
    BY DEF RequestTime, Llm, Once
  <1>3. WaitsRest(Once, 0) = Waits * 20 /\ WaitsRest(Llm, 0) = Waits * 120
    BY <1>1, <1>2, Lengths
  <1>4. RepeatsRest(Once, 0) = 0 /\ RepeatsRest(Llm, 0) = 0
    <2>1. /\ RequestTime(Once) \in Nat /\ RequestTime(Llm) \in Nat /\ SdkWait \in Nat
          /\ Once.repeats = 0 /\ Llm.repeats = 0
      BY <1>1, Lengths DEF Once, Llm
    <2> QED BY <2>1 DEF RepeatsRest
  <1>5. AttemptsRest(Once, 0) = 0
    <2>1. Once.attempts - 1 - 0 = 0 /\ AttemptTime(Once) \in Nat
      BY <1>1, Lengths DEF Once
    <2> QED BY <2>1 DEF AttemptsRest
  <1>6. AttemptsRest(Llm, 0) \in Nat
    <2>1. Llm.attempts - 1 - 0 = 1 /\ AttemptTime(Llm) \in Nat
      BY <1>1, Lengths DEF Llm
    <2> QED BY <2>1 DEF AttemptsRest
  <1>7. DelaysRest(Once, 0) = 0
    <2>1. Once.base = 0 /\ Once.attempts - 1 = 0 /\ 2 ^ 0 = 1
      BY DEF Once
    <2> QED BY <2>1 DEF DelaysRest
  <1>8. DelaysRest(Llm, 0) \in Nat
    BY <1>1, Delays
  <1> QED BY <1>1, <1>3, <1>4, <1>5, <1>6, <1>7, <1>8 DEF CallTime, CallRest

LEMMA Totals ==
  ASSUME TypeOK
  PROVE  /\ held \in Nat /\ MaxOrders \in Nat
         /\ held <= MaxOrders /\ MaxPositions <= MaxOrders
         /\ CallTime(Get) \in Nat /\ CallTime(Data) \in Nat /\ CallTime(Llm) \in Nat
         /\ CallTime(Once) \in Nat
         /\ RoundTime \in Nat /\ RoundTime = CallTime(Get) + PollInterval
         /\ PollRounds * RoundTime \in Nat
         /\ OrderTime \in Nat
         /\ OrderTime = CallTime(Once) + CallTime(Get) + PollRounds * RoundTime
         /\ OrdersTime \in Nat /\ OrdersTime = MaxOrders * OrderTime
         /\ CandidatesTime \in Nat /\ CandidatesTime = Candidates * (2 * CallTime(Data))
         /\ Analysis \in Nat /\ Analysis = CallTime(Llm) + OrdersTime
         /\ held * CallTime(Data) \in Nat
         /\ WorstCase \in Nat
         /\ WorstCase = held * CallTime(Data) + CallTime(Data) + CallTime(Get) + CandidatesTime
                            + Analysis
  <1>1. held \in Nat /\ MaxOrders \in Nat /\ held <= MaxOrders /\ MaxPositions <= MaxOrders
    BY CycleTimeAssumption DEF TypeOK, MaxOrders
  <1>2. /\ CallTime(Get) \in Nat /\ CallTime(Data) \in Nat /\ CallTime(Llm) \in Nat
        /\ CallTime(Once) \in Nat
    BY CallTimes DEF Policies
  <1>3. RoundTime = CallTime(Get) + PollInterval /\ RoundTime \in Nat
    BY <1>2, CycleTimeAssumption DEF RoundTime
  <1>4. PollRounds * RoundTime \in Nat
    BY <1>3, CycleTimeAssumption, Product
  <1>5. OrderTime = CallTime(Once) + CallTime(Get) + PollRounds * RoundTime /\ OrderTime \in Nat
    BY <1>2, <1>4 DEF OrderTime
  <1>6. OrdersTime = MaxOrders * OrderTime /\ OrdersTime \in Nat
    BY <1>1, <1>5, Product DEF OrdersTime
  <1>7. CandidatesTime = Candidates * (2 * CallTime(Data)) /\ CandidatesTime \in Nat
    <2>1. 2 * CallTime(Data) \in Nat
      BY <1>2
    <2> QED BY <2>1, CycleTimeAssumption, Product DEF CandidatesTime
  <1>8. Analysis = CallTime(Llm) + OrdersTime /\ Analysis \in Nat
    BY <1>2, <1>6 DEF Analysis
  <1>9. /\ held * CallTime(Data) \in Nat
        /\ (held + 1) * CallTime(Data) = held * CallTime(Data) + CallTime(Data)
    <2>1. \A a, b \in Nat : (a + 1) * b = a * b + b
      OBVIOUS
    <2> QED BY <1>1, <1>2, <2>1, Product
  <1>10. WorstCase = held * CallTime(Data) + CallTime(Data) + CallTime(Get) + CandidatesTime
                        + Analysis
    BY <1>2, <1>6, <1>7, <1>9 DEF WorstCase, Analysis
  <1>11. WorstCase \in Nat
    BY <1>2, <1>7, <1>8, <1>9, <1>10
  <1> QED BY <1>1, <1>2, <1>3, <1>4, <1>5, <1>6, <1>7, <1>8, <1>9, <1>10, <1>11

\* The totals depend on nothing that a step changes.
LEMMA SameTotals ==
  ASSUME UNCHANGED start
  PROVE  /\ held' = held /\ MaxOrders' = MaxOrders /\ OrderTime' = OrderTime
         /\ OrdersTime' = OrdersTime /\ CandidatesTime' = CandidatesTime
         /\ RoundTime' = RoundTime /\ Analysis' = Analysis /\ WorstCase' = WorstCase
  BY DEF WorstCase, Analysis, RoundTime, OrdersTime, MaxOrders, OrderTime, CandidatesTime, CallTime,
         CallRest, start

\* The call under way, and what its steps take.
LEMMA CallNow ==
  ASSUME TypeOK, NEW d \in WaitTimes
  PROVE  /\ d \in Nat /\ Call \in Nat /\ d <= Call /\ SdkWait \in Nat
         /\ waits + 1 < Waits => d + CallRest(Policy, attempt, repeats, waits + 1) <= Call
         /\ repeats < Policy.repeats =>
              d + SdkWait + CallRest(Policy, attempt, repeats + 1, 0) <= Call
         /\ attempt + 1 < Policy.attempts =>
              /\ Delay(Policy, attempt) \in Nat
              /\ d + Delay(Policy, attempt) + CallRest(Policy, attempt + 1, 0, 0) <= Call
  <1>1. d \in Nat /\ d <= Policy.timeout
    BY CycleTimeAssumption DEF WaitTimes
  <1>2. /\ attempt \in 0..(Policy.attempts - 1) /\ repeats \in 0..Policy.repeats
        /\ waits \in 0..(Waits - 1)
    BY DEF TypeOK
  <1>3. Policy \in Policies
    BY PolicyTypes
  <1>4. attempt + 1 < Policy.attempts => Delay(Policy, attempt) \in Nat
    BY <1>2, <1>3, Delays
  <1> QED BY <1>1, <1>2, <1>3, <1>4, CallSteps DEF Call, SdkWait

-------------------------------------------------------------------------------
(* The time left, stage by stage *)

\* A holding or a candidate less in what is left of the loops.
LEMMA Fewer ==
  ASSUME NEW n \in Nat, n > 0, NEW t \in Nat
  PROVE  /\ (n - 1) * t \in Nat /\ n * t = (n - 1) * t + t
         /\ n > 1 => /\ (n - 1 - 1) * t \in Nat
                    /\ (n - 1) * t = (n - 1 - 1) * t + t
  <1>1. n - 1 \in Nat /\ (n > 1 => n - 1 - 1 \in Nat /\ n - 1 > 0)
    OBVIOUS
  <1> QED BY <1>1, Product, OneLess

RestTable ==
  /\ at = "clock" => Rest = Call + held * CallTime(Data) + CallTime(Get) + CandidatesTime + Analysis
  /\ at = "holdings" /\ left > 0 =>
       Rest = Call + (left - 1) * CallTime(Data) + CallTime(Get) + CandidatesTime + Analysis
  /\ at = "holdings" /\ left = 0 => Rest = CallTime(Get) + CandidatesTime + Analysis
  /\ at = "account" => Rest = Call + CandidatesTime + Analysis
  /\ at = "cancel" => Rest = Call
  /\ at = "price" =>
       Rest = Call + CallTime(Data) + (left - 1) * (2 * CallTime(Data)) + Analysis
  /\ at = "bars" => Rest = Call + (left - 1) * (2 * CallTime(Data)) + Analysis
  /\ at = "llm" => Rest = Call + OrdersTime
  /\ at = "submit" => Rest = Call + CallTime(Get) + PollRounds * RoundTime + (left - 1) * OrderTime
  /\ at = "poll" => Rest = Call + (PollRounds - rounds) * RoundTime + (left - 1) * OrderTime
  /\ at = "done" => Rest = 0
  /\ Call \in Nat

RestNow == TypeOK => RestTable

LEMMA RestAt == RestNow
  <1> SUFFICES ASSUME TypeOK PROVE RestTable
    BY DEF RestNow
  <1>1. /\ OrderTime \in Nat /\ OrdersTime \in Nat /\ CandidatesTime \in Nat /\ RoundTime \in Nat
        /\ held \in Nat /\ left \in Nat /\ rounds \in Nat /\ Analysis = CallTime(Llm) + OrdersTime
        /\ Analysis \in Nat /\ CallTime(Get) \in Nat /\ CallTime(Data) \in Nat
        /\ CallTime(Llm) \in Nat /\ held * CallTime(Data) \in Nat
        /\ PollRounds * RoundTime \in Nat
    BY Totals, CycleTimeAssumption DEF TypeOK
  <1>2. Call \in Nat
    <2>1. /\ attempt \in 0..(Policy.attempts - 1) /\ repeats \in 0..Policy.repeats
          /\ waits \in 0..(Waits - 1) /\ 0 \in Nat /\ 0 <= Policy.timeout
          /\ Policy \in Policies
      BY PolicyTypes DEF TypeOK
    <2> QED BY <2>1, CallSteps DEF Call
  <1>3. /\ (left - 1) * CallTime(Data) \in Int /\ (left - 1) * (2 * CallTime(Data)) \in Int
        /\ (left - 1) * OrderTime \in Int /\ (PollRounds - rounds) * RoundTime \in Int
    BY <1>1, CycleTimeAssumption
  <1> QED BY <1>1, <1>2, <1>3 DEF RestTable, Rest, Call

LEMMA RestThen == TypeOK' => RestTable'
  <1>1. RestNow'
    BY RestAt, PTL
  <1> QED BY <1>1 DEF RestNow

-------------------------------------------------------------------------------
(* One step *)

\* A new call has all its attempts.
LEMMA NewCall ==
  ASSUME CallOver, at' \in Stages
  PROVE  /\ attempt' \in 0..(Policy'.attempts - 1) /\ repeats' \in 0..Policy'.repeats
         /\ waits' \in 0..(Waits - 1)
         /\ at' \in {"clock", "holdings", "price", "bars"} => Call' = CallTime(Data)
         /\ at' \in {"account", "poll"} => Call' = CallTime(Get)
         /\ at' \in {"cancel", "submit"} => Call' = CallTime(Once)
         /\ at' = "llm" => Call' = CallTime(Llm)
  <1>1. attempt' = 0 /\ repeats' = 0 /\ waits' = 0 /\ waits' \in 0..(Waits - 1)
    BY CycleTimeAssumption DEF CallOver
  <1>2. Call' = CallTime(Policy')
    BY <1>1 DEF Call, CallTime, CallRest
  <1>3. CASE at' \in {"clock", "holdings", "price", "bars"}
    <2>1. Policy' = Data
      BY <1>3 DEF Policy
    <2> QED BY <1>1, <1>2, <1>3, <2>1 DEF Data, SdkRepeats
  <1>4. CASE at' = "llm"
    <2>1. Policy' = Llm
      BY <1>4 DEF Policy
    <2> QED BY <1>1, <1>2, <1>4, <2>1 DEF Llm
  <1>5. CASE at' \in {"cancel", "submit"}
    <2>1. Policy' = Once
      BY <1>5 DEF Policy
    <2> QED BY <1>1, <1>2, <1>5, <2>1 DEF Once
  <1>6. CASE at' \in {"account", "poll", "done"}
    <2>1. Policy' = Get
      BY <1>6 DEF Policy
    <2> QED BY <1>1, <1>2, <1>6, <2>1 DEF Get
  <1> QED BY <1>3, <1>4, <1>5, <1>6 DEF Stages

\* The end of a call takes at most what was left of it.
LEMMA CallEnds ==
  ASSUME TypeOK, NEW stage, Succeeds(stage) \/ Fails(stage)
  PROVE  /\ at = stage /\ (stage = "holdings" => left > 0)
         /\ CallOver
         /\ now' \in Nat /\ now' <= now + Call
         /\ Call \in Nat
  <1>1. PICK d \in WaitTimes : now' = now + d
    BY DEF Succeeds, Fails, Ends
  <1>2. d \in Nat /\ Call \in Nat /\ d <= Call
    BY CallNow
  <1> QED BY <1>1, <1>2 DEF Succeeds, Fails, Ends, Calling, TypeOK

\* Before an order is sent, what is left is the time of n orders.
LEMMA OrdersLeft ==
  ASSUME TypeOK, NEW n \in Nat, n > 0, at' = "submit", left' = n, CallOver,
         UNCHANGED start, RestTable'
  PROVE  Rest' = n * OrderTime
  <1>1. Call' = CallTime(Once)
    BY NewCall DEF Stages
  <1>2. Rest' = CallTime(Once) + CallTime(Get) + PollRounds * RoundTime + (n - 1) * OrderTime
    BY <1>1, SameTotals DEF RestTable
  <1>3. /\ OrderTime \in Nat /\ OrderTime = CallTime(Once) + CallTime(Get) + PollRounds * RoundTime
    BY Totals
  <1>4. n * OrderTime = (n - 1) * OrderTime + OrderTime /\ (n - 1) * OrderTime \in Nat
    BY <1>3, Fewer
  <1> DEFINE o == OrderTime  q == (n - 1) * OrderTime
  <1>5. Rest' = o + q /\ n * OrderTime = q + o /\ o \in Nat /\ q \in Nat
    BY <1>2, <1>3, <1>4
  <1> HIDE DEF o, q
  <1> QED BY <1>5

\* Sending orders, or ending: what is left is at most all the orders.
LEMMA Sending ==
  ASSUME TypeOK, NEW n \in Nat, n <= MaxOrders, SendOrders(n), CallOver, UNCHANGED start
  PROVE  /\ at' \in {"submit", "done"} /\ left' \in Nat
         /\ at' = "submit" => left' \in 1..MaxOrders
         /\ RestTable' => Rest' \in Nat /\ Rest' <= OrdersTime
  <1>1. OrderTime' = OrderTime /\ MaxOrders' = MaxOrders
    BY SameTotals
  <1>2. OrderTime \in Nat /\ MaxOrders \in Nat /\ OrdersTime = MaxOrders * OrderTime
        /\ OrdersTime \in Nat
    BY Totals
  <1>3. CASE at' = "submit" /\ left' = n /\ n > 0
    <2>1. RestTable' => Rest' = n * OrderTime
      BY <1>3, OrdersLeft
    <2>2. n * OrderTime <= MaxOrders * OrderTime /\ n * OrderTime \in Nat
      BY <1>2, NoMore, Product
    <2>3. left' \in 1..MaxOrders
      BY <1>2, <1>3
    <2>4. RestTable' => Rest' \in Nat /\ Rest' <= OrdersTime
      BY <1>2, <2>1, <2>2
    <2> QED BY <1>3, <2>3, <2>4
  <1>4. CASE at' = "done" /\ left' = left
    <2>1. RestTable' => Rest' = 0
      BY <1>4 DEF RestTable
    <2> QED BY <1>2, <1>4, <2>1 DEF TypeOK
  <1> QED BY <1>3, <1>4 DEF SendOrders, End

LEMMA Transitive ==
  \A n, r, m, q, w \in Int : n + r <= w /\ m + q <= n + r => m + q <= w
  OBVIOUS

LEMMA Additive ==
  \A n, m, c, q, r \in Int : m <= n + c /\ q <= r => m + q <= n + (c + r) /\ c + r \in Int
  OBVIOUS

\* A step after which no more time may pass than before keeps the invariant.
LEMMA Kept ==
  ASSUME IInv, UNCHANGED start, TypeOK', Loops',
         Rest \in Int, Rest' \in Int, now' + Rest' <= now + Rest
  PROVE  IInv'
  <1>1. WorstCase' = WorstCase
    BY SameTotals
  <1>2. WorstCase \in Int /\ now \in Int /\ now' \in Int /\ now + Rest <= WorstCase
    BY Totals DEF IInv, TypeOK
  <1>3. now' + Rest' <= WorstCase
    BY <1>2, Transitive
  <1> QED BY <1>1, <1>3 DEF IInv

\* The same, for the end of a call: what was left of it is no longer left.
LEMMA KeptByCall ==
  ASSUME IInv, UNCHANGED start, TypeOK', Loops', now' <= now + Call,
         NEW r \in Int, Rest = Call + r, Rest' \in Int, Rest' <= r
  PROVE  IInv'
  <1>1. now \in Int /\ now' \in Int
    BY DEF IInv, TypeOK
  <1>2. Call \in Int
    BY RestAt DEF IInv, RestNow, RestTable
  <1>3. Call + r \in Int /\ now' + Rest' <= now + (Call + r)
    BY <1>1, <1>2, Additive
  <1> QED BY <1>3, Kept

\* A step that takes no time.
LEMMA KeptAtOnce ==
  ASSUME IInv, UNCHANGED <<start, now>>, TypeOK', Loops', Rest \in Int, Rest' \in Int, Rest' <= Rest
  PROVE  IInv'
  <1>1. now \in Int /\ now' = now
    BY DEF IInv, TypeOK
  <1>2. \A n, r, q \in Int : q <= r => n + q <= n + r
    OBVIOUS
  <1>3. now' + Rest' <= now + Rest
    BY <1>1, <1>2
  <1> QED BY <1>3, Kept

\* The types after a call or between two loops.
LEMMA Typed ==
  ASSUME TypeOK, CallOver, now' \in Nat, at' \in Stages, left' \in Nat,
         rounds' \in 0..PollRounds, open' \in BOOLEAN, missing' \in BOOLEAN, good' \in BOOLEAN,
         priced' \in BOOLEAN, UNCHANGED <<start, sells>>
  PROVE  TypeOK'
  <1>1. /\ attempt' \in 0..(Policy'.attempts - 1) /\ repeats' \in 0..Policy'.repeats
        /\ waits' \in 0..(Waits - 1)
    BY NewCall
  <1> QED BY <1>1 DEF TypeOK, start

\* Sending orders, or ending, after a call that took no longer than it might, or at once.
LEMMA SendingInv ==
  ASSUME IInv, NEW n \in Nat, n <= MaxOrders, SendOrders(n), CallOver,
         UNCHANGED <<start, rounds, open, missing, good, sells>>, now' \in Nat, priced' \in BOOLEAN,
         NEW r \in Int, OrdersTime <= r,
         \/ now' <= now + Call /\ Rest = Call + r
         \/ now' = now /\ Rest = r
  PROVE  IInv'
  <1>1. TypeOK
    BY DEF IInv
  <1>2. /\ at' \in {"submit", "done"} /\ left' \in Nat
        /\ at' = "submit" => left' \in 1..MaxOrders
        /\ RestTable' => Rest' \in Nat /\ Rest' <= OrdersTime
    BY <1>1, Sending
  <1>3. /\ rounds \in 0..PollRounds /\ open \in BOOLEAN /\ missing \in BOOLEAN /\ good \in BOOLEAN
    BY <1>1 DEF TypeOK
  <1>4. TypeOK'
    BY <1>1, <1>2, <1>3, Typed DEF Stages
  <1>5. MaxOrders' = MaxOrders
    BY SameTotals
  <1>6. Loops'
    BY <1>2, <1>5 DEF Loops
  <1>7. Rest' \in Int /\ Rest' <= OrdersTime /\ OrdersTime \in Int
    BY <1>1, <1>2, <1>4, RestThen, Totals
  <1>8. Rest' <= r
    BY <1>7
  <1> QED BY <1>4, <1>6, <1>7, <1>8, KeptByCall, KeptAtOnce

-------------------------------------------------------------------------------
(* The actions *)

\* The facts that every action starts from.
LEMMA Facts ==
  ASSUME IInv
  PROVE  /\ TypeOK /\ Loops /\ RestTable
         /\ left \in Nat /\ rounds \in Nat /\ held \in Nat /\ sells \in Nat
         /\ OrderTime \in Nat /\ OrdersTime \in Nat /\ CandidatesTime \in Nat
         /\ RoundTime \in Nat /\ Analysis \in Nat /\ Analysis = CallTime(Llm) + OrdersTime
         /\ MaxOrders \in Nat /\ held <= MaxOrders /\ MaxPositions <= MaxOrders
         /\ sells <= MaxOrders
         /\ Call \in Nat
         /\ CallTime(Get) \in Nat /\ CallTime(Data) \in Nat /\ CallTime(Llm) \in Nat
         /\ CallTime(Once) \in Nat /\ held * CallTime(Data) \in Nat
  <1>1. TypeOK /\ Loops
    BY DEF IInv
  <1>2. RestTable
    BY <1>1, RestAt DEF RestNow
  <1>3. left \in Nat /\ rounds \in Nat /\ sells \in Nat /\ sells <= held
    BY <1>1, CycleTimeAssumption DEF TypeOK
  <1> QED BY <1>1, <1>2, <1>3, Totals DEF RestTable

\* The time that passes is what a call no longer has.
LEMMA Passed ==
  /\ \A n, d, c, q \in Nat : d + q <= c => n + d \in Nat /\ n + d + q <= n + c
  /\ \A n, d, e, c, q \in Nat : d + e + q <= c => n + d + e \in Nat /\ n + d + e + q <= n + c
  OBVIOUS

\* What is left of a call that goes on.
LEMMA CallLater ==
  ASSUME UNCHANGED at, attempt' \in 0..(Policy.attempts - 1), repeats' \in 0..Policy.repeats,
         waits' \in 0..(Waits - 1)
  PROVE  Call' \in Nat
  <1>1. Policy' = Policy /\ Policy \in Policies /\ 0 \in Nat /\ 0 <= Policy.timeout
    BY PolicyTypes DEF Policy
  <1>2. CallRest(Policy, attempt', repeats', waits') \in Nat
    BY <1>1, CallSteps
  <1>3. Call' = CallRest(Policy, attempt', repeats', waits')
    BY <1>1 DEF Call, CallRest
  <1> QED BY <1>2, <1>3

LEMMA Shifted ==
  \A n, m, c, e, r, q \in Int : m + e <= n + c /\ q - e = r - c => m + q <= n + r
  OBVIOUS

\* Within a call nothing changes but the time and what is left of the call.
LEMMA SameCall ==
  ASSUME IInv, at # "done", at = "holdings" => left > 0,
         UNCHANGED <<at, left, rounds, start, open, missing, good, priced, sells>>,
         attempt' \in 0..(Policy.attempts - 1), repeats' \in 0..Policy.repeats,
         waits' \in 0..(Waits - 1), now' \in Nat, now' + Call' <= now + Call
  PROVE  IInv'
  <1>1. TypeOK /\ Loops /\ RestTable
    BY Facts
  <1>2. Policy' = Policy
    BY DEF Policy
  <1>3. TypeOK'
    BY <1>1, <1>2 DEF TypeOK, start
  <1>4. Loops'
    BY <1>1, SameTotals DEF Loops, start
  <1>5. RestTable'
    BY <1>3, RestThen
  <1>6. Rest \in Int /\ Rest' \in Int /\ Rest' - Call' = Rest - Call
    <2>1. /\ (left - 1) * CallTime(Data) \in Int /\ (left - 1) * (2 * CallTime(Data)) \in Int
          /\ (PollRounds - rounds) * RoundTime \in Int /\ (left - 1) * OrderTime \in Int
          /\ PollRounds * RoundTime \in Int
      BY Facts, CycleTimeAssumption
    <2>2. UNCHANGED <<held, OrderTime, OrdersTime, CandidatesTime, RoundTime, Analysis>>
      BY SameTotals
    <2>3. Call \in Int /\ Call' \in Int
      BY <1>1, <1>5 DEF RestTable
    <2>4. CASE at = "clock"
      BY <1>1, <1>5, <2>2, <2>3, <2>4, Facts DEF RestTable
    <2>5. CASE at = "holdings"
      BY <1>1, <1>5, <2>1, <2>2, <2>3, <2>5, Facts DEF RestTable
    <2>6. CASE at = "account"
      BY <1>1, <1>5, <2>2, <2>3, <2>6, Facts DEF RestTable
    <2>7. CASE at = "price"
      BY <1>1, <1>5, <2>1, <2>2, <2>3, <2>7, Facts DEF RestTable
    <2>8. CASE at = "bars"
      BY <1>1, <1>5, <2>1, <2>2, <2>3, <2>8, Facts DEF RestTable
    <2>9. CASE at = "llm"
      BY <1>1, <1>5, <2>2, <2>3, <2>9, Facts DEF RestTable
    <2>10. CASE at = "poll"
      BY <1>1, <1>5, <2>1, <2>2, <2>3, <2>10, Facts DEF RestTable
    <2>11. CASE at = "submit"
      BY <1>1, <1>5, <2>1, <2>2, <2>3, <2>11, Facts DEF RestTable
    <2>12. CASE at = "cancel"
      <3>1. Rest = Call
        BY <1>1, <2>12 DEF RestTable
      <3>2. Rest' = Call'
        BY <1>5, <2>12 DEF RestTable
      <3>3. \A a, b \in Int : b - b = a - a
        OBVIOUS
      <3> QED BY <2>3, <3>1, <3>2, <3>3, Zenon
    <2> QED
      BY <1>1, <2>4, <2>5, <2>6, <2>7, <2>8, <2>9, <2>10, <2>11, <2>12 DEF TypeOK, Stages
  <1>7. now \in Int /\ now' \in Int /\ Call \in Int /\ Call' \in Int
    BY <1>1, <1>5 DEF TypeOK, RestTable
  <1>8. now' + Rest' <= now + Rest
    BY <1>6, <1>7, Shifted
  <1> QED BY <1>3, <1>4, <1>6, <1>8, Kept

\* A wait of a request that goes on.
LEMMA WaitInv == ASSUME IInv, Wait PROVE IInv'
  <1>1. TypeOK
    BY Facts
  <1>2. PICK d \in WaitTimes : now' = now + d
    BY DEF Wait
  <1>3. /\ waits + 1 < Waits /\ waits' = waits + 1 /\ at # "done" /\ (at = "holdings" => left > 0)
        /\ UNCHANGED <<at, attempt, repeats, left, rounds, start, open, missing, good, priced,
                       sells>>
    BY DEF Wait, Calling
  <1>4. Call' = CallRest(Policy, attempt, repeats, waits + 1)
    <2>1. Policy' = Policy
      BY <1>3 DEF Policy
    <2> QED BY <1>3, <2>1 DEF Call, CallRest
  <1>5. /\ attempt' \in 0..(Policy.attempts - 1) /\ repeats' \in 0..Policy.repeats
        /\ waits' \in 0..(Waits - 1)
    BY <1>1, <1>3, CycleTimeAssumption DEF TypeOK
  <1>6. d \in Nat /\ d + Call' <= Call /\ Call \in Nat
    BY <1>1, <1>3, <1>4, CallNow
  <1>7. Call' \in Nat
    BY <1>1, <1>3, <1>5, CallLater
  <1>8. now' \in Nat /\ now' + Call' <= now + Call
    <2>1. now \in Nat
      BY <1>1 DEF TypeOK
    <2> QED BY <1>2, <1>6, <1>7, <2>1, Passed
  <1> QED BY <1>3, <1>5, <1>8, SameCall

\* A request that alpaca-py repeats.
LEMMA RepeatInv == ASSUME IInv, Repeat PROVE IInv'
  <1>1. TypeOK
    BY Facts
  <1>2. PICK d \in WaitTimes : now' = now + d + SdkWait
    BY DEF Repeat
  <1>3. /\ repeats < Policy.repeats /\ repeats' = repeats + 1 /\ waits' = 0
        /\ at # "done" /\ (at = "holdings" => left > 0)
        /\ UNCHANGED <<at, attempt, left, rounds, start, open, missing, good, priced, sells>>
    BY DEF Repeat, Calling
  <1>4. Call' = CallRest(Policy, attempt, repeats + 1, 0)
    <2>1. Policy' = Policy
      BY <1>3 DEF Policy
    <2> QED BY <1>3, <2>1 DEF Call, CallRest
  <1>5. /\ attempt' \in 0..(Policy.attempts - 1) /\ repeats' \in 0..Policy.repeats
        /\ waits' \in 0..(Waits - 1)
    <2>1. Policy.repeats \in Nat
      BY PolicyTypes
    <2> QED BY <1>1, <1>3, <2>1, CycleTimeAssumption DEF TypeOK
  <1>6. d \in Nat /\ d + SdkWait + Call' <= Call /\ Call \in Nat /\ SdkWait \in Nat
    BY <1>1, <1>3, <1>4, CallNow
  <1>7. Call' \in Nat
    BY <1>1, <1>3, <1>5, CallLater
  <1>8. now' \in Nat /\ now' + Call' <= now + Call
    <2>1. now \in Nat
      BY <1>1 DEF TypeOK
    <2> QED BY <1>2, <1>6, <1>7, <2>1, Passed
  <1> QED BY <1>3, <1>5, <1>8, SameCall

\* A failed attempt and its delay.
LEMMA RetryInv == ASSUME IInv, Retry PROVE IInv'
  <1>1. TypeOK
    BY Facts
  <1>2. PICK d \in WaitTimes : now' = now + d + Delay(Policy, attempt)
    BY DEF Retry
  <1>3. /\ ~LastAttempt(Policy, attempt) /\ attempt' = attempt + 1 /\ repeats' = 0 /\ waits' = 0
        /\ at # "done" /\ (at = "holdings" => left > 0)
        /\ UNCHANGED <<at, left, rounds, start, open, missing, good, priced, sells>>
    BY DEF Retry, Calling
  <1>4. Call' = CallRest(Policy, attempt + 1, 0, 0)
    <2>1. Policy' = Policy
      BY <1>3 DEF Policy
    <2> QED BY <1>3, <2>1 DEF Call, CallRest
  <1>5. /\ attempt + 1 < Policy.attempts
        /\ attempt' \in 0..(Policy.attempts - 1) /\ repeats' \in 0..Policy.repeats
        /\ waits' \in 0..(Waits - 1)
    <2>1. Policy.repeats \in Nat /\ Policy.attempts \in Nat
      BY PolicyTypes
    <2> QED BY <1>1, <1>3, <2>1, CycleTimeAssumption DEF TypeOK, LastAttempt
  <1>6. /\ d \in Nat /\ Delay(Policy, attempt) \in Nat /\ Call \in Nat
        /\ d + Delay(Policy, attempt) + Call' <= Call
    BY <1>1, <1>4, <1>5, CallNow
  <1>7. Call' \in Nat
    BY <1>1, <1>3, <1>5, CallLater
  <1>8. now' \in Nat /\ now' + Call' <= now + Call
    <2>1. now \in Nat
      BY <1>1 DEF TypeOK
    <2> QED BY <1>2, <1>6, <1>7, <2>1, Passed
  <1> QED BY <1>3, <1>5, <1>8, SameCall

LEMMA ReadClockInv == ASSUME IInv, ReadClock PROVE IInv'
  <1>1. TypeOK /\ Loops /\ RestTable
    BY Facts
  <1>2. /\ at = "clock" /\ CallOver /\ now' \in Nat /\ now' <= now + Call
        /\ UNCHANGED <<left, rounds, start, missing, good, priced, sells>>
        /\ open' \in BOOLEAN /\ at' \in {"holdings", "done"}
    BY <1>1, CallEnds DEF ReadClock, End, TypeOK
  <1>3. TypeOK' /\ Loops'
    BY <1>1, <1>2, NewCall, SameTotals DEF TypeOK, Loops, Stages, start, CallOver
  <1>4. RestTable'
    BY <1>3, RestThen
  <1>5. left = held
    BY <1>1, <1>2 DEF Loops
  <1> DEFINE r == held * CallTime(Data) + CallTime(Get) + CandidatesTime + Analysis
  <1>6. r \in Int /\ Rest = Call + r
    BY <1>1, <1>2, Facts DEF RestTable
  <1>7. Rest' \in Int /\ Rest' <= r
    <2>1. CASE at' = "done"
      BY <1>4, <2>1, Facts DEF RestTable
    <2>2. CASE at' = "holdings" /\ left = 0
      BY <1>2, <1>4, <1>5, <2>2, Facts, SameTotals DEF RestTable
    <2>3. CASE at' = "holdings" /\ left > 0
      <3>1. Call' = CallTime(Data)
        BY <1>2, <2>3, NewCall DEF Stages
      <3>2. Rest' = CallTime(Data) + (left - 1) * CallTime(Data) + CallTime(Get)
                      + CandidatesTime + Analysis
        BY <1>2, <1>4, <2>3, <3>1, SameTotals DEF RestTable
      <3> QED BY <1>5, <3>2, Facts
    <2> QED BY <1>2, <2>1, <2>2, <2>3, Facts
  <1> HIDE DEF r
  <1> QED BY <1>2, <1>3, <1>6, <1>7, KeptByCall

LEMMA PriceHoldingInv == ASSUME IInv, PriceHolding PROVE IInv'
  <1>1. TypeOK /\ Loops /\ RestTable
    BY Facts
  <1>2. /\ at = "holdings" /\ CallOver /\ now' \in Nat /\ now' <= now + Call
        /\ UNCHANGED <<at, rounds, start, open, good, priced>>
        /\ left > 0 /\ left' = left - 1
        /\ missing' \in BOOLEAN /\ sells' \in {sells, sells + 1}
    BY <1>1, CallEnds DEF PriceHolding, TypeOK
  <1>3. TypeOK' /\ Loops'
    <2>1. left' \in Nat /\ left' <= held /\ sells' <= held - left' /\ sells' \in 0..held
      BY <1>1, <1>2, Facts DEF Loops, TypeOK
    <2>2. TypeOK'
      BY <1>1, <1>2, <2>1, NewCall DEF TypeOK, Stages, start
    <2>3. Loops'
      BY <1>2, <2>1 DEF Loops, start, CallOver
    <2> QED BY <2>2, <2>3
  <1>4. RestTable'
    BY <1>3, RestThen
  <1> DEFINE r == (left - 1) * CallTime(Data) + CallTime(Get) + CandidatesTime + Analysis
  <1>5. r \in Int /\ Rest = Call + r
    BY <1>1, <1>2, Facts DEF RestTable
  <1>6. Rest' \in Int /\ Rest' <= r
    <2>1. CASE left = 1
      BY <1>2, <1>4, <2>1, Facts, SameTotals DEF RestTable
    <2>2. CASE left > 1
      <3>1. Call' = CallTime(Data)
        BY <1>2, NewCall DEF Stages
      <3>2. Rest' = CallTime(Data) + (left - 1 - 1) * CallTime(Data) + CallTime(Get)
                      + CandidatesTime + Analysis
        BY <1>2, <1>4, <2>2, <3>1, SameTotals, Facts DEF RestTable
      <3> QED BY <3>2, Facts
    <2> QED BY <1>2, <2>1, <2>2, Facts
  <1> HIDE DEF r
  <1> QED BY <1>2, <1>3, <1>5, <1>6, KeptByCall

LEMMA HoldingsPricedInv == ASSUME IInv, HoldingsPriced PROVE IInv'
  <1>1. TypeOK /\ Loops /\ RestTable
    BY Facts
  <1>2. /\ at = "holdings" /\ left = 0 /\ CallOver
        /\ UNCHANGED <<now, rounds, start, open, missing, good, priced, sells>>
    BY <1>1 DEF HoldingsPriced, Loops, CallOver, call
  <1> DEFINE r == CallTime(Get) + CandidatesTime + Analysis
  <1>3. r \in Int /\ Rest = r /\ OrdersTime <= r
    BY <1>1, <1>2, Facts DEF RestTable
  <1>4. now' \in Nat /\ priced' \in BOOLEAN
    BY <1>1, <1>2 DEF TypeOK
  <1>5. CASE at' = "account" /\ left' = left
    <2>1. TypeOK' /\ Loops'
      BY <1>1, <1>2, <1>5, NewCall, SameTotals DEF TypeOK, Loops, Stages, start, CallOver
    <2>2. Call' = CallTime(Get)
      BY <1>2, <1>5, NewCall DEF Stages
    <2>3. Rest' = CallTime(Get) + CandidatesTime + Analysis
      BY <1>2, <1>5, <2>1, <2>2, RestThen, SameTotals DEF RestTable
    <2>4. Rest' = r
      BY <2>3
    <2> HIDE DEF r
    <2>5. Rest \in Int /\ Rest' \in Int /\ Rest' <= Rest
      BY <1>3, <2>4
    <2> QED BY <1>2, <2>1, <2>5, KeptAtOnce
  <1> HIDE DEF r
  <1>6. CASE \E n \in 0..sells : SendOrders(n)
    <2>1. PICK n \in 0..sells : SendOrders(n)
      BY <1>6
    <2>2. n \in Nat /\ n <= MaxOrders
      BY <2>1, Facts
    <2> QED BY <1>2, <1>3, <1>4, <2>1, <2>2, SendingInv
  <1>7. CASE End
    <2>1. TypeOK' /\ Loops'
      BY <1>1, <1>2, <1>7, NewCall DEF TypeOK, Loops, Stages, start, End, CallOver
    <2>2. Rest' = 0
      BY <1>7, <2>1, RestThen DEF RestTable, End
    <2>3. Rest \in Int /\ Rest' \in Int /\ Rest' <= Rest
      BY <1>3, <2>2, Facts
    <2> QED BY <1>2, <2>1, <2>3, KeptAtOnce
  <1> QED BY <1>5, <1>6, <1>7 DEF HoldingsPriced

\* The end of the cycle.
LEMMA EndInv ==
  ASSUME IInv, End, CallOver, now' \in Nat, now' <= now + Call,
         UNCHANGED <<rounds, start, missing, good, priced, sells>>, open' \in BOOLEAN,
         NEW r \in Nat, Rest = Call + r
  PROVE  IInv'
  <1>1. TypeOK /\ at' = "done" /\ left' \in Nat
    BY DEF IInv, End, TypeOK
  <1>2. TypeOK'
    <2>1. rounds' \in 0..PollRounds /\ missing' \in BOOLEAN /\ good' \in BOOLEAN
          /\ priced' \in BOOLEAN
      BY <1>1 DEF TypeOK
    <2> QED BY <1>1, <2>1, Typed DEF Stages
  <1>3. Loops'
    BY <1>1 DEF Loops
  <1>4. Rest' \in Int /\ Rest' <= r
    BY <1>1, <1>2, RestThen DEF RestTable
  <1> QED BY <1>2, <1>3, <1>4, KeptByCall

LEMMA ReadAccountInv == ASSUME IInv, ReadAccount PROVE IInv'
  <1>1. TypeOK /\ Loops /\ RestTable
    BY Facts
  <1>2. /\ at = "account" /\ CallOver /\ now' \in Nat /\ now' <= now + Call
        /\ UNCHANGED <<rounds, start, open, missing, good, priced, sells>>
    BY <1>1, CallEnds DEF ReadAccount
  <1> DEFINE r == CandidatesTime + Analysis
  <1>3. r \in Nat /\ Rest = Call + r /\ OrdersTime <= r
    BY <1>1, <1>2, Facts DEF RestTable
  <1>4. /\ open' \in BOOLEAN /\ missing' \in BOOLEAN /\ good' \in BOOLEAN /\ priced' \in BOOLEAN
        /\ rounds' \in 0..PollRounds /\ UNCHANGED <<start, sells>>
    BY <1>1, <1>2 DEF TypeOK
  <1>5. CASE at' = "cancel" /\ left' = left
    <2>1. TypeOK'
      BY <1>1, <1>2, <1>4, <1>5, Facts, Typed DEF Stages
    <2>2. Loops'
      BY <1>5 DEF Loops
    <2>3. Call' = CallTime(Once)
      BY <1>2, <1>5, NewCall DEF Stages
    <2>4. Rest' = CallTime(Once)
      BY <1>5, <2>1, <2>3, RestThen DEF RestTable
    <2>5. Rest' \in Int /\ Rest' <= r
      <3>1. /\ CallTime(Once) \in Nat /\ CallTime(Llm) \in Nat /\ OrdersTime \in Nat
            /\ CandidatesTime \in Nat /\ Analysis = CallTime(Llm) + OrdersTime
            /\ CallTime(Once) <= CallTime(Llm)
        BY Facts, OnceIsShort
      <3> QED BY <2>4, <3>1
    <2> HIDE DEF r
    <2> QED BY <1>2, <1>3, <2>1, <2>2, <2>5, KeptByCall
  <1>6. CASE /\ held < MaxPositions /\ at' = "price" /\ left' \in 1..Candidates
    <2>1. left' \in Nat
      BY <1>6, CycleTimeAssumption
    <2>2. TypeOK'
      BY <1>1, <1>2, <1>4, <1>6, <2>1, Typed DEF Stages
    <2>3. Loops'
      BY <1>2, <1>6 DEF Loops, start
    <2>4. Call' = CallTime(Data)
      BY <1>2, <1>6, NewCall DEF Stages
    <2>5. Rest' = CallTime(Data) + CallTime(Data) + (left' - 1) * (2 * CallTime(Data)) + Analysis
      BY <1>2, <1>6, <2>2, <2>4, RestThen, SameTotals DEF RestTable
    <2>6. CandidatesTime = Candidates * (2 * CallTime(Data))
      BY <1>1, Totals
    <2> DEFINE t == 2 * CallTime(Data)
               q == (left' - 1) * t
    <2>7. t \in Nat /\ q \in Nat /\ q + t <= Candidates * t
      <3>1. t \in Nat
        BY Facts
      <3>2. left' \in Nat /\ left' > 0 /\ left' <= Candidates /\ Candidates \in Nat
        BY <1>6, <2>1, CycleTimeAssumption
      <3> HIDE DEF t
      <3>3. q \in Nat /\ left' * t = q + t
        <4>1. \A n \in Nat : n > 0 => n * t = (n - 1) * t + t /\ (n - 1) * t \in Nat
          BY <3>1, Fewer
        <4> QED BY <3>2, <4>1
      <3>4. left' * t <= Candidates * t
        BY <3>1, <3>2, NoMore
      <3> QED BY <3>1, <3>3, <3>4
    <2>8. Rest' \in Int /\ Rest' <= r
      <3>1. Rest' = t + q + Analysis /\ CandidatesTime = Candidates * t
        BY <2>5, <2>6, Facts
      <3>2. CandidatesTime \in Nat /\ Analysis \in Nat
        BY Facts
      <3> HIDE DEF t, q
      <3> QED BY <2>7, <3>1, <3>2
    <2> HIDE DEF r
    <2> QED BY <1>2, <1>3, <2>2, <2>3, <2>8, KeptByCall
  <1> HIDE DEF r
  <1>7. CASE \E n \in 0..sells : SendOrders(n)
    <2>1. PICK n \in 0..sells : SendOrders(n)
      BY <1>7
    <2>2. n \in Nat /\ n <= MaxOrders
      BY <2>1, Facts
    <2> QED BY <1>2, <1>3, <1>4, <2>1, <2>2, SendingInv
  <1>8. CASE End
    BY <1>2, <1>3, <1>4, <1>8, EndInv
  <1> QED BY <1>5, <1>6, <1>7, <1>8, CycleTimeAssumption DEF ReadAccount

LEMMA CancelAllOpenInv == ASSUME IInv, CancelAllOpen PROVE IInv'
  <1>1. TypeOK /\ Loops /\ RestTable
    BY Facts
  <1>2. /\ at = "cancel" /\ CallOver /\ now' \in Nat /\ now' <= now + Call
        /\ UNCHANGED <<rounds, start, open, missing, good, priced, sells>> /\ End
    BY <1>1, CallEnds DEF CancelAllOpen
  <1>3. Rest = Call + 0
    BY <1>1, <1>2, Facts DEF RestTable
  <1>4. open' \in BOOLEAN
    BY <1>1, <1>2 DEF TypeOK
  <1> QED BY <1>2, <1>3, <1>4, EndInv

LEMMA PriceCandidateInv == ASSUME IInv, PriceCandidate PROVE IInv'
  <1>1. TypeOK /\ Loops /\ RestTable
    BY Facts
  <1>2. /\ at = "price" /\ CallOver /\ now' \in Nat /\ now' <= now + Call
        /\ at' = "bars" /\ good' \in BOOLEAN
        /\ UNCHANGED <<left, rounds, start, open, missing, priced, sells>>
    BY <1>1, CallEnds DEF PriceCandidate
  <1> DEFINE r == CallTime(Data) + (left - 1) * (2 * CallTime(Data)) + Analysis
  <1>3. r \in Int /\ Rest = Call + r
    <2>1. (left - 1) * (2 * CallTime(Data)) \in Int
      BY Facts
    <2> QED BY <1>1, <1>2, <2>1, Facts DEF RestTable
  <1>4. TypeOK'
    <2>1. /\ open' \in BOOLEAN /\ missing' \in BOOLEAN /\ priced' \in BOOLEAN
          /\ rounds' \in 0..PollRounds /\ left' \in Nat
      BY <1>1, <1>2 DEF TypeOK
    <2> QED BY <1>1, <1>2, <2>1, Typed DEF Stages
  <1>5. Loops'
    BY <1>1, <1>2 DEF Loops, start
  <1>6. Call' = CallTime(Data)
    BY <1>2, NewCall DEF Stages
  <1>7. Rest' = CallTime(Data) + (left - 1) * (2 * CallTime(Data)) + Analysis
    BY <1>2, <1>4, <1>6, RestThen, SameTotals DEF RestTable
  <1>8. Rest' \in Int /\ Rest' <= r
    BY <1>3, <1>7
  <1> HIDE DEF r
  <1> QED BY <1>2, <1>3, <1>4, <1>5, <1>8, KeptByCall

LEMMA BarsOfCandidateInv == ASSUME IInv, BarsOfCandidate PROVE IInv'
  <1>1. TypeOK /\ Loops /\ RestTable
    BY Facts
  <1>2. /\ at = "bars" /\ CallOver /\ now' \in Nat /\ now' <= now + Call
        /\ UNCHANGED <<rounds, start, open, missing, good, sells>>
    BY <1>1, CallEnds DEF BarsOfCandidate
  <1>3. left > 0 /\ held < MaxPositions
    BY <1>1, <1>2, CycleTimeAssumption DEF Loops
  <1> DEFINE r == (left - 1) * (2 * CallTime(Data)) + Analysis
  <1>4. r \in Int /\ Rest = Call + r /\ OrdersTime <= r
    <2>1. (left - 1) * (2 * CallTime(Data)) \in Int /\ (left - 1) * (2 * CallTime(Data)) >= 0
      BY <1>3, Facts
    <2> QED BY <1>1, <1>2, <2>1, Facts DEF RestTable
  <1>5. /\ open' \in BOOLEAN /\ missing' \in BOOLEAN /\ good' \in BOOLEAN /\ priced' \in BOOLEAN
        /\ rounds' \in 0..PollRounds
    BY <1>1, <1>2 DEF BarsOfCandidate, TypeOK
  <1>6. CASE left > 1 /\ at' = "price" /\ left' = left - 1
    <2>1. left' \in Nat /\ left' \in 1..Candidates
      BY <1>1, <1>2, <1>6, CycleTimeAssumption DEF Loops
    <2>2. TypeOK'
      BY <1>1, <1>2, <1>5, <1>6, <2>1, Typed DEF Stages
    <2>3. Loops'
      BY <1>2, <1>3, <1>6, <2>1 DEF Loops, start
    <2>4. Call' = CallTime(Data)
      BY <1>2, <1>6, NewCall DEF Stages
    <2>5. Rest' = CallTime(Data) + CallTime(Data) + (left - 1 - 1) * (2 * CallTime(Data)) + Analysis
      BY <1>2, <1>6, <2>2, <2>4, RestThen, SameTotals DEF RestTable
    <2>6. Rest' \in Int /\ Rest' <= r
      BY <2>5, Facts
    <2> HIDE DEF r
    <2> QED BY <1>2, <1>4, <2>2, <2>3, <2>6, KeptByCall
  <1>7. CASE at' = "llm" /\ left' = left
    <2>1. TypeOK'
      BY <1>1, <1>2, <1>5, <1>7, Facts, Typed DEF Stages
    <2>2. Loops'
      BY <1>2, <1>3, <1>7 DEF Loops, start
    <2>3. Call' = CallTime(Llm)
      BY <1>2, <1>7, NewCall DEF Stages
    <2>4. Rest' = CallTime(Llm) + OrdersTime
      BY <1>2, <1>7, <2>1, <2>3, RestThen, SameTotals DEF RestTable
    <2>5. Rest' \in Int /\ Rest' <= r
      <3>1. (left - 1) * (2 * CallTime(Data)) \in Nat
        <4>1. left \in Nat /\ 2 * CallTime(Data) \in Nat
          BY Facts
        <4> QED BY <1>3, <4>1, Fewer
      <3> QED BY <2>4, <3>1, Facts
    <2> HIDE DEF r
    <2> QED BY <1>2, <1>4, <2>1, <2>2, <2>5, KeptByCall
  <1> HIDE DEF r
  <1>8. CASE \E n \in 0..sells : SendOrders(n)
    <2>1. PICK n \in 0..sells : SendOrders(n)
      BY <1>8
    <2>2. n \in Nat /\ n <= MaxOrders
      BY <2>1, Facts
    <2> QED BY <1>2, <1>4, <1>5, <2>1, <2>2, SendingInv
  <1> QED BY <1>6, <1>7, <1>8 DEF BarsOfCandidate

LEMMA AskLlmInv == ASSUME IInv, AskLlm PROVE IInv'
  <1>1. TypeOK /\ Loops /\ RestTable
    BY Facts
  <1>2. /\ at = "llm" /\ CallOver /\ now' \in Nat /\ now' <= now + Call
        /\ UNCHANGED <<rounds, start, open, missing, good, priced, sells>>
    BY <1>1, CallEnds DEF AskLlm
  <1>3. Rest = Call + OrdersTime /\ OrdersTime \in Int /\ OrdersTime <= OrdersTime
    BY <1>1, <1>2, Facts DEF RestTable
  <1>4. priced' \in BOOLEAN
    BY <1>1, <1>2 DEF TypeOK
  <1>5. PICK n : SendOrders(n) /\ (n \in 0..(sells + MaxPositions - held) \/ n \in 0..sells)
    BY DEF AskLlm
  <1>6. n \in Nat /\ n <= MaxOrders
    <2>1. sells <= held /\ held \in Nat /\ sells \in Nat /\ MaxPositions \in Nat
      BY <1>1, Facts, CycleTimeAssumption DEF TypeOK
    <2>2. CASE n \in 0..(sells + MaxPositions - held)
      <3>1. sells + MaxPositions - held <= MaxPositions /\ sells + MaxPositions - held \in Int
        BY <2>1
      <3>2. n \in Nat /\ n <= MaxPositions
        BY <2>1, <2>2, <3>1
      <3> QED BY <2>1, <3>2, Facts
    <2>3. CASE n \in 0..sells
      BY <2>1, <2>3, Facts
    <2> QED BY <1>5, <2>2, <2>3
  <1> QED BY <1>2, <1>3, <1>4, <1>5, <1>6, SendingInv

\* The end of an order leaves the others.
LEMMA NextOrderInv ==
  ASSUME IInv, at \in {"submit", "poll"}, NextOrder, CallOver, now' \in Nat,
         now' <= now + Call, rounds' \in 0..PollRounds,
         UNCHANGED <<start, open, missing, good, priced, sells>>,
         NEW r \in Int, Rest = Call + r, (left - 1) * OrderTime <= r
  PROVE  IInv'
  <1>1. TypeOK /\ Loops
    BY Facts
  <1>2. left \in 1..MaxOrders /\ left \in Nat /\ MaxOrders \in Nat /\ OrderTime \in Nat
    BY <1>1, Facts DEF Loops
  <1>3. /\ open' \in BOOLEAN /\ missing' \in BOOLEAN /\ good' \in BOOLEAN /\ priced' \in BOOLEAN
    BY <1>1 DEF TypeOK
  <1>4. (left - 1) * OrderTime \in Nat
    <2>1. left - 1 \in Nat
      BY <1>2
    <2> QED BY <1>2, <2>1, Product
  <1>5. CASE at' = "submit" /\ left' = left - 1 /\ left > 1
    <2>1. left' \in Nat /\ left' \in 1..MaxOrders
      BY <1>2, <1>5
    <2>2. TypeOK'
      BY <1>1, <1>3, <1>5, <2>1, Typed DEF Stages
    <2>3. Loops'
      BY <1>5, <2>1, SameTotals DEF Loops
    <2>4. Rest' = (left - 1) * OrderTime
      <3>1. left - 1 \in Nat /\ left - 1 > 0
        BY <1>2, <1>5
      <3> QED BY <1>1, <1>5, <2>2, <3>1, RestThen, OrdersLeft
    <2>5. Rest' \in Int /\ Rest' <= r
      BY <1>4, <2>4
    <2> QED BY <2>2, <2>3, <2>5, KeptByCall
  <1>6. CASE End
    <2>1. at' = "done" /\ left' \in Nat
      BY <1>2, <1>6 DEF End
    <2>2. TypeOK'
      BY <1>1, <1>3, <2>1, Typed DEF Stages
    <2>3. Loops'
      BY <2>1 DEF Loops
    <2>4. Rest' = 0
      BY <2>1, <2>2, RestThen DEF RestTable
    <2>5. Rest' \in Int /\ Rest' <= r
      BY <1>4, <2>4
    <2> QED BY <2>2, <2>3, <2>5, KeptByCall
  <1> QED BY <1>5, <1>6 DEF NextOrder

LEMMA SubmitInv == ASSUME IInv, Submit PROVE IInv'
  <1>1. TypeOK /\ Loops /\ RestTable
    BY Facts
  <1>2. /\ at = "submit" /\ CallOver /\ now' \in Nat /\ now' <= now + Call /\ rounds' = 0
        /\ UNCHANGED <<start, open, missing, good, priced, sells>>
    BY <1>1, CallEnds DEF Submit
  <1>3. left \in 1..MaxOrders
    BY <1>1, <1>2 DEF Loops
  <1>4. /\ PollRounds * RoundTime \in Nat /\ OrderTime \in Nat /\ MaxOrders \in Nat
        /\ CallTime(Get) \in Nat /\ Call \in Nat
    BY <1>1, Totals, Facts
  <1>5. left - 1 \in Nat /\ left \in Nat /\ left > 0
    BY <1>3, <1>4
  <1>6. (left - 1) * OrderTime \in Nat
    BY <1>4, <1>5, Product
  <1> DEFINE p == PollRounds * RoundTime
             q == (left - 1) * OrderTime
             r == CallTime(Get) + p + q
  <1>7. Rest = Call + CallTime(Get) + p + q
    BY <1>1, <1>2 DEF RestTable
  <1>8. p \in Nat /\ q \in Nat
    BY <1>4, <1>6
  <1> HIDE DEF p, q
  <1>9. r \in Int /\ q <= r
    BY <1>4, <1>8
  <1>10. Rest = Call + r
    BY <1>4, <1>7, <1>8
  <1>11. rounds' \in 0..PollRounds
    BY <1>2, CycleTimeAssumption
  <1>12. CASE at' = "poll" /\ left' = left
    <2>1. TypeOK'
      <3>1. /\ open' \in BOOLEAN /\ missing' \in BOOLEAN /\ good' \in BOOLEAN
            /\ priced' \in BOOLEAN
        BY <1>1, <1>2 DEF TypeOK
      <3> QED BY <1>1, <1>2, <1>5, <1>11, <1>12, <3>1, Typed DEF Stages
    <2>2. Loops'
      BY <1>2, <1>3, <1>12, SameTotals DEF Loops
    <2>3. Call' = CallTime(Get)
      BY <1>2, <1>12, NewCall DEF Stages
    <2>4. Rest' = CallTime(Get) + (PollRounds - 0) * RoundTime + q
      BY <1>2, <1>12, <2>1, <2>3, RestThen, SameTotals DEF RestTable, q
    <2>5. Rest' = CallTime(Get) + p + q
      BY <1>4, <2>4, CycleTimeAssumption DEF p
    <2>6. Rest' \in Int /\ Rest' <= r
      BY <1>9, <2>5
    <2> HIDE DEF r
    <2> QED BY <1>2, <1>9, <1>10, <2>1, <2>2, <2>6, KeptByCall
  <1> HIDE DEF r
  <1>13. CASE NextOrder
    <2>1. (left - 1) * OrderTime <= r
      BY <1>9 DEF q
    <2> QED BY <1>2, <1>9, <1>10, <1>11, <1>13, <2>1, NextOrderInv
  <1> QED BY <1>12, <1>13 DEF Submit

LEMMA EndPollInv == ASSUME IInv, EndPoll PROVE IInv'
  <1>1. TypeOK /\ Loops /\ RestTable
    BY Facts
  <1>2. /\ at = "poll" /\ CallOver /\ now' \in Nat /\ now' <= now + Call /\ NextOrder
        /\ UNCHANGED <<rounds, start, open, missing, good, priced, sells>>
    BY <1>1, CallEnds DEF EndPoll
  <1>3. left \in 1..MaxOrders /\ rounds \in 0..PollRounds
    BY <1>1, <1>2 DEF Loops, TypeOK
  <1> DEFINE p == (PollRounds - rounds) * RoundTime
             q == (left - 1) * OrderTime
             r == p + q
  <1>4. p \in Nat /\ q \in Nat
    <2>1. PollRounds - rounds \in Nat /\ left - 1 \in Nat
      BY <1>3, Facts, CycleTimeAssumption
    <2> QED BY <2>1, Facts, Product
  <1>5. Rest = Call + p + q
    BY <1>1, <1>2 DEF RestTable
  <1> HIDE DEF p, q
  <1>6. Rest = Call + r /\ r \in Int /\ q <= r
    BY <1>4, <1>5, Facts
  <1>7. rounds' \in 0..PollRounds
    BY <1>2, <1>3
  <1> HIDE DEF r
  <1> QED BY <1>2, <1>6, <1>7, NextOrderInv DEF q

LEMMA PollAgainInv == ASSUME IInv, PollAgain PROVE IInv'
  <1>1. TypeOK /\ Loops /\ RestTable
    BY Facts
  <1>2. /\ at = "poll" /\ CallOver /\ rounds' = rounds + 1 /\ rounds < PollRounds
        /\ UNCHANGED <<at, left, start, open, missing, good, priced, sells>>
    BY Facts, CycleTimeAssumption DEF PollAgain, Calling, Expired
  <1>3. PICK d \in WaitTimes : now' = now + d + PollInterval
    BY DEF PollAgain
  <1>4. d \in Nat /\ Call \in Nat /\ d <= Call
    BY <1>1, CallNow
  <1>5. now' \in Nat /\ now' <= now + Call + PollInterval /\ now \in Nat
    BY <1>1, <1>3, <1>4, CycleTimeAssumption DEF TypeOK
  <1>6. left \in 1..MaxOrders /\ rounds \in 0..PollRounds
    BY <1>1, <1>2 DEF Loops, TypeOK
  <1>7. rounds' \in 0..PollRounds
    BY <1>2, <1>6, CycleTimeAssumption
  <1>8. TypeOK'
    <2>1. /\ open' \in BOOLEAN /\ missing' \in BOOLEAN /\ good' \in BOOLEAN
          /\ priced' \in BOOLEAN /\ left' \in Nat /\ at' \in Stages
      BY <1>1, <1>2 DEF TypeOK
    <2> QED BY <1>1, <1>2, <1>5, <1>7, <2>1, Typed
  <1>9. Loops'
    BY <1>2, <1>6, SameTotals DEF Loops
  <1> DEFINE p == (PollRounds - rounds - 1) * RoundTime
             q == (left - 1) * OrderTime
  <1>10. p \in Nat /\ q \in Nat /\ RoundTime \in Nat /\ RoundTime = CallTime(Get) + PollInterval
    <2>1. PollRounds - rounds - 1 \in Nat /\ left - 1 \in Nat
      BY <1>2, <1>6, Facts, CycleTimeAssumption
    <2> QED BY <2>1, Facts, Product DEF RoundTime
  <1>11. Rest = Call + (p + RoundTime) + q
    <2>1. PollRounds - rounds \in Nat /\ PollRounds - rounds > 0
      BY <1>2, <1>6, CycleTimeAssumption
    <2>2. (PollRounds - rounds) * RoundTime = p + RoundTime
      BY <1>10, <2>1, OneLess
    <2> QED BY <1>1, <1>2, <2>2 DEF RestTable
  <1>12. Call' = CallTime(Get)
    BY <1>2, NewCall DEF Stages
  <1>13. Rest' = CallTime(Get) + p + q
    <2>1. Rest' = CallTime(Get) + (PollRounds - (rounds + 1)) * RoundTime + q
      BY <1>2, <1>8, <1>12, RestThen, SameTotals DEF RestTable
    <2>2. PollRounds - (rounds + 1) = PollRounds - rounds - 1
      BY <1>6, CycleTimeAssumption
    <2> QED BY <2>1, <2>2
  <1> HIDE DEF p, q
  <1>14. /\ now \in Int /\ now' \in Int /\ Call \in Int /\ PollInterval \in Int
         /\ p \in Int /\ q \in Int
    BY <1>4, <1>5, <1>10, CycleTimeAssumption
  <1>15. now' + Rest' <= now + Rest
    <2> DEFINE a == now + Call + PollInterval
               b == CallTime(Get) + p + q
    <2>1. a \in Int /\ b \in Int /\ now' \in Int /\ CallTime(Get) \in Int
      BY <1>14, Facts
    <2>2. now + (Call + (p + (CallTime(Get) + PollInterval)) + q) = a + b
      BY <1>14, <2>1
    <2>3. now' <= a
      BY <1>5
    <2> HIDE DEF a, b
    <2>4. \A x, y, z \in Int : x <= y => x + z <= y + z
      OBVIOUS
    <2>5. now' + b <= a + b
      BY <2>1, <2>3, <2>4, Zenon
    <2> QED BY <1>10, <1>11, <1>13, <2>2, <2>5 DEF b
  <1>16. Rest \in Int /\ Rest' \in Int
    BY <1>4, <1>10, <1>11, <1>13
  <1> QED BY <1>2, <1>8, <1>9, <1>15, <1>16, Kept

-------------------------------------------------------------------------------
(* The theorems *)

LEMMA InitInv == Init => IInv
  <1> SUFFICES ASSUME Init PROVE IInv
    OBVIOUS
  <1>1. TypeOK
    <2>1. /\ attempt \in 0..(Policy.attempts - 1) /\ repeats \in 0..Policy.repeats
          /\ waits \in 0..(Waits - 1)
      BY PolicyTypes, CycleTimeAssumption DEF Init
    <2>2. at \in Stages
      BY DEF Init, Stages
    <2>3. held \in 0..MaxHeld /\ held \in Nat /\ left = held /\ sells = 0 /\ rounds = 0 /\ now = 0
      BY CycleTimeAssumption DEF Init
    <2>4. left \in Nat /\ sells \in 0..held /\ rounds \in 0..PollRounds /\ now \in Nat
      BY <2>3, CycleTimeAssumption
    <2> QED BY <2>1, <2>2, <2>3, <2>4 DEF Init, TypeOK
  <1>2. Loops
    <2>1. held \in Nat
      BY CycleTimeAssumption DEF Init
    <2> QED BY <2>1 DEF Init, Loops
  <1>3. RestTable
    BY <1>1, RestAt DEF RestNow
  <1>4. Call = CallTime(Data)
    <2>1. Policy = Data /\ attempt = 0 /\ repeats = 0 /\ waits = 0
      BY DEF Init, Policy
    <2> QED BY <2>1 DEF Call, CallTime
  <1>5. /\ held \in Nat /\ CandidatesTime \in Nat /\ Analysis \in Nat
        /\ WorstCase = held * CallTime(Data) + CallTime(Data) + CallTime(Get)
                         + CandidatesTime + Analysis
        /\ now = 0 /\ left = held
        /\ held * CallTime(Data) \in Nat /\ CallTime(Data) \in Nat /\ CallTime(Get) \in Nat
    BY <1>1, Totals DEF Init
  <1>6. now + Rest <= WorstCase
    <2>1. left > 0 => held * CallTime(Data) = (left - 1) * CallTime(Data) + CallTime(Data)
      BY <1>5, OneLess
    <2>2. CASE at = "clock"
      BY <1>3, <1>4, <1>5, <2>1, <2>2 DEF RestTable
    <2>3. CASE at = "holdings" /\ left = 0
      <3>1. Rest = CallTime(Get) + CandidatesTime + Analysis
        BY <1>3, <2>3 DEF RestTable
      <3> QED BY <1>5, <3>1
    <2>4. CASE at = "holdings" /\ left > 0
      <3>1. Rest = CallTime(Data) + (left - 1) * CallTime(Data) + CallTime(Get) + CandidatesTime
                      + Analysis
        BY <1>3, <1>4, <2>4 DEF RestTable
      <3>2. held * CallTime(Data) = (left - 1) * CallTime(Data) + CallTime(Data)
        BY <2>1, <2>4
      <3>3. (left - 1) * CallTime(Data) \in Nat
        BY <1>5, <2>4, Fewer
      <3> QED BY <1>5, <3>1, <3>2, <3>3
    <2> QED BY <1>5, <2>2, <2>3, <2>4 DEF Init
  <1> QED BY <1>1, <1>2, <1>6 DEF IInv

LEMMA StepInv == IInv /\ [Next]_vars => IInv'
  <1> SUFFICES ASSUME IInv, [Next]_vars PROVE IInv'
    OBVIOUS
  <1>1. CASE UNCHANGED vars
    <2>1. Rest' = Rest /\ WorstCase' = WorstCase /\ Policy' = Policy /\ MaxOrders' = MaxOrders
      BY <1>1 DEF vars, start, Rest, WorstCase, Policy, MaxOrders, CallRest, CallTime,
                  RoundTime, OrderTime, OrdersTime, CandidatesTime, call
    <2> QED BY <1>1, <2>1 DEF vars, start, call, IInv, TypeOK, Loops
  <1>2. CASE Next
    BY <1>2, WaitInv, RepeatInv, RetryInv, ReadClockInv, PriceHoldingInv, HoldingsPricedInv,
       ReadAccountInv, CancelAllOpenInv, PriceCandidateInv, BarsOfCandidateInv, AskLlmInv,
       SubmitInv, EndPollInv, PollAgainInv
    DEF Next
  <1> QED BY <1>1, <1>2

\* The time passed and the time that may still pass never exceed the worst case for
\* requests of at most Waits waits each.
THEOREM TimeInvariant == Spec => []IInv
  <1> QED BY InitInv, StepInv, PTL DEF Spec

\* No call is attempted and no order polled more often than its policy allows.
THEOREM AttemptsAreBounded == Spec => []TypeOK
  <1>1. IInv => TypeOK
    BY DEF IInv
  <1> QED BY <1>1, TimeInvariant, PTL

\* N-4: the timeouts of the waits, the bounded retries and alpaca-py's repeats bound a
\* cycle for every number of waits that a request may take, whichever requests fail.
THEOREM CycleTimeIsBounded == Spec => []WithinWorstCase
  <1>1. IInv => WithinWorstCase
    <2> SUFFICES ASSUME IInv PROVE WithinWorstCase
      OBVIOUS
    <2>1. TypeOK /\ Loops /\ RestTable /\ now + Rest <= WorstCase
          /\ now \in Nat /\ WorstCase \in Nat
      BY Facts, Totals DEF IInv, TypeOK
    <2>2. Rest \in Nat
      <3>1. /\ OrderTime \in Nat /\ OrdersTime \in Nat /\ CandidatesTime \in Nat /\ Analysis \in Nat
            /\ Call \in Nat /\ held * CallTime(Data) \in Nat /\ left \in Nat /\ RoundTime \in Nat
            /\ CallTime(Data) \in Nat /\ CallTime(Get) \in Nat /\ 2 * CallTime(Data) \in Nat
        BY Facts
      <3>2. left > 0 => /\ (left - 1) * CallTime(Data) \in Nat
                       /\ (left - 1) * (2 * CallTime(Data)) \in Nat
                       /\ (left - 1) * OrderTime \in Nat
        BY <3>1, Fewer
      <3>3. CASE at \in {"clock", "holdings", "account", "cancel", "llm", "done"}
        <4>1. at = "holdings" => left = 0 \/ left > 0
          BY <3>1
        <4> QED BY <2>1, <3>1, <3>2, <3>3, <4>1 DEF RestTable
      <3>4. CASE at \in {"price", "bars", "submit"}
        <4>1. left > 0
          BY <2>1, <3>4, CycleTimeAssumption, Facts DEF Loops
        <4>2. PollRounds * RoundTime \in Nat
          BY <2>1, Totals
        <4> QED BY <2>1, <3>1, <3>2, <3>4, <4>1, <4>2 DEF RestTable
      <3>5. CASE at = "poll"
        <4>1. left - 1 \in Nat /\ PollRounds - rounds \in Nat
          BY <2>1, <3>1, <3>5, Facts, CycleTimeAssumption DEF Loops, TypeOK
        <4>2. (PollRounds - rounds) * RoundTime \in Nat /\ (left - 1) * OrderTime \in Nat
          BY <3>1, <4>1, Product
        <4> QED BY <2>1, <3>1, <3>5, <4>2 DEF RestTable
      <3> QED BY <2>1, <3>3, <3>4, <3>5 DEF TypeOK, Stages
    <2>3. \A n, r, w \in Nat : n + r <= w => n <= w
      OBVIOUS
    <2> QED BY <2>1, <2>2, <2>3 DEF WithinWorstCase
  <1> QED BY <1>1, TimeInvariant, PTL

================================================================================
