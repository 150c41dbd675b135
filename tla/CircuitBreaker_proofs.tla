-------------------------- MODULE CircuitBreaker_proofs -------------------------
(***************************************************************************)
(* Proofs of the safety properties of CircuitBreaker, for any number of    *)
(* calls, any thresholds and any statistics window.  What a trip of the    *)
(* breaker depends on (Trips) is never expanded: the properties hold for   *)
(* whatever failures trip it.  They do rest on Timeout < ResetTimeout.     *)
(***************************************************************************)
EXTENDS CircuitBreaker, TLAPS

\* Only a half-open breaker expects a probe.
ProbeExpected == pendingClose => circuitBreakerState = "HALF_OPEN"

\* A call that is under way while the breaker is open was fired before it
\* opened, and has used up all the time that has passed since.
OlderThanOpening ==
    circuitBreakerState = "OPEN" =>
        \A c \in Calls :
            Waiting(c) => calls[c].left + (ResetTimeout - resetTimer) <= Timeout

IInv ==
    /\ TypeOK
    /\ ProbeExpected
    /\ OlderThanOpening
    /\ ProbeIsAlone

-------------------------------------------------------------------------------
(* Type correctness                                                        *)

LEMMA WindowTypes ==
    ASSUME TypeOK
    PROVE  /\ [window EXCEPT ![1].fires = @ + 1] \in [1..Buckets -> Bucket]
           /\ AfterFailure \in [1..Buckets -> Bucket]
           /\ [i \in 1..Buckets |-> IF i = 1 THEN Empty ELSE window[i - 1]]
                  \in [1..Buckets -> Bucket]
           /\ [i \in 1..Buckets |-> Empty] \in [1..Buckets -> Bucket]
<1>0. Buckets \in Nat \ {0} /\ window \in [1..Buckets -> Bucket]
  BY BreakerAssumption DEF TypeOK
<1>e. Empty \in Bucket
  BY DEF Empty, Bucket
<1>b. \A i \in 1..Buckets : window[i].fires \in Nat /\ window[i].failures \in Nat
  BY <1>0 DEF Bucket
<1>1. [window EXCEPT ![1].fires = @ + 1] \in [1..Buckets -> Bucket]
  BY <1>0, <1>b DEF Bucket
<1>2. AfterFailure \in [1..Buckets -> Bucket]
  BY <1>0, <1>b DEF Bucket, AfterFailure
<1>3. [i \in 1..Buckets |-> IF i = 1 THEN Empty ELSE window[i - 1]]
          \in [1..Buckets -> Bucket]
  BY <1>0, <1>e
<1>4. QED
  BY <1>e, <1>1, <1>2, <1>3

LEMMA IdleIsCall == Idle \in Call
BY BreakerAssumption DEF Idle, Call

\* The breaker's events set a state, a timer and a flag.
LEMMA EventTypes ==
    ASSUME TypeOK, Opens \/ Closes \/ Stays
    PROVE  /\ circuitBreakerState' \in States
           /\ pendingClose' \in BOOLEAN
           /\ resetTimer' \in 0..ResetTimeout
<1>1. CASE Opens
  <2>1. circuitBreakerState' \in States /\ resetTimer' \in 0..ResetTimeout
    BY <1>1, BreakerAssumption DEF Opens, States
  <2>2. pendingClose' \in BOOLEAN
    BY <1>1 DEF Opens
  <2>3. QED
    BY <2>1, <2>2
<1>2. CASE Closes
  <2>1. circuitBreakerState' \in States /\ resetTimer' \in 0..ResetTimeout
    BY <1>2, BreakerAssumption DEF Closes, States
  <2>2. pendingClose' \in BOOLEAN
    BY <1>2 DEF Closes
  <2>3. QED
    BY <2>1, <2>2
<1>3. CASE Stays
  BY <1>3 DEF Stays, TypeOK
<1>4. QED
  BY <1>1, <1>2, <1>3

LEMMA InitTypeOK == Init => TypeOK
<1> SUFFICES ASSUME Init PROVE TypeOK
  OBVIOUS
<1>1. window \in [1..Buckets -> Bucket]
  BY DEF Init, Bucket, Empty
<1>2. calls \in [Calls -> Call]
  BY IdleIsCall DEF Init
<1>3. circuitBreakerState \in States /\ resetTimer \in 0..ResetTimeout
  BY BreakerAssumption DEF Init, States
<1>4. pendingClose \in BOOLEAN /\ healthy \in BOOLEAN
  BY DEF Init
<1>5. QED
  BY <1>1, <1>2, <1>3, <1>4 DEF TypeOK

\* A call that returns leaves the others as they are.
LEMMA ReturnTypes ==
    ASSUME TypeOK, NEW c \in Calls, Return(c)
    PROVE  /\ calls' \in [Calls -> Call]
           /\ ~Waiting(c)'
           /\ \A d \in Calls : d # c => calls'[d] = calls[d]
BY IdleIsCall DEF TypeOK, Return, Waiting, Idle

\* A tick takes one from the time every waiting call has left.
LEMMA ElapsedTypes ==
    ASSUME TypeOK, ~Due, Elapsed
    PROVE  /\ calls' \in [Calls -> Call]
           /\ resetTimer' \in 0..ResetTimeout
           /\ \A c \in Calls : /\ Waiting(c)' <=> Waiting(c)
                               /\ Waiting(c) => calls'[c].left = calls[c].left - 1
<1>1. \A c \in Calls : calls[c] \in Call
  BY DEF TypeOK
<1>2. ASSUME NEW c \in Calls
      PROVE  /\ calls'[c] \in Call
             /\ Waiting(c)' <=> Waiting(c)
             /\ Waiting(c) => calls'[c].left = calls[c].left - 1
  <2>1. CASE Waiting(c)
    <3>1. calls[c].left # 0
      BY <2>1 DEF Due
    <3>2. calls'[c] = [calls[c] EXCEPT !.left = @ - 1]
      BY <2>1 DEF Elapsed
    <3>3. QED
      BY <1>1, <2>1, <3>1, <3>2, BreakerAssumption DEF Call, Waiting
  <2>2. CASE ~Waiting(c)
    BY <1>1, <2>2 DEF Elapsed, Waiting
  <2>3. QED
    BY <2>1, <2>2
<1>3. calls' \in [Calls -> Call]
  <2>1. calls' = [c \in Calls |-> calls'[c]]
    BY DEF Elapsed
  <2>2. QED
    BY <1>2, <2>1
<1>4. resetTimer' \in 0..ResetTimeout
  BY BreakerAssumption DEF TypeOK, Elapsed, Due
<1>5. QED
  BY <1>2, <1>3, <1>4
-------------------------------------------------------------------------------
(* The inductive invariant                                                 *)

LEMMA InitIInv == Init => IInv
<1>1. Init => ProbeExpected /\ OlderThanOpening /\ ProbeIsAlone
  BY DEF Init, ProbeExpected, OlderThanOpening, ProbeIsAlone
<1>2. QED
  BY <1>1, InitTypeOK DEF IInv

\* Firing the breaker: a half-open one had no call under way.
LEMMA GetBalanceKeeps ==
    ASSUME IInv, NEW c \in Calls, GetBalance(c)
    PROVE  IInv'
<1>1. TypeOK /\ window' \in [1..Buckets -> Bucket]
  BY WindowTypes DEF IInv, GetBalance, CountFire
<1>2. [waiting |-> TRUE, left |-> Timeout] \in Call
  BY BreakerAssumption DEF Call
<1>3. TypeOK'
  BY <1>1, <1>2 DEF TypeOK, GetBalance
<1>4. /\ Waiting(c)'
      /\ \A d \in Calls : d # c => (Waiting(d)' <=> Waiting(d))
  BY <1>1 DEF TypeOK, GetBalance, Waiting
<1>5. circuitBreakerState # "OPEN"
  BY DEF IInv, ProbeExpected, GetBalance, Admits
<1>6. ProbeExpected' /\ OlderThanOpening'
  BY <1>5 DEF GetBalance, ProbeExpected, OlderThanOpening
<1>7. ProbeIsAlone'
  BY <1>4 DEF IInv, ProbeIsAlone, GetBalance, Admits
<1>8. QED
  BY <1>3, <1>6, <1>7 DEF IInv

\* A call that succeeds leaves a closed breaker closed, an open one open, and
\* closes a half-open one.
LEMMA SucceedsKeeps ==
    ASSUME IInv, NEW c \in Calls, Succeeds(c)
    PROVE  IInv'
<1>1. /\ calls' \in [Calls -> Call]
      /\ ~Waiting(c)'
      /\ \A d \in Calls : d # c => calls'[d] = calls[d]
  BY ReturnTypes DEF IInv, Succeeds
<1>2. TypeOK'
  <2>1. window' \in [1..Buckets -> Bucket] /\ healthy' \in BOOLEAN
    BY DEF IInv, TypeOK, Succeeds
  <2>2. Closes \/ Stays
    BY DEF Succeeds
  <2>3. QED
    BY <1>1, <2>1, <2>2, EventTypes DEF IInv, TypeOK
<1>3. ProbeExpected'
  BY DEF IInv, ProbeExpected, Succeeds, Closes, Stays
<1>4. OlderThanOpening'
  BY <1>1 DEF IInv, OlderThanOpening, Waiting, Succeeds, Closes, Stays
<1>5. ProbeIsAlone'
  BY DEF ProbeIsAlone, Succeeds, Closes, Stays
<1>6. QED
  BY <1>2, <1>3, <1>4, <1>5 DEF IInv

\* A call that fails opens the breaker or leaves its state alone; when it
\* opens a closed one, every other call has at most Timeout left.
LEMMA FailsKeeps ==
    ASSUME IInv, NEW c \in Calls, Fails(c)
    PROVE  IInv'
<1>1. /\ calls' \in [Calls -> Call]
      /\ ~Waiting(c)'
      /\ \A d \in Calls : d # c => calls'[d] = calls[d]
  BY ReturnTypes DEF IInv, Fails
<1>2. window' \in [1..Buckets -> Bucket]
  BY WindowTypes DEF IInv, Fails
<1>3. /\ Opens \/ Stays
      /\ circuitBreakerState = "HALF_OPEN" => Opens
      /\ circuitBreakerState = "OPEN" => Stays
  BY DEF Fails
<1>4. TypeOK'
  <2>1. healthy' \in BOOLEAN
    BY DEF IInv, TypeOK, Fails
  <2>2. QED
    BY <1>1, <1>2, <1>3, <2>1, EventTypes DEF IInv, TypeOK
<1>5. ProbeExpected'
  BY <1>3 DEF IInv, ProbeExpected, Opens, Stays
<1>6. \A d \in Calls : calls'[d].left \in 0..Timeout
  BY <1>1 DEF Call
<1>7. OlderThanOpening'
  <2>1. CASE Opens
    BY <2>1, <1>6, BreakerAssumption DEF Opens, OlderThanOpening
  <2>2. CASE Stays
    BY <2>2, <1>1 DEF IInv, Stays, OlderThanOpening, Waiting
  <2>3. QED
    BY <1>3, <2>1, <2>2
<1>8. ProbeIsAlone'
  BY <1>3 DEF ProbeIsAlone, Opens, Stays
<1>9. QED
  BY <1>4, <1>5, <1>7, <1>8 DEF IInv

\* When the reset timer is due, every call from before the opening has
\* timed out: it would have less than nothing left.
LEMMA HalfOpensKeeps ==
    ASSUME IInv, HalfOpens
    PROVE  IInv'
<1>1. TypeOK'
  BY DEF IInv, TypeOK, States, HalfOpens
<1>2. ASSUME NEW c \in Calls, Waiting(c)
      PROVE  FALSE
  <2>1. calls[c].left \in 0..Timeout
    BY DEF IInv, TypeOK, Call
  <2>2. calls[c].left + (ResetTimeout - 0) <= Timeout
    BY <1>2 DEF IInv, OlderThanOpening, HalfOpens
  <2>3. QED
    BY <2>1, <2>2, BreakerAssumption, ProbeAssumption
<1>3. ProbeIsAlone'
  BY <1>2 DEF HalfOpens, ProbeIsAlone, Waiting
<1>4. ProbeExpected' /\ OlderThanOpening'
  BY DEF HalfOpens, ProbeExpected, OlderThanOpening
<1>5. QED
  BY <1>1, <1>3, <1>4 DEF IInv

\* The reset timer and the calls lose the same time.
LEMMA TickKeeps ==
    ASSUME IInv, Tick
    PROVE  IInv'
<1>1. /\ calls' \in [Calls -> Call]
      /\ resetTimer' \in 0..ResetTimeout
      /\ \A c \in Calls : /\ Waiting(c)' <=> Waiting(c)
                          /\ Waiting(c) => calls'[c].left = calls[c].left - 1
  BY ElapsedTypes DEF IInv, Tick
<1>2. window' \in [1..Buckets -> Bucket]
  BY WindowTypes DEF IInv, Tick
<1>3. TypeOK'
  BY <1>1, <1>2 DEF IInv, TypeOK, Tick
<1>4. OlderThanOpening'
  <2> SUFFICES ASSUME circuitBreakerState = "OPEN", NEW c \in Calls, Waiting(c)
               PROVE  calls'[c].left + (ResetTimeout - resetTimer') <= Timeout
    BY <1>1 DEF OlderThanOpening, Tick
  <2>1. calls[c].left + (ResetTimeout - resetTimer) <= Timeout
    BY DEF IInv, OlderThanOpening
  <2>2. resetTimer' = resetTimer - 1 /\ resetTimer \in Int
    BY DEF Tick, Elapsed, IInv, TypeOK
  <2>3. calls'[c].left = calls[c].left - 1 /\ calls[c].left \in Int
    BY <1>1 DEF IInv, TypeOK, Call
  <2>4. QED
    BY <2>1, <2>2, <2>3, BreakerAssumption
<1>5. ProbeExpected' /\ ProbeIsAlone'
  BY <1>1 DEF IInv, ProbeExpected, ProbeIsAlone, Tick
<1>6. QED
  BY <1>3, <1>4, <1>5 DEF IInv

LEMMA RestartKeeps ==
    ASSUME IInv, Restart
    PROVE  IInv'
<1>1. window' \in [1..Buckets -> Bucket]
  BY WindowTypes DEF IInv, Restart
<1>2. TypeOK'
  <2>1. calls' \in [Calls -> Call]
    BY IdleIsCall DEF Restart
  <2>2. healthy' \in BOOLEAN
    BY DEF IInv, TypeOK, Restart
  <2>3. QED
    BY <1>1, <2>1, <2>2, EventTypes DEF IInv, TypeOK, Restart
<1>3. ProbeExpected' /\ OlderThanOpening' /\ ProbeIsAlone'
  BY DEF Restart, Closes, ProbeExpected, OlderThanOpening, ProbeIsAlone
<1>4. QED
  BY <1>2, <1>3 DEF IInv

\* Rejected calls and HCM itself change nothing the invariant speaks of.
LEMMA OthersKeep ==
    ASSUME IInv, ShortCircuit \/ HcmTurns \/ UNCHANGED vars
    PROVE  IInv'
<1>1. /\ UNCHANGED <<circuitBreakerState, pendingClose, resetTimer, calls>>
      /\ healthy' \in BOOLEAN
      /\ window' \in [1..Buckets -> Bucket]
  BY WindowTypes DEF IInv, TypeOK, ShortCircuit, CountFire, HcmTurns, vars
<1>2. QED
  BY <1>1 DEF IInv, TypeOK, ProbeExpected, OlderThanOpening, ProbeIsAlone, Waiting

LEMMA NextIInv == IInv /\ [Next]_vars => IInv'
<1> SUFFICES ASSUME IInv, [Next]_vars PROVE IInv'
  OBVIOUS
<1>1. CASE \E c \in Calls : CallStep(c)
  BY <1>1, GetBalanceKeeps, SucceedsKeeps, FailsKeeps DEF CallStep, IsRefused, TimesOut
<1>2. CASE HalfOpens
  BY <1>2, HalfOpensKeeps
<1>3. CASE Tick
  BY <1>3, TickKeeps
<1>4. CASE Restart
  BY <1>4, RestartKeeps
<1>5. QED
  BY <1>1, <1>2, <1>3, <1>4, OthersKeep DEF Next

LEMMA AlwaysIInv == Spec => []IInv
BY InitIInv, NextIInv, PTL DEF Spec

-------------------------------------------------------------------------------
(* Theorems                                                                *)

\* The mirrored state, the timers and the statistics are well typed; no timer
\* is left behind by time.
THEOREM TypeCorrect == Spec => []TypeOK
<1>1. IInv => TypeOK
  BY DEF IInv
<1>2. QED
  BY <1>1, AlwaysIInv, PTL

\* A half-open breaker judges HCM by one call that was fired after it
\* half-opened, because the timeout is shorter than the reset timeout.
THEOREM ProbesAlone == Spec => []ProbeIsAlone
<1>1. IInv => ProbeIsAlone
  BY DEF IInv
<1>2. QED
  BY <1>1, AlwaysIInv, PTL

\* Late answers, late failures and rejected calls keep an open breaker open.
THEOREM StaysOpen == Spec => OpenUntilReset
<1>1. ASSUME IInv, [Next]_vars
      PROVE  [circuitBreakerState = "OPEN" =>
                \/ circuitBreakerState' = "OPEN"
                \/ resetTimer = 0 /\ circuitBreakerState' = "HALF_OPEN"
                \/ Restart]_vars
  <2> SUFFICES ASSUME Next, circuitBreakerState = "OPEN", ~Restart
               PROVE  \/ circuitBreakerState' = "OPEN"
                      \/ resetTimer = 0 /\ circuitBreakerState' = "HALF_OPEN"
    BY <1>1
  <2>1. CASE \E c \in Calls : CallStep(c)
    BY <2>1 DEF CallStep, GetBalance, Succeeds, IsRefused, TimesOut, Fails, Opens, Stays
  <2>2. CASE ShortCircuit \/ HalfOpens \/ Tick \/ HcmTurns
    BY <2>2 DEF ShortCircuit, HalfOpens, Tick, HcmTurns
  <2>3. QED
    BY <2>1, <2>2 DEF Next
<1>2. QED
  BY <1>1, AlwaysIInv, PTL DEF Spec, OpenUntilReset
===============================================================================
