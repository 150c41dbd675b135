----------------------------- MODULE CircuitBreaker ----------------------------
(***************************************************************************)
(* The circuit breaker of HcmClientService around its GET of balances, for *)
(* any number of overlapping calls.  The breaker is the opossum library,   *)
(* modelled from how the service configures and listens to it; the state   *)
(* it is in is the one the service mirrors in circuitBreakerState, since   *)
(* its events are emitted synchronously.                                   *)
(*                                                                         *)
(* Time is discrete: a tick is one bucket of the breaker's rolling         *)
(* statistics (a second), and a timer that is due fires before the next    *)
(* tick.  The axios timeout equals the breaker's and is not modelled       *)
(* apart.  Posts of the outbox worker do not pass through the breaker.     *)
(***************************************************************************)
EXTENDS Integers, FiniteSets, Functions

CONSTANTS
    Calls,            \* slots for calls of getBalance in flight
    Timeout,          \* option timeout, in ticks
    ResetTimeout,     \* option resetTimeout, in ticks
    Buckets,          \* ticks the rolling statistics cover
    VolumeThreshold,  \* option volumeThreshold
    ErrorThreshold,   \* option errorThresholdPercentage
    MaxFires          \* bound: calls of getBalance per tick

VARIABLES
    circuitBreakerState,
    pendingClose,     \* half open, and the probe is still to come
    resetTimer,       \* ticks until an open breaker half-opens
    calls,            \* calls that wait for HCM
    window,           \* the rolling statistics, the current bucket first
    healthy           \* HCM answers every GET with a 2xx in time

vars == <<circuitBreakerState, pendingClose, resetTimer, calls, window, healthy>>

ASSUME BreakerAssumption ==
    /\ Timeout \in Nat
    /\ ResetTimeout \in Nat
    /\ Buckets \in Nat \ {0}
    /\ VolumeThreshold \in Nat
    /\ ErrorThreshold \in Nat
    /\ MaxFires \in Nat

\* timeout: 10_000 and resetTimeout: 30_000.
ASSUME ProbeAssumption == Timeout < ResetTimeout

States == {"CLOSED", "OPEN", "HALF_OPEN"}

\* left: ticks until the call times out.
Call == [waiting : BOOLEAN, left : 0..Timeout]

Idle == [waiting |-> FALSE, left |-> 0]

Bucket == [fires : Nat, failures : Nat]

Empty == [fires |-> 0, failures |-> 0]

TypeOK ==
    /\ circuitBreakerState \in States
    /\ pendingClose \in BOOLEAN
    /\ resetTimer \in 0..ResetTimeout
    /\ calls \in [Calls -> Call]
    /\ window \in [1..Buckets -> Bucket]
    /\ healthy \in BOOLEAN

Init ==
    /\ circuitBreakerState = "CLOSED"
    /\ pendingClose = FALSE
    /\ resetTimer = 0
    /\ calls = [c \in Calls |-> Idle]
    /\ window = [i \in 1..Buckets |-> Empty]
    /\ healthy \in BOOLEAN

-------------------------------------------------------------------------------
Waiting(c) == calls[c].waiting

Return(c) == calls' = [calls EXCEPT ![c] = Idle]

\* Statistics after a call is fired, and after one failed.
CountFire == window' = [window EXCEPT ![1].fires = @ + 1]

AfterFailure == [window EXCEPT ![1].failures = @ + 1]

Fires(w) == FoldFunction(+, 0, [i \in 1..Buckets |-> w[i].fires])

Failures(w) == FoldFunction(+, 0, [i \in 1..Buckets |-> w[i].failures])

\* A failure trips a closed breaker if enough calls were fired in the window
\* and more than the threshold of them failed.
Trips(w) ==
    /\ Fires(w) >= VolumeThreshold
    /\ Failures(w) * 100 > ErrorThreshold * Fires(w)

\* Variant for mutation: timeout and resetTimeout are swapped.
OpensTooBriefly ==
    /\ circuitBreakerState' = "OPEN"
    /\ resetTimer' = Timeout
    /\ pendingClose' = FALSE

\* The events open, ...
Opens ==
    /\ circuitBreakerState' = "OPEN"
    /\ resetTimer' = ResetTimeout
    /\ pendingClose' = FALSE

\* ... close ...
Closes ==
    /\ circuitBreakerState' = "CLOSED"
    /\ resetTimer' = 0
    /\ pendingClose' = FALSE

Stays == UNCHANGED <<circuitBreakerState, resetTimer, pendingClose>>

\* ... and halfOpen, when the reset timer is due.
HalfOpens ==
    /\ circuitBreakerState = "OPEN"
    /\ resetTimer = 0
    /\ circuitBreakerState' = "HALF_OPEN"
    /\ pendingClose' = TRUE
    /\ UNCHANGED <<resetTimer, calls, window, healthy>>

-------------------------------------------------------------------------------
Admits == circuitBreakerState = "CLOSED" \/ pendingClose

\* getBalance fires the breaker, which passes the call on to HCM, ...
GetBalance(c) ==
    /\ ~Waiting(c)
    /\ window[1].fires < MaxFires
    /\ Admits
    /\ CountFire
    /\ pendingClose' = FALSE
    /\ calls' = [calls EXCEPT ![c] = [waiting |-> TRUE, left |-> Timeout]]
    /\ UNCHANGED <<circuitBreakerState, resetTimer, healthy>>

\* ... or rejects it ("Breaker is open"), and getBalance returns null.
ShortCircuit ==
    /\ window[1].fires < MaxFires
    /\ ~Admits
    /\ CountFire
    /\ UNCHANGED <<circuitBreakerState, pendingClose, resetTimer, calls, healthy>>

\* Variant for mutation: nobody closes the breaker after the probe.
SucceedsUnheard(c) ==
    /\ Waiting(c)
    /\ Return(c)
    /\ Stays
    /\ UNCHANGED <<window, healthy>>

\* Variant for mutation: any success closes the breaker.
SucceedsAndCloses(c) ==
    /\ Waiting(c)
    /\ Return(c)
    /\ Closes
    /\ UNCHANGED <<window, healthy>>

\* HCM answers with a 2xx; a half-open breaker closes.
Succeeds(c) ==
    /\ Waiting(c)
    /\ Return(c)
    /\ IF circuitBreakerState = "HALF_OPEN" THEN Closes ELSE Stays
    /\ UNCHANGED <<window, healthy>>

\* getBalance catches the error and returns null.  A half-open breaker opens
\* again at once.
Fails(c) ==
    /\ Return(c)
    /\ window' = AfterFailure
    /\ IF \/ circuitBreakerState = "HALF_OPEN"
          \/ circuitBreakerState = "CLOSED" /\ Trips(AfterFailure)
       THEN Opens
       ELSE Stays
    /\ UNCHANGED healthy

\* HCM answers with another status (a 500, or a 404 for an employee it does
\* not know), or cannot be reached.
IsRefused(c) ==
    /\ Waiting(c)
    /\ ~healthy
    /\ Fails(c)

\* Variant for mutation: the breaker and axios have no timeout.
NeverTimesOut(c) == FALSE /\ IsRefused(c)

TimesOut(c) ==
    /\ Waiting(c)
    /\ calls[c].left = 0
    /\ ~healthy
    /\ Fails(c)

-------------------------------------------------------------------------------
\* A timer is due: it fires before time goes on.
Due == (circuitBreakerState = "OPEN" /\ resetTimer = 0)
       \/ \E c \in Calls : Waiting(c) /\ calls[c].left = 0

Elapsed ==
    /\ resetTimer' = IF circuitBreakerState = "OPEN" THEN resetTimer - 1 ELSE resetTimer
    /\ calls' = [c \in Calls |-> IF Waiting(c) THEN [calls[c] EXCEPT !.left = @ - 1]
                                 ELSE calls[c]]

\* Variant for mutation: timers are never due.
TickPastTimers ==
    /\ Elapsed
    /\ window' = [i \in 1..Buckets |-> IF i = 1 THEN Empty ELSE window[i - 1]]
    /\ UNCHANGED <<circuitBreakerState, pendingClose, healthy>>

\* Time passes and the statistics move on by a bucket.
Tick ==
    /\ ~Due
    /\ Elapsed
    /\ window' = [i \in 1..Buckets |-> IF i = 1 THEN Empty ELSE window[i - 1]]
    /\ UNCHANGED <<circuitBreakerState, pendingClose, healthy>>

\* HCM goes down or comes back.
HcmTurns ==
    /\ healthy' = ~healthy
    /\ UNCHANGED <<circuitBreakerState, pendingClose, resetTimer, calls, window>>

\* The process restarts with a new, closed breaker.
Restart ==
    /\ Closes
    /\ calls' = [c \in Calls |-> Idle]
    /\ window' = [i \in 1..Buckets |-> Empty]
    /\ UNCHANGED healthy

CallStep(c) == GetBalance(c) \/ Succeeds(c) \/ IsRefused(c) \/ TimesOut(c)

Next ==
    \/ \E c \in Calls : CallStep(c)
    \/ ShortCircuit
    \/ HalfOpens
    \/ Tick
    \/ HcmTurns
    \/ Restart

Spec == Init /\ [][Next]_vars

\* A call that is due returns: a healthy HCM has answered by then, and
\* otherwise the timer fires.
IsDue(c) ==
    /\ calls[c].left = 0
    /\ IF healthy THEN Succeeds(c) ELSE TimesOut(c)

\* Time passes and timers fire ...
Fairness ==
    /\ WF_vars(Tick)
    /\ WF_vars(HalfOpens)
    /\ \A c \in Calls : WF_vars(IsDue(c))

\* ... and clients keep calling.
Traffic == WF_vars(ShortCircuit \/ \E c \in Calls : GetBalance(c))

FairSpec == Spec /\ Fairness /\ Traffic

-------------------------------------------------------------------------------
(* Properties                                                              *)

\* A half-open breaker probes HCM with one call and no other is under way,
\* so that its verdict is about HCM as it is now: every call from before the
\* opening timed out before the reset timer was due.  And it always has its
\* probe: it cannot wait for an answer that will not come.
ProbeIsAlone ==
    circuitBreakerState = "HALF_OPEN" =>
        IF pendingClose
        THEN \A c \in Calls : ~Waiting(c)
        ELSE \E c \in Calls : Waiting(c) /\ \A d \in Calls : Waiting(d) => d = c

\* An answer that comes after the breaker opened does not close it; only the
\* reset timer, or a restart, ends the time HCM is left alone.
OpenUntilReset ==
    [][circuitBreakerState = "OPEN" =>
         \/ circuitBreakerState' = "OPEN"
         \/ resetTimer = 0 /\ circuitBreakerState' = "HALF_OPEN"
         \/ Restart]_vars

\* No caller of getBalance waits forever for HCM, dead or alive.
EveryCallReturns == \A c \in Calls : Waiting(c) ~> ~Waiting(c)

\* When HCM has recovered for good the breaker closes for good.
Recovers == <>[]healthy => <>[](circuitBreakerState = "CLOSED")
===============================================================================
