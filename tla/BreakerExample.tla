--------------------------- MODULE BreakerExample ---------------------------
(***************************************************************************)
(* The example program examples/circuitbreaker/main.go run against the     *)
(* breaker of circuit.go (module CircuitBreaker, instantiated below).      *)
(*                                                                         *)
(* testCircuitBreaker runs four batches of goroutines, each ended by       *)
(* wg.Wait: Execute with a function that succeeds, Execute with one that   *)
(* fails, Execute with one that succeeds or fails at random, and the       *)
(* two-step Allow/done with a random outcome.  Between the second and the  *)
(* third batch it sleeps for the breaker's Timeout, so that the third      *)
(* batch ("Testing half-open state") finds the Open breaker past its       *)
(* timeout.  Execute is Allow, fn(), done(err == nil): the same two steps  *)
(* as the two-step batch.                                                  *)
(*                                                                         *)
(* The batches of 5, 10, 5 and 3 goroutines are scaled to the set Workers, *)
(* and the trip threshold (ConsecutiveFailures >= 5) to TripThreshold.     *)
(* A tick is one second: Timeout is 5 ticks and Interval 60.  The batches  *)
(* take milliseconds, so the clock only advances during the sleep.         *)
(***************************************************************************)
EXTENDS Integers, Sequences

CONSTANTS
    Workers,          \* the goroutines of one batch (model values)
    MaxRequests,      \* WithMaxRequests(3)
    Interval,         \* WithInterval(time.Minute), in ticks
    Timeout,          \* WithTimeout(time.Second*5), in ticks
    NewGenerationTTL, \* the time.Minute of newGeneration, in ticks
    TripThreshold,    \* WithReadyToTrip: ConsecutiveFailures > TripThreshold
    MaxCount          \* model bound: requests admitted in one Closed generation

VARIABLES
    state, counts, ttl, interval, pc,  \* the breaker, as in CircuitBreaker
    phase,   \* the batch main is running, "sleep", or "done"
    wstate,  \* wstate[w]: w's goroutine in this batch: "ready", "running", "done"
    slept    \* ticks main has slept so far

cbvars == <<state, counts, ttl, interval, pc>>
vars == <<cbvars, phase, wstate, slept>>

CB == INSTANCE CircuitBreaker WITH Callers <- Workers, Intervals <- {Interval}

\* The batches of testCircuitBreaker, in order.
Phases == <<"normal", "failing", "sleep", "halfopen", "twostep", "done">>

PhaseIndex == CHOOSE i \in 1..Len(Phases) : Phases[i] = phase

\* What the batch's function returns: nil, ErrInternalError, or either.
Outcomes == CASE phase = "normal"  -> {TRUE}
            []   phase = "failing" -> {FALSE}
            []   OTHER             -> {TRUE, FALSE}

\* Batches whose goroutines call the breaker.
Batches == {"normal", "failing", "halfopen", "twostep"}

\* NewBreaker("example", ...): a Closed breaker; main starts the first batch.
Init ==
    /\ CB!Init
    /\ phase = "normal"
    /\ wstate = [w \in Workers |-> "ready"]
    /\ slept = 0

\* Execute (or the two-step batch) calls Allow.  A rejected goroutine logs
\* the error and returns; an admitted one runs its function.
WorkerAllow(w) ==
    /\ phase \in Batches
    /\ wstate[w] = "ready"
    /\ CB!Allow(w)
    /\ wstate' = [wstate EXCEPT ![w] = IF pc'[w] # "idle" THEN "running" ELSE "done"]
    /\ UNCHANGED <<phase, slept>>

\* done(err == nil): Success or Failure, then wg.Done.
WorkerDone(w) ==
    /\ wstate[w] = "running"
    /\ \E ok \in Outcomes : IF ok THEN CB!Success(w) ELSE CB!Failure(w)
    /\ wstate' = [wstate EXCEPT ![w] = "done"]
    /\ UNCHANGED <<phase, slept>>

\* wg.Wait has returned: main moves on to the sleep or the next batch.
NextBatch ==
    /\ phase \in Batches
    /\ \A w \in Workers : wstate[w] = "done"
    /\ phase' = Phases[PhaseIndex + 1]
    /\ wstate' = [w \in Workers |-> "ready"]
    /\ UNCHANGED <<cbvars, slept>>

\* time.Sleep(time.Second * 5): a second passes.
SleepTick ==
    /\ phase = "sleep"
    /\ slept <= Timeout
    /\ slept' = slept + 1
    /\ IF ttl >= 0 THEN CB!Tick ELSE UNCHANGED cbvars
    /\ UNCHANGED <<phase, wstate>>

\* The sleep returns: more than Timeout has passed since the trip, which
\* happened before the sleep began.
WakeUp ==
    /\ phase = "sleep"
    /\ slept > Timeout
    /\ phase' = "halfopen"
    /\ UNCHANGED <<cbvars, wstate, slept>>

\* breaker.Counts() and breaker.State() are logged; main returns.
Finished ==
    /\ phase = "done"
    /\ UNCHANGED vars

Next ==
    \/ \E w \in Workers : WorkerAllow(w) \/ WorkerDone(w)
    \/ NextBatch \/ SleepTick \/ WakeUp
    \/ Finished

\* The goroutines and main are scheduled; the sleep ends.
Fairness ==
    /\ \A w \in Workers : WF_vars(WorkerAllow(w)) /\ WF_vars(WorkerDone(w))
    /\ WF_vars(NextBatch) /\ WF_vars(SleepTick) /\ WF_vars(WakeUp)

Spec == Init /\ [][Next]_vars /\ Fairness

-----------------------------------------------------------------------------
(* Types: the breaker's, and the batch bookkeeping.                        *)
TypeOK ==
    /\ CB!TypeOK
    /\ phase \in {Phases[i] : i \in 1..Len(Phases)}
    /\ wstate \in [Workers -> {"ready", "running", "done"}]
    /\ slept \in 0..Timeout + 1

(* What the example's "Testing half-open state" batch is written to show   *)
(* (spec 4.1): when that batch starts with the breaker Open, tripped by    *)
(* the failing batch and past its Timeout after main's sleep, its requests *)
(* move the breaker to Half-Open.                                          *)
(* Allow rolls the expired generation over to now + Interval before the    *)
(* Open branch looks at the expiry, so with a one-minute Interval every    *)
(* request of both later batches is rejected with ErrCircuitOpen.          *)
HalfOpenReached ==
    (phase = "halfopen" /\ state = "Open" /\ \A w \in Workers : wstate[w] = "ready")
        ~> (state = "HalfOpen")

=============================================================================
