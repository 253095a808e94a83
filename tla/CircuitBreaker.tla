--------------------------- MODULE CircuitBreaker ---------------------------
(***************************************************************************)
(* The circuit breaker of circuitbreaker/circuit.go.                       *)
(*                                                                         *)
(* Every method runs under c.mutex, so each Allow, Success and Failure is  *)
(* one atomic step.  Concurrency comes from several callers running        *)
(* Execute: a caller is admitted by Allow, runs its protected function and *)
(* later reports the outcome through done(success); between the two steps *)
(* the other callers and the passage of time interleave freely.           *)
(*                                                                         *)
(* The settings (c.interval among them) never change after NewBreaker.   *)
(*                                                                         *)
(* Time.  The code only ever asks generation.ExpiredAt.Before(now) and     *)
(* sets ExpiredAt to now.Add(d).  The model keeps ttl = ExpiredAt - now,   *)
(* which time decreases; every ttl below zero answers Before(now) alike,   *)
(* so ttl is kept in -1..max and Tick stops once it is -1.                 *)
(***************************************************************************)
EXTENDS Integers, FiniteSetsExt

CONSTANTS
    Callers,          \* goroutines calling Execute (model values)
    MaxRequests,      \* Settings.MaxRequests
    Intervals,        \* the Settings.Interval values to try, in ticks (may be <= 0)
    Timeout,          \* Settings.Timeout, in ticks
    NewGenerationTTL, \* the time.Minute of newGeneration, in ticks
    TripThreshold,    \* ReadyToTrip is ConsecutiveFailures > TripThreshold
    MaxCount          \* model bound: requests admitted in one Closed generation

ASSUME MaxRequests \in Nat \ {0}
ASSUME Intervals \subseteq Int /\ Timeout \in Nat /\ NewGenerationTTL \in Nat
ASSUME TripThreshold \in Nat /\ MaxCount \in Nat \ {0}

VARIABLES
    state,   \* c.state
    counts,  \* c.counts
    ttl,     \* c.generation.ExpiredAt minus the current time
    interval, \* c.interval, fixed by NewBreaker
    pc       \* pc[c]: "idle", or the state that admitted c while c runs fn()

vars == <<state, counts, ttl, interval, pc>>

States == {"Closed", "HalfOpen", "Open"}

CountFields == {"Requests", "TotalSuccesses", "TotalFailures",
                "ConsecutiveSuccesses", "ConsecutiveFailures"}

\* Counts{}: every field zero.
ZeroCounts == [f \in CountFields |-> 0]

\* defaultReadyToTrip, with the threshold as a parameter (WithReadyToTrip).
ReadyToTrip(cnt) == cnt.ConsecutiveFailures > TripThreshold

\* ExpiredAt = now.Add(d), seen through Before(now).
Expiry(d) == IF d < 0 THEN -1 ELSE d

Expired == ttl < 0

\* The largest expiry a generation can be given.
TTLBound == Max(Intervals \cup {Timeout, NewGenerationTTL, 0})

(***************************************************************************)
(* Allow first rolls an expired generation over (toNewGeneration), then    *)
(* decides on the state it read before the rollover.  GenCounts and GenTTL *)
(* are the counts and expiry after that first step.                        *)
(***************************************************************************)
GenCounts == IF Expired THEN ZeroCounts ELSE counts
GenTTL    == IF Expired THEN Expiry(interval) ELSE ttl

\* setState(s, now): no-op when already in s, otherwise new state, zeroed
\* counts and a generation expiring after Timeout (Open) or Interval.
SetState(s, cnt) ==
    \/ /\ state = s
       /\ counts' = cnt
       /\ UNCHANGED <<state, ttl, interval>>
    \/ /\ state # s
       /\ state' = s
       /\ counts' = ZeroCounts
       /\ ttl' = Expiry(IF s = "Open" THEN Timeout ELSE interval)
       /\ UNCHANGED interval

\* atomic.AddUint64(&c.counts.Requests, 1); return c.done, nil
Admit(c, cnt, s) ==
    /\ counts' = [cnt EXCEPT !.Requests = @ + 1]
    /\ pc' = [pc EXCEPT ![c] = s]
    /\ UNCHANGED interval

\* A rejected Allow still keeps the generation rollover it made.
Reject ==
    /\ counts' = GenCounts
    /\ ttl' = GenTTL
    /\ UNCHANGED <<state, pc, interval>>

Init ==
    /\ state = "Closed"
    /\ counts = ZeroCounts
    /\ ttl = Expiry(NewGenerationTTL)
    /\ interval \in Intervals
    /\ pc = [c \in Callers |-> "idle"]

\* Time passes; only visible until the generation has expired.
Tick ==
    /\ ttl >= 0
    /\ ttl' = ttl - 1
    /\ UNCHANGED <<state, counts, pc, interval>>

\* Allow, case StateClosed.
AllowClosed(c) ==
    /\ pc[c] = "idle"
    /\ state = "Closed"
    /\ GenCounts.Requests < MaxCount
    /\ Admit(c, GenCounts, "Closed")
    /\ ttl' = GenTTL
    /\ UNCHANGED state

\* Mutant: the Open branch forgets to return ErrCircuitOpen and admits.
AllowOpenRejectFallsThrough(c) ==
    /\ pc[c] = "idle"
    /\ state = "Open"
    /\ GenTTL >= 0
    /\ Admit(c, GenCounts, "Open")
    /\ ttl' = GenTTL
    /\ UNCHANGED state

\* Allow, case StateOpen, generation still unexpired after the rollover.
AllowOpenReject(c) ==
    /\ pc[c] = "idle"
    /\ state = "Open"
    /\ GenTTL >= 0
    /\ Reject

\* Allow, case StateOpen, expired: setState(StateHalfOpen) and admit.
AllowOpenProbe(c) ==
    /\ pc[c] = "idle"
    /\ state = "Open"
    /\ GenTTL < 0
    /\ state' = "HalfOpen"
    /\ ttl' = Expiry(interval)
    /\ Admit(c, ZeroCounts, "HalfOpen")

\* Allow, default (StateHalfOpen): ErrTooManyRequests once Requests has
\* reached maxRequests, otherwise admit.
AllowHalfOpen(c) ==
    /\ pc[c] = "idle"
    /\ state = "HalfOpen"
    /\ IF GenCounts.Requests >= MaxRequests
          THEN Reject
          ELSE /\ Admit(c, GenCounts, "HalfOpen")
               /\ ttl' = GenTTL
               /\ UNCHANGED state

Allow(c) ==
    \/ AllowClosed(c)
    \/ AllowOpenReject(c)
    \/ AllowOpenProbe(c)
    \/ AllowHalfOpen(c)

\* fn() returned nil: done(true) -> Success().
Success(c) ==
    LET cnt == [counts EXCEPT !.TotalSuccesses = @ + 1,
                              !.ConsecutiveSuccesses = @ + 1,
                              !.ConsecutiveFailures = 0]
    IN /\ pc[c] # "idle"
       /\ pc' = [pc EXCEPT ![c] = "idle"]
       /\ IF state = "HalfOpen" /\ cnt.ConsecutiveSuccesses >= MaxRequests
             THEN SetState("Closed", cnt)
             ELSE counts' = cnt /\ UNCHANGED <<state, ttl, interval>>

\* Mutant: readyToTrip is asked before the failure is counted.
FailureTripsOnOldCounts(c) ==
    LET cnt == [counts EXCEPT !.TotalFailures = @ + 1,
                              !.ConsecutiveFailures = @ + 1,
                              !.ConsecutiveSuccesses = 0]
    IN /\ pc[c] # "idle"
       /\ pc' = [pc EXCEPT ![c] = "idle"]
       /\ IF ReadyToTrip(counts)
             THEN SetState("Open", cnt)
             ELSE counts' = cnt /\ UNCHANGED <<state, ttl, interval>>

\* fn() returned an error: done(false) -> Failure().
Failure(c) ==
    LET cnt == [counts EXCEPT !.TotalFailures = @ + 1,
                              !.ConsecutiveFailures = @ + 1,
                              !.ConsecutiveSuccesses = 0]
    IN /\ pc[c] # "idle"
       /\ pc' = [pc EXCEPT ![c] = "idle"]
       /\ IF ReadyToTrip(cnt)
             THEN SetState("Open", cnt)
             ELSE counts' = cnt /\ UNCHANGED <<state, ttl, interval>>

Next ==
    \/ Tick
    \/ \E c \in Callers : Allow(c) \/ Success(c) \/ Failure(c)

Spec == Init /\ [][Next]_vars

-----------------------------------------------------------------------------
(***************************************************************************)
(* Properties                                                              *)
(***************************************************************************)

(* Types; and a request is only ever running on behalf of a Closed or a    *)
(* Half-Open breaker: Allow never admits while Open.                       *)
TypeOK ==
    /\ state \in States
    /\ counts \in [CountFields -> Nat]
    /\ ttl \in -1..TTLBound
    /\ interval \in Intervals
    /\ pc \in [Callers -> {"idle", "Closed", "HalfOpen"}]

(* Failure evaluates readyToTrip on the counts it has just incremented,    *)
(* under the same lock as the increment: a breaker that is not Open never  *)
(* holds counts its trip predicate accepts, whatever the interleaving of   *)
(* reports, rollovers and admissions.                                      *)
NoMissedTrip == state # "Open" => ~ReadyToTrip(counts)

(* Spec 4.1 and 8: once the Open timeout has elapsed, the next Allow       *)
(* moves the breaker to Half-Open and admits the request.  Allow rolls the *)
(* expired generation over to now+interval before it looks at the expiry,  *)
(* so the Open branch sees an unexpired generation and rejects.            *)
TimeoutAdmitsProbe ==
    [][\A c \in Callers : ~(Expired /\ AllowOpenReject(c))]_vars

(* Spec 3: a generation's Counts accumulate the outcomes of that           *)
(* generation.  done(success) runs after Allow has released the lock, and  *)
(* neither Success nor Failure asks which generation admitted the request, *)
(* so an outcome reported after a rollover or a state change lands in      *)
(* counts that never recorded its admission.                               *)
OutcomesWithinGeneration ==
    counts.TotalSuccesses + counts.TotalFailures <= counts.Requests

=============================================================================
