---------------------------- MODULE SlidingWindow ----------------------------
(***************************************************************************)
(* The in-process sliding-window counter of ratelimit/sliding_window.go.   *)
(*                                                                         *)
(* AllowN and ReserveN each run under l.mu and are one atomic step.  Allow, *)
(* Reserve and Wait read time.Now() before they take the lock, so a        *)
(* caller's timestamp may be older than one another caller has already     *)
(* pruned with.  WaitN takes the lock twice (AllowN, then ReserveN) with   *)
(* the same timestamp.                                                     *)
(*                                                                         *)
(* A key's []window is kept as a function from bucket timestamps to        *)
(* counts: the code upserts by timestamp, so no two entries share one, and *)
(* no decision depends on the order of the slice.  Durations are kept in   *)
(* milliseconds and turned into whole seconds as int64(d.Seconds()) does.  *)
(***************************************************************************)
EXTENDS Integers, Sequences, FiniteSetsExt, Functions, TLC

CONSTANTS
    Callers,         \* goroutines using the limiter (model values)
    Keys,            \* rate-limit keys (model values)
    Rate,            \* Options.Rate, requests per second (integral here)
    WindowMillis,    \* Options.Window, in milliseconds
    PrecisionMillis, \* Options.Precision, in milliseconds
    Costs,           \* values of n the callers pass
    MaxTime,         \* model bound: last second of the clock
    MaxCalls         \* model bound: calls made by each caller

ASSUME Rate \in Nat \ {0} /\ WindowMillis \in Nat /\ PrecisionMillis \in Nat
ASSUME Costs \subseteq Int /\ MaxTime \in Nat /\ MaxCalls \in Nat

VARIABLES
    windows,   \* l.windows: key -> (bucket timestamp -> count)
    now,       \* the clock, in whole seconds
    pc,        \* pc[c]: the call c is making, with the timestamp it read
    calls,     \* calls[c]: calls c has made so far
    ledger,    \* history: every AllowN grant, with its timestamp
    panicked   \* a locked step hit the integer division by zero

vars == <<windows, now, pc, calls, ledger, panicked>>

Ops == {"allow", "reserve", "wait"}

Idle == [op |-> "idle"]

\* windowSize := int64(l.window.Seconds())
WindowSize == WindowMillis \div 1000

\* maxRequests := int64(l.rate * l.window.Seconds())
MaxRequests == (Rate * WindowMillis) \div 1000

\* precisionSeconds := int64(l.precision.Seconds())
PrecisionSeconds == PrecisionMillis \div 1000

\* l.windows[key], created empty on first access.
WindowsOf(k) == IF k \in DOMAIN windows THEN windows[k] ELSE <<>>

\* Mutant: the expired entries are never discarded.
PrunedKeepsAll(k, t) == WindowsOf(k)

\* Mutant: an entry one second inside the window is discarded too.
PrunedOffByOne(k, t) ==
    Restrict(WindowsOf(k), {s \in DOMAIN WindowsOf(k) : s > t - WindowSize + 1})

\* validWindows: the entries with timestamp > timestamp - windowSize.
Pruned(k, t) ==
    Restrict(WindowsOf(k), {s \in DOMAIN WindowsOf(k) : s > t - WindowSize})

\* count: the sum of the remaining entries.
CountOf(w) == MapThenSumSet(LAMBDA s : w[s], DOMAIN w)

\* Mutant: the check forgets the cost of the request itself.
FitsWithoutCost(k, t, n) == CountOf(Pruned(k, t)) <= MaxRequests

\* count+n > maxRequests rejects.
Fits(k, t, n) == CountOf(Pruned(k, t)) + n <= MaxRequests

\* currentTimestamp := timestamp - (timestamp % precisionSeconds)
Bucket(t) == t - (t % PrecisionSeconds)

\* Upsert: add n to the entry of bucket b, or append a new one.
Upsert(w, b, n) == (b :> (IF b \in DOMAIN w THEN w[b] + n ELSE n)) @@ w

\* l.windows[key] = validWindows
StorePruned(k, t) == windows' = (k :> Pruned(k, t)) @@ windows

Init ==
    /\ windows = <<>>
    /\ now = 0
    /\ pc = [c \in Callers |-> Idle]
    /\ calls = [c \in Callers |-> 0]
    /\ ledger = <<>>
    /\ panicked = FALSE

Tick ==
    /\ now < MaxTime
    /\ now' = now + 1
    /\ UNCHANGED <<windows, pc, calls, ledger, panicked>>

\* Allow / Reserve / Wait: time.Now() is read before the locked N-variant.
Call(c) ==
    /\ pc[c] = Idle
    /\ calls[c] < MaxCalls
    /\ \E op \in Ops, k \in Keys, n \in Costs :
          pc' = [pc EXCEPT ![c] = [op |-> op, key |-> k, n |-> n, t |-> now]]
    /\ calls' = [calls EXCEPT ![c] = @ + 1]
    /\ UNCHANGED <<windows, now, ledger, panicked>>

(***************************************************************************)
(* AllowN(key, n, t).  n <= 0 returns true before the lock.  Otherwise the *)
(* pruned entries are stored; over the limit the call is refused (OnDeny   *)
(* is what the caller does next); within it the current bucket is upserted *)
(* after computing timestamp % precisionSeconds, which panics (the deferred *)
(* Unlock still runs) when the precision is below one second.              *)
(***************************************************************************)
AllowStep(c, OnDeny) ==
    LET r == pc[c] IN
    \/ /\ r.n <= 0
       /\ pc' = [pc EXCEPT ![c] = Idle]
       /\ UNCHANGED <<windows, ledger, panicked>>
    \/ /\ r.n > 0
       /\ ~Fits(r.key, r.t, r.n)
       /\ StorePruned(r.key, r.t)
       /\ pc' = [pc EXCEPT ![c] = OnDeny]
       /\ UNCHANGED <<ledger, panicked>>
    \/ /\ r.n > 0
       /\ Fits(r.key, r.t, r.n)
       /\ pc' = [pc EXCEPT ![c] = Idle]
       /\ IF PrecisionSeconds = 0
             THEN /\ StorePruned(r.key, r.t)
                  /\ panicked' = TRUE
                  /\ UNCHANGED ledger
             ELSE /\ windows' = (r.key :> Upsert(Pruned(r.key, r.t), Bucket(r.t), r.n))
                                  @@ windows
                  /\ ledger' = Append(ledger, [key |-> r.key, n |-> r.n, at |-> r.t])
                  /\ UNCHANGED panicked

AllowN(c) ==
    /\ pc[c].op = "allow"
    /\ AllowStep(c, Idle)
    /\ UNCHANGED <<now, calls>>

\* WaitN, first lock: AllowN(ctx, key, n, now); on refusal go on.
WaitAllow(c) ==
    /\ pc[c].op = "wait"
    /\ AllowStep(c, [pc[c] EXCEPT !.op = "waitreserve"])
    /\ UNCHANGED <<now, calls>>

(***************************************************************************)
(* ReserveN(key, n, t): no guard on n.  The pruned entries are stored and  *)
(* the wait is computed, but nothing is added to any window: the           *)
(* reservation books nothing.  OK is always true.                          *)
(***************************************************************************)
ReserveN(c) ==
    /\ pc[c].op = "reserve"
    /\ StorePruned(pc[c].key, pc[c].t)
    /\ pc' = [pc EXCEPT ![c] = Idle]
    /\ UNCHANGED <<now, calls, ledger, panicked>>

(***************************************************************************)
(* WaitN, second lock: ReserveN(ctx, key, n, now), then                    *)
(* delay := reservation.DelayFrom.Sub(now), which is 0 since DelayFrom is  *)
(* the timestamp itself, so WaitN returns nil at once.                     *)
(***************************************************************************)
WaitReserve(c) ==
    LET r == pc[c] IN
    /\ r.op = "waitreserve"
    /\ StorePruned(r.key, r.t)
    /\ pc' = [pc EXCEPT ![c] = Idle]
    /\ UNCHANGED <<now, calls, ledger, panicked>>

\* Every caller has made its calls and time has run out.
Terminated ==
    /\ now = MaxTime
    /\ \A c \in Callers : pc[c] = Idle /\ calls[c] = MaxCalls
    /\ UNCHANGED vars

Next ==
    \/ Tick
    \/ \E c \in Callers :
          Call(c) \/ AllowN(c) \/ WaitAllow(c) \/ ReserveN(c) \/ WaitReserve(c)
    \/ Terminated

Spec == Init /\ [][Next]_vars

-----------------------------------------------------------------------------
(***************************************************************************)
(* Properties                                                              *)
(***************************************************************************)

Request == [op : Ops \cup {"waitreserve"}, key : Keys, n : Costs, t : 0..MaxTime]

(* Types; and no single precision bucket ever counts more than the window  *)
(* admits (maxRequests), since an upsert happens only after count+n fits.  *)
TypeOK ==
    /\ DOMAIN windows \subseteq Keys
    /\ \A k \in DOMAIN windows :
          \A s \in DOMAIN windows[k] :
             s \in 0..MaxTime /\ windows[k][s] \in 1..MaxRequests
    /\ now \in 0..MaxTime
    /\ pc \in [Callers -> {Idle} \cup Request]
    /\ calls \in [Callers -> 0..MaxCalls]
    /\ panicked \in BOOLEAN

\* Requests AllowN granted on key k with timestamps in (hi - window, hi].
GrantedIn(k, hi) ==
    MapThenSumSet(LAMBDA i : ledger[i].n,
                  {i \in DOMAIN ledger : ledger[i].key = k
                                         /\ hi - WindowSize < ledger[i].at
                                         /\ ledger[i].at <= hi})

(* Spec 4.4: the requests AllowN lets through on a key within any trailing *)
(* window of the timestamps the calls carry never exceed rate x window,    *)
(* when those timestamps reach the lock in order (one goroutine, as in     *)
(* SlidingWindow.cfg): pruning at timestamp - windowSize, the quantised    *)
(* buckets and the count+n check together keep every window within        *)
(* capacity, although a bucket is kept by its start and the window slides  *)
(* by whole seconds.  Out of order, see SlidingWindowReordered.cfg.        *)
WindowRespected ==
    \A k \in Keys, hi \in 0..MaxTime : GrantedIn(k, hi) <= MaxRequests

(* Spec 4.4 and 8: AllowN within capacity upserts the current precision    *)
(* bucket; it never fails.  timestamp % precisionSeconds divides by zero   *)
(* for any precision below a second, the 100ms default included.           *)
NoPanic == ~panicked

(* Spec 4.4: the entries of a key are memory-bounded: after pruning they   *)
(* cover at most window / precision buckets.                               *)
MemoryBounded ==
    \A k \in DOMAIN windows :
       Cardinality(DOMAIN windows[k]) <= WindowSize \div PrecisionSeconds

=============================================================================
