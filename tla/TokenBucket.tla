---------------------------- MODULE TokenBucket ----------------------------
(***************************************************************************)
(* The in-process token bucket of ratelimit/token_bucket.go.              *)
(*                                                                         *)
(* AllowN and ReserveN each run under l.mu and are one atomic step.  The   *)
(* convenience methods Allow, Reserve and Wait read time.Now() before they *)
(* take the lock, so a caller's timestamp may be older than the bucket's   *)
(* last refill by the time its locked step runs.  WaitN takes the lock     *)
(* twice (AllowN, then ReserveN) with the same timestamp.                  *)
(*                                                                         *)
(* Tokens are float64 in the code; with an integral rate and whole ticks   *)
(* every value the code computes is an integer, so Int is exact here.     *)
(***************************************************************************)
EXTENDS Integers, Sequences, FiniteSetsExt, TLC

CONSTANTS
    Callers,   \* goroutines using the limiter (model values)
    Keys,      \* rate-limit keys (model values)
    Rate,      \* tokens per tick
    Burst,     \* bucket capacity
    Costs,     \* values of n the callers pass
    MaxTime,   \* model bound: last tick of the clock
    MaxCalls   \* model bound: calls made by each caller

ASSUME Rate \in Nat \ {0} /\ Burst \in Nat /\ Costs \subseteq Int
ASSUME MaxTime \in Nat /\ MaxCalls \in Nat

VARIABLES
    buckets,  \* l.buckets: the keys created so far -> [last, tokens]
    now,      \* the wall clock
    pc,       \* pc[c]: what c is doing, with the timestamp it read
    calls,    \* calls[c]: calls c has made so far
    ledger    \* history: every grant, with the instant it may be used

vars == <<buckets, now, pc, calls, ledger>>

Ops == {"allow", "reserve", "wait"}

Idle == [op |-> "idle"]

\* A grant of n tokens on key k usable from instant at/Rate (kept scaled by
\* Rate so that fractional waits stay integral).
Grant(k, n, at) == [key |-> k, n |-> n, at |-> at]

\* Get-or-create the bucket: a new bucket is full and was last refilled now.
BucketAt(k, t) ==
    IF k \in DOMAIN buckets THEN buckets[k] ELSE [last |-> t, tokens |-> Burst]

\* Mutant: elapsed clamped at zero, as math.max(0, now - last) does in the
\* Redis script.
RefillClamped(b, t) ==
    [last |-> t,
     tokens |-> LET e == IF t > b.last THEN t - b.last ELSE 0
                    v == b.tokens + e * Rate
                IN IF v < Burst THEN v ELSE Burst]

\* Mutant: the refill is not capped at burst.
RefillUncapped(b, t) ==
    [last |-> t, tokens |-> b.tokens + (t - b.last) * Rate]

\* elapsed := now.Sub(bkt.last); tokens = min(burst, tokens + elapsed*rate);
\* bkt.last = now.  A timestamp older than last makes elapsed negative.
Refill(b, t) ==
    [last |-> t,
     tokens |-> LET v == b.tokens + (t - b.last) * Rate
                IN IF v < Burst THEN v ELSE Burst]

Store(k, b) == buckets' = (k :> b) @@ buckets

Init ==
    /\ buckets = <<>>
    /\ now = 0
    /\ pc = [c \in Callers |-> Idle]
    /\ calls = [c \in Callers |-> 0]
    /\ ledger = <<>>

Tick ==
    /\ now < MaxTime
    /\ now' = now + 1
    /\ UNCHANGED <<buckets, pc, calls, ledger>>

\* Allow / Reserve / Wait: time.Now() is read before the locked N-variant.
Call(c) ==
    /\ pc[c] = Idle
    /\ calls[c] < MaxCalls
    /\ \E op \in Ops, k \in Keys, n \in Costs :
          pc' = [pc EXCEPT ![c] = [op |-> op, key |-> k, n |-> n, t |-> now]]
    /\ calls' = [calls EXCEPT ![c] = @ + 1]
    /\ UNCHANGED <<buckets, now, ledger>>

(***************************************************************************)
(* AllowN(key, n, t).  n <= 0 returns true untouched; otherwise the bucket *)
(* is created or refilled and stored, and n tokens are taken if there are *)
(* enough.  OnDeny is what the caller does after a refusal: Allow returns *)
(* false, WaitN goes on to ReserveN.                                       *)
(***************************************************************************)
AllowStep(c, OnDeny) ==
    LET r == pc[c]
        b == Refill(BucketAt(r.key, r.t), r.t)
    IN \/ /\ r.n <= 0
          /\ pc' = [pc EXCEPT ![c] = Idle]
          /\ UNCHANGED <<buckets, ledger>>
       \/ /\ r.n > 0
          /\ b.tokens < r.n
          /\ Store(r.key, b)
          /\ pc' = [pc EXCEPT ![c] = OnDeny]
          /\ UNCHANGED ledger
       \/ /\ r.n > 0
          /\ b.tokens >= r.n
          /\ Store(r.key, [b EXCEPT !.tokens = @ - r.n])
          /\ pc' = [pc EXCEPT ![c] = Idle]
          /\ ledger' = Append(ledger, Grant(r.key, r.n, r.t * Rate))

AllowN(c) ==
    /\ pc[c].op = "allow"
    /\ AllowStep(c, Idle)
    /\ UNCHANGED <<now, calls>>

\* Mutant: the reservation is dated at t, ignoring the debt.
ReserveStepNoDelay(c) ==
    LET r == pc[c]
        b == Refill(BucketAt(r.key, r.t), r.t)
        left == b.tokens - r.n
    IN /\ Store(r.key, [b EXCEPT !.tokens = left])
       /\ ledger' = Append(ledger, Grant(r.key, r.n, r.t * Rate))
       /\ pc' = [pc EXCEPT ![c] = Idle]

(***************************************************************************)
(* ReserveN(key, n, t): no guard on n.  Refill, then always take n tokens, *)
(* possibly going negative; TimeToAct = t + max(0, -(tokens-n))/rate.      *)
(* Reservation.OK is always true.                                          *)
(***************************************************************************)
ReserveStep(c) ==
    LET r == pc[c]
        b == Refill(BucketAt(r.key, r.t), r.t)
        left == b.tokens - r.n
        debt == IF left < 0 THEN -left ELSE 0
    IN /\ Store(r.key, [b EXCEPT !.tokens = left])
       /\ ledger' = Append(ledger, Grant(r.key, r.n, r.t * Rate + debt))
       /\ pc' = [pc EXCEPT ![c] = Idle]

ReserveN(c) ==
    /\ pc[c].op = "reserve"
    /\ ReserveStep(c)
    /\ UNCHANGED <<now, calls>>

\* WaitN, first lock: AllowN(ctx, key, n, now); on refusal go on.
WaitAllow(c) ==
    /\ pc[c].op = "wait"
    /\ AllowStep(c, [pc[c] EXCEPT !.op = "waitreserve"])
    /\ UNCHANGED <<now, calls>>

(***************************************************************************)
(* WaitN, second lock: ReserveN(ctx, key, n, now), then                    *)
(* delay := reservation.DelayFrom.Sub(now).  DelayFrom is the timestamp    *)
(* itself, so delay is 0 and WaitN returns nil at once: the select on      *)
(* ctx.Done() and time.After(delay) is never reached.                      *)
(***************************************************************************)
WaitReserve(c) ==
    /\ pc[c].op = "waitreserve"
    /\ ReserveStep(c)
    /\ UNCHANGED <<now, calls>>

\* Every caller has made its calls and time has run out.
Terminated ==
    /\ now = MaxTime
    /\ \A c \in Callers : pc[c] = Idle /\ calls[c] = MaxCalls
    /\ UNCHANGED vars

Next ==
    \/ Tick
    \/ \E c \in Callers :
          Call(c) \/ AllowN(c) \/ ReserveN(c) \/ WaitAllow(c) \/ WaitReserve(c)
    \/ Terminated

Spec == Init /\ [][Next]_vars

-----------------------------------------------------------------------------
(***************************************************************************)
(* Properties                                                              *)
(***************************************************************************)

Request == [op : Ops \cup {"waitreserve"}, key : Keys, n : Costs, t : 0..MaxTime]

(* Types; and, spec 3, a bucket never holds more than its capacity: every  *)
(* refill is capped at burst and every other step only takes tokens.       *)
TypeOK ==
    /\ DOMAIN buckets \subseteq Keys
    /\ \A k \in DOMAIN buckets : buckets[k] \in [last : 0..MaxTime, tokens : Int]
    /\ \A k \in DOMAIN buckets : buckets[k].tokens <= Burst
    /\ now \in 0..MaxTime
    /\ pc \in [Callers -> {Idle} \cup Request]
    /\ calls \in [Callers -> 0..MaxCalls]

\* Tokens granted on key k that become usable in [lo, hi] (scaled times).
GrantedIn(k, lo, hi) ==
    MapThenSumSet(LAMBDA i : ledger[i].n,
                  {i \in DOMAIN ledger : ledger[i].key = k
                                         /\ lo <= ledger[i].at
                                         /\ ledger[i].at <= hi})

(* The token-bucket contract (spec 4.3), on the timeline of the timestamps *)
(* the calls carry: over any span, the tokens granted by AllowN at its     *)
(* timestamp, plus those reserved by ReserveN counted from their           *)
(* TimeToAct, never exceed Burst plus Rate times the span.  It must hold   *)
(* under any interleaving of callers whose time.Now() readings reach the   *)
(* lock out of order, which makes elapsed negative for the later one.      *)
RateRespected ==
    \A k \in Keys :
      \A i, j \in DOMAIN ledger :
        LET lo == ledger[i].at
            hi == ledger[j].at
        IN (ledger[i].key = k /\ ledger[j].key = k /\ lo <= hi)
              => GrantedIn(k, lo, hi) <= Burst + (hi - lo)

\* A bucket as a theoretical arrival time: the instant (times Rate) at
\* which it would be full again.  A key without a bucket is full.
TS == INSTANCE TokenBucketSpec
        WITH tat <- [k \in Keys |-> IF k \in DOMAIN buckets
                                      THEN buckets[k].last * Rate + Burst - buckets[k].tokens
                                      ELSE 0]

(* The bucket implements the token-bucket algorithm (module               *)
(* TokenBucketSpec): every AllowN, ReserveN and WaitN step grants, refuses *)
(* and books exactly as the reference algorithm does at the caller's       *)
(* timestamp, however late that timestamp reaches the lock: the refill     *)
(* with a negative elapsed, the cap at burst, the stored refill of a       *)
(* refused AllowN and the debt of ReserveN all agree with it.              *)
ImplementsTokenBucket == TS!Spec

(* Spec 4.2 and 8: Wait blocks until its n tokens are available.  WaitN    *)
(* returns as soon as ReserveN has booked them, even when the booking is   *)
(* only usable later: a Wait never returns before its reservation's        *)
(* TimeToAct.                                                              *)
WaitHonoursReservation ==
    [][\A c \in Callers :
         WaitReserve(c) => ledger'[Len(ledger')].at <= now * Rate]_vars

=============================================================================
