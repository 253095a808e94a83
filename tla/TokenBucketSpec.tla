--------------------------- MODULE TokenBucketSpec ---------------------------
(***************************************************************************)
(* The Limiter interface of ratelimit/ratelimiter.go served by a token     *)
(* bucket, stated as the generic cell rate algorithm: per key, one         *)
(* theoretical arrival time `tat`, the instant at which the bucket would   *)
(* be full again.  A request of n tokens at instant t conforms when        *)
(* max(tat, t) + n/Rate - t <= Burst/Rate; a conforming AllowN moves tat   *)
(* to max(tat, t) + n/Rate; ReserveN always does, and its tokens are       *)
(* usable from max(t, tat - Burst/Rate).  Instants are kept multiplied by  *)
(* Rate, so every quantity is a whole number of tokens.                    *)
(*                                                                         *)
(* Calls carry the timestamp the caller read, as AllowN, ReserveN and      *)
(* WaitN do; Wait is AllowN and, when refused, ReserveN.                   *)
(***************************************************************************)
EXTENDS Integers, Sequences

CONSTANTS
    Callers,  \* goroutines using the limiter (model values)
    Keys,     \* rate-limit keys (model values)
    Rate,     \* tokens per tick
    Burst,    \* bucket capacity
    Costs,    \* values of n the callers pass
    MaxTime   \* model bound: last tick of the clock

VARIABLES
    tat,     \* tat[k]: the theoretical arrival time of key k, times Rate
    now,     \* the clock
    pc,      \* pc[c]: the call c is making, with its timestamp
    ledger   \* every grant: key, tokens, and the instant (times Rate) it is usable

svars == <<tat, now, pc, ledger>>

Idle == [op |-> "idle"]

\* max(tat, t): a bucket is never fuller than full.
Base(k, t) == IF tat[k] > t * Rate THEN tat[k] ELSE t * Rate

Init ==
    /\ tat = [k \in Keys |-> 0]
    /\ now = 0
    /\ pc = [c \in Callers |-> Idle]
    /\ ledger = <<>>

Tick ==
    /\ now < MaxTime
    /\ now' = now + 1
    /\ UNCHANGED <<tat, pc, ledger>>

\* Allow, Reserve or Wait, with the time read now.
Call(c) ==
    /\ pc[c] = Idle
    /\ \E op \in {"allow", "reserve", "wait"}, k \in Keys, n \in Costs :
          pc' = [pc EXCEPT ![c] = [op |-> op, key |-> k, n |-> n, t |-> now]]
    /\ UNCHANGED <<tat, now, ledger>>

\* AllowN with n <= 0: allowed, nothing taken.
Free(c) ==
    /\ pc[c].op \in {"allow", "wait"}
    /\ pc[c].n <= 0
    /\ pc' = [pc EXCEPT ![c] = Idle]
    /\ UNCHANGED <<tat, now, ledger>>

\* AllowN of a conforming request: the tokens are granted at t.
Conform(c) ==
    LET r == pc[c] IN
    /\ r.op \in {"allow", "wait"}
    /\ r.n > 0
    /\ Base(r.key, r.t) + r.n - r.t * Rate <= Burst
    /\ tat' = [tat EXCEPT ![r.key] = Base(r.key, r.t) + r.n]
    /\ ledger' = Append(ledger, [key |-> r.key, n |-> r.n, at |-> r.t * Rate])
    /\ pc' = [pc EXCEPT ![c] = Idle]
    /\ UNCHANGED now

\* AllowN of a request that does not conform: refused; Wait goes on to
\* ReserveN.  Nothing is taken, and a tat already past is brought up to t.
Refuse(c) ==
    LET r == pc[c] IN
    /\ r.op \in {"allow", "wait"}
    /\ r.n > 0
    /\ Base(r.key, r.t) + r.n - r.t * Rate > Burst
    /\ tat' = [tat EXCEPT ![r.key] = Base(r.key, r.t)]
    /\ pc' = [pc EXCEPT ![c] = IF r.op = "wait" THEN [r EXCEPT !.op = "waitreserve"]
                                                ELSE Idle]
    /\ UNCHANGED <<now, ledger>>

\* ReserveN: the tokens are booked, usable once the bucket would hold them.
Book(c) ==
    LET r == pc[c]
        next == Base(r.key, r.t) + r.n
    IN /\ r.op \in {"reserve", "waitreserve"}
       /\ tat' = [tat EXCEPT ![r.key] = next]
       /\ ledger' = Append(ledger,
                           [key |-> r.key, n |-> r.n,
                            at |-> IF next - Burst > r.t * Rate THEN next - Burst
                                                                 ELSE r.t * Rate])
       /\ pc' = [pc EXCEPT ![c] = Idle]
       /\ UNCHANGED now

Next ==
    \/ Tick
    \/ \E c \in Callers : Call(c) \/ Free(c) \/ Conform(c) \/ Refuse(c) \/ Book(c)

Spec == Init /\ [][Next]_svars

=============================================================================
