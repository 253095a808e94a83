---------------------------- MODULE RedisLimiter ----------------------------
(***************************************************************************)
(* The distributed token bucket of ratelimit/redis_limiter.go.             *)
(*                                                                         *)
(* Each AllowN / ReserveN sends one EVAL of luaScript; Redis runs a script *)
(* atomically, so one script run is one step.  The client reads            *)
(* time.Now().Unix() before the request travels to Redis, and requests of *)
(* different clients (or goroutines) reach Redis in any order: a script    *)
(* may run with a timestamp older than the bucket's 'last'.                *)
(*                                                                         *)
(* Redis turns a Lua number into an integer reply, so go-redis hands back  *)
(* int64 values; ReserveN's res[1].(float64) assertion therefore always    *)
(* fails after the script has run.                                         *)
(***************************************************************************)
EXTENDS Integers, Sequences, FiniteSetsExt, TLC

CONSTANTS
    Clients,   \* goroutines or processes sharing the limiter (model values)
    Keys,      \* rate-limit keys (model values)
    Rate,      \* tokens per second (integral, so "%.2f" is exact)
    Burst,     \* bucket capacity
    TTLMillis, \* Options.TTL in milliseconds
    Costs,     \* values of n the callers pass
    MaxTime,   \* model bound: last second of the clock
    MaxCalls   \* model bound: calls made by each client

ASSUME Rate \in Nat \ {0} /\ Burst \in Nat /\ TTLMillis \in Nat
ASSUME Costs \subseteq Int /\ MaxTime \in Nat /\ MaxCalls \in Nat

VARIABLES
    store,   \* Redis: key -> [last, tokens, expireAt]
    now,     \* the clock, in whole seconds
    pc,      \* pc[c]: the call c is making, with the timestamp it read
    calls,   \* calls[c]: calls c has made so far
    ledger,  \* history: every grant, dated by the timestamp of its call
    lost     \* history: tokens consumed by calls that returned an error

vars == <<store, now, pc, calls, ledger, lost>>

Idle == [op |-> "idle"]

\* strconv.FormatInt(int64(l.ttl.Seconds()), 10)
TTLSeconds == TTLMillis \div 1000

\* A key is visible until its TTL has run out; EXPIRE with 0 deletes it.
Live(k) == k \in DOMAIN store /\ now < store[k].expireAt

\* hmget, then 'tonumber(bucket[1]) or now' and 'tonumber(bucket[2]) or burst'
Hash(k, t) == IF Live(k) THEN store[k] ELSE [last |-> t, tokens |-> Burst]

\* Mutant: the refill is not capped at burst.
RefilledUncapped(h, t) ==
    LET elapsed == IF t - h.last > 0 THEN t - h.last ELSE 0
    IN h.tokens + elapsed * Rate

\* elapsed = math.max(0, now - last); tokens = math.min(burst, tokens + delta)
Refilled(h, t) ==
    LET elapsed == IF t - h.last > 0 THEN t - h.last ELSE 0
        v == h.tokens + elapsed * Rate
    IN IF v < Burst THEN v ELSE Burst

(***************************************************************************)
(* One run of luaScript for key k, timestamp t and n requested tokens.    *)
(* Allowed: hmset last=t, tokens=tokens-n and expire ttl.  Denied: no      *)
(* write at all.  Granted is the script's reply {1, 0} versus {0, wait}.   *)
(***************************************************************************)
\* Mutant: the comparison admits one token short.
GrantedOffByOne(k, t, n) == Refilled(Hash(k, t), t) >= n - 1

Granted(k, t, n) == Refilled(Hash(k, t), t) >= n

RunScript(k, t, n) ==
    IF Granted(k, t, n)
    THEN store' = (k :> [last |-> t,
                         tokens |-> Refilled(Hash(k, t), t) - n,
                         expireAt |-> now + TTLSeconds]) @@ store
    ELSE UNCHANGED store

Init ==
    /\ store = <<>>
    /\ now = 0
    /\ pc = [c \in Clients |-> Idle]
    /\ calls = [c \in Clients |-> 0]
    /\ ledger = <<>>
    /\ lost = 0

Tick ==
    /\ now < MaxTime
    /\ now' = now + 1
    /\ UNCHANGED <<store, pc, calls, ledger, lost>>

(***************************************************************************)
(* Allow / Reserve / Wait read time.Now().Unix().  A cost n <= 0 returns   *)
(* at once (AllowN and ReserveN test it first; WaitN via AllowN); any      *)
(* other call is sent to Redis.                                            *)
(***************************************************************************)
Call(c) ==
    /\ pc[c] = Idle
    /\ calls[c] < MaxCalls
    /\ calls' = [calls EXCEPT ![c] = @ + 1]
    /\ \E op \in {"allow", "reserve", "wait"}, k \in Keys, n \in Costs :
          IF n <= 0
          THEN UNCHANGED pc
          ELSE pc' = [pc EXCEPT ![c] = [op |-> op, key |-> k, n |-> n, t |-> now]]
    /\ UNCHANGED <<store, now, ledger, lost>>

(***************************************************************************)
(* The EVAL of AllowN reaches Redis.  allowed == 1 is returned; WaitN      *)
(* returns nil on success and otherwise goes on to ReserveN.               *)
(***************************************************************************)
EvalAllow(c) ==
    LET r == pc[c] IN
    /\ r.op \in {"allow", "wait"}
    /\ RunScript(r.key, r.t, r.n)
    /\ IF Granted(r.key, r.t, r.n)
          THEN /\ ledger' = Append(ledger, [key |-> r.key, n |-> r.n, at |-> r.t * Rate])
               /\ pc' = [pc EXCEPT ![c] = Idle]
          ELSE /\ pc' = [pc EXCEPT ![c] = IF r.op = "wait"
                                          THEN [r EXCEPT !.op = "waitreserve"]
                                          ELSE Idle]
               /\ UNCHANGED ledger
    /\ UNCHANGED <<now, calls, lost>>

(***************************************************************************)
(* The EVAL reaches Redis and the script runs, but the reply is lost (read *)
(* timeout, dropped connection): Eval returns err, so AllowN returns       *)
(* (false, err) and WaitN returns err, whatever the script did.            *)
(***************************************************************************)
EvalReplyLost(c) ==
    LET r == pc[c] IN
    /\ r.op # "idle"
    /\ RunScript(r.key, r.t, r.n)
    /\ lost' = IF Granted(r.key, r.t, r.n) THEN lost + r.n ELSE lost
    /\ pc' = [pc EXCEPT ![c] = Idle]
    /\ UNCHANGED <<now, calls, ledger>>

(***************************************************************************)
(* The EVAL of ReserveN reaches Redis and the script runs (consuming n     *)
(* tokens when it grants them); the reply then fails the float64          *)
(* assertion on res[1], so ReserveN, and WaitN after it, return an error.  *)
(***************************************************************************)
EvalReserve(c) ==
    LET r == pc[c] IN
    /\ r.op \in {"reserve", "waitreserve"}
    /\ RunScript(r.key, r.t, r.n)
    /\ lost' = IF Granted(r.key, r.t, r.n) THEN lost + r.n ELSE lost
    /\ pc' = [pc EXCEPT ![c] = Idle]
    /\ UNCHANGED <<now, calls, ledger>>

Terminated ==
    /\ now = MaxTime
    /\ \A c \in Clients : pc[c] = Idle /\ calls[c] = MaxCalls
    /\ UNCHANGED vars

Next ==
    \/ Tick
    \/ \E c \in Clients :
          Call(c) \/ EvalAllow(c) \/ EvalReserve(c) \/ EvalReplyLost(c)
    \/ Terminated

Spec == Init /\ [][Next]_vars

-----------------------------------------------------------------------------
(***************************************************************************)
(* Properties                                                              *)
(***************************************************************************)

(* Types; and the stored hash only ever holds 0..burst tokens: the script  *)
(* caps the refill and writes tokens - n only when tokens >= n.           *)
TypeOK ==
    /\ DOMAIN store \subseteq Keys
    /\ \A k \in DOMAIN store :
          store[k] \in [last : 0..MaxTime, tokens : 0..Burst, expireAt : Nat]
    /\ now \in 0..MaxTime
    /\ pc \in [Clients -> {Idle} \cup
                 [op : {"allow", "reserve", "wait", "waitreserve"},
                  key : Keys, n : Costs, t : 0..MaxTime]]
    /\ calls \in [Clients -> 0..MaxCalls]
    /\ lost \in Nat

\* Tokens granted on key k by calls whose timestamps fall in [lo, hi].
GrantedIn(k, lo, hi) ==
    MapThenSumSet(LAMBDA i : ledger[i].n,
                  {i \in DOMAIN ledger : ledger[i].key = k
                                         /\ lo <= ledger[i].at
                                         /\ ledger[i].at <= hi})

(* The token-bucket contract (spec 4.5, as 4.3): over any span of the      *)
(* timestamps the calls carry, the tokens AllowN grants on a key never     *)
(* exceed Burst plus Rate times the span, when the EVALs reach Redis in    *)
(* the order of their timestamps (one client, as in RedisLimiter.cfg): the *)
(* script's refill, its cap at burst, its write of last_refill and the     *)
(* TTL that drops an idle bucket together keep the contract.  With two     *)
(* clients an older timestamp can arrive later (RedisLimiterReordered.cfg) *)
(* and the property fails.                                                 *)
RateRespected ==
    \A k \in Keys :
      \A i, j \in DOMAIN ledger :
        LET lo == ledger[i].at
            hi == ledger[j].at
        IN (ledger[i].key = k /\ ledger[j].key = k /\ lo <= hi)
              => GrantedIn(k, lo, hi) <= Burst + (hi - lo)

(* Spec 4.5 and 7: a call that returns an error has committed nothing.    *)
(* The script consumes the tokens before the client sees the reply; when   *)
(* ReserveN rejects the reply, or the reply is lost, the tokens are gone   *)
(* while the caller sees only an error.                                    *)
NoConsumptionOnError == lost = 0

=============================================================================
