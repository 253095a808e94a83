----------------------------- MODULE MemoryCache -----------------------------
(***************************************************************************)
(* The in-memory cache of cache/memory.go with its janitor goroutine.      *)
(*                                                                         *)
(* Set, Delete, Clear and the janitor's clean run under m.mutex and are    *)
(* one step each.  Get takes the read lock only to look the key up; the    *)
(* expiry check and the Delete it may call happen after RUnlock, so Get is *)
(* two steps.  Close is two steps as well: the send on the unbuffered      *)
(* stopCh (a rendezvous with the janitor's select) and then Clear.         *)
(*                                                                         *)
(* An item keeps its expiry instant, the tick of its CreatedAt, and its    *)
(* creation order: CreatedAt is time.Now() at the Set, strictly later for  *)
(* every later Set, so a counter orders the items exactly.  Values are     *)
(* left out: no decision reads them.                                       *)
(* Keys, Len and the OnEvicted callback change nothing and are omitted.    *)
(***************************************************************************)
EXTENDS Integers, FiniteSets, Functions, TLC

CONSTANTS
    Clients,    \* goroutines using the cache (model values)
    Keys,       \* cache keys (strings; "" is a legal key)
    TTLs,       \* ttl arguments of Set, in ticks (0 means Options.TTL)
    DefaultTTL, \* Options.TTL, in ticks
    MaxEntries, \* Options.MaxEntries (0 disables eviction)
    MaxTime,    \* model bound: last tick of the clock
    MaxOps      \* model bound: operations made by each client

ASSUME TTLs \subseteq Nat /\ DefaultTTL \in Nat \ {0} /\ MaxEntries \in Nat
ASSUME MaxTime \in Nat /\ MaxOps \in Nat

VARIABLES
    items,    \* m.items: key -> [expireAt, setAt, created]
    now,      \* the clock
    seq,      \* Sets so far: the order of the CreatedAt instants
    janitor,  \* "running" until Close's send on stopCh is received
    pc,       \* pc[c]: the operation c is in the middle of
    ops       \* ops[c]: operations c has started

vars == <<items, now, seq, janitor, pc, ops>>

Idle == [op |-> "idle"]

\* v.ExpireAt.Before(now)
Expired(it) == it.expireAt < now

\* m.items without key k: delete(m.items, k)
Without(k) == Restrict(items, DOMAIN items \ {k})

(***************************************************************************)
(* evict(): the map is walked in Go's random order.  The first expired     *)
(* item met is deleted and evict returns; with none expired, the item with *)
(* the earliest CreatedAt is deleted, unless its key is "", which the loop *)
(* cannot tell apart from 'none found'.  The set of maps evict may leave.  *)
(***************************************************************************)
Oldest == CHOOSE k \in DOMAIN items :
              \A j \in DOMAIN items : items[k].created <= items[j].created

EvictResults ==
    LET expired == {k \in DOMAIN items : Expired(items[k])}
    IN IF expired # {}
          THEN {Without(k) : k \in expired}
          ELSE IF DOMAIN items = {} \/ Oldest = "" THEN {items}
                                                   ELSE {Without(Oldest)}

\* Mutant: the capacity check is off by one (len > MaxEntries).
MustEvictLate == MaxEntries > 0 /\ Cardinality(DOMAIN items) > MaxEntries

\* m.options.MaxEntries > 0 && len(m.items) >= m.options.MaxEntries
MustEvict == MaxEntries > 0 /\ Cardinality(DOMAIN items) >= MaxEntries

Init ==
    /\ items = [k \in {} |-> 0]
    /\ now = 0
    /\ seq = 0
    /\ janitor = "running"
    /\ pc = [c \in Clients |-> Idle]
    /\ ops = [c \in Clients |-> 0]

Tick ==
    /\ now < MaxTime
    /\ now' = now + 1
    /\ UNCHANGED <<items, seq, janitor, pc, ops>>

\* A client starts one operation.  Close ends the use of the cache: no
\* operation starts once a Close has begun (io.Closer leaves a second Close,
\* and use after Close, undefined).
Closing == \E d \in Clients : pc[d].op \in {"close", "closeclear", "closed"}

Begin(c) ==
    /\ pc[c] = Idle
    /\ ~Closing
    /\ ops[c] < MaxOps
    /\ ops' = [ops EXCEPT ![c] = @ + 1]
    /\ UNCHANGED <<items, now, seq, janitor>>
    /\ \/ \E k \in Keys : pc' = [pc EXCEPT ![c] = [op |-> "get", key |-> k]]
       \/ \E k \in Keys, t \in TTLs :
             pc' = [pc EXCEPT ![c] = [op |-> "set", key |-> k, ttl |-> t]]
       \/ \E k \in Keys : pc' = [pc EXCEPT ![c] = [op |-> "delete", key |-> k]]
       \/ pc' = [pc EXCEPT ![c] = [op |-> "clear"]]
       \/ pc' = [pc EXCEPT ![c] = [op |-> "close"]]

(***************************************************************************)
(* Get, under RLock: look the key up and RUnlock.  A missing key returns   *)
(* ErrKeyNotFound, an unexpired item its value; an expired one goes on to  *)
(* m.Delete(ctx, key), which takes the write lock afresh.                  *)
(***************************************************************************)
GetRead(c) ==
    LET k == pc[c].key IN
    /\ pc[c].op = "get"
    /\ pc' = [pc EXCEPT ![c] = IF k \in DOMAIN items /\ Expired(items[k])
                                  THEN [op |-> "getdelete", key |-> k]
                                  ELSE Idle]
    /\ UNCHANGED <<items, now, seq, janitor, ops>>

\* Delete(key) under the lock; Get's expiry path returns ErrKeyExpired.
DeleteKey(c) ==
    /\ pc[c].op \in {"delete", "getdelete"}
    /\ items' = Without(pc[c].key)
    /\ pc' = [pc EXCEPT ![c] = Idle]
    /\ UNCHANGED <<now, seq, janitor, ops>>

(***************************************************************************)
(* Set: ttl 0 means the default; under the lock, evict once the map holds *)
(* MaxEntries items, then store the item, created now.                     *)
(***************************************************************************)
\* Mutant: a zero ttl is stored as is instead of the default.
SetKeepsZeroTTL(c) ==
    LET r == pc[c]
        ttl == r.ttl
        item == [expireAt |-> now + ttl, setAt |-> now, created |-> seq + 1]
    IN /\ r.op = "set"
       /\ \E left \in (IF MustEvict THEN EvictResults ELSE {items}) :
             items' = (r.key :> item) @@ left
       /\ seq' = seq + 1
       /\ pc' = [pc EXCEPT ![c] = Idle]
       /\ UNCHANGED <<now, janitor, ops>>

Set(c) ==
    LET r == pc[c]
        ttl == IF r.ttl = 0 THEN DefaultTTL ELSE r.ttl
        item == [expireAt |-> now + ttl, setAt |-> now, created |-> seq + 1]
    IN /\ r.op = "set"
       /\ \E left \in (IF MustEvict THEN EvictResults ELSE {items}) :
             items' = (r.key :> item) @@ left
       /\ seq' = seq + 1
       /\ pc' = [pc EXCEPT ![c] = Idle]
       /\ UNCHANGED <<now, janitor, ops>>

\* Clear: m.items = make(map[string]*Item)
Clear(c) ==
    /\ pc[c].op = "clear"
    /\ items' = [k \in {} |-> 0]
    /\ pc' = [pc EXCEPT ![c] = Idle]
    /\ UNCHANGED <<now, seq, janitor, ops>>

\* Mutant: clean's comparison is the wrong way round.
JanitorCleanInverted ==
    /\ janitor = "running"
    /\ \E k \in DOMAIN items : Expired(items[k])
    /\ items' = Restrict(items, {k \in DOMAIN items : Expired(items[k])})
    /\ UNCHANGED <<now, seq, janitor, pc, ops>>

\* janitor.clean on a ticker tick: delete every expired item.  A tick with
\* nothing expired changes nothing and is left out.
JanitorClean ==
    /\ janitor = "running"
    /\ \E k \in DOMAIN items : Expired(items[k])
    /\ items' = Restrict(items, {k \in DOMAIN items : ~Expired(items[k])})
    /\ UNCHANGED <<now, seq, janitor, pc, ops>>

\* Close, first step: j.stopCh <- true meets the janitor's select, which
\* stops the ticker and returns.
CloseStop(c) ==
    /\ pc[c].op = "close"
    /\ janitor = "running"
    /\ janitor' = "stopped"
    /\ pc' = [pc EXCEPT ![c] = [op |-> "closeclear"]]
    /\ UNCHANGED <<items, now, seq, ops>>

\* Close, second step: m.Clear(context.Background()).
CloseClear(c) ==
    /\ pc[c].op = "closeclear"
    /\ items' = [k \in {} |-> 0]
    /\ pc' = [pc EXCEPT ![c] = [op |-> "closed"]]
    /\ UNCHANGED <<now, seq, janitor, ops>>

\* Every client is done or the cache is closed, and time has run out.
Terminated ==
    /\ now = MaxTime
    /\ \A c \in Clients : pc[c].op \in {"idle", "closed"}
    /\ \A c \in Clients : pc[c] = Idle => (ops[c] = MaxOps \/ Closing)
    /\ UNCHANGED vars

Next ==
    \/ Tick
    \/ JanitorClean
    \/ \E c \in Clients :
          \/ Begin(c) \/ GetRead(c) \/ DeleteKey(c) \/ Set(c) \/ Clear(c)
          \/ CloseStop(c) \/ CloseClear(c)
    \/ Terminated

(***************************************************************************)
(* Fairness.  newJanitor gives the janitor a ticker of one interval, and   *)
(* the ticker fires every interval for as long as the run goroutine runs;  *)
(* a goroutine that has started Close keeps running.  Both are weakly      *)
(* fair.  Clients are not: they may stop calling.                          *)
(***************************************************************************)
Fairness ==
    /\ WF_vars(JanitorClean)
    /\ \A c \in Clients : WF_vars(CloseStop(c)) /\ WF_vars(CloseClear(c))

Spec == Init /\ [][Next]_vars /\ Fairness

-----------------------------------------------------------------------------
(***************************************************************************)
(* Properties                                                              *)
(***************************************************************************)

Ops == {"idle", "get", "getdelete", "set", "delete", "clear",
        "close", "closeclear", "closed"}

(* Types; and every item outlives the instant of its Set: a zero ttl is    *)
(* replaced by Options.TTL before ExpireAt is computed.                    *)
TypeOK ==
    /\ DOMAIN items \subseteq Keys
    /\ \A k \in DOMAIN items :
          /\ items[k].setAt \in 0..now
          /\ items[k].expireAt > items[k].setAt
          /\ items[k].created \in 1..seq
    /\ now \in 0..MaxTime
    /\ janitor \in {"running", "stopped"}
    /\ \A c \in Clients : pc[c].op \in Ops
    /\ ops \in [Clients -> 0..MaxOps]

(* Options.MaxEntries bounds the cache: Set evicts (an expired item, else  *)
(* the oldest) before it stores into a full map, so the map never holds    *)
(* more than MaxEntries items, whatever non-empty keys are used and the   *)
(* order of Sets, Deletes, Gets and janitor cleanups.  evict takes "" for  *)
(* "nothing found", so with the empty key it is not bounded               *)
(* (MemoryCacheEmptyKey.cfg).                                              *)
SizeBounded ==
    MaxEntries > 0 => Cardinality(DOMAIN items) <= MaxEntries

\* The call a client is in the middle of, as the abstract cache sees it:
\* Get takes effect when it reads the item, so its trailing Delete belongs
\* to no call; Close takes effect at its Clear.
AbsRequest(r) ==
    CASE r.op = "getdelete"  -> Idle
      [] r.op = "closeclear" -> [op |-> "close"]
      [] OTHER               -> r

CS == INSTANCE CacheSpec
        WITH store <- [k \in DOMAIN items |-> items[k].expireAt],
             pending <- [c \in Clients |-> AbsRequest(pc[c])]

(* The memory cache implements the Cache interface (module CacheSpec):     *)
(* every step is one call taking effect, an expired item leaving, or no    *)
(* visible change.  In particular the Delete that Get issues after RUnlock *)
(* must only remove an expired item, never one another goroutine has Set   *)
(* in between.                                                             *)
ImplementsCache == CS!Spec

(* The janitor removes expired items: an item that has expired is         *)
(* eventually gone from the map (or replaced by a fresh Set), unless Close *)
(* has stopped the janitor first.  (A Set racing Close can store an item   *)
(* after Close's Clear; nothing removes it once it expires.)               *)
ExpiredEventuallyRemoved ==
    \A k \in Keys :
       (k \in DOMAIN items /\ Expired(items[k]))
          ~> (~(k \in DOMAIN items /\ Expired(items[k])) \/ janitor = "stopped")

=============================================================================
