----------------------------- MODULE RedisCache ------------------------------
(***************************************************************************)
(* The Redis-backed cache of cache/redis.go, used by several goroutines    *)
(* (or processes) against one Redis server.                                *)
(*                                                                         *)
(* Every Redis command is atomic; the cache methods are sequences of them  *)
(* with no lock, and they call one another: Get's expiry path calls        *)
(* Delete, Delete calls Get when OnEvicted is set, Clear calls Keys and    *)
(* Get.  Each client therefore runs a call stack of frames, one per method *)
(* in progress, and each step is one Redis command or one return.          *)
(*                                                                         *)
(* A Redis key is the cache key with some number of copies of KeyPrefix in *)
(* front: <<n, k>>.  Get and Delete prefix the key they are given, so a    *)
(* key that is already prefixed gets a second copy.  With an empty prefix  *)
(* n stays 0.                                                              *)
(*                                                                         *)
(* One clock serves the clients and Redis.  Set computes ExpireAt from     *)
(* time.Now() and only then sends SET with the ttl, which Redis counts     *)
(* from the SET's arrival: the key outlives its ExpireAt by the time in    *)
(* between.  A ttl of 0 (after the default) sets no Redis TTL.             *)
(* Values are left out: no decision reads them.                            *)
(***************************************************************************)
EXTENDS Integers, Sequences, FiniteSets, Functions, TLC

CONSTANTS
    Clients,    \* goroutines using the cache (model values)
    Keys,       \* cache keys (model values)
    TTLs,       \* ttl arguments of Set, in ticks (0 means Options.TTL)
    DefaultTTL, \* RedisOptions.TTL, in ticks (0 when left unset)
    Prefixed,   \* RedisOptions.KeyPrefix # ""
    Evicted,    \* RedisOptions.OnEvicted # nil
    MaxDepth,   \* frames a goroutine's stack holds before it overflows
    MaxTime,    \* model bound: last tick of the clock
    MaxOps      \* model bound: operations started by each client

ASSUME TTLs \subseteq Nat /\ DefaultTTL \in Nat /\ MaxDepth \in Nat \ {0}
ASSUME Prefixed \in BOOLEAN /\ Evicted \in BOOLEAN

VARIABLES
    store,    \* Redis: key <<n, k>> -> [item, rexp, stamp]: the encoded Item, the
              \* key's TTL (the tick it runs out, or NoExpiry), the Set it came from
    now,      \* the clock
    seq,      \* Sets applied so far: the stamp of the next one
    stack,    \* stack[c]: the frames of the calls c is in the middle of
    ops,      \* ops[c]: operations c has started
    crashed   \* a goroutine's stack overflowed: the process is dead

vars == <<store, now, seq, stack, ops, crashed>>

NoExpiry == -1

\* Item{Key, Value, ExpireAt: time.Now().Add(ttl), CreatedAt: time.Now()}
NewItem(ttl) == [expireAt |-> now + ttl, createdAt |-> now]

\* r.options.KeyPrefix + key
Prefix(rk) == IF Prefixed THEN <<rk[1] + 1, rk[2]>> ELSE rk

\* The pattern KeyPrefix + "*" of KEYS matches the key.
Matches(rk) == ~Prefixed \/ rk[1] >= 1

\* key[prefixLen:] in Keys
Strip(rk) == IF Prefixed THEN <<rk[1] - 1, rk[2]>> ELSE rk

\* Redis without key rk: DEL
Without(rk) == Restrict(store, DOMAIN store \ {rk})

\* Mutant: an item counts as expired at its ExpireAt instant already.
ExpiredInclusive(e) == e.expireAt <= now

\* item.ExpireAt.Before(time.Now())
Expired(e) == e.expireAt < now

Top(c) == stack[c][Len(stack[c])]

\* The caller's frame replaced by f.
SetTop(c, f) == [stack EXCEPT ![c][Len(stack[c])] = f]

\* Return from the top frame.
Pop(c) == [stack EXCEPT ![c] = SubSeq(@, 1, Len(@) - 1)]

\* Call into f from the top frame, which becomes caller; a call past the
\* goroutine's stack limit is fatal.
Call(c, caller, f) ==
    /\ stack' = [stack EXCEPT ![c] = Append(SubSeq(@, 1, Len(@) - 1) \o <<caller>>, f)]
    /\ crashed' = (Len(stack[c]) >= MaxDepth)

GetFrame(rk) == [fn |-> "get", key |-> rk, st |-> "send"]

\* Delete starts with the OnEvicted lookup when a callback is set.
DeleteFrame(rk) == [fn |-> "delete", key |-> rk, st |-> IF Evicted THEN "evict" ELSE "del"]

\* NewRedisCache(opts): the RedisOptions are the constants (Options.TTL,
\* OnEvicted, KeyPrefix); Redis starts empty.
Init ==
    /\ store = [rk \in {} |-> 0]
    /\ now = 0
    /\ seq = 0
    /\ stack = [c \in Clients |-> <<>>]
    /\ ops = [c \in Clients |-> 0]
    /\ crashed = FALSE

\* The clock advances; Redis drops the keys whose TTL has run out.
Tick ==
    /\ ~crashed
    /\ now < MaxTime
    /\ now' = now + 1
    /\ store' = Restrict(store, {rk \in DOMAIN store :
                                  store[rk].rexp = NoExpiry \/ store[rk].rexp >= now + 1})
    /\ UNCHANGED <<seq, stack, ops, crashed>>

\* A client calls one method of the Cache with an unprefixed key.
Begin(c) ==
    /\ ~crashed
    /\ stack[c] = <<>>
    /\ ops[c] < MaxOps
    /\ ops' = [ops EXCEPT ![c] = @ + 1]
    /\ \/ \E k \in Keys : stack' = [stack EXCEPT ![c] = <<GetFrame(<<0, k>>)>>]
       \/ \E k \in Keys, t \in TTLs :
             stack' = [stack EXCEPT ![c] = <<[fn |-> "set", key |-> <<0, k>>, ttl |-> t,
                                                  st |-> "encode"]>>]
       \/ \E k \in Keys : stack' = [stack EXCEPT ![c] = <<DeleteFrame(<<0, k>>)>>]
       \/ stack' = [stack EXCEPT ![c] = <<[fn |-> "clear", st |-> "start", from |-> seq,
                                                  todo |-> {}, keys |-> {}]>>]
    /\ UNCHANGED <<store, now, seq, crashed>>

(***************************************************************************)
(* Get: GET KeyPrefix+key.  redis.Nil returns ErrKeyNotFound; otherwise    *)
(* the item is decoded and, back in the client, checked against its own   *)
(* clock.                                                                  *)
(***************************************************************************)
GetSend(c) ==
    LET f == Top(c)
        rk == Prefix(f.key)
    IN /\ ~crashed
       /\ stack[c] # <<>> /\ f.fn = "get" /\ f.st = "send"
       /\ stack' = IF rk \in DOMAIN store
                      THEN SetTop(c, [fn |-> "get", key |-> f.key, st |-> "check",
                                      item |-> store[rk].item])
                      ELSE Pop(c)
       /\ UNCHANGED <<store, now, seq, ops, crashed>>

(* An unexpired item is returned.  An expired one is deleted by            *)
(* r.Delete(ctx, key) with key already prefixed, then ErrKeyExpired.       *)
GetCheck(c) ==
    LET f == Top(c) IN
    /\ ~crashed
    /\ stack[c] # <<>> /\ f.fn = "get" /\ f.st = "check"
    /\ \/ /\ Expired(f.item)
          /\ Call(c, [f EXCEPT !.st = "expired"], DeleteFrame(Prefix(f.key)))
       \/ /\ ~Expired(f.item)
          /\ stack' = Pop(c)
          /\ UNCHANGED crashed
    /\ UNCHANGED <<store, now, seq, ops>>

\* return nil, ErrKeyExpired, once the Delete has returned.
GetReturn(c) ==
    /\ ~crashed
    /\ stack[c] # <<>> /\ Top(c).fn = "get" /\ Top(c).st = "expired"
    /\ stack' = Pop(c)
    /\ UNCHANGED <<store, now, seq, ops, crashed>>

\* Delete with OnEvicted set: r.Get(ctx, key) for the value to hand over.
DeleteEvict(c) ==
    LET f == Top(c) IN
    /\ ~crashed
    /\ stack[c] # <<>> /\ f.fn = "delete" /\ f.st = "evict"
    /\ Call(c, [f EXCEPT !.st = "del"], GetFrame(f.key))
    /\ UNCHANGED <<store, now, seq, ops>>

\* Delete: DEL KeyPrefix+key.
DeleteDel(c) ==
    LET f == Top(c) IN
    /\ ~crashed
    /\ stack[c] # <<>> /\ f.fn = "delete" /\ f.st = "del"
    /\ store' = Without(Prefix(f.key))
    /\ stack' = Pop(c)
    /\ UNCHANGED <<now, seq, ops, crashed>>

\* Mutant: a zero ttl is kept instead of the default.
SetEncodeIgnoresDefault(c) ==
    LET f == Top(c) IN
    /\ ~crashed
    /\ stack[c] # <<>> /\ f.fn = "set" /\ f.st = "encode"
    /\ stack' = SetTop(c, [fn |-> "set", key |-> f.key, ttl |-> f.ttl, st |-> "send",
                           item |-> NewItem(f.ttl)])
    /\ UNCHANGED <<store, now, seq, ops, crashed>>

(***************************************************************************)
(* Set, in the client: ttl 0 means Options.TTL; the Item's ExpireAt is     *)
(* time.Now() + ttl; json.Marshal cannot fail on it.                       *)
(***************************************************************************)
SetEncode(c) ==
    LET f == Top(c)
        ttl == IF f.ttl = 0 THEN DefaultTTL ELSE f.ttl
    IN /\ ~crashed
       /\ stack[c] # <<>> /\ f.fn = "set" /\ f.st = "encode"
       /\ stack' = SetTop(c, [fn |-> "set", key |-> f.key, ttl |-> ttl, st |-> "send",
                              item |-> NewItem(ttl)])
       /\ UNCHANGED <<store, now, seq, ops, crashed>>

\* Set: SET KeyPrefix+key with the ttl as the Redis TTL from now on, none
\* when it is 0.
Set(c) ==
    LET f == Top(c) IN
    /\ ~crashed
    /\ stack[c] # <<>> /\ f.fn = "set" /\ f.st = "send"
    /\ store' = (Prefix(f.key) :> [item |-> f.item,
                                   rexp |-> IF f.ttl > 0 THEN now + f.ttl ELSE NoExpiry,
                                   stamp |-> seq + 1]) @@ store
    /\ seq' = seq + 1
    /\ stack' = Pop(c)
    /\ UNCHANGED <<now, ops, crashed>>

(***************************************************************************)
(* Clear: with OnEvicted set, r.Keys (KEYS, prefix stripped) and r.Get of  *)
(* each key in turn; then KEYS KeyPrefix+"*" and one DEL of what it        *)
(* returned, when it returned anything.                                    *)
(***************************************************************************)
ClearStart(c) ==
    LET f == Top(c) IN
    /\ ~crashed
    /\ stack[c] # <<>> /\ f.fn = "clear" /\ f.st = "start"
    /\ stack' = SetTop(c, [f EXCEPT !.st = "evict",
                              !.todo = IF Evicted
                                          THEN {Strip(rk) : rk \in {j \in DOMAIN store : Matches(j)}}
                                          ELSE {}])
    /\ UNCHANGED <<store, now, seq, ops, crashed>>

ClearEvict(c) ==
    LET f == Top(c) IN
    /\ ~crashed
    /\ stack[c] # <<>> /\ f.fn = "clear" /\ f.st = "evict"
    /\ \E k \in f.todo : Call(c, [f EXCEPT !.todo = @ \ {k}], GetFrame(k))
    /\ UNCHANGED <<store, now, seq, ops>>

ClearKeys(c) ==
    LET f == Top(c) IN
    /\ ~crashed
    /\ stack[c] # <<>> /\ f.fn = "clear" /\ f.st = "evict" /\ f.todo = {}
    /\ stack' = SetTop(c, [f EXCEPT !.st = "del",
                              !.keys = {rk \in DOMAIN store : Matches(rk)}])
    /\ UNCHANGED <<store, now, seq, ops, crashed>>

\* Mutant: a single key is left alone (len(keys) > 1).
ClearDelSkipsSingle(c) ==
    LET f == Top(c) IN
    /\ ~crashed
    /\ stack[c] # <<>> /\ f.fn = "clear" /\ f.st = "del"
    /\ store' = IF Cardinality(f.keys) > 1 THEN Restrict(store, DOMAIN store \ f.keys) ELSE store
    /\ stack' = Pop(c)
    /\ UNCHANGED <<now, seq, ops, crashed>>

ClearDel(c) ==
    LET f == Top(c) IN
    /\ ~crashed
    /\ stack[c] # <<>> /\ f.fn = "clear" /\ f.st = "del"
    /\ store' = IF f.keys # {} THEN Restrict(store, DOMAIN store \ f.keys) ELSE store
    /\ stack' = Pop(c)
    /\ UNCHANGED <<now, seq, ops, crashed>>

\* Every client has made its calls and time has run out, or the process
\* has died of a stack overflow.
Terminated ==
    /\ \/ crashed
       \/ now = MaxTime /\ \A c \in Clients : stack[c] = <<>> /\ ops[c] = MaxOps
    /\ UNCHANGED vars

Next ==
    \/ Tick
    \/ \E c \in Clients :
          \/ Begin(c) \/ GetSend(c) \/ GetCheck(c) \/ GetReturn(c)
          \/ DeleteEvict(c) \/ DeleteDel(c) \/ SetEncode(c) \/ Set(c)
          \/ ClearStart(c) \/ ClearEvict(c) \/ ClearKeys(c) \/ ClearDel(c)
    \/ Terminated

Spec == Init /\ [][Next]_vars

-----------------------------------------------------------------------------
(***************************************************************************)
(* Properties                                                              *)
(***************************************************************************)

(* Types; and every stored item outlives the instant of its Set: a zero    *)
(* ttl is replaced by Options.TTL before ExpireAt is computed.             *)
TypeOK ==
    /\ DOMAIN store \subseteq (Nat \X Keys)
    /\ \A rk \in DOMAIN store :
          /\ store[rk].stamp \in 1..seq
          /\ store[rk].item.createdAt \in 0..now
          /\ store[rk].item.expireAt > store[rk].item.createdAt
    /\ now \in 0..MaxTime
    /\ \A c \in Clients : Len(stack[c]) <= MaxDepth + 1
    /\ ops \in [Clients -> 0..MaxOps]
    /\ crashed \in BOOLEAN

(* The calls Get, Delete and Clear make of one another end: a Get of an    *)
(* expired item deletes it, and the OnEvicted lookup that Delete makes     *)
(* first must not send it back into the same Get, or the goroutine's stack *)
(* grows until the process dies.  With an empty prefix it does, for as     *)
(* long as Redis keeps an item past its ExpireAt: the TTL counted from    *)
(* the SET's arrival, or for ever with no default TTL, where ExpireAt is   *)
(* CreatedAt and the key has no TTL (RedisCacheRecursion.cfg).             *)
NoStackOverflow == ~crashed

(* Clear empties the cache of everything stored before it was called:      *)
(* when its DEL has run, every key under the prefix was Set after Clear    *)
(* began, whatever other clients Set, Get or Delete between its KEYS and   *)
(* its DEL.                                                                *)
ClearRemovesOlder ==
    [][\A c \in Clients :
         ClearDel(c) => \A rk \in DOMAIN store' :
                           Matches(rk) => store'[rk].stamp > Top(c).from]_vars

=============================================================================
