------------------------------ MODULE CacheSpec ------------------------------
(***************************************************************************)
(* What the Cache interface of cache/cache.go promises its callers, as a   *)
(* linearizable map from keys to expiry instants.  Every call takes effect *)
(* at one instant between its start and its return: Set stores the key     *)
(* with ExpireAt = now + ttl (a zero ttl meaning Options.TTL), Delete      *)
(* removes it, Clear and Close empty the cache, Get changes nothing.       *)
(* Besides the calls, an item may disappear only because it has expired,   *)
(* or because a Set into a cache of Options.MaxEntries items makes room by *)
(* dropping one other item.  Values are left out: nothing here reads them. *)
(***************************************************************************)
EXTENDS Naturals, FiniteSets, Functions, TLC

CONSTANTS
    Clients,    \* goroutines using the cache (model values)
    Keys,       \* cache keys
    TTLs,       \* ttl arguments of Set (0 means Options.TTL)
    DefaultTTL, \* Options.TTL
    MaxEntries, \* Options.MaxEntries (0: no limit)
    MaxTime     \* model bound: last tick of the clock

VARIABLES
    store,    \* the keys in the cache -> their expiry instant
    now,      \* the clock
    pending   \* pending[c]: the call c has started and not yet taken effect

avars == <<store, now, pending>>

Idle == [op |-> "idle"]

Requests ==
    {[op |-> "get", key |-> k] : k \in Keys}
    \cup {[op |-> "set", key |-> k, ttl |-> t] : k \in Keys, t \in TTLs}
    \cup {[op |-> "delete", key |-> k] : k \in Keys}
    \cup {[op |-> "clear"], [op |-> "close"]}

Init ==
    /\ store = [k \in {} |-> 0]
    /\ now = 0
    /\ pending = [c \in Clients |-> Idle]

Tick ==
    /\ now < MaxTime
    /\ now' = now + 1
    /\ UNCHANGED <<store, pending>>

\* A client calls a method of the cache.
Invoke(c) ==
    /\ pending[c] = Idle
    /\ \E r \in Requests : pending' = [pending EXCEPT ![c] = r]
    /\ UNCHANGED <<store, now>>

Return(c, to) == pending' = [pending EXCEPT ![c] = to]

\* Get: the value of an unexpired item, or an error; the cache is unchanged.
Get(c) ==
    /\ pending[c].op = "get"
    /\ Return(c, Idle)
    /\ UNCHANGED <<store, now>>

\* The keys a Set may keep besides its own: all of them, or, when the cache
\* is full, all but one.
Kept ==
    IF MaxEntries > 0 /\ Cardinality(DOMAIN store) >= MaxEntries
       THEN {DOMAIN store} \cup {DOMAIN store \ {j} : j \in DOMAIN store}
       ELSE {DOMAIN store}

\* Set(key, value, ttl).
Set(c) ==
    LET r == pending[c]
        ttl == IF r.ttl = 0 THEN DefaultTTL ELSE r.ttl
    IN /\ r.op = "set"
       /\ \E keep \in Kept :
             store' = (r.key :> now + ttl) @@ Restrict(store, keep)
       /\ Return(c, Idle)
       /\ UNCHANGED now

\* Delete(key).
Delete(c) ==
    /\ pending[c].op = "delete"
    /\ store' = Restrict(store, DOMAIN store \ {pending[c].key})
    /\ Return(c, Idle)
    /\ UNCHANGED now

\* Clear.
Clear(c) ==
    /\ pending[c].op = "clear"
    /\ store' = [k \in {} |-> 0]
    /\ Return(c, Idle)
    /\ UNCHANGED now

\* Close: the cache is emptied and no longer used by this client.
Close(c) ==
    /\ pending[c].op = "close"
    /\ store' = [k \in {} |-> 0]
    /\ Return(c, [op |-> "closed"])
    /\ UNCHANGED now

\* Expired items leave the cache, any number at a time.
Expire ==
    \E gone \in SUBSET {k \in DOMAIN store : store[k] < now} :
        /\ gone # {}
        /\ store' = Restrict(store, DOMAIN store \ gone)
        /\ UNCHANGED <<now, pending>>

Next ==
    \/ Tick \/ Expire
    \/ \E c \in Clients :
          Invoke(c) \/ Get(c) \/ Set(c) \/ Delete(c) \/ Clear(c) \/ Close(c)

Spec == Init /\ [][Next]_avars

=============================================================================
