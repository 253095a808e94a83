---------------------------- MODULE EtcdRegistry ----------------------------
(***************************************************************************)
(* The etcd service registry of registry/etcd/registry.go, shared by the  *)
(* services of one process, against an etcd that keeps leases and keys.   *)
(*                                                                         *)
(* Register and Deregister hold r.mutex across their RPCs, so each call is *)
(* one step.  An RPC can fail before etcd applies it or after (a timed-out *)
(* ctx, a lost reply): each call is a choice over where it stopped.  A     *)
(* failed Grant that etcd never applied changes nothing and is left out.   *)
(*                                                                         *)
(* Leases count down in ticks.  KeepAlive(r.ctx, id) refreshes a lease     *)
(* until r.ctx is cancelled, or until etcd has heard no keepalive for a    *)
(* whole TTL (a partition, an etcd restart) and expires the lease: the     *)
(* library then closes keepAliveCh.  The goroutine Register starts only    *)
(* drains the responses and returns on the close or with the context, so  *)
(* it is not a process of its own; nothing registers the service again.    *)
(* Each service follows the lifecycle of the example program: Register    *)
(* (retried on error), then Deregister (retried on error).                 *)
(*                                                                         *)
(* One client discovers the service as the example program does:          *)
(* GetService, then Watch, then Next in a loop.  etcd sends the watch one  *)
(* response per change: the Puts and the deletions of the change.          *)
(***************************************************************************)
EXTENDS Naturals, Sequences, FiniteSets, Functions, TLC

CONSTANTS
    Services,  \* service instances registered through the Registry
    TTL,       \* int64(r.ttl.Seconds()), in ticks
    MaxLeases, \* model bound: leases granted in a behaviour
    KeepAliveMayFail \* whether a kept lease can be lost (keepalives cut off for a TTL)

ASSUME TTL \in Nat \ {0} /\ MaxLeases \in Nat

VARIABLES
    leases,     \* etcd: live lease id -> ticks left before it expires
    kv,         \* etcd: service key -> the lease it is attached to
    nextLease,  \* leases granted so far (ids are 1..nextLease)
    leaseID,    \* r.leaseID (0: none)
    kept,       \* leases passed to KeepAlive(r.ctx, ...)
    cancelled,  \* r.ctx is done: r.cancel() has been called
    phase,      \* phase[s]: "new", "up", "leaving" or "down"
    dpc,        \* the discovering client: "list", "watch", "next" or "stopped"
    found,      \* the services its GetService returned
    wch,        \* w.wch: the watch responses not yet taken by Next
    reported    \* the services Next has returned

vars == <<leases, kv, nextLease, leaseID, kept, cancelled, phase,
          dpc, found, wch, reported>>

\* The client library keeps the lease alive while r.ctx is live.
KeptAlive(l) == l \in kept /\ ~cancelled

\* etcd deletes the leases gone and every key attached to one of them
\* (Revoke or expiry).
KeysAfter(gone) == Restrict(kv, {s \in DOMAIN kv : kv[s] \notin gone})

\* New(client, opts...): the Options (prefix, TTL) are fixed by the
\* constants; r.ctx is live and no lease is held.
Init ==
    /\ leases = <<>>
    /\ kv = <<>>
    /\ nextLease = 0
    /\ leaseID = 0
    /\ kept = {}
    /\ cancelled = FALSE
    /\ phase = [s \in Services |-> "new"]
    /\ dpc = "list"
    /\ found = {}
    /\ wch = <<>>
    /\ reported = {}

\* etcd notifies an open watch on the service prefix of a change of kv:
\* one response with a Put for every key written and a Delete for every
\* key removed.
Notify ==
    LET puts == {s \in DOMAIN kv' : s \notin DOMAIN kv \/ kv'[s] # kv[s]}
        dels == DOMAIN kv \ DOMAIN kv'
        resp == {[type |-> "put", s |-> s] : s \in puts}
                   \cup {[type |-> "delete", s |-> s] : s \in dels}
    IN wch' = IF dpc = "next" /\ resp # {} THEN Append(wch, resp) ELSE wch

(***************************************************************************)
(* One tick of etcd's clock: kept leases are refreshed to their TTL, the   *)
(* others count down and expire with their keys.  Time passing only        *)
(* matters while some lease is not kept alive.                             *)
(***************************************************************************)
Tick ==
    LET expiring == {l \in DOMAIN leases : ~KeptAlive(l) /\ leases[l] = 1}
    IN /\ \E l \in DOMAIN leases : ~KeptAlive(l)
       /\ leases' = [l \in DOMAIN leases \ expiring |->
                        IF KeptAlive(l) THEN TTL ELSE leases[l] - 1]
       /\ kv' = KeysAfter(expiring)
       /\ Notify
       /\ UNCHANGED <<nextLease, leaseID, kept, cancelled, phase, dpc, found, reported>>

\* No keepalive reaches etcd for a TTL: the lease expires with its keys and
\* keepAliveCh is closed; the drain goroutine returns (!ok).
KeepAliveLost(l) ==
    /\ KeepAliveMayFail
    /\ KeptAlive(l)
    /\ l \in DOMAIN leases
    /\ leases' = Restrict(leases, DOMAIN leases \ {l})
    /\ kv' = KeysAfter({l})
    /\ kept' = kept \ {l}
    /\ Notify
    /\ UNCHANGED <<nextLease, leaseID, cancelled, phase, dpc, found, reported>>

(***************************************************************************)
(* Register(s): Grant(ttl), Put(key, value, WithLease(id)),                *)
(* KeepAlive(r.ctx, id), then r.leaseID = id and the response goroutine.   *)
(* A call that fails returns its error and leaves r.leaseID alone; etcd    *)
(* keeps what it applied: a lease without the key (Grant applied, Put      *)
(* failed or its reply lost), or the key on a lease nobody keeps alive     *)
(* (Put applied, its reply lost or KeepAlive failed).                      *)
(***************************************************************************)
\* Mutant: the key is put on r.leaseID instead of the new grant.
RegisterPutsOnOldLease(s) ==
    LET id == nextLease + 1 IN
    /\ phase[s] = "new"
    /\ nextLease < MaxLeases
    /\ nextLease' = id
    /\ leases' = (id :> TTL) @@ leases
    /\ \/ /\ UNCHANGED <<kv, leaseID, kept, phase>>
       \/ /\ kv' = (s :> leaseID) @@ kv
          /\ UNCHANGED <<leaseID, kept, phase>>
       \/ /\ kv' = (s :> leaseID) @@ kv
          /\ kept' = kept \cup {id}
          /\ leaseID' = id
          /\ phase' = [phase EXCEPT ![s] = "up"]
    /\ Notify
    /\ UNCHANGED <<cancelled, dpc, found, reported>>

Register(s) ==
    LET id == nextLease + 1 IN
    /\ phase[s] = "new"
    /\ nextLease < MaxLeases
    /\ nextLease' = id
    /\ leases' = (id :> TTL) @@ leases
    /\ \/ /\ UNCHANGED <<kv, leaseID, kept, phase>>
       \/ /\ kv' = (s :> id) @@ kv
          /\ UNCHANGED <<leaseID, kept, phase>>
       \/ /\ kv' = (s :> id) @@ kv
          /\ kept' = kept \cup {id}
          /\ leaseID' = id
          /\ phase' = [phase EXCEPT ![s] = "up"]
    /\ Notify
    /\ UNCHANGED <<cancelled, dpc, found, reported>>

(***************************************************************************)
(* Deregister(s): Revoke(r.leaseID) when it is not 0, returning its error; *)
(* then r.cancel(), which ends every KeepAlive of the Registry.  A Revoke  *)
(* of a lease etcd no longer has fails with ErrLeaseNotFound.  The revoke  *)
(* may also be applied with its reply lost.                                *)
(***************************************************************************)
\* Mutant: Deregister only cancels r.ctx.
DeregisterSkipsRevoke(s) ==
    /\ phase[s] \in {"up", "leaving"}
    /\ UNCHANGED <<nextLease, leaseID, kept, dpc, found, reported>>
    /\ \/ /\ phase' = [phase EXCEPT ![s] = "leaving"]
          /\ UNCHANGED <<leases, kv, cancelled>>
       \/ /\ leaseID \in DOMAIN leases
          /\ leases' = Restrict(leases, DOMAIN leases \ {leaseID})
          /\ kv' = KeysAfter({leaseID})
          /\ phase' = [phase EXCEPT ![s] = "leaving"]
          /\ UNCHANGED cancelled
       \/ /\ leaseID = 0 \/ leaseID \in DOMAIN leases
          /\ UNCHANGED <<leases, kv>>
          /\ cancelled' = TRUE
          /\ phase' = [phase EXCEPT ![s] = "down"]
    /\ Notify

Deregister(s) ==
    /\ phase[s] \in {"up", "leaving"}
    /\ UNCHANGED <<nextLease, leaseID, kept, dpc, found, reported>>
    /\ \/ /\ phase' = [phase EXCEPT ![s] = "leaving"]
          /\ UNCHANGED <<leases, kv, cancelled>>
       \/ /\ leaseID \in DOMAIN leases
          /\ leases' = Restrict(leases, DOMAIN leases \ {leaseID})
          /\ kv' = KeysAfter({leaseID})
          /\ phase' = [phase EXCEPT ![s] = "leaving"]
          /\ UNCHANGED cancelled
       \/ /\ leaseID = 0 \/ leaseID \in DOMAIN leases
          /\ leases' = Restrict(leases, DOMAIN leases \ {leaseID})
          /\ kv' = KeysAfter({leaseID})
          /\ cancelled' = TRUE
          /\ phase' = [phase EXCEPT ![s] = "down"]
    /\ Notify

\* Every service is down, or gave up registering at the lease bound, and
\* every lease has run out.
Terminated ==
    /\ \A s \in Services : phase[s] = "down" \/ (phase[s] = "new" /\ nextLease = MaxLeases)
    /\ DOMAIN leases = {}
    /\ wch = <<>> \/ dpc = "stopped"
    /\ UNCHANGED vars

(***************************************************************************)
(* GetService: Get of the service prefix; every value is a valid          *)
(* ServiceInstance, so the instances returned are the keys present.  A    *)
(* failed Get returns its error, which the example logs before it goes on *)
(* to Watch.                                                               *)
(***************************************************************************)
GetService ==
    /\ dpc = "list"
    /\ dpc' = "watch"
    /\ \/ found' = DOMAIN kv
       \/ UNCHANGED found
    /\ UNCHANGED <<leases, kv, nextLease, leaseID, kept, cancelled, phase, wch, reported>>

\* Watch: newWatcher opens client.Watch on the prefix from now on.
Watch ==
    /\ dpc = "watch"
    /\ dpc' = "next"
    /\ UNCHANGED <<leases, kv, nextLease, leaseID, kept, cancelled, phase, found, wch, reported>>

(***************************************************************************)
(* watcher.Next: take one response and return the instance of every Put   *)
(* event; Delete events are skipped (continue).                            *)
(***************************************************************************)
\* Mutant: the event filter is inverted.
WatcherNextInverted ==
    LET resp == Head(wch) IN
    /\ dpc = "next"
    /\ wch # <<>>
    /\ reported' = reported \cup {e.s : e \in {e \in resp : e.type = "delete"}}
    /\ wch' = Tail(wch)
    /\ UNCHANGED <<leases, kv, nextLease, leaseID, kept, cancelled, phase, dpc, found>>

WatcherNext ==
    LET resp == Head(wch) IN
    /\ dpc = "next"
    /\ wch # <<>>
    /\ reported' = reported \cup {e.s : e \in {e \in resp : e.type = "put"}}
    /\ wch' = Tail(wch)
    /\ UNCHANGED <<leases, kv, nextLease, leaseID, kept, cancelled, phase, dpc, found>>

\* watcher.Stop cancels the watch context: the watch ends and Next returns
\* ctx.Err() from then on.
WatcherStop ==
    /\ dpc = "next"
    /\ dpc' = "stopped"
    /\ wch' = <<>>
    /\ UNCHANGED <<leases, kv, nextLease, leaseID, kept, cancelled, phase, found, reported>>

Next ==
    \/ Tick
    \/ \E l \in 1..MaxLeases : KeepAliveLost(l)
    \/ \E s \in Services : Register(s) \/ Deregister(s)
    \/ GetService \/ Watch \/ WatcherNext \/ WatcherStop
    \/ Terminated

(***************************************************************************)
(* etcd's clock keeps running: Tick is weakly fair.  The discovering      *)
(* goroutine calls Next in an endless loop: WatcherNext is weakly fair.   *)
(* Services call when their program decides to, so Register and           *)
(* Deregister are not.                                                     *)
(***************************************************************************)
Spec == Init /\ [][Next]_vars /\ WF_vars(Tick) /\ WF_vars(WatcherNext)

-----------------------------------------------------------------------------
(***************************************************************************)
(* Properties                                                              *)
(***************************************************************************)

TypeOK ==
    /\ leases \in [DOMAIN leases -> 1..TTL]
    /\ DOMAIN leases \subseteq 1..nextLease
    /\ kv \in [DOMAIN kv -> DOMAIN leases]
    /\ DOMAIN kv \subseteq Services
    /\ leaseID \in 0..nextLease
    /\ kept \subseteq 1..nextLease
    /\ phase \in [Services -> {"new", "up", "leaving", "down"}]
    /\ dpc \in {"list", "watch", "next", "stopped"}
    /\ found \cup reported \subseteq Services

(* A service whose Register returned nil, and that has not begun to       *)
(* Deregister, stays discoverable: its key is in etcd, whatever the other  *)
(* services of the Registry register or deregister and however time goes.  *)
(* It fails with two services (EtcdRegistryShared.cfg) and with a lost     *)
(* lease (EtcdRegistryLeaseLost.cfg); no run of its own.                   *)
RegisteredStaysAlive ==
    \A s \in Services : phase[s] = "up" => s \in DOMAIN kv

(* Once Deregister(s) has returned nil, the key of s is gone from etcd:    *)
(* clients discovering the service no longer see it.                       *)
DeregisteredGone ==
    \A s \in Services : phase[s] = "down" => s \notin DOMAIN kv

(* The watch reports every registration it is sent: once etcd has sent an *)
(* open watch the Put of a service's key, Next eventually returns that    *)
(* instance, unless the watcher is stopped first.                          *)
WatchReportsPut ==
    \A s \in Services :
       (\E i \in 1..Len(wch) : [type |-> "put", s |-> s] \in wch[i])
          ~> (s \in reported \/ dpc = "stopped")

====
