----------------------------- MODULE EtcdConfig -----------------------------
(***************************************************************************)
(* The etcd configuration source of config/etcd/config.go: the values map, *)
(* one watch goroutine per Watch with its buffered channel, the watcher's  *)
(* Next and Stop, Config.Close and Load, against an etcd whose Puts and    *)
(* Deletes reach every watch on the key in order.                          *)
(*                                                                         *)
(* The watch goroutine reads c.values without the lock (the PreValue and   *)
(* the Create/Update choice), then stores the value under the lock, then   *)
(* sends on its channel: three steps.  Load reads etcd and then replaces   *)
(* c.values under the lock: two steps.  A send on a closed channel panics  *)
(* and the process dies; nothing happens after it.                         *)
(*                                                                         *)
(* The values are valid JSON and the default parser maps {key: value} to   *)
(* {key: value}, so a Put carries its value through unchanged; a Delete    *)
(* carries an empty value, which json.Unmarshal rejects.                   *)
(***************************************************************************)
EXTENDS Naturals, Sequences, FiniteSets, Functions, TLC

CONSTANTS
    Watchers,   \* watchers handed out by Watch (model values)
    Keys,       \* configuration keys, full etcd paths (model values)
    Vals,       \* values stored in etcd (model values)
    None,       \* no value (model value)
    MaxEvents   \* model bound: Puts and Deletes made in etcd

ASSUME None \notin Vals /\ MaxEvents \in Nat

VARIABLES
    store,     \* etcd: key -> value, or None
    nev,       \* Puts and Deletes so far
    values,    \* c.values: key -> value
    watches,   \* c.watches, flattened: the watchers whose channel is listed
    wkey,      \* wkey[w]: the key w watches, or None before Watch
    events,    \* events[w]: etcd events not yet taken by w's goroutine
    gpc,       \* gpc[w]: what w's goroutine is doing
    chan,      \* chan[w]: the changes buffered in w's channel (capacity 1)
    closes,    \* closes[w]: times close(ch) has been called on w's channel
    loader,    \* Load in progress: [busy, snap], snap the response of its Get
    panicked   \* a goroutine sent on a closed channel

vars == <<store, nev, values, watches, wkey, events, gpc, chan, closes,
          loader, panicked>>

Idle == [stage |-> "idle"]

\* c.values[k], the zero value when absent.
ValueOf(k) == IF k \in DOMAIN values THEN values[k] ELSE None

\* What etcd holds, as the map Load builds from the Get response.
Snapshot == [k \in {j \in Keys : store[j] # None} |-> store[k]]

\* New(client, opts...): the Options (prefix, TTL, parser) are fixed by the
\* constants; the values and watches maps start empty.
Init ==
    /\ store = [k \in Keys |-> None]
    /\ nev = 0
    /\ values = <<>>
    /\ watches = {}
    /\ wkey = [w \in Watchers |-> None]
    /\ events = [w \in Watchers |-> <<>>]
    /\ gpc = [w \in Watchers |-> Idle]
    /\ chan = [w \in Watchers |-> <<>>]
    /\ closes = [w \in Watchers |-> 0]
    /\ loader = [busy |-> FALSE, snap |-> <<>>]
    /\ panicked = FALSE

\* Every step is taken by a live process.
Alive == ~panicked

(***************************************************************************)
(* etcd: a Put or a Delete of key k, delivered to every watch on k whose   *)
(* goroutine is still selecting on it.                                     *)
(***************************************************************************)
Publish(k, ev) ==
    events' = [w \in Watchers |->
                 IF wkey[w] = k /\ gpc[w].stage # "exited"
                    THEN Append(events[w], ev) ELSE events[w]]

EtcdPut(k, v) ==
    /\ Alive /\ nev < MaxEvents
    /\ store' = [store EXCEPT ![k] = v]
    /\ nev' = nev + 1
    /\ Publish(k, [type |-> "put", key |-> k, val |-> v])
    /\ UNCHANGED <<values, watches, wkey, gpc, chan, closes, loader, panicked>>

EtcdDelete(k) ==
    /\ Alive /\ nev < MaxEvents
    /\ store[k] # None
    /\ store' = [store EXCEPT ![k] = None]
    /\ nev' = nev + 1
    /\ Publish(k, [type |-> "delete", key |-> k, val |-> None])
    /\ UNCHANGED <<values, watches, wkey, gpc, chan, closes, loader, panicked>>

(***************************************************************************)
(* Watch(ctx, key): make(chan *Change, 1), appended to c.watches[key]      *)
(* under the lock, and go c.watch(...), whose client.Watch sees the events *)
(* from now on.                                                            *)
(***************************************************************************)
Watch(w) ==
    /\ Alive
    /\ wkey[w] = None
    /\ \E k \in Keys : wkey' = [wkey EXCEPT ![w] = k]
    /\ watches' = watches \cup {w}
    /\ UNCHANGED <<store, nev, values, events, gpc, chan, closes, loader, panicked>>

(***************************************************************************)
(* c.watch takes the next event.  A Delete's empty value fails             *)
(* json.Unmarshal and is skipped (continue).  For a Put, the change is     *)
(* built from c.values read without the lock: PreValue, and Update when    *)
(* the key is present, Create otherwise.                                   *)
(***************************************************************************)
GoRecv(w) ==
    LET ev == Head(events[w]) IN
    /\ Alive
    /\ gpc[w] = Idle
    /\ events[w] # <<>>
    /\ events' = [events EXCEPT ![w] = Tail(@)]
    /\ gpc' = IF ev.type = "delete" THEN gpc
              ELSE [gpc EXCEPT ![w] =
                      [stage |-> "store", key |-> ev.key, val |-> ev.val,
                       pre |-> ValueOf(ev.key),
                       type |-> IF ev.key \in DOMAIN values THEN "update"
                                                          ELSE "create"]]
    /\ UNCHANGED <<store, nev, values, watches, wkey, chan, closes, loader, panicked>>

\* c.mu.Lock(); c.values[k] = v; c.mu.Unlock()
GoStore(w) ==
    LET g == gpc[w] IN
    /\ Alive
    /\ g.stage = "store"
    /\ values' = (g.key :> g.val) @@ values
    /\ gpc' = [gpc EXCEPT ![w].stage = "send"]
    /\ UNCHANGED <<store, nev, watches, wkey, events, chan, closes, loader, panicked>>

\* Mutant: the channel is treated as unbounded.
GoSendUnbounded(w) ==
    LET g == gpc[w] IN
    /\ Alive
    /\ g.stage = "send"
    /\ \/ /\ closes[w] > 0
          /\ panicked' = TRUE
          /\ UNCHANGED <<chan, gpc>>
       \/ /\ closes[w] = 0
          /\ chan' = [chan EXCEPT ![w] = Append(@, [g EXCEPT !.stage = "sent"])]
          /\ gpc' = [gpc EXCEPT ![w] = Idle]
          /\ UNCHANGED panicked
    /\ UNCHANGED <<store, nev, values, watches, wkey, events, closes, loader>>

(***************************************************************************)
(* ch <- change: panics on a closed channel, blocks while the buffer of    *)
(* one is full.                                                            *)
(***************************************************************************)
GoSend(w) ==
    LET g == gpc[w] IN
    /\ Alive
    /\ g.stage = "send"
    /\ \/ /\ closes[w] > 0
          /\ panicked' = TRUE
          /\ UNCHANGED <<chan, gpc>>
       \/ /\ closes[w] = 0
          /\ Len(chan[w]) < 1
          /\ chan' = [chan EXCEPT ![w] = Append(@, [g EXCEPT !.stage = "sent"])]
          /\ gpc' = [gpc EXCEPT ![w] = Idle]
          /\ UNCHANGED panicked
    /\ UNCHANGED <<store, nev, values, watches, wkey, events, closes, loader>>

\* The select's ctx.Done() case: the caller cancelled the Watch context.
GoExit(w) ==
    /\ Alive
    /\ wkey[w] # None
    /\ gpc[w] = Idle
    /\ gpc' = [gpc EXCEPT ![w] = [stage |-> "exited"]]
    /\ UNCHANGED <<store, nev, values, watches, wkey, events, chan, closes, loader, panicked>>

\* watcher.Next: receive a buffered change (a closed, empty channel
\* returns ErrNotFound and changes nothing).
WatcherNext(w) ==
    /\ Alive
    /\ chan[w] # <<>>
    /\ chan' = [chan EXCEPT ![w] = Tail(@)]
    /\ UNCHANGED <<store, nev, values, watches, wkey, events, gpc, closes, loader, panicked>>

\* Mutant: Stop closes the channel but leaves it in c.watches.
StopKeepsEntry(w) ==
    /\ Alive
    /\ w \in watches
    /\ closes' = [closes EXCEPT ![w] = @ + 1]
    /\ UNCHANGED <<store, nev, values, watches, wkey, events, gpc, chan, loader, panicked>>

(***************************************************************************)
(* watcher.Stop: under the lock, remove w's channel from c.watches[key]    *)
(* and close it; a channel no longer listed is left alone.  The goroutine  *)
(* is not told: its context is the caller's.                               *)
(***************************************************************************)
Stop(w) ==
    /\ Alive
    /\ w \in watches
    /\ watches' = watches \ {w}
    /\ closes' = [closes EXCEPT ![w] = @ + 1]
    /\ UNCHANGED <<store, nev, values, wkey, events, gpc, chan, loader, panicked>>

\* Config.Close: under the lock, close every listed channel and reset
\* c.watches.  The goroutines keep running.
Close ==
    /\ Alive
    /\ watches # {}
    /\ closes' = [w \in Watchers |-> IF w \in watches THEN closes[w] + 1 ELSE closes[w]]
    /\ watches' = {}
    /\ UNCHANGED <<store, nev, values, wkey, events, gpc, chan, loader, panicked>>

\* Load: client.Get of the prefix, outside the lock.
LoadGet ==
    /\ Alive
    /\ ~loader.busy
    /\ loader' = [busy |-> TRUE, snap |-> Snapshot]
    /\ UNCHANGED <<store, nev, values, watches, wkey, events, gpc, chan, closes, panicked>>

\* Load, under the lock: c.values = make(...), then every key of the response.
LoadApply ==
    /\ Alive
    /\ loader.busy
    /\ values' = loader.snap
    /\ loader' = [busy |-> FALSE, snap |-> <<>>]
    /\ UNCHANGED <<store, nev, watches, wkey, events, gpc, chan, closes, panicked>>

\* The process has died of the panic.
Crashed ==
    /\ panicked
    /\ UNCHANGED vars

Next ==
    \/ \E k \in Keys : EtcdDelete(k) \/ \E v \in Vals : EtcdPut(k, v)
    \/ \E w \in Watchers :
          \/ Watch(w) \/ GoRecv(w) \/ GoStore(w) \/ GoSend(w) \/ GoExit(w)
          \/ WatcherNext(w) \/ Stop(w)
    \/ Close \/ LoadGet \/ LoadApply
    \/ Crashed

Spec == Init /\ [][Next]_vars

-----------------------------------------------------------------------------
(***************************************************************************)
(* Properties                                                              *)
(***************************************************************************)

(* Types; and no channel ever buffers more than the one change its         *)
(* make(chan *config.Change, 1) allows.                                    *)
TypeOK ==
    /\ store \in [Keys -> Vals \cup {None}]
    /\ values \in [DOMAIN values -> Vals]
    /\ DOMAIN values \subseteq Keys
    /\ watches \subseteq {w \in Watchers : wkey[w] # None}
    /\ \A w \in Watchers : Len(chan[w]) <= 1
    /\ panicked \in BOOLEAN

(* No channel is closed twice: watcher.Stop and Config.Close, called in    *)
(* any order and any number of times, each close a channel only while it  *)
(* is listed in c.watches, and unlist it as they close it.                 *)
NoDoubleClose ==
    \A w \in Watchers : closes[w] <= 1

(* No watch goroutine sends on a closed channel: once Stop or Close has   *)
(* closed a watcher's channel, no change is sent on it (a send would      *)
(* panic and bring the process down).                                      *)
NoSendOnClosed == ~panicked

====
