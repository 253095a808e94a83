# TLA+ models of blade's concurrent components

This directory holds TLA+ specifications of the concurrent parts of
`github.com/huangsc/blade` (sources under `src/`) and the TLC configurations
that check them. Each module was written from the Go code, and
`PROJECT.json` maps every definition to the lines it models.

## The system

blade is a toolkit of service-side building blocks. The parts with real
concurrent state are these:

| Part | Source | State | Operations | Concurrency |
|---|---|---|---|---|
| Circuit breaker | `circuitbreaker/circuit.go`, `breaker.go` | `state`, `counts`, `generation.ExpiredAt` | `Allow`, `Success`, `Failure`, `setState`, `toNewGeneration`, `Execute` | One mutex. Callers interleave between `Allow` and the `done` callback that reports the outcome. |
| Token bucket | `ratelimit/token_bucket.go` | per key: `last`, `tokens` | `AllowN`, `ReserveN`, `WaitN` | One mutex. `time.Now()` is read before the lock. `WaitN` takes the lock twice. |
| Sliding window | `ratelimit/sliding_window.go` | per key: `[]window{timestamp, count}` | `AllowN`, `ReserveN`, `WaitN` | Same as the token bucket. |
| Redis token bucket | `ratelimit/redis_limiter.go` | a Redis hash per key: `last`, `tokens`, plus a TTL | a Lua script run by `EVAL`, wrapped by `AllowN`, `ReserveN`, `WaitN` | Many clients. Each script run is atomic, but requests reach Redis in any order and replies can be lost. |
| In-memory cache | `cache/memory.go` | `items`, the janitor goroutine | `Get`, `Set` (with `evict`), `Delete`, `Clear`, `Close`, janitor `clean` | One RWMutex. `Get` reads, unlocks, then may call `Delete`. |
| etcd registry | `registry/etcd/registry.go`, `watcher.go` | `leaseID`, a root context, keepalive goroutines, a watch channel | `Register` (Grant, Put, KeepAlive), `Deregister` (Revoke, cancel), `GetService`, `Watch`, `watcher.Next`/`Stop` | One mutex around RPCs that can each fail. |
| etcd config | `config/etcd/config.go` | `values`, `watches` | `Load`, `Get`, `Watch` (a goroutine per watch), `watcher.Stop`, `Close` | Watch goroutines race `Stop`/`Close` on shared channels. |
| Redis cache | `cache/redis.go`, `cache/cache.go` | Redis keys holding encoded `Item`s, with a Redis TTL | `Get`, `Set`, `Delete`, `Clear`, `Keys` | No lock. Each Redis command is atomic, and the methods call one another (`Get` → `Delete` → `Get`, `Clear` → `Get`). |
| Kafka producer and consumer | `mq/kafka.go`, driven by `examples/mq/main.go` | a delivery channel per send; the consumer's read position, stored and committed offsets | `SendMessage`, `Producer.Close`, `Consume`, `Consumer.Close` | The client library's delivery goroutine races ctx cancellation; the consume loop races the signal that shuts the program down and librdkafka's offset commits. |
| HTTP and gRPC servers | `server/http/server.go`, `server/grpc/server.go`, driven by `examples/server/http`, `examples/server/grpc` | HTTP: `s.server`; gRPC: the listener, the health status | `Start`, `Stop` | `Start` runs in a goroutine while main waits for a signal and calls `Stop`. The HTTP `s.server` is written by one and read by the other with no synchronisation. |
| Authentication | `auth/jwt.go`, `auth/middleware.go`, `auth/grpc.go`, `middleware/middleware.go`, driven by `examples/auth` | the tokens signed with the secret, the clock, an open `ListUsers` stream | `GenerateToken`, `ValidateToken`, `AuthMiddleware`, `RequireRole`, the server interceptors and `authenticateRequest`, `Chain`, `Recovery` | Requests share only the tokens and the clock. A stream is authenticated once when it opens and then outlives the check. |
| Tracing | `tracing/otel.go`, `tracing/tracing.go`, driven by `examples/tracing/kafka`, `examples/tracing/grpc`, `examples/tracing/redis` and `examples/tracing/main.go` | per program: the spans it started, its batch span processor's queue and timer; the Kafka queue and topic, the gRPC calls, or the Redis keys; the collector | `Start`, `End`, `SetError`, `Inject`, `Extract`, the processor's timed export | A producer and a consumer process, linked only by the message headers; or a gRPC client and server, linked by the call metadata; or two copies of the Redis example sharing one Redis; or the HTTP example's handler goroutines. Each has its own `TracerProvider`, each processor exports from its own goroutine, and a program can return at any time. |
| Breaker example | `examples/circuitbreaker/main.go` | four batches of goroutines and a sleep | `Execute`, the two-step `Allow`/`done` | Goroutines of one batch interleave on the breaker; `wg.Wait` separates the batches. |

The three limiters share the `Limiter` contract of `ratelimit/ratelimiter.go`
(`Allow`/`Wait`/`Reserve` and their `N` variants, `Reservation`). They do
not interact with each other or with the breaker. An application composes
them only through its own request path, so each is modelled alone.

Two interfaces get an abstract specification of what they promise, and
an implementation is checked against it with `INSTANCE ... WITH`:
- the `Limiter` interface served by a token bucket (`TokenBucketSpec`),
  implemented by `TokenBucket`;
- the `Cache` interface (`CacheSpec`), against which `MemoryCache` is
  checked.

What is left out, and why, is listed under "Not modelled" below.

### What makes each part correct

- **Breaker:**
  - it trips whenever `readyToTrip` accepts the counts;
  - it rejects while Open until the timeout has passed;
  - after the timeout it admits a probe (Half-Open);
  - it limits concurrent probes to `maxRequests`.
  - These must hold even though outcomes arrive after the lock is released, from requests admitted in an earlier state or generation.
- **Limiters:**
  - over any span of time, what is granted stays within the limiter's contract (burst + rate × span for buckets, rate × window for the window);
  - `Wait` returns only when its quota is due;
  - a call that returns an error has committed nothing (spec 4.5, 7).
  - These must hold when callers' clock readings reach the lock, or Redis, out of order.
- **Cache:**
  - the size stays bounded by `MaxEntries`;
  - an expired-read never deletes a fresh value;
  - `Close` returns (checked by deadlock freedom: the stopCh send always meets the janitor);
  - expired items are eventually cleaned.
- **Redis cache:**
  - an item is never born expired (a ttl of 0 takes `Options.TTL`);
  - the calls the methods make of one another end;
  - `Clear` removes everything stored before it was called.
- **Registry:**
  - a registered service keeps its key until it deregisters, even when its KeepAlive stream ends;
  - once `Deregister` has returned nil, the service's key is gone.
  - Both must hold whatever the other services on the same Registry do, and when any RPC fails, whether before etcd applies it or after.
- **Kafka:**
  - `SendMessage` returns nil only for a message the broker has appended;
  - the consumer goes on reading through timeouts and transient broker errors, and reaches every message unless told to stop;
  - no delivery report is sent on a closed channel;
  - a committed offset covers only handled messages.
- **Config:**
  - no send on a closed channel;
  - no channel closed twice;
  - `c.values` and every change a watcher sees (its `PreValue`, Create or Update, Delete) agree with etcd.
- **Authentication:**
  - a handler answers only a request whose token was signed with the secret and was unexpired when checked;
  - the admin routes and RPCs answer admins only, and a user's own record is readable and writable by that user or an admin;
  - no route reaches a handler that needs claims without the middleware that sets them.
- **Tracing:**
  - a consumer span is a child of the span that produced its message, in the same trace, and a gRPC server span a child of the client's call span;
  - a client call span ends without an error only after the server's spans of that call have ended;
  - two copies of the Redis example never lose an increment of `tx_counter`;
  - within a program a span ends only after the spans started under it, and a failed database query in the HTTP example makes the request's root span an error;
  - every span a program starts is ended, on the error paths too;
  - every ended span reaches the exporter;
  - a produce span without an error stands for a delivered message.
- **Servers:**
  - a server told to shut down never listens again, whenever `Start`'s steps run;
  - a `Stop` that returns nil has stopped the server, and a `Stop` that drained returned nil only after every request finished;
  - `Stop` returns by its ctx's deadline.

## Modules

### `CircuitBreaker` (models `circuit.go`, `breaker.go`)

**Variables:**
- `state`, `counts`: the struct fields.
- `ttl = generation.ExpiredAt − now`. The code only asks `ExpiredAt.Before(now)`, so ttl is clamped at −1.
- `interval`: `c.interval`, chosen once by `NewBreaker`.
- `pc[c]`: the state that admitted caller `c` while its `fn()` runs, or `"idle"`.

**Actions:**
- `Allow` is split by branch:
  - `AllowClosed`;
  - `AllowOpenReject`;
  - `AllowOpenProbe`;
  - `AllowHalfOpen`, which covers both the admit and the `ErrTooManyRequests` branch.
- Each branch first applies the rollover (`GenCounts`, `GenTTL`) exactly as lines 119–120 do, and then decides on the state read before it.
- `Success` and `Failure` are the `done` callback. They run `setState` (`SetState`), including its same-state no-op.
- `Tick` is time passing.

### `TokenBucket` (models `token_bucket.go`)

**Variables:**
- `buckets`: a partial function key → `[last, tokens]`.
- `now`.
- `pc[c]`: the call in progress, with the timestamp it read before locking.
- `calls`.
- `ledger`: a history of grants. Each entry is dated by the caller's timestamp, plus the debt for reservations. Times are scaled by `Rate` so fractional waits stay integral.

**Actions:**
- `Call`: the wrapper reads `time.Now()`.
- `AllowN`: `AllowStep`, with three disjuncts: `n ≤ 0`, deny (the refill is stored), grant.
- `ReserveN`: `ReserveStep`. It always takes the tokens, going negative.
- `WaitAllow` and `WaitReserve`: the two locked steps of `WaitN`. `delay = DelayFrom − now` is 0, so `WaitN` returns after the second step.

### `SlidingWindow` (models `sliding_window.go`)

**Variables:**
- `windows`: key → (bucket timestamp → count). The code upserts by timestamp, so a function is exact.
- `now`, `pc`, `calls`.
- `ledger`: the AllowN grants.
- `panicked`: the integer division by zero happened. The deferred `Unlock` still runs. The middleware's `recover` keeps a server alive, so the model goes on.

**Actions:**
- `AllowStep` translates lines 63–124:
  - `n ≤ 0`;
  - prune and refuse;
  - within capacity: either panic (`precisionSeconds = 0`) or upsert.
- `ReserveN` prunes and stores, but adds nothing.
- `WaitAllow` and `WaitReserve` are the two steps of `WaitN`.

### `RedisLimiter` (models `redis_limiter.go`)

**Variables:**
- `store`: key → `[last, tokens, expireAt]`. A key is visible while `now < expireAt`.
- `now`, `pc`, `calls`.
- `ledger`: the AllowN grants.
- `lost`: tokens consumed by calls that returned an error.

**Actions:**
- `RunScript` is one atomic step of `luaScript`: hmget with defaults, `max(0, now−last)`, cap, compare, then hmset + expire only on grant.
- `EvalAllow` is AllowN's EVAL with a good reply.
- `EvalReserve` is ReserveN's EVAL. Its reply always fails the `res[1].(float64)` assertion, because Redis turns Lua numbers into integers.
- `EvalReplyLost` is any EVAL whose reply never arrives after the script ran.
- The wait path goes EvalAllow → EvalReserve, as `WaitN` does.

### `MemoryCache` (models `cache/memory.go`)

- Variables:
  - `items`: key → [expireAt, setAt, created]. `setAt` is the tick of `CreatedAt`, and `created` is its order, since every Set reads a later `time.Now()`.
  - `now`, `seq`, the janitor's state (`running`/`stopped`), each goroutine's `pc`, and an operation count per goroutine.
- Actions:
  - `Begin` starts get, set, delete, clear or close. Nothing starts once a Close has begun.
  - `GetRead` is `Get`'s lookup under RLock. An expired hit goes on to `getdelete`.
  - `DeleteKey` serves both `Delete` and `Get`'s expired path. It takes the lock afresh.
  - `Set` replaces a ttl of 0 by `Options.TTL`. When the map is full it evicts, then stores.
    - `EvictResults` is every map `evict` can leave, given Go's random map order: any expired key, else the oldest unless its key is `""`.
  - `Clear`.
  - `JanitorClean` is the ticker's `clean`. A tick with nothing expired changes nothing, so it is not an action.
  - `CloseStop` is the send on the unbuffered `stopCh` that meets the janitor's `select`. `CloseClear` is `Close`'s `Clear`.
- Values, `Keys`, `Len` and `OnEvicted` decide nothing and are left out.

### `EtcdRegistry` (models `registry/etcd/registry.go`)

- Variables:
  - etcd's side: `leases` (lease id → ticks left) and `kv` (service key → lease).
  - the Registry's side: `leaseID` (`r.leaseID`), `kept` (leases given to `KeepAlive(r.ctx, …)`) and `cancelled` (`r.ctx` done).
  - each service's `phase`: new, up, leaving or down.
- Actions:
  - `Register(s)` is one step, because `r.mutex` is held across the RPCs. Its disjuncts are where the call stopped:
    - the lease was granted but not the key (Put failed, or the Grant reply was lost);
    - the key was put but nothing keeps its lease alive (the Put reply was lost, or KeepAlive failed);
    - success, which sets `r.leaseID` and starts KeepAlive.
  - `Deregister(s)` has three outcomes: Revoke not applied, Revoke applied with its reply lost, or success followed by `r.cancel()`.
  - `Tick` refreshes kept leases and counts the rest down. Leases that run out expire with their keys.
  - `KeepAliveLost(l)` (when the constant `KeepAliveMayFail` is TRUE) is the KeepAlive stream of a kept lease ending: etcd lost the lease, or the client's keepalive failed. The drain goroutine at lines 111–122 just returns, so the lease is no longer refreshed; the model lets etcd drop it with its keys in the same step.
- A failed Grant that etcd never applied changes nothing, so it is not an action.
- Discovery, as the example program uses it:
  - `GetService` lists the prefix into `found`, or fails and leaves it;
  - `Watch` (`newWatcher`) starts the etcd watch; `dpc` records where the discovering caller is;
  - `Notify` is etcd's watch stream: each step of `Tick`, `Register` or `Deregister` that changes `kv` appends one response to `wch`, with a put for every key written and a delete for every key removed;
  - `WatcherNext` takes one response and adds its puts to `reported` (it skips deletes, as `watcher.Next` does);
  - `WatcherStop` cancels the watch.

### `EtcdConfig` (models `config/etcd/config.go`)

- Variables:
  - etcd's side: `store`, and per watcher `events`, the events its `client.Watch` has delivered and its goroutine has not yet taken.
  - the Config's side: `values` (`c.values`), `watches` (the channels listed in `c.watches`), each channel's buffer `chan` and its close count `closes`, and `loader`, a Load between its Get and its locked replace.
  - each goroutine's `gpc`, and `panicked`.
- Actions:
  - `EtcdPut` and `EtcdDelete` happen in etcd and are published to every live watch on the key.
  - `Watch`.
  - The watch goroutine takes three steps:
    - `GoRecv` takes an event, skips a Delete, and otherwise builds the change from an unlocked read of `c.values`;
    - `GoStore` stores the value under the lock;
    - `GoSend` sends the change. It panics on a closed channel and blocks while the buffer of one is full.
  - `GoExit` is the `ctx.Done()` case.
  - `WatcherNext` and `Stop`.
  - `Close`.
  - `LoadGet` and `LoadApply`.
- After a panic the process is dead, and `Crashed` only stutters.
- `Get` is a locked read and changes nothing.

### `RedisCache` (models `cache/redis.go`, `cache/cache.go`)

- Variables:
  - `store`: Redis. A key is `<<n, k>>`, the cache key `k` with `n` copies of `KeyPrefix` in front, because `Get`'s expiry path prefixes a key that is already prefixed. Each entry holds the `Item`'s `expireAt` and `createdAt`, its Redis TTL (`rexp`), and `stamp`, the Set it came from.
  - `now`, one clock for the clients and Redis; `seq`, the Sets applied so far. A client clock that runs ahead of Redis is not a separate constant: what it changes is how far `ExpireAt` lies before the end of the key's Redis TTL, and the ticks between `SetEncode` and `Set` already produce every such gap up to `MaxTime`. A client clock that runs behind only turns expired hits into misses.
  - `stack[c]`: client `c`'s call frames. Each method in progress is a frame, because the methods call one another.
  - `ops[c]`, and `crashed` (a stack grew past `MaxDepth`: Go's stack overflow kills the process).
- Actions, one per Redis command or return:
  - `Begin` calls `Get`, `Set`, `Delete` or `Clear` with an unprefixed key;
  - `GetSend` (GET), `GetCheck` (the client-side expiry check, which calls `Delete` on an expired item) and `GetReturn`;
  - `DeleteEvict` (with `OnEvicted`, `Delete` first calls `Get`) and `DeleteDel` (DEL);
  - `Set` takes two steps, as the code does:
    - `SetEncode` replaces a ttl of 0 by `Options.TTL` and computes the `Item`, with `ExpireAt = time.Now() + ttl` and `CreatedAt`, on the client;
    - `Set` is the SET reaching Redis, possibly some ticks later, with that TTL counted from its arrival (or none when it is 0).
  - `ClearStart` (KEYS, for `OnEvicted`), `ClearEvict` (a `Get` per key), `ClearKeys` (KEYS again) and `ClearDel` (one DEL of what it returned);
  - `Tick`: the clock advances and Redis drops keys whose TTL has run out.
- `Keys` is a read inside `Clear` and is modelled there. Values, JSON encoding and `Exists` decide nothing and are left out.

### `TokenBucketSpec` (the `Limiter` contract of `ratelimit/ratelimiter.go`)

- What a token bucket promises, written as the generic cell rate algorithm. Each key has one number `tat`, the instant at which the bucket would be full again, multiplied by the rate.
- Actions:
  - `Call`: a caller starts `Allow`, `Reserve` or `Wait` with the time it read;
  - `Free`: `n ≤ 0` is allowed and takes nothing;
  - `Conform`: a request that fits within the burst is granted at its timestamp;
  - `Refuse`: `Allow` refuses the rest, and `Wait` goes on to reserve;
  - `Book`: `ReserveN` books the tokens, usable from `max(t, tat − burst)`.
- `TokenBucket` instantiates it with `tat ← last × rate + burst − tokens` (0 for a key never seen). `ImplementsTokenBucket` checks that every step of the bucket is a step of the contract, with the same ledger of grants.

### `CacheSpec` (the `Cache` interface of `cache/cache.go`)

- A linearizable map from keys to expiry instants. Each call takes effect at one instant between its start and its return.
- `Set` stores `now + ttl`, with a ttl of 0 meaning `Options.TTL`. A full cache may drop one other item. `Delete`, `Clear` and `Close` remove items, and `Get` changes nothing.
- Besides the calls, only expiry removes an item (`Expire`).
- `MemoryCache` instantiates it with:
  - `store ← expireAt` of each item;
  - each goroutine's pending call mapped to the abstract one.
  - A `Get` that found its item expired has returned in the abstract view. Its `Delete` must therefore be an abstract `Expire` step, which may remove only an expired item.

### `Kafka` (models `mq/kafka.go`, driven as `examples/mq/main.go` drives it)

- Producer: `Senders` goroutines each call `SendMessage` once.
  - `Produce` hands the message to librdkafka, or fails at once when the local queue (`QueueCap`) is full.
  - `Deliver` is the broker's answer: appended and acked, appended with the ack lost, or rejected. The report is queued for librdkafka's single delivery goroutine.
  - `Receive` is the `select` taking the report; `CancelSend` is the `select` taking `ctx.Done()`. Either way the deferred `close(deliveryChan)` runs.
  - `PollerPanic`: the delivery goroutine sends a report on a channel already closed, and the process panics.
- Consumer: the example's goroutine runs `Consume` and main waits for a signal.
  - `Poll` is the `ctx.Done()` check at the top of the loop.
  - `Read`, `ReadTimeout` and `ReadError` are `ReadMessage`'s three outcomes: a message (librdkafka stores its offset), `ErrTimedOut` (continue), and any other error, on which `Consume` returns. That error is always possible on a closed consumer, and on an open one when the constant `BrokerMayErr` is TRUE: librdkafka reports transient broker and transport errors (a broker down, a rebalance) through `ReadMessage`, and lines 131–134 return on each of them.
  - `Handle` runs the handler, which returns nil, or an error when `HandlerMayFail`.
  - `AutoCommit` is librdkafka's timer committing the stored offset.
  - `Signal` is main's `<-sigChan` and its deferred `cancel()`. `CloseConsumer` is the deferred `consumer.Close()`, which commits. `Exit` is the deferred `producer.Close()` and the end of the process.
  - `Crash` kills the process when `MayCrash`. `Restart` starts the program again, at most `MaxRestarts` times, from the committed offset.
- Message contents, topics and the JSON in the handler are left out: a message is its sender and an offset.

### `BreakerExample` (models `examples/circuitbreaker/main.go` on `CircuitBreaker`)

- It instantiates `CircuitBreaker` with the example's options and runs `testCircuitBreaker`'s four batches in order:
  - `Execute` with a function that succeeds;
  - `Execute` with one that fails;
  - after a sleep of `Timeout`, `Execute` with a random outcome;
  - the two-step `Allow`/`done` with a random outcome.
- `WorkerAllow` is the breaker's `Allow` (a rejected goroutine returns). `WorkerDone` reports the outcome that its batch's function can return.
- `NextBatch` is `wg.Wait` returning. `SleepTick` and `WakeUp` are `time.Sleep(5s)`, during which the breaker's clock runs.
- The batches of 5, 10, 5 and 3 goroutines are scaled to 3, and the trip at 5 consecutive failures to 2.

### `Auth` (models `auth/`, `middleware/`, as `examples/auth` uses them)

- A token is the record of the claims it was signed for (`uid`, `role`), its `exp`, and whether it carries the secret's signature. `issued` holds every token `GenerateToken` has signed: `Login` (the admin's credentials on `POST /login`; a body that does not bind gets 400, other credentials 401) and `Mint` (another holder of the secret, such as the gRPC client example, signing any `Claims`).
- A client sends one of `Headers`: none, one that is not `Bearer <token>`, an issued token, or a forged one (`Forged`, unsigned). `Authenticate` is the header check that `AuthMiddleware` and `authenticateRequest` share, then `ValidateToken`.
- `ValidateToken` is the library's rejection of a token whose `exp` is not after `time.Now()`, then the code's own `ExpiresAt.Unix() < time.Now().Unix()` test, which the first makes unreachable. Time is in whole seconds (`now`, advanced by `Tick`): a `time.Now()` during second `now` is after a whole-second `exp` exactly when `now ≥ exp`.
- `HttpRequest` runs the handlers gin chains for a route (`Routes`, from the order of `Use` and the route registrations in `examples/auth/main.go`) through `RunChain`: a middleware that answers ends the chain, one that calls `Next` passes its claims on. `Handler` is the example's handlers; `GET /api/user` panics without claims, and gin.Default's Recovery answers 500.
- `GrpcCall` is `UnaryServerInterceptor` and then the example's `userService` (`UserService`). `StreamStart` is `StreamServerInterceptor` and `ListUsers`' admin check; `StreamSend` is each `stream.Send` of its loop, with the token and the time of the check remembered in `stream`.
- `last` is the outcome of the latest request or stream message: the route or RPC, the token presented, the status, the claims the handler saw, when the token was checked and when the answer was sent.
- `Chain` (`middleware.Chain`'s downward loop, through `Wrap`) and `Recovery` (with `RecoverError`) are operators. A handler is represented by the order in which a call enters its stages.

### `Tracing` (models `tracing/otel.go`, as the programs of `examples/tracing` use it)

- `spans` maps each span started to its trace, its parent, the program that started it, whether it has ended and its status. Spans are named by what they stand for: `<<"produce", i>>`, `<<"consume", i>>`, `<<"process", i>>`. `StartSpan` is `otelTracer.Start`: a child of the context's span, or the root of a new trace. `EndSpan` is `End`, which hands the span to the program's processor (`queue`).
- The producer (`ProduceOk`, `ProduceFull`, `Wake`, `FlushAndExit`) is its loop: Start, Inject into the headers, Produce, End, sleep a second. A full local queue (`QueueCap`) takes the `SetError`, `End`, `continue` path. `Deliver` is librdkafka delivering the oldest queued message or failing to; the Events goroutine only logs it.
- The consumer (`Poll`, `ProcessDone`, `ConsumeDone`, `Stop`) is its loop: `Extract` from the headers (`ConsumeParent`), the consumer span, `processMessage`'s span under it, the two `End`s, and a signal or all brokers down at the top of the loop.
- `Export(p)` is p's batch span processor firing its timer (`due`): the queue goes to the `collector`, or is `dropped` when the export fails. `Exit(p)` is a program returning: its queue is gone, since `Tracer` has no `Shutdown`.
- `Tick` lets a second pass once the timers and sleeps due by then have fired.
- `Init` picks one pair of programs (`Programs`): the other pair's programs are `"off"`. The two pairs share no state, so one run checks both, and their state spaces add up rather than multiply.
- The gRPC client (`CallUnary`, `UnaryReturn`, `CallStream`, `Recv`, `ClientWake`, `RecvEOF`, `RecvFail`) is `callUnaryRPC` and then `callStreamingRPC`. Each starts a root span (`<<"call", k>>`, with k = 0 for `SayHello` and 1 for `SayHelloStream`), Injects it into the metadata and makes the call. The span ends when the call returns: a response or `io.EOF` leaves it unset, an error sets it to error. `ClientReturns` is main returning: the deferred `conn.Close` breaks both calls, and the processor's queue is lost.
- `Inject` into a `MapCarrier` cannot fail, so the `Failed to inject` branches are unreachable and left out.
- The server runs one handler per call, in `rpc.h`. `HandleUnary` and `UnaryDone` are `SayHello` with `processGRPCRequest` (`Work(0)`). `HandleStream`, `StreamSendOk`, `StreamSendFail`, `ServerWake` and `StreamReturn` are `SayHelloStream`'s loop: `processGRPCRequest` (`WorkSpan`), `stream.Send`, a one-second sleep, and the deferred `End` when the handler returns. `rpc.eof` is gRPC's end-of-stream status, which it sends only after the handler has returned.
- `Break(k)` is the transport under call k failing while the client runs. It fails the client's pending call and the server's next `Send`. A unary response that the handler produced after the break is lost. `processGRPCRequest`'s 100 ms sleep takes no model time.
- The Redis pair is two copies of `examples/tracing/redis` (`redis1`, `redis2`) against one Redis (`kv`: whether `user:user-1` exists, `pipeline_counter`, `tx_counter` and the number of writes to it, which is what `WATCH` compares).
  - `SetCache`, `GetCache`, `DeleteCache` and `UsePipeline` are the helpers, each one step through `Helper`: a root span `<<op, 1 or 2>>`, one command or pipeline, then `End`. A nil result goes on to the next helper. An error (`SetError`, then main's `log.Fatalf`) exits the process, and its processor's queue with it.
  - A failed command may have run in Redis or not (`ran`, `replied`). `GetCache` fails with `redis.Nil` when the other copy has deleted the key.
  - `TxWatch` is the span's `Start` and `rdb.Watch` (`WATCH tx_counter`, remembering its write count); `TxGet` is the callback's `GET`, a separate round trip after which another copy may already have written the key, or a failure that ends the transaction. `TxExec` is `TxPipelined`'s `MULTI`/`SET n+1`/`EXEC`, which Redis runs only if `tx_counter` has not been written since `WATCH`; otherwise `Watch` returns `TxFailedErr`. `TxReturn` is the span's `End` and the process ending, normally or through `log.Fatalf`.
  - An `EXEC` that ran but whose reply is lost leaves an error span for an increment that happened. No property is stated on that.
- The HTTP example is the program `web`, which serves forever, with `Requests` requests handled at once (`pc.web.req`).
  - `HelloStart` is the handler's `Extract` (callers send no context, so each request starts a trace), the `hello` span, and the spans of `processRequest` and `queryDatabase` under it. The random sleeps between these take no model time.
  - `QueryDone` is `queryDatabase` failing (one time in ten in the code, a free choice here) or not.
  - `ProcessReturn` passes the error up without `SetError` on its own span.
  - `HelloReturn` is the handler's `SetError` and 500 response, or its `Inject` into a `HeaderCarrier` (which cannot fail) and `Hello, World!`.

### `Server` (models `server/http/server.go`, `server/grpc/server.go`, as their examples run them)

- One process per example program (`Programs`), each with main (`mpc`) and the goroutine running `Start` (`gpc`).
- HTTP `Start` is two steps: `HttpAssign` (`s.server = &http.Server{...}`) and `HttpListen` (`ListenAndServe`). `ListenAndServe` returns `ErrServerClosed` on a server already shut down, or the error of `net.Listen`.
- gRPC `Start` is `GrpcListen` (`net.Listen`, `s.lis`, health `SERVING`) and `GrpcServe` (`Serve`, which returns `ErrServerStopped` on a stopped server).
- `Quit` is `<-quit` returning. HTTP `Stop` is `HttpStop`: it reads `s.server` through `Seen`. After the write the read may still return nil, since nothing orders the two goroutines (a data race, so both outcomes are possible).
- gRPC `Stop` is `GrpcStopHealth` (`NOT_SERVING`) and then `GrpcGracefulStop`.
- `Drained` is `Shutdown`/`GracefulStop` returning once no request is in flight and, for gRPC, no stream is open. `Deadline` and `ShutdownTimeout` are the 5 s ctx running out, which only `Shutdown` looks at. `Exit` is main returning, which ends the process.
- Clients are counted in `inflight`: `Accept` while the listener is open, `Finish` when a handler returns.
- `streams` counts the long-lived gRPC streams a client holds open: `OpenStream` is a client opening a health `Watch` or a reflection stream, services that `New` registers (lines 124–133) and the example enables; `CloseStream` is the client ending it. `GracefulStop` waits for them like any RPC, and nothing in `Stop` cancels them.
- `HttpListen` and `GrpcServe` carry net/http's and grpc-go's own guards (a server already shut down or stopped returns at once instead of serving). They are not code of this repository, but the code relies on them: `Stop` can run before `Start` has listened, and only these guards keep the late `Start` from serving.

### MC modules

Each `MC<Module>.tla` extends its module and adds what a cfg cannot write:
- the caller symmetry set (`Permutations`);
- negative or set-valued constants (`MCIntervals == {-1, 2}`).

## Runs

The table lists each run, what it checks, and its result. Every passing run
also has one mutant per property, listed in PROJECT.json. A mutant is a
plausible bug in a mapped definition, for example:
- a dropped expiry guard;
- readyToTrip asked on the old counts;
- an uncapped refill;
- a prune that is off by one.

TLC finds each mutant's property violated.

| Run | Cfg | Checks | Result |
|---|---|---|---|
| breaker | `CircuitBreaker.cfg` | `TypeOK` (never admitted while Open), `NoMissedTrip` | pass, 633 states |
| breaker_example | `BreakerExample.cfg` | `HalfOpenReached` | **violated** |
| token_bucket | `TokenBucket.cfg` | `TypeOK` (tokens ≤ burst), `RateRespected`, `ImplementsTokenBucket` | pass, 187,904 states |
| sliding_window | `SlidingWindow.cfg` | `TypeOK` (bucket count ≤ max), `WindowRespected`, `MemoryBounded` | pass, 11,532 states |
| redis_limiter | `RedisLimiter.cfg` | `TypeOK` (stored tokens in 0..burst), `RateRespected` | pass, 10,925 states |
| memory_cache | `MemoryCache.cfg` | `TypeOK` (items outlive their Set), `SizeBounded`, `ExpiredEventuallyRemoved` | pass, 140,912 states |
| redis_cache | `RedisCache.cfg` | `TypeOK` (no item is born expired), `ClearRemovesOlder` | pass, 473,678 states |
| etcd_registry | `EtcdRegistry.cfg` | `TypeOK` (keys sit on live leases), `DeregisteredGone`, `WatchReportsPut` | pass, 10,673 states |
| server | `Server.cfg` | `StopReturns` | **violated** |
| auth | `Auth.cfg` | `TypeOK` (a stream sends at most `StreamLen` users), `ServedOnValidToken`, `RoleEnforced`, `NoHandlerPanic` | pass, 48,456 states |
| tracing | `Tracing.cfg` | `TypeOK` (librdkafka holds at most `QueueCap` messages), `TraceLinked`, `SpansEndedAtExit`, `ClientOkAfterServer`, `TxCounterExact`, `NestedEndFirst`, `ErrorReachesRoot` | pass, 207,445 states |
| kafka | `Kafka.cfg` | `NilMeansDelivered` | pass, 68,364 states |

What the violations show (details in PROJECT.json `findings`):

- **breaker_example** (circuit.go:119 vs 132).
  - The failing batch trips the breaker, and main sleeps past `Timeout`.
  - The first `Allow` of the half-open batch finds the generation expired. It calls `toNewGeneration`, which for an Open breaker sets the expiry to now + `Interval` (a minute).
  - The Open branch then sees an expiry in the future and rejects. Every later request does the same, so the example never sees Half-Open, although spec 4.1 and the batch's own label say it should.
  - Only a negative `Interval` lets the breaker leave Open.
- **server** (server/grpc/server.go:162).
  - The gRPC example starts, and a client opens a health `Watch` stream (or a reflection stream): `New` registers both services and the example enables them.
  - The signal arrives. `Stop(ctx)` sets `NOT_SERVING` and calls `GracefulStop`, which waits for every open stream.
  - `Stop` never looks at its ctx, so the example's 5 s shutdown timeout is never honoured: while the client keeps its stream open, `Stop` does not return and the process does not exit. The HTTP `Stop` passes its ctx to `Shutdown` and returns at the deadline.
### Observations that have no run of their own

Each of these was reproduced with the modules as they stand. A one-line cfg change (or the property shown) brings it back:

- **`MemoryCache` does not implement `CacheSpec`** (memory.go:58; `MemoryCacheRefinement.cfg`, `ImplementsCache`, violated).
  - Goroutine c1's `Get` of "a" reads an expired item under the read lock and releases it.
  - Goroutine c2 then `Set`s "a" with a fresh expiry.
  - c1's `Delete("a")` removes the fresh item. No order of the two calls on a linearizable cache removes an item that has not expired, so `MemoryCache` does not implement `CacheSpec`.
  - With `DeleteKey` re-checking the expiry under the write lock, the same run passes (40,299 states).
- **A ListUsers stream outlives its token** (auth/grpc.go:32; `AuthStream.cfg`, `StreamWithinToken`, violated).
  - An admin opens `ListUsers` with a token that expires at the next second; the interceptor accepts it.
  - The clock passes the token's expiry and the handler sends the next user: the token is checked once, when the stream opens. With the example's 24 h tokens and a half-second stream this needs a stream opened in the token's last half second.
- **Recovery turns a non-error panic into success** (middleware/middleware.go:42; `MiddlewareRecovery.cfg`, `RecoveredPanicIsError`, violated). `recoverError` returns nil for a panic value that is not an `error`, and the named `resp` is nil, so the wrapped call returns `(nil, nil)`. No program in the repository uses the package.
- **The config source's own checks** (`EtcdConfig.cfg`, `TypeOK` and `NoDoubleClose`, pass, 98,576 states). With two watchers of one key and Puts, Deletes, Loads, Stops and Closes in any order, no channel is closed twice and none buffers more than one change.
- **Spans lost when a program returns** (tracing/otel.go:80; `TracingExit.cfg`, `ExportedBeforeExit`, violated in 7 states).
  - The producer sends message 0 and the consumer processes it, both spans ending within the first second.
  - The consumer is signalled and returns before its processor's first export. The ended spans are still in its queue and are never sent.
  - No program can avoid this: `Tracer` has no `Shutdown`, and `otelTracer` keeps the provider to itself. The example producer runs about 10 s with a 5 s timer, so the spans of its last seconds are lost, and the collector keeps consumer spans whose parent never arrives.
- **A produce span reports success for a message that was never delivered** (examples/tracing/kafka/producer/main.go:125; `TracingDelivery.cfg`, `OkSpanDelivered`, violated). The span ends when `Produce` has queued the message. librdkafka's delivery fails afterwards, and the Events goroutine only logs it.
- **Send on a stopped watcher's channel** (config.go:186; `EtcdConfigStopped.cfg`, `NoSendOnClosed`, violated).
  - The watch goroutine takes a Put for its key, then `watcher.Stop` closes the channel.
  - Stop does not end the goroutine, whose context belongs to the caller, so its `ch <- change` panics with "send on closed channel".
  - `Config.Close` leads to the same panic.
- **HTTP Stop returns nil while the server goes on to serve** (server/http/server.go:129; `ServerRace.cfg`, `NilStopMeansStopped`, violated in 6 states).
  - `Start` assigns `s.server`, and the signal arrives before `ListenAndServe` runs.
  - `Stop` reads nil (the unsynchronised read may miss the write) and returns nil. `ListenAndServe` then listens, and main logs that the server is closed.
  - A signal that arrives before the assignment has the same effect without any data race.
  - In the example, main exits right after, which closes the listener. A program that goes on living after `Stop` keeps a server nobody can stop.
- **gRPC health after Stop** (server/grpc/server.go:149). When `Stop` runs before `Start` has reached `net.Listen`, `Start` sets the health status back to `SERVING` after `Stop` set `NOT_SERVING`. `Serve` then returns `ErrServerStopped`, so nothing is served, but a health check reports a stopped server as serving.

- **Sliding window under reordering** (sliding_window.go:85; `SlidingWindowReordered.cfg`, `WindowRespected`). A caller that read `time.Now()` earlier but got the lock later sees entries already pruned by a newer timestamp. It then admits 3 requests in a 2-second window whose capacity is 2. `WindowRespected` fails with 2 callers and rate 1.
- **Shared Registry** (registry.go:107, 134, 140; `EtcdRegistryShared.cfg`, `RegisteredStaysAlive`).
  - Services s1 and s2 register through one Registry, so `r.leaseID` is s2's lease.
  - `Deregister(s1)` revokes that lease, and s2's key disappears while s2 believes it is registered.
  - s1's key stays until its TTL runs out, because `r.cancel()` has ended its KeepAlive.
- **A lost KeepAlive stream is never renewed** (registry.go:114; `EtcdRegistryLeaseLost.cfg`, `RegisteredStaysAlive`).
  - s1 registers, and its KeepAlive stream ends (etcd lost the lease, or the keepalive failed for longer than the TTL).
  - The drain goroutine sees the closed channel and returns. Nothing re-grants the lease or re-puts the key, so s1 is gone from discovery while it believes it is registered.
- **Breaker outcomes counted in the wrong generation** (circuit.go:106; `CircuitBreakerStale.cfg`, `OutcomesWithinGeneration`).
  - c2 and c3 are admitted while Closed. c2's failure, after c1's, trips the breaker, and `setState` zeroes the counts.
  - c3's success is then counted in the Open generation, which admitted nothing: `TotalSuccesses` exceeds `Requests`. The same stale outcome can close a Half-Open breaker on a success that was never a probe.
- **Kafka: Consume stops on a transient error** (kafka.go:131–134; `KafkaPolling.cfg`, `ConsumerKeepsPolling`).
  - The consumer is open and polling. `ReadMessage` reports an error that is not `ErrTimedOut`, such as a broker that is down for a moment, which librdkafka recovers from by itself.
  - `Consume` returns it, and the example's goroutine logs it and ends. Every later message stays unread until the process is restarted.
- **Redis limiter under reordering** (redis_limiter.go:26; `RedisLimiterReordered.cfg`, `RateRespected`).
  - A late EVAL carrying timestamp 0 runs after one carrying timestamp 2.
  - The script writes `last = 0`, and the next request at time 2 is credited two seconds again.
  - So 3 tokens are granted at one instant with burst 2.
- **Redis cache: Get and Delete recurse without end** (redis.go:87, 110; `RedisCacheRecursion.cfg`, `NoStackOverflow`).
  - With `RedisOptions.TTL` unset, `Set(k, v, 0)` stores an item whose `ExpireAt` is its `CreatedAt`, under a key with no Redis TTL.
  - One tick later `Get` finds it expired and calls `Delete`. With `OnEvicted` set, `Delete` calls `Get` on the same key, which calls `Delete` again.
  - The recursion never ends and the goroutine's stack overflows.
  - A default TTL does not remove the hazard, only narrows it: `Set` computes `ExpireAt` before the SET travels to Redis, which counts the TTL from the SET's arrival. A `Get` between the two moments (a slow SET, or a client clock ahead of the Set's) recurses for as long as that gap lasts. With `TTLs = {1}` and a SET arriving two ticks late, the same cfg reaches it too.
- **Kafka: a clean shutdown loses a message** (kafka.go:129; `KafkaLost.cfg`, `NoLostMessage`).
  - `ReadMessage` returns a message and librdkafka stores its offset.
  - The signal arrives before the handler runs: main's deferred `cancel()` and `consumer.Close()` run, and Close commits the stored offset. Main returns and the process ends with the handler not yet run.
  - The next run of the program starts after that offset, so the message is never handled. A crash after an auto-commit does the same.
- **Kafka: a report sent on a closed channel** (kafka.go:59; `KafkaPanic.cfg`, `NoSendOnClosed`).
  - One sender's ctx is cancelled while its message waits for the broker. `SendMessage` returns `ctx.Err()`, and its defer closes `deliveryChan`.
  - The broker answers, and librdkafka's delivery goroutine sends the report on the closed channel: the process panics.
  - The same cancelled send may also have been appended, so a caller that retries on the error sends the message twice.
- **Redis cache deletes the wrong key on expiry** (redis.go:77). `Get` calls `r.Delete(ctx, key)` with the key it has already prefixed, so with a `KeyPrefix` the DEL names `prefix+prefix+key`, which does not exist. The expired item stays in Redis until its TTL runs out; with a default TTL of 0 it has none and is never removed. Set `Prefixed = TRUE` in `RedisCache.cfg` and check that `GetCheck` on an expired item empties its key.
- **Registry watcher skips deletes** (watcher.go:45). `watcher.Next` returns only the services in put events, so a service whose lease expires or which deregisters is never reported gone. `reported` only grows.
- **Registry list-then-watch gap** (registry.go:146). `GetService` and `Watch` are separate calls, and the watch starts at the current revision: a registration between them is in neither. Reproduced by checking that every registered service ends in `found ∪ reported`.

- **Open breaker never recovers, for any caller** (circuit.go:119). The breaker_example run shows it for the example program. `CircuitBreaker`'s `TimeoutAdmitsProbe` fails the same way with the constants of `CircuitBreaker.cfg`, whatever the callers do.
- **Redis reservation consumed behind an error** (redis_limiter.go:197).
  - `ReserveN`, and so `WaitN` after a refusal, consumes tokens in the script, then returns `invalid wait value`.
  - A lost EVAL reply does the same.
  - `NoConsumptionOnError` fails with the constants of `RedisLimiter.cfg`.
- **Two watchers of one key** (config.go:167). The first goroutine stores the new value. The second then reads `c.values` without the lock and reports the first Put of a fresh key as an Update, with the new value as its `PreValue`. Reproduced with two watchers, one Put, and an invariant that every buffered change is a Create.
- **Deletes are dropped** (config.go:154). A Delete event's empty value fails `json.Unmarshal`. The goroutine skips it, so no watcher sees a Delete change and `c.values` keeps the deleted value.
- **Updates between Load and Watch are lost** (config.go:79, 146). Nothing ties the watch to Load's revision, so a Put after Load's Get and before Watch never reaches `c.values`. A Load racing a watch goroutine can also overwrite a newer stored value with its older response.
- **`Wait` never waits** (token_bucket.go:123, with the same line in the other two limiters).
  - `delay := reservation.DelayFrom.Sub(now)` is always 0.
  - `TokenBucket`'s `WaitHonoursReservation` fails with `Costs = {2}`, burst 2 and one caller: the second Wait returns at once with its reservation due a tick later.
- **Default sliding-window precision** (sliding_window.go:105).
  - The 100 ms default truncates to 0 seconds, and `timestamp % 0` panics on the first admissible request.
  - `SlidingWindow`'s `NoPanic` fails with `PrecisionMillis = 100`.
- **Lost Revoke reply** (registry.go:134). etcd applies the Revoke but its reply is lost. `Deregister` returns the error before `r.cancel()`. Every retry then gets lease-not-found, because `r.leaseID` is never reset, so `Deregister` never succeeds.
- **Register after Deregister** (registry.go:140). The root context stays cancelled. A later `Register` returns nil, but its KeepAlive ends at once and the service expires after one TTL. The model follows the example program's lifecycle, Register and then Deregister, so it does not allow this.
- **Half-Open probe limit** (circuit.go:142).
  - Check `Cardinality({c : pc[c] = "HalfOpen"}) <= MaxRequests` with `Intervals = {-1}`.
  - The rollover zeroes `Requests` on every Allow, so a third probe is admitted with `MaxRequests = 2`.
- **Half-Open failure** (circuit.go:175). A failure while Half-Open reopens the breaker only if `readyToTrip` agrees. The spec says one failure suffices.
- **Negative cost** (token_bucket.go:144).
  - Set `Costs` to `{-1, 1}`.
  - `ReserveN(-1)` leaves 3 tokens in a bucket of burst 2, which breaks `TypeOK`.
- **Sub-second Redis TTL** (redis_limiter.go:96).
  - Set `TTLMillis = 500`.
  - `EXPIRE key 0` deletes the bucket after every grant, which breaks `RateRespected`.
- **Sliding-window Reserve** (sliding_window.go:170). `ReserveN` books nothing. Spec 4.4 says it always commits.
- **Empty cache key** (memory.go:166; `MemoryCacheEmptyKey.cfg`, `SizeBounded`).
  - The cfg is `MemoryCache.cfg` with `Keys = {"", "a", "b"}`; the memory_cache run checks `SizeBounded` over non-empty keys only.
  - `evict` uses `""` as "nothing found". With `""` the oldest key, nothing is evicted, and `SizeBounded` fails on the next Set: 3 items with `MaxEntries = 2`.
- **Set racing Close** (memory.go:140). A `Set` already in progress when Close begins can store its item after Close's `Clear`, with the janitor already stopped. Nothing removes that item once it expires. Use during Close is outside the cache's contract, so `ExpiredEventuallyRemoved` is stated only while the janitor runs.
- **Second Close** (memory.go:226). It blocks forever on `stopCh`, whose receiver has returned. `io.Closer` leaves a second Close undefined, so the model lets Close begin only once.
- **`Reservation.Delay`** (ratelimiter.go:74). It computes `DelayFrom.Sub(TimeToAct)`, which has the wrong sign. It is a plain function that a unit test reaches, and is not modelled.

## Bounds, and why they suffice

**Breaker.**
- Bounds: 3 callers, `MaxRequests = 2`, trip after 2 consecutive failures, timeout 2, interval ∈ {−1, 2}, at most 3 admissions per Closed generation.
- Three callers are enough to reach:
  - a Half-Open breaker with more probes in flight than `MaxRequests`;
  - outcomes from an old generation.
- Both interval signs are needed. Only a negative interval lets Open reach Half-Open.
- `CircuitBreakerStale.cfg` uses the same constants.

**Token bucket.**
- Bounds: 2 callers, 1 key, burst 2, rate 1, clock 0..3, 2 calls each.
- Two callers give every reordering of two timestamps at the lock.
- Costs {0, 1, 2} cover `n ≤ 0`, a partial take, and a full drain.

**Sliding window.**
- Bounds: 1 caller (timestamps in order), rate 2, window 2 s, precision 1 s, costs {0, 1, 3}.
- With these, the window holds more requests (4) than buckets (2). That way `MemoryBounded` is not implied by the count limit.
- A cost of 3 is refused by an empty bucket after one grant.
- The reordered run uses 2 callers and rate 1.

**Redis.**
- Bounds: 1 client in the passing run (in-order delivery, TTL 4 s beyond the clock), 2 clients in the reordered run.
- Lost replies are enabled in every run.

**Memory cache.**
- Bounds: 2 goroutines, keys {a, b, c}, `MaxEntries = 2`, ttl ∈ {0 (the default, 2), 1}, clock 0..2, 2 operations each.
- Three keys and room for two make every Set of a new key into a full map evict, either an expired or the oldest item.
- A ttl of 1 lets items expire within the clock.
- Two goroutines give every race of Get's two steps against a Set, Delete, Clear, clean or Close.

**Registry.**
- Bounds: one service in the passing run (the example program's use), with KeepAlive streams that may end; two services and no lost stream in `EtcdRegistryShared.cfg`; one service, TTL 2 and 2 leases in `EtcdRegistryLeaseLost.cfg`. TTL 3 ticks; at most 4 leases granted.
- Four leases let a service fail Register three times, in each of the ways an RPC can fail, before it succeeds.
- Deregister retries cost no lease, so every failure mode of Revoke is reached.

**Redis cache.**
- Bounds: 2 clients, one key, ttl ∈ {0, 1}, default TTL 2, clock 0..3, 2 operations each, `OnEvicted` set, no prefix.
- One key shared by two clients gives every race of Clear's KEYS and DEL with a Set, and of Get's GET and check with a Set or Delete.
- A ttl of 1 lets items expire within the clock; the default of 2 lets a ttl-0 item outlive a tick.
- `MaxDepth = 2·MaxTime + 2`. A GET at the tick an item expires, followed by a Tick before the check, legitimately nests Get → Delete → Get once per tick; only an unbounded recursion exceeds this.
- The ticks between `SetEncode` and `Set` make a SET arrive up to `MaxTime` ticks after its `ExpireAt` was computed.
- `RedisCacheRecursion.cfg` uses one client, `TTLs = {0, 1}` and `DefaultTTL = 0`, so both the key with no Redis TTL and the late SET are reachable.

**Registry discovery.** The passing run adds one discovering caller to the single service: it lists, watches, reads responses and may stop. Its watch channel is bounded by the model's bounded leases and clock.

**Config.**
- Bounds: two watchers, one key, two values, two etcd events, in `EtcdConfig.cfg`.
- Two watchers of one key are the smallest setting where Stop, Close, and the two goroutines' unlocked reads can interleave.
- Two events give a Put followed by a Put or a Delete.
- The violation run needs one watcher and one Put.

**Kafka.**
- Bounds: 2 senders of one message each, a local queue of 1, the handler may fail, the consumer process may be killed, and it is started again at most once.
- A queue of 1 with two senders reaches the queue-full error. Two messages let a restart resume between them.
- One restart is enough for a committed offset to decide what the next run of the program reads.
- Transient broker errors (`BrokerMayErr`) are enabled in the passing run, so `ReadError` fires on an open consumer too.
- `KafkaLost.cfg` is the example program itself: a handler that never fails and no crash. `KafkaPanic.cfg` needs one sender. `KafkaPolling.cfg` needs one sender, no restart and transient errors.

**Servers.** Both programs, 2 requests and 2 gRPC streams in flight at once, and a `net.Listen` that may fail. One open stream is enough for the violation. Two requests let `Shutdown` wait on more than one handler, and let the deadline fire with requests still in flight. Every order of the signal against `Start`'s steps is reached, because `Quit` is enabled from the first state. `ServerRace.cfg` needs the HTTP program alone.

**Authentication.** Users "1" (the examples' admin) and "2" (role "user"), tokens that live one second, a clock to 2, a stream of 2 messages. One-second tokens with a clock to 2 give tokens checked before, at, and after their expiry second, including a token minted at 0 presented at 1, where the code's own check alone would accept it. Two users with different roles reach every branch of the ownership and role checks, and forged tokens exist for every (user, role).

**Tracing.** Two messages, a local queue of one message, an export every 2 s, a stream of two responses, a clock to 4. Two responses make the client receive, sleep and receive again while the server sleeps between its sends. So a break can land before the first `Send`, between the two, or after the handler has returned. Two copies of the Redis example are the fewest that can race on `WATCH`. Each copy makes one transaction, so `tx_counter` stays within 0..2. Two concurrent HTTP requests let one request's failure interleave with the other's success. With a queue of one, the second `Produce` can find the first message still queued, which reaches the error path. An export interval of 2 s against the producer's 1 s sleep puts exports both before and after the programs return. A clock to 4 lets each processor export at least once while its program may still be running.

**Breaker example.** The example's own options (`MaxRequests = 3`, `Interval` a minute, `Timeout` 5 s, one tick per second), with each batch scaled to 3 goroutines and the trip at 2 consecutive failures. Three failing goroutines are enough to trip it, and three half-open requests are more than enough to probe it.

**Refinements.** `ImplementsTokenBucket` uses the token_bucket run's own constants. `ImplementsCache` uses two goroutines and two keys, with room for two items. `Set` evicts whenever the map is full, even when it overwrites a key, so the mapping is checked on evictions too (the abstract `Set` may drop one other item). The violation needs only one key.

Each passing run finishes in seconds and fires every action and disjunct.

## Fairness

The limiter and breaker properties are safety properties, so those modules assume no fairness.

`MemoryCache` has a liveness property. It assumes weak fairness of:
- `JanitorClean`, because the janitor's ticker keeps firing while the goroutine runs;
- `CloseStop` and `CloseClear`, because a goroutine inside `Close` is scheduled.

Client goroutines get no fairness, since they may stop calling.

`EtcdRegistry`'s specification has weak fairness on `Tick`, since etcd's lease clock keeps running. It also has weak fairness on `WatcherNext`: the example program's discovery loop calls `Next` again as soon as it has handled a response. `WatchReportsPut` depends on this fairness and on nothing else. `Kafka` assumes weak fairness of:
- librdkafka's work (`Deliver`, the delivery goroutine's `Receive` and `PollerPanic`, `AutoCommit`);
- the Consume goroutine (`Poll`, `Read`, `ReadTimeout`, `ReadError`, `Handle`);
- main's shutdown once signalled (`CloseConsumer`, `Exit`).

The signal, a cancellation, a crash, a restart and a transient broker error come from outside the program, and get no fairness. `ConsumerKeepsPolling` (the `KafkaPolling.cfg` observation) depends on the Consume goroutine being scheduled; it fails because one transient error ends the loop, not for want of fairness.

`BreakerExample` assumes weak fairness of every worker goroutine, of main's `wg.Wait`, and of the sleep's ticks. A goroutine of the example never blocks except on the breaker's mutex, and the sleep ends.

`Auth` has safety properties only and assumes no fairness: clients may stop sending.

`Tracing` has safety properties only and assumes no fairness.

`Server` assumes weak fairness of every step of main and of the `Start` goroutine, of handlers returning (`Finish`), and of the 5 s clock (`Deadline`). The examples' handlers return at once. The signal (`Quit`), new clients (`Accept`) and the streams clients open and close (`OpenStream`, `CloseStream`) come from outside and get no fairness: a health `Watch` stays open for as long as its client wants. `StopReturns` fails for exactly that reason, since a gRPC `Stop` waits for every stream with no deadline.

The bounded runs end in a `Terminated` stuttering step once every caller has made its calls and the clock has reached its bound. The breaker has no such step: its callers may always call again, and `Tick` stops only once the generation has expired.

## Not modelled

- **The servers' routing and handlers** (gin routes, the gRPC service registration, `net/http` connection handling) are counted requests in `Server`. Nothing of theirs changes the lifecycle.
- **gRPC client (`client/grpc`), database, logger and metrics** are adapters. No example uses `client/grpc`: the gRPC examples call `grpc.Dial` themselves. All of them are adapters to libraries with no state or protocol of their own. `metrics/prometheus.go` registers every metric with `MustRegister`, so a second `Counter` (or `Gauge`, ...) of the same name panics. It also ignores `Options.Buckets` and `Objectives`. Both are single calls that a unit test reaches.
- **In `Tracing`:** every tracing example is modelled. Span attributes, events, names and the sampler (1.0 in every example) are left out. `NewOTelTracer`'s own failure (the exporter cannot be created) ends the examples at once. The producer's `Flush` is modelled as returning once librdkafka holds no message, and its 15 s timeout is not modelled.
- **In `Auth`:** the signing algorithm and the token's string form are a `signed` flag (a token whose `alg` is not HMAC is rejected by the key function and counts as forged). A token signed with the secret but without `exp` or `iat` would make `ValidateToken` dereference nil; `GenerateToken` always sets both, so only another signer could produce one. `GenerateToken`'s error (HS256 with a byte key does not fail) and a failing `stream.Send` (a client that went away) are left out. `FromContext`/`NewContext` are the claims carried in `last`.
- **The config parser** (`config/etcd/parser.go`) is a stateless type switch over decoded JSON values.
- **The options functions** (`With...` of every package) only fill a struct. Their values appear as constants of the runs.
- **The other example programs** are sequences of single calls on the components above, and their configurations appear as run constants. `examples/ratelimit/main.go` expects its last `Wait` (a 1 s context, 1000 tokens) to be cancelled. It returns nil at once, which is the "`Wait` never waits" observation above.

## Plan for the next sittings

1. A property for the registry's discovery that the list-then-watch gap breaks.
2. `RedisLimiter` against `TokenBucketSpec` cannot be a passing refinement: the script consumes tokens even when the client then reports an error (a reply that cannot be parsed, or one that is lost). The refinement to check is against a `TokenBucketSpec` whose grants may be reported as errors.
3. An abstract specification of the config source's watch (every change of a key reaches each open watcher, in order).
