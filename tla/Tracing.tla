------------------------------- MODULE Tracing -------------------------------
(***************************************************************************)
(* Tracing with tracing/otel.go, as the programs of examples/tracing use   *)
(* it: through Kafka, across gRPC calls, around Redis commands, over HTTP. *)
(*                                                                         *)
(* The producer starts a root span per message, Injects its context into   *)
(* a MapCarrier that becomes the message headers, Produces the message and *)
(* ends the span, then sleeps a second; after the loop it Flushes and      *)
(* exits.  The consumer Polls, Extracts the context from the headers,      *)
(* starts a consumer span under it and processMessage starts a child span; *)
(* both end before the next Poll.  It exits on a signal, or when Poll      *)
(* reports that all brokers are down.                                      *)
(*                                                                         *)
(* Each program has its own TracerProvider, created by NewOTelTracer with  *)
(* WithBatcher: an ended span joins the batch span processor's queue, and  *)
(* the processor's goroutine exports the queue every BatchTimeout (5 s by  *)
(* default).  The Tracer interface has no Shutdown or ForceFlush, so a     *)
(* program exits with whatever its queue still holds.  An export can fail  *)
(* (the collector unreachable after the exporter's retries); the batch is  *)
(* then dropped.  librdkafka delivers a produced message later, or fails   *)
(* to, and reports it on the Events channel, which the producer only logs. *)
(*                                                                         *)
(* The gRPC pair of examples/tracing/grpc does the same across a call:    *)
(* the client starts a span, Injects it into the outgoing metadata and     *)
(* calls SayHello, then SayHelloStream, whose handler sends StreamLen      *)
(* responses a second apart; the server Extracts the context and starts    *)
(* its span under the client's, and processGRPCRequest a child of that.    *)
(* The client returns after io.EOF or an error; the server serves forever. *)
(* A transport that breaks fails the client's pending call and the         *)
(* server's next Send.  Two copies of examples/tracing/redis run their    *)
(* five helpers, each under a root span, against one Redis, and            *)
(* examples/tracing/main.go serves /hello with three nested spans per      *)
(* request.  One run of the model is one set of programs, chosen in Init.  *)
(*                                                                         *)
(* Spans are named by what they stand for: <<"produce", i>>, and for the   *)
(* message i <<"consume", i>> and <<"process", i>>; <<"call", k>> and      *)
(* <<"handle", k>> for SayHello (k = 0) and SayHelloStream (k = 1), and    *)
(* <<"work", j>> for processGRPCRequest (j = 0 in SayHello, j = i + 1 in   *)
(* the stream's iteration i); <<op, 1>> and <<op, 2>> for the Redis       *)
(* helpers; <<"hello", r>>, <<"request", r>> and <<"query", r>> for the    *)
(* HTTP request r.  Time is in seconds.                                    *)
(***************************************************************************)
EXTENDS Naturals, Sequences, FiniteSets, TLC

CONSTANTS
    Messages,      \* messages the producer sends (10 in the example)
    QueueCap,      \* librdkafka's local queue, in messages
    BatchTimeout,  \* the batch span processor's export interval, in seconds
    StreamLen,     \* responses of SayHelloStream (5 in the example)
    Requests,      \* requests to /hello of the HTTP example
    MaxTime        \* model bound: last second of the clock

Procs == {"producer", "consumer", "client", "server", "redis1", "redis2", "web"}
Programs == [kafka |-> {"producer", "consumer"}, grpc |-> {"client", "server"},
             redis |-> {"redis1", "redis2"}, http |-> {"web"}]
RedisOps == {"set", "get", "del", "pipe", "tx"}
Calls == {0, 1}
NoSpan == <<"none", 0>>
Call(k) == <<"call", k>>
Handle(k) == <<"handle", k>>
Work(j) == <<"work", j>>
Hello(r) == <<"hello", r>>
Request(r) == <<"request", r>>
Query(r) == <<"query", r>>
Op(o, p) == <<o, IF p = "redis1" THEN 1 ELSE 2>>

VARIABLES
    now,        \* the clock, in seconds
    pc,         \* pc[p]: where program p is, with its loop state
    spans,      \* every span started: id -> [trace, parent, proc, ended, status]
    queue,      \* queue[p]: ended spans in p's batch span processor
    due,        \* due[p]: when p's processor next exports
    outbox,     \* messages Produced and not yet delivered by librdkafka
    topic,      \* messages in the partition, in order
    collector,  \* spans the collector has received
    dropped,    \* spans of batches whose export failed
    rpc,        \* the gRPC connection: requests sent, the unary response,
                \* stream responses buffered, EOF, broken calls, handlers
    kv          \* the keys of the Redis example: user:user-1 present,
                \* pipeline_counter, tx_counter and its version for WATCH

vars == <<now, pc, spans, queue, due, outbox, topic, collector, dropped, rpc, kv>>

\* A program of the other pair is "off"; a program that returned, "exited".
Alive(p) == pc[p].at \notin {"exited", "off"}

\* A span of trace tr under parent, started by program p.
Under(id, parent, tr, p) ==
    id :> [trace |-> tr, parent |-> parent, proc |-> p, ended |-> FALSE, status |-> "unset"]

\* tracer.Start: a span under the context's span, or a new trace without one.
StartSpan(id, parent, p) ==
    Under(id, parent, IF parent = NoSpan THEN id ELSE spans[parent].trace, p)

\* span.End(), after span.SetError when status is "error": the span is
\* handed to the batch span processor's queue.
EndSpan(id, status) ==
    /\ spans' = [spans EXCEPT ![id].ended = TRUE, ![id].status = status]
    /\ queue' = [queue EXCEPT ![spans[id].proc] = @ \cup {id}]

\* The program returns: its processor, and the queue in it, are gone.
Exit(p) ==
    /\ pc' = [pc EXCEPT ![p] = [at |-> "exited"]]
    /\ queue' = [queue EXCEPT ![p] = {}]

StartPc == [producer |-> [at |-> "loop", i |-> 0], consumer |-> [at |-> "loop", i |-> 0],
            client |-> [at |-> "unary"], server |-> [at |-> "serve"],
            redis1 |-> [at |-> "set"], redis2 |-> [at |-> "set"],
            web |-> [at |-> "serve", req |-> [r \in 1..Requests |-> [at |-> "idle"]]]]

Init ==
    /\ now = 0
    /\ \E e \in DOMAIN Programs :
          pc = [p \in Procs |-> IF p \in Programs[e] THEN StartPc[p] ELSE [at |-> "off"]]
    /\ spans = <<>>
    /\ queue = [p \in Procs |-> {}]
    /\ due = [p \in Procs |-> BatchTimeout]
    /\ outbox = <<>>
    /\ topic = <<>>
    /\ collector = {}
    /\ dropped = {}
    /\ rpc = [req |-> {}, resp |-> FALSE, buf |-> 0, eof |-> FALSE, broken |-> {},
              h |-> [k \in Calls |-> [at |-> "idle"]]]
    /\ kv = [user |-> FALSE, pipe |-> 0, tx |-> 0, ver |-> 0]

-----------------------------------------------------------------------------
(* The producer                                                            *)

\* tracer.Start(context.Background(), "kafka.produce"); Inject puts its
\* context into the carrier that becomes the headers.
ProduceSpan(i) == StartSpan(<<"produce", i>>, NoSpan, "producer")

\* Produce accepts the message: the span ends, and the loop sleeps a second.
ProduceOk ==
    LET i == pc.producer.i IN
    /\ pc.producer.at = "loop"
    /\ i < Messages
    /\ Len(outbox) < QueueCap
    /\ queue' = [queue EXCEPT !.producer = @ \cup {<<"produce", i>>}]
    /\ spans' = [ProduceSpan(i) @@ spans EXCEPT ![<<"produce", i>>].ended = TRUE]
    /\ outbox' = Append(outbox, [id |-> i, hdr |-> <<"produce", i>>])
    /\ pc' = [pc EXCEPT !.producer = [at |-> "sleep", i |-> i + 1, wake |-> now + 1]]
    /\ UNCHANGED <<now, due, topic, collector, dropped, rpc, kv>>

\* Mutant: the error path records the error and continues without End.
ProduceFullNoEnd ==
    LET i == pc.producer.i IN
    /\ pc.producer.at = "loop"
    /\ i < Messages
    /\ Len(outbox) = QueueCap
    /\ spans' = [ProduceSpan(i) @@ spans EXCEPT ![<<"produce", i>>].status = "error"]
    /\ pc' = [pc EXCEPT !.producer.i = i + 1]
    /\ UNCHANGED <<now, queue, due, outbox, topic, collector, dropped, rpc, kv>>

\* Produce fails (the local queue is full): SetError, End, continue.
ProduceFull ==
    LET i == pc.producer.i IN
    /\ pc.producer.at = "loop"
    /\ i < Messages
    /\ Len(outbox) = QueueCap
    /\ queue' = [queue EXCEPT !.producer = @ \cup {<<"produce", i>>}]
    /\ spans' = [ProduceSpan(i) @@ spans EXCEPT ![<<"produce", i>>].ended = TRUE,
                                                ![<<"produce", i>>].status = "error"]
    /\ pc' = [pc EXCEPT !.producer.i = i + 1]
    /\ UNCHANGED <<now, due, outbox, topic, collector, dropped, rpc, kv>>

\* time.Sleep(time.Second) returns.
Wake ==
    /\ pc.producer.at = "sleep"
    /\ now >= pc.producer.wake
    /\ pc' = [pc EXCEPT !.producer = [at |-> "loop", i |-> pc.producer.i]]
    /\ UNCHANGED <<now, spans, queue, due, outbox, topic, collector, dropped, rpc, kv>>

\* After the loop: Flush returns once librdkafka holds no message, main
\* returns and the deferred producer.Close runs.
FlushAndExit ==
    /\ pc.producer.at = "loop"
    /\ pc.producer.i = Messages
    /\ outbox = <<>>
    /\ Exit("producer")
    /\ UNCHANGED <<now, spans, due, outbox, topic, collector, dropped, rpc, kv>>

\* librdkafka delivers the oldest queued message, or gives up on it; the
\* delivery report is only logged.
Deliver ==
    /\ outbox # <<>>
    /\ \E ok \in BOOLEAN :
          topic' = IF ok THEN Append(topic, Head(outbox)) ELSE topic
    /\ outbox' = Tail(outbox)
    /\ UNCHANGED <<now, pc, spans, queue, due, collector, dropped, rpc, kv>>

-----------------------------------------------------------------------------
(* The consumer                                                            *)

\* Mutant: the consumer span is started from context.Background().
ConsumeParentBackground(m) == NoSpan

\* Extract of the carrier rebuilt from the headers: the producer's span.
ConsumeParent(m) == m.hdr

\* Poll returns the next message: Extract, tracer.Start("kafka.consume"),
\* and processMessage's tracer.Start("process_message") under it.
Poll ==
    LET r == pc.consumer.i
        m == topic[r + 1]
        c == <<"consume", m.id>>
        consume == StartSpan(c, ConsumeParent(m), "consumer")
    IN /\ pc.consumer.at = "loop"
       /\ r < Len(topic)
       /\ spans' = LET s1 == consume @@ spans
                   IN Under(<<"process", m.id>>, c, s1[c].trace, "consumer") @@ s1
       /\ pc' = [pc EXCEPT !.consumer = [at |-> "process", i |-> r, id |-> m.id]]
       /\ UNCHANGED <<now, queue, due, outbox, topic, collector, dropped, rpc, kv>>

\* Mutant: processMessage returns without its deferred span.End().
ProcessDoneNoEnd ==
    /\ pc.consumer.at = "process"
    /\ pc' = [pc EXCEPT !.consumer.at = "consume"]
    /\ UNCHANGED <<now, spans, queue, due, outbox, topic, collector, dropped, rpc, kv>>

\* processMessage returns nil; its deferred span.End() runs.
ProcessDone ==
    /\ pc.consumer.at = "process"
    /\ EndSpan(<<"process", pc.consumer.id>>, "unset")
    /\ pc' = [pc EXCEPT !.consumer.at = "consume"]
    /\ UNCHANGED <<now, due, outbox, topic, collector, dropped, rpc, kv>>

\* span.End() of the consumer span; the loop polls again.
ConsumeDone ==
    /\ pc.consumer.at = "consume"
    /\ EndSpan(<<"consume", pc.consumer.id>>, "unset")
    /\ pc' = [pc EXCEPT !.consumer = [at |-> "loop", i |-> pc.consumer.i + 1]]
    /\ UNCHANGED <<now, due, outbox, topic, collector, dropped, rpc, kv>>

\* A signal is seen at the top of the loop (or Poll reports all brokers
\* down): run = false, main returns, the deferred consumer.Close runs.
Stop ==
    /\ pc.consumer.at = "loop"
    /\ Exit("consumer")
    /\ UNCHANGED <<now, spans, due, outbox, topic, collector, dropped, rpc, kv>>

-----------------------------------------------------------------------------
(* The gRPC client                                                         *)

KafkaVars == <<outbox, topic>>

\* callUnaryRPC: tracer.Start from context.Background(), Inject into the
\* outgoing metadata, client.SayHello.
CallUnary ==
    /\ pc.client.at = "unary"
    /\ spans' = StartSpan(Call(0), NoSpan, "client") @@ spans
    /\ rpc' = [rpc EXCEPT !.req = @ \cup {0}]
    /\ pc' = [pc EXCEPT !.client = [at |-> "unaryWait"]]
    /\ UNCHANGED <<now, queue, due, KafkaVars, collector, dropped, kv>>

\* SayHello returns the response, or the error of the broken transport
\* (SetError); the deferred span.End() runs and main goes on to
\* callStreamingRPC.
UnaryReturn ==
    /\ pc.client.at = "unaryWait"
    /\ rpc.resp \/ 0 \in rpc.broken
    /\ EndSpan(Call(0), IF rpc.resp THEN "unset" ELSE "error")
    /\ pc' = [pc EXCEPT !.client = [at |-> "stream"]]
    /\ UNCHANGED <<now, due, KafkaVars, collector, dropped, rpc, kv>>

\* callStreamingRPC: a new root span, Inject, client.SayHelloStream.
CallStream ==
    /\ pc.client.at = "stream"
    /\ spans' = StartSpan(Call(1), NoSpan, "client") @@ spans
    /\ rpc' = [rpc EXCEPT !.req = @ \cup {1}]
    /\ pc' = [pc EXCEPT !.client = [at |-> "recv"]]
    /\ UNCHANGED <<now, queue, due, KafkaVars, collector, dropped, kv>>

\* stream.Recv returns a response; the client logs it and sleeps a second.
Recv ==
    /\ pc.client.at = "recv"
    /\ rpc.buf > 0
    /\ rpc' = [rpc EXCEPT !.buf = @ - 1]
    /\ pc' = [pc EXCEPT !.client = [at |-> "sleep", wake |-> now + 1]]
    /\ UNCHANGED <<now, spans, queue, due, KafkaVars, collector, dropped, kv>>

ClientWake ==
    /\ pc.client.at = "sleep"
    /\ now >= pc.client.wake
    /\ pc' = [pc EXCEPT !.client = [at |-> "recv"]]
    /\ UNCHANGED <<now, spans, queue, due, KafkaVars, collector, dropped, rpc, kv>>

\* callStreamingRPC returns with its span ended with status; main returns,
\* and the deferred conn.Close ends every call on the connection.
ClientReturns(status) ==
    /\ spans' = [spans EXCEPT ![Call(1)].ended = TRUE, ![Call(1)].status = status]
    /\ pc' = [pc EXCEPT !.client = [at |-> "exited"]]
    /\ queue' = [queue EXCEPT !.client = {}]
    /\ rpc' = [rpc EXCEPT !.broken = Calls]
    /\ UNCHANGED <<now, due, KafkaVars, collector, dropped, kv>>

\* Mutant: an empty receive buffer is taken for the end of the stream.
RecvEOFEarly ==
    /\ pc.client.at = "recv"
    /\ rpc.buf = 0
    /\ ClientReturns("unset")

\* stream.Recv returns io.EOF once the handler has returned and every
\* response has been read: break, and the span ends without an error.
RecvEOF ==
    /\ pc.client.at = "recv"
    /\ rpc.buf = 0
    /\ rpc.eof
    /\ ClientReturns("unset")

\* stream.Recv returns the error of the broken stream: SetError, return.
RecvFail ==
    /\ pc.client.at = "recv"
    /\ 1 \in rpc.broken
    /\ ClientReturns("error")

\* The transport under call k breaks while the client runs.
Break(k) ==
    /\ Alive("client")
    /\ Call(k) \in DOMAIN spans
    /\ k \notin rpc.broken
    /\ rpc' = [rpc EXCEPT !.broken = @ \cup {k}]
    /\ UNCHANGED <<now, pc, spans, queue, due, KafkaVars, collector, dropped, kv>>

-----------------------------------------------------------------------------
(* The gRPC server: one handler goroutine per call                         *)

\* Extract of the carrier rebuilt from the incoming metadata.
HandleParent(k) == Call(k)

\* SayHello: Extract, tracer.Start the server span, and processGRPCRequest
\* starts its span under it.
HandleUnary ==
    /\ 0 \in rpc.req
    /\ LET h == StartSpan(Handle(0), HandleParent(0), "server")
       IN spans' = Under(Work(0), Handle(0), h[Handle(0)].trace, "server") @@ h @@ spans
    /\ rpc' = [rpc EXCEPT !.req = @ \ {0}, !.h[0] = [at |-> "run"]]
    /\ UNCHANGED <<now, pc, queue, due, KafkaVars, collector, dropped, kv>>

\* processGRPCRequest's span ends, then SayHello's deferred span.End();
\* the response reaches the client unless the transport broke.
UnaryDone ==
    /\ rpc.h[0].at = "run"
    /\ spans' = [spans EXCEPT ![Work(0)].ended = TRUE, ![Handle(0)].ended = TRUE]
    /\ queue' = [queue EXCEPT !.server = @ \cup {Work(0), Handle(0)}]
    /\ rpc' = [rpc EXCEPT !.resp = (0 \notin rpc.broken), !.h[0] = [at |-> "done"]]
    /\ UNCHANGED <<now, pc, due, KafkaVars, collector, dropped, kv>>

\* SayHelloStream: Extract and tracer.Start the server span.
HandleStream ==
    /\ 1 \in rpc.req
    /\ spans' = StartSpan(Handle(1), HandleParent(1), "server") @@ spans
    /\ rpc' = [rpc EXCEPT !.req = @ \ {1}, !.h[1] = [at |-> "loop", i |-> 0]]
    /\ UNCHANGED <<now, pc, queue, due, KafkaVars, collector, dropped, kv>>

\* Iteration i: processGRPCRequest starts and ends its span.
WorkSpan(i) ==
    [Under(Work(i + 1), Handle(1), spans[Handle(1)].trace, "server") @@ spans
        EXCEPT ![Work(i + 1)].ended = TRUE]

\* Mutant: the send loop runs one iteration too many (i <= 5).
StreamSendOkOnceMore ==
    LET i == rpc.h[1].i IN
    /\ rpc.h[1].at = "loop"
    /\ i <= StreamLen
    /\ 1 \notin rpc.broken
    /\ spans' = WorkSpan(i)
    /\ queue' = [queue EXCEPT !.server = @ \cup {Work(i + 1)}]
    /\ rpc' = [rpc EXCEPT !.buf = @ + 1, !.h[1] = [at |-> "sleep", i |-> i, wake |-> now + 1]]
    /\ UNCHANGED <<now, pc, due, KafkaVars, collector, dropped, kv>>

\* stream.Send succeeds; the handler sleeps a second.
StreamSendOk ==
    LET i == rpc.h[1].i IN
    /\ rpc.h[1].at = "loop"
    /\ i < StreamLen
    /\ 1 \notin rpc.broken
    /\ spans' = WorkSpan(i)
    /\ queue' = [queue EXCEPT !.server = @ \cup {Work(i + 1)}]
    /\ rpc' = [rpc EXCEPT !.buf = @ + 1, !.h[1] = [at |-> "sleep", i |-> i, wake |-> now + 1]]
    /\ UNCHANGED <<now, pc, due, KafkaVars, collector, dropped, kv>>

\* stream.Send fails on the broken stream: SetError, return, and the
\* deferred span.End().
StreamSendFail ==
    LET i == rpc.h[1].i IN
    /\ rpc.h[1].at = "loop"
    /\ i < StreamLen
    /\ 1 \in rpc.broken
    /\ spans' = [WorkSpan(i) EXCEPT ![Handle(1)].ended = TRUE, ![Handle(1)].status = "error"]
    /\ queue' = [queue EXCEPT !.server = @ \cup {Work(i + 1), Handle(1)}]
    /\ rpc' = [rpc EXCEPT !.h[1] = [at |-> "done"]]
    /\ UNCHANGED <<now, pc, due, KafkaVars, collector, dropped, kv>>

ServerWake ==
    /\ rpc.h[1].at = "sleep"
    /\ now >= rpc.h[1].wake
    /\ rpc' = [rpc EXCEPT !.h[1] = [at |-> "loop", i |-> @.i + 1]]
    /\ UNCHANGED <<now, pc, spans, queue, due, KafkaVars, collector, dropped, kv>>

\* After the loop SayHelloStream returns nil: the deferred span.End(), and
\* gRPC ends the stream with an OK status that the client reads as io.EOF.
StreamReturn ==
    /\ rpc.h[1].at = "loop"
    /\ rpc.h[1].i = StreamLen
    /\ EndSpan(Handle(1), "unset")
    /\ rpc' = [rpc EXCEPT !.eof = TRUE, !.h[1] = [at |-> "done"]]
    /\ UNCHANGED <<now, pc, due, KafkaVars, collector, dropped, kv>>

-----------------------------------------------------------------------------------------------------------------------------------------------------
(* The Redis example, two copies of it against one Redis                   *)
(*                                                                         *)
(* A command that fails may have run in Redis or not: the connection can  *)
(* break before it is sent or after it ran, before the reply arrived.      *)

\* setCache, getCache, deleteCache and usePipeline each start a root span,
\* send one command (or one pipeline) and return: on nil the deferred
\* span.End() runs and main goes on to the helper at; on an error SetError,
\* End, and main's log.Fatalf exits the process with the processor's queue.
Helper(p, o, ok, at) ==
    /\ spans' = LET s1 == StartSpan(Op(o, p), NoSpan, p) @@ spans
                IN [s1 EXCEPT ![Op(o, p)].ended = TRUE,
                              ![Op(o, p)].status = IF ok THEN "unset" ELSE "error"]
    /\ \/ /\ ok
          /\ pc' = [pc EXCEPT ![p] = [at |-> at]]
          /\ queue' = [queue EXCEPT ![p] = @ \cup {Op(o, p)}]
       \/ /\ ~ok
          /\ Exit(p)

\* setCache: SET user:user-1.
SetCache(p) ==
    /\ pc[p].at = "set"
    /\ \E ran, replied \in BOOLEAN :
          /\ Helper(p, "set", ran /\ replied, "get")
          /\ kv' = [kv EXCEPT !.user = @ \/ ran]
    /\ UNCHANGED <<now, due, KafkaVars, collector, dropped, rpc>>

\* getCache: GET fails with redis.Nil when the key is gone, or with the
\* connection's error; the JSON that setCache stored always decodes.
GetCache(p) ==
    /\ pc[p].at = "get"
    /\ \E replied \in BOOLEAN : Helper(p, "get", kv.user /\ replied, "del")
    /\ UNCHANGED <<now, due, KafkaVars, collector, dropped, rpc, kv>>

\* deleteCache: DEL, which succeeds on a missing key too.
DeleteCache(p) ==
    /\ pc[p].at = "del"
    /\ \E ran, replied \in BOOLEAN :
          /\ Helper(p, "del", ran /\ replied, "pipe")
          /\ kv' = [kv EXCEPT !.user = @ /\ ~ran]
    /\ UNCHANGED <<now, due, KafkaVars, collector, dropped, rpc>>

\* usePipeline: INCR and EXPIRE pipeline_counter in one round trip.
UsePipeline(p) ==
    /\ pc[p].at = "pipe"
    /\ \E ran, replied \in BOOLEAN :
          /\ Helper(p, "pipe", ran /\ replied, "tx")
          /\ kv' = [kv EXCEPT !.pipe = @ + (IF ran THEN 1 ELSE 0)]
    /\ UNCHANGED <<now, due, KafkaVars, collector, dropped, rpc>>

\* useTransaction's span ends and main returns, normally or by log.Fatalf:
\* the process is gone either way.
TxReturn(p, ok) ==
    /\ spans' = [spans EXCEPT ![Op("tx", p)].ended = TRUE,
                              ![Op("tx", p)].status = IF ok THEN "unset" ELSE "error"]
    /\ Exit(p)

\* useTransaction: the span starts and rdb.Watch sends WATCH tx_counter;
\* Redis notes the key's version.
TxWatch(p) ==
    /\ pc[p].at = "tx"
    /\ spans' = StartSpan(Op("tx", p), NoSpan, p) @@ spans
    /\ pc' = [pc EXCEPT ![p] = [at |-> "txget", ver |-> kv.ver]]
    /\ UNCHANGED <<now, queue, due, KafkaVars, collector, dropped, rpc, kv>>

\* The callback GETs n (redis.Nil reads as 0).  A failed WATCH or GET makes
\* Watch return its error: SetError, End, log.Fatalf.
TxGet(p) ==
    /\ pc[p].at = "txget"
    /\ \/ /\ pc' = [pc EXCEPT ![p] = [at |-> "exec", n |-> kv.tx, ver |-> pc[p].ver]]
          /\ UNCHANGED <<spans, queue>>
       \/ TxReturn(p, FALSE)
    /\ UNCHANGED <<now, due, KafkaVars, collector, dropped, rpc, kv>>

\* Mutant: EXEC runs the queued SET whatever was written since WATCH.
TxExecNoWatch(p) ==
    /\ pc[p].at = "exec"
    /\ kv' = [kv EXCEPT !.tx = pc[p].n + 1, !.ver = @ + 1]
    /\ TxReturn(p, TRUE)
    /\ UNCHANGED <<now, due, KafkaVars, collector, dropped, rpc>>

\* TxPipelined sends MULTI, SET tx_counter n+1, EXEC.  Redis runs the SET
\* only if tx_counter is unchanged since WATCH, else Watch returns
\* TxFailedErr; the EXEC may also not be sent, or its reply be lost.
TxExec(p) ==
    /\ pc[p].at = "exec"
    /\ \E sent, replied \in BOOLEAN :
          LET ran == sent /\ kv.ver = pc[p].ver IN
          /\ kv' = IF ran THEN [kv EXCEPT !.tx = pc[p].n + 1, !.ver = @ + 1] ELSE kv
          /\ TxReturn(p, ran /\ replied)
    /\ UNCHANGED <<now, due, KafkaVars, collector, dropped, rpc>>

-----------------------------------------------------------------------------
(* The HTTP example: net/http runs the /hello handler for each request in  *)
(* a goroutine of its own; the server never returns.                       *)

\* A request arrives: Extract from its headers (the example's callers send
\* no trace context, so a new trace), Start "hello", and processRequest
\* and queryDatabase Start theirs, each under the one before.
HelloStart(r) ==
    /\ Alive("web")
    /\ pc.web.req[r].at = "idle"
    /\ spans' = Under(Query(r), Request(r), Hello(r), "web")
                  @@ Under(Request(r), Hello(r), Hello(r), "web")
                  @@ StartSpan(Hello(r), NoSpan, "web") @@ spans
    /\ pc' = [pc EXCEPT !.web.req[r] = [at |-> "query"]]
    /\ UNCHANGED <<now, queue, due, KafkaVars, collector, dropped, rpc, kv>>

\* queryDatabase fails one time in ten (SetError) or returns nil; its
\* deferred span.End() runs.
QueryDone(r) ==
    /\ Alive("web")
    /\ pc.web.req[r].at = "query"
    /\ \E failed \in BOOLEAN :
          /\ EndSpan(Query(r), IF failed THEN "error" ELSE "unset")
          /\ pc' = [pc EXCEPT !.web.req[r] = [at |-> "process", err |-> failed]]
    /\ UNCHANGED <<now, due, KafkaVars, collector, dropped, rpc, kv>>

\* Mutant: processRequest drops the database error and returns nil.
ProcessReturnDropsError(r) ==
    /\ Alive("web")
    /\ pc.web.req[r].at = "process"
    /\ EndSpan(Request(r), "unset")
    /\ pc' = [pc EXCEPT !.web.req[r] = [at |-> "hello", err |-> FALSE]]
    /\ UNCHANGED <<now, due, KafkaVars, collector, dropped, rpc, kv>>

\* processRequest wraps the database error and returns it, without
\* SetError on its own span; its deferred span.End() runs.
ProcessReturn(r) ==
    /\ Alive("web")
    /\ pc.web.req[r].at = "process"
    /\ EndSpan(Request(r), "unset")
    /\ pc' = [pc EXCEPT !.web.req[r] = [at |-> "hello", err |-> pc.web.req[r].err]]
    /\ UNCHANGED <<now, due, KafkaVars, collector, dropped, rpc, kv>>

\* The handler: on the error SetError and http.Error (500); otherwise
\* Inject into the response headers (a HeaderCarrier, which cannot fail)
\* and write the body.  The deferred span.End() runs.
HelloReturn(r) ==
    /\ Alive("web")
    /\ pc.web.req[r].at = "hello"
    /\ EndSpan(Hello(r), IF pc.web.req[r].err THEN "error" ELSE "unset")
    /\ pc' = [pc EXCEPT !.web.req[r] = [at |-> "done"]]
    /\ UNCHANGED <<now, due, KafkaVars, collector, dropped, rpc, kv>>

-----------------------------------------------------------------------------
(* The batch span processors and the clock                                 *)

\* p's processor goroutine exports its queue when its timer fires; the
\* export reaches the collector or fails and the batch is dropped.
Export(p) ==
    /\ Alive(p)
    /\ now >= due[p]
    /\ \E ok \in BOOLEAN :
          IF ok THEN /\ collector' = collector \cup queue[p]
                     /\ UNCHANGED dropped
                ELSE /\ dropped' = dropped \cup queue[p]
                     /\ UNCHANGED collector
    /\ queue' = [queue EXCEPT ![p] = {}]
    /\ due' = [due EXCEPT ![p] = @ + BatchTimeout]
    /\ UNCHANGED <<now, pc, spans, outbox, topic, rpc, kv>>

\* A second passes once the timers and the sleep due by now have fired.
Tick ==
    /\ now < MaxTime
    /\ \A p \in Procs : Alive(p) => due[p] > now
    /\ ~(pc.producer.at = "sleep" /\ pc.producer.wake <= now)
    /\ ~(pc.client.at = "sleep" /\ pc.client.wake <= now)
    /\ ~(rpc.h[1].at = "sleep" /\ rpc.h[1].wake <= now)
    /\ now' = now + 1
    /\ UNCHANGED <<pc, spans, queue, due, outbox, topic, collector, dropped, rpc, kv>>

\* The clock is at its bound and the consumer has returned (or the gRPC
\* pair runs, whose server never returns); a sleep may run past the bound.
Terminated ==
    /\ now = MaxTime
    /\ ~Alive("consumer")
    /\ UNCHANGED vars

Next ==
    \/ ProduceOk \/ ProduceFull \/ Wake \/ FlushAndExit \/ Deliver
    \/ Poll \/ ProcessDone \/ ConsumeDone \/ Stop
    \/ CallUnary \/ UnaryReturn \/ CallStream \/ Recv \/ ClientWake
    \/ RecvEOF \/ RecvFail \/ \E k \in Calls : Break(k)
    \/ HandleUnary \/ UnaryDone \/ HandleStream \/ StreamSendOk \/ StreamSendFail
    \/ ServerWake \/ StreamReturn
    \/ \E p \in Programs.redis :
          SetCache(p) \/ GetCache(p) \/ DeleteCache(p) \/ UsePipeline(p)
          \/ TxWatch(p) \/ TxGet(p) \/ TxExec(p)
    \/ \E r \in 1..Requests :
          HelloStart(r) \/ QueryDone(r) \/ ProcessReturn(r) \/ HelloReturn(r)
    \/ \E p \in Procs : Export(p)
    \/ Tick
    \/ Terminated

Spec == Init /\ [][Next]_vars

-----------------------------------------------------------------------------
(***************************************************************************)
(* Properties                                                              *)
(***************************************************************************)

SpanIds ==
    {<<k, i>> : k \in {"produce", "consume", "process"}, i \in 0..Messages - 1}
       \cup {Call(k) : k \in Calls} \cup {Handle(k) : k \in Calls}
       \cup {Work(j) : j \in 0..StreamLen}
       \cup {Op(o, p) : o \in RedisOps, p \in Programs.redis}
       \cup {<<k, r>> : k \in {"hello", "request", "query"}, r \in 1..Requests}
Message == [id : 0..Messages - 1, hdr : SpanIds]

(* Types; and the spans are the ones the programs' loops start: the        *)
(* producer's messages, SayHelloStream's StreamLen items, the requests;    *)
(* the stream's buffer never holds more than the server sent.              *)
TypeOK ==
    /\ now \in 0..MaxTime
    /\ DOMAIN spans \subseteq SpanIds
    /\ \A s \in DOMAIN spans :
          /\ spans[s].proc \in Procs
          /\ spans[s].parent \in SpanIds \cup {NoSpan}
          /\ spans[s].status \in {"unset", "error"}
    /\ \A p \in Procs : queue[p] \subseteq DOMAIN spans
    /\ outbox \in Seq(Message) /\ Len(outbox) <= QueueCap
    /\ topic \in Seq(Message)
    /\ collector \cup dropped \subseteq DOMAIN spans
    /\ rpc.req \cup rpc.broken \subseteq Calls
    /\ rpc.buf \in 0..StreamLen /\ rpc.resp \in BOOLEAN /\ rpc.eof \in BOOLEAN
    /\ kv.user \in BOOLEAN /\ {kv.pipe, kv.tx, kv.ver} \subseteq 0..2

\* The span a span must hang under: the message's produce span for the
\* consumer span, the consumer span for processMessage's, the client's
\* call span for the server's, the server's span for processGRPCRequest's.
Up(s) ==
    CASE s[1] = "consume" -> <<"produce", s[2]>>
      [] s[1] = "process" -> <<"consume", s[2]>>
      [] s[1] = "handle"  -> Call(s[2])
      [] s[1] = "work"    -> Handle(IF s[2] = 0 THEN 0 ELSE 1)

(* A trace runs across the programs: the consumer span of message i is a   *)
(* child of the span that produced i and in its trace, and                 *)
(* processMessage's span a child of that consumer span; the server span of *)
(* a gRPC call is a child of the client's span of that call, and each      *)
(* processGRPCRequest span a child of the server span.  The link is the    *)
(* context Injected into the headers or metadata and Extracted on the      *)
(* other side, whatever the order of delivery, failures and exports.       *)
TraceLinked ==
    \A s \in DOMAIN spans :
       s[1] \in {"consume", "process", "handle", "work"} =>
          /\ spans[s].parent = Up(s)
          /\ Up(s) \in DOMAIN spans
          /\ spans[s].trace = spans[Up(s)].trace

(* A program that has returned has ended every span it started: the       *)
(* producer's error paths call span.End() before continue, and the         *)
(* consumer ends both spans before it polls again.                        *)
SpansEndedAtExit ==
    \A s \in DOMAIN spans : ~Alive(spans[s].proc) => spans[s].ended

(* A program returns only after every span it has ended has been handed to *)
(* the exporter (delivered, or dropped by a failed export).               *)
ExportedBeforeExit ==
    \A s \in DOMAIN spans :
       (~Alive(spans[s].proc) /\ spans[s].ended) => s \in collector \cup dropped

(* A produce span that ended without an error belongs to a message that    *)
(* is in the partition, or that librdkafka still holds.                    *)
OkSpanDelivered ==
    \A s \in DOMAIN spans :
       (s[1] = "produce" /\ spans[s].ended /\ spans[s].status = "unset")
          => \E m \in {outbox[j] : j \in DOMAIN outbox} \cup {topic[j] : j \in DOMAIN topic} :
                m.id = s[2]

(* A gRPC call whose client span ended without an error was served to the  *)
(* end: the server span exists and every server span of the call's trace   *)
(* has ended.  The client ends its span after the response or io.EOF, and  *)
(* gRPC sends those only once the handler, with its deferred span.End(),   *)
(* has returned; a broken transport ends the client span with an error.    *)
ClientOkAfterServer ==
    \A k \in Calls :
       (Call(k) \in DOMAIN spans /\ spans[Call(k)].ended /\ spans[Call(k)].status = "unset")
          => /\ Handle(k) \in DOMAIN spans
             /\ \A s \in DOMAIN spans :
                   (spans[s].proc = "server" /\ spans[s].trace = Call(k)) => spans[s].ended

(* No increment of tx_counter is lost: with both copies of the Redis      *)
(* example reading n and writing n+1 under WATCH, the counter equals the   *)
(* number of transactions Redis ran, whichever copy's EXEC comes second,   *)
(* and whether or not a client saw its reply.                              *)
TxCounterExact == kv.tx = kv.ver

(* Within a program a span ends only after the spans started under it:    *)
(* every child span is ended by a deferred End in a callee that returns    *)
(* before its caller's (processMessage before the consumer span,          *)
(* processGRPCRequest before the server span, queryDatabase before         *)
(* processRequest before the /hello span).                                 *)
NestedEndFirst ==
    \A s, c \in DOMAIN spans :
       (spans[c].parent = s /\ spans[c].proc = spans[s].proc /\ spans[s].ended)
          => spans[c].ended

(* A failed database query marks the request's root span as an error: the  *)
(* error goes up from queryDatabase through processRequest to the handler, *)
(* which calls SetError before its span ends, whatever the other requests  *)
(* handled at the same time do.                                            *)
ErrorReachesRoot ==
    \A r \in 1..Requests :
       (Query(r) \in DOMAIN spans /\ spans[Query(r)].status = "error" /\ spans[Hello(r)].ended)
          => spans[Hello(r)].status = "error"

=============================================================================
