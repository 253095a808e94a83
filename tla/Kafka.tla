------------------------------- MODULE Kafka -------------------------------
(***************************************************************************)
(* The Kafka producer and consumer of mq/kafka.go, on one topic partition. *)
(*                                                                         *)
(* Producer side: goroutines call SendMessage, each with a context that    *)
(* may be cancelled.  SendMessage makes an unbuffered delivery channel     *)
(* (closed by a defer on every return), hands the message to librdkafka    *)
(* with Produce, and selects on ctx.Done and the channel.  librdkafka has  *)
(* one goroutine that sends the delivery reports, in the order the broker  *)
(* answers, each on the channel given to Produce: a send on an unbuffered  *)
(* channel waits for the receiver, and a send on a closed channel panics   *)
(* and ends the process.                                                   *)
(*                                                                         *)
(* Consumer side: the program of examples/mq/main.go.  A goroutine runs    *)
(* Consume with a handler that always returns nil; main waits for a        *)
(* signal, then its defers run cancel() and consumer.Close() and main      *)
(* returns, ending the process.  librdkafka stores the offset of every     *)
(* message ReadMessage returns (enable.auto.offset.store) and commits the  *)
(* stored offset from a background timer (enable.auto.commit) and in       *)
(* Close.  The process may also be killed; it is started again, resuming   *)
(* from the committed offset.                                              *)
(*                                                                         *)
(* Offsets count messages: the consumer has read `pos` messages, and a     *)
(* committed offset c means messages 1..c are done for the group.          *)
(***************************************************************************)
EXTENDS Naturals, Sequences, FiniteSets

CONSTANTS
    Senders,        \* goroutines calling SendMessage, one message each (model values)
    QueueCap,       \* librdkafka's queue.buffering.max.messages
    HandlerMayFail, \* whether the handler given to Consume may return an error
    MayCrash,       \* whether the consumer process may be killed
    BrokerMayErr,   \* whether ReadMessage may return a broker error while open
    MaxRestarts     \* model bound: times the consumer process is started again

VARIABLES
    spc,        \* spc[s]: SendMessage of s: "idle", "wait" (in the select), "done"
    result,     \* result[s]: what SendMessage returned: "none", "nil", "err", "ctx"
    dclosed,    \* dclosed[s]: s's deliveryChan has been closed
    queue,      \* messages handed to librdkafka, not yet answered by the broker
    reports,    \* delivery reports waiting for the delivery goroutine
    log,        \* the partition: the sender of each appended message
    panicked,   \* the delivery goroutine sent on a closed channel
    cpc,        \* the Consume goroutine: "loop", "read", "handle", "returned", "dead"
    mpc,        \* main: "running", "closing" (after cancel), "closed", "exited"
    cctx,       \* the context given to Consume is done
    closed,     \* consumer.Close has been called
    pos,        \* messages ReadMessage has returned to this process
    stored,     \* librdkafka's stored offset
    committed,  \* the group's committed offset, kept by the broker
    handled,    \* offsets whose handler returned nil
    failed,     \* offsets whose handler returned an error
    restarts    \* times the consumer process has been started again

pvars == <<spc, result, dclosed, queue, reports, log, panicked>>
cvars == <<cpc, mpc, cctx, closed, pos, stored, committed, handled, failed, restarts>>
vars == <<pvars, cvars>>

Offsets == 0..Cardinality(Senders)

-----------------------------------------------------------------------------
(* Producer                                                                *)

\* NewProducer: no message sent yet.
ProducerInit ==
    /\ spc = [s \in Senders |-> "idle"]
    /\ result = [s \in Senders |-> "none"]
    /\ dclosed = [s \in Senders |-> FALSE]
    /\ queue = <<>>
    /\ reports = <<>>
    /\ log = <<>>
    /\ panicked = FALSE

\* SendMessage up to the select: make the channel, Produce.  Produce fails
\* when librdkafka's queue is full; SendMessage returns and its defer
\* closes the channel.
Produce(s) ==
    /\ ~panicked
    /\ spc[s] = "idle"
    /\ IF Len(queue) >= QueueCap
          THEN /\ spc' = [spc EXCEPT ![s] = "done"]
               /\ result' = [result EXCEPT ![s] = "err"]
               /\ dclosed' = [dclosed EXCEPT ![s] = TRUE]
               /\ UNCHANGED queue
          ELSE /\ spc' = [spc EXCEPT ![s] = "wait"]
               /\ queue' = Append(queue, s)
               /\ UNCHANGED <<result, dclosed>>
    /\ UNCHANGED <<reports, log, panicked, cvars>>

\* The broker answers the oldest queued message: it is appended and
\* acknowledged, appended but the acknowledgement is lost (librdkafka's
\* retries run out and it reports an error), or rejected.
Deliver ==
    /\ ~panicked
    /\ queue # <<>>
    /\ \E outcome \in {"acked", "ack_lost", "rejected"} :
          /\ log' = IF outcome = "rejected" THEN log ELSE Append(log, Head(queue))
          /\ reports' = Append(reports, [s |-> Head(queue), ok |-> outcome = "acked"])
    /\ queue' = Tail(queue)
    /\ UNCHANGED <<spc, result, dclosed, panicked, cvars>>

\* case <-ctx.Done(): SendMessage returns ctx.Err() and closes its channel.
CancelSend(s) ==
    /\ ~panicked
    /\ spc[s] = "wait"
    /\ spc' = [spc EXCEPT ![s] = "done"]
    /\ result' = [result EXCEPT ![s] = "ctx"]
    /\ dclosed' = [dclosed EXCEPT ![s] = TRUE]
    /\ UNCHANGED <<queue, reports, log, panicked, cvars>>

\* Mutant: TopicPartition.Error is not checked.
ReceiveIgnoresError(s) ==
    /\ ~panicked
    /\ reports # <<>>
    /\ Head(reports).s = s
    /\ spc[s] = "wait"
    /\ spc' = [spc EXCEPT ![s] = "done"]
    /\ result' = [result EXCEPT ![s] = "nil"]
    /\ dclosed' = [dclosed EXCEPT ![s] = TRUE]
    /\ reports' = Tail(reports)
    /\ UNCHANGED <<queue, log, panicked, cvars>>

\* case e := <-deliveryChan: the delivery goroutine hands the oldest report
\* to its sender, which returns an error if TopicPartition.Error is set.
Receive(s) ==
    /\ ~panicked
    /\ reports # <<>>
    /\ Head(reports).s = s
    /\ spc[s] = "wait"
    /\ spc' = [spc EXCEPT ![s] = "done"]
    /\ result' = [result EXCEPT ![s] = IF Head(reports).ok THEN "nil" ELSE "err"]
    /\ dclosed' = [dclosed EXCEPT ![s] = TRUE]
    /\ reports' = Tail(reports)
    /\ UNCHANGED <<queue, log, panicked, cvars>>

\* The oldest report is for a sender that has returned: its channel is
\* closed and the send panics.
PollerPanic ==
    /\ ~panicked
    /\ reports # <<>>
    /\ dclosed[Head(reports).s]
    /\ panicked' = TRUE
    /\ UNCHANGED <<spc, result, dclosed, queue, reports, log, cvars>>

-----------------------------------------------------------------------------
(* Consumer                                                                *)

\* NewConsumer, Subscribe, and the goroutine running Consume: nothing
\* committed yet, so auto.offset.reset=earliest starts at the first message.
ConsumerInit ==
    /\ cpc = "loop"
    /\ mpc = "running"
    /\ cctx = FALSE
    /\ closed = FALSE
    /\ pos = 0
    /\ stored = 0
    /\ committed = 0
    /\ handled = {}
    /\ failed = {}
    /\ restarts = 0

\* The select at the top of Consume's loop: return ctx.Err() once the
\* context is done, otherwise call ReadMessage.
Poll ==
    /\ cpc = "loop"
    /\ cpc' = IF cctx THEN "returned" ELSE "read"
    /\ UNCHANGED <<pvars, mpc, cctx, closed, pos, stored, committed, handled, failed, restarts>>

\* ReadMessage returns the next message; librdkafka stores its offset.
Read ==
    /\ cpc = "read"
    /\ ~closed
    /\ pos < Len(log)
    /\ pos' = pos + 1
    /\ stored' = pos + 1
    /\ cpc' = "handle"
    /\ UNCHANGED <<pvars, mpc, cctx, closed, committed, handled, failed, restarts>>

\* ReadMessage times out with no message: ErrTimedOut, continue.
ReadTimeout ==
    /\ cpc = "read"
    /\ ~closed
    /\ pos = Len(log)
    /\ cpc' = "loop"
    /\ UNCHANGED <<pvars, mpc, cctx, closed, pos, stored, committed, handled, failed, restarts>>

\* ReadMessage fails with an error other than ErrTimedOut: on a closed
\* consumer, or while open with an error event librdkafka hands to the
\* poll (a broker gone down, a transport failure, most of them transient).
\* Consume returns the error either way.
ReadError ==
    /\ cpc = "read"
    /\ closed \/ BrokerMayErr
    /\ cpc' = "returned"
    /\ UNCHANGED <<pvars, mpc, cctx, closed, pos, stored, committed, handled, failed, restarts>>

\* The handler returns nil and the loop goes on, or returns an error and
\* Consume returns it.
Handle ==
    /\ cpc = "handle"
    /\ \/ /\ handled' = handled \cup {pos}
          /\ cpc' = "loop"
          /\ UNCHANGED failed
       \/ /\ HandlerMayFail
          /\ failed' = failed \cup {pos}
          /\ cpc' = "returned"
          /\ UNCHANGED handled
    /\ UNCHANGED <<pvars, mpc, cctx, closed, pos, stored, committed, restarts>>

\* librdkafka's auto-commit timer commits the stored offset.
AutoCommit ==
    /\ mpc # "exited"
    /\ ~closed
    /\ stored # committed
    /\ committed' = stored
    /\ UNCHANGED <<pvars, cpc, mpc, cctx, closed, pos, stored, handled, failed, restarts>>

\* <-sigChan returns; main returns and its deferred cancel() runs first.
Signal ==
    /\ mpc = "running"
    /\ mpc' = "closing"
    /\ cctx' = TRUE
    /\ UNCHANGED <<pvars, cpc, closed, pos, stored, committed, handled, failed, restarts>>

\* The deferred consumer.Close(): commits the stored offset and leaves the
\* group.  Main does not wait for the Consume goroutine.
CloseConsumer ==
    /\ mpc = "closing"
    /\ mpc' = "closed"
    /\ closed' = TRUE
    /\ committed' = stored
    /\ UNCHANGED <<pvars, cpc, cctx, pos, stored, handled, failed, restarts>>

\* The deferred producer.Close() runs and main returns: the process ends,
\* and with it the Consume goroutine wherever it is.
Exit ==
    /\ mpc = "closed"
    /\ mpc' = "exited"
    /\ cpc' = "dead"
    /\ UNCHANGED <<pvars, cctx, closed, pos, stored, committed, handled, failed, restarts>>

\* The process is killed: nothing more is committed.
Crash ==
    /\ MayCrash
    /\ mpc # "exited"
    /\ mpc' = "exited"
    /\ cpc' = "dead"
    /\ UNCHANGED <<pvars, cctx, closed, pos, stored, committed, handled, failed, restarts>>

\* The program is started again: a new consumer in the same group resumes
\* from the committed offset.
Restart ==
    /\ mpc = "exited"
    /\ restarts < MaxRestarts
    /\ restarts' = restarts + 1
    /\ cpc' = "loop"
    /\ mpc' = "running"
    /\ cctx' = FALSE
    /\ closed' = FALSE
    /\ pos' = committed
    /\ stored' = committed
    /\ UNCHANGED <<pvars, committed, handled, failed>>

\* Every sender has returned or the producer has panicked, and the consumer
\* process has ended for the last time.
Terminated ==
    /\ panicked \/ (\A s \in Senders : spc[s] = "done")
    /\ mpc = "exited"
    /\ restarts = MaxRestarts
    /\ UNCHANGED vars

-----------------------------------------------------------------------------
Init == ProducerInit /\ ConsumerInit

ProducerNext ==
    \/ \E s \in Senders : Produce(s) \/ CancelSend(s) \/ Receive(s)
    \/ Deliver \/ PollerPanic

ConsumerNext ==
    \/ Poll \/ Read \/ ReadTimeout \/ ReadError \/ Handle
    \/ AutoCommit \/ Signal \/ CloseConsumer \/ Exit \/ Crash \/ Restart

Next ==
    \/ ProducerNext
    \/ ConsumerNext
    \/ Terminated

\* The goroutines, the broker and librdkafka's timer are scheduled; the
\* signal, a kill, a restart, a cancellation and a call are not promised.
Fairness ==
    /\ WF_vars(Deliver) /\ WF_vars(PollerPanic)
    /\ \A s \in Senders : WF_vars(Receive(s))
    /\ WF_vars(Poll) /\ WF_vars(Read) /\ WF_vars(ReadTimeout)
    /\ WF_vars(ReadError) /\ WF_vars(Handle) /\ WF_vars(AutoCommit)
    /\ WF_vars(CloseConsumer) /\ WF_vars(Exit)

Spec == Init /\ [][Next]_vars /\ Fairness

-----------------------------------------------------------------------------
(* SendMessage returns nil only when its message is in the partition: the *)
(* report a sender receives is its own, and a report with                  *)
(* TopicPartition.Error set is turned into an error.                       *)
NilMeansDelivered ==
    \A s \in Senders : result[s] = "nil" => \E i \in 1..Len(log) : log[i] = s

(* Consume keeps polling: every message in the partition is eventually     *)
(* returned by ReadMessage, unless the program is shutting down or gone,   *)
(* or a handler has failed (Consume then returns its error).  Neither a    *)
(* ReadMessage timeout nor a transient broker error may end the loop.      *)
ConsumerKeepsPolling ==
    \A o \in Offsets \ {0} :
        (Len(log) >= o) ~> (pos >= o \/ cctx \/ mpc = "exited" \/ failed # {})

(* No message is lost to the group: an offset below the committed one has *)
(* been handled, or is being handled by a Consume goroutine that will run  *)
(* its handler.  The stored offset moves when ReadMessage returns, before  *)
(* the handler runs, and Close commits it before main exits.               *)
NoLostMessage ==
    \A o \in 1..committed :
        o \in handled \/ (cpc = "handle" /\ pos = o)

(* SendMessage's channel is never closed while a report for it is still    *)
(* to come: the delivery goroutine never sends on a closed channel.        *)
NoSendOnClosed == ~panicked

=============================================================================
