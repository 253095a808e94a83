------------------------------- MODULE Server -------------------------------
(***************************************************************************)
(* The Start/Stop lifecycle of the HTTP server (server/http/server.go) and *)
(* the gRPC server (server/grpc/server.go), each run as its example        *)
(* program runs it (examples/server/http, examples/server/grpc): main      *)
(* builds the server, starts it in a goroutine, waits for a signal, calls  *)
(* Stop with a context that times out after 5 s, and returns, ending the   *)
(* process.  The two programs are separate processes; a run checks both    *)
(* side by side.                                                           *)
(*                                                                         *)
(* net/http and grpc-go are modelled by what Start and Stop rely on:       *)
(*   - ListenAndServe returns ErrServerClosed at once on a server that     *)
(*     Shutdown has been called on; Shutdown closes the listeners, then    *)
(*     waits for the connections to go idle or for ctx to be done;         *)
(*   - Serve on a stopped grpc.Server closes the listener and returns      *)
(*     ErrServerStopped; GracefulStop closes the listeners and waits for   *)
(*     every RPC, with no deadline.                                        *)
(* The HTTP Start writes s.server in the serving goroutine and Stop reads  *)
(* it in main with nothing ordering the two: under the Go memory model the *)
(* read may return nil even after the write.                               *)
(*                                                                         *)
(* Requests are counted, not represented: a client request is accepted    *)
(* while the listener is open, and its handler returns later.  The gRPC    *)
(* example enables the health and reflection services; a client of either *)
(* (a health Watch, a reflection stream) holds a stream that ends only     *)
(* when the client closes it.                                              *)
(***************************************************************************)
EXTENDS Naturals

CONSTANTS
    Programs,      \* the example programs run: a subset of {"http", "grpc"}
    MaxRequests,   \* model bound: requests in flight at once
    ListenMayFail  \* whether net.Listen may fail (the port is taken)

ASSUME Programs \subseteq {"http", "grpc"} /\ MaxRequests \in Nat \ {0}

VARIABLES
    mpc,        \* main: "waiting" (<-quit), "stopping", "graceful", "draining", "stopped", "exited"
    gpc,        \* the goroutine running Start: "spawned", "listen", "serve", "serving", "returned", "dead"
    server,     \* HTTP: s.server has been assigned
    shut,       \* the library has been told to shut down (Shutdown, GracefulStop)
    listening,  \* the listener is open and accepts connections
    inflight,   \* requests whose handler has not returned
    streams,    \* gRPC: open health Watch and reflection streams
    health,     \* gRPC: the health service's status for "" ("none" for HTTP)
    expired,    \* Stop's ctx deadline has passed
    stopErr     \* what Stop returned: "none", "nil", "ctx"

vars == <<mpc, gpc, server, shut, listening, inflight, streams, health, expired, stopErr>>

\* What the unsynchronised read of s.server in Stop may return.
Seen(p) == IF server[p] THEN {TRUE, FALSE} ELSE {FALSE}

\* health.NewServer() reports SERVING for "" from the start.
HealthAtNew(p) == IF p = "grpc" THEN "SERVING" ELSE "none"

\* New(...) and the `go func() { server.Start() }()` of main.
Init ==
    /\ mpc = [p \in Programs |-> "waiting"]
    /\ gpc = [p \in Programs |-> "spawned"]
    /\ server = [p \in Programs |-> FALSE]
    /\ shut = [p \in Programs |-> FALSE]
    /\ listening = [p \in Programs |-> FALSE]
    /\ inflight = [p \in Programs |-> 0]
    /\ streams = [p \in Programs |-> 0]
    /\ health = [p \in Programs |-> HealthAtNew(p)]
    /\ expired = [p \in Programs |-> FALSE]
    /\ stopErr = [p \in Programs |-> "none"]

-----------------------------------------------------------------------------
(* Clients                                                                 *)

\* A client connects and sends a request while the listener is open.
Accept(p) ==
    /\ listening[p]
    /\ inflight[p] < MaxRequests
    /\ inflight' = [inflight EXCEPT ![p] = @ + 1]
    /\ UNCHANGED <<mpc, gpc, server, shut, listening, health, expired, stopErr, streams>>

\* A handler returns.
Finish(p) ==
    /\ inflight[p] > 0
    /\ inflight' = [inflight EXCEPT ![p] = @ - 1]
    /\ UNCHANGED <<mpc, gpc, server, shut, listening, health, expired, stopErr, streams>>

\* A client opens a stream on a service New registered when EnableHealth
\* (Health.Watch) or EnableReflect (ServerReflectionInfo) is set; the
\* handler loops until the client goes away.
OpenStream(p) ==
    /\ p = "grpc"
    /\ listening[p]
    /\ streams[p] < MaxRequests
    /\ streams' = [streams EXCEPT ![p] = @ + 1]
    /\ UNCHANGED <<mpc, gpc, server, shut, listening, inflight, health, expired, stopErr>>

\* The client cancels its stream, and the handler returns.
CloseStream(p) ==
    /\ streams[p] > 0
    /\ streams' = [streams EXCEPT ![p] = @ - 1]
    /\ UNCHANGED <<mpc, gpc, server, shut, listening, inflight, health, expired, stopErr>>

-----------------------------------------------------------------------------
(* The goroutine running Start                                             *)

\* HTTP Start: s.server = &http.Server{...}.
HttpAssign(p) ==
    /\ p = "http"
    /\ gpc[p] = "spawned"
    /\ server' = [server EXCEPT ![p] = TRUE]
    /\ gpc' = [gpc EXCEPT ![p] = "listen"]
    /\ UNCHANGED <<mpc, shut, listening, inflight, streams, health, expired, stopErr>>

\* HTTP Start: s.server.ListenAndServe(): ErrServerClosed on a server shut
\* down, the error of net.Listen, or serving.
HttpListen(p) ==
    /\ gpc[p] = "listen"
    /\ \/ /\ shut[p] \/ ListenMayFail
          /\ gpc' = [gpc EXCEPT ![p] = "returned"]
          /\ UNCHANGED listening
       \/ /\ ~shut[p]
          /\ listening' = [listening EXCEPT ![p] = TRUE]
          /\ gpc' = [gpc EXCEPT ![p] = "serving"]
    /\ UNCHANGED <<mpc, server, shut, inflight, streams, health, expired, stopErr>>

\* gRPC Start: net.Listen fails and Start returns its error, or s.lis is
\* set and the health status is set to SERVING.
GrpcListen(p) ==
    /\ p = "grpc"
    /\ gpc[p] = "spawned"
    /\ \/ /\ ListenMayFail
          /\ gpc' = [gpc EXCEPT ![p] = "returned"]
          /\ UNCHANGED health
       \/ /\ health' = [health EXCEPT ![p] = "SERVING"]
          /\ gpc' = [gpc EXCEPT ![p] = "serve"]
    /\ UNCHANGED <<mpc, server, shut, listening, inflight, streams, expired, stopErr>>

\* gRPC Start: s.Serve(lis): ErrServerStopped on a stopped server, else
\* serving.
GrpcServe(p) ==
    /\ gpc[p] = "serve"
    /\ IF shut[p]
          THEN /\ gpc' = [gpc EXCEPT ![p] = "returned"]
               /\ UNCHANGED listening
          ELSE /\ listening' = [listening EXCEPT ![p] = TRUE]
               /\ gpc' = [gpc EXCEPT ![p] = "serving"]
    /\ UNCHANGED <<mpc, server, shut, inflight, streams, health, expired, stopErr>>

\* Serve returns (ErrServerClosed, or nil for gRPC) once the listener has
\* been closed by a shutdown; Start returns it and the goroutine logs it.
ServeReturns(p) ==
    /\ gpc[p] = "serving"
    /\ shut[p]
    /\ gpc' = [gpc EXCEPT ![p] = "returned"]
    /\ UNCHANGED <<mpc, server, shut, listening, inflight, streams, health, expired, stopErr>>

-----------------------------------------------------------------------------
(* main                                                                    *)

\* <-quit returns: main builds ctx with a 5 s timeout and calls Stop.
Quit(p) ==
    /\ mpc[p] = "waiting"
    /\ mpc' = [mpc EXCEPT ![p] = "stopping"]
    /\ UNCHANGED <<gpc, server, shut, listening, inflight, streams, health, expired, stopErr>>

\* HTTP Stop: if s.server != nil, Shutdown(ctx) closes the listeners and
\* waits; otherwise Stop returns nil at once.
HttpStop(p) ==
    /\ p = "http"
    /\ mpc[p] = "stopping"
    /\ \E seen \in Seen(p) :
          IF seen
          THEN /\ shut' = [shut EXCEPT ![p] = TRUE]
               /\ listening' = [listening EXCEPT ![p] = FALSE]
               /\ mpc' = [mpc EXCEPT ![p] = "draining"]
               /\ UNCHANGED stopErr
          ELSE /\ stopErr' = [stopErr EXCEPT ![p] = "nil"]
               /\ mpc' = [mpc EXCEPT ![p] = "stopped"]
               /\ UNCHANGED <<shut, listening>>
    /\ UNCHANGED <<gpc, server, inflight, streams, health, expired>>

\* gRPC Stop: the health status of "" is set to NOT_SERVING.
GrpcStopHealth(p) ==
    /\ p = "grpc"
    /\ mpc[p] = "stopping"
    /\ health' = [health EXCEPT ![p] = "NOT_SERVING"]
    /\ mpc' = [mpc EXCEPT ![p] = "graceful"]
    /\ UNCHANGED <<gpc, server, shut, listening, inflight, streams, expired, stopErr>>

\* gRPC Stop: s.GracefulStop() stops the server and closes the listeners,
\* then waits for the RPCs in flight.
GrpcGracefulStop(p) ==
    /\ mpc[p] = "graceful"
    /\ shut' = [shut EXCEPT ![p] = TRUE]
    /\ listening' = [listening EXCEPT ![p] = FALSE]
    /\ mpc' = [mpc EXCEPT ![p] = "draining"]
    /\ UNCHANGED <<gpc, server, inflight, streams, health, expired, stopErr>>

\* Every request and stream has finished: Shutdown (or GracefulStop)
\* returns and Stop returns nil.
Drained(p) ==
    /\ mpc[p] = "draining"
    /\ inflight[p] = 0
    /\ streams[p] = 0
    /\ stopErr' = [stopErr EXCEPT ![p] = "nil"]
    /\ mpc' = [mpc EXCEPT ![p] = "stopped"]
    /\ UNCHANGED <<gpc, server, shut, listening, inflight, streams, health, expired>>

\* The 5 s of Stop's ctx run out.
Deadline(p) ==
    /\ mpc[p] = "draining"
    /\ ~expired[p]
    /\ expired' = [expired EXCEPT ![p] = TRUE]
    /\ UNCHANGED <<mpc, gpc, server, shut, listening, inflight, streams, health, stopErr>>

\* HTTP Shutdown returns ctx.Err() once ctx is done; GracefulStop has no
\* such exit.
ShutdownTimeout(p) ==
    /\ p = "http"
    /\ mpc[p] = "draining"
    /\ expired[p]
    /\ stopErr' = [stopErr EXCEPT ![p] = "ctx"]
    /\ mpc' = [mpc EXCEPT ![p] = "stopped"]
    /\ UNCHANGED <<gpc, server, shut, listening, inflight, streams, health, expired>>

\* main logs and returns: the process ends, and with it every goroutine,
\* listener and connection.
Exit(p) ==
    /\ mpc[p] = "stopped"
    /\ mpc' = [mpc EXCEPT ![p] = "exited"]
    /\ gpc' = [gpc EXCEPT ![p] = "dead"]
    /\ listening' = [listening EXCEPT ![p] = FALSE]
    /\ inflight' = [inflight EXCEPT ![p] = 0]
    /\ streams' = [streams EXCEPT ![p] = 0]
    /\ UNCHANGED <<server, shut, health, expired, stopErr>>

\* Both processes have ended.
Terminated ==
    /\ \A p \in Programs : mpc[p] = "exited"
    /\ UNCHANGED vars

Next ==
    \/ \E p \in Programs :
          \/ Accept(p) \/ Finish(p) \/ OpenStream(p) \/ CloseStream(p)
          \/ HttpAssign(p) \/ HttpListen(p) \/ GrpcListen(p) \/ GrpcServe(p)
          \/ ServeReturns(p)
          \/ Quit(p) \/ HttpStop(p) \/ GrpcStopHealth(p) \/ GrpcGracefulStop(p)
          \/ Drained(p) \/ Deadline(p) \/ ShutdownTimeout(p) \/ Exit(p)
    \/ Terminated

(***************************************************************************)
(* The goroutines of a process are scheduled, unary handlers return (the  *)
(* examples' handlers do no I/O) and the clock runs.  Clients, the streams *)
(* they hold open and the signal come from outside and get no fairness.    *)
(***************************************************************************)
Fairness ==
    \A p \in Programs :
       /\ WF_vars(Finish(p))
       /\ WF_vars(HttpAssign(p)) /\ WF_vars(HttpListen(p))
       /\ WF_vars(GrpcListen(p)) /\ WF_vars(GrpcServe(p)) /\ WF_vars(ServeReturns(p))
       /\ WF_vars(HttpStop(p)) /\ WF_vars(GrpcStopHealth(p)) /\ WF_vars(GrpcGracefulStop(p))
       /\ WF_vars(Drained(p)) /\ WF_vars(Deadline(p)) /\ WF_vars(ShutdownTimeout(p))
       /\ WF_vars(Exit(p))

Spec == Init /\ [][Next]_vars /\ Fairness

-----------------------------------------------------------------------------
(***************************************************************************)
(* Properties                                                              *)
(***************************************************************************)

(* Stop returns: once main has been signalled, its Stop(ctx) call ends    *)
(* (nil, or the ctx error once the example's 5 s have passed), whatever    *)
(* Start is doing and whatever streams clients hold open.                  *)
StopReturns ==
    \A p \in Programs : (mpc[p] = "stopping") ~> (mpc[p] \in {"stopped", "exited"})

(* Stop's promise to main, as its log line "server closed" reads: once     *)
(* Stop has returned nil, the server does not listen, and never listens   *)
(* again.                                                                  *)
NilStopMeansStopped ==
    \A p \in Programs :
       [](mpc[p] = "stopped" /\ stopErr[p] = "nil" => [](~listening[p]))

=============================================================================
