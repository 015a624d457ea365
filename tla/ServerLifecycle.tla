--------------------------- MODULE ServerLifecycle ---------------------------
(***************************************************************************)
(* The life of the process around the streams of TccOrder: main prepares   *)
(* its connections, launches the gRPC and the HTTP server, waits for a     *)
(* signal or for the end of the HTTP server, and stops the gRPC server     *)
(* gracefully: no new connection is accepted, and main returns when no     *)
(* gRPC handler is left.  The HTTP server is not shut down; it ends with   *)
(* the process, and so does everything when a goroutine panics: nothing in *)
(* the gRPC server recovers.                                               *)
(***************************************************************************)
EXTENDS TccOrder

CONSTANT ServerFaults   \* what can go wrong with the listeners and with requests

ASSUME LifecycleAssumption ==
  ServerFaults \subseteq {"grpcPort", "grpcAccept", "malformed", "http"}

VARIABLES
  main,       \* where main is
  grpc,       \* where the goroutine that runs MustRun is
  http,       \* where the goroutine that runs ListenAndServe is
  signalled   \* whether mainCtx is done: SIGINT or SIGTERM was received

processVars == <<main, grpc, http, signalled>>
allVars == <<pc, cart, sent, gone, holder, sms, taken, struck,
             product, orders, orderProducts, main, grpc, http, signalled>>

Over == {"exited", "panicked"}

LifecycleTypeOK ==
  /\ TypeOK
  /\ main \in {"preparing", "serving", "draining"} \cup Over
  /\ grpc \in {"off", "launched", "listening", "serving", "stopped",
               "portTaken", "late", "broken", "malformed"}
  /\ http \in {"off", "serving", "failed"}
  /\ signalled \in BOOLEAN

LifecycleInit ==
  /\ Init
  /\ main = "preparing" /\ grpc = "off" /\ http = "off"
  /\ signalled = FALSE

Alive == main \notin Over

-----------------------------------------------------------------------------
(* main *)

\* Configuration, pool, migrations, client connections; Fatal on an error.  A
\* signal is not looked at before the select.
Prepare ==
  /\ main = "preparing"
  /\ \/ main' = "serving" /\ grpc' = "launched" /\ http' = "serving"
     \/ main' = "exited" /\ UNCHANGED <<grpc, http>>
  /\ UNCHANGED <<vars, signalled>>

\* NotifyContext goes on catching signals, so later ones do nothing.
Signal ==
  /\ main \in {"preparing", "serving"} /\ ~ signalled
  /\ signalled' = TRUE
  /\ UNCHANGED <<vars, main, grpc, http>>

\* The select; GracefulStop closes the listener if Serve has been reached.
BeginDrain ==
  /\ main = "serving"
  /\ signalled \/ http = "failed"
  /\ main' = "draining"
  /\ grpc' = IF grpc = "serving" THEN "stopped" ELSE grpc
  /\ UNCHANGED <<vars, http, signalled>>

\* Mutant of MainReturns: Stop instead of GracefulStop.
ReturnAtOnce ==
  /\ main = "draining"
  /\ main' = "exited"
  /\ CutOff
  /\ UNCHANGED <<grpc, http, signalled>>

\* GracefulStop has waited for every handler, without a deadline.
MainReturns ==
  /\ main = "draining"
  /\ \A o \in OrderUuids : pc[o] \in {"idle"} \cup Ended
  /\ main' = "exited"
  /\ CutOff
  /\ UNCHANGED <<grpc, http, signalled>>

-----------------------------------------------------------------------------
(* The two servers *)

\* A goroutine panics, which ends the process and everything that runs in it.
Panic(why) == main' = "panicked" /\ grpc' = why /\ CutOff

GrpcListen ==
  /\ Alive /\ grpc = "launched"
  /\ \/ grpc' = "listening" /\ UNCHANGED <<vars, main>>
     \/ "grpcPort" \in ServerFaults /\ Panic("portTaken")
  /\ UNCHANGED <<http, signalled>>

\* Serve after GracefulStop returns ErrServerStopped.
GrpcServe ==
  /\ Alive /\ grpc = "listening"
  /\ \/ main = "serving" /\ grpc' = "serving" /\ UNCHANGED <<vars, main>>
     \/ main = "draining" /\ Panic("late")
  /\ UNCHANGED <<http, signalled>>

\* Serve returns an error of Accept that is not temporary, unless it was stopped.
GrpcAcceptFails ==
  /\ Alive /\ grpc = "serving"
  /\ "grpcAccept" \in ServerFaults /\ Panic("broken")
  /\ UNCHANGED <<http, signalled>>

\* ListenAndServe returns, at once or later, into serverErrorChan, whose buffer
\* keeps an error that main no longer waits for.
HttpFails ==
  /\ main = "serving" /\ http = "serving"
  /\ "http" \in ServerFaults
  /\ http' = "failed"
  /\ UNCHANGED <<vars, main, grpc, signalled>>

-----------------------------------------------------------------------------
(* The handlers of the process *)

\* A connection that is there admits streams until its client has seen that the
\* server is going away.
Admits == Alive /\ grpc \in {"serving", "stopped"}

Open(o) == Admits /\ ClientOpens(o) /\ UNCHANGED processVars

\* uuid.MustParse panics at a product uuid of the order a stream receives, or of a
\* message to Create: any client's, also while the process drains.
HandlerPanics ==
  /\ Admits
  /\ "malformed" \in ServerFaults /\ Panic("malformed")
  /\ UNCHANGED <<http, signalled>>

Sends(o) == (\E c \in Carts : ClientSends(o, c)) /\ UNCHANGED processVars

RunHandler(o) == Alive /\ Handle(o) /\ UNCHANGED processVars

\* What goes on outside the process.
Outside(o) ==
  /\ ClientLeaves(o) \/ SmsServe(o) \/ SmsDrops(o)
  /\ UNCHANGED processVars

\* The product server is one of the gRPC server's services.
Catalogue == Admits /\ ChangeCatalogue /\ UNCHANGED processVars

LifecycleNext ==
  \/ Prepare \/ Signal \/ BeginDrain \/ MainReturns
  \/ GrpcListen \/ GrpcServe \/ GrpcAcceptFails \/ HandlerPanics \/ HttpFails
  \/ \E o \in OrderUuids : Open(o) \/ Sends(o) \/ RunHandler(o) \/ Outside(o)
  \/ Catalogue

\* main and the handlers are goroutines and run on; SMS answers, and a client that
\* has asked for resources sends its order.  Nothing makes a signal come, and
\* nothing is assumed of the servers' goroutines: main ends without them.
LifecycleFairness ==
  /\ WF_allVars(Prepare) /\ WF_allVars(BeginDrain) /\ WF_allVars(MainReturns)
  /\ \A o \in OrderUuids :
       /\ WF_allVars(Sends(o)) /\ WF_allVars(RunHandler(o))
       /\ WF_allVars(SmsServe(o) /\ UNCHANGED processVars)

LifecycleSpec ==
  LifecycleInit /\ [][LifecycleNext]_allVars /\ LifecycleFairness

-----------------------------------------------------------------------------
(* Properties *)

\* A stop, whenever it comes and whatever the streams wait for, cuts no creation
\* off half-way; nor does a panic of the gRPC server when it starts, be its port
\* taken or the stop faster than the start.  Only a panic of the running server
\* does: its listener breaks, or a client, of these streams or another, names a
\* product by something that is no uuid.
NoStreamCutOff ==
  \A o \in OrderUuids : pc[o] = "dead" => grpc \in {"broken", "malformed"}

\* When main has returned, every order of a stream is complete with its goods
\* written off, or not there at all with none: deferred deletions and waits for
\* createOrderMu included.  Except where its own client left or its own reply,
\* insertion or deletion failed.
DrainedStreamsSettled ==
  main = "exited" =>
    \A o \in OrderUuids :
      ~ gone[o] /\ struck[o] = {} => Settled(o) \/ Absent(o)

\* A signal, or the end of the HTTP server, ends the process, although streams
\* queue for a mutex that is held while its holder waits for client and SMS.
ShutdownEnds == signalled \/ http = "failed" ~> main \in Over
=============================================================================
