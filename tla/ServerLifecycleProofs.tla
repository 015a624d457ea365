------------------------- MODULE ServerLifecycleProofs -------------------------
(***************************************************************************)
(* What a stop of the process leaves of the streams that run in it, for    *)
(* any number of streams and whatever goes wrong with the listeners.       *)
(***************************************************************************)
EXTENDS ServerLifecycle, TccOrderProofs

\* The handlers agree with the servers: nothing is open before Serve is reached,
\* no handler outlives main, and only a panic of the running server has killed one.
HandlersMatchServer ==
  /\ main = "preparing" => grpc = "off"
  /\ grpc \in {"broken", "malformed"} => main = "panicked"
  /\ \A o \in OrderUuids :
       /\ grpc \in {"off", "launched", "listening", "portTaken", "late"} => pc[o] = "idle"
       /\ main = "exited" => pc[o] \in {"idle"} \cup Ended
       /\ pc[o] = "dead" => grpc \in {"broken", "malformed"}

\* The inductive invariant: that of the streams, and the agreement.
LifecycleInv == LifecycleTypeOK /\ IInv /\ HandlersMatchServer

LEMMA InitLifecycleInv == LifecycleInit => LifecycleInv
<1>1. LifecycleInit => IInv
  BY InitIInv DEF LifecycleInit
<1>2. LifecycleInit => LifecycleTypeOK
  BY <1>1 DEF LifecycleInit, LifecycleTypeOK, IInv, Over
<1>3. LifecycleInit => HandlersMatchServer
  BY DEF LifecycleInit, Init, HandlersMatchServer
<1> QED
  BY <1>1, <1>2, <1>3 DEF LifecycleInv

\* A step of the process is a step of the streams, leaves them alone, or ends
\* them all.
LEMMA StreamsMove ==
  [LifecycleNext]_allVars => [Next]_vars \/ CutOff
<1> USE DEF Next
<1>1. Prepare \/ Signal \/ BeginDrain \/ HttpFails => UNCHANGED vars
  BY DEF Prepare, Signal, BeginDrain, HttpFails
<1>2. MainReturns \/ GrpcListen \/ GrpcServe \/ GrpcAcceptFails \/ HandlerPanics
       => UNCHANGED vars \/ CutOff
  BY DEF MainReturns, GrpcListen, GrpcServe, GrpcAcceptFails, HandlerPanics, Panic
<1>3. ASSUME NEW o \in OrderUuids
      PROVE  Open(o) \/ Sends(o) \/ RunHandler(o) \/ Outside(o) => Next
  BY DEF Open, Sends, RunHandler, Outside
<1>4. Catalogue => Next
  BY DEF Catalogue
<1>5. UNCHANGED allVars => UNCHANGED vars
  BY DEF allVars, vars
<1> QED
  BY <1>1, <1>2, <1>3, <1>4, <1>5 DEF LifecycleNext

LEMMA ProcessTypeStep ==
  LifecycleInv /\ [LifecycleNext]_allVars => LifecycleTypeOK'
<1> SUFFICES ASSUME LifecycleInv, [LifecycleNext]_allVars PROVE LifecycleTypeOK'
  OBVIOUS
<1>1. TypeOK'
  BY StreamsMove, TypeStep DEF LifecycleInv
<1>2. UNCHANGED processVars \/ LifecycleNext
  BY DEF allVars, processVars
<1>3. CASE UNCHANGED processVars
  BY <1>1, <1>3 DEF LifecycleInv, LifecycleTypeOK, processVars
<1>4. CASE Prepare \/ Signal \/ BeginDrain \/ MainReturns
  BY <1>1, <1>4 DEF LifecycleInv, LifecycleTypeOK, Over, Prepare, Signal, BeginDrain, MainReturns
<1>5. CASE GrpcListen \/ GrpcServe \/ GrpcAcceptFails \/ HandlerPanics \/ HttpFails
  BY <1>1, <1>5 DEF LifecycleInv, LifecycleTypeOK, Over, GrpcListen, GrpcServe,
                    GrpcAcceptFails, HandlerPanics, HttpFails, Panic
<1> QED
  BY <1>2, <1>3, <1>4, <1>5
  DEF LifecycleNext, Open, Sends, RunHandler, Outside, Catalogue

\* A handler's own step does not make it idle, and does not kill it.
LEMMA HandlerStaysOpen ==
  ASSUME TypeOK, NEW o \in OrderUuids, StreamStep(o), ~ ClientOpens(o), NEW p \in OrderUuids
  PROVE  /\ pc[p] = "idle" => pc'[p] = "idle"
         /\ pc'[p] = "dead" => pc[p] = "dead"
<1>1. CASE p # o
  BY <1>1, OthersUntouched DEF Untouched
<1>2. CASE p = o
  <2> USE <1>2 DEF TypeOK, GoTo, Finish, Undo
  <2>1. CASE ClientLeaves(o) \/ (\E c \in Carts : ClientSends(o, c)) \/ SmsServe(o) \/ SmsDrops(o)
    BY <2>1 DEF ClientLeaves, ClientSends, SmsServe, SmsDrops
  <2>2. CASE ReceiveFreeze(o) \/ Lock(o) \/ Freeze(o) \/ ReceiveOrder(o)
    BY <2>2 DEF ReceiveFreeze, Lock, Freeze, ReceiveOrder
  <2>3. CASE CreateNakedOrder(o)
    BY <2>3 DEF CreateNakedOrder, NextLoop
  <2>4. CASE AddOrderProduct(o)
    BY <2>4, AddOrderProductCases DEF NextLoop
  <2>5. CASE Ask(o) \/ Confirm(o) \/ Answer(o)
    BY <2>5 DEF Ask, Confirm, Answer
  <2>6. CASE DeleteLines(o) \/ DeleteRow(o)
    BY <2>6 DEF DeleteLines, DeleteRow
  <2> QED
    BY <2>1, <2>2, <2>3, <2>4, <2>5, <2>6 DEF StreamStep, Handle
<1> QED
  BY <1>1, <1>2

LEMMA AgreementStep ==
  LifecycleInv /\ [LifecycleNext]_allVars => HandlersMatchServer'
<1> SUFFICES ASSUME LifecycleInv, [LifecycleNext]_allVars PROVE HandlersMatchServer'
  OBVIOUS
<1> USE DEF HandlersMatchServer
<1>a. HandlersMatchServer /\ LifecycleTypeOK /\ TypeOK
  BY DEF LifecycleInv, IInv
<1>1. CASE UNCHANGED <<pc, processVars>>
  BY <1>a, <1>1 DEF processVars
<1>2. CASE Prepare \/ Signal \/ BeginDrain \/ HttpFails
  BY <1>a, <1>2 DEF Prepare, Signal, BeginDrain, HttpFails, vars
<1>3. CASE MainReturns
  <2>1. pc' = pc
    BY <1>a, <1>3 DEF MainReturns, CutOff, TypeOK
  <2> QED
    BY <1>a, <1>3, <2>1 DEF MainReturns
<1>4. CASE GrpcListen \/ GrpcServe
  <2>1. \A o \in OrderUuids : pc[o] = "idle"
    BY <1>a, <1>4 DEF GrpcListen, GrpcServe
  <2>2. \A o \in OrderUuids : pc'[o] = "idle"
    BY <1>4, <2>1 DEF GrpcListen, GrpcServe, Panic, CutOff, vars
  <2> QED
    BY <1>a, <1>4, <2>2 DEF GrpcListen, GrpcServe, Panic, Alive, Over
<1>5. CASE GrpcAcceptFails \/ HandlerPanics
  BY <1>a, <1>5 DEF GrpcAcceptFails, HandlerPanics, Panic
<1>6. ASSUME NEW o \in OrderUuids, Open(o) PROVE HandlersMatchServer'
  <2>1. /\ grpc \in {"serving", "stopped"} /\ main \notin Over /\ UNCHANGED processVars
        /\ pc' = [pc EXCEPT ![o] = "receiving"]
    BY <1>6 DEF Open, Admits, Alive, ClientOpens, GoTo
  <2> QED
    BY <1>a, <2>1 DEF processVars, Over, TypeOK
<1>7. ASSUME NEW o \in OrderUuids, Sends(o) \/ Outside(o) PROVE HandlersMatchServer'
  <2>1. UNCHANGED pc
    BY <1>7 DEF Sends, Outside, ClientSends, ClientLeaves, SmsServe, SmsDrops
  <2> QED
    BY <1>1, <1>7, <2>1 DEF Sends, Outside
<1>8. ASSUME NEW o \in OrderUuids, RunHandler(o) PROVE HandlersMatchServer'
  <2>1. main \notin Over /\ UNCHANGED processVars /\ StreamStep(o)
    BY <1>8 DEF RunHandler, Alive, StreamStep
  <2>2. ~ ClientOpens(o)
    BY <1>a, <1>8 DEF ClientOpens, RunHandler, Handle, ReceiveFreeze, Lock, Freeze, ReceiveOrder,
                CreateNakedOrder, AddOrderProduct, Ask, Confirm, Answer, DeleteLines, DeleteRow
  <2>3. \A p \in OrderUuids : /\ pc[p] = "idle" => pc'[p] = "idle"
                              /\ pc'[p] = "dead" => pc[p] = "dead"
    BY <1>a, <2>1, <2>2, HandlerStaysOpen
  <2> QED
    BY <1>a, <2>1, <2>3 DEF processVars, Over
<1>9. CASE Catalogue
  BY <1>1, <1>9 DEF Catalogue, ChangeCatalogue
<1> QED
  BY <1>1, <1>2, <1>3, <1>4, <1>5, <1>6, <1>7, <1>8, <1>9
  DEF LifecycleNext, allVars, processVars

LEMMA LifecycleInvariance == LifecycleSpec => []LifecycleInv
<1>1. LifecycleInit => LifecycleInv
  BY InitLifecycleInv
<1>2. LifecycleInv /\ [LifecycleNext]_allVars => LifecycleInv'
  BY StreamsMove, IInvStep, ProcessTypeStep, AgreementStep DEF LifecycleInv
<1> QED
  BY <1>1, <1>2, PTL DEF LifecycleSpec

-----------------------------------------------------------------------------
(* Theorems *)

\* The process's variables and those of its streams keep their types (main and
\* the goroutines it starts).
THEOREM LifecycleTypesHold == LifecycleSpec => []LifecycleTypeOK
  BY LifecycleInvariance, PTL DEF LifecycleInv

\* Neither GracefulStop, at any moment, nor a panic of MustRun when it starts
\* cuts a stream off: only a panic of the running server does, of its listener or
\* of a handler at a malformed product uuid.
THEOREM OnlyRunningServerCutsOff == LifecycleSpec => []NoStreamCutOff
<1>1. LifecycleInv => NoStreamCutOff
  BY DEF LifecycleInv, HandlersMatchServer, NoStreamCutOff
<1> QED
  BY <1>1, LifecycleInvariance, PTL

\* When main has returned from GracefulStop, every stream's order is whole with
\* its goods gone, or absent, although deferred deletions ran during the stop.
THEOREM NothingHalfDoneAtExit == LifecycleSpec => []DrainedStreamsSettled
<1>1. LifecycleInv => DrainedStreamsSettled
  <2> SUFFICES ASSUME LifecycleInv, main = "exited", NEW o \in OrderUuids,
                      ~ gone[o], struck[o] = {}
               PROVE  Settled(o) \/ Absent(o)
    BY DEF DrainedStreamsSettled
  <2>1. pc[o] \in {"idle"} \cup Ended /\ pc[o] # "dead"
    BY DEF LifecycleInv, HandlersMatchServer
  <2>2. pc[o] \in Steps \ Locked
    BY <2>1 DEF Steps, Locked, Ended
  <2> QED
    BY <2>1, <2>2, OutsideIsFinished DEF LifecycleInv
<1> QED
  BY <1>1, LifecycleInvariance, PTL
=============================================================================
