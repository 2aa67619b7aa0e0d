------------------------ MODULE WorkerLifecycleProofs -----------------------
(***************************************************************************)
(* Proofs about WorkerLifecycle: its safety properties, in whatever order  *)
(* steps succeed and fail.                                                 *)
(***************************************************************************)
EXTENDS WorkerLifecycle, TLAPS

Clients == {"provider", "webhook", "database"}

\* Where run_worker closes the clients, or has done so.
Closing == Clients \cup {"exited"}

\* Which task runs where.
TasksOK ==
  \A t \in Tasks :
    /\ main \in StartUp => task[t] = "none"
    /\ main \in Closing \cup {"broker"} => ~Alive(t)

\* What is open where.  Once something raised, nothing is said of what is left.
OpenOK ==
  /\ main \notin Closing => Clients \subseteq open /\ raised = {}
  /\ main = "provider" /\ raised = {} => open \subseteq Clients
  /\ main = "webhook" /\ raised = {} => open \subseteq {"webhook", "database"}
  /\ main = "database" /\ raised = {} => open \subseteq {"database"}
  /\ main = "exited" /\ raised = {} => open = {}

\* The broker is open where somebody depends on it.
BrokerOK ==
  /\ main \in {"declare", "start", "serve", "broker"} => "broker" \in open
  /\ main \notin Closing => /\ consuming => "broker" \in open
                            /\ \A t \in Tasks : Alive(t) => "broker" \in open
  /\ main \in Closing /\ "broker" \notin raised => ~consuming

\* The loss of a task is on its way out.
DiedOK ==
  /\ main \in StartUp => died = {}
  /\ main \notin StartUp \cup {"serve"} /\ died # {} => error

Inv == TypeOK /\ TasksOK /\ OpenOK /\ BrokerOK /\ DiedOK

LEMMA InvImplies ==
  Inv => TypeOK /\ TasksKeepWhatTheyNeed /\ DeliveriesEndFirst /\ EndsHonestly
<1> SUFFICES ASSUME Inv
             PROVE  TypeOK /\ TasksKeepWhatTheyNeed /\ DeliveriesEndFirst
                    /\ EndsHonestly
  OBVIOUS
<1>1. TasksKeepWhatTheyNeed
  BY DEF Inv, TasksOK, OpenOK, BrokerOK, TasksKeepWhatTheyNeed, Needs, Closing,
         Clients, Tasks
<1>2. DeliveriesEndFirst
  BY DEF Inv, OpenOK, BrokerOK, DeliveriesEndFirst, Clients, Resources
<1>3. EndsHonestly
  BY DEF Inv, OpenOK, DiedOK, EndsHonestly, StartUp
<1>4. QED
  BY <1>1, <1>2, <1>3 DEF Inv

LEMMA InvInit == Init => Inv
BY DEF Init, Inv, TypeOK, TasksOK, OpenOK, BrokerOK, DiedOK, Alive, Tasks,
       StartUp, Resources, Closing, Clients

\* Start-up opens the broker before anybody depends on it.
LEMMA StartUpInv ==
  ASSUME Inv,
         CheckDatabase \/ Connect \/ DeclareTopology \/ Subscribe \/ Start
           \/ StartUpFails
  PROVE  Inv'
<1> USE DEF Inv, TypeOK, TasksOK, OpenOK, BrokerOK, DiedOK, Alive, Tasks,
            StartUp, Resources, Closing, Clients, broker, history
<1>1. CASE CheckDatabase
  BY <1>1 DEF CheckDatabase
<1>2. CASE Connect
  BY <1>2 DEF Connect
<1>3. CASE DeclareTopology
  BY <1>3 DEF DeclareTopology
<1>4. CASE Subscribe
  BY <1>4 DEF Subscribe
<1>5. CASE Start
  BY <1>5 DEF Start
<1>6. CASE StartUpFails
  BY <1>6 DEF StartUpFails
<1>7. QED
  BY <1>1, <1>2, <1>3, <1>4, <1>5, <1>6

\* Tasks step and fail between the awaits of run_worker.
LEMMA TasksInv ==
  ASSUME Inv, NEW t \in Tasks, TaskStep(t) \/ TaskFails(t)
  PROVE  Inv'
<1>1. /\ Alive(t)
      /\ UNCHANGED <<main, error, open, consuming, raised>>
      /\ \A o \in Tasks \ {t} : task'[o] = task[o]
      /\ task' \in [Tasks -> {"none", "waiting", "busy", "returned", "failed",
                              "cancelled"}]
      /\ shutdown' \in BOOLEAN
  BY DEF TaskStep, TaskFails, Alive, broker, history, Inv, TypeOK
<1>2. \/ UNCHANGED died /\ task'[t] # "none"
      \/ task'[t] = "failed" /\ died' = IF main = "serve" THEN died \cup {t} ELSE died
  BY DEF TaskStep, TaskFails, broker, history, Inv, TypeOK
<1>3. main \notin StartUp \cup Closing \cup {"broker"}
  BY <1>1 DEF Inv, TasksOK, Alive
<1>4. died' \subseteq {o \in Tasks : task'[o] = "failed"}
  BY <1>1, <1>2 DEF Inv, TypeOK, Alive
<1>5. TypeOK'
  BY <1>1, <1>4 DEF Inv, TypeOK
<1>6. TasksOK' /\ OpenOK' /\ DiedOK'
  BY <1>1, <1>2, <1>3 DEF Inv, TasksOK, OpenOK, DiedOK
<1>7. "broker" \in open
  BY <1>1, <1>3 DEF Inv, BrokerOK
<1>8. BrokerOK'
  BY <1>1, <1>3, <1>7 DEF BrokerOK
<1>9. QED
  BY <1>5, <1>6, <1>8 DEF Inv

\* The shutdown asks the tasks, awaits them, and closes what they used.
LEMMA ShutDownInv ==
  ASSUME Inv, Signal \/ ShutDown \/ CleanUp
  PROVE  Inv'
<1> USE DEF Inv, TypeOK, TasksOK, OpenOK, BrokerOK, DiedOK, Alive, Tasks,
            StartUp, Resources, Closing, Clients, broker, history
<1>1. CASE Signal
  BY <1>1 DEF Signal
<1>2. CASE ShutDown
  BY <1>2 DEF ShutDown
<1>3. CASE AwaitTask
  BY <1>3 DEF AwaitTask
<1>4. CASE AwaitTasks
  BY <1>4 DEF AwaitTasks
<1>5. CASE AwaitRaises
  BY <1>5 DEF AwaitRaises, Abort
<1>6. CASE StopBroker
  BY <1>6 DEF StopBroker
<1>7. CASE Close
  BY <1>7 DEF Close, After
<1>8. CASE CloseRaises
  BY <1>8 DEF CloseRaises, Abort, After
<1>9. QED
  BY <1>1, <1>2, <1>3, <1>4, <1>5, <1>6, <1>7, <1>8 DEF CleanUp

LEMMA InvStep == Inv /\ [Next]_vars => Inv'
<1> SUFFICES ASSUME Inv, [Next]_vars PROVE Inv'
  OBVIOUS
<1>1. CASE UNCHANGED vars
  BY <1>1 DEF vars, broker, history, Inv, TypeOK, TasksOK, OpenOK, BrokerOK,
              DiedOK, Alive
<1>2. CASE Next
  BY <1>2, StartUpInv, TasksInv, ShutDownInv DEF Next
<1>3. QED
  BY <1>1, <1>2

LEMMA Invariance == Spec => []Inv
BY InvInit, InvStep, PTL DEF Spec

\* Nothing is closed under a running task.
THEOREM NothingTakenFromTasks == Spec => []TasksKeepWhatTheyNeed
BY Invariance, InvImplies, PTL

\* Deliveries end before the clients do.
THEOREM DeliveriesEnd == Spec => []DeliveriesEndFirst
BY Invariance, InvImplies, PTL

\* A lost task is reported, and a clean-up that raised nothing is complete.
THEOREM HonestEnd == Spec => []EndsHonestly
BY Invariance, InvImplies, PTL

\* The state keeps its types, and a task that died stays dead.
THEOREM TypeCorrect == Spec => []TypeOK
BY Invariance, InvImplies, PTL
=============================================================================
