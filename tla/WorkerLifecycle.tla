-------------------------- MODULE WorkerLifecycle ---------------------------
(***************************************************************************)
(* run_worker: how the worker process comes up, serves and goes down.      *)
(*                                                                         *)
(* Anything may fail, and a background task may be thrown out of its loop: *)
(* by what is no Exception, or by logging one.  broker.stop() ends the     *)
(* deliveries but, as FastStream has no graceful_timeout here, waits for   *)
(* no handler: run_worker does not depend on them, and those that are left *)
(* at the end are crashes of PaymentFlow.                                  *)
(***************************************************************************)

VARIABLES
  main,       \* where run_worker stands
  error,      \* whether an exception is on its way out of it
  shutdown,   \* shutdown_event
  task,       \* outbox_task and reconciliation_task
  open,       \* the clients, connections and pools that are open
  consuming,  \* whether the broker delivers messages
  raised,     \* history: what raised during the clean-up
  died        \* history: the tasks that failed while the worker was serving

broker == <<open, consuming>>
history == <<raised, died>>
vars == <<main, error, shutdown, task, broker, history>>

Tasks == {"relay", "reconciler"}

\* What a task needs as long as it runs.
Needs(t) == IF t = "relay" THEN {"broker", "database"}
                           ELSE {"provider", "database"}

Alive(t) == task[t] \in {"waiting", "busy"}

\* The engine's pool and the HTTP clients exist from the start.
Init ==
  /\ main = "check_database"
  /\ error = FALSE
  /\ shutdown = FALSE
  /\ task = [t \in Tasks |-> "none"]
  /\ open = {"provider", "webhook", "database"}
  /\ consuming = FALSE
  /\ raised = {} /\ died = {}

StartUp == {"check_database", "connect", "declare", "start"}

\* background_stop_event: set as soon as the finally block is entered.
Stop == main \notin StartUp \cup {"serve"}

-----------------------------------------------------------------------------
(* Start-up.                                                               *)

CheckDatabase ==
  /\ main = "check_database" /\ main' = "connect"
  /\ UNCHANGED <<error, shutdown, task, broker, history>>

Connect ==
  /\ main = "connect" /\ main' = "declare"
  /\ open' = open \cup {"broker"}
  /\ UNCHANGED <<error, shutdown, task, consuming, history>>

DeclareTopology ==
  /\ main = "declare" /\ main' = "start"
  /\ UNCHANGED <<error, shutdown, task, broker, history>>

\* broker.start() is at work: deliveries begin before it returns.
Subscribe ==
  /\ main = "start"
  /\ consuming' = TRUE
  /\ UNCHANGED <<main, error, shutdown, task, open, history>>

\* It returns, and the background tasks are created.
Start ==
  /\ main = "start" /\ main' = "serve"
  /\ consuming
  /\ task' = [t \in Tasks |-> "waiting"]
  /\ UNCHANGED <<error, shutdown, broker, history>>

StartUpFails ==
  /\ main \in StartUp /\ main' = "finally"
  /\ error' = TRUE
  /\ UNCHANGED <<shutdown, task, broker, history>>

-----------------------------------------------------------------------------
(* Serving.                                                                *)

\* SIGINT or SIGTERM.
Signal ==
  /\ main # "exited"
  /\ shutdown' = TRUE
  /\ UNCHANGED <<main, error, task, broker, history>>

\* run_worker comes from "finally" to its next await without a break.
Suspended == main # "finally"

\* The loops of OutboxRelay and PaymentReconciliationWorker: another batch or,
\* once their event is set, the end, which their callbacks report.
TaskStep(t) ==
  /\ Suspended
  /\ \/ task[t] = "waiting" /\ ~Stop /\ task' = [task EXCEPT ![t] = "busy"]
     \/ task[t] = "busy" /\ task' = [task EXCEPT ![t] = "waiting"]
     \/ task[t] = "waiting" /\ Stop /\ task' = [task EXCEPT ![t] = "returned"]
  /\ shutdown' = (shutdown \/ task'[t] = "returned")
  /\ UNCHANGED <<main, error, broker, history>>

\* Mutant of TaskFails: the task has no done callback.
TaskFailsUnnoticed(t) ==
  /\ Suspended
  /\ Alive(t)
  /\ task' = [task EXCEPT ![t] = "failed"]
  /\ died' = IF main = "serve" THEN died \cup {t} ELSE died
  /\ UNCHANGED <<main, error, shutdown, broker, raised>>

\* Mutant of TaskFails: the callback starts the task again.
TaskRestarts(t) ==
  /\ Suspended
  /\ Alive(t)
  /\ task' = [task EXCEPT ![t] = "waiting"]
  /\ died' = IF main = "serve" THEN died \cup {t} ELSE died
  /\ UNCHANGED <<main, error, shutdown, broker, raised>>

\* A task ends with an exception, and its done callback asks for the shutdown.
TaskFails(t) ==
  /\ Suspended
  /\ Alive(t)
  /\ task' = [task EXCEPT ![t] = "failed"]
  /\ shutdown' = TRUE
  /\ died' = IF main = "serve" THEN died \cup {t} ELSE died
  /\ UNCHANGED <<main, error, broker, raised>>

\* Mutant of ShutDown: the tasks that are done are not asked how they ended.
ShutDownUnasked ==
  /\ main = "serve" /\ main' = "finally"
  /\ shutdown
  /\ UNCHANGED <<error, shutdown, task, broker, history>>

\* shutdown_event.wait() returns; awaiting a task that is done raises its
\* exception and does not suspend.
ShutDown ==
  /\ main = "serve" /\ main' = "finally"
  /\ shutdown
  /\ error' = \E t \in Tasks : task[t] = "failed"
  /\ UNCHANGED <<shutdown, task, broker, history>>

-----------------------------------------------------------------------------
(* The finally block.                                                      *)

\* The task that is awaited, or none.  One that is done when its turn comes is
\* not awaited, and its exception is not raised.
AwaitTask ==
  /\ \/ main = "finally" /\ Alive("relay") /\ main' = "await_relay"
     \/ /\ \/ main = "finally" /\ ~Alive("relay")
           \/ main = "await_relay" /\ task["relay"] = "returned"
        /\ Alive("reconciler")
        /\ main' = "await_reconciler"
  /\ UNCHANGED <<error, shutdown, task, broker, history>>

\* Mutants of AwaitTasks: the tasks are told to stop, but not awaited; the
\* broker is stopped only if it was started.
AwaitNothing ==
  /\ main = "finally"
  /\ main' = IF "broker" \in open THEN "broker" ELSE "provider"
  /\ UNCHANGED <<error, shutdown, task, broker, history>>

AwaitTasksThenStopStarted ==
  /\ \/ main = "finally"
     \/ main = "await_relay" /\ task["relay"] = "returned"
     \/ main = "await_reconciler" /\ task["reconciler"] = "returned"
  /\ \A t \in Tasks : ~Alive(t)
  /\ main' = IF task["relay"] # "none" THEN "broker" ELSE "provider"
  /\ UNCHANGED <<error, shutdown, task, broker, history>>

\* No task runs any more.  From here on main is what is closed next, beginning
\* with the broker if it was connected.
AwaitTasks ==
  /\ \/ main = "finally"
     \/ main = "await_relay" /\ task["relay"] = "returned"
     \/ main = "await_reconciler" /\ task["reconciler"] = "returned"
  /\ \A t \in Tasks : ~Alive(t)
  /\ main' = IF "broker" \in open THEN "broker" ELSE "provider"
  /\ UNCHANGED <<error, shutdown, task, broker, history>>

\* run_worker raises, and asyncio.run cancels whatever still runs.
Abort(what) ==
  /\ main' = "exited"
  /\ error' = TRUE
  /\ raised' = raised \cup {what}
  /\ task' = [t \in Tasks |-> IF Alive(t) THEN "cancelled" ELSE task[t]]
  /\ consuming' = FALSE
  /\ UNCHANGED <<shutdown, open, died>>

\* The task that is awaited fails: its exception leaves the finally block.
AwaitRaises ==
  /\ \/ main = "await_relay" /\ task["relay"] = "failed"
     \/ main = "await_reconciler" /\ task["reconciler"] = "failed"
  /\ Abort("await")

\* with suppress(Exception): await broker.stop()
StopBroker ==
  /\ main = "broker" /\ main' = "provider"
  /\ \/ open' = open \ {"broker"} /\ consuming' = FALSE /\ UNCHANGED raised
     \/ raised' = raised \cup {"broker"} /\ UNCHANGED broker
  /\ UNCHANGED <<error, shutdown, task, died>>

After == [provider |-> "webhook", webhook |-> "database", database |-> "exited"]

\* The HTTP clients are closed, then the engine disposed of.
Close ==
  /\ main \in DOMAIN After /\ main' = After[main]
  /\ open' = open \ {main}
  /\ consuming' = (consuming /\ main' # "exited")
  /\ UNCHANGED <<error, shutdown, task, history>>

\* A close that raises takes the rest of the clean-up with it.
CloseRaises == main \in DOMAIN After /\ Abort(main)

-----------------------------------------------------------------------------
CleanUp == \/ AwaitTask \/ AwaitTasks \/ AwaitRaises
           \/ StopBroker \/ Close \/ CloseRaises

Next ==
  \/ CheckDatabase \/ Connect \/ DeclareTopology \/ Subscribe \/ Start
  \/ StartUpFails \/ Signal \/ ShutDown \/ CleanUp
  \/ \E t \in Tasks : TaskStep(t) \/ TaskFails(t)

Spec == Init /\ [][Next]_vars

\* Every await of run_worker ends, and so does every batch of a task.
Fairness ==
  /\ WF_vars(CheckDatabase \/ Connect \/ DeclareTopology)
  /\ WF_vars(Subscribe) /\ WF_vars(Start)
  /\ WF_vars(ShutDown \/ CleanUp)
  /\ \A t \in Tasks : WF_vars(TaskStep(t))

FairSpec == Spec /\ Fairness
-----------------------------------------------------------------------------
(* Correctness.                                                            *)

Resources == {"broker", "provider", "webhook", "database"}

\* The types of the variables; a task that died stays dead.
TypeOK ==
  /\ main \in StartUp \cup {"serve", "finally", "await_relay",
                            "await_reconciler", "exited"} \cup Resources
  /\ error \in BOOLEAN /\ shutdown \in BOOLEAN /\ consuming \in BOOLEAN
  /\ task \in [Tasks -> {"none", "waiting", "busy", "returned", "failed",
                         "cancelled"}]
  /\ open \subseteq Resources
  /\ raised \subseteq Resources \cup {"await"}
  /\ died \subseteq {t \in Tasks : task[t] = "failed"}

\* Nothing is taken from under a task that still runs, however the worker goes
\* down: the relay keeps the broker, both keep the database.
TasksKeepWhatTheyNeed == \A t \in Tasks : Alive(t) => Needs(t) \subseteq open

\* No message is taken on that could not be worked on: deliveries end before
\* the first client is closed, unless the broker failed to stop.
DeliveriesEndFirst ==
  consuming /\ "broker" \notin raised => Resources \subseteq open

\* A worker that lost a task while it served does not end as if all were well,
\* and one whose clean-up raised nothing leaves nothing open, however far its
\* start-up had come.
EndsHonestly ==
  main = "exited" =>
    /\ died # {} => error
    /\ raised = {} => open = {}

\* A worker that was told to stop does, and one that lost its relay or its
\* reconciler does not live on without it, to take messages and publish nothing.
GoesDown == shutdown \/ died # {} ~> main = "exited"
=============================================================================
