------------------------------- MODULE Batch -------------------------------
(***************************************************************************)
(* The batch prompt processor (src/src/app/agent/batch): the dialog on the *)
(* UI thread, the coordinator thread it starts, the loop of the executor   *)
(* that hands permits to job tasks on a tokio runtime, and the join of the *)
(* results.  One batch exists at a time.  The UI thread draws frames: it   *)
(* drains the user commands, draws the dialog, where one click may happen, *)
(* and then runs the deferred actions, where a finished batch is joined.   *)
(*                                                                         *)
(* A job runs the whole agent inside a worker of the runtime.  The agent   *)
(* refreshes its tool registry with Runtime::block_on, which panics inside *)
(* a worker; only a job whose model resolves to no usable client ends      *)
(* before that, with a Failed event.                                       *)
(***************************************************************************)
EXTENDS Integers, Sequences, FiniteSets

CONSTANTS MaxJobs,      \* bound: targets one discovery returns
          Concurrency,  \* BatchConfig::concurrency
          Workers,      \* worker threads of the tokio runtime
          ModelCount,   \* models tied for the minimum cost
          MaxBatches    \* bound: batches started

ASSUME BatchAssumption ==
    /\ MaxJobs \in Nat /\ MaxBatches \in Nat
    /\ Concurrency \in 1..8
    /\ Workers \in Nat \ {0} /\ ModelCount \in Nat \ {0}

VARIABLES frame,     \* what the UI thread does next in this frame
          open,      \* dialogs.batch_dialog_open
          commands,  \* the user command bus: commands not yet drained
          handle,    \* is dialogs.batch_handle Some?
          flag,      \* the cancel flag shared by the dialog, loop and jobs
          thread,    \* where the coordinator thread is
          total,     \* jobs of this batch
          next,      \* the job the spawning loop is at
          permits,   \* free permits of the semaphore
          counter,   \* rr_counter
          job,       \* the jobs of this batch
          usable,    \* the models whose client resolves with a key
          tally,     \* completed, failed and cancelled
          logs,      \* "A batch job panicked" entries of this batch
          batches    \* batches started so far

uiVars   == <<frame, open, commands, handle, batches>>
poolVars == <<permits, job, counter>>
vars == <<uiVars, flag, thread, total, next, poolVars, usable, tally, logs>>

Jobs   == 1..MaxJobs
Models == 0..(ModelCount - 1)
Status == {"Pending", "Running", "Failed", "Cancelled"}
Task   == {"none", "queued", "running", "ended", "joined"}
Job    == [status: Status, task: Task, result: Status \cup {"panic"},
           model: Models]

FreshJob == [status |-> "Pending", task |-> "none", result |-> "Pending",
             model |-> 0]
NoTally  == [completed |-> 0, failed |-> 0, cancelled |-> 0]
Mine     == 1..total
Holding  == {j \in Jobs : job[j].task \in {"queued", "running"}}
Working  == {j \in Jobs : job[j].task = "running"}

Init ==
    /\ frame = "drain" /\ open = FALSE /\ commands = <<>>
    /\ handle = FALSE /\ flag = FALSE /\ thread = "none"
    /\ total = 0 /\ next = 1
    /\ permits = Concurrency /\ counter = 0
    /\ job = [j \in Jobs |-> FreshJob]
    /\ usable \in SUBSET Models
    /\ tally = NoTally /\ logs = 0 /\ batches = 0

-----------------------------------------------------------------------------
(* The UI thread. *)

\* UserCommand::StartBatch: ignored while a handle is there; otherwise a new
\* coordinator with its own flag runs on a thread of its own.
StartBatch ==
    IF handle
      THEN UNCHANGED <<handle, batches, flag, thread, total, next, permits,
                       counter, job, tally, logs>>
      ELSE /\ handle' = TRUE /\ flag' = FALSE /\ thread' = "discover"
           /\ batches' = batches + 1
           /\ total' = 0 /\ next' = 1
           /\ permits' = Concurrency /\ counter' = 0
           /\ job' = [j \in Jobs |-> FreshJob]
           /\ tally' = NoTally /\ logs' = 0

Apply(command) ==
    \/ /\ command = "OpenBatchDialog"
       /\ open' = TRUE
       /\ UNCHANGED <<handle, batches, flag, thread, total, next, permits,
                      counter, job, tally, logs>>
    \/ /\ command = "StartBatch"
       /\ StartBatch
       /\ UNCHANGED open
    \/ /\ command = "CancelBatch"
       /\ open' = FALSE
       /\ UNCHANGED <<handle, batches, flag, thread, total, next, permits,
                      counter, job, tally, logs>>

\* drain_user_command_bus applies the commands one after the other.
DrainOne ==
    /\ frame = "drain" /\ commands # <<>>
    /\ commands' = Tail(commands)
    /\ Apply(Head(commands))
    /\ UNCHANGED <<frame, usable>>

EndDrain ==
    /\ frame = "drain" /\ commands = <<>>
    /\ frame' = "draw"
    /\ UNCHANGED <<open, commands, handle, batches, flag, thread, total, next,
                   poolVars, usable, tally, logs>>

Publish(command) == commands' = Append(commands, command)

\* The batch button of the menu bar.
ClickOpen ==
    /\ Publish("OpenBatchDialog")
    /\ UNCHANGED <<open, flag>>

\* Process, in the configuration view.
ClickProcess ==
    /\ open /\ ~handle /\ batches < MaxBatches
    /\ Publish("StartBatch")
    /\ UNCHANGED <<open, flag>>

\* Cancel in the configuration view, Close in the running view of a batch
\* that is over.
ClickLeave ==
    /\ open
    /\ handle => thread = "done"
    /\ Publish("CancelBatch")
    /\ UNCHANGED <<open, flag>>

\* Cancel in the running view raises the flag and closes nothing.
ClickCancel ==
    /\ open /\ handle /\ thread # "done"
    /\ flag' = TRUE
    /\ UNCHANGED <<open, commands>>

\* The close mark of the window.
CloseWindow ==
    /\ open
    /\ open' = FALSE
    /\ flag' = (flag \/ handle)
    /\ Publish("CancelBatch")

NoClick == UNCHANGED <<open, flag, commands>>

Draw ==
    /\ frame = "draw"
    /\ frame' = "deferred"
    /\ ClickOpen \/ ClickProcess \/ ClickLeave \/ ClickCancel \/ CloseWindow
       \/ NoClick
    /\ UNCHANGED <<handle, batches, thread, total, next, poolVars, usable,
                   tally, logs>>

\* Mutant: a batch is joined only where the dialog is drawn.
DeferredByDialog ==
    /\ frame = "deferred"
    /\ frame' = "drain"
    /\ IF open /\ handle /\ thread = "done"
         THEN handle' = FALSE /\ thread' = "none"
         ELSE UNCHANGED <<handle, thread>>
    /\ UNCHANGED <<open, commands, batches, flag, total, next, poolVars,
                   usable, tally, logs>>

\* handle_deferred_actions: a finished batch is joined and its handle dropped,
\* the handle of any other batch is put back.
Deferred ==
    /\ frame = "deferred"
    /\ frame' = "drain"
    /\ IF handle /\ thread = "done"
         THEN handle' = FALSE /\ thread' = "none"
         ELSE UNCHANGED <<handle, thread>>
    /\ UNCHANGED <<open, commands, batches, flag, total, next, poolVars,
                   usable, tally, logs>>

-----------------------------------------------------------------------------
(* The coordinator thread and the executor's loops. *)

\* The discovery, whose error and empty answer both end the batch at once.
Discover ==
    /\ thread = "discover"
    /\ \E n \in 0..MaxJobs :
          /\ total' = n
          /\ thread' = IF n = 0 THEN "done" ELSE "build"
    /\ UNCHANGED <<uiVars, flag, next, poolVars, usable, tally, logs>>

\* The runtime of the batch is built, or the batch ends without counting a job.
Build ==
    /\ thread = "build"
    /\ thread' \in {"test", "done"}
    /\ UNCHANGED <<uiVars, flag, total, next, poolVars, usable, tally, logs>>

\* Mutant: a job cancelled before its spawn is not counted.
TestFlagUncounted ==
    /\ thread = "test" /\ next \in Mine
    /\ IF flag
         THEN /\ job' = [job EXCEPT ![next].status = "Cancelled"]
              /\ next' = next + 1
              /\ UNCHANGED thread
         ELSE thread' = "acquire" /\ UNCHANGED <<job, next>>
    /\ UNCHANGED <<uiVars, flag, total, permits, counter, usable, tally, logs>>

\* The flag is read before the permit is waited for.
TestFlag ==
    /\ thread = "test" /\ next \in Mine
    /\ IF flag
         THEN /\ job' = [job EXCEPT ![next].status = "Cancelled"]
              /\ tally' = [tally EXCEPT !.cancelled = @ + 1]
              /\ next' = next + 1
              /\ UNCHANGED thread
         ELSE thread' = "acquire" /\ UNCHANGED <<job, tally, next>>
    /\ UNCHANGED <<uiVars, flag, total, permits, counter, usable, logs>>

\* Mutant: the permit is not waited for.
AcquireAtOnce ==
    /\ thread = "acquire"
    /\ permits' = permits - 1
    /\ counter' = counter + 1
    /\ job' = [job EXCEPT ![next] =
                 [@ EXCEPT !.status = "Running", !.task = "queued",
                           !.model = counter % ModelCount]]
    /\ next' = next + 1
    /\ thread' = "test"
    /\ UNCHANGED <<uiVars, flag, total, usable, tally, logs>>

\* A permit is taken, the job gets the next model and goes to the runtime.
Acquire ==
    /\ thread = "acquire" /\ permits > 0
    /\ permits' = permits - 1
    /\ counter' = counter + 1
    /\ job' = [job EXCEPT ![next] =
                 [@ EXCEPT !.status = "Running", !.task = "queued",
                           !.model = counter % ModelCount]]
    /\ next' = next + 1
    /\ thread' = "test"
    /\ UNCHANGED <<uiVars, flag, total, usable, tally, logs>>

AllSpawned ==
    /\ thread = "test" /\ next > total
    /\ thread' = "join"
    /\ UNCHANGED <<uiVars, flag, total, next, poolVars, usable, tally, logs>>

\* join_next: a result is counted, a panicked task as a failure with a log
\* entry; the job of a panicked task keeps its status.
Count(j) ==
    /\ thread = "join" /\ job[j].task = "ended"
    /\ IF job[j].result = "panic"
         THEN /\ job' = [job EXCEPT ![j].task = "joined"]
              /\ tally' = [tally EXCEPT !.failed = @ + 1]
              /\ logs' = logs + 1
         ELSE /\ job' = [job EXCEPT ![j] = [@ EXCEPT !.task = "joined",
                                               !.status = job[j].result]]
              /\ tally' = IF job[j].result = "Failed"
                            THEN [tally EXCEPT !.failed = @ + 1]
                            ELSE [tally EXCEPT !.cancelled = @ + 1]
              /\ UNCHANGED logs
    /\ UNCHANGED <<uiVars, flag, thread, total, next, permits, counter, usable>>

EndBatch ==
    /\ thread = "join"
    /\ \A j \in Jobs : job[j].task \in {"none", "joined"}
    /\ thread' = "done"
    /\ UNCHANGED <<uiVars, flag, total, next, poolVars, usable, tally, logs>>

-----------------------------------------------------------------------------
(* The job tasks, on the workers of the runtime. *)

EndTask(j, result) ==
    /\ permits' = permits + 1
    /\ job' = [job EXCEPT ![j] = [@ EXCEPT !.task = "ended", !.result = result]]

\* Mutant: the task does not read the flag again.
BeginAnyway(j) ==
    /\ job[j].task = "queued"
    /\ Cardinality(Working) < Workers
    /\ job' = [job EXCEPT ![j].task = "running"]
    /\ UNCHANGED <<uiVars, flag, thread, total, next, permits, counter, usable,
                   tally, logs>>

\* A worker takes a queued task, which reads the flag again before it runs
\* the agent.
Begin(j) ==
    /\ job[j].task = "queued"
    /\ Cardinality(Working) < Workers
    /\ IF flag
         THEN EndTask(j, "Cancelled")
         ELSE /\ job' = [job EXCEPT ![j].task = "running"]
              /\ UNCHANGED permits
    /\ UNCHANGED <<uiVars, flag, thread, total, next, counter, usable, tally,
                   logs>>

\* Without a usable client the agent publishes Failed and returns.
NoClient(j) ==
    /\ job[j].task = "running" /\ job[j].model \notin usable
    /\ EndTask(j, "Failed")
    /\ UNCHANGED <<uiVars, flag, thread, total, next, counter, usable, tally,
                   logs>>

\* update_and_refresh blocks on a runtime from a worker of a runtime: the task
\* panics, and dropping its future gives the permit back.
Panic(j) ==
    /\ job[j].task = "running" /\ job[j].model \in usable
    /\ EndTask(j, "panic")
    /\ UNCHANGED <<uiVars, flag, thread, total, next, counter, usable, tally,
                   logs>>

-----------------------------------------------------------------------------
UiStep     == DrainOne \/ EndDrain \/ Draw \/ Deferred
Executor   == \/ Discover \/ Build \/ TestFlag \/ Acquire \/ AllSpawned \/ EndBatch
              \/ \E j \in Jobs : Count(j)
TaskStep(j) == Begin(j) \/ NoClient(j) \/ Panic(j)

Next == UiStep \/ Executor \/ \E j \in Jobs : TaskStep(j)
Spec == Init /\ [][Next]_vars

\* The operating system runs the coordinator thread and the workers; frames
\* are drawn while the user is there to see them.
FairSpec == /\ Spec
            /\ WF_vars(Executor)
            /\ \A j \in Jobs : WF_vars(TaskStep(j))
            /\ WF_vars(UiStep)

-----------------------------------------------------------------------------
(* Properties. *)

TypeOK ==
    /\ frame \in {"drain", "draw", "deferred"}
    /\ open \in BOOLEAN /\ handle \in BOOLEAN /\ flag \in BOOLEAN
    /\ commands \in Seq({"OpenBatchDialog", "StartBatch", "CancelBatch"})
    /\ thread \in {"none", "discover", "build", "test", "acquire", "join", "done"}
    /\ total \in 0..MaxJobs /\ next \in 1..(MaxJobs + 1)
    /\ permits \in 0..Concurrency /\ counter \in Nat
    /\ job \in [Jobs -> Job]
    /\ usable \subseteq Models
    /\ tally \in [completed: Nat, failed: Nat, cancelled: Nat]
    /\ logs \in Nat /\ batches \in Nat

\* However jobs end (an answer, the flag, a panic that unwinds through the
\* task), the permits come back: free ones and those held by queued and
\* running tasks add up to the concurrency asked for.
PermitsConserved == permits + Cardinality(Holding) = Concurrency

\* The numbers of BatchResult account for every job exactly once, whichever of
\* the two loops counted it, and a batch that is over has counted them all,
\* unless it had no runtime and the first loop never began.
Counted == {j \in Mine : job[j].task = "joined" \/ job[j].status = "Cancelled"}
Accounted ==
    /\ tally.completed + tally.failed + tally.cancelled = Cardinality(Counted)
    /\ thread = "done" => Counted = Mine \/ next = 1

\* The executor loses neither permits nor jobs.
BooksBalance == PermitsConserved /\ Accounted

\* A batch that is running has its handle in the dialog state: it can be
\* cancelled, and no second batch is started beside it.
HandleOwnsBatch == thread # "none" \/ Holding # {} => handle

\* Once the flag is up no agent starts, also not the agent of a job whose task
\* was spawned, or whose permit was waited for, before the flag went up.
CancelStops == [][flag /\ flag' => Working' \subseteq Working]_vars

\* Every batch ends and is joined by the UI, the cancelled ones too.
BatchEnds == handle ~> ~handle

\* A batch that runs is owned by the UI until the UI has joined it.
BatchIsJoined == []HandleOwnsBatch /\ BatchEnds

\* SPEC.md, BATCH-010 and BATCH-011: the prompt is processed once per target.
\* A job that can reach a model does not end in a panic before the first call.
EachTargetIsProcessed ==
    thread = "done" =>
      \A j \in Mine : job[j].model \in usable => job[j].result # "panic"

=============================================================================
