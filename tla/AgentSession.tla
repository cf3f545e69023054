---------------------------- MODULE AgentSession ----------------------------
(***************************************************************************)
(* One conversation of the user with the agent, across the three parties   *)
(* that share it:                                                          *)
(*   - the UI thread, whose frames drain the agent event bus, then the     *)
(*     user command bus, then draw the panels in which the user clicks     *)
(*     (app/ui/app/update.rs, app/orchestrator.rs, app/command_executor.rs,*)
(*     app/ui/panels);                                                     *)
(*   - the long-lived driver thread that runs one prompt after another     *)
(*     (agent/session.rs, agent/agent_impl.rs);                            *)
(*   - the channels between them: an unbounded mpsc of prompts, one atomic *)
(*     cancel flag per prompt, and the broadcast bus of agent events, whose*)
(*     reader sees a feed that drops its oldest event when full            *)
(*     (module DropOldestFeed, which EventBus implements).                 *)
(*                                                                         *)
(* A prompt is its number in the order typed, a session its number in the  *)
(* order minted.  An event is its kind and its session: "Text" stands for  *)
(* the four kinds that build the transcript, "Status" for status, usage,   *)
(* debug and side-effect events, on which nothing below depends.           *)
(***************************************************************************)
EXTENDS Integers, Sequences

CONSTANTS
    MaxPrompts,     \* bound on the prompts the user types
    BusCapacity     \* capacity of the agent event bus (8192 in the code)

ASSUME MaxPromptsAssumption == MaxPrompts \in Nat \ {0}
ASSUME BusCapacityAssumption == BusCapacity \in Nat \ {0}

VARIABLES
    \* UI thread
    phase,          \* what the frame is doing, or "joining" / "exited"
    running,        \* AgentState.running
    pending,        \* AgentState.pending_prompts
    nextPrompt,     \* local of drain_agent_event_bus
    curSession,     \* AgentSession.current_session_id
    flag,           \* prompt whose cancel flag AgentSession.cancel_flag is
    showResults,    \* AgentPanelState.show_results
    transcript,     \* [session, text]: whose it is, whose text is in it
    commands,       \* the user command bus
    \* channels
    submitted,      \* the mpsc of prompts; once the driver died nobody reads it
    cancelled,      \* prompts whose cancel flag is set
    events,         \* agent events the UI's reader can still receive
    lag,            \* the reader's next receive reports Lagged
    \* driver thread
    driver,         \* [at, job]
    history,        \* the runs whose messages their sessions carry
    \* history variables
    typed,          \* number of prompts typed
    minted,         \* number of sessions minted
    era,            \* number of times the user closed the results
    ended,          \* prompts whose run is over
    lostMilestone   \* the bus dropped an event that starts or ends a run

sessionVars == <<curSession, flag, showResults, transcript>>
uiVars == <<phase, running, pending, nextPrompt, curSession, flag, showResults, transcript>>
busVars == <<events, lag, lostMilestone>>
driverVars == <<driver, history, ended>>
vars == <<phase, running, pending, nextPrompt, curSession, flag, showResults,
          transcript, commands, submitted, cancelled, events, lag, driver,
          history, typed, minted, era, ended, lostMilestone>>

Prompts == 1 .. MaxPrompts
Sessions == Nat \ {0}
NoPrompt == 0
NoSession == 0

Job == [prompt : Prompts, session : Sessions, era : Nat]
Command ==
    [kind : {"Run", "Skill", "Queue"}, prompt : Prompts]
        \cup [kind : {"Cancel", "Clear"}, prompt : {NoPrompt}]
Event == [kind : {"Started", "Text", "Status", "Finished", "Failed"}, session : Sessions]
Transcript == [session : Sessions \cup {NoSession}, text : SUBSET Sessions]
DriverAt == {"idle", "resolve", "loop", "turn", "tools", "failing", "closing",
             "finishing", "gone"}

TypeOK ==
    /\ phase \in {"events", "commands", "panels", "joining", "exited"}
    /\ running \in BOOLEAN
    /\ pending \in Seq(Prompts)
    /\ nextPrompt \in Prompts \cup {NoPrompt}
    /\ curSession \in Sessions \cup {NoSession}
    /\ flag \in Prompts \cup {NoPrompt}
    /\ showResults \in BOOLEAN
    /\ transcript \in Transcript
    /\ commands \in Seq(Command)
    /\ submitted \in Seq(Job)
    /\ cancelled \subseteq Prompts
    /\ events \in Seq(Event)
    /\ lag \in BOOLEAN
    /\ driver \in [at : DriverAt, job : Job]
    /\ history \in SUBSET Job
    /\ typed \in 0 .. MaxPrompts
    /\ minted \in Nat
    /\ era \in Nat
    /\ ended \subseteq Prompts
    /\ lostMilestone \in BOOLEAN

DriverBusy == driver.at \notin {"idle", "gone"}
EndsRun(e) == e.kind \in {"Finished", "Failed"}
EndInFlight == \E i \in DOMAIN events : EndsRun(events[i])
StartInFlight == \E i \in DOMAIN events : events[i].kind = "Started"
UIAlive == phase \in {"events", "commands", "panels"}

-----------------------------------------------------------------------------
Init ==
    /\ phase = "events"
    /\ running = FALSE
    /\ pending = <<>>
    /\ nextPrompt = NoPrompt
    /\ curSession = NoSession
    /\ flag = NoPrompt
    /\ showResults = FALSE
    /\ transcript = [session |-> NoSession, text |-> {}]
    /\ commands = <<>>
    /\ submitted = <<>>
    /\ cancelled = {}
    /\ events = <<>>
    /\ lag = FALSE
    /\ driver = [at |-> "idle", job |-> [prompt |-> 1, session |-> 1, era |-> 0]]
    /\ history = {}
    /\ typed = 0
    /\ minted = 0
    /\ era = 0
    /\ ended = {}
    /\ lostMilestone = FALSE

-----------------------------------------------------------------------------
\* UI thread: the operations of AgentSession.

\* start_agent_session: reuse the current session or mint one, and submit.
\* submit_prompt replaces the cancel flag of the prompt submitted before.  A
\* new session empties the transcript, a continued one echoes the prompt.
StartSession(p) ==
    LET s == IF curSession = NoSession THEN minted + 1 ELSE curSession
    IN  /\ minted' = IF curSession = NoSession THEN minted + 1 ELSE minted
        /\ curSession' = s
        /\ running' = TRUE
        /\ flag' = p
        /\ showResults' = TRUE
        /\ transcript' = [transcript EXCEPT !.text = IF curSession = NoSession THEN {} ELSE @ \cup {s}]
        /\ submitted' = Append(submitted, [prompt |-> p, session |-> s, era |-> era])

\* Mutant: the flag raised is that of the newest prompt typed, which may wait.
CancelNewest ==
    /\ cancelled' = IF flag = NoPrompt THEN cancelled ELSE cancelled \cup {typed}
    /\ running' = FALSE

\* cancel: raise the flag of the newest submission and call the agent idle.
Cancel ==
    /\ cancelled' = IF flag = NoPrompt THEN cancelled ELSE cancelled \cup {flag}
    /\ running' = FALSE

-----------------------------------------------------------------------------
\* UI thread: drain_agent_event_bus.

\* Mutant: only the first session ever gets the transcript.
OnStartedOnce(s) ==
    /\ transcript' = IF transcript.session = NoSession THEN [session |-> s, text |-> {}] ELSE transcript
    /\ UNCHANGED <<running, pending, nextPrompt>>

\* SessionStarted: the transcript of another session is replaced.
OnStarted(s) ==
    /\ transcript' = IF transcript.session = s THEN transcript ELSE [session |-> s, text |-> {}]
    /\ UNCHANGED <<running, pending, nextPrompt>>

\* apply_event: text of a session the transcript is not of is ignored.
OnText(s) ==
    /\ transcript' = [transcript EXCEPT !.text = IF transcript.session = s THEN @ \cup {s} ELSE @]
    /\ UNCHANGED <<running, pending, nextPrompt>>

\* Mutant: the queued prompt is started but left in the queue.
OnFinishedPeek ==
    /\ running' = FALSE
    /\ nextPrompt' = IF pending = <<>> THEN NoPrompt ELSE Head(pending)
    /\ UNCHANGED <<pending, transcript>>

\* SessionFinished: whichever run it ends, the agent is idle and the oldest
\* queued prompt is the one to start after the drain.
OnFinished ==
    /\ running' = FALSE
    /\ nextPrompt' = IF pending = <<>> THEN NoPrompt ELSE Head(pending)
    /\ pending' = IF pending = <<>> THEN pending ELSE Tail(pending)
    /\ UNCHANGED transcript

\* Failed: the agent is idle and the queue is dropped.
OnFailed ==
    /\ running' = FALSE
    /\ pending' = <<>>
    /\ UNCHANGED <<nextPrompt, transcript>>

\* Status, usage, debug rows and side effects.
OnStatus == UNCHANGED <<running, pending, nextPrompt, transcript>>

DrainEvent ==
    /\ phase = "events"
    /\ ~lag /\ events # <<>>
    /\ LET e == Head(events) IN
            \/ e.kind = "Started" /\ OnStarted(e.session)
            \/ e.kind = "Text" /\ OnText(e.session)
            \/ e.kind = "Status" /\ OnStatus
            \/ e.kind = "Finished" /\ OnFinished
            \/ e.kind = "Failed" /\ OnFailed
    /\ events' = Tail(events)
    /\ UNCHANGED <<phase, curSession, flag, showResults, commands, submitted,
                   cancelled, lag, driverVars, typed, minted, era, lostMilestone>>

\* Lagged(n): a marker goes into the transcript and the drain goes on.
DrainLagged ==
    /\ phase = "events"
    /\ lag
    /\ lag' = FALSE
    /\ UNCHANGED <<uiVars, commands, submitted, cancelled, events, driverVars,
                   typed, minted, era, lostMilestone>>

\* Empty: the drain ends and starts the prompt it took from the queue.
DrainDone ==
    /\ phase = "events"
    /\ ~lag /\ events = <<>>
    /\ phase' = "commands"
    /\ nextPrompt' = NoPrompt
    /\ IF nextPrompt # NoPrompt
       THEN StartSession(nextPrompt)
       ELSE UNCHANGED <<minted, running, sessionVars, submitted>>
    /\ UNCHANGED <<pending, commands, cancelled, busVars, driverVars, typed, era>>

-----------------------------------------------------------------------------
\* UI thread: drain_user_command_bus and apply_user_command.

NextCommand(kind) ==
    /\ phase = "commands"
    /\ commands # <<>>
    /\ Head(commands).kind = kind
    /\ commands' = Tail(commands)

\* RunAgent, and RunSkillPrompt and MergePrompt, which come from the context
\* menus of the tree and the tabs and do not ask whether the agent is running.
ApplyRun ==
    /\ \E kind \in {"Run", "Skill"} : NextCommand(kind)
    /\ StartSession(Head(commands).prompt)
    /\ UNCHANGED <<phase, pending, nextPrompt, cancelled, busVars, driverVars, typed, era>>

ApplyQueue ==
    /\ NextCommand("Queue")
    /\ pending' = Append(pending, Head(commands).prompt)
    /\ UNCHANGED <<phase, running, nextPrompt, sessionVars,
                   submitted, cancelled, busVars, driverVars, typed, minted, era>>

ApplyCancel ==
    /\ NextCommand("Cancel")
    /\ Cancel
    /\ UNCHANGED <<phase, pending, nextPrompt, sessionVars,
                   submitted, busVars, driverVars, typed, minted, era>>

\* Mutant: closing the results forgets to leave the session.
ClearKeepsSession ==
    /\ NextCommand("Clear")
    /\ showResults' = FALSE
    /\ era' = era + 1
    /\ transcript' = [transcript EXCEPT !.text = {}]
    /\ IF running THEN Cancel ELSE UNCHANGED <<cancelled, running>>
    /\ UNCHANGED <<phase, pending, nextPrompt, curSession, flag, submitted, busVars,
                   driverVars, typed, minted>>

\* ClearAgentSession: the history is cleared, the run cancelled if there seems
\* to be one; the queue is left alone.
ApplyClear ==
    /\ NextCommand("Clear")
    /\ showResults' = FALSE
    /\ curSession' = NoSession
    /\ era' = era + 1
    /\ transcript' = [transcript EXCEPT !.text = {}]
    /\ IF running THEN Cancel ELSE UNCHANGED <<cancelled, running>>
    /\ UNCHANGED <<phase, pending, nextPrompt, flag, submitted, busVars,
                   driverVars, typed, minted>>

CommandsDone ==
    /\ phase = "commands"
    /\ commands = <<>>
    /\ phase' = "panels"
    /\ UNCHANGED <<running, pending, nextPrompt, sessionVars,
                   commands, submitted, cancelled, busVars, driverVars, typed, minted, era>>

-----------------------------------------------------------------------------
\* UI thread: the panels.  The bottom panel is drawn before the tree and that
\* before the center panel, so within a frame Stop comes before a prompt and a
\* prompt before the rest.  A frame sees one mouse click at most.

Clicked(kinds) == \E i \in DOMAIN commands : commands[i].kind \in kinds

Click(kind, p) ==
    /\ phase = "panels"
    /\ commands' = Append(commands, [kind |-> kind, prompt |-> p])
    /\ UNCHANGED <<uiVars, submitted, cancelled, busVars, driverVars, minted, era>>

\* The Stop button exists while running.
ClickStop ==
    /\ running
    /\ commands = <<>>
    /\ Click("Cancel", NoPrompt)
    /\ UNCHANGED typed

\* Enter in the prompt box: queue the prompt while running, else run it.
SubmitPrompt ==
    /\ typed < MaxPrompts
    /\ ~Clicked({"Run", "Queue", "Skill", "Clear"})
    /\ typed' = typed + 1
    /\ Click(IF running THEN "Queue" ELSE "Run", typed + 1)

\* A skill or Merge in a context menu: run it, whether or not one is running.
ClickSkill ==
    /\ typed < MaxPrompts
    /\ ~Clicked({"Cancel", "Skill", "Clear"})
    /\ typed' = typed + 1
    /\ Click("Skill", typed + 1)

\* The close button of the results view.
ClickClose ==
    /\ showResults
    /\ ~Clicked({"Cancel", "Skill", "Clear"})
    /\ Click("Clear", NoPrompt)
    /\ UNCHANGED typed

EndFrame ==
    /\ phase = "panels"
    /\ phase' = "events"
    /\ UNCHANGED <<running, pending, nextPrompt, sessionVars,
                   commands, submitted, cancelled, busVars, driverVars, typed, minted, era>>

\* The window closes: AgentSession::drop drops the sender and joins the driver.
CloseWindow ==
    /\ phase = "panels"
    /\ phase' = "joining"
    /\ UNCHANGED <<running, pending, nextPrompt, sessionVars,
                   commands, submitted, cancelled, busVars, driverVars, typed, minted, era>>

Joined ==
    /\ phase = "joining"
    /\ driver.at = "gone"
    /\ phase' = "exited"
    /\ UNCHANGED <<running, pending, nextPrompt, sessionVars,
                   commands, submitted, cancelled, busVars, driverVars, typed, minted, era>>

-----------------------------------------------------------------------------
\* Driver thread.

\* publish on the agent bus: when the ring is full the oldest event is lost.
Publish(kind) ==
    LET e == [kind |-> kind, session |-> driver.job.session] IN
    IF Len(events) < BusCapacity
    THEN events' = Append(events, e) /\ UNCHANGED <<lag, lostMilestone>>
    ELSE /\ events' = Append(Tail(events), e)
         /\ lag' = TRUE
         /\ lostMilestone' = (lostMilestone \/ Head(events).kind \notin {"Text", "Status"})

GoTo(at) == driver' = [driver EXCEPT !.at = at]
IsCancelled == driver.job.prompt \in cancelled
DriverOnly == UNCHANGED <<uiVars, commands, cancelled, typed, minted, era>>

\* recv on the prompt channel.
TakePrompt ==
    /\ driver.at = "idle"
    /\ submitted # <<>>
    /\ driver' = [at |-> "resolve", job |-> Head(submitted)]
    /\ submitted' = Tail(submitted)
    /\ UNCHANGED <<busVars, history, ended>> /\ DriverOnly

\* recv fails once the sender is gone and the channel is empty.
DriverExits ==
    /\ driver.at = "idle"
    /\ submitted = <<>>
    /\ phase = "joining"
    /\ GoTo("gone")
    /\ UNCHANGED <<submitted, busVars, history, ended>> /\ DriverOnly

\* Mutant: a run without a client returns without telling anybody.
ResolveSilently ==
    /\ driver.at = "resolve"
    /\ GoTo("idle")
    /\ ended' = ended \cup {driver.job.prompt}
    /\ UNCHANGED <<submitted, busVars, history>> /\ DriverOnly

\* No client for the model: Failed is all the UI hears of this run.
ResolveFails ==
    /\ driver.at = "resolve"
    /\ Publish("Failed")
    /\ GoTo("idle")
    /\ ended' = ended \cup {driver.job.prompt}
    /\ UNCHANGED <<submitted, history>> /\ DriverOnly

BeginRun ==
    /\ driver.at = "resolve"
    /\ Publish("Started")
    /\ GoTo("loop")
    /\ UNCHANGED <<submitted, history, ended>> /\ DriverOnly

\* Mutant: the flag is not tested between turns.
LoopWithoutTest ==
    /\ driver.at = "loop"
    /\ GoTo("turn") /\ Publish("Status")
    /\ UNCHANGED <<submitted, history, ended>> /\ DriverOnly

\* The loop tests the flag and, if it is down, announces the LLM call.
LoopTest ==
    /\ driver.at = "loop"
    /\ IF IsCancelled
       THEN GoTo("closing") /\ UNCHANGED busVars
       ELSE GoTo("turn") /\ Publish("Status")
    /\ UNCHANGED <<submitted, history, ended>> /\ DriverOnly

\* The LLM call fails, or its answer holds no message.
TurnFails ==
    /\ driver.at = "turn"
    /\ Publish("Failed")
    /\ GoTo("failing")
    /\ UNCHANGED <<submitted, history, ended>> /\ DriverOnly

\* The LLM answers, with tool calls or without; an answer without either tool
\* calls or content leaves only debug rows.
TurnAnswers ==
    /\ driver.at = "turn"
    /\ \/ Publish("Text") /\ \E at \in {"tools", "closing"} : GoTo(at)
       \/ Publish("Status") /\ GoTo("closing")
    /\ UNCHANGED <<submitted, history, ended>> /\ DriverOnly

\* The tools run, and the loop goes round.
RunTools ==
    /\ driver.at = "tools"
    /\ Publish("Text")
    /\ GoTo("loop")
    /\ UNCHANGED <<submitted, history, ended>> /\ DriverOnly

\* Status Done, unless the flag is up by now.
CloseRun ==
    /\ driver.at = "closing"
    /\ GoTo("finishing")
    /\ IF IsCancelled THEN UNCHANGED busVars ELSE Publish("Status")
    /\ UNCHANGED <<submitted, history, ended>> /\ DriverOnly

\* SessionFinished, and the session keeps the messages of the run, which a
\* cancelled run has too.
FinishRun ==
    /\ driver.at = "finishing"
    /\ Publish("Finished")
    /\ GoTo("idle")
    /\ history' = history \cup {driver.job}
    /\ ended' = ended \cup {driver.job.prompt}
    /\ UNCHANGED submitted /\ DriverOnly

\* A failed run finishes with no messages: the session keeps what it had.
FinishFailedRun ==
    /\ driver.at = "failing"
    /\ Publish("Finished")
    /\ GoTo("idle")
    /\ ended' = ended \cup {driver.job.prompt}
    /\ UNCHANGED <<submitted, history>> /\ DriverOnly

\* A runtime that cannot be built, or an MCP server without a stdin to write
\* to, panics: while the tools are refreshed before SessionStarted, in the
\* first LLM call, or in a tool.  Nothing catches that, so the run ends without
\* a milestone and the thread with it.  A prompt sent afterwards is dropped,
\* and the error of the send with it.
DriverPanics ==
    /\ driver.at \in {"resolve", "turn", "tools"}
    /\ GoTo("gone")
    /\ ended' = ended \cup {driver.job.prompt}
    /\ UNCHANGED <<submitted, busVars, history>> /\ DriverOnly

-----------------------------------------------------------------------------
UIWork ==
    \/ DrainEvent \/ DrainLagged \/ DrainDone
    \/ ApplyRun \/ ApplyQueue \/ ApplyCancel \/ ApplyClear \/ CommandsDone
    \/ EndFrame \/ Joined

User == ClickStop \/ SubmitPrompt \/ ClickSkill \/ ClickClose \/ CloseWindow

Driver ==
    \/ TakePrompt \/ DriverExits \/ ResolveFails \/ BeginRun \/ LoopTest
    \/ TurnFails \/ TurnAnswers \/ RunTools \/ CloseRun \/ FinishRun \/ FinishFailedRun
    \/ DriverPanics

Next == UIWork \/ User \/ Driver

Spec == Init /\ [][Next]_vars

\* The UI thread and the driver thread run, and an LLM call returns (the HTTP
\* client has a timeout).  Nothing makes the user act, and nothing makes the
\* LLM stop asking for tools.
FairSpec == Spec /\ WF_vars(UIWork) /\ WF_vars(Driver)

-----------------------------------------------------------------------------
\* Properties.

\* Where a prompt is: typed and on the command bus, queued, taken by the drain,
\* submitted, being run, or over.
Sightings(p) ==
    {<<"command", i>> : i \in {j \in DOMAIN commands : commands[j].prompt = p}}
    \cup {<<"pending", i>> : i \in {j \in DOMAIN pending : pending[j] = p}}
    \cup {<<"taken", 0>> : x \in {y \in {nextPrompt} : y = p}}
    \cup {<<"submitted", i>> : i \in {j \in DOMAIN submitted : submitted[j].prompt = p}}
    \cup {<<"driver", 0>> : x \in {y \in {driver.job.prompt} : y = p /\ DriverBusy}}
    \cup {<<"ended", 0>> : x \in {y \in ended : y = p}}

\* A prompt typed once is never in two places, so it is never run twice,
\* however queueing, failures, Stop and Close interleave with the driver.
PromptInOnePlace == \A p \in Prompts : \A a, b \in Sightings(p) : a = b

\* While the UI says "running", something will end that: a prompt is with the
\* driver, or the event that ends its run is still to be drained.  Otherwise
\* the Stop button would stay and every prompt typed would be queued for ever.
\* That does happen after either of two accidents, and after no other: the bus
\* dropped such an event, or the driver thread died of a panic.
RunningIsBacked ==
    running /\ UIAlive /\ ~lostMilestone /\ driver.at # "gone"
        => submitted # <<>> \/ DriverBusy \/ EndInFlight

\* The transcript follows the driver: once the start of the run in progress has
\* been drained -- and the bus dropped no milestone -- the transcript is the
\* one of its session, so the text of the run will be shown.
RunHasStarted == driver.at \in {"loop", "turn", "tools", "failing", "closing", "finishing"}
TranscriptFollowsDriver ==
    RunHasStarted /\ ~StartInFlight /\ ~lostMilestone
        => transcript.session = driver.job.session

\* The text in the transcript is of the session it is of, or the echo of a
\* prompt of the current one; never of a third, through Stops, Closes and
\* events that come late.
TranscriptText == transcript.text \subseteq {transcript.session, curSession}

\* The transcript is that of the run the driver is at, and mixes no two
\* conversations.
TranscriptIsTrue == TranscriptFollowsDriver /\ TranscriptText

\* AGENT-021: "History is reset when the user clicks Close": no run sees, and
\* no session keeps, messages from both sides of a Close, although the run
\* that was cancelled by it ends, and stores its history, after it.
ConversationIsolated ==
    \A j \in history :
        /\ \A k \in history : j.session = k.session => j.era = k.era
        /\ DriverBusy /\ driver.job.session = j.session => j.era = driver.job.era

\* A run whose flag is raised ends, even while the LLM keeps asking for tools.
CancelledRunEnds ==
    \A p \in Prompts :
        (DriverBusy /\ driver.job.prompt = p /\ p \in cancelled)
            ~> ~(DriverBusy /\ driver.job.prompt = p)

\* When a driver that lives has nothing left, and the bus dropped no milestone,
\* the UI comes to know: `running` goes down, or a new prompt goes to the
\* driver, or the window closes.
CompletionIsSeen ==
    (running /\ driver.at = "idle" /\ submitted = <<>> /\ ~lostMilestone)
        ~> (~running \/ submitted # <<>> \/ DriverBusy \/ ~UIAlive)

\* Closing the window joins the driver: with every run cancelled beforehand,
\* or the driver dead, the join returns and the process can exit.
AllCancelled ==
    driver.at # "gone" =>
    /\ DriverBusy => IsCancelled
    /\ \A i \in DOMAIN submitted : submitted[i].prompt \in cancelled
CancelledExitCompletes == (phase = "joining" /\ AllCancelled) ~> (phase = "exited")

\* Cancellation ends what it is meant to end: the run, and the wait of the
\* closing window for its driver.
CancellationEnds == CancelledRunEnds /\ CancelledExitCompletes
-----------------------------------------------------------------------------
\* What a prompt sees of all this.

\* The prompts typed that are neither with the driver nor dropped: on the
\* command bus, in the queue, or taken from it by the drain.
Waiting ==
    {p \in Prompts : \/ \E i \in DOMAIN commands : commands[i].prompt = p
                     \/ \E i \in DOMAIN pending : pending[i] = p
                     \/ nextPrompt = p}

Line == [i \in DOMAIN submitted |-> submitted[i].prompt]

Current == {p \in {driver.job.prompt} : DriverBusy}

Life == INSTANCE PromptLife WITH
    Prompt <- Prompts,
    accepted <- 1 .. typed,
    waiting <- Waiting,
    line <- Line,
    current <- Current,
    over <- ended,
    stopped <- cancelled

\* Frames, buses, the queue in the UI, the channel, the flags and the driver
\* thread together keep the promise of PromptLife: prompts run in the order in
\* which they were submitted, one at a time, each once, and a Stop or a Close
\* reaches no prompt that still waits.
ImplementsPromptLife == Life!LifeSpec
=============================================================================
