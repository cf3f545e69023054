------------------------------ MODULE McpStdio ------------------------------
(***************************************************************************)
(* One MCP session over stdio (agent/lib/mcp/session.rs): a subprocess     *)
(* that speaks JSON-RPC line by line, shared by the threads that hold the  *)
(* session -- the driver of the agent and the task that follows the        *)
(* configuration both discover and call tools -- and torn down by whoever  *)
(* changes the configuration (McpClients::update_config in mcp/mod.rs).    *)
(*                                                                         *)
(* The acquisitions of the session mutex are steps of their own, because   *)
(* the code releases it between making sure of a transport, using it, and  *)
(* waiting on it; a request is written with the mutex held, and a write    *)
(* blocks while the pipe to a child that does not read is full.  A         *)
(* transport is the number of the subprocess it owns.  The subprocess is   *)
(* external: it answers, asks, babbles, stops reading or exits as it likes,*)
(* but sends no response to a request before it has been sent the request. *)
(***************************************************************************)
EXTENDS Integers, Sequences

CONSTANTS
    Callers,    \* threads that may hold the session
    MaxCalls,   \* bound on the requests made by callers
    MaxSpawns,  \* bound on the subprocesses spawned, and on those plus the noise
    MaxNoise    \* bound on the lines that are no answer, and on its stalls

ASSUME BoundsAssumption == MaxCalls \in Nat /\ MaxSpawns \in Nat /\ MaxNoise \in Nat

VARIABLES
    phase,      \* SessionState.phase
    nextId,     \* SessionState.next_id
    current,    \* SessionState.stdio
    poisoned,   \* a thread panicked while it held the session mutex
    removal,    \* how far the manager has got with dropping the session
    going,      \* the transport that shutdown took and has not yet closed
    caller,     \* [at, kind, id, pipe, late] of each caller
    server,     \* [state, greeted, deaf, inbox, out] of each subprocess
    spawned, calls, noise   \* what the bounds count

removalVars == <<removal, going>>
sessionVars == <<phase, nextId, current, poisoned, removalVars>>
countVars == <<spawned, calls, noise>>
vars == <<phase, nextId, current, poisoned, removal, going, caller, server, spawned, calls, noise>>

Transports == 1 .. MaxSpawns
NoTransport == 0
NoId == 0

\* Mutant: the counter starts at the number that stands for no id.
FirstIdZero == 0

\* Ids count from one.
FirstId == 1

Request == [kind : {"initialize", "call"}, id : Nat, for : Callers]
\* A push is a request of the server, or a notification, which has no id.
Line ==
    [kind : {"answer"}, id : Nat, for : Callers]
        \cup [kind : {"push"}, id : Nat] \cup [kind : {"junk"}]

\* "writing": blocked in the write of a request, with the session mutex held;
\* "noteWriting": in that of a notification, which holds that of stdin only.
CallerAt == {"idle", "ensure", "alloc", "write", "writing", "grab", "poll",
             "noteConnect", "notePick", "noteWrite", "noteWriting", "noteDead",
             "activate", "disconnect", "junk", "dead", "panicked"}
Caller ==
    [at : CallerAt, kind : {"initialize", "call"}, id : Nat,
     pipe : Transports \cup {NoTransport}, late : BOOLEAN]
\* "exited": gone by itself; "closing": its stdin closed by shutdown, which
\* waits for it; "closed": killed, or gone after its stdin was closed.
Server ==
    [state : {"unborn", "running", "exited", "closing", "closed"},
     greeted : BOOLEAN, deaf : BOOLEAN, inbox : SUBSET Request, out : Seq(Line)]

TypeOK ==
    /\ phase \in {"Uninitialized", "Active"}
    /\ nextId \in Nat \ {0}
    /\ current \in Transports \cup {NoTransport}
    /\ poisoned \in BOOLEAN
    /\ removal \in {"none", "removed", "taken", "over"}
    /\ going \in Transports \cup {NoTransport}
    /\ caller \in [Callers -> Caller]
    /\ server \in [Transports -> Server]
    /\ spawned \in 0 .. MaxSpawns
    /\ calls \in 0 .. MaxCalls
    /\ noise \in 0 .. MaxNoise

IdleCaller ==
    [at |-> "idle", kind |-> "initialize", id |-> NoId, pipe |-> NoTransport,
     late |-> FALSE]
\* Past the deadline: only the cancellation is left to do.
LateCaller ==
    [at |-> "noteConnect", kind |-> "initialize", id |-> NoId, pipe |-> NoTransport,
     late |-> TRUE]
Unborn == [state |-> "unborn", greeted |-> FALSE, deaf |-> FALSE, inbox |-> {}, out |-> <<>>]

Running(t) == server[t].state \in {"running", "closing"}

\* A write to t blocks: the pipe is full and the child reads nothing.
Deaf(t) == server[t].deaf /\ Running(t)

\* Nobody is blocked with the session mutex in its hands.
LockFree == \A c \in Callers : caller[c].at # "writing"

-----------------------------------------------------------------------------
Init ==
    /\ phase = "Uninitialized"
    /\ nextId = FirstId
    /\ current = NoTransport
    /\ poisoned = FALSE
    /\ removal = "none"
    /\ going = NoTransport
    /\ caller = [c \in Callers |-> IdleCaller]
    /\ server = [t \in Transports |-> Unborn]
    /\ spawned = 0
    /\ calls = 0
    /\ noise = 0

-----------------------------------------------------------------------------
\* Helpers of the callers.

GoTo(c, at) == caller' = [caller EXCEPT ![c].at = at]

\* Go on with nothing of the request in hand.
Proceed(c, at) == caller' = [caller EXCEPT ![c] = [IdleCaller EXCEPT !.at = at]]

\* The call returns and the caller lets go of the session.
EndCall(c) == caller' = [caller EXCEPT ![c] = IdleCaller]

\* lock_state()?: a poisoned mutex is an error like any other.
LockFails(c) == poisoned /\ EndCall(c) /\ UNCHANGED <<sessionVars, server, countVars>>

\* The client closes stdin and kills the child of t, whatever state it is in.
\* Lines already read stay only for a caller that holds the line receiver.
Held(t) == \E c \in Callers : caller[c].at = "poll" /\ caller[c].pipe = t
Kill(t) ==
    [server EXCEPT ![t] = [state |-> "closed", greeted |-> FALSE, deaf |-> FALSE, inbox |-> {},
                           out |-> IF Held(t) THEN server[t].out ELSE <<>>]]

\* Mutant: the transport is forgotten, and its child with it.
MarkDeadForgets ==
    IF poisoned
    THEN UNCHANGED <<phase, current, server>>
    ELSE /\ phase' = "Uninitialized"
         /\ current' = NoTransport
         /\ UNCHANGED server

\* mark_stdio_dead: the transport the session has NOW is dropped and its child
\* killed.  Nothing happens when the mutex is poisoned.
MarkDead ==
    IF poisoned
    THEN UNCHANGED <<phase, current, server>>
    ELSE /\ phase' = "Uninitialized"
         /\ current' = NoTransport
         /\ server' = IF current = NoTransport THEN server ELSE Kill(current)

\* ensure_stdio_transport_locked: keep the transport there is or spawn one;
\* spawning may fail.
EnsureTransport ==
    \/ /\ current # NoTransport
       /\ UNCHANGED <<current, server, spawned>>
    \/ /\ current = NoTransport
       /\ spawned + noise < MaxSpawns
       /\ spawned' = spawned + 1
       /\ current' = spawned + 1
       /\ server' = [server EXCEPT ![spawned + 1].state = "running"]
SpawnFails == current = NoTransport /\ UNCHANGED <<current, server, spawned>>

-----------------------------------------------------------------------------
\* A call: ensure_initialized, then one request.

\* get_or_create_session hands the session to a caller that wants to call.
BeginCall(c) ==
    /\ caller[c].at = "idle"
    /\ removal = "none"
    /\ calls < MaxCalls
    /\ calls' = calls + 1
    /\ GoTo(c, "ensure")
    /\ UNCHANGED <<sessionVars, server, spawned, noise>>

\* ensure_initialized: an Active session needs no handshake.  (A poisoned
\* mutex counts as not active here; the next lock reports it.)
CheckPhase(c) ==
    /\ caller[c].at = "ensure" /\ LockFree
    /\ caller' = [caller EXCEPT ![c].at = "alloc",
                                ![c].kind = IF phase = "Active" /\ ~poisoned THEN "call" ELSE "initialize"]
    /\ UNCHANGED <<sessionVars, server, countVars>>

\* Mutant: the id is read but not advanced.
ConnectWithoutBump(c) ==
    /\ caller[c].at = "alloc" /\ LockFree
    /\ \/ LockFails(c)
       \/ /\ ~poisoned
          /\ \/ /\ EnsureTransport
                /\ caller' = [caller EXCEPT ![c].at = "write", ![c].id = nextId]
             \/ SpawnFails /\ EndCall(c)
          /\ UNCHANGED <<phase, nextId, poisoned, removalVars, calls, noise>>

\* The id of the request, from the counter all callers share, and the first
\* lock of stdio_request: make sure there is a transport.  (The id is taken
\* under a lock of its own; nothing but the next taking of an id is affected by
\* how long before the other that is.)
Connect(c) ==
    /\ caller[c].at = "alloc" /\ LockFree
    /\ \/ LockFails(c)
       \/ /\ ~poisoned
          /\ nextId' = nextId + 1
          /\ \/ /\ EnsureTransport
                /\ caller' = [caller EXCEPT ![c].at = "write", ![c].id = nextId]
             \/ SpawnFails /\ EndCall(c)
          /\ UNCHANGED <<phase, poisoned, removalVars, calls, noise>>

RequestOf(c) == [kind |-> caller[c].kind, id |-> caller[c].id, for |-> c]
Send(c) == server' = [server EXCEPT ![current].inbox = @ \cup {RequestOf(c)}]

\* stdio_request, second lock: write the request to the transport there is.
\* When another caller has taken it in between, `expect` panics with the mutex
\* held; when the child is gone the write fails; when the child does not read,
\* the write blocks, and the guard of the mutex lives as long as the write.
Write(c) ==
    /\ caller[c].at = "write" /\ LockFree
    /\ UNCHANGED <<phase, nextId, current, removalVars, countVars>>
    /\ \/ LockFails(c)
       \/ /\ ~poisoned /\ current = NoTransport
          /\ poisoned' = TRUE
          /\ GoTo(c, "panicked")
          /\ UNCHANGED server
       \/ /\ ~poisoned /\ current # NoTransport /\ Deaf(current)
          /\ GoTo(c, "writing")
          /\ UNCHANGED <<poisoned, server>>
       \/ /\ ~poisoned /\ current # NoTransport /\ Running(current) /\ ~Deaf(current)
          /\ Send(c)
          /\ GoTo(c, "grab")
          /\ UNCHANGED poisoned
       \/ /\ ~poisoned /\ current # NoTransport /\ ~Running(current)
          /\ Proceed(c, "dead")
          /\ UNCHANGED <<poisoned, server>>

\* The child reads again, or is gone, and the write that was blocked is over.
FinishWrite(c) ==
    /\ caller[c].at = "writing"
    /\ \/ Running(current) /\ ~Deaf(current) /\ Send(c) /\ GoTo(c, "grab")
       \/ ~Running(current) /\ Proceed(c, "dead") /\ UNCHANGED server
    /\ UNCHANGED <<sessionVars, countVars>>

\* The clock reaches the deadline of the request.
Clock(c) ==
    /\ caller[c].at \in {"grab", "poll"}
    /\ ~caller[c].late
    /\ caller' = [caller EXCEPT ![c].late = TRUE]
    /\ UNCHANGED <<sessionVars, server, countVars>>

\* Mutant: the deadline is looked at only when there is no transport to ask.
GrabForEver(c) ==
    /\ caller[c].at = "grab" /\ LockFree
    /\ IF poisoned \/ current = NoTransport
       THEN EndCall(c)
       ELSE caller' = [caller EXCEPT ![c].at = "poll", ![c].pipe = current]
    /\ UNCHANGED <<sessionVars, server, countVars>>

\* The top of the wait loop: past the deadline go and cancel, else take hold
\* of the line receiver of the transport there is NOW.
Grab(c) ==
    /\ caller[c].at = "grab"
    /\ \/ /\ caller[c].late
          /\ caller' = [caller EXCEPT ![c] = LateCaller]
       \/ /\ ~caller[c].late
          /\ LockFree /\ (poisoned \/ current = NoTransport)
          /\ EndCall(c)
       \/ /\ ~caller[c].late
          /\ LockFree /\ ~poisoned /\ current # NoTransport
          /\ caller' = [caller EXCEPT ![c].at = "poll", ![c].pipe = current]
    /\ UNCHANGED <<sessionVars, server, countVars>>

Lines(c) == server[caller[c].pipe].out
PopLine(c) == [server EXCEPT ![caller[c].pipe].out = Tail(@)]

\* The response to this request.  A result of initialize leads on to the
\* notification; a result of a call returns, perhaps to ask for the next page
\* of a listing; an error response returns.
OnAnswer(c) ==
    /\ Lines(c) # <<>>
    /\ Head(Lines(c)).kind = "answer" /\ Head(Lines(c)).id = caller[c].id
    /\ server' = PopLine(c)
    /\ \/ /\ caller[c].kind = "initialize"
          /\ Proceed(c, "noteConnect")
          /\ UNCHANGED calls
       \/ /\ caller[c].kind = "call"
          /\ calls < MaxCalls
          /\ calls' = calls + 1
          /\ Proceed(c, "ensure")
       \/ /\ EndCall(c)
          /\ UNCHANGED calls
    /\ UNCHANGED <<sessionVars, spawned, noise>>

\* A request of the server, whose ids are its own, is told from a response by
\* nothing but its id: with the id waited for, it ends the call with the error
\* of a response without a result.
OnPush(c) ==
    /\ Lines(c) # <<>>
    /\ Head(Lines(c)).kind = "push" /\ Head(Lines(c)).id = caller[c].id
    /\ server' = PopLine(c)
    /\ EndCall(c)
    /\ UNCHANGED <<sessionVars, countVars>>

\* A server notification, or a frame with another id: look at the next line.
OnOther(c) ==
    /\ Lines(c) # <<>>
    /\ Head(Lines(c)).kind \in {"answer", "push"} /\ Head(Lines(c)).id # caller[c].id
    /\ server' = PopLine(c)
    /\ caller' = [caller EXCEPT ![c].at = "grab", ![c].pipe = NoTransport]
    /\ UNCHANGED <<sessionVars, countVars>>

\* A line that is no JSON.
OnJunk(c) ==
    /\ Lines(c) # <<>>
    /\ Head(Lines(c)).kind = "junk"
    /\ server' = PopLine(c)
    /\ caller' = [caller EXCEPT ![c].at = "junk", ![c].pipe = NoTransport]
    /\ UNCHANGED <<sessionVars, countVars>>

\* End of file: the child this receiver belongs to is gone.
OnEof(c) ==
    /\ Lines(c) = <<>> /\ ~Running(caller[c].pipe)
    /\ Proceed(c, "dead")
    /\ UNCHANGED <<sessionVars, server, countVars>>

\* The window elapsed without a line.
OnSilence(c) ==
    /\ Lines(c) = <<>> /\ Running(caller[c].pipe) /\ caller[c].late
    /\ caller' = [caller EXCEPT ![c].at = "grab", ![c].pipe = NoTransport]
    /\ UNCHANGED <<sessionVars, server, countVars>>

\* recv_stdio_line and what stdio_request does with the line.
Poll(c) ==
    /\ caller[c].at = "poll"
    /\ OnAnswer(c) \/ OnPush(c) \/ OnOther(c) \/ OnJunk(c) \/ OnEof(c) \/ OnSilence(c)

\* The transport is dropped for the junk it sent, and the wait goes on.
DropForJunk(c) ==
    /\ caller[c].at = "junk" /\ LockFree
    /\ MarkDead
    /\ GoTo(c, "grab")
    /\ UNCHANGED <<nextId, poisoned, removalVars, countVars>>

-----------------------------------------------------------------------------
\* stdio_write: notifications/initialized in a handshake, notifications/
\* cancelled after a timeout (caller late).  The result of the latter is ignored.

NoteFails(c) == IF caller[c].late THEN Proceed(c, "dead") ELSE EndCall(c)
NoteDone(c) == Proceed(c, IF caller[c].late THEN "dead" ELSE "activate")

NoteConnect(c) ==
    /\ caller[c].at = "noteConnect" /\ LockFree
    /\ \/ poisoned /\ NoteFails(c) /\ UNCHANGED <<current, server, spawned>>
       \/ ~poisoned /\ EnsureTransport /\ GoTo(c, "notePick")
       \/ ~poisoned /\ SpawnFails /\ NoteFails(c)
    /\ UNCHANGED <<phase, nextId, poisoned, removalVars, calls, noise>>

\* Take hold of the stdin of the transport there is NOW.
NotePick(c) ==
    /\ caller[c].at = "notePick" /\ LockFree
    /\ IF poisoned \/ current = NoTransport
       THEN NoteFails(c)
       ELSE caller' = [caller EXCEPT ![c].at = "noteWrite", ![c].pipe = current]
    /\ UNCHANGED <<sessionVars, server, countVars>>

\* Write to it.  A stdin the client itself has closed is an error.
NoteWrite(c) ==
    LET t == caller[c].pipe IN
    /\ caller[c].at = "noteWrite"
    /\ \/ /\ server[t].state \in {"closing", "closed"}
          /\ NoteFails(c)
          /\ UNCHANGED server
       \/ /\ server[t].state = "running" /\ ~Deaf(t)
          /\ server' = [server EXCEPT ![t].greeted = @ \/ ~caller[c].late]
          /\ NoteDone(c)
       \/ /\ server[t].state = "running" /\ Deaf(t)
          /\ GoTo(c, "noteWriting")
          /\ UNCHANGED server
       \/ /\ server[t].state = "exited"
          /\ GoTo(c, "noteDead")
          /\ UNCHANGED server
    /\ UNCHANGED <<sessionVars, countVars>>

\* The child reads again, or is gone, perhaps killed by another caller.
FinishNote(c) ==
    LET t == caller[c].pipe IN
    /\ caller[c].at = "noteWriting"
    /\ \/ /\ Running(t) /\ ~Deaf(t)
          /\ server' = [server EXCEPT ![t].greeted = @ \/ ~caller[c].late]
          /\ NoteDone(c)
       \/ /\ ~Running(t)
          /\ GoTo(c, "noteDead")
          /\ UNCHANGED server
    /\ UNCHANGED <<sessionVars, countVars>>

\* A write that failed marks the transport dead and is NO error to the caller.
NoteLost(c) ==
    /\ caller[c].at = "noteDead" /\ LockFree
    /\ MarkDead
    /\ NoteDone(c)
    /\ UNCHANGED <<nextId, poisoned, removalVars, countVars>>

\* Back in ensure_initialized: Active, unless the server speaks a version the
\* client does not.
Activate(c) ==
    /\ caller[c].at = "activate" /\ LockFree
    /\ \/ LockFails(c)
       \/ /\ ~poisoned
          /\ phase' = "Active"
          /\ caller' = [caller EXCEPT ![c].at = "alloc", ![c].kind = "call"]
          /\ UNCHANGED <<nextId, current, poisoned, removalVars, server, countVars>>
       \/ /\ ~poisoned
          /\ GoTo(c, "disconnect")
          /\ UNCHANGED <<sessionVars, server, countVars>>

Disconnect(c) ==
    /\ caller[c].at = "disconnect" /\ LockFree
    /\ MarkDead
    /\ EndCall(c)
    /\ UNCHANGED <<nextId, poisoned, removalVars, countVars>>

\* A failed write, an end of file, or a timeout (after the grace period for
\* the cancellation): drop the transport, return the error.
GiveUp(c) ==
    /\ caller[c].at = "dead" /\ LockFree
    /\ MarkDead
    /\ EndCall(c)
    /\ UNCHANGED <<nextId, poisoned, removalVars, countVars>>

-----------------------------------------------------------------------------
\* McpClients: the configuration of the server changes or goes, or the
\* application ends.

\* shutdown_stdio_transport closes stdin, once no write holds it.
Blocked(t) == \E c \in Callers : caller[c].at = "noteWriting" /\ caller[c].pipe = t
Close(t) ==
    IF server[t].state = "running"
    THEN [server EXCEPT ![t].state = "closing"]
    ELSE Kill(t)

\* shutdown: the transport is taken, the phase stays as it is.
Shutdown ==
    /\ LockFree
    /\ IF poisoned \/ current = NoTransport
       THEN /\ removal' = "over"
            /\ UNCHANGED <<current, going, server>>
       ELSE /\ current' = NoTransport
            /\ IF Blocked(current)
               THEN removal' = "taken" /\ going' = current /\ UNCHANGED server
               ELSE removal' = "over" /\ server' = Close(current) /\ UNCHANGED going
    /\ UNCHANGED <<phase, nextId, poisoned, caller, countVars>>

\* The session leaves the manager's map, which keeps no caller that has it from
\* going on, and is shut down, now or when nobody blocks with its mutex.
Retire ==
    /\ removal = "none"
    /\ \/ Shutdown
       \/ /\ ~LockFree
          /\ removal' = "removed"
          /\ UNCHANGED <<phase, nextId, current, poisoned, going, caller, server, countVars>>

ShutdownAtLast == removal = "removed" /\ Shutdown

CloseAtLast ==
    /\ removal = "taken"
    /\ ~Blocked(going)
    /\ removal' = "over"
    /\ going' = NoTransport
    /\ server' = Close(going)
    /\ UNCHANGED <<phase, nextId, current, poisoned, caller, countVars>>

\* Then the child exits, or is killed after a grace period.
GraceOver(t) ==
    /\ server[t].state = "closing"
    /\ server' = Kill(t)
    /\ UNCHANGED <<sessionVars, caller, countVars>>

\* Mutant: a transport has no Drop.
LeakTransport ==
    /\ removal = "over"
    /\ \A c \in Callers : caller[c].at \in {"idle", "panicked"}
    /\ current # NoTransport
    /\ current' = NoTransport
    /\ UNCHANGED <<phase, nextId, poisoned, removalVars, server, caller, countVars>>

\* The last holder of a retired session lets go of it: StdioTransport::drop
\* kills the child a caller spawned after the shutdown.
DropSession ==
    /\ removal = "over"
    /\ \A c \in Callers : caller[c].at \in {"idle", "panicked"}
    /\ current # NoTransport
    /\ current' = NoTransport
    /\ server' = Kill(current)
    /\ UNCHANGED <<phase, nextId, poisoned, removalVars, caller, countVars>>

-----------------------------------------------------------------------------
\* The subprocess, whose lines a reader thread puts into the channel.

Answer(t) ==
    /\ Running(t)
    /\ \E r \in server[t].inbox :
          server' = [server EXCEPT ![t].inbox = @ \ {r},
                                   ![t].out = Append(@, [kind |-> "answer", id |-> r.id, for |-> r.for])]
    /\ UNCHANGED <<sessionVars, caller, countVars>>

\* A line that is no JSON, a notification, or a request of the server under an
\* id of its own, which is as small as the client's and matters when a caller
\* wears the same.
Babble(t) ==
    /\ Running(t)
    /\ noise < MaxNoise /\ spawned + noise < MaxSpawns
    /\ noise' = noise + 1
    /\ \E line \in [kind : {"junk"}]
                   \cup [kind : {"push"}, id : {NoId} \cup {caller[c].id : c \in Callers}] :
          server' = [server EXCEPT ![t].out = Append(@, line)]
    /\ UNCHANGED <<sessionVars, caller, spawned, calls>>

\* It stops reading while the pipe is full, and perhaps goes on later.
Stall(t) ==
    /\ Running(t) /\ ~server[t].deaf
    /\ noise < MaxNoise /\ spawned + noise < MaxSpawns
    /\ noise' = noise + 1
    /\ server' = [server EXCEPT ![t].deaf = TRUE]
    /\ UNCHANGED <<sessionVars, caller, spawned, calls>>

Resume(t) ==
    /\ Deaf(t)
    /\ server' = [server EXCEPT ![t].deaf = FALSE]
    /\ UNCHANGED <<sessionVars, caller, countVars>>

\* It exits or crashes unasked.
Exit(t) ==
    /\ server[t].state = "running"
    /\ server' = [server EXCEPT ![t].state = "exited", ![t].greeted = FALSE, ![t].deaf = FALSE, ![t].inbox = {}]
    /\ UNCHANGED <<sessionVars, caller, countVars>>

-----------------------------------------------------------------------------
CallerStep(c) ==
    \/ CheckPhase(c) \/ Connect(c) \/ Write(c) \/ FinishWrite(c)
    \/ Grab(c) \/ Poll(c) \/ DropForJunk(c)
    \/ NoteConnect(c) \/ NotePick(c) \/ NoteWrite(c) \/ FinishNote(c) \/ NoteLost(c)
    \/ Activate(c) \/ Disconnect(c) \/ GiveUp(c)

ServerStep(t) == Answer(t) \/ Babble(t) \/ Stall(t) \/ Resume(t) \/ Exit(t)

Next ==
    \/ \E c \in Callers : BeginCall(c) \/ CallerStep(c) \/ Clock(c)
    \/ \E t \in Transports : ServerStep(t) \/ GraceOver(t)
    \/ Retire \/ ShutdownAtLast \/ CloseAtLast \/ DropSession

Spec == Init /\ [][Next]_vars

\* A thread inside a call keeps running unless its write blocks, the clock
\* advances, a removal goes on, shutdown waits for one second at most and a
\* value nobody holds is dropped.  Nothing makes the subprocess read, answer or
\* exit.
FairSpec ==
    /\ Spec
    /\ \A c \in Callers : WF_vars(CallerStep(c)) /\ WF_vars(Clock(c))
    /\ \A t \in Transports : WF_vars(GraceOver(t))
    /\ WF_vars(ShutdownAtLast) /\ WF_vars(CloseAtLast) /\ WF_vars(DropSession)

-----------------------------------------------------------------------------
\* Properties.

InFlight(c) == caller[c].at \in {"grab", "poll"}

\* A caller that takes a response takes the one to its own request: whatever
\* is answered, or about to be, under the id a caller waits for is for that
\* caller -- over handshakes, timeouts, respawns and both callers' requests.
\* (A request of the server under that id fails the call: OnPush.)
AnswerIsOwn ==
    \A c \in Callers : InFlight(c) =>
        \A t \in Transports :
            /\ \A r \in server[t].inbox : r.id = caller[c].id => r.for = c
            /\ \A i \in DOMAIN server[t].out :
                  LET l == server[t].out[i] IN l.kind = "answer" /\ l.id = caller[c].id => l.for = c

\* No child outlives its transport: one that nobody told to go is the one the
\* session has, or the one a shutdown has in hand.
NoOrphan == \A t \in Transports : server[t].state = "running" => t \in {current, going}

\* Every call returns (or panics), whatever the subprocess answers or leaves
\* unanswered: the clock ends every wait for a line.  It ends no write.  A child
\* that does not read holds a caller for ever when the pipe is full -- the one
\* that notifies it until another call kills the child, the one that sends it a
\* request with the mutex of the session, so that nobody can kill the child.
CallReturns ==
    \A c \in Callers :
        (caller[c].at # "idle")
            ~> (caller[c].at \in {"idle", "panicked", "noteWriting"} \/ ~LockFree)

\* A server taken out of the configuration is gone in the end, even when a
\* call in progress spawned it again after the shutdown -- unless a write to it
\* blocks for ever.
RetiredIsReaped ==
    (removal # "none")
        ~> \/ \A t \in Transports : ~Running(t)
           \/ \E c \in Callers : caller[c].at \in {"writing", "noteWriting"}

\* session.rs:811: the initialized notification "MUST" be sent "before any
\* other request": no subprocess is sent a call it was not greeted for.
HandshakeFirstStep ==
    \A c \in Callers :
        caller[c].at \in {"write", "writing"} /\ caller'[c].at = "grab" /\ caller[c].kind = "call"
            => server[current].greeted
HandshakeFirst == [][HandshakeFirstStep]_vars
=============================================================================
