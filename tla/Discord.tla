------------------------------ MODULE Discord ------------------------------
(***************************************************************************)
(* The Discord bot (app/integrations/discord): the gateway runner, which   *)
(* keeps a connection to Discord and resumes it, and the bot, which waits  *)
(* for the runner to start, then handles one event after the other: rate   *)
(* limit, safety filter, history of the channel, LLM.                      *)
(*                                                                         *)
(* Discord numbers the events of a session, keeps them while the session   *)
(* is valid, and on Resume sends those after the number given.  Events     *)
(* are the messages that mention the bot in a channel it may answer in,    *)
(* and the slash commands; what they say and what the LLM answers is a     *)
(* choice.  Heartbeats carry the sequence number and change nothing.       *)
(***************************************************************************)
EXTENDS Integers, Sequences, FiniteSets

CONSTANTS
    Users, Channels,
    Limit,       \* rate_limit_per_minute
    Window,      \* the minute, in ticks
    Ttl,         \* of a context, in ticks
    MaxHistory,  \* max_history
    MaxEvents,   \* bound on the events users cause
    MaxConns,    \* bound on the connections opened
    MaxTime      \* bound on the ticks

ASSUME LimitsAssumption == Limit \in Nat /\ MaxHistory \in Nat
ASSUME TimesAssumption == Window \in Nat \ {0} /\ Ttl \in Nat /\ MaxTime \in Nat
ASSUME BoundsAssumption == MaxEvents \in Nat /\ MaxConns \in Nat

VARIABLES
    log,       \* Discord: the events of the session, in the order of their numbers
    valid,     \* Discord: the session can be resumed
    cursor,    \* Discord: how many of them it has sent on this connection
    minted,    \* how many events users have caused
    conns,     \* how many connections were opened
    gateway,   \* GatewayRunner::run: where it is
    session,   \* session_id is known
    sequence,  \* the last sequence number seen, 0 for none
    init,      \* the oneshot that start() waits for
    queue,     \* the unbounded channel from the runner to the bot
    received,  \* history: the ids that were sent into it
    bot,       \* DiscordBot::run: where it is
    calls,     \* the messages an LLM call is running for
    followUps, \* how many background tasks of slash commands run
    bucket,    \* RateLimiter: per user
    admitted,  \* history: who passed the rate limit, and when
    context,   \* DiscordContext: per channel
    now

discordVars == <<log, valid, cursor, minted>>
runnerVars  == <<conns, gateway, session, sequence, init, received>>
loopVars    == <<bot, calls, followUps>>
limitVars   == <<bucket, admitted>>
vars == <<discordVars, runnerVars, queue, loopVars, limitVars, context, now>>

Ids   == 1..MaxEvents
Ready == [kind |-> "Ready"]
Event == {Ready}
         \cup [kind: {"Message"}, id: Ids, user: Users, channel: Channels]
         \cup [kind: {"Slash"}, id: Ids]

NoBucket == [count |-> 0, start |-> -Window]
Empty    == [turns |-> <<>>, last |-> -Ttl]

Init ==
    /\ log = <<>> /\ valid = FALSE /\ cursor = 0 /\ minted = 0
    /\ conns = 0 /\ gateway = "dial" /\ session = FALSE /\ sequence = 0
    /\ init = "pending" /\ queue = <<>> /\ received = <<>>
    /\ bot = "starting" /\ calls = {} /\ followUps = 0
    /\ bucket = [u \in Users |-> NoBucket] /\ admitted = {}
    /\ context = [c \in Channels |-> Empty]
    /\ now = 0

-----------------------------------------------------------------------------
(* Discord. *)

\* A user writes to the bot.  Without a session the event is for nobody.
Post ==
    /\ minted < MaxEvents
    /\ minted' = minted + 1
    /\ \E e \in {x \in Event \ {Ready} : x.id = minted + 1} :
         log' = IF valid THEN Append(log, e) ELSE log
    /\ UNCHANGED <<valid, cursor, runnerVars, queue, loopVars, limitVars,
                   context, now>>

\* A session without a connection is forgotten after a while.
Forget ==
    /\ valid /\ gateway # "live"
    /\ valid' = FALSE
    /\ UNCHANGED <<log, cursor, minted, runnerVars, queue, loopVars, limitVars,
                   context, now>>

\* The answer to Identify is a new session whose first event is READY, the
\* answer to Resume the rest of the session or a refusal.
Greet ==
    /\ gateway \in {"identify", "resume"}
    /\ IF gateway = "identify"
         THEN /\ log' = <<Ready>> /\ valid' = TRUE /\ cursor' = 0
              /\ gateway' = "live"
         ELSE /\ gateway' = IF valid THEN "live" ELSE "refused"
              /\ cursor' = sequence
              /\ UNCHANGED <<log, valid>>
    /\ UNCHANGED <<minted, conns, session, sequence, init, received, queue,
                   loopVars, limitVars, context, now>>

-----------------------------------------------------------------------------
(* GatewayRunner. *)

Connected == gateway \in {"identify", "resume", "live", "refused"}

\* The socket is open and Resume or Identify is sent.
Dial ==
    /\ gateway = "dial" /\ conns < MaxConns
    /\ conns' = conns + 1
    /\ gateway' = IF session /\ sequence > 0 THEN "resume" ELSE "identify"
    /\ UNCHANGED <<discordVars, session, sequence, init, received, queue,
                   loopVars, limitVars, context, now>>

\* establish has returned: the first result goes to start(), then two seconds
\* of pause.
Ended(result) ==
    /\ gateway' = "backoff"
    /\ init' = IF init = "pending" THEN result ELSE init

DialFails ==
    /\ gateway = "dial"
    /\ Ended("failed")
    /\ UNCHANGED <<discordVars, conns, session, sequence, received, queue,
                   loopVars, limitVars, context, now>>

\* Mutant: the shared sequence number is set by READY only.
ReceiveUncounted ==
    /\ gateway = "live" /\ cursor < Len(log)
    /\ LET e == log[cursor + 1] IN
         /\ cursor' = cursor + 1
         /\ sequence' = IF e = Ready THEN cursor + 1 ELSE sequence
         /\ session' = (session \/ e = Ready)
         /\ queue' = Append(queue, e)
         /\ received' = IF e = Ready THEN received ELSE Append(received, e.id)
    /\ UNCHANGED <<log, valid, minted, conns, gateway, init, loopVars, limitVars,
                   context, now>>

\* The next event of the session: its number is kept, READY gives the session,
\* and the bot gets the event.
Receive ==
    /\ gateway = "live" /\ cursor < Len(log)
    /\ LET e == log[cursor + 1] IN
         /\ cursor' = cursor + 1
         /\ sequence' = cursor + 1
         /\ session' = (session \/ e = Ready)
         /\ queue' = Append(queue, e)
         /\ received' = IF e = Ready THEN received ELSE Append(received, e.id)
    /\ UNCHANGED <<log, valid, minted, conns, gateway, init, loopVars, limitVars,
                   context, now>>

\* Close, a read error, Reconnect, or a session that may be resumed.
Disconnected ==
    /\ Connected /\ gateway # "refused"
    /\ Ended("ok")
    /\ UNCHANGED <<discordVars, conns, session, sequence, received, queue,
                   loopVars, limitVars, context, now>>

\* InvalidSession(false): the next connection identifies.
Invalidated ==
    /\ Connected
    /\ Ended("ok")
    /\ session' = FALSE /\ sequence' = 0
    /\ valid' = FALSE
    /\ UNCHANGED <<log, cursor, minted, conns, received, queue, loopVars,
                   limitVars, context, now>>

Retry ==
    /\ gateway = "backoff"
    /\ gateway' = "dial"
    /\ UNCHANGED <<discordVars, conns, session, sequence, init, received, queue,
                   loopVars, limitVars, context, now>>

-----------------------------------------------------------------------------
(* DiscordBot. *)

\* Where the bot waits for a REST call to Discord.  Its HTTP client has no
\* timeout, and nothing else goes on until the call returns.
AtDiscord == bot \in {"registering", "sending", "acknowledging"}

\* start() returns with what init was given; on an error the bot is dropped,
\* and the runner aborted with it.  On success the commands are registered,
\* if they are to be.
Started ==
    /\ bot = "starting" /\ init # "pending"
    /\ IF init = "ok"
         THEN bot' \in {"registering", "loop"} /\ UNCHANGED gateway
         ELSE bot' = "gone" /\ gateway' = "aborted"
    /\ UNCHANGED <<discordVars, conns, session, sequence, init, received, queue,
                   calls, followUps, limitVars, context, now>>

\* The commands are registered, or not; a message is sent, or not.  An error is
\* logged or passed over.
Returned ==
    /\ bot \in {"registering", "sending"}
    /\ bot' = "loop"
    /\ UNCHANGED <<discordVars, runnerVars, queue, calls, followUps, limitVars,
                   context, now>>

Taken(kind) ==
    /\ bot = "loop" /\ queue # <<>> /\ Head(queue).kind = kind
    /\ queue' = Tail(queue)

\* READY is the first event of a session: bot_user_id is known before there is a
\* message to find it in.
HandleReady ==
    /\ Taken("Ready")
    /\ UNCHANGED <<discordVars, runnerVars, loopVars, limitVars, context, now>>

\* Mutant: the count is reset, the start of the window is not.
CurrentOnly(u) ==
    IF now - bucket[u].start >= Window THEN [bucket[u] EXCEPT !.count = 0]
                                       ELSE bucket[u]

\* RateLimiter::check: the bucket of a user, begun anew when its window is over.
\* NoBucket stands for no entry: an expired window does the same.
Current(u) ==
    IF now - bucket[u].start >= Window THEN [count |-> 0, start |-> now]
                                       ELSE bucket[u]

Admits(u) == Current(u).count < Limit
Charge(u) == bucket' = [bucket EXCEPT ![u] = [Current(u) EXCEPT !.count = @ + 1]]

\* Mutant: the history is not trimmed.
LastOfNone(s, n) == s

\* add_message: the new turn and those before it, at most MaxHistory of them.
Last(s, n)      == SubSeq(s, IF Len(s) > n THEN Len(s) - n + 1 ELSE 1, Len(s))
Add(c, role, e) ==
    context' = [context EXCEPT ![c] =
        [turns |-> Last(Append(@.turns, [role |-> role, id |-> e.id]), MaxHistory),
         last |-> now]]

\* A message by somebody over the limit is answered with the time to wait.
RefuseMessage ==
    /\ Taken("Message")
    /\ LET u == Head(queue).user IN
         /\ ~Admits(u)
         /\ bucket' = [bucket EXCEPT ![u] = Current(u)]
    /\ bot' = "sending"
    /\ UNCHANGED <<discordVars, runnerVars, calls, followUps, admitted, context, now>>

Admit(e) ==
    /\ Admits(e.user) /\ Charge(e.user)
    /\ admitted' = admitted \cup {[user |-> e.user, id |-> e.id, at |-> now]}

\* A message with a blocked pattern is answered with the reason.
BlockMessage ==
    /\ Taken("Message")
    /\ Admit(Head(queue))
    /\ bot' = "sending"
    /\ UNCHANGED <<discordVars, runnerVars, calls, followUps, context, now>>

\* Mutant: the LLM is called in a task of its own, as for a slash command.
AskInBackground ==
    /\ Taken("Message")
    /\ LET e == Head(queue) IN
         /\ Admit(e)
         /\ Add(e.channel, "user", e)
         /\ calls' = calls \cup {e}
    /\ UNCHANGED <<discordVars, runnerVars, bot, followUps, now>>

\* The user's turn is added and the LLM is asked; the loop waits for it.
AskLlm ==
    /\ Taken("Message")
    /\ LET e == Head(queue) IN
         /\ Admit(e)
         /\ Add(e.channel, "user", e)
         /\ calls' = calls \cup {e}
    /\ bot' = "asking"
    /\ UNCHANGED <<discordVars, runnerVars, followUps, now>>

\* The answer, the text of an error, or what the output filter makes of it is
\* added, and sent in pieces.
Answer ==
    /\ \E e \in calls : /\ calls' = calls \ {e}
                        /\ Add(e.channel, "assistant", e)
    /\ bot' = "sending"
    /\ UNCHANGED <<discordVars, runnerVars, queue, followUps, limitVars,
                   now>>

\* A message of a bot, in a channel or guild that is not allowed, or that does
\* not mention this bot.
IgnoreMessage ==
    /\ Taken("Message")
    /\ UNCHANGED <<discordVars, runnerVars, loopVars, limitVars, context, now>>

\* A slash command is to be acknowledged.
TakeSlash ==
    /\ Taken("Slash")
    /\ bot' = "acknowledging"
    /\ UNCHANGED <<discordVars, runnerVars, calls, followUps, limitVars,
                   context, now>>

\* It is, and answered by a task of its own.
AcknowledgeSlash ==
    /\ bot = "acknowledging"
    /\ bot' = "loop"
    /\ followUps' = followUps + 1
    /\ UNCHANGED <<discordVars, runnerVars, queue, calls, limitVars, context, now>>

\* Mutant: an error of the acknowledgement ends the loop.
RejectEndsLoop ==
    /\ bot = "acknowledging"
    /\ bot' = "stopped"
    /\ UNCHANGED <<discordVars, runnerVars, queue, calls, followUps, limitVars,
                   context, now>>

\* Discord rejects the acknowledgement, which came too late for it: the error
\* is logged.  A command of no known name has no answer to follow either.
RejectSlash ==
    /\ bot = "acknowledging"
    /\ bot' = "loop"
    /\ UNCHANGED <<discordVars, runnerVars, queue, calls, followUps, limitVars,
                   context, now>>

FollowUp ==
    /\ followUps > 0 /\ followUps' = followUps - 1
    /\ UNCHANGED <<discordVars, runnerVars, queue, bot, calls, limitVars,
                   context, now>>

-----------------------------------------------------------------------------
(* The clean-up tasks, which run from when the bot has started, and time. *)

Serving == bot \in {"loop", "asking", "sending", "acknowledging"}

CleanContexts ==
    /\ Serving
    /\ context' = [c \in Channels |->
                     IF now - context[c].last < Ttl THEN context[c] ELSE Empty]
    /\ UNCHANGED <<discordVars, runnerVars, queue, loopVars, limitVars, now>>

CleanBuckets ==
    /\ Serving
    /\ bucket' = [u \in Users |->
                    IF now - bucket[u].start < 2 * Window THEN bucket[u] ELSE NoBucket]
    /\ UNCHANGED <<discordVars, runnerVars, queue, loopVars, admitted, context, now>>

Tick ==
    /\ now < MaxTime
    /\ now' = now + 1
    /\ UNCHANGED <<discordVars, runnerVars, queue, loopVars, limitVars, context>>

-----------------------------------------------------------------------------
Server  == Post \/ Forget
Runner  == Dial \/ DialFails \/ Receive \/ Disconnected \/ Invalidated \/ Retry
Bot     == \/ Started \/ HandleReady \/ RefuseMessage \/ BlockMessage \/ AskLlm
           \/ Answer \/ IgnoreMessage \/ TakeSlash
Rest    == Returned \/ AcknowledgeSlash \/ RejectSlash
CleanUp == CleanContexts \/ CleanBuckets

Next == Server \/ Greet \/ Runner \/ Bot \/ Rest \/ FollowUp \/ CleanUp \/ Tick
Spec == Init /\ [][Next]_vars

\* The tasks of the runtime run, an LLM call returns (the client of the LLM has
\* a timeout), and Discord goes on with the connection it has accepted.  Nothing
\* ends a connection that works, and nothing makes one; nothing makes a REST
\* call to Discord return.
FairSpec == Spec /\ WF_vars(Greet) /\ WF_vars(Receive) /\ WF_vars(Bot)

-----------------------------------------------------------------------------
(* Properties. *)

Turn == [role: {"user", "assistant"}, id: Ids]

TypeOK ==
    /\ log \in Seq(Event) /\ valid \in BOOLEAN /\ cursor \in Nat
    /\ minted \in 0..MaxEvents /\ conns \in 0..MaxConns
    /\ gateway \in {"dial", "identify", "resume", "live", "refused", "backoff",
                    "aborted"}
    /\ session \in BOOLEAN /\ sequence \in Nat
    /\ init \in {"pending", "ok", "failed"}
    /\ queue \in Seq(Event) /\ received \in Seq(Ids)
    /\ bot \in {"starting", "registering", "loop", "asking", "sending",
                "acknowledging", "gone"}
    /\ calls \subseteq {e \in Event : e.kind = "Message"} /\ followUps \in Nat
    /\ bucket \in [Users -> [count: 0..Limit, start: Int]]
    /\ \A u \in Users : bucket[u].start <= now
    /\ admitted \subseteq [user: Users, id: Ids, at: 0..now]
    /\ context \in [Channels -> [turns: Seq(Turn), last: Int]]
    /\ \A c \in Channels : Len(context[c].turns) <= MaxHistory
    /\ now \in 0..MaxTime

\* DISCORD-012: across any sequence of closed connections, Reconnect and
\* InvalidSession, the bot is given each event at most once and in order, and
\* of the session it would resume none up to the number it would resume from
\* is missing.
ResumesExactly ==
    /\ \A i, j \in DOMAIN received : i < j => received[i] < received[j]
    /\ session => \A i \in 2..sequence : \E k \in DOMAIN received : received[k] = log[i].id

\* DISCORD-006: the limiter counts in windows that begin with a request, not in
\* the sliding ones its comment names: in any stretch as long as a window a user
\* has up to twice the limit, and never more, although expiry and clean-up reset
\* the counts at times of their own.
AtMostTwice ==
    \A u \in Users : \A t \in 0..MaxTime :
        Cardinality({a \in admitted : a.user = u /\ a.at \in t..(t + Window - 1)})
            <= 2 * Limit

\* DISCORD-004: in the history sent to the LLM an answer stands right after the
\* question it answers, unless trimming or expiry took the question, and only
\* the question being answered has none, although the users of a channel write
\* while the LLM is busy and a context may expire under a running call.
AnswerFollowsQuestion ==
    \A c \in Channels : \A i \in DOMAIN context[c].turns :
      LET turns == context[c].turns IN
        IF turns[i].role = "assistant"
          THEN i > 1 => turns[i - 1] = [role |-> "user", id |-> turns[i].id]
          ELSE IF i < Len(turns)
            THEN turns[i + 1] = [role |-> "assistant", id |-> turns[i].id]
            ELSE \E e \in calls : e.id = turns[i].id

\* Once start() has returned, every event is handled in the end, as long as no
\* REST call keeps the loop for ever: no refusal of Discord, failure of the LLM
\* or error of a handler stops it.
Queued(n) == \E i \in DOMAIN queue : queue[i] # Ready /\ queue[i].id = n
EventsAreHandled ==
    []<>~AtDiscord => \A n \in Ids : (Queued(n) /\ init = "ok") ~> ~Queued(n)

\* gateway.rs:173-175, "Opens the first connection and fails fast (...) if the
\* initial socket cannot be opened; thereafter the runner reconnects on its
\* own": start() waits for the first connection to open, not for it to end, so
\* a bot that is connected comes to handle its events.
ServesOnceConnected == (bot = "starting" /\ queue # <<>>) ~> (bot # "starting")
=============================================================================
