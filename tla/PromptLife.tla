----------------------------- MODULE PromptLife -----------------------------
(***************************************************************************)
(* What an agent session promises a prompt, with no thread, bus, channel   *)
(* or frame in sight.  A prompt entered waits until it is handed over or   *)
(* dropped; those handed over stand in one line and run in its order, one  *)
(* at a time, each once; and nothing that still waits is ever stopped.     *)
(***************************************************************************)
EXTENDS Sequences

CONSTANT Prompt

VARIABLES
    accepted,   \* the prompts entered
    waiting,    \* those neither handed over nor dropped
    line,       \* those handed over and not yet begun, in order
    current,    \* the one being run, or none
    over,       \* those whose run has ended
    stopped     \* those somebody asked to stop

promptVars == <<accepted, waiting, line, current, over, stopped>>

HandedOver == {line[i] : i \in DOMAIN line} \cup current \cup over

LifeInit ==
    /\ accepted = {} /\ waiting = {} /\ line = <<>>
    /\ current = {} /\ over = {} /\ stopped = {}

Accept(p) ==
    /\ p \notin accepted
    /\ accepted' = accepted \cup {p}
    /\ waiting' = waiting \cup {p}
    /\ UNCHANGED <<line, current, over, stopped>>

\* Prompts overtake one another while they wait.
HandOver(p) ==
    /\ p \in waiting
    /\ waiting' = waiting \ {p}
    /\ line' = Append(line, p)
    /\ UNCHANGED <<accepted, current, over, stopped>>

\* Prompts are dropped: by a run that fails, and by the second of two runs that
\* end in one frame, which takes the place of the prompt the first had taken.
Drop ==
    /\ waiting' \subseteq waiting
    /\ UNCHANGED <<accepted, line, current, over, stopped>>

Begin ==
    /\ current = {}
    /\ line # <<>>
    /\ current' = {Head(line)}
    /\ line' = Tail(line)
    /\ UNCHANGED <<accepted, waiting, over, stopped>>

\* A run ends, or dies with the thread it runs on.
End ==
    /\ current # {}
    /\ over' = over \cup current
    /\ current' = {}
    /\ UNCHANGED <<accepted, waiting, line, stopped>>

Stop(p) ==
    /\ p \in HandedOver
    /\ stopped' = stopped \cup {p}
    /\ UNCHANGED <<accepted, waiting, line, current, over>>

LifeNext ==
    \/ \E p \in Prompt : Accept(p) \/ HandOver(p) \/ Stop(p)
    \/ Drop \/ Begin \/ End

LifeSpec == LifeInit /\ [][LifeNext]_promptVars
=============================================================================
