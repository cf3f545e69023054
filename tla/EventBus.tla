------------------------------ MODULE EventBus ------------------------------
(***************************************************************************)
(* The event bus of src/src/app/bus/core.rs: a broadcast channel plus one  *)
(* condition variable shared by every handle and every reader.             *)
(*                                                                         *)
(* A publisher sends and then notifies WITHOUT holding the mutex a reader  *)
(* waits with (each reader has a mutex of its own), so the two halves of   *)
(* `publish` are two steps here, and so are the two halves of a reader's   *)
(* "nothing there, so wait".  A value is identified by its position.       *)
(***************************************************************************)
EXTENDS Integers, Broadcast

CONSTANTS
    Publishers,     \* clones of the Bus handle
    Readers,        \* subscribers
    Capacity,       \* ring size (BUS_CAPACITY, 8192 in the code)
    MaxEvents       \* bound on the number of values sent

ASSUME CapacityAssumption == Capacity \in Nat \ {0}
ASSUME BoundAssumption == MaxEvents \in Nat

VARIABLES
    tail,       \* number of values ever sent
    handle,     \* handle[p]: where publisher p's handle is in publish or drop
    reader,     \* reader[r]: where reader r is in a receive call
    timed,      \* timed[r]: the call in progress is recv_timeout
    expired,    \* expired[r]: the deadline of that call has passed
    next,       \* next[r]: the position r reads next
    start,      \* history: the tail when r subscribed
    got,        \* history: positions delivered to r
    lost,       \* history: positions skipped by a lag report to r
    late        \* history: r went to sleep although there was something to receive

channelVars == <<tail, handle>>
callVars == <<reader, timed, expired>>
historyVars == <<start, got, lost, late>>
busState == <<tail, handle, reader, timed, expired, next, start, got, lost, late>>

HandleState == {"idle", "sent", "dropping", "dropped"}
ReaderState == {"absent", "idle", "trying", "parking", "waiting", "final"}

BusTypeOK ==
    /\ tail \in Nat
    /\ handle \in [Publishers -> HandleState]
    /\ reader \in [Readers -> ReaderState]
    /\ timed \in [Readers -> BOOLEAN]
    /\ expired \in [Readers -> BOOLEAN]
    /\ next \in [Readers -> Nat]
    /\ start \in [Readers -> Nat]
    /\ got \in [Readers -> SUBSET Nat]
    /\ lost \in [Readers -> SUBSET Nat]
    /\ late \in [Readers -> BOOLEAN]

Subscribed(r) == reader[r] # "absent"

\* The channel is closed once the last sender field is gone; a handle whose
\* drop is in progress has notified but still holds its sender.
Closed == \A p \in Publishers : handle[p] = "dropped"

Ready(r) == IsReady(next[r], tail, Capacity)
Lagging(r) == IsLagged(next[r], tail, Capacity)
Drained(r) == IsDrained(next[r], tail)

-----------------------------------------------------------------------------
BusInit ==
    /\ tail = 0
    /\ handle \in [Publishers -> {"idle", "dropped"}]
    /\ \E p \in Publishers : handle[p] = "idle"
    /\ reader = [r \in Readers |-> "absent"]
    /\ timed = [r \in Readers |-> FALSE]
    /\ expired = [r \in Readers |-> FALSE]
    /\ next = [r \in Readers |-> 0]
    /\ start = [r \in Readers |-> 0]
    /\ got = [r \in Readers |-> {}]
    /\ lost = [r \in Readers |-> {}]
    /\ late = [r \in Readers |-> FALSE]

-----------------------------------------------------------------------------
\* Publishers.

\* Mutant: notify_one, with as many readers as there are waiting.
NotifyOne ==
    /\ \/ reader' = reader /\ \A r \in Readers : reader[r] # "waiting"
       \/ \E r \in Readers : reader[r] = "waiting" /\ reader' = [reader EXCEPT ![r] = "trying"]
    /\ late' = [r \in Readers |-> late[r] /\ reader'[r] = "waiting"]

\* notify_all: every reader in the wait set goes back to its loop.
NotifyAll ==
    /\ reader' = [r \in Readers |-> IF reader[r] = "waiting" THEN "trying" ELSE reader[r]]
    /\ late' = [r \in Readers |-> FALSE]

\* Mutant: a value is stored although nobody is subscribed.
SendToNobody(p) ==
    /\ handle[p] = "idle"
    /\ tail < MaxEvents
    /\ tail' = tail + 1
    /\ handle' = [handle EXCEPT ![p] = "sent"]
    /\ UNCHANGED <<callVars, next, historyVars>>

\* First half of publish: `sender.send`.  With no receiver nothing is stored.
Send(p) ==
    /\ handle[p] = "idle"
    /\ tail < MaxEvents
    /\ tail' = IF \E r \in Readers : Subscribed(r) THEN tail + 1 ELSE tail
    /\ handle' = [handle EXCEPT ![p] = "sent"]
    /\ UNCHANGED <<callVars, next, historyVars>>

\* Second half of publish: `notify.notify_all`.
Notify(p) ==
    /\ handle[p] = "sent"
    /\ handle' = [handle EXCEPT ![p] = "idle"]
    /\ NotifyAll
    /\ UNCHANGED <<tail, timed, expired, next, start, got, lost>>

\* Drop::drop notifies; the sender field is released after it returns.
BeginDrop(p) ==
    /\ handle[p] = "idle"
    /\ handle' = [handle EXCEPT ![p] = "dropping"]
    /\ NotifyAll
    /\ UNCHANGED <<tail, timed, expired, next, start, got, lost>>

FinishDrop(p) ==
    /\ handle[p] = "dropping"
    /\ handle' = [handle EXCEPT ![p] = "dropped"]
    /\ UNCHANGED <<tail, callVars, next, historyVars>>

\* Cloning a live handle.
CloneHandle(p) ==
    /\ handle[p] = "dropped"
    /\ \E q \in Publishers : handle[q] = "idle"
    /\ handle' = [handle EXCEPT ![p] = "idle"]
    /\ UNCHANGED <<tail, callVars, next, historyVars>>

-----------------------------------------------------------------------------
\* Readers.

\* Mutant: a new receiver is given the newest value as well.
SubscribeToNewest(r) ==
    /\ reader[r] = "absent"
    /\ \E p \in Publishers : handle[p] = "idle"
    /\ reader' = [reader EXCEPT ![r] = "idle"]
    /\ next' = [next EXCEPT ![r] = tail - 1]
    /\ start' = [start EXCEPT ![r] = tail - 1]
    /\ UNCHANGED <<channelVars, timed, expired, got, lost, late>>

\* subscribe: a new receiver starts at the tail.
Subscribe(r) ==
    /\ reader[r] = "absent"
    /\ \E p \in Publishers : handle[p] = "idle"
    /\ reader' = [reader EXCEPT ![r] = "idle"]
    /\ next' = [next EXCEPT ![r] = tail]
    /\ start' = [start EXCEPT ![r] = tail]
    /\ UNCHANGED <<channelVars, timed, expired, got, lost, late>>

\* The receiver is dropped, and its history with it.
DropReader(r) ==
    /\ reader[r] = "idle"
    /\ reader' = [reader EXCEPT ![r] = "absent"]
    /\ next' = [next EXCEPT ![r] = 0]
    /\ start' = [start EXCEPT ![r] = 0]
    /\ got' = [got EXCEPT ![r] = {}]
    /\ lost' = [lost EXCEPT ![r] = {}]
    /\ UNCHANGED <<channelVars, timed, expired, late>>

\* The receiver hands out the value at next[r].
Take(r) ==
    /\ Ready(r)
    /\ next' = [next EXCEPT ![r] = @ + 1]
    /\ got' = [got EXCEPT ![r] = @ \cup {next[r]}]
    /\ UNCHANGED <<start, lost>>

\* Mutant: after a lag the receiver resumes one value too late.
ResumeLate(r) ==
    /\ Lagging(r)
    /\ next' = [next EXCEPT ![r] = Oldest(tail, Capacity) + 1]
    /\ lost' = [lost EXCEPT ![r] = @ \cup (next[r] .. Oldest(tail, Capacity))]
    /\ UNCHANGED <<start, got>>

\* The receiver reports its lag and moves to the oldest value kept.
SkipLag(r) ==
    /\ Lagging(r)
    /\ next' = [next EXCEPT ![r] = Oldest(tail, Capacity)]
    /\ lost' = [lost EXCEPT ![r] = @ \cup SkippedByLag(next[r], tail, Capacity)]
    /\ UNCHANGED <<start, got>>

\* Empty or Closed: nothing moves.
Nothing(r) == Drained(r) /\ UNCHANGED <<next, start, got, lost>>

\* try_recv and try_recv_exposing_lag differ in what they call a lag, not in
\* what they do to the receiver.
TryRecv(r) ==
    /\ reader[r] = "idle"
    /\ Take(r) \/ SkipLag(r)
    /\ UNCHANGED <<channelVars, callVars, late>>

\* A call of recv (t FALSE) or recv_timeout (t TRUE) locks the receiver.
StartRecv(r, t) ==
    /\ reader[r] = "idle"
    /\ reader' = [reader EXCEPT ![r] = "trying"]
    /\ timed' = [timed EXCEPT ![r] = t]
    /\ UNCHANGED <<channelVars, expired, next, historyVars>>

\* The call returns to its caller; its locals are gone.
Return(r) ==
    /\ reader' = [reader EXCEPT ![r] = "idle"]
    /\ timed' = [timed EXCEPT ![r] = FALSE]
    /\ expired' = [expired EXCEPT ![r] = FALSE]

\* The clock reaches the deadline of a recv_timeout.
Deadline(r) ==
    /\ reader[r] \in {"trying", "parking", "waiting"}
    /\ timed[r] /\ ~expired[r]
    /\ expired' = [expired EXCEPT ![r] = TRUE]
    /\ UNCHANGED <<channelVars, reader, timed, next, historyVars>>

\* An Err other than Closed -- Empty and Lagged alike -- leads to the wait,
\* or to Err(Timeout) when the deadline has passed.
WaitOrTimeout(r) ==
    IF timed[r] /\ expired[r]
    THEN Return(r)
    ELSE reader' = [reader EXCEPT ![r] = "parking"] /\ UNCHANGED <<timed, expired>>

\* One turn of the loop: try_recv, under the reader's mutex.
Attempt(r) ==
    /\ reader[r] = "trying"
    /\ \/ Take(r) /\ Return(r)
       \/ SkipLag(r) /\ WaitOrTimeout(r)
       \/ Nothing(r) /\ Closed /\ Return(r)
       \/ Nothing(r) /\ ~Closed /\ WaitOrTimeout(r)
    /\ UNCHANGED <<channelVars, late>>

\* Condvar::wait puts the thread in the wait set.  A notification sent since
\* the try_recv finds it not there yet.
Park(r) ==
    /\ reader[r] = "parking"
    /\ reader' = [reader EXCEPT ![r] = "waiting"]
    /\ late' = [late EXCEPT ![r] = Ready(r) \/ Lagging(r)]
    /\ UNCHANGED <<channelVars, timed, expired, next, start, got, lost>>

\* A condition variable may wake a thread nobody notified.
SpuriousWake(r) ==
    /\ reader[r] = "waiting"
    /\ reader' = [reader EXCEPT ![r] = "trying"]
    /\ late' = [late EXCEPT ![r] = FALSE]
    /\ UNCHANGED <<channelVars, timed, expired, next, start, got, lost>>

\* Mutant: recv_timeout waits without a bound.
WaitForEver(r) == FALSE /\ UNCHANGED busState

\* wait_timeout gives up: the loop ends with one last try_recv.
WaitTimesOut(r) ==
    /\ reader[r] = "waiting"
    /\ timed[r] /\ expired[r]
    /\ reader' = [reader EXCEPT ![r] = "final"]
    /\ late' = [late EXCEPT ![r] = FALSE]
    /\ UNCHANGED <<channelVars, timed, expired, next, start, got, lost>>

FinalTry(r) ==
    /\ reader[r] = "final"
    /\ Take(r) \/ SkipLag(r) \/ Nothing(r)
    /\ Return(r)
    /\ UNCHANGED <<channelVars, late>>

-----------------------------------------------------------------------------
PublisherStep(p) ==
    Send(p) \/ Notify(p) \/ BeginDrop(p) \/ FinishDrop(p) \/ CloneHandle(p)

ReaderStep(r) ==
    \/ Subscribe(r) \/ DropReader(r) \/ TryRecv(r)
    \/ \E t \in BOOLEAN : StartRecv(r, t)
    \/ Deadline(r) \/ Attempt(r) \/ Park(r) \/ SpuriousWake(r)
    \/ WaitTimesOut(r) \/ FinalTry(r)

BusNext ==
    \/ \E p \in Publishers : PublisherStep(p)
    \/ \E r \in Readers : ReaderStep(r)

BusSpec == BusInit /\ [][BusNext]_busState

\* A thread inside publish, drop, recv or recv_timeout keeps running, and the
\* clock advances.  Nothing makes a caller call, and nothing wakes a waiter
\* that is neither notified nor timed out.
Fairness ==
    /\ \A p \in Publishers : WF_busState(Notify(p)) /\ WF_busState(FinishDrop(p))
    /\ \A r \in Readers :
        /\ WF_busState(Attempt(r))
        /\ WF_busState(Park(r))
        /\ WF_busState(Deadline(r))
        /\ WF_busState(WaitTimesOut(r))
        /\ WF_busState(FinalTry(r))

FairBusSpec == BusSpec /\ Fairness

-----------------------------------------------------------------------------
\* Properties.

\* Accounting: everything published since a reader subscribed and before the
\* position it reads next was either delivered to it or reported lost, never
\* both, and nothing else was.  (try_recv hides the report, not the loss.)
Accounted ==
    \A r \in Readers : Subscribed(r) =>
        /\ got[r] \cup lost[r] = start[r] .. (next[r] - 1)
        /\ got[r] \cap lost[r] = {}

\* A reader loses a value only when a whole ring of newer values has been
\* published over it, however the sends, lag reports and reads interleave.
LossOnlyByOverflow ==
    \A r \in Readers : \A i \in lost[r] : i + Capacity < tail

\* What a reader misses is accounted for, and lost for no other reason than a
\* reader a whole ring behind.
NothingVanishes == Accounted /\ LossOnlyByOverflow

\* A value is delivered to a reader after every value delivered to it before:
\* no duplicate and no reordering across try_recv, recv and recv_timeout.
InOrderStep ==
    \A r \in Readers : reader[r] # "absent" =>
        \A i \in got'[r] \ got[r] : \A j \in got[r] \cup lost[r] : j < i
InOrder == [][InOrderStep]_busState

\* The wakeup guarantee `publish` does give: a reader that was in the wait
\* set with nothing to receive is notified of the value that arrives; while
\* one is there and the reader still sleeps, some publisher is between its
\* send and its notify_all.
SleeperIsNotified ==
    \A r \in Readers :
        reader[r] = "waiting" /\ (Ready(r) \/ Lagging(r)) /\ ~late[r]
            => \E p \in Publishers : handle[p] = "sent"

\* The bus implements a feed whose queues drop their oldest value at the
\* moment they overflow, although the code lets a reader fall behind and finds
\* out only at its next receive: no reader can tell the two apart.
Backlog ==
    [r \in Readers |->
        IF Subscribed(r)
        THEN {i \in next[r] .. (tail - 1) : i >= Oldest(tail, Capacity)}
        ELSE {}]
SubscribedSet == {r \in Readers : Subscribed(r)}
Feed == INSTANCE DropOldestFeed WITH
            Subscribers <- Readers, Depth <- Capacity, published <- tail,
            members <- SubscribedSet, queue <- Backlog, seen <- got
ImplementsFeed == Feed!FeedSpec

\* recv_timeout returns, with a value, Disconnected or Timeout, whatever the
\* publishers do and however often the wait is woken early.
InTimedCall(r) == timed[r] /\ reader[r] \in {"trying", "parking", "waiting", "final"}
TimedRecvReturns == \A r \in Readers : InTimedCall(r) ~> (reader[r] = "idle")
=============================================================================
