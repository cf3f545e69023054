------------------------- MODULE AgentSession_proofs -------------------------
(***************************************************************************)
(* Proofs about the event bus and about the agent session, which talks to  *)
(* the UI over it, in three parts.                                         *)
(*                                                                         *)
(* EventBus, for every set of publishers and readers, every capacity and   *)
(* every number of events: delivery, wakeups, and that the bus implements  *)
(* the queues that drop their oldest event, which is how the other modules *)
(* take it.                                                                *)
(*                                                                         *)
(* AgentSession, for every number of prompts, sessions and every ring: the *)
(* running flag, the transcript and the separation of conversations; and   *)
(* that a prompt typed once is in one place at a time, from the command bus*)
(* over the queue, the drain and the driver's channel to the end of its    *)
(* run; and, from that, that the session implements PromptLife.            *)
(***************************************************************************)
EXTENDS AgentSession, EventBus, SequenceTheorems, TLAPS

-----------------------------------------------------------------------------
(* Part one: the event bus. *)

\* A reader's position lies between its start and the tail, and a reader that
\* is gone leaves nothing behind.
Positions ==
    \A r \in Readers :
        /\ start[r] <= next[r] /\ next[r] <= tail
        /\ reader[r] = "absent" => start[r] = next[r] /\ got[r] = {} /\ lost[r] = {}

\* Accounted, for absent readers too.
Ledger ==
    \A r \in Readers :
        /\ got[r] \cup lost[r] = start[r] .. (next[r] - 1)
        /\ got[r] \cap lost[r] = {}

\* The inductive invariant: the accounting needs the positions in order, and
\* the wakeup guarantee needs "behind the tail" for "ready or lagging".
BusInv ==
    /\ BusTypeOK
    /\ Positions
    /\ Ledger
    /\ LossOnlyByOverflow
    /\ SleeperIsNotified

-----------------------------------------------------------------------------
\* The ring: what is behind the tail is either kept or overwritten.
LEMMA RingFacts ==
    ASSUME NEW n \in Nat, NEW t \in Nat, NEW c \in Nat \ {0}
    PROVE  /\ Oldest(t, c) \in Nat
           /\ Oldest(t, c) <= t
           /\ t > 0 => Oldest(t, c) < t
           /\ IsReady(n, t, c) <=> Oldest(t, c) <= n /\ n < t
           /\ IsLagged(n, t, c) <=> n < Oldest(t, c)
           /\ \A i \in SkippedByLag(n, t, c) : i \in Nat /\ i + c < t
           /\ SkippedByLag(n, t, c) = n .. (Oldest(t, c) - 1)
  BY DEF Oldest, IsReady, IsLagged, SkippedByLag

\* Every state satisfies the type invariant of the bus.
THEOREM BusTypeCorrect == BusSpec => []BusTypeOK
<1>1. BusInit => BusTypeOK
  BY DEF BusInit, BusTypeOK, HandleState, ReaderState
<1>2. BusTypeOK /\ [BusNext]_busState => BusTypeOK'
  <2> SUFFICES ASSUME BusTypeOK, [BusNext]_busState PROVE BusTypeOK'
    OBVIOUS
  <2> USE CapacityAssumption DEF BusTypeOK, HandleState, ReaderState
  <2>1. ASSUME NEW p \in Publishers, PublisherStep(p) PROVE BusTypeOK'
    <3>1. CASE Send(p)
      BY <3>1 DEF Send, callVars, historyVars
    <3>2. CASE Notify(p)
      BY <3>2 DEF Notify, NotifyAll
    <3>3. CASE BeginDrop(p)
      BY <3>3 DEF BeginDrop, NotifyAll
    <3>4. CASE FinishDrop(p) \/ CloneHandle(p)
      BY <3>4 DEF FinishDrop, CloneHandle, callVars, historyVars
    <3> QED BY <2>1, <3>1, <3>2, <3>3, <3>4 DEF PublisherStep
  <2>2. ASSUME NEW r \in Readers, ReaderStep(r) PROVE BusTypeOK'
    <3> DEFINE Moves == Take(r) \/ SkipLag(r) \/ Nothing(r)
    <3>1. Moves => /\ next' \in [Readers -> Nat]
                   /\ start' \in [Readers -> Nat]
                   /\ got' \in [Readers -> SUBSET Nat]
                   /\ lost' \in [Readers -> SUBSET Nat]
      <4>1. CASE Take(r)
        BY <4>1 DEF Take
      <4>2. CASE SkipLag(r)
        <5>1. Oldest(tail, Capacity) \in Nat /\ SkippedByLag(next[r], tail, Capacity) \subseteq Nat
          BY RingFacts
        <5> QED BY <4>2, <5>1 DEF SkipLag
      <4>3. CASE Nothing(r)
        BY <4>3 DEF Nothing
      <4> QED BY <4>1, <4>2, <4>3
    <3>2. CASE Subscribe(r) \/ DropReader(r)
      BY <3>2 DEF Subscribe, DropReader, channelVars
    <3>3. CASE TryRecv(r)
      BY <3>1, <3>3 DEF TryRecv, channelVars, callVars
    <3>4. CASE \E t \in BOOLEAN : StartRecv(r, t)
      BY <3>4 DEF StartRecv, channelVars, historyVars
    <3>5. CASE Attempt(r)
      BY <3>1, <3>5 DEF Attempt, Return, WaitOrTimeout, channelVars
    <3>6. CASE FinalTry(r)
      BY <3>1, <3>6 DEF FinalTry, Return, channelVars
    <3>7. CASE Deadline(r) \/ SpuriousWake(r) \/ WaitTimesOut(r)
      BY <3>7 DEF Deadline, SpuriousWake, WaitTimesOut, channelVars, historyVars
    <3>8. CASE Park(r)
      <4>1. (Ready(r) \/ Lagging(r)) \in BOOLEAN
        BY DEF Ready, Lagging, IsReady, IsLagged
      <4> QED BY <3>8, <4>1 DEF Park, channelVars
    <3> QED BY <2>2, <3>2, <3>3, <3>4, <3>5, <3>6, <3>7, <3>8 DEF ReaderStep
  <2>3. CASE UNCHANGED busState
    BY <2>3 DEF busState
  <2> QED BY <2>1, <2>2, <2>3 DEF BusNext
<1> QED BY <1>1, <1>2, PTL DEF BusSpec

-----------------------------------------------------------------------------
(***************************************************************************)
(* The ways a step can touch a receiver.  Everything below is proved from  *)
(* this summary, not from the actions.                                     *)
(***************************************************************************)
Still(r) == /\ next'[r] = next[r] /\ start'[r] = start[r]
            /\ got'[r] = got[r] /\ lost'[r] = lost[r]
Takes(r) == /\ reader[r] # "absent" /\ reader'[r] # "absent"
            /\ Oldest(tail, Capacity) <= next[r] /\ next[r] < tail
            /\ next'[r] = next[r] + 1 /\ got'[r] = got[r] \cup {next[r]}
            /\ start'[r] = start[r] /\ lost'[r] = lost[r]
Skips(r) == /\ reader[r] # "absent" /\ reader'[r] # "absent"
            /\ next[r] < Oldest(tail, Capacity)
            /\ next'[r] = Oldest(tail, Capacity)
            /\ lost'[r] = lost[r] \cup (next[r] .. (Oldest(tail, Capacity) - 1))
            /\ start'[r] = start[r] /\ got'[r] = got[r]
Joins(r) == /\ reader[r] = "absent" /\ reader'[r] # "absent"
            /\ next'[r] = tail /\ start'[r] = tail
            /\ got'[r] = got[r] /\ lost'[r] = lost[r]
Leaves(r) == /\ reader[r] # "absent" /\ reader'[r] = "absent"
             /\ next'[r] = 0 /\ start'[r] = 0 /\ got'[r] = {} /\ lost'[r] = {}
Stays(r) == (reader'[r] = "absent") <=> (reader[r] = "absent")

\* A step of the bus is a send, or a move of one receiver, or neither.
SendStep ==
    /\ tail' = (IF \E r \in Readers : Subscribed(r) THEN tail + 1 ELSE tail)
    /\ \A r \in Readers : Still(r) /\ Stays(r)
ReceiverStep(r) ==
    /\ tail' = tail
    /\ \A q \in Readers \ {r} : Still(q) /\ Stays(q)
    /\ \/ Takes(r) \/ Skips(r) \/ Joins(r) \/ Leaves(r)
       \/ Still(r) /\ Stays(r)
SilentStep ==
    /\ tail' = tail
    /\ \A r \in Readers : Still(r) /\ Stays(r)

LEMMA StepCases ==
    ASSUME BusTypeOK, [BusNext]_busState
    PROVE  SendStep \/ SilentStep \/ \E r \in Readers : ReceiverStep(r)
<1> USE CapacityAssumption DEF BusTypeOK, HandleState, ReaderState
<1>1. ASSUME NEW p \in Publishers, PublisherStep(p) PROVE SendStep \/ SilentStep
  <2>1. CASE Send(p)
    BY <2>1 DEF Send, callVars, historyVars, SendStep, Still, Stays
  <2>2. CASE Notify(p) \/ BeginDrop(p)
    BY <2>2 DEF Notify, BeginDrop, NotifyAll, SilentStep, Still, Stays
  <2>3. CASE FinishDrop(p) \/ CloneHandle(p)
    BY <2>3 DEF FinishDrop, CloneHandle, callVars, historyVars, SilentStep, Still, Stays
  <2> QED BY <1>1, <2>1, <2>2, <2>3 DEF PublisherStep
<1>2. ASSUME NEW r \in Readers, ReaderStep(r) PROVE ReceiverStep(r)
  <2>0. next[r] \in Nat /\ tail \in Nat
    OBVIOUS
  <2>1. ASSUME Take(r) \/ SkipLag(r) \/ Nothing(r), tail' = tail,
               reader[r] # "absent", reader'[r] # "absent",
               \A q \in Readers \ {r} : reader'[q] = reader[q]
        PROVE  ReceiverStep(r)
    <3>1. CASE Take(r)
      <4>1. Oldest(tail, Capacity) <= next[r] /\ next[r] < tail
        BY <2>0, <3>1, RingFacts DEF Take, Ready
      <4>2. Takes(r) /\ \A q \in Readers \ {r} : Still(q) /\ Stays(q)
        BY <2>1, <3>1, <4>1 DEF Take, Takes, Still, Stays
      <4> QED BY <2>1, <4>2 DEF ReceiverStep
    <3>2. CASE SkipLag(r)
      <4>1. /\ next[r] < Oldest(tail, Capacity)
            /\ SkippedByLag(next[r], tail, Capacity) = next[r] .. (Oldest(tail, Capacity) - 1)
        BY <2>0, <3>2, RingFacts DEF SkipLag, Lagging
      <4>2. Skips(r) /\ \A q \in Readers \ {r} : Still(q) /\ Stays(q)
        BY <2>1, <3>2, <4>1 DEF SkipLag, Skips, Still, Stays
      <4> QED BY <2>1, <4>2 DEF ReceiverStep
    <3>3. CASE Nothing(r)
      BY <2>1, <3>3 DEF Nothing, ReceiverStep, Still, Stays
    <3> QED BY <2>1, <3>1, <3>2, <3>3
  <2>2. CASE Subscribe(r)
    BY <2>2 DEF Subscribe, channelVars, ReceiverStep, Joins, Still, Stays
  <2>3. CASE DropReader(r)
    BY <2>3 DEF DropReader, channelVars, ReceiverStep, Leaves, Still, Stays
  <2>4. CASE TryRecv(r)
    BY <2>1, <2>4 DEF TryRecv, channelVars, callVars
  <2>5. CASE Attempt(r)
    BY <2>1, <2>5 DEF Attempt, Return, WaitOrTimeout, channelVars
  <2>6. CASE FinalTry(r)
    BY <2>1, <2>6 DEF FinalTry, Return, channelVars
  <2>7. CASE \E t \in BOOLEAN : StartRecv(r, t)
    BY <2>7 DEF StartRecv, channelVars, historyVars, ReceiverStep, Still, Stays
  <2>8. CASE Deadline(r) \/ SpuriousWake(r) \/ WaitTimesOut(r) \/ Park(r)
    BY <2>8 DEF Deadline, SpuriousWake, WaitTimesOut, Park, channelVars, historyVars,
                ReceiverStep, Still, Stays
  <2> QED BY <1>2, <2>2, <2>3, <2>4, <2>5, <2>6, <2>7, <2>8 DEF ReaderStep
<1>3. CASE UNCHANGED busState
  BY <1>3 DEF busState, SilentStep, Still, Stays
<1> QED BY <1>1, <1>2, <1>3 DEF BusNext

-----------------------------------------------------------------------------
\* The ledger of one reader survives every way a step can touch it.
Book(r) ==
    /\ start[r] <= next[r] /\ next[r] <= tail
    /\ reader[r] = "absent" => start[r] = next[r] /\ got[r] = {} /\ lost[r] = {}
    /\ got[r] \cup lost[r] = start[r] .. (next[r] - 1)
    /\ got[r] \cap lost[r] = {}
    /\ \A i \in lost[r] : i + Capacity < tail

LEMMA BookKept ==
    ASSUME BusTypeOK, BusTypeOK', NEW r \in Readers, Book(r), tail <= tail',
           \/ Still(r) /\ Stays(r)
           \/ tail' = tail /\ (Takes(r) \/ Skips(r) \/ Joins(r) \/ Leaves(r))
    PROVE  Book(r)'
<1>0. /\ tail \in Nat /\ tail' \in Nat /\ Capacity \in Nat \ {0}
      /\ next[r] \in Nat /\ start[r] \in Nat
      /\ got[r] \subseteq Nat /\ lost[r] \subseteq Nat
  BY CapacityAssumption DEF BusTypeOK
<1>1. /\ Oldest(tail, Capacity) \in Nat
      /\ Oldest(tail, Capacity) <= tail
      /\ \A i \in SkippedByLag(next[r], tail, Capacity) : i + Capacity < tail
      /\ SkippedByLag(next[r], tail, Capacity) = next[r] .. (Oldest(tail, Capacity) - 1)
  <2>1. Oldest(tail, Capacity) \in Nat /\ Oldest(tail, Capacity) <= tail
    BY <1>0, RingFacts
  <2>2. SkippedByLag(next[r], tail, Capacity) = next[r] .. (Oldest(tail, Capacity) - 1)
    BY DEF SkippedByLag
  <2>3. ASSUME NEW i \in SkippedByLag(next[r], tail, Capacity) PROVE i + Capacity < tail
    BY <1>0, <2>3, RingFacts
  <2> QED BY <2>1, <2>2, <2>3
<1>2. CASE Still(r) /\ Stays(r)
  BY <1>0, <1>2 DEF Book, Still, Stays
<1>3. CASE tail' = tail /\ Takes(r)
  BY <1>0, <1>3 DEF Book, Takes
<1>4. CASE tail' = tail /\ Skips(r)
  BY <1>0, <1>1, <1>4 DEF Book, Skips
<1>5. CASE tail' = tail /\ Joins(r)
  BY <1>0, <1>5 DEF Book, Joins
<1>6. CASE tail' = tail /\ Leaves(r)
  BY <1>0, <1>6 DEF Book, Leaves
<1> QED BY <1>2, <1>3, <1>4, <1>5, <1>6

LEMMA InvIsBooks ==
    (\A r \in Readers : Book(r)) <=> Positions /\ Ledger /\ LossOnlyByOverflow
  BY DEF Book, Positions, Ledger, LossOnlyByOverflow

LEMMA BooksKept ==
    ASSUME BusTypeOK, BusTypeOK', [BusNext]_busState, \A r \in Readers : Book(r)
    PROVE  \A r \in Readers : Book(r)'
<1> SUFFICES ASSUME NEW r \in Readers PROVE Book(r)'
  OBVIOUS
<1>1. tail \in Nat
  BY DEF BusTypeOK
<1>2. SendStep \/ SilentStep \/ \E q \in Readers : ReceiverStep(q)
  BY StepCases
<1>3. CASE SendStep
  BY <1>1, <1>3, BookKept DEF SendStep
<1>4. CASE SilentStep
  BY <1>1, <1>4, BookKept DEF SilentStep
<1>5. ASSUME NEW q \in Readers, ReceiverStep(q) PROVE Book(r)'
  <2>1. tail' = tail /\ tail <= tail'
    BY <1>1, <1>5 DEF ReceiverStep
  <2>2. \/ Still(r) /\ Stays(r)
        \/ Takes(r) \/ Skips(r) \/ Joins(r) \/ Leaves(r)
    BY <1>5 DEF ReceiverStep
  <2> QED BY <2>1, <2>2, BookKept
<1> QED BY <1>2, <1>3, <1>4, <1>5

-----------------------------------------------------------------------------
\* The wakeup guarantee, action by action: only a send makes a sleeper's value
\* arrive, and then its publisher has yet to notify.
LEMMA SleepersKept ==
    ASSUME BusTypeOK, BusTypeOK', [BusNext]_busState, SleeperIsNotified, Positions, Positions'
    PROVE  SleeperIsNotified'
<1> DEFINE Asleep(r) == reader[r] = "waiting" /\ next[r] < tail /\ ~late[r]
           Noted == \E p \in Publishers : handle[p] = "sent"
<1>0. CapacityAssumption /\ tail \in Nat /\ tail' \in Nat
  BY CapacityAssumption DEF BusTypeOK
<1>1. SleeperIsNotified <=> \A r \in Readers : Asleep(r) => Noted
  <2>1. \A r \in Readers : Ready(r) \/ Lagging(r) <=> next[r] < tail
    <3> SUFFICES ASSUME NEW r \in Readers PROVE Ready(r) \/ Lagging(r) <=> next[r] < tail
      OBVIOUS
    <3>1. next[r] \in Nat /\ tail \in Nat /\ Capacity \in Nat \ {0}
      BY CapacityAssumption DEF BusTypeOK
    <3> QED BY <3>1 DEF Ready, Lagging, IsReady, IsLagged, Oldest
  <2> QED BY <2>1 DEF SleeperIsNotified
<1>2. SleeperIsNotified' <=> \A r \in Readers : Asleep(r)' => Noted'
  <2>1. \A r \in Readers : (Ready(r) \/ Lagging(r))' <=> next'[r] < tail'
    <3> SUFFICES ASSUME NEW r \in Readers PROVE (Ready(r) \/ Lagging(r))' <=> next'[r] < tail'
      OBVIOUS
    <3>1. next'[r] \in Nat /\ tail' \in Nat /\ Capacity \in Nat \ {0}
      BY CapacityAssumption DEF BusTypeOK
    <3> QED BY <3>1 DEF Ready, Lagging, IsReady, IsLagged, Oldest
  <2> QED BY <2>1 DEF SleeperIsNotified
<1>3. SUFFICES ASSUME NEW r \in Readers, Asleep(r)' PROVE Noted'
  BY <1>2
<1> USE DEF BusTypeOK
<1>4. ASSUME NEW p \in Publishers, PublisherStep(p) PROVE Noted'
  <2>1. CASE Send(p)
    BY <2>1 DEF Send
  <2>2. CASE Notify(p) \/ BeginDrop(p)
    BY <1>3, <2>2 DEF Notify, BeginDrop, NotifyAll
  <2>3. CASE FinishDrop(p)
    BY <1>1, <1>3, <2>3 DEF FinishDrop, callVars, historyVars
  <2>4. CASE CloneHandle(p)
    BY <1>1, <1>3, <2>4 DEF CloneHandle, callVars, historyVars
  <2> QED BY <1>4, <2>1, <2>2, <2>3, <2>4 DEF PublisherStep
<1>5. ASSUME NEW q \in Readers, ReaderStep(q) PROVE Noted'
  <2>1. handle' = handle /\ tail' = tail
    BY <1>5 DEF ReaderStep, Subscribe, DropReader, TryRecv, StartRecv, Deadline, Attempt,
                Park, SpuriousWake, WaitTimesOut, FinalTry, channelVars
  <2>2. CASE q # r
    <3>1. reader'[r] = reader[r] /\ next'[r] = next[r] /\ late'[r] = late[r]
      BY <1>5, <2>2 DEF ReaderStep, Subscribe, DropReader, TryRecv, StartRecv, Deadline,
            Attempt, Park, SpuriousWake, WaitTimesOut, FinalTry, Take, SkipLag, Nothing,
            Return, WaitOrTimeout, callVars, historyVars
    <3> QED BY <1>1, <1>3, <2>1, <3>1
  <2>3. CASE q = r /\ Park(r)
    <3>1. late'[r] = (Ready(r) \/ Lagging(r)) /\ next'[r] = next[r]
      BY <2>3 DEF Park
    <3>2. Ready(r) \/ Lagging(r)
      <4>1. next[r] \in Nat /\ tail \in Nat /\ Capacity \in Nat \ {0} /\ next[r] < tail
        BY <1>3, <2>1, <3>1, CapacityAssumption
      <4> QED BY <4>1 DEF Ready, Lagging, IsReady, IsLagged, Oldest
    <3> QED BY <1>3, <3>1, <3>2
  <2>4. CASE q = r /\ Deadline(r)
    BY <1>1, <1>3, <2>1, <2>4 DEF Deadline, historyVars
  <2>5. CASE q = r /\ ~Park(r) /\ ~Deadline(r)
    <3>1. reader'[r] # "waiting"
      BY <1>5, <2>5 DEF ReaderStep, Subscribe, DropReader, TryRecv, StartRecv, Attempt,
            SpuriousWake, WaitTimesOut, FinalTry, Return, WaitOrTimeout, callVars
    <3> QED BY <1>3, <3>1
  <2> QED BY <2>2, <2>3, <2>4, <2>5
<1>6. CASE UNCHANGED busState
  BY <1>1, <1>3, <1>6 DEF busState
<1> QED BY <1>4, <1>5, <1>6 DEF BusNext

-----------------------------------------------------------------------------
\* The invariant the safety properties follow from.
THEOREM BusInvariance == BusSpec => []BusInv
<1>1. BusInit => BusInv
  <2> SUFFICES ASSUME BusInit PROVE BusInv
    OBVIOUS
  <2>1. BusTypeOK
    BY DEF BusInit, BusTypeOK, HandleState, ReaderState
  <2>2. \A r \in Readers : Book(r)
    BY DEF BusInit, Book
  <2>3. SleeperIsNotified
    BY DEF BusInit, SleeperIsNotified
  <2> QED BY <2>1, <2>2, <2>3, InvIsBooks DEF BusInv
<1>2. BusTypeOK' /\ BusInv /\ [BusNext]_busState => BusInv'
  <2> SUFFICES ASSUME BusTypeOK', BusInv, [BusNext]_busState PROVE BusInv'
    OBVIOUS
  <2>1. \A r \in Readers : Book(r)
    BY InvIsBooks DEF BusInv
  <2>2. \A r \in Readers : Book(r)'
    BY <2>1, BooksKept DEF BusInv
  <2>3. Positions' /\ Ledger' /\ LossOnlyByOverflow'
    BY <2>2 DEF Book, Positions, Ledger, LossOnlyByOverflow
  <2>4. SleeperIsNotified'
    BY <2>3, SleepersKept DEF BusInv
  <2> QED BY <2>3, <2>4 DEF BusInv
<1> QED BY <1>1, <1>2, BusTypeCorrect, PTL DEF BusSpec

\* What a reader has been given and what it was told it lost are exactly what
\* was published to it so far; only what a full ring has overwritten is lost.
THEOREM NothingUnaccounted == BusSpec => []NothingVanishes
<1>1. BusInv => Accounted
  BY DEF BusInv, Ledger, Accounted
<1>2. BusInv => LossOnlyByOverflow
  BY DEF BusInv
<1>3. BusInv => NothingVanishes
  BY <1>1, <1>2 DEF NothingVanishes
<1> QED BY <1>3, BusInvariance, PTL

\* A reader asleep since before a value arrived is about to be notified.
THEOREM NoLostWakeup == BusSpec => []SleeperIsNotified
<1>1. BusInv => SleeperIsNotified
  BY DEF BusInv
<1> QED BY <1>1, BusInvariance, PTL

\* A reader sees values in the order of publication, each once.
THEOREM DeliveryInOrder == BusSpec => InOrder
<1>1. BusInv /\ [BusNext]_busState => [InOrderStep]_busState
  <2> SUFFICES ASSUME BusInv, [BusNext]_busState,
                      NEW r \in Readers, reader[r] # "absent",
                      NEW i \in got'[r] \ got[r], NEW j \in got[r] \cup lost[r]
               PROVE  j < i
    BY DEF InOrderStep
  <2>1. next[r] \in Nat /\ start[r] \in Nat /\ j < next[r]
    BY DEF BusInv, BusTypeOK, Ledger
  <2>2. i = next[r]
    BY StepCases DEF BusInv, SendStep, SilentStep, ReceiverStep, Still, Takes, Skips, Joins, Leaves
  <2> QED BY <2>1, <2>2
<1> QED BY <1>1, BusInvariance, PTL DEF InOrder, BusSpec

-----------------------------------------------------------------------------
\* The refinement: one reader's backlog, under each way a step can touch it.
BacklogOf(r) ==
    IF Subscribed(r) THEN {i \in next[r] .. (tail - 1) : i >= Oldest(tail, Capacity)} ELSE {}

LEMMA BacklogFacts ==
    ASSUME BusTypeOK, BusTypeOK', NEW r \in Readers, Book(r), tail <= tail'
    PROVE  /\ Still(r) /\ Stays(r) /\ tail' = tail => BacklogOf(r)' = BacklogOf(r)
           /\ Still(r) /\ Stays(r) /\ tail' = tail + 1 /\ Subscribed(r)
                => BacklogOf(r)' = {i \in BacklogOf(r) \cup {tail} : i + Capacity >= tail + 1}
           /\ ~Subscribed(r) /\ Stays(r) => BacklogOf(r)' = {} /\ BacklogOf(r) = {}
           /\ Skips(r) /\ tail' = tail => BacklogOf(r)' = BacklogOf(r)
           /\ Takes(r) /\ tail' = tail
                => /\ next[r] \in BacklogOf(r)
                   /\ \A j \in BacklogOf(r) : next[r] <= j
                   /\ BacklogOf(r)' = BacklogOf(r) \ {next[r]}
           /\ Joins(r) /\ tail' = tail => BacklogOf(r)' = {} /\ BacklogOf(r) = {}
           /\ Leaves(r) => BacklogOf(r)' = {}
<1>0. /\ tail \in Nat /\ tail' \in Nat /\ Capacity \in Nat \ {0}
      /\ next[r] \in Nat /\ next'[r] \in Nat
      /\ next[r] <= tail
  BY CapacityAssumption DEF BusTypeOK, Book
<1>1. Still(r) /\ Stays(r) /\ tail' = tail => BacklogOf(r)' = BacklogOf(r)
  BY DEF Still, Stays, BacklogOf, Subscribed
<1>2. ASSUME Still(r), Stays(r), tail' = tail + 1, Subscribed(r)
      PROVE  BacklogOf(r)' = {i \in BacklogOf(r) \cup {tail} : i + Capacity >= tail + 1}
  <2>1. BacklogOf(r)' = {i \in next[r] .. tail : i >= Oldest(tail + 1, Capacity)}
    BY <1>0, <1>2 DEF BacklogOf, Still, Stays, Subscribed
  <2>2. BacklogOf(r) = {i \in next[r] .. (tail - 1) : i >= Oldest(tail, Capacity)}
    BY <1>2 DEF BacklogOf
  <2>3. \A i \in Nat : i >= Oldest(tail + 1, Capacity) <=> i + Capacity >= tail + 1
    BY <1>0 DEF Oldest
  <2>4. \A i \in Nat : i >= Oldest(tail, Capacity) <=> i + Capacity >= tail
    BY <1>0 DEF Oldest
  <2> HIDE DEF BacklogOf
  <2>5. \A i : i \in BacklogOf(r)' <=> i \in Nat /\ next[r] <= i /\ i <= tail /\ i + Capacity >= tail + 1
    BY <1>0, <2>1, <2>3
  <2>6. \A i : i \in BacklogOf(r) <=> i \in Nat /\ next[r] <= i /\ i <= tail - 1 /\ i + Capacity >= tail
    BY <1>0, <2>2, <2>4
  <2> QED BY <1>0, <2>5, <2>6
<1>3. ~Subscribed(r) /\ Stays(r) => BacklogOf(r)' = {} /\ BacklogOf(r) = {}
  BY DEF BacklogOf, Stays, Subscribed
<1>4. Skips(r) /\ tail' = tail => BacklogOf(r)' = BacklogOf(r)
  <2>1. Oldest(tail, Capacity) \in Nat
    BY <1>0, RingFacts
  <2> QED BY <1>0, <2>1 DEF BacklogOf, Skips, Subscribed
<1>5. ASSUME Takes(r), tail' = tail
      PROVE  /\ next[r] \in BacklogOf(r)
             /\ \A j \in BacklogOf(r) : next[r] <= j
             /\ BacklogOf(r)' = BacklogOf(r) \ {next[r]}
  <2>1. Oldest(tail, Capacity) \in Nat
    BY <1>0, RingFacts
  <2> QED BY <1>0, <1>5, <2>1 DEF BacklogOf, Takes, Subscribed
<1>6. Joins(r) /\ tail' = tail => BacklogOf(r)' = {} /\ BacklogOf(r) = {}
  BY <1>0 DEF BacklogOf, Joins, Subscribed
<1>7. Leaves(r) => BacklogOf(r)' = {}
  BY DEF BacklogOf, Leaves, Subscribed
<1> QED BY <1>1, <1>2, <1>3, <1>4, <1>5, <1>6, <1>7

LEMMA FeedStep ==
    ASSUME BusInv, BusInv', [BusNext]_busState
    PROVE  [Feed!FeedNext]_(Feed!feedVars)
<1> DEFINE Same(q) == /\ BacklogOf(q)' = BacklogOf(q) /\ got'[q] = got[q]
                      /\ Subscribed(q)' = Subscribed(q)
<1>0. /\ BusTypeOK /\ BusTypeOK' /\ tail \in Nat
      /\ got \in [Readers -> SUBSET Nat] /\ got' \in [Readers -> SUBSET Nat]
      /\ \A q \in Readers : Book(q)
  BY InvIsBooks DEF BusInv, BusTypeOK
<1>1. /\ Backlog = [q \in Readers |-> BacklogOf(q)]
      /\ Backlog' = [q \in Readers |-> BacklogOf(q)']
      /\ SubscribedSet = {q \in Readers : Subscribed(q)}
      /\ SubscribedSet' = {q \in Readers : Subscribed(q)'}
  BY DEF Backlog, BacklogOf, SubscribedSet
<1> HIDE DEF BacklogOf
<1>2. ASSUME tail' = tail, \A q \in Readers : Same(q) PROVE UNCHANGED Feed!feedVars
  <2>1. Backlog' = Backlog /\ SubscribedSet' = SubscribedSet
    BY <1>1, <1>2
  <2>2. got' = got
    BY <1>0, <1>2
  <2> QED BY <1>2, <2>1, <2>2 DEF Feed!feedVars
<1>3. \A q \in Readers : Still(q) /\ Stays(q) /\ tail' = tail => Same(q)
  BY <1>0, BacklogFacts DEF Still, Stays, Subscribed
<1>4. CASE SilentStep
  BY <1>2, <1>3, <1>4 DEF SilentStep
<1>5. CASE SendStep /\ \A q \in Readers : ~Subscribed(q)
  BY <1>2, <1>3, <1>5 DEF SendStep
<1>6. CASE SendStep /\ \E q \in Readers : Subscribed(q)
  <2>1. tail' = tail + 1 /\ SubscribedSet # {} /\ SubscribedSet' = SubscribedSet /\ got' = got
    BY <1>0, <1>1, <1>6 DEF SendStep, Still, Stays, Subscribed
  <2>2. \A q \in Readers :
            BacklogOf(q)' = IF Subscribed(q)
                            THEN {i \in BacklogOf(q) \cup {tail} : i + Capacity >= tail + 1}
                            ELSE {}
    BY <1>0, <1>6, <2>1, BacklogFacts DEF SendStep
  <2>3. Backlog' = [q \in Readers |->
                        IF q \in SubscribedSet
                        THEN Feed!Newest(Backlog[q] \cup {tail}, tail + 1)
                        ELSE {}]
    BY <1>1, <2>2 DEF Feed!Newest
  <2>4. Feed!Publish
    BY <2>1, <2>3 DEF Feed!Publish
  <2> QED BY <2>4 DEF Feed!FeedNext
<1>7. ASSUME NEW r \in Readers, ReceiverStep(r) PROVE [Feed!FeedNext]_(Feed!feedVars)
  <2>1. tail' = tail /\ tail <= tail' /\ \A q \in Readers \ {r} : Same(q)
    BY <1>0, <1>3, <1>7 DEF ReceiverStep
  <2>2. CASE Takes(r)
    <3>1. /\ next[r] \in BacklogOf(r)
          /\ \A j \in BacklogOf(r) : next[r] <= j
          /\ BacklogOf(r)' = BacklogOf(r) \ {next[r]}
      BY <1>0, <2>1, <2>2, BacklogFacts
    <3>2. Backlog' = [Backlog EXCEPT ![r] = @ \ {next[r]}]
      BY <1>1, <2>1, <3>1
    <3>3. got' = [got EXCEPT ![r] = @ \cup {next[r]}]
      BY <1>0, <2>1, <2>2 DEF Takes
    <3>4. SubscribedSet' = SubscribedSet
      BY <1>1, <2>1, <2>2 DEF Takes, Subscribed
    <3>5. Feed!See(r)
      BY <1>1, <2>1, <3>1, <3>2, <3>3, <3>4 DEF Feed!See
    <3> QED BY <3>5 DEF Feed!FeedNext
  <2>3. CASE Skips(r)
    <3>1. Same(r)
      BY <1>0, <2>1, <2>3, BacklogFacts DEF Skips, Subscribed
    <3> QED BY <1>2, <2>1, <3>1
  <2>4. CASE Joins(r)
    <3>1. Backlog' = Backlog
      BY <1>0, <1>1, <2>1, <2>4, BacklogFacts
    <3>2. got' = got
      BY <1>0, <2>1, <2>4 DEF Joins
    <3>3. r \notin SubscribedSet /\ SubscribedSet' = SubscribedSet \cup {r}
      BY <1>1, <2>1, <2>4 DEF Joins, Subscribed
    <3>4. Feed!Join(r)
      BY <2>1, <3>1, <3>2, <3>3 DEF Feed!Join
    <3> QED BY <3>4 DEF Feed!FeedNext
  <2>5. CASE Leaves(r)
    <3>1. Backlog' = [Backlog EXCEPT ![r] = {}]
      BY <1>0, <1>1, <2>1, <2>5, BacklogFacts
    <3>2. got' = [got EXCEPT ![r] = {}]
      BY <1>0, <2>1, <2>5 DEF Leaves
    <3>3. r \in SubscribedSet /\ SubscribedSet' = SubscribedSet \ {r}
      BY <1>1, <2>1, <2>5 DEF Leaves, Subscribed
    <3>4. Feed!Leave(r)
      BY <2>1, <3>1, <3>2, <3>3 DEF Feed!Leave
    <3> QED BY <3>4 DEF Feed!FeedNext
  <2>6. CASE Still(r) /\ Stays(r)
    BY <1>2, <1>3, <2>1, <2>6
  <2> QED BY <1>7, <2>2, <2>3, <2>4, <2>5, <2>6 DEF ReceiverStep
<1> QED BY <1>0, <1>4, <1>5, <1>6, <1>7, StepCases

\* A bus whose readers fall behind and learn it late is, to each reader, a
\* private queue that drops its oldest value the moment it overflows.
THEOREM BusImplementsFeed == BusSpec => ImplementsFeed
<1>1. BusInit => Feed!FeedInit
  BY DEF BusInit, Feed!FeedInit, Backlog, SubscribedSet, Subscribed
<1>2. BusInv /\ BusInv' /\ [BusNext]_busState => [Feed!FeedNext]_(Feed!feedVars)
  BY FeedStep
<1> QED BY <1>1, <1>2, BusInvariance, PTL DEF ImplementsFeed, BusSpec, Feed!FeedSpec

-----------------------------------------------------------------------------
(* Part two: the agent session. *)

\* The types the actions share: what submitting, cancelling and publishing do.
LEMMA StartSessionType ==
    ASSUME TypeOK, NEW p \in Prompts, StartSession(p)
    PROVE  /\ running' \in BOOLEAN /\ flag' \in Prompts \cup {NoPrompt}
           /\ curSession' \in Sessions /\ minted' \in Nat
           /\ showResults' \in BOOLEAN /\ transcript' \in Transcript
           /\ submitted' \in Seq(Job)
<1> DEFINE s == IF curSession = NoSession THEN minted + 1 ELSE curSession
           j == [prompt |-> p, session |-> s, era |-> era]
<1>1. s \in Sessions /\ minted' \in Nat
  BY DEF TypeOK, StartSession, Sessions, NoSession
<1>2. j \in Job
  BY <1>1 DEF TypeOK, Job
<1>3. submitted' = Append(submitted, j)
  BY DEF StartSession
<1>4. submitted' \in Seq(Job)
  BY <1>2, <1>3, AppendProperties DEF TypeOK
<1>5. transcript' \in Transcript
  BY <1>1 DEF TypeOK, StartSession, Transcript
<1> QED BY <1>1, <1>4, <1>5 DEF StartSession

LEMMA CancelType ==
    ASSUME TypeOK, Cancel
    PROVE  cancelled' \subseteq Prompts /\ running' \in BOOLEAN
  BY DEF TypeOK, Cancel, NoPrompt

LEMMA PublishType ==
    ASSUME TypeOK, NEW kind \in {"Started", "Text", "Status", "Finished", "Failed"},
           Publish(kind)
    PROVE  events' \in Seq(Event) /\ lag' \in BOOLEAN /\ lostMilestone' \in BOOLEAN
<1> DEFINE e == [kind |-> kind, session |-> driver.job.session]
<1>1. e \in Event
  BY DEF TypeOK, Event, Job
<1>2. Append(events, e) \in Seq(Event)
  BY <1>1, AppendProperties DEF TypeOK
<1>3. CASE Len(events) < BusCapacity
  BY <1>2, <1>3 DEF Publish, TypeOK
<1>4. CASE ~(Len(events) < BusCapacity)
  <2>1. events # <<>>
    BY <1>4, BusCapacityAssumption DEF TypeOK
  <2>2. Tail(events) \in Seq(Event)
    BY <2>1, HeadTailProperties DEF TypeOK
  <2>3. Append(Tail(events), e) \in Seq(Event)
    BY <1>1, <2>2, AppendProperties
  <2> QED BY <1>4, <2>3 DEF Publish, TypeOK
<1> QED BY <1>3, <1>4

-----------------------------------------------------------------------------
\* Every state satisfies the type invariant of the session.
LEMMA UITypes ==
    ASSUME TypeOK, UIWork PROVE TypeOK'
<1>1. CASE DrainEvent
  <2> DEFINE e == Head(events)
  <2>1. e \in Event /\ Tail(events) \in Seq(Event)
    BY <1>1, HeadTailProperties DEF DrainEvent, TypeOK
  <2>2. /\ running' \in BOOLEAN /\ pending' \in Seq(Prompts)
        /\ nextPrompt' \in Prompts \cup {NoPrompt} /\ transcript' \in Transcript
    <3>1. CASE OnStarted(e.session)
      BY <2>1, <3>1 DEF OnStarted, TypeOK, Transcript, Event
    <3>2. CASE OnText(e.session)
      BY <2>1, <3>2 DEF OnText, TypeOK, Transcript, Event
    <3>3. CASE OnStatus
      BY <3>3 DEF OnStatus, TypeOK
    <3>4. CASE OnFinished
      BY <3>4, HeadTailProperties DEF OnFinished, TypeOK
    <3>5. CASE OnFailed
      BY <3>5, EmptySeq DEF OnFailed, TypeOK
    <3> QED BY <1>1, <3>1, <3>2, <3>3, <3>4, <3>5 DEF DrainEvent
  <2> QED BY <1>1, <2>1, <2>2 DEF DrainEvent, TypeOK, driverVars
<1>2. CASE DrainLagged
  BY <1>2 DEF DrainLagged, TypeOK, uiVars, driverVars
<1>3. CASE DrainDone
  <2>1. CASE nextPrompt = NoPrompt
    BY <1>3, <2>1 DEF DrainDone, TypeOK, sessionVars, busVars, driverVars
  <2>2. CASE nextPrompt # NoPrompt
    <3>1. nextPrompt \in Prompts /\ StartSession(nextPrompt)
      BY <1>3, <2>2 DEF DrainDone, TypeOK
    <3> QED BY <1>3, <3>1, StartSessionType DEF DrainDone, TypeOK, busVars, driverVars
  <2> QED BY <2>1, <2>2
<1>4. ASSUME NEW kind, NextCommand(kind)
      PROVE  Head(commands) \in Command /\ Head(commands).kind = kind /\ commands' \in Seq(Command)
  BY <1>4, HeadTailProperties DEF NextCommand, TypeOK
<1>5. CASE ApplyRun
  <2>1. Head(commands).prompt \in Prompts /\ commands' \in Seq(Command)
    BY <1>4, <1>5 DEF ApplyRun, Command
  <2> QED BY <1>5, <2>1, StartSessionType DEF ApplyRun, TypeOK, busVars, driverVars
<1>6. CASE ApplyQueue
  <2>1. Head(commands).prompt \in Prompts /\ commands' \in Seq(Command)
    BY <1>4, <1>6 DEF ApplyQueue, Command
  <2>2. pending' \in Seq(Prompts)
    <3>1. pending \in Seq(Prompts) /\ pending' = Append(pending, Head(commands).prompt)
      BY <1>6 DEF ApplyQueue, TypeOK
    <3> HIDE DEF Prompts
    <3> QED BY <2>1, <3>1, AppendProperties
  <2>3. UNCHANGED <<phase, running, nextPrompt, sessionVars, submitted, cancelled, busVars,
                    driverVars, typed, minted, era>>
    BY <1>6 DEF ApplyQueue
  <2> QED BY <2>1, <2>2, <2>3 DEF TypeOK, sessionVars, busVars, driverVars
<1>7. CASE ApplyCancel
  <2>1. commands' \in Seq(Command)
    BY <1>4, <1>7 DEF ApplyCancel
  <2>2. cancelled' \subseteq Prompts /\ running' \in BOOLEAN
    BY <1>7, CancelType DEF ApplyCancel
  <2>3. UNCHANGED <<phase, pending, nextPrompt, sessionVars, submitted, busVars, driverVars,
                    typed, minted, era>>
    BY <1>7 DEF ApplyCancel
  <2> QED BY <2>1, <2>2, <2>3 DEF TypeOK, sessionVars, busVars, driverVars
<1>8. CASE ApplyClear
  <2>1. cancelled' \subseteq Prompts /\ running' \in BOOLEAN
    BY <1>8, CancelType DEF ApplyClear, TypeOK
  <2>2. transcript' \in Transcript /\ curSession' \in Sessions \cup {NoSession} /\ era' \in Nat
    <3>1. transcript' = [transcript EXCEPT !.text = {}] /\ transcript \in Transcript
      BY <1>8 DEF ApplyClear, TypeOK
    <3>2. transcript' \in Transcript
      BY <3>1 DEF Transcript
    <3> QED BY <1>8, <3>2 DEF ApplyClear, TypeOK
  <2> QED BY <1>4, <1>8, <2>1, <2>2 DEF ApplyClear, TypeOK, busVars, driverVars
<1>9. CASE CommandsDone \/ EndFrame \/ Joined
  BY <1>9 DEF CommandsDone, EndFrame, Joined, TypeOK, sessionVars, busVars, driverVars
<1> QED BY <1>1, <1>2, <1>3, <1>5, <1>6, <1>7, <1>8, <1>9 DEF UIWork

LEMMA UserTypes ==
    ASSUME TypeOK, User PROVE TypeOK'
<1>1. ASSUME NEW k, NEW p, [kind |-> k, prompt |-> p] \in Command, Click(k, p),
             typed' \in 0 .. MaxPrompts
      PROVE  TypeOK'
  <2>1. commands' \in Seq(Command)
    BY <1>1, AppendProperties DEF Click, TypeOK
  <2> QED BY <1>1, <2>1 DEF Click, TypeOK, uiVars, busVars, driverVars
<1>2. CASE ClickStop
  BY <1>1, <1>2 DEF ClickStop, Command, TypeOK
<1>3. CASE SubmitPrompt
  <2>1. typed + 1 \in Prompts /\ typed' \in 0 .. MaxPrompts
    BY <1>3, MaxPromptsAssumption DEF SubmitPrompt, TypeOK, Prompts
  <2>2. [kind |-> IF running THEN "Queue" ELSE "Run", prompt |-> typed + 1] \in Command
    BY <2>1 DEF Command
  <2> QED BY <1>1, <1>3, <2>1, <2>2 DEF SubmitPrompt
<1>4. CASE ClickSkill
  <2>1. typed + 1 \in Prompts /\ typed' \in 0 .. MaxPrompts
    BY <1>4, MaxPromptsAssumption DEF ClickSkill, TypeOK, Prompts
  <2>2. [kind |-> "Skill", prompt |-> typed + 1] \in Command
    BY <2>1 DEF Command
  <2> QED BY <1>1, <1>4, <2>1, <2>2 DEF ClickSkill
<1>5. CASE ClickClose
  BY <1>1, <1>5 DEF ClickClose, Command, TypeOK
<1>6. CASE CloseWindow
  BY <1>6 DEF CloseWindow, TypeOK, sessionVars, busVars, driverVars
<1> QED BY <1>2, <1>3, <1>4, <1>5, <1>6 DEF User

LEMMA DriverTypes ==
    ASSUME TypeOK, Driver PROVE TypeOK'
<1>1. driver.job \in Job /\ driver.job.prompt \in Prompts /\ driver.at \in DriverAt
  BY DEF TypeOK, Job
<1>2. CASE TakePrompt
  <2>1. Head(submitted) \in Job /\ submitted' \in Seq(Job)
    BY <1>2, HeadTailProperties DEF TakePrompt, TypeOK
  <2> QED BY <1>2, <2>1 DEF TakePrompt, DriverOnly, TypeOK, DriverAt, uiVars, busVars
<1> DEFINE Quiet == UNCHANGED busVars
           Says == \E kind \in {"Started", "Text", "Status", "Finished", "Failed"} : Publish(kind)
<1>3. ASSUME DriverOnly, Quiet \/ Says, NEW at \in DriverAt, GoTo(at),
             UNCHANGED submitted, history' \in SUBSET Job, ended' \subseteq Prompts
      PROVE  TypeOK'
  <2>1. events' \in Seq(Event) /\ lag' \in BOOLEAN /\ lostMilestone' \in BOOLEAN
    <3>1. CASE Quiet
      BY <3>1 DEF busVars, TypeOK
    <3>2. CASE Says
      BY <3>2, PublishType
    <3> QED BY <1>3, <3>1, <3>2
  <2>2. driver' \in [at : DriverAt, job : Job]
    BY <1>3 DEF GoTo, TypeOK
  <2> QED BY <1>3, <2>1, <2>2 DEF DriverOnly, TypeOK, uiVars
<1>4. history \in SUBSET Job /\ ended \subseteq Prompts
      /\ history \cup {driver.job} \in SUBSET Job /\ ended \cup {driver.job.prompt} \subseteq Prompts
  BY <1>1 DEF TypeOK
<1>5. CASE DriverExits
  BY <1>3, <1>4, <1>5 DEF DriverExits, DriverAt
<1>6. CASE ResolveFails \/ FinishFailedRun \/ DriverPanics
  BY <1>3, <1>4, <1>6 DEF ResolveFails, FinishFailedRun, DriverPanics, DriverAt
<1>7. CASE BeginRun \/ TurnFails \/ RunTools
  BY <1>3, <1>4, <1>7 DEF BeginRun, TurnFails, RunTools, DriverAt
<1>8. CASE LoopTest \/ CloseRun
  BY <1>3, <1>4, <1>8 DEF LoopTest, CloseRun, DriverAt
<1>9. CASE TurnAnswers
  BY <1>3, <1>4, <1>9 DEF TurnAnswers, DriverAt
<1>10. CASE FinishRun
  BY <1>3, <1>4, <1>10 DEF FinishRun, DriverAt
<1> QED BY <1>2, <1>5, <1>6, <1>7, <1>8, <1>9, <1>10 DEF Driver

THEOREM TypeCorrect == Spec => []TypeOK
<1>1. Init => TypeOK
  <2> SUFFICES ASSUME Init PROVE TypeOK
    OBVIOUS
  <2>1. [prompt |-> 1, session |-> 1, era |-> 0] \in Job
    BY MaxPromptsAssumption DEF Job, Prompts, Sessions
  <2>2. /\ \A S : <<>> \in Seq(S)
        /\ 0 \in 0 .. MaxPrompts
    BY EmptySeq, MaxPromptsAssumption
  <2> QED BY <2>1, <2>2 DEF Init, TypeOK, DriverAt, Transcript
<1>2. TypeOK /\ [Next]_vars => TypeOK'
  <2>1. TypeOK /\ UNCHANGED vars => TypeOK'
    BY DEF TypeOK, vars
  <2> QED BY <2>1, UITypes, UserTypes, DriverTypes DEF Next
<1> QED BY <1>1, <1>2, PTL DEF Spec

-----------------------------------------------------------------------------
(***************************************************************************)
(* What the bus does to the events in flight.                              *)
(***************************************************************************)

\* Publishing keeps every event in flight, one place earlier if the ring was
\* full, except the oldest then; and adds one event.
LEMMA PublishKeeps ==
    ASSUME TypeOK, NEW kind, Publish(kind)
    PROVE  \E d \in {0, 1} :
            /\ d = 1 => /\ events # <<>>
                        /\ lostMilestone' = (lostMilestone \/ Head(events).kind \notin {"Text", "Status"})
            /\ d = 0 => lostMilestone' = lostMilestone
            /\ Len(events') = Len(events) - d + 1
            /\ DOMAIN events' = 1 .. Len(events')
            /\ \A i \in DOMAIN events : i > d => events'[i - d] = events[i]
            /\ events'[Len(events')] = [kind |-> kind, session |-> driver.job.session]
<1> DEFINE e == [kind |-> kind, session |-> driver.job.session]
<1>1. events \in Seq(Event) /\ Len(events) \in Nat /\ DOMAIN events = 1 .. Len(events)
  BY DEF TypeOK
<1>2. CASE Len(events) < BusCapacity
  <2>1. events' = Append(events, e) /\ lostMilestone' = lostMilestone
    BY <1>2 DEF Publish
  <2>2. events \in Seq(Event \cup {e}) /\ e \in Event \cup {e}
    BY <1>1
  <2>3. /\ Len(events') = Len(events) + 1
        /\ \A i \in 1 .. Len(events) : events'[i] = events[i]
        /\ events'[Len(events) + 1] = e
        /\ DOMAIN events' = 1 .. Len(events')
    BY <2>1, <2>2, <1>1, AppendProperties
  <2> WITNESS 0 \in {0, 1}
  <2> QED BY <1>1, <2>1, <2>3
<1>3. CASE ~(Len(events) < BusCapacity)
  <2> DEFINE rest == Tail(events)
             last == Len(events)
  <2>1. events # <<>> /\ last > 0 /\ last \in Nat
    BY <1>1, <1>3, BusCapacityAssumption
  <2>2. events' = Append(rest, e)
        /\ lostMilestone' = (lostMilestone \/ Head(events).kind \notin {"Text", "Status"})
    BY <1>3 DEF Publish
  <2>3. /\ rest \in Seq(Event)
        /\ Len(rest) = last - 1
        /\ \A i \in 1 .. Len(rest) : rest[i] = events[i + 1]
    BY <1>1, <2>1, HeadTailProperties
  <2> HIDE DEF rest, last
  <2>4. rest \in Seq(Event \cup {e}) /\ e \in Event \cup {e}
    BY <2>3
  <2>5. \A i \in 1 .. last - 1 : events'[i] = rest[i]
    BY <2>1, <2>2, <2>3, <2>4, AppendProperties
  <2>11. Len(events') = last /\ events'[last] = e /\ DOMAIN events' = 1 .. last
    BY <2>1, <2>2, <2>3, <2>4, AppendProperties
  <2>6. DOMAIN events = 1 .. last
    BY <1>1 DEF last
  <2>7. \A i \in DOMAIN events : i > 1 => events'[i - 1] = events[i]
    <3> SUFFICES ASSUME NEW i \in 1 .. last, i > 1
                 PROVE  events'[i - 1] = events[i]
      BY <2>6
    <3> DEFINE k == i - 1
    <3>1. last \in Nat /\ Len(rest) = last - 1
      BY <2>1, <2>3
    <3>2. k \in 1 .. last - 1 /\ k + 1 = i
      BY <3>1
    <3> HIDE DEF k
    <3>3. rest[k] = events[k + 1]
      BY <2>3, <3>1, <3>2, Zenon
    <3>4. events'[k] = rest[k]
      BY <2>5, <3>2
    <3> QED BY <3>2, <3>3, <3>4 DEF k
  <2> WITNESS 1 \in {0, 1}
  <2>8. Len(events') = Len(events) - 1 + 1 /\ DOMAIN events' = 1 .. Len(events')
    BY <2>1, <2>11 DEF last
  <2>9. events'[Len(events')] = e
    BY <2>11
  <2> QED BY <2>1, <2>2, <2>7, <2>8, <2>9
<1> QED BY <1>2, <1>3

\* Draining moves every event but the first one place forward.
LEMMA DrainKeeps ==
    ASSUME TypeOK, DrainEvent
    PROVE  /\ Head(events) = events[1] /\ Head(events) \in Event
           /\ 1 \in DOMAIN events
           /\ DOMAIN events' = 1 .. (Len(events) - 1)
           /\ DOMAIN events = 1 .. Len(events) /\ Len(events) \in Nat
           /\ \A i \in DOMAIN events' : events'[i] = events[i + 1]
<1>1. events \in Seq(Event) /\ events # <<>> /\ events' = Tail(events)
  BY DEF TypeOK, DrainEvent
<1>2. Len(events) \in Nat /\ Len(events) > 0 /\ DOMAIN events = 1 .. Len(events)
  BY <1>1, EmptySeq
<1>3. /\ Tail(events) \in Seq(Event)
      /\ Len(Tail(events)) = Len(events) - 1
      /\ \A i \in 1 .. Len(Tail(events)) : Tail(events)[i] = events[i + 1]
      /\ Head(events) = events[1] /\ Head(events) \in Event
  BY <1>1, <1>2, HeadTailProperties
<1>4. DOMAIN Tail(events) = 1 .. Len(Tail(events))
  BY <1>3
<1> QED BY <1>1, <1>2, <1>3, <1>4

\* The steps that neither publish nor drain.
LEMMA QuietSteps ==
    ASSUME UIWork \/ User, ~DrainEvent
    PROVE  UNCHANGED <<events, lostMilestone, driver, history, ended>>
  BY DEF UIWork, User, DrainLagged, DrainDone, ApplyRun, ApplyQueue, ApplyCancel, ApplyClear,
         CommandsDone, EndFrame, Joined, ClickStop, SubmitPrompt, ClickSkill, ClickClose, CloseWindow,
         Click, busVars, driverVars

-----------------------------------------------------------------------------
(***************************************************************************)
(* RunningIsBacked is inductive, given the types.                          *)
(***************************************************************************)

LEMMA PublishKeepsEnd ==
    ASSUME TypeOK, NEW kind, Publish(kind), ~lostMilestone',
           EndInFlight \/ kind \in {"Finished", "Failed"}
    PROVE  EndInFlight'
<1>1. PICK d \in {0, 1} :
            /\ d = 1 => /\ events # <<>>
                        /\ lostMilestone' = (lostMilestone \/ Head(events).kind \notin {"Text", "Status"})
            /\ d = 0 => lostMilestone' = lostMilestone
            /\ Len(events') = Len(events) - d + 1
            /\ DOMAIN events' = 1 .. Len(events')
            /\ \A i \in DOMAIN events : i > d => events'[i - d] = events[i]
            /\ events'[Len(events')] = [kind |-> kind, session |-> driver.job.session]
  BY PublishKeeps
<1>2. events \in Seq(Event) /\ Len(events) \in Nat /\ DOMAIN events = 1 .. Len(events)
  BY DEF TypeOK
<1>3. d = 1 => Len(events) > 0 /\ Head(events) = events[1]
  BY <1>1, <1>2, HeadTailProperties, EmptySeq
<1>4. CASE kind \in {"Finished", "Failed"}
  <2>1. Len(events') \in DOMAIN events'
    BY <1>1, <1>2, <1>3
  <2>2. EndsRun(events'[Len(events')])
    BY <1>1, <1>4 DEF EndsRun
  <2> QED BY <2>1, <2>2 DEF EndInFlight, EndsRun
<1>5. CASE EndInFlight
  <2>1. PICK i \in DOMAIN events : EndsRun(events[i])
    BY <1>5 DEF EndInFlight
  <2>2. d = 1 => Head(events).kind \in {"Text", "Status"}
    BY <1>1 DEF TypeOK
  <2>3. d = 1 => i # 1
    BY <1>3, <2>1, <2>2 DEF EndsRun
  <2>4. i > d
    BY <1>2, <2>1, <2>3
  <2>5. i - d \in DOMAIN events' /\ events'[i - d] = events[i]
    BY <1>1, <1>2, <2>4
  <2> QED BY <2>1, <2>5 DEF EndInFlight, EndsRun
<1> QED BY <1>4, <1>5

\* Draining an event that ends no run loses no event that does.
LEMMA DrainKeepsEnd ==
    ASSUME TypeOK, DrainEvent, EndInFlight, ~EndsRun(Head(events))
    PROVE  EndInFlight'
<1>1. PICK i \in DOMAIN events : EndsRun(events[i])
  BY DEF EndInFlight
<1>2. i # 1 /\ i - 1 \in DOMAIN events' /\ events'[i - 1] = events[i]
  BY <1>1, DrainKeeps
<1> QED BY <1>1, <1>2 DEF EndInFlight, EndsRun

\* A submission is there when StartSession is done.
LEMMA StartSessionSubmits ==
    ASSUME TypeOK, NEW p, StartSession(p)
    PROVE  submitted' # <<>>
<1> DEFINE s == IF curSession = NoSession THEN minted + 1 ELSE curSession
           j == [prompt |-> p, session |-> s, era |-> era]
<1>1. submitted' = Append(submitted, j) /\ submitted \in Seq(Job \cup {j}) /\ j \in Job \cup {j}
  BY DEF StartSession, TypeOK
<1> QED BY <1>1, AppendProperties

LEMMA RunningStaysBacked ==
    ASSUME TypeOK, TypeOK', RunningIsBacked, [Next]_vars
    PROVE  RunningIsBacked'
<1> SUFFICES ASSUME running', UIAlive', ~lostMilestone', driver'.at # "gone"
             PROVE  submitted' # <<>> \/ DriverBusy' \/ EndInFlight'
  BY DEF RunningIsBacked
<1> DEFINE Backed == submitted # <<>> \/ DriverBusy \/ EndInFlight
<1>1. CASE UNCHANGED vars
  BY <1>1 DEF vars, RunningIsBacked, UIAlive, DriverBusy, EndInFlight
<1>2. CASE DrainEvent
  <2>1. ~EndsRun(Head(events)) /\ running
    BY <1>2 DEF DrainEvent, EndsRun, OnStarted, OnText, OnStatus, OnFinished, OnFailed
  <2>2. Backed /\ UNCHANGED <<submitted, driver>>
    BY <1>2, <2>1 DEF RunningIsBacked, DrainEvent, UIAlive, driverVars
  <2> QED BY <1>2, <2>1, <2>2, DrainKeepsEnd DEF DriverBusy
<1>3. CASE DrainDone \/ ApplyRun
  <2>1. CASE \E p : StartSession(p)
    BY <2>1, StartSessionSubmits
  <2>2. CASE UNCHANGED <<running, submitted>> /\ DrainDone
    BY <2>2 DEF DrainDone, RunningIsBacked, UIAlive, DriverBusy, EndInFlight, busVars, driverVars
  <2> QED BY <1>3, <2>1, <2>2 DEF DrainDone, ApplyRun
<1>4. CASE ApplyCancel \/ ApplyClear
  <2>1. running /\ UNCHANGED <<submitted, phase>>
    BY <1>4 DEF ApplyCancel, ApplyClear, Cancel
  <2> QED BY <1>4, <2>1, QuietSteps DEF ApplyCancel, ApplyClear, RunningIsBacked, UIAlive, DriverBusy,
             EndInFlight, busVars, driverVars
<1>5. CASE DrainLagged \/ ApplyQueue \/ CommandsDone \/ EndFrame \/ Joined \/ User
  <2>1. UNCHANGED <<running, submitted, events, driver, lostMilestone>>
    BY <1>5 DEF DrainLagged, ApplyQueue, CommandsDone, EndFrame, Joined, User, ClickStop, SubmitPrompt,
       ClickSkill, ClickClose, CloseWindow, Click, uiVars, busVars, driverVars, sessionVars
  <2>2. UIAlive
    BY <1>5 DEF DrainLagged, ApplyQueue, CommandsDone, EndFrame, Joined, User, ClickStop, SubmitPrompt,
       ClickSkill, ClickClose, CloseWindow, Click, uiVars, UIAlive, NextCommand
  <2> QED BY <2>1, <2>2 DEF RunningIsBacked, DriverBusy, EndInFlight
<1>6. CASE Driver
  <2>1. running /\ UIAlive /\ UNCHANGED phase
    BY <1>6 DEF Driver, TakePrompt, DriverExits, ResolveFails, BeginRun, LoopTest, TurnFails, TurnAnswers,
       RunTools, CloseRun, FinishRun, FinishFailedRun, DriverPanics, DriverOnly, uiVars, UIAlive
  <2>2. CASE TakePrompt
    BY <2>2 DEF TakePrompt, DriverBusy
  <2>3. CASE DriverExits
    BY <2>1, <2>3 DEF DriverExits, UIAlive
  <2>p. CASE DriverPanics
    BY <2>p DEF DriverPanics, GoTo, TypeOK
  <2>4. CASE ResolveFails \/ FinishRun \/ FinishFailedRun
    BY <2>4, PublishKeepsEnd DEF ResolveFails, FinishRun, FinishFailedRun
  <2>5. CASE BeginRun \/ LoopTest \/ TurnFails \/ TurnAnswers \/ RunTools \/ CloseRun
    BY <2>5 DEF BeginRun, LoopTest, TurnFails, TurnAnswers, RunTools, CloseRun, GoTo, DriverBusy, TypeOK
  <2> QED BY <1>6, <2>2, <2>3, <2>4, <2>5, <2>p DEF Driver
<1> QED BY <1>1, <1>2, <1>3, <1>4, <1>5, <1>6 DEF Next, UIWork

LEMMA TypeStep == TypeOK /\ [Next]_vars => TypeOK'
<1>1. TypeOK /\ UNCHANGED vars => TypeOK'
  BY DEF TypeOK, vars
<1> QED BY <1>1, UITypes, UserTypes, DriverTypes DEF Next

THEOREM RunningHasABacking == Spec => []RunningIsBacked
<1>1. Init => RunningIsBacked
  BY DEF Init, RunningIsBacked
<1>2. TypeOK /\ TypeOK' /\ RunningIsBacked /\ [Next]_vars => RunningIsBacked'
  BY RunningStaysBacked
<1> QED BY <1>1, <1>2, TypeCorrect, PTL DEF Spec

-----------------------------------------------------------------------------
(***************************************************************************)
(* TranscriptText is inductive as it stands.                               *)
(***************************************************************************)

LEMMA TranscriptTextStep ==
    ASSUME TypeOK, TranscriptText, [Next]_vars
    PROVE  TranscriptText'
<1> USE DEF TypeOK, Transcript, TranscriptText
<1>1. CASE DrainEvent
  <2>1. curSession' = curSession
    BY <1>1 DEF DrainEvent
  <2>2. \/ UNCHANGED transcript
        \/ \E s : OnStarted(s)
        \/ \E s : OnText(s)
    BY <1>1 DEF DrainEvent, OnStatus, OnFinished, OnFailed
  <2>3. ASSUME NEW s, OnStarted(s) PROVE TranscriptText'
    BY <2>1, <2>3 DEF OnStarted
  <2>4. ASSUME NEW s, OnText(s) PROVE TranscriptText'
    BY <2>1, <2>4 DEF OnText
  <2> QED BY <2>1, <2>2, <2>3, <2>4
<1>2. ASSUME NEW p, StartSession(p) PROVE TranscriptText'
  BY <1>2 DEF StartSession, NoSession
<1>3. CASE ApplyClear
  BY <1>3 DEF ApplyClear
<1>4. CASE ApplyRun \/ DrainDone
  BY <1>2, <1>4 DEF ApplyRun, DrainDone, sessionVars
<1>5. CASE DrainLagged \/ ApplyQueue \/ ApplyCancel \/ CommandsDone \/ EndFrame \/ Joined \/ User
           \/ Driver \/ UNCHANGED vars
  <2> UNCHANGED <<transcript, curSession>>
    BY <1>5 DEF DrainLagged, ApplyQueue, ApplyCancel, CommandsDone, EndFrame, Joined, User, ClickStop,
       SubmitPrompt, ClickSkill, ClickClose, CloseWindow, Click, uiVars, sessionVars, vars, Driver, TakePrompt,
       DriverExits, ResolveFails, BeginRun, LoopTest, TurnFails, TurnAnswers, RunTools, CloseRun,
       FinishRun, FinishFailedRun, DriverPanics, DriverOnly
  <2> QED OBVIOUS
<1> QED BY <1>1, <1>3, <1>4, <1>5 DEF Next, UIWork

\* The transcript never mixes sessions, whatever comes late.
THEOREM TranscriptIsOfOneSession == Spec => []TranscriptText
<1>1. Init => TranscriptText
  BY DEF Init, TranscriptText
<1>2. TypeOK /\ TranscriptText /\ [Next]_vars => TranscriptText'
  BY TranscriptTextStep
<1> QED BY <1>1, <1>2, TypeCorrect, PTL DEF Spec

-----------------------------------------------------------------------------
(***************************************************************************)
(* TranscriptFollowsDriver needs the runs whose start is still in flight:  *)
(* the last start in flight is the one of the run in progress.             *)
(***************************************************************************)

LastStartIs(s) ==
    \E i \in DOMAIN events :
        /\ events[i].kind = "Started" /\ events[i].session = s
        /\ \A j \in DOMAIN events : j > i => events[j].kind # "Started"

StartOfRunIsLast ==
    \A s : RunHasStarted /\ ~lostMilestone /\ driver.job.session = s =>
        \/ ~StartInFlight /\ transcript.session = s
        \/ LastStartIs(s)

LEMMA PublishKeepsLastStart ==
    ASSUME TypeOK, NEW kind, Publish(kind), ~lostMilestone', NEW s
    PROVE  /\ kind = "Started" /\ s = driver.job.session => LastStartIs(s)'
           /\ kind # "Started" /\ LastStartIs(s) => LastStartIs(s)'
           /\ kind # "Started" /\ ~StartInFlight => ~StartInFlight'
<1>1. PICK d \in {0, 1} :
            /\ d = 1 => /\ events # <<>>
                        /\ lostMilestone' = (lostMilestone \/ Head(events).kind \notin {"Text", "Status"})
            /\ d = 0 => lostMilestone' = lostMilestone
            /\ Len(events') = Len(events) - d + 1
            /\ DOMAIN events' = 1 .. Len(events')
            /\ \A i \in DOMAIN events : i > d => events'[i - d] = events[i]
            /\ events'[Len(events')] = [kind |-> kind, session |-> driver.job.session]
  BY PublishKeeps
<1> DEFINE n == Len(events')
<1>2. events \in Seq(Event) /\ Len(events) \in Nat /\ DOMAIN events = 1 .. Len(events)
  BY DEF TypeOK
<1>3. d = 1 => Len(events) > 0 /\ Head(events) = events[1]
  BY <1>1, <1>2, HeadTailProperties, EmptySeq
<1>4. d = 1 => events[1].kind # "Started"
  BY <1>1, <1>3 DEF TypeOK
<1>5. n \in DOMAIN events' /\ n \in Nat /\ events'[n].kind = kind
  BY <1>1, <1>2, <1>3
<1>6. \A j \in DOMAIN events' : j # n => /\ j + d \in DOMAIN events
                                         /\ events'[j] = events[j + d]
  <2> TAKE j \in DOMAIN events'
  <2> HAVE j # n
  <2>1. j + d \in DOMAIN events /\ j + d > d /\ (j + d) - d = j
    BY <1>1, <1>2, <1>5
  <2> QED BY <1>1, <2>1
<1>7. ASSUME kind = "Started", s = driver.job.session PROVE LastStartIs(s)'
  <2>1. events'[n].kind = "Started" /\ events'[n].session = s
    BY <1>1, <1>7
  <2>2. \A j \in DOMAIN events' : ~(j > n)
    BY <1>1, <1>5
  <2> QED BY <1>5, <2>1, <2>2 DEF LastStartIs
<1>8. ASSUME kind # "Started", LastStartIs(s) PROVE LastStartIs(s)'
  <2>1. PICK i \in DOMAIN events :
            /\ events[i].kind = "Started" /\ events[i].session = s
            /\ \A j \in DOMAIN events : j > i => events[j].kind # "Started"
    BY <1>8 DEF LastStartIs
  <2>2. i > d
    BY <1>2, <1>4, <2>1
  <2>3. i - d \in DOMAIN events' /\ events'[i - d] = events[i]
    BY <1>1, <1>2, <2>2
  <2>4. \A j \in DOMAIN events' : j > i - d => events'[j].kind # "Started"
    <3> SUFFICES ASSUME NEW j \in DOMAIN events', j > i - d, j # n
                 PROVE  events'[j].kind # "Started"
      BY <1>5, <1>8
    <3>1. j + d \in DOMAIN events /\ events'[j] = events[j + d]
      BY <1>6
    <3>2. j + d > i
      BY <1>1, <1>2
    <3> QED BY <2>1, <3>1, <3>2
  <2> QED BY <2>1, <2>3, <2>4 DEF LastStartIs
<1>9. ASSUME kind # "Started", ~StartInFlight PROVE ~StartInFlight'
  <2> SUFFICES ASSUME NEW j \in DOMAIN events', events'[j].kind = "Started" PROVE FALSE
    BY DEF StartInFlight
  <2>1. j # n
    BY <1>5, <1>9
  <2> QED BY <1>6, <1>9, <2>1 DEF StartInFlight
<1> QED BY <1>7, <1>8, <1>9

LEMMA DrainFollows ==
    ASSUME TypeOK, DrainEvent, NEW s,
           (~StartInFlight /\ transcript.session = s) \/ LastStartIs(s)
    PROVE  (~StartInFlight' /\ transcript'.session = s) \/ LastStartIs(s)'
<1> DEFINE e == Head(events)
<1>1. e = events[1] /\ 1 \in DOMAIN events
  BY DrainKeeps
<1>2. /\ e.kind = "Started" => transcript'.session = e.session
      /\ e.kind # "Started" => transcript'.session = transcript.session
  BY DEF DrainEvent, OnStarted, OnText, OnStatus, OnFinished, OnFailed, TypeOK, Transcript
<1>3. ASSUME \A j \in DOMAIN events : j > 1 => events[j].kind # "Started"
      PROVE  ~StartInFlight'
  BY <1>3, DrainKeeps DEF StartInFlight
<1>4. CASE ~StartInFlight /\ transcript.session = s
  BY <1>1, <1>2, <1>3, <1>4 DEF StartInFlight
<1>5. CASE LastStartIs(s)
  <2>1. PICK i \in DOMAIN events :
            /\ events[i].kind = "Started" /\ events[i].session = s
            /\ \A j \in DOMAIN events : j > i => events[j].kind # "Started"
    BY <1>5 DEF LastStartIs
  <2>2. CASE i = 1
    BY <1>1, <1>2, <1>3, <2>1, <2>2
  <2>3. CASE i # 1
    <3>1. i - 1 \in DOMAIN events' /\ events'[i - 1] = events[i]
      BY <2>1, <2>3, DrainKeeps
    <3>2. \A j \in DOMAIN events' : j > i - 1 => events'[j].kind # "Started"
      <4> TAKE j \in DOMAIN events'
      <4> HAVE j > i - 1
      <4>1. j + 1 \in DOMAIN events /\ j + 1 > i /\ events'[j] = events[j + 1]
        BY DrainKeeps
      <4> QED BY <2>1, <4>1
    <3> QED BY <2>1, <3>1, <3>2 DEF LastStartIs
  <2> QED BY <2>2, <2>3
<1> QED BY <1>4, <1>5

LEMMA StartOfRunStaysLast ==
    ASSUME TypeOK, StartOfRunIsLast, [Next]_vars
    PROVE  StartOfRunIsLast'
<1> SUFFICES ASSUME NEW s, RunHasStarted', ~lostMilestone', driver'.job.session = s
             PROVE  \/ ~StartInFlight' /\ transcript'.session = s
                    \/ LastStartIs(s)'
  BY DEF StartOfRunIsLast
<1> DEFINE Before == (~StartInFlight /\ transcript.session = s) \/ LastStartIs(s)
<1>1. ASSUME RunHasStarted, ~lostMilestone, driver.job.session = s
      PROVE  Before
  BY <1>1 DEF StartOfRunIsLast
<1>2. CASE DrainEvent
  <2>1. UNCHANGED <<driver, lostMilestone>>
    BY <1>2 DEF DrainEvent, driverVars
  <2>2. Before
    BY <1>1, <2>1 DEF RunHasStarted
  <2> QED BY <1>2, <2>2, DrainFollows
<1>3. ASSUME UNCHANGED <<events, lostMilestone, driver>>, transcript'.session = transcript.session
      PROVE  (~StartInFlight' /\ transcript'.session = s) \/ LastStartIs(s)'
  <2>1. Before
    BY <1>1, <1>3 DEF RunHasStarted
  <2> QED BY <1>3, <2>1 DEF StartInFlight, LastStartIs
<1>4. CASE UNCHANGED vars
  BY <1>3, <1>4 DEF vars
<1>5. CASE (UIWork \/ User) /\ ~DrainEvent
  <2>1. transcript'.session = transcript.session
    <3> USE <1>5 DEF TypeOK, Transcript
    <3>1. CASE DrainDone \/ ApplyRun
      BY <3>1 DEF DrainDone, ApplyRun, StartSession, sessionVars
    <3>2. CASE ApplyClear
      BY <3>2 DEF ApplyClear
    <3>3. CASE DrainLagged \/ ApplyQueue \/ ApplyCancel \/ CommandsDone \/ EndFrame \/ Joined \/ User
      BY <3>3 DEF DrainLagged, ApplyQueue, ApplyCancel, CommandsDone, EndFrame, Joined, User, ClickStop,
         SubmitPrompt, ClickSkill, ClickClose, CloseWindow, Click, uiVars, sessionVars
    <3> QED BY <3>1, <3>2, <3>3 DEF UIWork
  <2> QED BY <1>3, <1>5, <2>1, QuietSteps
<1>6. CASE Driver
  <2>1. UNCHANGED transcript
    BY <1>6 DEF Driver, TakePrompt, DriverExits, ResolveFails, BeginRun, LoopTest, TurnFails, TurnAnswers,
       RunTools, CloseRun, FinishRun, FinishFailedRun, DriverPanics, DriverOnly, uiVars
  <2>2. CASE TakePrompt \/ DriverExits \/ ResolveFails \/ FinishRun \/ FinishFailedRun \/ DriverPanics
    BY <2>2 DEF TakePrompt, DriverExits, ResolveFails, FinishRun, FinishFailedRun, DriverPanics, GoTo, RunHasStarted, TypeOK
  <2>3. CASE BeginRun
    <3>1. driver.job.session = s
      BY <2>3 DEF BeginRun, GoTo, TypeOK
    <3> QED BY <2>3, <3>1, PublishKeepsLastStart DEF BeginRun
  <2>4. CASE LoopTest \/ TurnFails \/ TurnAnswers \/ RunTools \/ CloseRun
    <3>1. driver.job.session = s /\ RunHasStarted
      BY <2>4 DEF LoopTest, TurnFails, TurnAnswers, RunTools, CloseRun, GoTo, RunHasStarted, TypeOK
    <3>2. UNCHANGED busVars \/ \E kind : kind # "Started" /\ Publish(kind)
      BY <2>4 DEF LoopTest, TurnFails, TurnAnswers, RunTools, CloseRun
    <3>3. CASE UNCHANGED busVars
      <4>1. Before
        BY <1>1, <3>1, <3>3 DEF busVars
      <4> QED BY <2>1, <3>3, <4>1 DEF busVars, StartInFlight, LastStartIs
    <3>4. ASSUME NEW kind, kind # "Started", Publish(kind)
          PROVE  (~StartInFlight' /\ transcript'.session = s) \/ LastStartIs(s)'
      <4>1. ~lostMilestone
        BY <3>4 DEF Publish, TypeOK
      <4>2. Before
        BY <1>1, <3>1, <4>1
      <4> QED BY <2>1, <3>4, <4>2, PublishKeepsLastStart
    <3> QED BY <3>2, <3>3, <3>4
  <2> QED BY <1>6, <2>2, <2>3, <2>4 DEF Driver
<1> QED BY <1>2, <1>4, <1>5, <1>6 DEF Next

LEMMA StartOfRunLast == Spec => []StartOfRunIsLast
<1>1. Init => StartOfRunIsLast
  BY DEF Init, StartOfRunIsLast, RunHasStarted
<1>2. TypeOK /\ StartOfRunIsLast /\ [Next]_vars => StartOfRunIsLast'
  BY StartOfRunStaysLast
<1> QED BY <1>1, <1>2, TypeCorrect, PTL DEF Spec

\* The text of a run whose start was drained is shown.
THEOREM TranscriptIsOfTheRun == Spec => []TranscriptIsTrue
<1>1. StartOfRunIsLast => TranscriptFollowsDriver
  BY DEF StartOfRunIsLast, TranscriptFollowsDriver, LastStartIs, StartInFlight
<1>2. StartOfRunIsLast /\ TranscriptText => TranscriptIsTrue
  BY <1>1 DEF TranscriptIsTrue
<1> QED BY <1>2, StartOfRunLast, TranscriptIsOfOneSession, PTL

-----------------------------------------------------------------------------
(***************************************************************************)
(* ConversationIsolated: jobs of one session are of one era, wherever the  *)
(* jobs are, and those of the current session are of the current era.  No  *)
(* session number is used that was not minted.                             *)
(***************************************************************************)

Jobs == {submitted[i] : i \in DOMAIN submitted} \cup {j \in {driver.job} : DriverBusy} \cup history

OneEraPerSession ==
    /\ curSession <= minted
    /\ \A j \in Jobs : j.session <= minted
    /\ \A j, k \in Jobs : j.session = k.session => j.era = k.era
    /\ \A j \in Jobs : j.session = curSession => j.era = era

LEMMA JobsAreJobs == TypeOK => Jobs \subseteq Job
  BY DEF TypeOK, Jobs

\* A step that adds no job and leaves the session alone, or leaves the session.
LEMMA NoNewJob ==
    ASSUME TypeOK, OneEraPerSession, Jobs' \subseteq Jobs, minted' = minted,
           UNCHANGED <<curSession, era>> \/ curSession' = NoSession
    PROVE  OneEraPerSession'
<1>1. minted \in Nat /\ curSession \in Nat
  BY DEF TypeOK, Sessions, NoSession
<1>2. \A j \in Jobs : j.session \in Nat \ {0}
  BY JobsAreJobs DEF Job, Sessions
<1> QED BY <1>1, <1>2 DEF OneEraPerSession, NoSession

LEMMA SubmitJob ==
    ASSUME TypeOK, OneEraPerSession, NEW p \in Prompts, StartSession(p),
           UNCHANGED <<driver, history, era>>
    PROVE  OneEraPerSession'
<1> DEFINE s == IF curSession = NoSession THEN minted + 1 ELSE curSession
           new == [prompt |-> p, session |-> s, era |-> era]
<1>1. submitted' = Append(submitted, new) /\ submitted \in Seq(Job \cup {new}) /\ new \in Job \cup {new}
  BY DEF StartSession, TypeOK
<1>2. /\ DOMAIN submitted' = 1 .. (Len(submitted) + 1) /\ Len(submitted) \in Nat
      /\ DOMAIN submitted = 1 .. Len(submitted)
      /\ \A i \in 1 .. Len(submitted) : submitted'[i] = submitted[i]
      /\ submitted'[Len(submitted) + 1] = new
  BY <1>1, AppendProperties
<1>3. Jobs' \subseteq Jobs \cup {new}
  BY <1>2 DEF Jobs, DriverBusy
<1>4. /\ minted \in Nat /\ curSession \in Nat /\ minted' \in Nat /\ minted <= minted'
      /\ curSession' = s /\ s <= minted'
  BY DEF TypeOK, Sessions, NoSession, StartSession, OneEraPerSession
<1>5. \A j \in Jobs : j.session \in Nat \ {0} /\ j.session <= minted
  BY JobsAreJobs DEF Job, Sessions, OneEraPerSession
<1>6. \A j \in Jobs : j.session = s => j.era = era
  <2>1. CASE curSession = NoSession
    BY <1>4, <1>5, <2>1
  <2>2. CASE curSession # NoSession
    BY <2>2 DEF OneEraPerSession
  <2> QED BY <2>1, <2>2
<1>7. \A j \in Jobs' : j.session <= minted'
  BY <1>3, <1>4, <1>5
<1>8. \A j \in Jobs' : j.session = curSession' => j.era = era'
  BY <1>3, <1>4, <1>6
<1>9. \A j, k \in Jobs' : j.session = k.session => j.era = k.era
  BY <1>3, <1>6 DEF OneEraPerSession
<1> QED BY <1>4, <1>7, <1>8, <1>9 DEF OneEraPerSession

LEMMA OneEraStep ==
    ASSUME TypeOK, OneEraPerSession, [Next]_vars
    PROVE  OneEraPerSession'
<1>1. ASSUME UNCHANGED <<submitted, driver, history, minted>>,
             UNCHANGED <<curSession, era>> \/ curSession' = NoSession
      PROVE  OneEraPerSession'
  <2>1. Jobs' \subseteq Jobs
    BY <1>1 DEF Jobs, DriverBusy
  <2> QED BY <1>1, <2>1, NoNewJob
<1>2. CASE UNCHANGED vars
  BY <1>1, <1>2 DEF vars
<1>3. CASE DrainDone \/ ApplyRun
  <2>1. CASE \E p \in Prompts : StartSession(p)
    BY <1>3, <2>1, SubmitJob DEF DrainDone, ApplyRun, driverVars
  <2>2. CASE DrainDone /\ nextPrompt = NoPrompt
    BY <1>1, <2>2 DEF DrainDone, sessionVars, driverVars
  <2>3. CASE ApplyRun
    <3>1. Head(commands) \in Command /\ Head(commands).kind \in {"Run", "Skill"}
      BY <2>3, HeadTailProperties DEF ApplyRun, NextCommand, TypeOK
    <3> QED BY <2>1, <2>3, <3>1 DEF ApplyRun, Command
  <2> QED BY <1>3, <2>1, <2>2, <2>3 DEF DrainDone, TypeOK
<1>4. CASE DrainEvent \/ DrainLagged \/ ApplyQueue \/ ApplyCancel \/ ApplyClear \/ CommandsDone
           \/ EndFrame \/ Joined \/ User
  BY <1>1, <1>4 DEF DrainEvent, DrainLagged, ApplyQueue, ApplyCancel, ApplyClear, CommandsDone, EndFrame,
     Joined, User, ClickStop, SubmitPrompt, ClickSkill, ClickClose, CloseWindow, Click, uiVars, sessionVars, driverVars
<1>5. CASE Driver
  <2>1. UNCHANGED <<curSession, era, minted>>
    BY <1>5 DEF Driver, TakePrompt, DriverExits, ResolveFails, BeginRun, LoopTest, TurnFails, TurnAnswers,
       RunTools, CloseRun, FinishRun, FinishFailedRun, DriverPanics, DriverOnly, uiVars
  <2>2. CASE TakePrompt
    <3>1. /\ Head(submitted) = submitted[1] /\ 1 \in DOMAIN submitted
          /\ \A i \in DOMAIN Tail(submitted) :
                i + 1 \in DOMAIN submitted /\ Tail(submitted)[i] = submitted[i + 1]
      BY <2>2, HeadTailProperties, EmptySeq DEF TakePrompt, TypeOK
    <3>2. Jobs' \subseteq Jobs
      BY <2>2, <3>1 DEF TakePrompt, Jobs, driverVars
    <3> QED BY <2>1, <3>2, NoNewJob
  <2>3. CASE ~TakePrompt
    <3>1. /\ UNCHANGED submitted
          /\ driver'.job = driver.job
          /\ DriverBusy' => DriverBusy
          /\ history' \subseteq history \cup {j \in {driver.job} : DriverBusy}
      BY <1>5, <2>3 DEF Driver, DriverExits, ResolveFails, BeginRun, LoopTest, TurnFails, TurnAnswers,
         RunTools, CloseRun, FinishRun, FinishFailedRun, DriverPanics, GoTo, DriverBusy, TypeOK
    <3>2. Jobs' \subseteq Jobs
      BY <3>1 DEF Jobs
    <3> QED BY <2>1, <3>2, NoNewJob
  <2> QED BY <2>2, <2>3
<1> QED BY <1>2, <1>3, <1>4, <1>5 DEF Next, UIWork

LEMMA OneEra == Spec => []OneEraPerSession
<1>1. Init => OneEraPerSession
  BY DEF Init, OneEraPerSession, Jobs, DriverBusy, NoSession
<1>2. TypeOK /\ OneEraPerSession /\ [Next]_vars => OneEraPerSession'
  BY OneEraStep
<1> QED BY <1>1, <1>2, TypeCorrect, PTL DEF Spec

\* Messages from the two sides of a Close never meet in a session.
THEOREM NoMessagesAcrossAClose == Spec => []ConversationIsolated
<1>1. OneEraPerSession => ConversationIsolated
  BY DEF OneEraPerSession, ConversationIsolated, Jobs
<1> QED BY <1>1, OneEra, PTL

-----------------------------------------------------------------------------
(* Part three: the prompts of the agent session.  First, queues of numbers, *)
(* in which 0 stands for no prompt.                                         *)

Holds(q, p) == \E i \in 1..Len(q) : q[i] = p
Single(q)   == \A i, j \in 1..Len(q) : q[i] = q[j] /\ q[i] # 0 => i = j
Numbers(s)  == [i \in 1..Len(s) |-> s[i].prompt]

LEMMA AppendHolds ==
    ASSUME NEW q \in Seq(Nat), NEW n \in Nat
    PROVE  /\ \A p : Holds(Append(q, n), p) <=> Holds(q, p) \/ p = n
           /\ Single(q) /\ (n = 0 \/ ~Holds(q, n)) => Single(Append(q, n))
<1> DEFINE r == Append(q, n)
<1>1. /\ Len(q) \in Nat /\ Len(r) = Len(q) + 1 /\ r[Len(q) + 1] = n
      /\ \A i \in 1..Len(q) : r[i] = q[i]
  BY AppendProperties, LenProperties
<1> HIDE DEF r
<1>2. ASSUME NEW p PROVE Holds(r, p) <=> Holds(q, p) \/ p = n
  <2>1. Holds(q, p) => Holds(r, p)
    BY <1>1 DEF Holds
  <2>2. p = n => Holds(r, p)
    BY <1>1 DEF Holds
  <2>3. Holds(r, p) /\ p # n => Holds(q, p)
    BY <1>1 DEF Holds
  <2> QED BY <2>1, <2>2, <2>3
<1>3. ASSUME Single(q), n = 0 \/ ~Holds(q, n), NEW i \in 1..Len(r), NEW j \in 1..Len(r),
             r[i] = r[j], r[i] # 0
      PROVE  i = j
  <2>1. CASE i = Len(q) + 1
    BY <2>1, <1>1, <1>3 DEF Holds
  <2>2. CASE j = Len(q) + 1
    BY <2>2, <1>1, <1>3 DEF Holds
  <2>3. CASE i # Len(q) + 1 /\ j # Len(q) + 1
    <3>1. i \in 1..Len(q) /\ j \in 1..Len(q)
      BY <2>3, <1>1
    <3> QED BY <3>1, <1>1, <1>3 DEF Single
  <2> QED BY <2>1, <2>2, <2>3
<1> QED BY <1>2, <1>3 DEF Single, r

LEMMA TailHolds ==
    ASSUME NEW q \in Seq(Nat), q # <<>>, Single(q)
    PROVE  /\ Single(Tail(q))
           /\ Holds(q, Head(q))
           /\ \A p : p # 0 => (Holds(Tail(q), p) <=> Holds(q, p) /\ p # Head(q))
<1> DEFINE r == Tail(q)
<1>1. /\ Len(q) \in Nat /\ Len(q) > 0 /\ Len(r) = Len(q) - 1 /\ Head(q) = q[1]
      /\ \A i \in 1..Len(r) : r[i] = q[i + 1]
  BY HeadTailProperties, LenProperties, EmptySeq
<1> HIDE DEF r
<1>2. Single(r)
  <2> SUFFICES ASSUME NEW i \in 1..Len(r), NEW j \in 1..Len(r), r[i] = r[j], r[i] # 0
               PROVE  i = j
    BY DEF Single
  <2>1. i + 1 \in 1..Len(q) /\ j + 1 \in 1..Len(q)
    BY <1>1
  <2>2. q[i + 1] = q[j + 1] /\ q[i + 1] # 0
    BY <1>1
  <2>3. i + 1 = j + 1
    BY <2>1, <2>2 DEF Single
  <2> QED BY <2>3
<1>3. Holds(q, Head(q))
  BY <1>1 DEF Holds
<1>4. ASSUME NEW p, p # 0 PROVE Holds(r, p) <=> Holds(q, p) /\ p # Head(q)
  <2>1. ASSUME NEW i \in 1..Len(r), r[i] = p
        PROVE  Holds(q, p) /\ p # Head(q)
    <3>1. i + 1 \in 1..Len(q) /\ q[i + 1] = p /\ i + 1 # 1 /\ 1 \in 1..Len(q)
      BY <2>1, <1>1
    <3>2. q[1] # p
      BY <3>1, <1>4 DEF Single
    <3> QED BY <3>1, <3>2, <1>1 DEF Holds
  <2>2. ASSUME NEW i \in 1..Len(q), q[i] = p, p # Head(q)
        PROVE  Holds(r, p)
    <3>1. i - 1 \in 1..Len(r) /\ i - 1 + 1 = i
      BY <2>2, <1>1
    <3>2. r[i - 1] = q[i]
      BY <3>1, <1>1
    <3> QED BY <2>2, <3>1, <3>2 DEF Holds
  <2> QED BY <2>1, <2>2 DEF Holds
<1> QED BY <1>2, <1>3, <1>4 DEF r

\* The numbers of a queue of records.
LEMMA NumbersFacts ==
    ASSUME NEW S, \A x \in S : x.prompt \in Nat, NEW s \in Seq(S)
    PROVE  /\ Numbers(s) \in Seq(Nat) /\ Len(Numbers(s)) = Len(s)
           /\ \A i \in 1..Len(s) : Numbers(s)[i] = s[i].prompt
           /\ \A x \in S : Numbers(Append(s, x)) = Append(Numbers(s), x.prompt)
           /\ s # <<>> => /\ Numbers(Tail(s)) = Tail(Numbers(s))
                          /\ Numbers(s) # <<>> /\ Head(Numbers(s)) = Head(s).prompt
<1>1. ASSUME NEW t \in Seq(S)
      PROVE  /\ Numbers(t) \in Seq(Nat) /\ Len(Numbers(t)) = Len(t) /\ Len(t) \in Nat
             /\ \A i \in 1..Len(t) : Numbers(t)[i] = t[i].prompt
  <2>1. Len(t) \in Nat /\ \A i \in 1..Len(t) : t[i].prompt \in Nat
    BY LenProperties, ElementOfSeq
  <2> QED BY <2>1 DEF Numbers
<1>2. ASSUME NEW x \in S PROVE Numbers(Append(s, x)) = Append(Numbers(s), x.prompt)
  <2> DEFINE t == Append(s, x)
             a == Numbers(t)
             b == Append(Numbers(s), x.prompt)
  <2>1. /\ t \in Seq(S) /\ Len(t) = Len(s) + 1 /\ t[Len(s) + 1] = x
        /\ \A i \in 1..Len(s) : t[i] = s[i]
    BY AppendProperties
  <2>2. /\ b \in Seq(Nat) /\ Len(b) = Len(s) + 1 /\ b[Len(s) + 1] = x.prompt
        /\ \A i \in 1..Len(s) : b[i] = s[i].prompt
    BY <1>1, AppendProperties
  <2> HIDE DEF t, b
  <2>3. a \in Seq(Nat) /\ Len(a) = Len(s) + 1 /\ Len(s) \in Nat
        /\ \A i \in 1..Len(t) : a[i] = t[i].prompt
    BY <1>1, <2>1
  <2> HIDE DEF a
  <2>4. \A i \in 1..Len(a) : a[i] = b[i]
    <3> TAKE i \in 1..Len(a)
    <3>1. i \in 1..Len(s) \/ i = Len(s) + 1
      BY <2>3
    <3> QED BY <3>1, <2>1, <2>2, <2>3
  <2>5. a = b
    BY <2>2, <2>3, <2>4, SeqEqual
  <2> QED BY <2>5 DEF a, b, t
<1>3. ASSUME s # <<>>
      PROVE  /\ Numbers(Tail(s)) = Tail(Numbers(s))
             /\ Numbers(s) # <<>> /\ Head(Numbers(s)) = Head(s).prompt
  <2> DEFINE t == Tail(s)
             n == Numbers(s)
             a == Numbers(t)
             b == Tail(n)
  <2>1. /\ t \in Seq(S) /\ Len(t) = Len(s) - 1 /\ Len(s) \in Nat /\ Len(s) > 0
        /\ Head(s) = s[1] /\ \A i \in 1..Len(t) : t[i] = s[i + 1]
    BY <1>3, HeadTailProperties, LenProperties, EmptySeq
  <2>2. n \in Seq(Nat) /\ Len(n) = Len(s) /\ \A i \in 1..Len(s) : n[i] = s[i].prompt
    BY <1>1
  <2> HIDE DEF n
  <2>3. n # <<>> /\ Head(n) = Head(s).prompt
    BY <2>1, <2>2
  <2>4. /\ b \in Seq(Nat) /\ Len(b) = Len(s) - 1
        /\ \A i \in 1..Len(b) : b[i] = n[i + 1]
    BY <2>2, <2>3, HeadTailProperties
  <2> HIDE DEF t, b
  <2>5. a \in Seq(Nat) /\ Len(a) = Len(t) /\ \A i \in 1..Len(t) : a[i] = t[i].prompt
    BY <1>1, <2>1
  <2> HIDE DEF a
  <2>6. \A i \in 1..Len(a) : a[i] = b[i]
    <3> TAKE i \in 1..Len(a)
    <3>1. i \in 1..Len(t) /\ i \in 1..Len(b) /\ i + 1 \in 1..Len(s)
      BY <2>1, <2>4, <2>5
    <3> QED BY <3>1, <2>1, <2>2, <2>4, <2>5
  <2>7. a = b
    BY <2>1, <2>4, <2>5, <2>6, SeqEqual
  <2> QED BY <2>3, <2>7 DEF a, b, t, n
<1> QED BY <1>1, <1>2, <1>3

-----------------------------------------------------------------------------
(* The places of a prompt. *)

OnBus(p)      == Holds(Numbers(commands), p)
InQueue(p)    == Holds(pending, p)
Picked(p)     == nextPrompt = p
Submitted(p)  == Holds(Numbers(submitted), p)
AtDriver(p)   == DriverBusy /\ driver.job.prompt = p
Over(p)       == p \in ended

\* A prompt is in one place at most, and nowhere before it is typed.
Alone(p) ==
    /\ OnBus(p)     => ~(InQueue(p) \/ Picked(p) \/ Submitted(p) \/ AtDriver(p) \/ Over(p))
    /\ InQueue(p)   => ~(Picked(p) \/ Submitted(p) \/ AtDriver(p) \/ Over(p))
    /\ Picked(p)   => ~(Submitted(p) \/ AtDriver(p) \/ Over(p))
    /\ Submitted(p) => ~(AtDriver(p) \/ Over(p))
    /\ AtDriver(p)  => ~Over(p)
    /\ OnBus(p) \/ InQueue(p) \/ Picked(p) \/ Submitted(p) \/ AtDriver(p) \/ Over(p)
         => p <= typed

Once ==
    /\ Single(Numbers(commands)) /\ Single(pending) /\ Single(Numbers(submitted))
    /\ \A p \in Prompts : Alone(p)

\* The queues as numbers.
QueueTypes ==
    /\ Numbers(commands) \in Seq(Nat) /\ pending \in Seq(Nat)
    /\ Numbers(submitted) \in Seq(Nat)
    /\ Prompts \subseteq Nat \ {0} /\ typed \in Nat /\ nextPrompt \in Nat

LEMMA CommandsAsNumbers ==
    ASSUME TypeOK
    PROVE  /\ \A x \in Command : x.prompt \in Nat
           /\ \A x \in Job : x.prompt \in Nat
           /\ commands \in Seq(Command) /\ submitted \in Seq(Job)
           /\ QueueTypes
<1>1. Prompts \subseteq Nat \ {0} /\ NoPrompt \in Nat
  BY MaxPromptsAssumption DEF Prompts, NoPrompt
<1>2. (\A x \in Command : x.prompt \in Nat) /\ (\A x \in Job : x.prompt \in Nat)
  <2>1. ASSUME NEW x \in Command PROVE x.prompt \in Nat
    <3>1. x.prompt \in Prompts \/ x.prompt = NoPrompt
      BY DEF Command
    <3> QED BY <1>1, <3>1
  <2>2. ASSUME NEW x \in Job PROVE x.prompt \in Nat
    <3>1. x.prompt \in Prompts
      BY DEF Job
    <3> QED BY <1>1, <3>1
  <2> QED BY <2>1, <2>2
<1>3. /\ commands \in Seq(Command) /\ submitted \in Seq(Job) /\ pending \in Seq(Prompts)
      /\ typed \in 0 .. MaxPrompts /\ nextPrompt \in Prompts \cup {NoPrompt}
  BY DEF TypeOK
<1>4. pending \in Seq(Nat)
  BY <1>1, <1>3, SeqMonotonic
<1>5. Numbers(commands) \in Seq(Nat) /\ Numbers(submitted) \in Seq(Nat)
  BY <1>2, <1>3, NumbersFacts
<1> QED BY <1>1, <1>2, <1>3, <1>4, <1>5, MaxPromptsAssumption DEF QueueTypes

-----------------------------------------------------------------------------
(* What steps do to the places. *)

\* Taking the head command off the bus.
LEMMA CommandTaken ==
    ASSUME TypeOK, Once, NEW kind, NextCommand(kind)
    PROVE  /\ Single(Numbers(commands'))
           /\ Head(commands) \in Command
           /\ OnBus(Head(commands).prompt)
           /\ \A p \in Prompts : OnBus(p)' <=> OnBus(p) /\ p # Head(commands).prompt
<1>1. /\ commands \in Seq(Command) /\ commands # <<>> /\ commands' = Tail(commands)
      /\ \A x \in Command : x.prompt \in Nat
      /\ Single(Numbers(commands)) /\ Prompts \subseteq Nat \ {0}
  BY CommandsAsNumbers DEF NextCommand, Once, QueueTypes
<1>2. /\ Numbers(commands) \in Seq(Nat) /\ Numbers(commands) # <<>>
      /\ Numbers(commands') = Tail(Numbers(commands))
      /\ Head(Numbers(commands)) = Head(commands).prompt
  BY <1>1, NumbersFacts
<1>3. Head(commands) \in Command
  BY <1>1, HeadTailProperties
<1>4. /\ Single(Numbers(commands'))
      /\ Holds(Numbers(commands), Head(commands).prompt)
      /\ \A p \in Prompts : Holds(Numbers(commands'), p)
                              <=> Holds(Numbers(commands), p) /\ p # Head(commands).prompt
  <2> DEFINE q == Numbers(commands)
  <2>1. /\ Single(Tail(q)) /\ Holds(q, Head(q))
        /\ \A p : p # 0 => (Holds(Tail(q), p) <=> Holds(q, p) /\ p # Head(q))
    BY <1>1, <1>2, TailHolds
  <2>2. \A p \in Prompts : p # 0
    BY <1>1
  <2>3. Numbers(commands') = Tail(q) /\ Head(q) = Head(commands).prompt
    BY <1>2
  <2> HIDE DEF q
  <2> QED BY <2>1, <2>2, <2>3 DEF q
<1> QED BY <1>3, <1>4 DEF OnBus

\* Submitting a prompt: it is last in line, and the newest.
LEMMA SubmittedLast ==
    ASSUME TypeOK, NEW q \in Prompts, StartSession(q)
    PROVE  /\ Numbers(submitted') = Append(Numbers(submitted), q)
           /\ flag' = q
<1> DEFINE s == IF curSession = NoSession THEN minted + 1 ELSE curSession
           j == [prompt |-> q, session |-> s, era |-> era]
<1>1. s \in Sessions
  BY DEF TypeOK, Sessions, NoSession
<1>2. j \in Job /\ j.prompt = q
  BY <1>1 DEF TypeOK, Job
<1>3. submitted' = Append(submitted, j) /\ flag' = q
  BY DEF StartSession
<1> HIDE DEF j
<1>4. submitted \in Seq(Job) /\ \A x \in Job : x.prompt \in Nat
  BY CommandsAsNumbers
<1> QED BY <1>2, <1>3, <1>4, NumbersFacts

\* Submitting a prompt that is not yet with the driver.
LEMMA PromptSubmitted ==
    ASSUME TypeOK, Once, NEW q \in Prompts, ~Submitted(q), StartSession(q)
    PROVE  /\ Single(Numbers(submitted'))
           /\ \A p \in Prompts : Submitted(p)' <=> Submitted(p) \/ p = q
<1>1. /\ Numbers(submitted) \in Seq(Nat) /\ Single(Numbers(submitted)) /\ q \in Nat
  BY CommandsAsNumbers DEF Once, QueueTypes
<1>2. Numbers(submitted') = Append(Numbers(submitted), q)
  BY SubmittedLast
<1>3. ~Holds(Numbers(submitted), q)
  BY DEF Submitted
<1>4. /\ Single(Numbers(submitted'))
      /\ \A p : Holds(Numbers(submitted'), p) <=> Holds(Numbers(submitted), p) \/ p = q
  BY <1>1, <1>2, <1>3, AppendHolds
<1> QED BY <1>4 DEF Submitted

\* A click puts a command with a new prompt, or with none, on the bus.
LEMMA CommandClicked ==
    ASSUME TypeOK, Once, NEW kind, NEW q, [kind |-> kind, prompt |-> q] \in Command,
           Click(kind, q),
           \/ q = NoPrompt /\ typed' = typed
           \/ q = typed + 1 /\ typed' = typed + 1 /\ typed < MaxPrompts
    PROVE  Once'
<1> DEFINE c == [kind |-> kind, prompt |-> q]
<1>1. /\ commands \in Seq(Command) /\ \A x \in Command : x.prompt \in Nat
      /\ QueueTypes
  BY CommandsAsNumbers
<1>2. c.prompt = q /\ commands' = Append(commands, c)
      /\ UNCHANGED <<pending, nextPrompt, submitted, driver, ended>>
  BY DEF Click, uiVars, driverVars
<1>3. Numbers(commands) \in Seq(Nat) /\ Numbers(commands') = Append(Numbers(commands), q)
      /\ q \in Nat
  <2> HIDE DEF c
  <2> QED BY <1>1, <1>2, NumbersFacts DEF c
<1>4. q = 0 \/ q \in Prompts
  <2>1. typed \in Nat
    BY <1>1 DEF QueueTypes
  <2> QED BY <2>1, MaxPromptsAssumption DEF NoPrompt, Prompts
<1>5. q # 0 => ~Holds(Numbers(commands), q)
  BY <1>1, <1>4 DEF Once, Alone, OnBus, NoPrompt, QueueTypes
<1>6. /\ Single(Numbers(commands'))
      /\ \A p : Holds(Numbers(commands'), p) <=> Holds(Numbers(commands), p) \/ p = q
  BY <1>3, <1>5, AppendHolds DEF Once
<1>7. ASSUME NEW p \in Prompts PROVE Alone(p)'
  <2>1. /\ OnBus(p)' <=> OnBus(p) \/ p = q
        /\ InQueue(p)' <=> InQueue(p)
        /\ Picked(p)' <=> Picked(p)
        /\ Submitted(p)' <=> Submitted(p)
        /\ AtDriver(p)' <=> AtDriver(p)
        /\ Over(p)' <=> Over(p)
    BY <1>2, <1>6 DEF OnBus, InQueue, Picked, Submitted, AtDriver, DriverBusy, Over
  <2>2. p \in Nat /\ p # 0 /\ typed \in Nat /\ Alone(p)
    BY <1>1 DEF Once, QueueTypes
  <2>3. p = q => q = typed + 1 /\ typed' = typed + 1
    BY <2>2 DEF NoPrompt
  <2>4. typed <= typed' /\ (p <= typed => p <= typed')
    BY <1>1, <2>2 DEF QueueTypes
  <2>5. p = q => ~(p <= typed)
    BY <2>2, <2>3
  <2>6. p = q => p <= typed'
    BY <2>2, <2>3
  <2> QED BY <2>1, <2>2, <2>4, <2>5, <2>6 DEF Alone
<1>8. Single(pending') /\ Single(Numbers(submitted'))
  BY <1>2 DEF Once
<1> QED BY <1>6, <1>7, <1>8 DEF Once

\* A step that moves no prompt.
LEMMA NothingMoves ==
    ASSUME Once, UNCHANGED <<commands, pending, nextPrompt, submitted, ended, typed>>,
           DriverBusy' <=> DriverBusy, driver'.job = driver.job
    PROVE  Once'
<1>1. ASSUME NEW p \in Prompts PROVE Alone(p)'
  <2>1. /\ OnBus(p)' <=> OnBus(p)
        /\ InQueue(p)' <=> InQueue(p)
        /\ Picked(p)' <=> Picked(p)
        /\ Submitted(p)' <=> Submitted(p)
        /\ AtDriver(p)' <=> AtDriver(p)
        /\ Over(p)' <=> Over(p)
    BY DEF OnBus, InQueue, Picked, Submitted, AtDriver, Over
  <2> QED BY <2>1 DEF Once, Alone
<1> QED BY <1>1 DEF Once

\* A run that ends.
LEMMA RunEnds ==
    ASSUME Once, DriverBusy, NEW at \in {"idle", "gone"}, driver' = [driver EXCEPT !.at = at],
           driver \in [at : DriverAt, job : Job],
           ended' = ended \cup {driver.job.prompt},
           UNCHANGED <<commands, pending, nextPrompt, submitted, typed>>
    PROVE  Once'
<1>1. ASSUME NEW p \in Prompts PROVE Alone(p)'
  <2>1. /\ OnBus(p)' <=> OnBus(p)
        /\ InQueue(p)' <=> InQueue(p)
        /\ Picked(p)' <=> Picked(p)
        /\ Submitted(p)' <=> Submitted(p)
    BY DEF OnBus, InQueue, Picked, Submitted
  <2>2. ~AtDriver(p)'
    BY DEF AtDriver, DriverBusy
  <2>3. Over(p)' <=> Over(p) \/ AtDriver(p)
    BY DEF Over, AtDriver
  <2> QED BY <2>1, <2>2, <2>3 DEF Once, Alone
<1> QED BY <1>1 DEF Once

-----------------------------------------------------------------------------
LEMMA OnceInUI == TypeOK /\ Once /\ UIWork => Once'
<1> SUFFICES ASSUME TypeOK, Once, UIWork PROVE Once'
  OBVIOUS
<1>q. QueueTypes
  BY CommandsAsNumbers
<1> USE DEF sessionVars, driverVars, busVars
<1>1. CASE DrainEvent
  <2>1. UNCHANGED <<commands, submitted, driver, ended, typed>>
    BY <1>1 DEF DrainEvent
  <2>2. CASE UNCHANGED <<pending, nextPrompt>>
    BY <2>1, <2>2, NothingMoves DEF DriverBusy
  <2>3. CASE OnFinished /\ pending # <<>>
    <3>1. nextPrompt' = Head(pending) /\ pending' = Tail(pending)
      BY <2>3 DEF OnFinished
    <3>2. /\ Single(pending') /\ Holds(pending, Head(pending))
          /\ \A p \in Prompts : Holds(pending', p) <=> Holds(pending, p) /\ p # Head(pending)
      BY <2>3, <3>1, <1>q, TailHolds DEF Once, QueueTypes
    <3>3. ASSUME NEW p \in Prompts PROVE Alone(p)'
      <4>1. /\ OnBus(p)' <=> OnBus(p)
            /\ Submitted(p)' <=> Submitted(p)
            /\ AtDriver(p)' <=> AtDriver(p)
            /\ Over(p)' <=> Over(p)
        BY <2>1 DEF OnBus, Submitted, AtDriver, DriverBusy, Over
      <4>2. /\ InQueue(p)' <=> InQueue(p) /\ p # Head(pending)
            /\ Picked(p)' <=> p = Head(pending)
            /\ p = Head(pending) => InQueue(p)
        BY <3>1, <3>2 DEF InQueue, Picked
      <4> QED BY <4>1, <4>2, <2>1 DEF Once, Alone
    <3> QED BY <2>1, <3>2, <3>3 DEF Once
  <2>4. CASE OnFinished /\ pending = <<>>
    <3>1. nextPrompt' = NoPrompt /\ pending' = pending
      BY <2>4 DEF OnFinished
    <3>2. ASSUME NEW p \in Prompts PROVE Alone(p)'
      <4>1. /\ OnBus(p)' <=> OnBus(p)
            /\ InQueue(p)' <=> InQueue(p)
            /\ Submitted(p)' <=> Submitted(p)
            /\ AtDriver(p)' <=> AtDriver(p)
            /\ Over(p)' <=> Over(p)
        BY <2>1, <3>1 DEF OnBus, InQueue, Submitted, AtDriver, DriverBusy, Over
      <4>2. ~Picked(p)'
        BY <3>1, <1>q DEF Picked, NoPrompt, QueueTypes
      <4> QED BY <4>1, <4>2, <2>1 DEF Once, Alone
    <3> QED BY <2>1, <3>1, <3>2 DEF Once
  <2>5. CASE OnFailed
    <3>1. pending' = <<>> /\ nextPrompt' = nextPrompt
      BY <2>5 DEF OnFailed
    <3>2. Len(pending') = 0
      BY <3>1
    <3>3. Single(pending') /\ \A p : ~Holds(pending', p)
      BY <3>2 DEF Single, Holds
    <3>4. ASSUME NEW p \in Prompts PROVE Alone(p)'
      <4>1. /\ OnBus(p)' <=> OnBus(p)
            /\ ~InQueue(p)'
            /\ Picked(p)' <=> Picked(p)
            /\ Submitted(p)' <=> Submitted(p)
            /\ AtDriver(p)' <=> AtDriver(p)
            /\ Over(p)' <=> Over(p)
        BY <2>1, <3>1, <3>3 DEF OnBus, InQueue, Picked, Submitted, AtDriver, DriverBusy, Over
      <4> QED BY <4>1, <2>1 DEF Once, Alone
    <3> QED BY <2>1, <3>3, <3>4 DEF Once
  <2> QED BY <1>1, <2>2, <2>3, <2>4, <2>5
      DEF DrainEvent, OnStarted, OnText, OnStatus, OnFinished
<1>2. CASE DrainLagged
  BY <1>2, NothingMoves DEF DrainLagged, uiVars, DriverBusy
<1>3. CASE DrainDone
  <2>1. /\ UNCHANGED <<pending, commands, driver, ended, typed>> /\ nextPrompt' = NoPrompt
    BY <1>3 DEF DrainDone
  <2>2. \A p \in Prompts : /\ OnBus(p)' <=> OnBus(p)
                           /\ InQueue(p)' <=> InQueue(p)
                           /\ ~Picked(p)'
                           /\ AtDriver(p)' <=> AtDriver(p)
                           /\ Over(p)' <=> Over(p)
    BY <2>1, <1>q DEF OnBus, InQueue, Picked, AtDriver, DriverBusy, Over, NoPrompt, QueueTypes
  <2>3. CASE nextPrompt = NoPrompt
    <3>1. submitted' = submitted
      BY <1>3, <2>3 DEF DrainDone
    <3>2. \A p \in Prompts : Submitted(p)' <=> Submitted(p)
      BY <3>1 DEF Submitted
    <3>3. \A p \in Prompts : Alone(p)'
      BY <2>1, <2>2, <3>2 DEF Once, Alone
    <3> QED BY <2>1, <3>1, <3>3 DEF Once
  <2>4. CASE nextPrompt # NoPrompt
    <3>1. nextPrompt \in Prompts /\ StartSession(nextPrompt)
      BY <1>3, <2>4 DEF DrainDone, TypeOK
    <3>2. Picked(nextPrompt)
      BY DEF Picked
    <3>3. ~Submitted(nextPrompt)
      BY <3>1, <3>2 DEF Once, Alone
    <3>4. /\ Single(Numbers(submitted'))
          /\ \A p \in Prompts : Submitted(p)' <=> Submitted(p) \/ Picked(p)
      BY <3>1, <3>3, PromptSubmitted DEF Picked
    <3>5. \A p \in Prompts : Alone(p)'
      BY <2>1, <2>2, <3>4 DEF Once, Alone
    <3> QED BY <2>1, <3>4, <3>5 DEF Once
  <2> QED BY <2>3, <2>4
<1>4. CASE ApplyRun
  <2> DEFINE q == Head(commands).prompt
  <2>1. /\ UNCHANGED <<pending, nextPrompt, driver, ended, typed>> /\ StartSession(q)
        /\ \E kind \in {"Run", "Skill"} : NextCommand(kind)
    BY <1>4 DEF ApplyRun
  <2>2. /\ Single(Numbers(commands')) /\ OnBus(q) /\ q \in Prompts
        /\ \A p \in Prompts : OnBus(p)' <=> OnBus(p) /\ p # q
    <3>1. PICK kind \in {"Run", "Skill"} : NextCommand(kind)
      BY <2>1
    <3>2. /\ Single(Numbers(commands')) /\ OnBus(q) /\ Head(commands) \in Command
          /\ \A p \in Prompts : OnBus(p)' <=> OnBus(p) /\ p # q
      BY <3>1, CommandTaken
    <3>3. q \in Prompts
      BY <3>1, <3>2 DEF NextCommand, Command
    <3> QED BY <3>2, <3>3
  <2>3. ~Submitted(q)
    BY <2>2 DEF Once, Alone
  <2>4. /\ Single(Numbers(submitted'))
        /\ \A p \in Prompts : Submitted(p)' <=> Submitted(p) \/ p = q
    BY <2>1, <2>2, <2>3, PromptSubmitted
  <2>5. \A p \in Prompts : /\ InQueue(p)' <=> InQueue(p)
                           /\ Picked(p)' <=> Picked(p)
                           /\ AtDriver(p)' <=> AtDriver(p)
                           /\ Over(p)' <=> Over(p)
    BY <2>1 DEF InQueue, Picked, AtDriver, DriverBusy, Over
  <2> HIDE DEF q
  <2>6. \A p \in Prompts : Alone(p)'
    BY <2>1, <2>2, <2>4, <2>5 DEF Once, Alone
  <2> QED BY <2>1, <2>2, <2>4, <2>6 DEF Once
<1>5. CASE ApplyQueue
  <2> DEFINE q == Head(commands).prompt
  <2>1. /\ UNCHANGED <<nextPrompt, submitted, driver, ended, typed>>
        /\ pending' = Append(pending, q) /\ NextCommand("Queue")
    BY <1>5 DEF ApplyQueue
  <2>2. /\ Single(Numbers(commands')) /\ OnBus(q) /\ Head(commands) \in Command
        /\ \A p \in Prompts : OnBus(p)' <=> OnBus(p) /\ p # q
    BY <2>1, CommandTaken
  <2>3. q \in Prompts /\ q \in Nat /\ pending \in Seq(Nat)
    BY <2>1, <2>2, <1>q DEF NextCommand, Command, QueueTypes
  <2> HIDE DEF q
  <2>4. ~Holds(pending, q)
    BY <2>2, <2>3 DEF Once, Alone, InQueue
  <2>5. /\ Single(pending')
        /\ \A p \in Prompts : InQueue(p)' <=> InQueue(p) \/ p = q
    BY <2>1, <2>3, <2>4, AppendHolds DEF Once, InQueue
  <2>6. \A p \in Prompts : /\ Submitted(p)' <=> Submitted(p)
                           /\ Picked(p)' <=> Picked(p)
                           /\ AtDriver(p)' <=> AtDriver(p)
                           /\ Over(p)' <=> Over(p)
    BY <2>1 DEF Submitted, Picked, AtDriver, DriverBusy, Over
  <2>7. \A p \in Prompts : Alone(p)'
    BY <2>1, <2>2, <2>5, <2>6 DEF Once, Alone
  <2> QED BY <2>1, <2>2, <2>5, <2>7 DEF Once
<1>6. CASE ApplyCancel \/ ApplyClear
  <2>1. /\ UNCHANGED <<pending, nextPrompt, submitted, driver, ended, typed>>
        /\ \E kind \in {"Cancel", "Clear"} : NextCommand(kind)
    BY <1>6 DEF ApplyCancel, ApplyClear, Cancel
  <2>2. /\ Single(Numbers(commands'))
        /\ \A p \in Prompts : OnBus(p)' => OnBus(p)
    BY <2>1, CommandTaken
  <2>3. \A p \in Prompts : /\ InQueue(p)' <=> InQueue(p)
                           /\ Submitted(p)' <=> Submitted(p)
                           /\ Picked(p)' <=> Picked(p)
                           /\ AtDriver(p)' <=> AtDriver(p)
                           /\ Over(p)' <=> Over(p)
    BY <2>1 DEF InQueue, Submitted, Picked, AtDriver, DriverBusy, Over
  <2>4. \A p \in Prompts : Alone(p)'
    BY <2>1, <2>2, <2>3 DEF Once, Alone
  <2> QED BY <2>1, <2>2, <2>4 DEF Once
<1>7. CASE CommandsDone \/ EndFrame \/ Joined
  BY <1>7, NothingMoves DEF CommandsDone, EndFrame, Joined, DriverBusy
<1> QED BY <1>1, <1>2, <1>3, <1>4, <1>5, <1>6, <1>7 DEF UIWork

LEMMA OnceWithUser == TypeOK /\ Once /\ User => Once'
<1> SUFFICES ASSUME TypeOK, Once, User PROVE Once'
  OBVIOUS
<1>t. typed \in Nat /\ MaxPrompts \in Nat /\ typed <= MaxPrompts
  BY MaxPromptsAssumption DEF TypeOK
<1>1. CASE ClickStop
  BY <1>1, CommandClicked DEF ClickStop, Command
<1>2. CASE ClickClose
  BY <1>2, CommandClicked DEF ClickClose, Command
<1>3. CASE SubmitPrompt \/ ClickSkill
  <2>1. typed < MaxPrompts /\ typed' = typed + 1
    BY <1>3 DEF SubmitPrompt, ClickSkill
  <2>2. PICK kind \in {"Run", "Queue", "Skill"} : Click(kind, typed + 1)
    BY <1>3 DEF SubmitPrompt, ClickSkill
  <2>3. [kind |-> kind, prompt |-> typed + 1] \in Command
    BY <2>1, <1>t DEF Command, Prompts
  <2> QED BY <2>1, <2>2, <2>3, CommandClicked
<1>4. CASE CloseWindow
  BY <1>4, NothingMoves DEF CloseWindow, sessionVars, busVars, driverVars, DriverBusy
<1> QED BY <1>1, <1>2, <1>3, <1>4 DEF User

LEMMA OnceWithDriver == TypeOK /\ Once /\ Driver => Once'
<1> SUFFICES ASSUME TypeOK, Once, Driver PROVE Once'
  OBVIOUS
<1>q. QueueTypes /\ driver \in [at : DriverAt, job : Job]
  BY CommandsAsNumbers DEF TypeOK
<1> USE DEF DriverOnly, uiVars, busVars, GoTo
<1>1. CASE TakePrompt
  <2>1. /\ submitted # <<>> /\ submitted' = Tail(submitted) /\ driver.at = "idle"
        /\ driver' = [at |-> "resolve", job |-> Head(submitted)]
        /\ UNCHANGED <<commands, pending, nextPrompt, ended, typed>>
    BY <1>1 DEF TakePrompt
  <2> DEFINE q == Head(submitted).prompt
  <2>2. /\ submitted \in Seq(Job) /\ \A x \in Job : x.prompt \in Nat
        /\ Single(Numbers(submitted)) /\ Prompts \subseteq Nat \ {0}
    BY CommandsAsNumbers DEF Once, QueueTypes
  <2>3. /\ Numbers(submitted) \in Seq(Nat) /\ Numbers(submitted) # <<>>
        /\ Numbers(submitted') = Tail(Numbers(submitted)) /\ Head(Numbers(submitted)) = q
    BY <2>1, <2>2, NumbersFacts
  <2>4. /\ Single(Numbers(submitted')) /\ Holds(Numbers(submitted), q)
        /\ \A p \in Prompts : Holds(Numbers(submitted'), p)
                                <=> Holds(Numbers(submitted), p) /\ p # q
    BY <2>2, <2>3, TailHolds
  <2>5. \A p \in Prompts : /\ AtDriver(p)' <=> p = q
                           /\ ~AtDriver(p)
    BY <2>1 DEF AtDriver, DriverBusy
  <2> HIDE DEF q
  <2>6. \A p \in Prompts : /\ Submitted(p)' <=> Submitted(p) /\ p # q
                           /\ p = q => Submitted(p)
    BY <2>4 DEF Submitted
  <2>7. \A p \in Prompts : /\ OnBus(p)' <=> OnBus(p)
                           /\ InQueue(p)' <=> InQueue(p)
                           /\ Picked(p)' <=> Picked(p)
                           /\ Over(p)' <=> Over(p)
    BY <2>1 DEF OnBus, InQueue, Picked, Over
  <2>8. \A p \in Prompts : Alone(p)'
    BY <2>1, <2>5, <2>6, <2>7 DEF Once, Alone
  <2> QED BY <2>1, <2>4, <2>8 DEF Once
<1>2. CASE DriverExits
  <2>1. ~DriverBusy /\ ~DriverBusy' /\ driver'.job = driver.job
        /\ UNCHANGED <<commands, pending, nextPrompt, submitted, ended, typed>>
    BY <1>2, <1>q DEF DriverExits, DriverBusy
  <2> QED BY <2>1, NothingMoves
<1>3. CASE ResolveFails \/ FinishRun \/ FinishFailedRun \/ DriverPanics
  <2>1. /\ DriverBusy /\ \E at \in {"idle", "gone"} : driver' = [driver EXCEPT !.at = at]
        /\ ended' = ended \cup {driver.job.prompt}
        /\ UNCHANGED <<commands, pending, nextPrompt, submitted, typed>>
    BY <1>3 DEF ResolveFails, FinishRun, FinishFailedRun, DriverPanics, DriverBusy
  <2> QED BY <2>1, <1>q, RunEnds
<1>4. CASE BeginRun \/ LoopTest \/ TurnFails \/ TurnAnswers \/ RunTools \/ CloseRun
  <2>1. /\ driver.at \in {"resolve", "loop", "turn", "tools", "closing"}
        /\ \E at \in {"loop", "turn", "failing", "tools", "closing", "finishing"} :
             driver' = [driver EXCEPT !.at = at]
        /\ UNCHANGED <<commands, pending, nextPrompt, submitted, ended, typed>>
    BY <1>4 DEF BeginRun, LoopTest, TurnFails, TurnAnswers, RunTools, CloseRun
  <2>2. DriverBusy /\ DriverBusy' /\ driver'.job = driver.job
    BY <2>1, <1>q DEF DriverBusy
  <2> QED BY <2>1, <2>2, NothingMoves
<1> QED BY <1>1, <1>2, <1>3, <1>4 DEF Driver

LEMMA Onceness == Spec => []Once
<1>1. Init => Once
  <2> SUFFICES ASSUME Init PROVE Once
    OBVIOUS
  <2>1. /\ Len(Numbers(commands)) = 0 /\ Len(pending) = 0 /\ Len(Numbers(submitted)) = 0
        /\ ~DriverBusy /\ nextPrompt = 0 /\ ended = {}
    BY DEF Init, Numbers, DriverBusy, NoPrompt
  <2>2. \A p \in Prompts : p # 0
    BY DEF Prompts
  <2> QED BY <2>1, <2>2 DEF Once, Single, Holds, Alone, OnBus, InQueue, Picked,
                            Submitted, AtDriver, Over
<1>2. TypeOK /\ Once /\ [Next]_vars => Once'
  <2> SUFFICES ASSUME TypeOK, Once, [Next]_vars PROVE Once'
    OBVIOUS
  <2>1. CASE UNCHANGED vars
    BY <2>1, NothingMoves DEF vars, DriverBusy
  <2> QED BY <2>1, OnceInUI, OnceWithUser, OnceWithDriver DEF Next
<1> QED BY <1>1, <1>2, TypeCorrect, PTL DEF Spec

\* However queueing, failures, Stop and Close interleave with the driver, a
\* prompt is in one place at most, and so run at most once.
THEOREM PromptsInOnePlace == Spec => []PromptInOnePlace
<1>1. TypeOK /\ Once => PromptInOnePlace
  <2> SUFFICES ASSUME TypeOK, Once, NEW p \in Prompts, NEW a \in Sightings(p),
                      NEW b \in Sightings(p)
               PROVE  a = b
    BY DEF PromptInOnePlace
  <2>1. /\ p # 0 /\ Alone(p)
        /\ Single(Numbers(commands)) /\ Single(pending) /\ Single(Numbers(submitted))
        /\ DOMAIN commands = 1..Len(commands) /\ DOMAIN pending = 1..Len(pending)
        /\ DOMAIN submitted = 1..Len(submitted) /\ QueueTypes
    <3>1. p # 0
      BY DEF Prompts
    <3> QED BY <3>1, CommandsAsNumbers DEF Once, QueueTypes
  <2>2. ASSUME NEW i \in DOMAIN commands, commands[i].prompt = p,
               NEW j \in DOMAIN commands, commands[j].prompt = p
        PROVE  i = j /\ OnBus(p)
    <3> DEFINE q == Numbers(commands)
    <3>1. /\ Len(q) = Len(commands) /\ i \in 1..Len(q) /\ j \in 1..Len(q)
          /\ q[i] = p /\ q[j] = p
      <4>1. Len(commands) \in Nat
        BY CommandsAsNumbers, LenProperties
      <4> QED BY <2>1, <2>2, <4>1 DEF Numbers
    <3>2. Single(q)
      BY <2>1
    <3>3. OnBus(p) <=> Holds(q, p)
      BY DEF OnBus
    <3> HIDE DEF q
    <3> QED BY <2>1, <3>1, <3>2, <3>3 DEF Single, Holds
  <2>3. ASSUME NEW i \in DOMAIN pending, pending[i] = p,
               NEW j \in DOMAIN pending, pending[j] = p
        PROVE  i = j /\ InQueue(p)
    BY <2>1, <2>3 DEF Single, InQueue, Holds
  <2>4. ASSUME NEW i \in DOMAIN submitted, submitted[i].prompt = p,
               NEW j \in DOMAIN submitted, submitted[j].prompt = p
        PROVE  i = j /\ Submitted(p)
    <3> DEFINE q == Numbers(submitted)
    <3>1. /\ Len(q) = Len(submitted) /\ i \in 1..Len(q) /\ j \in 1..Len(q)
          /\ q[i] = p /\ q[j] = p
      <4>1. Len(submitted) \in Nat
        BY CommandsAsNumbers, LenProperties
      <4> QED BY <2>1, <2>4, <4>1 DEF Numbers
    <3>2. Single(q)
      BY <2>1
    <3>3. Submitted(p) <=> Holds(q, p)
      BY DEF Submitted
    <3> HIDE DEF q
    <3> QED BY <2>1, <3>1, <3>2, <3>3 DEF Single, Holds
  <2>5. ASSUME NEW x \in Sightings(p)
        PROVE  \/ \E i \in DOMAIN commands : commands[i].prompt = p /\ x = <<"command", i>>
               \/ \E i \in DOMAIN pending : pending[i] = p /\ x = <<"pending", i>>
               \/ Picked(p) /\ x = <<"taken", 0>>
               \/ \E i \in DOMAIN submitted :
                    submitted[i].prompt = p /\ x = <<"submitted", i>>
               \/ AtDriver(p) /\ x = <<"driver", 0>>
               \/ Over(p) /\ x = <<"ended", 0>>
    BY <2>5 DEF Sightings, Picked, AtDriver, Over
  <2>6. ASSUME NEW i \in DOMAIN commands, commands[i].prompt = p, a = <<"command", i>>
        PROVE  a = b
    <3>1. OnBus(p)
      BY <2>2, <2>6
    <3>2. PICK j \in DOMAIN commands : commands[j].prompt = p /\ b = <<"command", j>>
      BY <2>1, <2>3, <2>4, <2>5, <3>1 DEF Alone
    <3> QED BY <2>2, <2>6, <3>2
  <2>7. ASSUME NEW i \in DOMAIN pending, pending[i] = p, a = <<"pending", i>>
        PROVE  a = b
    <3>1. InQueue(p)
      BY <2>3, <2>7
    <3>2. PICK j \in DOMAIN pending : pending[j] = p /\ b = <<"pending", j>>
      BY <2>1, <2>2, <2>4, <2>5, <3>1 DEF Alone
    <3> QED BY <2>3, <2>7, <3>2
  <2>8. ASSUME NEW i \in DOMAIN submitted, submitted[i].prompt = p, a = <<"submitted", i>>
        PROVE  a = b
    <3>1. Submitted(p)
      BY <2>4, <2>8
    <3>2. PICK j \in DOMAIN submitted : submitted[j].prompt = p /\ b = <<"submitted", j>>
      BY <2>1, <2>2, <2>3, <2>5, <3>1 DEF Alone
    <3> QED BY <2>4, <2>8, <3>2
  <2>9. CASE Picked(p) \/ AtDriver(p) \/ Over(p)
    <3>1. ASSUME NEW x \in Sightings(p)
          PROVE  \/ Picked(p) /\ x = <<"taken", 0>>
                 \/ AtDriver(p) /\ x = <<"driver", 0>>
                 \/ Over(p) /\ x = <<"ended", 0>>
      BY <2>1, <2>2, <2>3, <2>4, <2>5, <2>9, <3>1 DEF Alone
    <3>2. \/ Picked(p) /\ a = <<"taken", 0>>
          \/ AtDriver(p) /\ a = <<"driver", 0>>
          \/ Over(p) /\ a = <<"ended", 0>>
      BY <3>1
    <3>3. \/ Picked(p) /\ b = <<"taken", 0>>
          \/ AtDriver(p) /\ b = <<"driver", 0>>
          \/ Over(p) /\ b = <<"ended", 0>>
      BY <3>1
    <3> QED BY <2>1, <3>2, <3>3 DEF Alone
  <2> QED BY <2>5, <2>6, <2>7, <2>8, <2>9
<1> QED BY <1>1, TypeCorrect, Onceness, PTL

-----------------------------------------------------------------------------
(* The refinement: the session keeps the promise of PromptLife. *)

Waits(p) == OnBus(p) \/ InQueue(p) \/ Picked(p)

\* The flag that Stop and Close raise is of a prompt with the driver.
FlagIsHanded == flag = NoPrompt \/ flag \in Life!HandedOver

\* A queue of records and its numbers.
LEMMA QueueNumbers ==
    ASSUME NEW S, NEW s \in Seq(S)
    PROVE  /\ Numbers(s) = [i \in DOMAIN s |-> s[i].prompt]
           /\ \A p : Holds(Numbers(s), p) <=> \E i \in DOMAIN s : s[i].prompt = p
<1>1. DOMAIN s = 1..Len(s) /\ Len(s) \in Nat
  BY LenProperties
<1>2. Len(Numbers(s)) = Len(s) /\ \A i \in 1..Len(s) : Numbers(s)[i] = s[i].prompt
  BY <1>1 DEF Numbers
<1> QED BY <1>1, <1>2 DEF Numbers, Holds

\* The places of a prompt before and after a step, as PromptLife sees them.
LEMMA Ways ==
    ASSUME TypeOK, TypeOK'
    PROVE  /\ Waiting = {p \in Prompts : Waits(p)}
           /\ Waiting' = {p \in Prompts : Waits(p)'}
           /\ Line = Numbers(submitted) /\ Line' = Numbers(submitted')
           /\ Line \in Seq(Nat)
<1>1. /\ commands \in Seq(Command) /\ commands' \in Seq(Command)
      /\ submitted \in Seq(Job) /\ submitted' \in Seq(Job)
      /\ DOMAIN pending = 1..Len(pending) /\ DOMAIN pending' = 1..Len(pending')
  BY LenProperties DEF TypeOK
<1>2. /\ \A p : OnBus(p) <=> \E i \in DOMAIN commands : commands[i].prompt = p
      /\ \A p : OnBus(p)' <=> \E i \in DOMAIN commands' : commands'[i].prompt = p
  BY <1>1, QueueNumbers DEF OnBus
<1>3. /\ \A p : InQueue(p) <=> \E i \in DOMAIN pending : pending[i] = p
      /\ \A p : InQueue(p)' <=> \E i \in DOMAIN pending' : pending'[i] = p
  BY <1>1 DEF InQueue, Holds
<1>4. /\ Waiting = {p \in Prompts : Waits(p)}
      /\ Waiting' = {p \in Prompts : Waits(p)'}
  BY <1>2, <1>3 DEF Waiting, Waits, Picked
<1>5. Line = Numbers(submitted) /\ Line' = Numbers(submitted')
  BY <1>1, QueueNumbers DEF Line
<1> QED BY <1>4, <1>5, CommandsAsNumbers DEF QueueTypes

\* Steps in which no prompt gets anywhere, and steps that only lose some.
LEMMA LifeWithout ==
    ASSUME TypeOK, TypeOK', \A p \in Prompts : Waits(p)' => Waits(p),
           UNCHANGED <<typed, submitted, ended, cancelled>>,
           DriverBusy' <=> DriverBusy, DriverBusy => driver'.job = driver.job
    PROVE  [Life!LifeNext]_(Life!promptVars)
<1>1. Waiting' \subseteq Waiting /\ Line' = Line
  BY Ways
<1>2. Current' = Current
  BY DEF Current
<1>3. Life!Drop
  BY <1>1, <1>2 DEF Life!Drop
<1> QED BY <1>3 DEF Life!LifeNext

\* A prompt that waits in one place only is submitted.
LEMMA LifeSubmits ==
    ASSUME TypeOK, TypeOK', NEW q \in Prompts, Waits(q), StartSession(q),
           \A p \in Prompts : Waits(p)' <=> Waits(p) /\ p # q,
           UNCHANGED <<typed, driver, ended, cancelled>>
    PROVE  Life!LifeNext
<1>1. q \in Waiting /\ Waiting' = Waiting \ {q}
  BY Ways
<1>2. Line' = Append(Line, q)
  BY Ways, SubmittedLast
<1>3. Current' = Current
  BY DEF Current, DriverBusy
<1>4. Life!HandOver(q)
  BY <1>1, <1>2, <1>3 DEF Life!HandOver
<1> QED BY <1>4 DEF Life!LifeNext

LEMMA LifeInUI ==
    ASSUME TypeOK, TypeOK', Once, FlagIsHanded, UIWork
    PROVE  [Life!LifeNext]_(Life!promptVars)
<1>q. QueueTypes
  BY CommandsAsNumbers
<1> USE DEF sessionVars, driverVars, busVars
<1>1. CASE DrainEvent
  <2>1. UNCHANGED <<commands, submitted, cancelled, driver, ended, typed>>
    BY <1>1 DEF DrainEvent
  <2>2. CASE UNCHANGED <<pending, nextPrompt>>
    BY <2>1, <2>2, LifeWithout DEF DriverBusy, Waits, OnBus, InQueue, Picked
  <2>3. CASE OnFinished
    <3>1. CASE pending = <<>>
      <4>1. nextPrompt' = NoPrompt /\ pending' = pending
        BY <2>3, <3>1 DEF OnFinished
      <4>2. \A p \in Prompts : Waits(p)' => Waits(p)
        BY <1>q, <2>1, <4>1 DEF Waits, OnBus, InQueue, Picked, NoPrompt, QueueTypes
      <4> QED BY <2>1, <4>2, LifeWithout DEF DriverBusy
    <3>2. CASE pending # <<>>
      <4>1. nextPrompt' = Head(pending) /\ pending' = Tail(pending)
        BY <2>3, <3>2 DEF OnFinished
      <4>2. /\ Holds(pending, Head(pending))
            /\ \A p \in Prompts : Holds(pending', p) => Holds(pending, p)
        <5>1. \A p \in Prompts : p # 0
          BY <1>q DEF QueueTypes
        <5> QED BY <1>q, <3>2, <4>1, <5>1, TailHolds DEF Once, QueueTypes
      <4>3. \A p \in Prompts : Waits(p)' => Waits(p)
        BY <2>1, <4>1, <4>2 DEF Waits, OnBus, InQueue, Picked
      <4> QED BY <2>1, <4>3, LifeWithout DEF DriverBusy
    <3> QED BY <3>1, <3>2
  <2>4. CASE OnFailed
    <3>1. pending' = <<>> /\ nextPrompt' = nextPrompt
      BY <2>4 DEF OnFailed
    <3>2. \A p : ~Holds(pending', p)
      BY <3>1 DEF Holds
    <3>3. \A p \in Prompts : Waits(p)' => Waits(p)
      BY <2>1, <3>1, <3>2 DEF Waits, OnBus, InQueue, Picked
    <3> QED BY <2>1, <3>3, LifeWithout DEF DriverBusy
  <2> QED BY <1>1, <2>2, <2>3, <2>4 DEF DrainEvent, OnStarted, OnText, OnStatus
<1>2. CASE DrainLagged
  BY <1>2, LifeWithout DEF DrainLagged, uiVars, DriverBusy, Waits, OnBus, InQueue, Picked
<1>3. CASE DrainDone
  <2>1. /\ UNCHANGED <<pending, commands, cancelled, driver, ended, typed>>
        /\ nextPrompt' = NoPrompt
    BY <1>3 DEF DrainDone
  <2>2. \A p \in Prompts : Waits(p)' <=> OnBus(p) \/ InQueue(p)
    BY <1>q, <2>1 DEF Waits, OnBus, InQueue, Picked, NoPrompt, QueueTypes
  <2>3. CASE nextPrompt = NoPrompt
    <3>1. submitted' = submitted
      BY <1>3, <2>3 DEF DrainDone
    <3> QED BY <2>1, <2>2, <3>1, LifeWithout DEF DriverBusy, Waits
  <2>4. CASE nextPrompt # NoPrompt
    <3>1. nextPrompt \in Prompts /\ StartSession(nextPrompt)
      BY <1>3, <2>4 DEF DrainDone, TypeOK
    <3>2. Waits(nextPrompt) /\ \A p \in Prompts : Waits(p)' <=> Waits(p) /\ p # nextPrompt
      BY <2>2, <3>1 DEF Waits, Picked, Once, Alone
    <3> QED BY <2>1, <3>1, <3>2, LifeSubmits
  <2> QED BY <2>3, <2>4
<1>4. CASE ApplyRun
  <2> DEFINE q == Head(commands).prompt
  <2>1. /\ UNCHANGED <<pending, nextPrompt, cancelled, driver, ended, typed>>
        /\ StartSession(q) /\ \E kind \in {"Run", "Skill"} : NextCommand(kind)
    BY <1>4 DEF ApplyRun
  <2>2. PICK kind \in {"Run", "Skill"} : NextCommand(kind)
    BY <2>1
  <2>3. /\ OnBus(q) /\ Head(commands) \in Command
        /\ \A p \in Prompts : OnBus(p)' <=> OnBus(p) /\ p # q
    BY <2>2, CommandTaken
  <2>4. q \in Prompts
    BY <2>2, <2>3 DEF NextCommand, Command
  <2> HIDE DEF q
  <2>5. Waits(q) /\ \A p \in Prompts : Waits(p)' <=> Waits(p) /\ p # q
    <3>1. \A p \in Prompts : (InQueue(p)' <=> InQueue(p)) /\ (Picked(p)' <=> Picked(p))
      BY <2>1 DEF InQueue, Picked
    <3> QED BY <2>3, <2>4, <3>1 DEF Waits, Once, Alone
  <2> QED BY <2>1, <2>4, <2>5, LifeSubmits
<1>5. CASE ApplyQueue
  <2> DEFINE q == Head(commands).prompt
  <2>1. /\ UNCHANGED <<nextPrompt, submitted, cancelled, driver, ended, typed>>
        /\ pending' = Append(pending, q) /\ NextCommand("Queue")
    BY <1>5 DEF ApplyQueue
  <2>2. /\ OnBus(q) /\ Head(commands) \in Command
        /\ \A p \in Prompts : OnBus(p)' <=> OnBus(p) /\ p # q
    BY <2>1, CommandTaken
  <2>3. q \in Nat /\ pending \in Seq(Nat)
    BY <1>q, <2>1, <2>2 DEF NextCommand, Command, QueueTypes
  <2> HIDE DEF q
  <2>4. \A p \in Prompts : InQueue(p)' <=> InQueue(p) \/ p = q
    BY <2>1, <2>3, AppendHolds DEF InQueue
  <2>5. \A p \in Prompts : Waits(p)' => Waits(p)
    BY <2>1, <2>2, <2>4 DEF Waits, Picked
  <2> QED BY <2>1, <2>5, LifeWithout DEF DriverBusy
<1>6. CASE ApplyCancel \/ ApplyClear
  <2>1. /\ UNCHANGED <<pending, nextPrompt, submitted, driver, ended, typed>>
        /\ \E kind \in {"Cancel", "Clear"} : NextCommand(kind)
        /\ cancelled' = cancelled \/ (flag # NoPrompt /\ cancelled' = cancelled \cup {flag})
    BY <1>6 DEF ApplyCancel, ApplyClear, Cancel
  <2>2. PICK kind \in {"Cancel", "Clear"} : NextCommand(kind)
    BY <2>1
  <2>3. /\ Head(commands) \in Command
        /\ \A p \in Prompts : OnBus(p)' <=> OnBus(p) /\ p # Head(commands).prompt
    BY <2>2, CommandTaken
  <2>4. Head(commands).prompt = 0
    BY <2>2, <2>3 DEF NextCommand, Command, NoPrompt
  <2>5. \A p \in Prompts : Waits(p)' <=> Waits(p)
    BY <1>q, <2>1, <2>3, <2>4 DEF Waits, InQueue, Picked, QueueTypes
  <2>6. CASE cancelled' = cancelled
    BY <2>1, <2>5, <2>6, LifeWithout DEF DriverBusy
  <2>7. CASE flag # NoPrompt /\ cancelled' = cancelled \cup {flag}
    <3>1. flag \in Prompts /\ flag \in Life!HandedOver
      BY <2>7 DEF TypeOK, FlagIsHanded
    <3>2. Waiting' = Waiting /\ Line' = Line /\ Current' = Current
      BY <2>1, <2>5, Ways DEF Current, DriverBusy
    <3>3. Life!Stop(flag)
      BY <2>1, <2>7, <3>1, <3>2 DEF Life!Stop
    <3> QED BY <3>1, <3>3 DEF Life!LifeNext
  <2> QED BY <2>1, <2>6, <2>7
<1>7. CASE CommandsDone \/ EndFrame \/ Joined
  BY <1>7, LifeWithout
     DEF CommandsDone, EndFrame, Joined, DriverBusy, Waits, OnBus, InQueue, Picked
<1> QED BY <1>1, <1>2, <1>3, <1>4, <1>5, <1>6, <1>7 DEF UIWork

LEMMA LifeWithUser ==
    ASSUME TypeOK, TypeOK', Once, User
    PROVE  [Life!LifeNext]_(Life!promptVars)
<1>q. QueueTypes /\ \A x \in Command : x.prompt \in Nat
  BY CommandsAsNumbers
<1>1. ASSUME NEW kind, NEW q \in Nat, [kind |-> kind, prompt |-> q] \in Command,
             Click(kind, q)
      PROVE  /\ UNCHANGED <<submitted, cancelled, driver, ended>>
             /\ \A p \in Prompts : Waits(p)' <=> Waits(p) \/ p = q
  <2>1. /\ UNCHANGED <<pending, nextPrompt, submitted, cancelled, driver, ended>>
        /\ commands' = Append(commands, [kind |-> kind, prompt |-> q])
    BY <1>1 DEF Click, uiVars, driverVars
  <2>2. Numbers(commands') = Append(Numbers(commands), q)
    <3> DEFINE c == [kind |-> kind, prompt |-> q]
    <3>1. c \in Command /\ c.prompt = q /\ commands \in Seq(Command)
          /\ commands' = Append(commands, c)
      BY <1>1, <2>1, CommandsAsNumbers
    <3> HIDE DEF c
    <3> QED BY <1>q, <3>1, NumbersFacts
  <2>3. \A p \in Prompts : OnBus(p)' <=> OnBus(p) \/ p = q
    BY <1>q, <2>2, AppendHolds DEF OnBus, QueueTypes
  <2> QED BY <2>1, <2>3 DEF Waits, InQueue, Picked
<1>2. CASE ClickStop \/ ClickClose
  <2>1. \E kind \in {"Cancel", "Clear"} : Click(kind, NoPrompt)
    BY <1>2 DEF ClickStop, ClickClose
  <2>2. /\ UNCHANGED <<submitted, cancelled, driver, ended>>
        /\ \A p \in Prompts : Waits(p)' <=> Waits(p) \/ p = 0
    BY <1>1, <2>1 DEF Command, NoPrompt
  <2>3. \A p \in Prompts : Waits(p)' => Waits(p)
    BY <1>q, <2>2 DEF QueueTypes
  <2>4. typed' = typed
    BY <1>2 DEF ClickStop, ClickClose
  <2> QED BY <2>2, <2>3, <2>4, LifeWithout DEF DriverBusy
<1>3. CASE SubmitPrompt \/ ClickSkill
  <2> DEFINE q == typed + 1
  <2>1. q \in Prompts /\ q \in Nat /\ typed' = q /\ typed \in Nat
    BY <1>3, MaxPromptsAssumption DEF SubmitPrompt, ClickSkill, TypeOK, Prompts
  <2>2. PICK kind \in {"Run", "Queue", "Skill"} : Click(kind, q)
    BY <1>3 DEF SubmitPrompt, ClickSkill
  <2>3. [kind |-> kind, prompt |-> q] \in Command
    BY <2>1 DEF Command
  <2>4. /\ UNCHANGED <<submitted, cancelled, driver, ended>>
        /\ \A p \in Prompts : Waits(p)' <=> Waits(p) \/ p = q
    BY <1>1, <2>1, <2>2, <2>3
  <2>5. q \notin 1 .. typed /\ 1 .. typed' = (1 .. typed) \cup {q}
    BY <2>1
  <2> HIDE DEF q
  <2>6. Waiting' = Waiting \cup {q} /\ Line' = Line /\ Current' = Current
    BY <2>1, <2>4, Ways DEF Current, DriverBusy
  <2>7. Life!Accept(q)
    BY <2>4, <2>5, <2>6 DEF Life!Accept
  <2> QED BY <2>1, <2>7 DEF Life!LifeNext
<1>4. CASE CloseWindow
  BY <1>4, LifeWithout
     DEF CloseWindow, sessionVars, busVars, driverVars, DriverBusy, Waits, OnBus, InQueue, Picked
<1> QED BY <1>2, <1>3, <1>4 DEF User

LEMMA LifeWithDriver ==
    ASSUME TypeOK, TypeOK', Driver
    PROVE  [Life!LifeNext]_(Life!promptVars)
<1>q. driver \in [at : DriverAt, job : Job]
  BY DEF TypeOK
<1> USE DEF DriverOnly, uiVars, busVars, GoTo
<1>w. /\ UNCHANGED <<commands, pending, nextPrompt, cancelled, typed>>
      /\ \A p \in Prompts : Waits(p)' <=> Waits(p)
  <2>1. UNCHANGED <<commands, pending, nextPrompt, cancelled, typed>>
    BY DEF Driver, TakePrompt, DriverExits, ResolveFails, BeginRun, LoopTest, TurnFails,
           TurnAnswers, RunTools, CloseRun, FinishRun, FinishFailedRun, DriverPanics
  <2> QED BY <2>1 DEF Waits, OnBus, InQueue, Picked
<1>1. CASE TakePrompt
  <2>1. /\ submitted # <<>> /\ submitted' = Tail(submitted) /\ driver.at = "idle"
        /\ driver' = [at |-> "resolve", job |-> Head(submitted)] /\ ended' = ended
    BY <1>1 DEF TakePrompt
  <2>2. /\ Line # <<>> /\ Line' = Tail(Line) /\ Head(Line) = Head(submitted).prompt
    BY <2>1, CommandsAsNumbers, NumbersFacts, Ways
  <2>3. Current = {} /\ Current' = {Head(Line)}
    BY <2>1, <2>2 DEF Current, DriverBusy
  <2>4. Waiting' = Waiting
    BY <1>w, Ways
  <2>5. Life!Begin
    BY <1>w, <2>1, <2>2, <2>3, <2>4 DEF Life!Begin
  <2> QED BY <2>5 DEF Life!LifeNext
<1>2. CASE DriverExits
  <2>1. ~DriverBusy /\ ~DriverBusy' /\ UNCHANGED <<submitted, ended>>
    BY <1>2, <1>q DEF DriverExits, DriverBusy
  <2> QED BY <1>w, <2>1, LifeWithout
<1>3. CASE ResolveFails \/ FinishRun \/ FinishFailedRun \/ DriverPanics
  <2>1. /\ DriverBusy /\ \E at \in {"idle", "gone"} : driver' = [driver EXCEPT !.at = at]
        /\ ended' = ended \cup {driver.job.prompt} /\ submitted' = submitted
    BY <1>3 DEF ResolveFails, FinishRun, FinishFailedRun, DriverPanics, DriverBusy
  <2>2. Current = {driver.job.prompt} /\ Current' = {}
    BY <1>q, <2>1 DEF Current, DriverBusy
  <2>3. Waiting' = Waiting /\ Line' = Line
    BY <1>w, <2>1, Ways
  <2>4. Life!End
    BY <1>w, <2>1, <2>2, <2>3 DEF Life!End
  <2> QED BY <2>4 DEF Life!LifeNext
<1>4. CASE BeginRun \/ LoopTest \/ TurnFails \/ TurnAnswers \/ RunTools \/ CloseRun
  <2>1. /\ driver.at \in {"resolve", "loop", "turn", "tools", "closing"}
        /\ \E at \in {"loop", "turn", "failing", "tools", "closing", "finishing"} :
             driver' = [driver EXCEPT !.at = at]
        /\ UNCHANGED <<submitted, ended>>
    BY <1>4 DEF BeginRun, LoopTest, TurnFails, TurnAnswers, RunTools, CloseRun
  <2>2. DriverBusy /\ DriverBusy' /\ driver'.job = driver.job
    BY <1>q, <2>1 DEF DriverBusy
  <2> QED BY <1>w, <2>1, <2>2, LifeWithout
<1> QED BY <1>1, <1>2, <1>3, <1>4 DEF Driver

LEMMA LifeStep ==
    ASSUME TypeOK, TypeOK', Once, FlagIsHanded, [Next]_vars
    PROVE  [Life!LifeNext]_(Life!promptVars)
<1>1. CASE UNCHANGED vars
  BY <1>1, LifeWithout DEF vars, DriverBusy, Waits, OnBus, InQueue, Picked
<1> QED BY <1>1, LifeInUI, LifeWithUser, LifeWithDriver DEF Next

\* What has been handed over stays so.
LEMMA HandedStays ==
    ASSUME Line \in Seq(Nat), [Life!LifeNext]_(Life!promptVars)
    PROVE  Life!HandedOver \subseteq (Life!HandedOver)'
<1>1. CASE UNCHANGED Line
  BY <1>1 DEF Life!LifeNext, Life!promptVars, Life!HandedOver, Life!Accept, Life!HandOver,
              Life!Stop, Life!Drop, Life!Begin, Life!End
<1>2. ASSUME NEW q \in Prompts, Life!HandOver(q)
      PROVE  Life!HandedOver \subseteq (Life!HandedOver)'
  <2>1. DOMAIN Line \subseteq DOMAIN Line' /\ \A i \in DOMAIN Line : Line'[i] = Line[i]
    BY <1>2 DEF Life!HandOver
  <2> QED BY <1>2, <2>1 DEF Life!HandOver, Life!HandedOver
<1>3. CASE Life!Begin
  <2>1. Line # <<>> /\ Line' = Tail(Line) /\ Current' = {Head(Line)} /\ ended' = ended
        /\ Current = {}
    BY <1>3 DEF Life!Begin
  <2>2. \A i \in DOMAIN Line : i = 1 \/ (i - 1 \in DOMAIN Line' /\ Line'[i - 1] = Line[i])
    BY <2>1
  <2>3. Head(Line) = Line[1]
    OBVIOUS
  <2>4. ASSUME NEW i \in DOMAIN Line PROVE Line[i] \in (Life!HandedOver)'
    <3>1. CASE i = 1
      BY <2>1, <2>3, <3>1 DEF Life!HandedOver
    <3>2. CASE i # 1
      <4>1. i - 1 \in DOMAIN Line' /\ Line'[i - 1] = Line[i]
        BY <2>2, <3>2
      <4> QED BY <4>1 DEF Life!HandedOver
    <3> QED BY <3>1, <3>2
  <2>5. Current \subseteq (Life!HandedOver)' /\ ended \subseteq (Life!HandedOver)'
    BY <2>1 DEF Life!HandedOver
  <2> QED BY <2>4, <2>5 DEF Life!HandedOver
<1> QED BY <1>1, <1>2, <1>3
     DEF Life!LifeNext, Life!promptVars, Life!Accept, Life!Stop, Life!Drop, Life!End

LEMMA FlagStep ==
    ASSUME TypeOK, TypeOK', Once, FlagIsHanded, [Next]_vars
    PROVE  FlagIsHanded'
<1>1. /\ Life!HandedOver \subseteq (Life!HandedOver)'
  BY LifeStep, HandedStays, Ways
<1>2. CASE flag' = flag
  BY <1>1, <1>2 DEF FlagIsHanded
<1>3. ASSUME NEW q \in Prompts, StartSession(q)
      PROVE  FlagIsHanded'
  <2>1. Line' = Append(Line, q) /\ flag' = q /\ Line \in Seq(Nat)
    BY <1>3, SubmittedLast, Ways
  <2>2. Len(Line) + 1 \in DOMAIN Line' /\ Line'[Len(Line) + 1] = q
    BY <2>1
  <2> QED BY <2>1, <2>2 DEF FlagIsHanded, Life!HandedOver
<1>4. CASE DrainDone
  BY <1>2, <1>3, <1>4 DEF DrainDone, TypeOK, sessionVars
<1>5. CASE ApplyRun
  <2>1. PICK kind \in {"Run", "Skill"} : NextCommand(kind)
    BY <1>5 DEF ApplyRun
  <2>2. Head(commands).prompt \in Prompts
    BY <2>1, CommandTaken DEF NextCommand, Command
  <2> QED BY <1>3, <1>5, <2>2 DEF ApplyRun
<1>6. DrainDone \/ ApplyRun \/ flag' = flag
  BY DEF Next, UIWork, User, Driver, vars, DrainEvent, DrainLagged, ApplyQueue, ApplyCancel,
         ApplyClear, CommandsDone, EndFrame, Joined, ClickStop, SubmitPrompt, ClickSkill,
         ClickClose, CloseWindow, Click, TakePrompt, DriverExits, ResolveFails, BeginRun,
         LoopTest, TurnFails, TurnAnswers, RunTools, CloseRun, FinishRun, FinishFailedRun, DriverPanics,
         DriverOnly, uiVars, sessionVars
<1> QED BY <1>2, <1>4, <1>5, <1>6

\* However the frames of the UI, the queue, the channel, the flags and the
\* driver thread interleave, prompts run in the order in which they were
\* submitted, one at a time, each once, and no prompt that still waits is
\* stopped.
THEOREM SessionKeepsPromises == Spec => ImplementsPromptLife
<1>1. Init => Life!LifeInit /\ FlagIsHanded
  <2> SUFFICES ASSUME Init PROVE Life!LifeInit /\ FlagIsHanded
    OBVIOUS
  <2>1. 1 .. typed = {} /\ Line = <<>> /\ Current = {}
    BY DEF Init, Line, Current, DriverBusy
  <2>2. Waiting = {}
    <3>1. DOMAIN commands = {} /\ DOMAIN pending = {} /\ nextPrompt = 0 /\ 0 \notin Prompts
      BY DEF Init, NoPrompt, Prompts
    <3> QED BY <3>1 DEF Waiting
  <2> QED BY <2>1, <2>2 DEF Init, Life!LifeInit, FlagIsHanded
<1>2. TypeOK /\ TypeOK' /\ Once /\ FlagIsHanded /\ [Next]_vars
        => FlagIsHanded' /\ [Life!LifeNext]_(Life!promptVars)
  BY FlagStep, LifeStep
<1> QED BY <1>1, <1>2, TypeCorrect, Onceness, PTL DEF Spec, ImplementsPromptLife, Life!LifeSpec
=============================================================================
