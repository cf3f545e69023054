--------------------------- MODULE DropOldestFeed ---------------------------
(***************************************************************************)
(* What an event bus promises its subscribers, with no channel, mutex or   *)
(* condition variable in sight: each member owns a private queue of at     *)
(* most Depth values.  A published value joins every member's queue; a     *)
(* queue that is full forgets its oldest value at that moment; a member    *)
(* sees the values of its queue oldest first.                              *)
(***************************************************************************)
EXTENDS Naturals

CONSTANTS Subscribers, Depth

VARIABLES
    published,  \* number of values published; a value is its number
    members,    \* the current subscribers
    queue,      \* queue[m]: the values m can still see
    seen        \* seen[m]: the values m has seen since it joined

feedVars == <<published, members, queue, seen>>

FeedInit ==
    /\ published = 0
    /\ members = {}
    /\ queue = [m \in Subscribers |-> {}]
    /\ seen = [m \in Subscribers |-> {}]

\* The values of a queue that are still within Depth of the next tail.
Newest(q, tail) == {i \in q : i + Depth >= tail}

\* A value nobody is subscribed to is not kept at all.
Publish ==
    /\ members # {}
    /\ published' = published + 1
    /\ queue' = [m \in Subscribers |->
                    IF m \in members
                    THEN Newest(queue[m] \cup {published}, published + 1)
                    ELSE {}]
    /\ UNCHANGED <<members, seen>>

Join(m) ==
    /\ m \notin members
    /\ members' = members \cup {m}
    /\ UNCHANGED <<published, queue, seen>>

Leave(m) ==
    /\ m \in members
    /\ members' = members \ {m}
    /\ queue' = [queue EXCEPT ![m] = {}]
    /\ seen' = [seen EXCEPT ![m] = {}]
    /\ UNCHANGED published

See(m) ==
    /\ \E i \in queue[m] :
        /\ \A j \in queue[m] : i <= j
        /\ queue' = [queue EXCEPT ![m] = @ \ {i}]
        /\ seen' = [seen EXCEPT ![m] = @ \cup {i}]
    /\ UNCHANGED <<published, members>>

FeedNext == Publish \/ \E m \in Subscribers : Join(m) \/ Leave(m) \/ See(m)

FeedSpec == FeedInit /\ [][FeedNext]_feedVars
=============================================================================
