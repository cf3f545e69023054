----------------------------- MODULE Broadcast -----------------------------
(***************************************************************************)
(* The part of tokio::sync::broadcast that the event buses of this program *)
(* are built on, as src/src/app/bus/core.rs uses it (external code).       *)
(*                                                                         *)
(* A channel is the number of values ever sent, `tail`.  The value sent    *)
(* when the tail was i has position i, and the ring keeps the newest       *)
(* `capacity` positions.  A receiver is the position it reads next.        *)
(***************************************************************************)
EXTENDS Naturals

\* The oldest position the ring still holds.
Oldest(tail, capacity) == IF tail > capacity THEN tail - capacity ELSE 0

\* The receiver was overtaken: the value it wants has been overwritten.
IsLagged(next, tail, capacity) == next < Oldest(tail, capacity)

\* The value at `next` is in the ring.
IsReady(next, tail, capacity) == next \in Oldest(tail, capacity) .. (tail - 1)

\* The receiver has seen everything.
IsDrained(next, tail) == next = tail

\* Positions a receiver at `next` gives up when its lag is reported: the
\* receiver is moved to the oldest value kept and the caller gets an error,
\* not a value.
SkippedByLag(next, tail, capacity) == next .. (Oldest(tail, capacity) - 1)
=============================================================================
