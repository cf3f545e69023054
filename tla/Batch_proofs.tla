---------------------------- MODULE Batch_proofs ----------------------------
(***************************************************************************)
(* Proofs about Batch for every number of jobs, permits, workers, models   *)
(* and batches: permits and jobs are accounted for, and once the flag is   *)
(* up no agent starts.                                                     *)
(***************************************************************************)
EXTENDS Batch, SequenceTheorems, FiniteSetTheorems, TLAPS

-----------------------------------------------------------------------------
(* The inductive invariant. *)

\* What a job can be, seen from where the spawning loop is.
Orderly(j) ==
    /\ job[j].task = "none" => job[j].status = IF j < next THEN "Cancelled"
                                                           ELSE "Pending"
    /\ job[j].task # "none" => j < next
    /\ job[j].task \in {"queued", "running", "ended"} => job[j].status = "Running"
    /\ job[j].task = "ended" => job[j].result \in {"Failed", "Cancelled", "panic"}
    /\ thread \in {"none", "discover", "build", "done"} => job[j].task \in {"none", "joined"}

\* Where the spawning loop is.
InPlace ==
    /\ next <= total + 1
    /\ thread = "acquire" => next <= total
    /\ thread \in {"discover", "build"} => next = 1 /\ tally = NoTally
    /\ thread = "join" => next = total + 1
    /\ handle <=> thread # "none"

Inv == /\ TypeOK /\ BooksBalance
       /\ \A j \in Jobs : Orderly(j)
       /\ InPlace

-----------------------------------------------------------------------------
(* Sets of jobs. *)

LEMMA JobSets ==
    ASSUME NEW S \in SUBSET Jobs
    PROVE  /\ IsFiniteSet(S) /\ Cardinality(S) \in Nat
           /\ \A j : j \notin S => Cardinality(S \cup {j}) = Cardinality(S) + 1
           /\ \A j \in S : Cardinality(S \ {j}) = Cardinality(S) - 1
<1>1. IsFiniteSet(Jobs)
  BY BatchAssumption, FS_Interval DEF Jobs
<1>2. IsFiniteSet(S)
  BY <1>1, FS_Subset
<1> QED BY <1>2, FS_CardinalityType, FS_AddElement, FS_RemoveElement

LEMMA Numbers ==
    ASSUME TypeOK
    PROVE  /\ total \in Nat /\ total <= MaxJobs /\ next \in Nat /\ next > 0
           /\ MaxJobs \in Nat /\ Concurrency \in Nat /\ Concurrency > 0
           /\ permits \in Int /\ permits >= 0 /\ permits <= Concurrency
           /\ \A j : j \in Jobs <=> j \in Nat /\ j > 0 /\ j <= MaxJobs
           /\ \A j : j \in Mine <=> j \in Nat /\ j > 0 /\ j <= total
           /\ tally.completed \in Nat /\ tally.failed \in Nat /\ tally.cancelled \in Nat
           /\ Holding \subseteq Jobs /\ Counted \subseteq Jobs
<1>1. /\ total \in 0..MaxJobs /\ next \in 1..(MaxJobs + 1) /\ permits \in 0..Concurrency
      /\ tally \in [completed: Nat, failed: Nat, cancelled: Nat]
  BY DEF TypeOK
<1>2. MaxJobs \in Nat /\ Concurrency \in Nat /\ Concurrency > 0
  BY BatchAssumption
<1>3. \A j : j \in Mine <=> j \in Nat /\ j > 0 /\ j <= total
  BY <1>1, <1>2 DEF Mine
<1>4. \A j : j \in Jobs <=> j \in Nat /\ j > 0 /\ j <= MaxJobs
  BY <1>2 DEF Jobs
<1>5. Mine \subseteq Jobs
  BY <1>1, <1>2, <1>3, <1>4
<1> QED BY <1>1, <1>2, <1>3, <1>4, <1>5 DEF Holding, Counted

-----------------------------------------------------------------------------
(* Steps of the UI and of the loops that touch no job. *)

LEMMA SameJobs ==
    ASSUME Inv, UNCHANGED <<total, next, permits, job, tally>>, InPlace',
           \A j \in Jobs : Orderly(j)', thread' = "done" => Counted = Mine \/ next = 1
    PROVE  BooksBalance'
<1>1. Holding' = Holding /\ Counted' = Counted /\ Mine' = Mine
  BY DEF Holding, Counted, Mine
<1> QED BY <1>1 DEF Inv, BooksBalance, PermitsConserved, Accounted

\* A new batch has neither jobs nor permits given out.
LEMMA FreshBatch ==
    ASSUME Inv, total' = 0, next' = 1, permits' = Concurrency, tally' = NoTally,
           job' = [j \in Jobs |-> FreshJob], thread' = "discover", handle'
    PROVE  BooksBalance' /\ InPlace' /\ \A j \in Jobs : Orderly(j)'
<1>1. \A j \in Jobs : job'[j].task = "none" /\ job'[j].status = "Pending"
  BY DEF FreshJob
<1>2. Holding' = {} /\ Mine' = {} /\ Counted' = {}
  BY <1>1 DEF Holding, Mine, Counted
<1>3. Concurrency \in Nat /\ Cardinality({}) = 0
  BY BatchAssumption, FS_EmptySet
<1>4. BooksBalance'
  BY <1>2, <1>3 DEF BooksBalance, PermitsConserved, Accounted, NoTally
<1>5. \A j \in Jobs : ~(j < 1)
  BY DEF Jobs
<1> QED BY <1>1, <1>4, <1>5 DEF InPlace, Orderly

LEMMA UiKeeps ==
    ASSUME Inv, UiStep
    PROVE  BooksBalance' /\ InPlace' /\ \A j \in Jobs : Orderly(j)'
<1>1. CASE UNCHANGED <<total, next, permits, job, tally, thread, handle>>
  <2>1. InPlace' /\ \A j \in Jobs : Orderly(j)'
    BY <1>1 DEF Inv, InPlace, Orderly
  <2>2. thread' = "done" => Counted = Mine \/ next = 1
    BY <1>1 DEF Inv, BooksBalance, Accounted
  <2> QED BY <1>1, <2>1, <2>2, SameJobs
<1>2. CASE DrainOne
  <2>1. CASE /\ ~handle /\ handle' = TRUE /\ thread' = "discover"
             /\ total' = 0 /\ next' = 1 /\ permits' = Concurrency
             /\ job' = [j \in Jobs |-> FreshJob] /\ tally' = NoTally
    BY <2>1, FreshBatch
  <2>2. CASE UNCHANGED <<total, next, permits, job, tally, thread, handle>>
    BY <2>2, <1>1
  <2> QED BY <1>2, <2>1, <2>2 DEF DrainOne, Apply, StartBatch
<1>3. CASE EndDrain \/ Draw
  BY <1>1, <1>3 DEF EndDrain, Draw, poolVars
<1>4. CASE Deferred
  <2>1. CASE handle /\ thread = "done"
    <3>1. /\ handle' = FALSE /\ thread' = "none"
          /\ UNCHANGED <<total, next, permits, job, tally>>
      BY <1>4, <2>1 DEF Deferred, poolVars
    <3>2. InPlace' /\ \A j \in Jobs : Orderly(j)'
      BY <2>1, <3>1 DEF Inv, InPlace, Orderly
    <3> QED BY <3>1, <3>2, SameJobs
  <2>2. CASE ~(handle /\ thread = "done")
    BY <1>1, <1>4, <2>2 DEF Deferred, poolVars
  <2> QED BY <2>1, <2>2
<1> QED BY <1>2, <1>3, <1>4 DEF UiStep

LEMMA DiscoverKeeps ==
    ASSUME Inv, Discover
    PROVE  BooksBalance' /\ InPlace' /\ \A j \in Jobs : Orderly(j)'
<1>1. PICK n \in 0..MaxJobs : total' = n /\ thread' = IF n = 0 THEN "done" ELSE "build"
  BY DEF Discover
<1>2. thread = "discover" /\ UNCHANGED <<handle, next, permits, job, tally>>
  BY DEF Discover, uiVars, poolVars
<1>3. next = 1 /\ tally = NoTally /\ handle
  BY <1>2 DEF Inv, InPlace
<1>4. \A j \in Jobs : job[j].task = "none" /\ job[j].status = "Pending"
  <2> TAKE j \in Jobs
  <2>1. ~(j < next)
    BY <1>3 DEF Jobs
  <2> QED BY <2>1 DEF Inv, Orderly
<1>5. Mine' \subseteq Jobs
  BY <1>1, BatchAssumption DEF Mine, Jobs
<1>6. Counted' = {}
  BY <1>2, <1>4, <1>5 DEF Counted
<1>7. n = 0 => Mine' = {}
  BY <1>1 DEF Mine
<1>8. Holding' = Holding
  BY <1>2 DEF Holding
<1>9. BooksBalance'
  <2>1. tally'.completed + tally'.failed + tally'.cancelled = 0 /\ Cardinality({}) = 0
    BY <1>2, <1>3, FS_EmptySet DEF NoTally
  <2> QED BY <1>1, <1>2, <1>6, <1>7, <1>8, <2>1
          DEF Inv, BooksBalance, PermitsConserved, Accounted
<1>10. InPlace'
  BY <1>1, <1>2, <1>3 DEF InPlace
<1>11. \A j \in Jobs : Orderly(j)'
  BY <1>1, <1>2, <1>4 DEF Inv, Orderly
<1> QED BY <1>9, <1>10, <1>11

LEMMA LoopKeeps ==
    ASSUME Inv, Build \/ AllSpawned \/ EndBatch
    PROVE  BooksBalance' /\ InPlace' /\ \A j \in Jobs : Orderly(j)'
<1>0. CASE Build
  <2>1. /\ thread = "build" /\ thread' \in {"test", "done"}
        /\ UNCHANGED <<handle, total, next, permits, job, tally>>
    BY <1>0 DEF Build, uiVars, poolVars
  <2>2. next = 1
    BY <2>1 DEF Inv, InPlace
  <2>3. InPlace' /\ \A j \in Jobs : Orderly(j)'
    BY <2>1, <2>2 DEF Inv, InPlace, Orderly
  <2> QED BY <2>1, <2>2, <2>3, SameJobs
<1>1. CASE AllSpawned
  <2>1. /\ thread = "test" /\ next > total /\ thread' = "join"
        /\ UNCHANGED <<handle, total, next, permits, job, tally>>
    BY <1>1 DEF AllSpawned, uiVars, poolVars
  <2>2. next = total + 1
    BY <2>1, Numbers DEF Inv, InPlace
  <2>3. InPlace' /\ \A j \in Jobs : Orderly(j)'
    BY <2>1, <2>2 DEF Inv, InPlace, Orderly
  <2> QED BY <2>1, <2>3, SameJobs
<1>2. CASE EndBatch
  <2>1. /\ thread = "join" /\ thread' = "done"
        /\ \A j \in Jobs : job[j].task \in {"none", "joined"}
        /\ UNCHANGED <<handle, total, next, permits, job, tally>>
    BY <1>2 DEF EndBatch, uiVars, poolVars
  <2>2. InPlace' /\ \A j \in Jobs : Orderly(j)'
    BY <2>1 DEF Inv, InPlace, Orderly
  <2>3. ASSUME NEW j \in Mine PROVE j \in Counted
    <3>1. j \in Jobs /\ j < next
      BY <2>1, <2>3, Numbers DEF Inv, InPlace
    <3> QED BY <2>1, <3>1 DEF Inv, Orderly, Counted
  <2>4. Counted = Mine
    BY <2>3 DEF Counted
  <2> QED BY <2>1, <2>2, <2>4, SameJobs
<1> QED BY <1>0, <1>1, <1>2

-----------------------------------------------------------------------------
(* Steps that touch one job. *)

\* Job k is another one, or none.
Others(k) == \A j \in Jobs : j # k => job'[j] = job[j]

LEMMA OthersKeep ==
    ASSUME Inv, NEW k \in Jobs, Others(k), next' = next \/ (k = next /\ next' = next + 1),
           thread' = thread \/ thread' \in {"test", "acquire", "join"}
    PROVE  \A j \in Jobs : j # k => Orderly(j)'
<1> SUFFICES ASSUME NEW j \in Jobs, j # k PROVE Orderly(j)'
  OBVIOUS
<1>1. job'[j] = job[j]
  BY DEF Others
<1>2. j < next' <=> j < next
  BY Numbers DEF Inv
<1> QED BY <1>1, <1>2 DEF Inv, Orderly

\* A job cancelled before its spawn is counted at once.
LEMMA TestFlagKeeps ==
    ASSUME Inv, TestFlag
    PROVE  BooksBalance' /\ InPlace' /\ \A j \in Jobs : Orderly(j)'
<1>1. thread = "test" /\ next \in Mine /\ UNCHANGED <<handle, total, permits>>
  BY DEF TestFlag, uiVars
<1>2. next \in Jobs /\ next <= total /\ next \in Nat /\ total \in Nat
  BY <1>1, Numbers DEF Inv
<1>3. CASE ~flag
  <2>1. thread' = "acquire" /\ UNCHANGED <<job, tally, next>>
    BY <1>3 DEF TestFlag
  <2>2. InPlace' /\ \A j \in Jobs : Orderly(j)'
    BY <1>1, <1>2, <2>1 DEF Inv, InPlace, Orderly
  <2> QED BY <1>1, <2>1, <2>2, SameJobs
<1>4. CASE flag
  <2> DEFINE k == next
             rec == [job[k] EXCEPT !.status = "Cancelled"]
  <2>1. /\ job' = [job EXCEPT ![k] = rec] /\ next' = k + 1 /\ thread' = thread
        /\ tally' = [tally EXCEPT !.cancelled = @ + 1]
    BY <1>4 DEF TestFlag
  <2>2. job[k] \in Job /\ job \in [Jobs -> Job] /\ k \in Jobs
        /\ tally \in [completed: Nat, failed: Nat, cancelled: Nat]
    BY <1>2 DEF Inv, TypeOK
  <2>3. rec.status = "Cancelled" /\ rec.task = job[k].task
    BY <2>2 DEF Job
  <2>4. job[k].task = "none" /\ job[k].status = "Pending"
    <3>1. ~(k < next)
      BY <1>2
    <3> QED BY <2>2, <3>1 DEF Inv, Orderly
  <2> HIDE DEF rec
  <2>5. job'[k] = rec /\ Others(k)
    BY <2>1, <2>2 DEF Others
  <2>6. \A j \in Jobs : Orderly(j)'
    <3>1. \A j \in Jobs : j = k => Orderly(j)'
      BY <1>1, <1>2, <2>1, <2>3, <2>4, <2>5 DEF Orderly
    <3>2. \A j \in Jobs : j # k => Orderly(j)'
      BY <1>1, <2>1, <2>2, <2>5, OthersKeep
    <3> QED BY <3>1, <3>2
  <2>7. Holding' = Holding
    BY <2>3, <2>4, <2>5 DEF Holding, Others
  <2>8. Counted' = Counted \cup {k} /\ k \notin Counted
    <3>1. Mine' = Mine /\ Mine \subseteq Jobs /\ k \in Mine
      BY <1>1, Numbers DEF Inv, Mine
    <3> QED BY <2>3, <2>4, <2>5, <3>1 DEF Counted, Others
  <2>9. BooksBalance'
    <3>1. Cardinality(Counted') = Cardinality(Counted) + 1
      BY <2>8, JobSets, Numbers DEF Inv
    <3>2. tally'.completed + tally'.failed + tally'.cancelled
            = tally.completed + tally.failed + tally.cancelled + 1
      BY <2>1, <2>2
    <3> QED BY <1>1, <2>1, <2>7, <3>1, <3>2
            DEF Inv, BooksBalance, PermitsConserved, Accounted
  <2>10. InPlace'
    BY <1>1, <1>2, <2>1 DEF Inv, InPlace
  <2> QED BY <2>6, <2>9, <2>10
<1> QED BY <1>3, <1>4

\* A spawned job takes a permit.
LEMMA AcquireKeeps ==
    ASSUME Inv, Acquire
    PROVE  BooksBalance' /\ InPlace' /\ \A j \in Jobs : Orderly(j)'
<1> DEFINE k == next
           rec == [job[k] EXCEPT !.status = "Running", !.task = "queued",
                                 !.model = counter % ModelCount]
<1>1. /\ thread = "acquire" /\ permits > 0 /\ permits' = permits - 1
      /\ job' = [job EXCEPT ![k] = rec] /\ next' = k + 1 /\ thread' = "test"
      /\ UNCHANGED <<handle, total, tally>>
  BY DEF Acquire, uiVars
<1>2. k \in Jobs /\ k <= total /\ k \in Nat /\ total \in Nat
  BY <1>1, Numbers DEF Inv, InPlace
<1>3. job[k] \in Job /\ job \in [Jobs -> Job]
  BY <1>2 DEF Inv, TypeOK
<1>4. rec.status = "Running" /\ rec.task = "queued"
  BY <1>3 DEF Job
<1>5. job[k].task = "none" /\ job[k].status = "Pending"
  <2>1. ~(k < next)
    BY <1>2
  <2> QED BY <1>2, <2>1 DEF Inv, Orderly
<1> HIDE DEF rec
<1>6. job'[k] = rec /\ Others(k)
  BY <1>1, <1>2, <1>3 DEF Others
<1>7. \A j \in Jobs : Orderly(j)'
  <2>1. \A j \in Jobs : j = k => Orderly(j)'
    BY <1>1, <1>2, <1>4, <1>6 DEF Orderly
  <2>2. \A j \in Jobs : j # k => Orderly(j)'
    BY <1>1, <1>2, <1>6, OthersKeep
  <2> QED BY <2>1, <2>2
<1>8. Counted' = Counted /\ Mine' = Mine
  <2>1. Mine' = Mine /\ Mine \subseteq Jobs
    BY <1>1, Numbers DEF Inv, Mine
  <2> QED BY <1>4, <1>5, <1>6, <2>1 DEF Counted, Others
<1>9. Holding' = Holding \cup {k} /\ k \notin Holding
  BY <1>2, <1>4, <1>5, <1>6 DEF Holding, Others
<1>10. BooksBalance'
  <2>1. Cardinality(Holding') = Cardinality(Holding) + 1 /\ Cardinality(Holding) \in Nat
    BY <1>9, JobSets, Numbers DEF Inv
  <2>2. permits \in Int /\ Concurrency \in Nat
    BY Numbers DEF Inv
  <2> QED BY <1>1, <1>8, <2>1, <2>2
          DEF Inv, BooksBalance, PermitsConserved, Accounted
<1>11. InPlace'
  BY <1>1, <1>2 DEF Inv, InPlace
<1> QED BY <1>7, <1>10, <1>11

\* The join counts a task that has ended, once.
LEMMA CountKeeps ==
    ASSUME Inv, NEW k \in Jobs, Count(k)
    PROVE  BooksBalance' /\ InPlace' /\ \A j \in Jobs : Orderly(j)'
<1>1. /\ thread = "join" /\ job[k].task = "ended"
      /\ UNCHANGED <<handle, thread, total, next, permits>>
  BY DEF Count, uiVars
<1>2. /\ job[k] \in Job /\ job \in [Jobs -> Job] /\ k < next
      /\ tally \in [completed: Nat, failed: Nat, cancelled: Nat]
      /\ job[k].status = "Running"
  BY <1>1 DEF Inv, TypeOK, Orderly
<1>3. job' \in [Jobs -> [status: Status \cup {"panic"}, task: Task, result: Status \cup {"panic"}, model: Models]]
      /\ job'[k].task = "joined" /\ Others(k)
      /\ tally'.completed + tally'.failed + tally'.cancelled
            = tally.completed + tally.failed + tally.cancelled + 1
  <2>1. CASE job[k].result = "panic"
    <3>1. /\ job' = [job EXCEPT ![k] = [job[k] EXCEPT !.task = "joined"]]
          /\ tally' = [tally EXCEPT !.failed = @ + 1]
      BY <2>1 DEF Count
    <3>2. [job[k] EXCEPT !.task = "joined"].task = "joined"
      BY <1>2 DEF Job
    <3>3. tally'.completed + tally'.failed + tally'.cancelled
            = tally.completed + tally.failed + tally.cancelled + 1
      BY <1>2, <3>1
    <3> QED BY <1>2, <3>1, <3>2, <3>3 DEF Others, Job, Task
  <2>2. CASE job[k].result # "panic"
    <3> DEFINE rec == [job[k] EXCEPT !.task = "joined", !.status = job[k].result]
    <3>1. /\ job' = [job EXCEPT ![k] = rec]
          /\ \/ tally' = [tally EXCEPT !.failed = @ + 1]
             \/ tally' = [tally EXCEPT !.cancelled = @ + 1]
      BY <2>2 DEF Count
    <3>2. rec.task = "joined" /\ rec \in Job
      BY <1>2, <2>2 DEF Job, Task
    <3> HIDE DEF rec
    <3>3. tally'.completed + tally'.failed + tally'.cancelled
            = tally.completed + tally.failed + tally.cancelled + 1
      BY <1>2, <3>1
    <3> QED BY <1>2, <3>1, <3>2, <3>3 DEF Others, Job
  <2> QED BY <2>1, <2>2
<1>4. \A j \in Jobs : Orderly(j)'
  <2>1. Orderly(k)'
    BY <1>1, <1>2, <1>3 DEF Orderly
  <2>2. \A j \in Jobs : j # k => Orderly(j)'
    BY <1>1, <1>3, OthersKeep
  <2> QED BY <2>1, <2>2
<1>5. Holding' = Holding
  BY <1>1, <1>3 DEF Holding, Others
<1>6. Counted' = Counted \cup {k} /\ k \notin Counted
  <2>1. Mine' = Mine /\ Mine \subseteq Jobs
    BY <1>1, Numbers DEF Inv, Mine
  <2>2. k \in Mine
    BY <1>1, <1>2, Numbers DEF Inv, InPlace
  <2> QED BY <1>1, <1>2, <1>3, <2>1, <2>2 DEF Counted, Others
<1>7. BooksBalance'
  <2>1. Cardinality(Counted') = Cardinality(Counted) + 1
    BY <1>6, JobSets, Numbers DEF Inv
  <2> QED BY <1>1, <1>3, <1>5, <2>1 DEF Inv, BooksBalance, PermitsConserved, Accounted
<1>8. InPlace'
  BY <1>1 DEF Inv, InPlace
<1> QED BY <1>4, <1>7, <1>8

-----------------------------------------------------------------------------
(* The tasks. *)

\* A task that ends, by whatever way, gives its permit back.
LEMMA EndKeeps ==
    ASSUME Inv, NEW k \in Jobs, job[k].task \in {"queued", "running"},
           NEW r \in {"Failed", "Cancelled", "panic"}, EndTask(k, r),
           UNCHANGED <<handle, thread, total, next, tally>>
    PROVE  /\ BooksBalance' /\ InPlace' /\ \A j \in Jobs : Orderly(j)'
           /\ permits' \in 0..Concurrency /\ job' \in [Jobs -> Job]
<1> DEFINE rec == [job[k] EXCEPT !.task = "ended", !.result = r]
<1>1. permits' = permits + 1 /\ job' = [job EXCEPT ![k] = rec]
  BY DEF EndTask
<1>2. job[k] \in Job /\ job \in [Jobs -> Job] /\ job[k].status = "Running" /\ k < next
  BY DEF Inv, TypeOK, Orderly
<1>3. rec \in Job /\ rec.task = "ended" /\ rec.result = r /\ rec.status = "Running"
  BY <1>2 DEF Job, Task, Status
<1> HIDE DEF rec
<1>4. job'[k] = rec /\ Others(k) /\ job' \in [Jobs -> Job]
  BY <1>1, <1>2, <1>3 DEF Others
<1>5. thread \notin {"none", "discover", "build", "done"}
  BY DEF Inv, Orderly
<1>6. \A j \in Jobs : Orderly(j)'
  <2>1. Orderly(k)'
    BY <1>2, <1>3, <1>4, <1>5 DEF Orderly
  <2>2. \A j \in Jobs : j # k => Orderly(j)'
    BY <1>4, OthersKeep
  <2> QED BY <2>1, <2>2
<1>7. Holding' = Holding \ {k} /\ k \in Holding
  BY <1>3, <1>4 DEF Holding, Others
<1>8. Counted' = Counted /\ Mine' = Mine
  <2>1. Mine' = Mine /\ Mine \subseteq Jobs
    BY Numbers DEF Inv, Mine
  <2> QED BY <1>2, <1>3, <1>4, <2>1 DEF Counted, Others
<1>9. /\ Cardinality(Holding') = Cardinality(Holding) - 1
      /\ Cardinality(Holding) \in Nat /\ Cardinality(Holding') \in Nat
  <2>1. Holding \in SUBSET Jobs /\ Holding' \in SUBSET Jobs
    BY <1>7, Numbers DEF Inv
  <2> QED BY <1>7, <2>1, JobSets
<1>10. permits \in Int /\ permits >= 0 /\ Concurrency \in Nat
       /\ permits + Cardinality(Holding) = Concurrency
  BY Numbers DEF Inv, BooksBalance, PermitsConserved
<1>11. permits' \in 0..Concurrency /\ permits' + Cardinality(Holding') = Concurrency
  BY <1>1, <1>9, <1>10
<1>12. BooksBalance'
  BY <1>8, <1>11 DEF Inv, BooksBalance, PermitsConserved, Accounted
<1>13. InPlace'
  BY DEF Inv, InPlace
<1> QED BY <1>4, <1>6, <1>11, <1>12, <1>13

\* A task that starts keeps its permit.
LEMMA BeginKeeps ==
    ASSUME Inv, NEW k \in Jobs, job[k].task = "queued",
           job' = [job EXCEPT ![k].task = "running"],
           UNCHANGED <<handle, thread, total, next, tally, permits>>
    PROVE  /\ BooksBalance' /\ InPlace' /\ \A j \in Jobs : Orderly(j)'
           /\ permits' \in 0..Concurrency /\ job' \in [Jobs -> Job]
<1> DEFINE rec == [job[k] EXCEPT !.task = "running"]
<1>1. job' = [job EXCEPT ![k] = rec]
  OBVIOUS
<1>2. job[k] \in Job /\ job \in [Jobs -> Job] /\ job[k].status = "Running" /\ k < next
  BY DEF Inv, TypeOK, Orderly
<1>3. rec \in Job /\ rec.task = "running" /\ rec.status = "Running"
  BY <1>2 DEF Job, Task
<1> HIDE DEF rec
<1>4. job'[k] = rec /\ Others(k) /\ job' \in [Jobs -> Job]
  BY <1>1, <1>2, <1>3 DEF Others
<1>5. thread \notin {"none", "discover", "build", "done"}
  BY DEF Inv, Orderly
<1>6. \A j \in Jobs : Orderly(j)'
  <2>1. Orderly(k)'
    BY <1>2, <1>3, <1>4, <1>5 DEF Orderly
  <2>2. \A j \in Jobs : j # k => Orderly(j)'
    BY <1>4, OthersKeep
  <2> QED BY <2>1, <2>2
<1>7. Holding' = Holding
  BY <1>3, <1>4 DEF Holding, Others
<1>8. Counted' = Counted /\ Mine' = Mine
  <2>1. Mine' = Mine /\ Mine \subseteq Jobs
    BY Numbers DEF Inv, Mine
  <2> QED BY <1>2, <1>3, <1>4, <2>1 DEF Counted, Others
<1>9. BooksBalance'
  BY <1>7, <1>8 DEF Inv, BooksBalance, PermitsConserved, Accounted
<1>10. InPlace' /\ permits' \in 0..Concurrency
  BY DEF Inv, InPlace, TypeOK
<1> QED BY <1>4, <1>6, <1>9, <1>10

LEMMA TaskKeeps ==
    ASSUME Inv, NEW k \in Jobs, TaskStep(k)
    PROVE  /\ BooksBalance' /\ InPlace' /\ \A j \in Jobs : Orderly(j)'
           /\ permits' \in 0..Concurrency /\ job' \in [Jobs -> Job]
<1>1. UNCHANGED <<handle, thread, total, next, tally>>
  BY DEF TaskStep, Begin, NoClient, Panic, uiVars
<1>2. CASE job[k].task = "queued" /\ EndTask(k, "Cancelled")
  BY <1>1, <1>2, EndKeeps
<1>3. CASE job[k].task = "queued" /\ job' = [job EXCEPT ![k].task = "running"]
           /\ UNCHANGED permits
  BY <1>1, <1>3, BeginKeeps
<1>4. CASE job[k].task = "running" /\ EndTask(k, "Failed")
  BY <1>1, <1>4, EndKeeps
<1>5. CASE job[k].task = "running" /\ EndTask(k, "panic")
  BY <1>1, <1>5, EndKeeps
<1> QED BY <1>2, <1>3, <1>4, <1>5 DEF TaskStep, Begin, NoClient, Panic

-----------------------------------------------------------------------------
(* Types. *)

LEMMA TallyTypes ==
    ASSUME TypeOK
    PROVE  LET Tally == [completed: Nat, failed: Nat, cancelled: Nat] IN
             /\ tally \in Tally
             /\ [tally EXCEPT !.failed = @ + 1] \in Tally
             /\ [tally EXCEPT !.cancelled = @ + 1] \in Tally
<1>1. tally \in [completed: Nat, failed: Nat, cancelled: Nat]
  BY DEF TypeOK
<1>2. tally.failed + 1 \in Nat /\ tally.cancelled + 1 \in Nat
  BY <1>1
<1> QED BY <1>1, <1>2

LEMMA TypesKept ==
    ASSUME Inv, [Next]_vars
    PROVE  TypeOK'
<1> USE DEF Inv
<1>1. CASE UNCHANGED vars
  BY <1>1 DEF vars, uiVars, poolVars, TypeOK
<1>2. CASE DrainOne
  <2>1. commands' \in Seq({"OpenBatchDialog", "StartBatch", "CancelBatch"})
    BY <1>2 DEF DrainOne, TypeOK
  <2>2. CASE UNCHANGED <<handle, batches, flag, thread, total, next, permits,
                         counter, job, tally, logs>>
             /\ open' \in BOOLEAN /\ UNCHANGED <<frame, usable>>
    BY <2>1, <2>2 DEF TypeOK
  <2>3. CASE StartBatch /\ UNCHANGED <<open, frame, usable>> /\ ~handle
    <3>1. FreshJob \in Job
      BY BatchAssumption DEF FreshJob, Job, Status, Task, Models
    <3>2. job' \in [Jobs -> Job] /\ permits' \in 0..Concurrency /\ total' \in 0..MaxJobs
          /\ next' \in 1..(MaxJobs + 1) /\ counter' \in Nat
          /\ tally' \in [completed: Nat, failed: Nat, cancelled: Nat]
      BY <2>3, <3>1, BatchAssumption DEF StartBatch, NoTally
    <3>3. /\ frame' \in {"drain", "draw", "deferred"} /\ open' \in BOOLEAN
          /\ handle' \in BOOLEAN /\ flag' \in BOOLEAN /\ usable' \subseteq Models
          /\ thread' \in {"none", "discover", "build", "test", "acquire", "join", "done"}
      BY <2>3 DEF StartBatch, TypeOK
    <3>4. logs' \in Nat /\ batches' \in Nat
      BY <2>3 DEF StartBatch, TypeOK
    <3> QED BY <2>1, <3>2, <3>3, <3>4 DEF TypeOK
  <2> QED BY <1>2, <2>2, <2>3 DEF DrainOne, Apply, StartBatch, TypeOK
<1>3. CASE EndDrain \/ Deferred
  BY <1>3 DEF EndDrain, Deferred, poolVars, TypeOK
<1>4. CASE Draw
  <2> DEFINE K == {"OpenBatchDialog", "StartBatch", "CancelBatch"}
  <2>1. open' \in BOOLEAN /\ flag' \in BOOLEAN
    BY <1>4 DEF Draw, ClickOpen, ClickProcess, ClickLeave, ClickCancel, CloseWindow,
                NoClick, TypeOK
  <2>2. commands' = commands \/ \E c \in K : commands' = Append(commands, c)
    BY <1>4 DEF Draw, ClickOpen, ClickProcess, ClickLeave, ClickCancel, CloseWindow,
                NoClick, Publish
  <2>3. commands \in Seq(K)
    BY DEF TypeOK
  <2>4. commands' \in Seq(K)
    <3> HIDE DEF K
    <3> QED BY <2>2, <2>3, AppendProperties
  <2>5. frame' = "deferred"
        /\ UNCHANGED <<handle, batches, thread, total, next, poolVars, usable, tally, logs>>
    BY <1>4 DEF Draw
  <2> QED BY <2>1, <2>4, <2>5 DEF poolVars, TypeOK
<1>5. CASE Discover \/ Build
  BY <1>5, BatchAssumption DEF Discover, Build, uiVars, poolVars, TypeOK
<1>6. CASE TestFlag
  <2>1. next \in Jobs /\ next + 1 \in 1..(MaxJobs + 1)
    BY <1>6, Numbers DEF TestFlag
  <2>2. [job[next] EXCEPT !.status = "Cancelled"] \in Job
    BY <2>1 DEF Job, Status, TypeOK
  <2>3. job' \in [Jobs -> Job]
    BY <1>6, <2>1, <2>2 DEF TestFlag, TypeOK
  <2>4. tally' \in [completed: Nat, failed: Nat, cancelled: Nat]
    <3>1. tally' = tally \/ tally' = [tally EXCEPT !.cancelled = @ + 1]
      BY <1>6 DEF TestFlag
    <3> QED BY <3>1, TallyTypes
  <2>5. next' \in 1..(MaxJobs + 1) /\ thread' \in {"test", "acquire"}
    BY <1>6, <2>1 DEF TestFlag, TypeOK
  <2> QED BY <1>6, <2>3, <2>4, <2>5 DEF TestFlag, uiVars, TypeOK
<1>7. CASE Acquire
  <2>1. next \in Jobs /\ next + 1 \in 1..(MaxJobs + 1)
    BY <1>7, Numbers DEF Acquire, InPlace
  <2>2. counter \in Nat /\ counter + 1 \in Nat /\ counter % ModelCount \in Models
    BY BatchAssumption DEF TypeOK, Models
  <2>3. [job[next] EXCEPT !.status = "Running", !.task = "queued",
                          !.model = counter % ModelCount] \in Job
    BY <2>1, <2>2 DEF Job, Status, Task, TypeOK
  <2>4. job' \in [Jobs -> Job]
    BY <1>7, <2>1, <2>3 DEF Acquire, TypeOK
  <2>5. permits' \in 0..Concurrency
    BY <1>7, Numbers DEF Acquire
  <2> QED BY <1>7, <2>1, <2>2, <2>4, <2>5 DEF Acquire, uiVars, TypeOK
<1>8. CASE AllSpawned \/ EndBatch
  BY <1>8 DEF AllSpawned, EndBatch, uiVars, poolVars, TypeOK
<1>9. ASSUME NEW k \in Jobs, Count(k) PROVE TypeOK'
  <2>1. job[k] \in Job /\ job[k].result \in {"Failed", "Cancelled", "panic"}
    BY <1>9 DEF Count, Orderly, TypeOK
  <2>2. [job[k] EXCEPT !.task = "joined"] \in Job
    BY <2>1 DEF Job, Task
  <2>3. job[k].result # "panic"
          => [job[k] EXCEPT !.task = "joined", !.status = job[k].result] \in Job
    BY <2>1 DEF Job, Task, Status
  <2>4. job' \in [Jobs -> Job]
    BY <1>9, <2>2, <2>3 DEF Count, TypeOK
  <2>5. tally' \in [completed: Nat, failed: Nat, cancelled: Nat]
    <3>1. \/ tally' = [tally EXCEPT !.failed = @ + 1]
          \/ tally' = [tally EXCEPT !.cancelled = @ + 1]
      BY <1>9 DEF Count
    <3> QED BY <3>1, TallyTypes
  <2>6. logs' \in Nat
    BY <1>9 DEF Count, TypeOK
  <2> QED BY <1>9, <2>4, <2>5, <2>6 DEF Count, uiVars, TypeOK
<1>10. ASSUME NEW k \in Jobs, TaskStep(k) PROVE TypeOK'
  <2>1. permits' \in 0..Concurrency /\ job' \in [Jobs -> Job]
    BY <1>10, TaskKeeps
  <2>2. UNCHANGED <<uiVars, flag, thread, total, next, counter, usable, tally, logs>>
    BY <1>10 DEF TaskStep, Begin, NoClient, Panic
  <2> QED BY <2>1, <2>2 DEF uiVars, TypeOK
<1> QED BY <1>1, <1>2, <1>3, <1>4, <1>5, <1>6, <1>7, <1>8, <1>9, <1>10
    DEF Next, UiStep, Executor

-----------------------------------------------------------------------------
(* The theorems. *)

LEMMA Invariance == Spec => []Inv
<1>1. Init => Inv
  <2> SUFFICES ASSUME Init PROVE Inv
    OBVIOUS
  <2>1. FreshJob \in Job
    BY BatchAssumption DEF FreshJob, Job, Status, Task, Models
  <2>2. TypeOK
    <3>1. job \in [Jobs -> Job] /\ permits \in 0..Concurrency /\ total \in 0..MaxJobs
          /\ next \in 1..(MaxJobs + 1) /\ counter \in Nat
          /\ tally \in [completed: Nat, failed: Nat, cancelled: Nat]
      BY <2>1, BatchAssumption DEF Init, NoTally
    <3>2. /\ frame \in {"drain", "draw", "deferred"} /\ open \in BOOLEAN
          /\ handle \in BOOLEAN /\ flag \in BOOLEAN /\ usable \subseteq Models
          /\ thread \in {"none", "discover", "build", "test", "acquire", "join", "done"}
      BY DEF Init
    <3>3. /\ commands \in Seq({"OpenBatchDialog", "StartBatch", "CancelBatch"})
          /\ logs \in Nat /\ batches \in Nat
      BY EmptySeq DEF Init
    <3> QED BY <3>1, <3>2, <3>3 DEF TypeOK
  <2>3. \A j \in Jobs : job[j].task = "none" /\ job[j].status = "Pending" /\ ~(j < 1)
    BY DEF Init, FreshJob, Jobs
  <2>4. Holding = {} /\ Mine = {} /\ Counted = {}
    BY <2>3 DEF Init, Holding, Mine, Counted
  <2>5. BooksBalance
    <3>1. Concurrency \in Nat /\ Cardinality({}) = 0
      BY BatchAssumption, FS_EmptySet
    <3> QED BY <2>4, <3>1 DEF Init, BooksBalance, PermitsConserved, Accounted, NoTally
  <2>6. InPlace /\ \A j \in Jobs : Orderly(j)
    BY <2>3 DEF Init, InPlace, Orderly
  <2> QED BY <2>2, <2>5, <2>6 DEF Inv
<1>2. Inv /\ [Next]_vars => Inv'
  <2> SUFFICES ASSUME Inv, [Next]_vars PROVE Inv'
    OBVIOUS
  <2>1. CASE UNCHANGED vars
    <3>1. UNCHANGED <<handle, thread, total, next, permits, job, tally>>
      BY <2>1 DEF vars, uiVars, poolVars
    <3>2. InPlace' /\ \A j \in Jobs : Orderly(j)'
      BY <3>1 DEF Inv, InPlace, Orderly
    <3>3. thread' = "done" => Counted = Mine \/ next = 1
      BY <3>1 DEF Inv, BooksBalance, Accounted
    <3> QED BY <3>1, <3>2, <3>3, SameJobs, TypesKept DEF Inv
  <2>2. CASE Next
    <3>1. BooksBalance' /\ InPlace' /\ \A j \in Jobs : Orderly(j)'
      BY <2>2, UiKeeps, DiscoverKeeps, LoopKeeps, TestFlagKeeps, AcquireKeeps,
         CountKeeps, TaskKeeps DEF Next, Executor
    <3> QED BY <3>1, TypesKept DEF Inv
  <2> QED BY <2>1, <2>2
<1> QED BY <1>1, <1>2, PTL DEF Spec

\* The dialog, the coordinator and its jobs are always of their types; there
\* are never more permits than the concurrency asked for, nor fewer than none.
THEOREM TypeCorrect == Spec => []TypeOK
  BY Invariance, PTL DEF Inv

\* However jobs end (a failure, the flag, a panic), free and held permits add
\* up to the concurrency, and BatchResult counts every job exactly once.
THEOREM BooksAlwaysBalance == Spec => []BooksBalance
  BY Invariance, PTL DEF Inv

\* A batch that is running, or has a task running, is owned by the dialog: it
\* can be cancelled, and no second batch is started beside it.
THEOREM RunningBatchIsOwned == Spec => []HandleOwnsBatch
<1>1. Inv => HandleOwnsBatch
  <2> SUFFICES ASSUME Inv, ~handle PROVE thread = "none" /\ Holding = {}
    BY DEF HandleOwnsBatch
  <2>1. thread = "none"
    BY DEF Inv, InPlace
  <2> QED BY <2>1 DEF Inv, Orderly, Holding
<1> QED BY <1>1, Invariance, PTL

\* Once the flag is up no agent starts, also not that of a job spawned before.
THEOREM FlagStopsAgents == Spec => CancelStops
<1>1. Inv /\ [Next]_vars => [flag /\ flag' => Working' \subseteq Working]_vars
  <2> SUFFICES ASSUME Inv, Next, flag, flag', NEW j \in Jobs, job'[j].task = "running"
               PROVE  job[j].task = "running"
    BY DEF Working
  <2>1. job \in [Jobs -> Job]
    BY DEF Inv, TypeOK
  <2>2. CASE UNCHANGED job
    BY <2>2
  <2>3. CASE UiStep
    BY <2>2, <2>3 DEF UiStep, DrainOne, Apply, StartBatch, EndDrain, Draw, Deferred,
                      poolVars
  <2>4. CASE TestFlag
    BY <2>1, <2>4 DEF TestFlag, Job
  <2>5. CASE Acquire
    BY <2>1, <2>5 DEF Acquire, Job
  <2>6. CASE Discover \/ Build \/ AllSpawned \/ EndBatch
    BY <2>2, <2>6 DEF Discover, Build, AllSpawned, EndBatch, poolVars
  <2>7. ASSUME NEW k \in Jobs, Count(k) PROVE job[j].task = "running"
    BY <2>1, <2>7 DEF Count, Job
  <2>8. ASSUME NEW k \in Jobs, TaskStep(k) PROVE job[j].task = "running"
    BY <2>1, <2>8 DEF TaskStep, Begin, NoClient, Panic, EndTask, Job
  <2> QED BY <2>3, <2>4, <2>5, <2>6, <2>7, <2>8 DEF Next, Executor
<1> QED BY <1>1, Invariance, PTL DEF Spec, CancelStops

=============================================================================
