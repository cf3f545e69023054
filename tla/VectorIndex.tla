----------------------------- MODULE VectorIndex -----------------------------
(***************************************************************************)
(* The vector search index (src/src/app/background/vector_search.rs): one  *)
(* worker thread that scans the libraries, then follows the file bus, and  *)
(* keeps the chunks of every Markdown file in a remote store (external).   *)
(* It remembers in memory which chunks it believes stored (chunk_index),   *)
(* loaded from the store at every start.  Files change while the worker    *)
(* waits for a call; calls fail, or succeed and lose their answer; the     *)
(* program restarts in the middle of an operation, and files change while  *)
(* it is not running.                                                      *)
(*                                                                         *)
(* The text of a file is the sequence of its chunks, and the place of a    *)
(* chunk in it stands for the line offset that is stored with the chunk.   *)
(* The watcher, which another thread starts after a scan of its own, or    *)
(* fails to start for some or all libraries, reports the changes made from *)
(* then on.  Left out: the events that the program publishes of the files  *)
(* it has found, written or removed itself.                                *)
(***************************************************************************)
EXTENDS Integers, Sequences, FiniteSets, TLC

CONSTANTS Files, Chunks,
          MaxLength,    \* bound: chunks of one file
          Capacity,     \* capacity of the ring of the file bus
          MaxChanges,   \* bound: changes on disk
          MaxFaults,    \* bound: failed calls
          MaxStarts     \* bound: starts of the program

ASSUME IndexAssumption ==
    /\ IsFiniteSet(Files) /\ IsFiniteSet(Chunks)
    /\ Capacity \in Nat \ {0}
    /\ MaxLength \in Nat /\ MaxChanges \in Nat /\ MaxFaults \in Nat
    /\ MaxStarts \in Nat

VARIABLES disk,      \* the text of every file, NoFile when it does not exist
          notices,   \* changes the operating system has not reported yet
          queue,     \* events of the file bus the worker has not received
          lagged,    \* has the ring dropped an event of the worker's?
          watched,   \* files of the libraries the watcher watches
          phase,     \* down, connect, scan, recv or stopped
          todo,      \* files the initial scan has not visited
          op,        \* the operation in progress
          index,     \* chunk_index: the chunks believed stored
          store,     \* the store: offset of every chunk, 0 when absent
          failed,    \* files whose last indexing ended at a failed call
          missed,    \* history: files changed unreported since the scan, see Change
          changes, faults, starts

diskVars  == <<disk, notices, changes, missed>>
busVars   == <<queue, lagged>>
storeVars == <<index, store>>
vars == <<diskVars, watched, busVars, phase, todo, op, storeVars, failed, faults, starts>>

NoFile == <<"no file">>
Texts  == {t \in UNION {[1..n -> Chunks] : n \in 0..MaxLength} :
             \A i, j \in DOMAIN t : t[i] = t[j] => i = j}

\* markdown_chunks: the chunks of a text, each with its offset.
HashesOf(text) == IF text = NoFile THEN {} ELSE {text[i] : i \in DOMAIN text}
OffsetOf(text, c) == CHOOSE i \in DOMAIN text : text[i] = c

Stored(f) == {c \in Chunks : store[f][c] # 0}
NoOp == [step |-> "none"]
Idle == op = NoOp

Init ==
    /\ disk \in [Files -> {NoFile} \cup {t \in Texts : Len(t) = 1}]
    /\ notices = <<>> /\ watched = {} /\ queue = <<>> /\ lagged = FALSE
    /\ phase = "down" /\ todo = {} /\ op = NoOp
    /\ index = [f \in Files |-> {}]
    /\ store = [f \in Files |-> [c \in Chunks |-> 0]]
    /\ failed = {} /\ missed = {}
    /\ changes = 0 /\ faults = 0 /\ starts = 0

-----------------------------------------------------------------------------
(* Files, the watcher and the bus. *)

\* A file is created, written, touched or deleted by some program.  One that is
\* moved away, also into the trash, is reported as a modification.  History: the
\* change is missed when no report of it is to come that says so.
Change(f) ==
    /\ changes < MaxChanges
    /\ changes' = changes + 1
    /\ \E text \in Texts \cup {NoFile}, kind \in {"Modify", "Remove"} :
          /\ disk[f] = NoFile => text # NoFile
          /\ kind = "Remove" => text = NoFile
          /\ disk' = [disk EXCEPT ![f] = text]
          /\ IF f \notin watched THEN UNCHANGED notices
             ELSE notices' = Append(notices, [file |-> f, kind |-> kind])
          /\ missed' = IF f \in watched /\ (text = NoFile => kind = "Remove")
                          THEN missed \ {f} ELSE missed \cup {f}
    /\ UNCHANGED <<watched, busVars, phase, todo, op, storeVars, failed, faults,
                   starts>>

\* FileWatcher::start, once the indexing thread has scanned and joined its
\* workers; it may fail, for any library or altogether, and is not tried again.
StartWatcher ==
    /\ phase # "down" /\ watched = {}
    /\ \E libraries \in SUBSET Files \ {{}} : watched' = libraries
    /\ UNCHANGED <<diskVars, busVars, phase, todo, op, storeVars, failed, faults,
                   starts>>

\* The ring keeps the newest events; what a slow reader has not received yet
\* is overwritten.
Publish(event) ==
    IF Len(queue) < Capacity
      THEN queue' = Append(queue, event) /\ UNCHANGED lagged
      ELSE queue' = Append(Tail(queue), event) /\ lagged' = TRUE

\* The watcher's callback: one that is no file, or no longer, is not published.
Watch ==
    /\ notices # <<>>
    /\ notices' = Tail(notices)
    /\ LET n == Head(notices) IN
         \/ /\ n.kind = "Modify" /\ disk[n.file] # NoFile
            /\ Publish([kind |-> "Updated", path |-> n.file])
         \/ /\ n.kind = "Modify" /\ disk[n.file] = NoFile
            /\ UNCHANGED busVars
         \/ /\ n.kind = "Remove"
            /\ Publish([kind |-> "Removed", path |-> n.file])
    /\ UNCHANGED <<disk, changes, missed, watched, phase, todo, op, storeVars,
                   failed, faults, starts>>

-----------------------------------------------------------------------------
(* The start of the worker. *)

Start ==
    /\ phase = "down" /\ starts < MaxStarts
    /\ starts' = starts + 1
    /\ phase' = "connect"
    /\ missed' = {f \in Files : disk[f] = NoFile}
    /\ UNCHANGED <<disk, notices, changes, watched, busVars, todo, op, storeVars,
                   failed, faults>>

\* The program ends or crashes, whatever the worker is doing.
Down ==
    /\ phase # "down"
    /\ phase' = "down"
    /\ notices' = <<>> /\ watched' = {} /\ queue' = <<>> /\ lagged' = FALSE
    /\ todo' = {} /\ op' = NoOp
    /\ index' = [f \in Files |-> {}]
    /\ failed' = {}
    /\ UNCHANGED <<disk, changes, missed, store, faults, starts>>

\* load_chunk_index: what the store holds, or nothing when the call fails.
Load ==
    /\ phase = "connect"
    /\ phase' = "scan" /\ todo' = Files
    /\ \/ /\ index' = [f \in Files |-> Stored(f)]
          /\ UNCHANGED faults
       \/ /\ faults < MaxFaults /\ faults' = faults + 1
          /\ index' = [f \in Files |-> {}]
    /\ UNCHANGED <<diskVars, watched, busVars, op, store, failed, starts>>

\* No embedding model, no connection or no collection: the worker ends.
CannotStart ==
    /\ phase = "connect"
    /\ faults < MaxFaults /\ faults' = faults + 1
    /\ phase' = "stopped"
    /\ UNCHANGED <<diskVars, watched, busVars, todo, op, storeVars, failed, starts>>

-----------------------------------------------------------------------------
(* index_path_async and remove_path_async. *)

\* remove_path_async forgets the file, then deletes what the store holds of it.
BeginRemove(f) ==
    /\ index' = [index EXCEPT ![f] = {}]
    /\ op' = [step |-> "remove", file |-> f]
    /\ failed' = failed \ {f}

\* Mutant: only the numbers of chunks are compared.
BeginIndexByCount(f) ==
    LET text   == disk[f]
        hashes == HashesOf(text)
    IN  \/ /\ text = NoFile
           /\ UNCHANGED <<op, index, failed>>
        \/ /\ text = <<>>
           /\ BeginRemove(f)
        \/ /\ hashes # {} /\ Cardinality(hashes) = Cardinality(index[f])
           /\ failed' = failed \ {f}
           /\ UNCHANGED <<op, index>>
        \/ /\ hashes # {} /\ Cardinality(hashes) # Cardinality(index[f])
           /\ op' = [step |-> IF hashes \subseteq index[f] THEN "evict"
                                                           ELSE "embed",
                     file |-> f, text |-> text]
           /\ failed' = failed \ {f}
           /\ UNCHANGED index

\* The file is read once, and compared with what is believed stored.
BeginIndex(f) ==
    LET text   == disk[f]
        hashes == HashesOf(text)
    IN  \/ /\ text = NoFile
           /\ UNCHANGED <<op, index, failed>>
        \/ /\ text = <<>>
           /\ BeginRemove(f)
        \/ /\ hashes # {} /\ hashes = index[f]
           /\ failed' = failed \ {f}
           /\ UNCHANGED <<op, index>>
        \/ /\ hashes # {} /\ hashes # index[f]
           /\ op' = [step |-> IF hashes \subseteq index[f] THEN "evict"
                                                           ELSE "embed",
                     file |-> f, text |-> text]
           /\ failed' = failed \ {f}
           /\ UNCHANGED index

Missing  == HashesOf(op.text) \ index[op.file]
Obsolete == index[op.file] \ HashesOf(op.text)

Fault == faults < MaxFaults /\ faults' = faults + 1

\* The embeddings of the missing chunks.
Embed ==
    /\ op.step = "embed"
    /\ \/ /\ op' = [op EXCEPT !.step = IF Obsolete = {} THEN "upsert" ELSE "evict"]
          /\ UNCHANGED <<failed, faults>>
       \/ /\ Fault
          /\ op' = NoOp /\ failed' = failed \cup {op.file}
    /\ UNCHANGED <<diskVars, watched, busVars, phase, todo, storeVars, starts>>

\* delete_points of the obsolete chunks: its error is ignored, and they are
\* forgotten either way.
Evict ==
    /\ op.step = "evict"
    /\ \/ /\ store' = [store EXCEPT ![op.file] =
                         [c \in Chunks |-> IF c \in Obsolete THEN 0 ELSE @[c]]]
          /\ UNCHANGED faults
       \/ Fault /\ UNCHANGED store
    /\ index' = [index EXCEPT ![op.file] = @ \ Obsolete]
    /\ op' = IF Missing = {} THEN NoOp ELSE [op EXCEPT !.step = "upsert"]
    /\ UNCHANGED <<diskVars, watched, busVars, phase, todo, failed, starts>>

WithMissing ==
    [store EXCEPT ![op.file] =
       [c \in Chunks |-> IF c \in Missing THEN OffsetOf(op.text, c) ELSE @[c]]]

\* Mutant: the chunks are remembered whatever the call returns.
UpsertAnyway ==
    /\ op.step = "upsert"
    /\ \/ /\ store' = WithMissing
          /\ UNCHANGED <<failed, faults>>
       \/ /\ Fault
          /\ failed' = failed \cup {op.file}
          /\ UNCHANGED store
    /\ index' = [index EXCEPT ![op.file] = @ \cup Missing]
    /\ op' = NoOp
    /\ UNCHANGED <<diskVars, watched, busVars, phase, todo, starts>>

\* upsert_points: on an error the store may still hold the points.
Upsert ==
    /\ op.step = "upsert"
    /\ \/ /\ store' = WithMissing
          /\ index' = [index EXCEPT ![op.file] = @ \cup Missing]
          /\ UNCHANGED <<failed, faults>>
       \/ /\ Fault
          /\ store' \in {store, WithMissing}
          /\ failed' = failed \cup {op.file}
          /\ UNCHANGED index
    /\ op' = NoOp
    /\ UNCHANGED <<diskVars, watched, busVars, phase, todo, starts>>

\* The deletion of every point of a path, its error ignored.
Remove ==
    /\ op.step = "remove"
    /\ \/ /\ store' = [store EXCEPT ![op.file] = [c \in Chunks |-> 0]]
          /\ UNCHANGED faults
       \/ Fault /\ UNCHANGED store
    /\ op' = NoOp
    /\ UNCHANGED <<diskVars, watched, busVars, phase, todo, index, failed, starts>>

-----------------------------------------------------------------------------
(* The loop of the worker. *)

\* The scan visits the files one by one and indexes those it finds, as they are
\* by then.
Scan(f) ==
    /\ phase = "scan" /\ Idle /\ f \in todo
    /\ todo' = todo \ {f}
    /\ BeginIndex(f)
    /\ missed' = IF disk[f] = NoFile THEN missed ELSE missed \ {f}
    /\ UNCHANGED <<disk, notices, changes, watched, busVars, phase, store, faults,
                   starts>>

ScanDone ==
    /\ phase = "scan" /\ Idle /\ todo = {}
    /\ phase' = "recv"
    /\ UNCHANGED <<diskVars, watched, busVars, todo, op, storeVars, failed, faults, starts>>

\* Mutant: the loop goes on after an overflow.
LagIgnored ==
    /\ phase = "recv" /\ Idle /\ lagged
    /\ lagged' = FALSE
    /\ UNCHANGED <<diskVars, watched, queue, phase, todo, op, storeVars, failed, faults,
                   starts>>

\* Any error of recv, Lagged included, ends the loop and the thread.
Lag ==
    /\ phase = "recv" /\ Idle /\ lagged
    /\ phase' = "stopped"
    /\ UNCHANGED <<diskVars, watched, busVars, todo, op, storeVars, failed, faults, starts>>

Receive ==
    /\ phase = "recv" /\ Idle /\ ~lagged /\ queue # <<>>
    /\ queue' = Tail(queue)
    /\ \/ Head(queue).kind = "Updated" /\ BeginIndex(Head(queue).path)
       \/ Head(queue).kind = "Removed" /\ BeginRemove(Head(queue).path)
    /\ UNCHANGED <<diskVars, watched, lagged, phase, todo, store, faults, starts>>

-----------------------------------------------------------------------------
Worker == \/ Load \/ CannotStart \/ Embed \/ Evict \/ Upsert \/ Remove
          \/ ScanDone \/ Lag \/ Receive
          \/ \E f \in Files : Scan(f)
Environment == Start \/ StartWatcher \/ Down \/ \E f \in Files : Change(f)

Next == Worker \/ Watch \/ Environment
Spec == Init /\ [][Next]_vars

\* The worker thread and the watcher's thread, once there is one, run; calls
\* return in the end.
FairSpec == Spec /\ WF_vars(Worker) /\ WF_vars(Watch)

-----------------------------------------------------------------------------
(* Properties. *)

Event == [kind: {"Updated", "Removed"}, path: Files]
Op == {NoOp} \cup [step: {"remove"}, file: Files]
             \cup [step: {"embed", "evict", "upsert"}, file: Files, text: Texts]

TypeOK ==
    /\ disk \in [Files -> Texts \cup {NoFile}]
    /\ notices \in Seq([file: Files, kind: {"Modify", "Remove"}])
    /\ queue \in Seq(Event) /\ Len(queue) <= Capacity /\ lagged \in BOOLEAN
    /\ phase \in {"down", "connect", "scan", "recv", "stopped"}
    /\ todo \subseteq Files /\ op \in Op
    /\ index \in [Files -> SUBSET Chunks]
    /\ store \in [Files -> [Chunks -> 0..MaxLength]]
    /\ failed \subseteq Files /\ missed \subseteq Files /\ watched \subseteq Files
    /\ changes \in Nat /\ faults \in Nat /\ starts \in Nat

\* What the worker believes stored is stored, after any failed call, lost
\* answer, deletion or restart: otherwise a chunk it never embeds again would
\* be missing from every search.  And as long as no call fails, between two
\* operations nothing else is: every point can still be evicted.
IndexedIsStored ==
    \A f \in Files :
       /\ index[f] \subseteq Stored(f)
       /\ faults = 0 /\ Idle /\ phase \in {"scan", "recv"}
            => Stored(f) \subseteq index[f]

\* The worker waits and has seen every report.
Settled == /\ phase = "recv" /\ Idle /\ ~lagged
           /\ queue = <<>> /\ notices = <<>>
Converged == \A f \in Files \ (failed \cup missed) : index[f] = HashesOf(disk[f])

\* AGENT-031: when the worker has seen every report, what it believes stored of
\* a file is what the file contains, however changes, failed calls, restarts and
\* its own operations met; unless the last indexing of the file failed, or the
\* file changed and neither the scan nor a report has told since: it was gone when
\* the program started, or moved away, or changed where no watcher watched, or not
\* yet, after the scan had passed it.
CaughtUp == Settled => Converged

\* And the worker comes to see every report, or ends.
CatchesUp == []<>((Settled /\ Converged) \/ phase \in {"down", "stopped"})
=============================================================================
