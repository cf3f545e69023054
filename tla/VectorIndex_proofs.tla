------------------------- MODULE VectorIndex_proofs -------------------------
(***************************************************************************)
(* Proofs about VectorIndex for every set of files and chunks, every ring, *)
(* and every number of changes, failed calls and restarts: the worker      *)
(* believes nothing stored that is not, and while no call fails it knows   *)
(* of everything that is.                                                  *)
(***************************************************************************)
EXTENDS VectorIndex, SequenceTheorems, TLAPS

-----------------------------------------------------------------------------
(* The inductive invariant. *)

\* Nothing is believed stored that is not.
Believed == \A f \in Files : index[f] \subseteq Stored(f)

\* A file whose points are being deleted is already forgotten.
Forgotten == op.step = "remove" => index[op.file] = {}

\* While no call has failed, only the points of such a file are not known.
Known ==
    faults = 0 /\ phase \in {"scan", "recv"} =>
      \A f \in Files : (op.step = "remove" /\ op.file = f) \/ Stored(f) \subseteq index[f]

\* An operation is in progress only in the scan and in the loop.
Waiting == phase \in {"scan", "recv"} \/ Idle

Inv == TypeOK /\ Waiting /\ Believed /\ Forgotten /\ Known

Row == [Chunks -> 0..MaxLength]

-----------------------------------------------------------------------------
(* Texts, and rows of the store. *)

LEMMA TextFacts ==
    ASSUME NEW t \in Texts
    PROVE  \A c \in HashesOf(t) : /\ c \in Chunks
                                  /\ OffsetOf(t, c) \in 0..MaxLength
                                  /\ OffsetOf(t, c) # 0
<1>1. PICK n \in 0..MaxLength : t \in [1..n -> Chunks]
  BY DEF Texts
<1>2. MaxLength \in Nat
  BY IndexAssumption
<1> SUFFICES ASSUME NEW c \in HashesOf(t)
             PROVE  c \in Chunks /\ OffsetOf(t, c) \in 0..MaxLength /\ OffsetOf(t, c) # 0
  OBVIOUS
<1>3. \E i \in DOMAIN t : t[i] = c
  BY DEF HashesOf
<1>4. OffsetOf(t, c) \in DOMAIN t /\ t[OffsetOf(t, c)] = c
  BY <1>3 DEF OffsetOf
<1>5. DOMAIN t = 1..n
  BY <1>1
<1> QED BY <1>1, <1>2, <1>4, <1>5

LEMMA RowChanged ==
    ASSUME TypeOK, NEW g \in Files, NEW row \in Row, store' = [store EXCEPT ![g] = row]
    PROVE  /\ store' \in [Files -> [Chunks -> 0..MaxLength]]
           /\ Stored(g)' = {c \in Chunks : row[c] # 0}
           /\ \A f \in Files : f # g => Stored(f)' = Stored(f)
<1>1. store \in [Files -> Row]
  BY DEF TypeOK, Row
<1>2. /\ store' \in [Files -> Row] /\ store'[g] = row
      /\ \A f \in Files : f # g => store'[f] = store[f]
  BY <1>1
<1> QED BY <1>2 DEF Stored, Row

LEMMA OpFacts ==
    ASSUME TypeOK
    PROVE  /\ op.step = "remove" => op.file \in Files
           /\ op.step \in {"embed", "evict", "upsert"}
                => op.file \in Files /\ op.text \in Texts
                   /\ op \in [step: {"embed", "evict", "upsert"}, file: Files, text: Texts]
  BY DEF TypeOK, Op, NoOp

-----------------------------------------------------------------------------
(* The steps of an operation. *)

\* An operation begins when none is in progress.
LEMMA Removing ==
    ASSUME Inv, Idle, NEW f \in Files, BeginRemove(f), UNCHANGED <<store, phase, faults>>
    PROVE  /\ Believed' /\ Forgotten' /\ Known'
           /\ op' \in Op /\ index' \in [Files -> SUBSET Chunks] /\ failed' \subseteq Files
<1>1. /\ index' = [index EXCEPT ![f] = {}] /\ op' = [step |-> "remove", file |-> f]
      /\ failed' = failed \ {f}
  BY DEF BeginRemove
<1>2. index \in [Files -> SUBSET Chunks] /\ failed \subseteq Files
  BY DEF Inv, TypeOK
<1>3. /\ index'[f] = {} /\ \A g \in Files : g # f => index'[g] = index[g]
      /\ index' \in [Files -> SUBSET Chunks]
  BY <1>1, <1>2
<1>4. \A g \in Files : Stored(g)' = Stored(g)
  BY DEF Stored
<1>5. op'.step = "remove" /\ op'.file = f /\ op' \in Op
  BY <1>1 DEF Op
<1>6. op.step # "remove"
  BY DEF Idle, NoOp
<1>7. Believed'
  BY <1>3, <1>4 DEF Inv, Believed
<1>8. Forgotten'
  BY <1>3, <1>5 DEF Forgotten
<1>9. Known'
  BY <1>3, <1>4, <1>5, <1>6 DEF Inv, Known
<1> QED BY <1>1, <1>2, <1>3, <1>5, <1>7, <1>8, <1>9

\* A step that changes neither index nor store, and leaves no removal behind.
LEMMA Untouched ==
    ASSUME Inv, UNCHANGED <<index, store>>, faults' \in Nat, faults' >= faults,
           phase' \in {"scan", "recv"} => phase \in {"scan", "recv"},
           op.step # "remove" \/ op' = op, op'.step # "remove" \/ op' = op
    PROVE  Believed' /\ Forgotten' /\ Known'
<1>1. \A g \in Files : Stored(g)' = Stored(g)
  BY DEF Stored
<1>2. faults \in Nat
  BY DEF Inv, TypeOK
<1>3. Believed'
  BY <1>1 DEF Inv, Believed
<1>4. Forgotten'
  BY DEF Inv, Forgotten
<1>5. faults' = 0 => faults = 0
  BY <1>2
<1>6. Known'
  BY <1>1, <1>5 DEF Inv, Known
<1> QED BY <1>3, <1>4, <1>6

LEMMA Indexing ==
    ASSUME Inv, Idle, NEW f \in Files, BeginIndex(f), UNCHANGED <<store, phase, faults>>
    PROVE  /\ Believed' /\ Forgotten' /\ Known'
           /\ op' \in Op /\ index' \in [Files -> SUBSET Chunks] /\ failed' \subseteq Files
<1>1. /\ disk[f] \in Texts \cup {NoFile} /\ op \in Op
      /\ index \in [Files -> SUBSET Chunks] /\ failed \subseteq Files /\ faults \in Nat
  BY DEF Inv, TypeOK
<1>2. CASE BeginRemove(f)
  BY <1>2, Removing
<1>3. op.step # "remove"
  BY DEF Idle, NoOp
<1>4. CASE UNCHANGED <<op, index>> /\ failed' \subseteq Files
  BY <1>1, <1>3, <1>4, Untouched
<1>5. CASE /\ UNCHANGED index /\ failed' \subseteq Files /\ disk[f] \in Texts
           /\ \E s \in {"embed", "evict"} : op' = [step |-> s, file |-> f, text |-> disk[f]]
  <2>1. op' \in Op /\ op'.step # "remove"
    BY <1>5 DEF Op
  <2> QED BY <1>1, <1>3, <1>5, <2>1, Untouched
<1>6. HashesOf(disk[f]) # {} => disk[f] \in Texts
  BY <1>1 DEF HashesOf
<1> QED BY <1>1, <1>2, <1>4, <1>5, <1>6 DEF BeginIndex

LEMMA EmbedKeeps ==
    ASSUME Inv, Embed
    PROVE  Believed' /\ Forgotten' /\ Known' /\ op' \in Op /\ failed' \subseteq Files
<1>1. /\ op.step = "embed" /\ UNCHANGED <<index, store, phase>>
      /\ faults \in Nat /\ failed \subseteq Files
  BY DEF Embed, storeVars, Inv, TypeOK
<1>2. op.file \in Files
      /\ op \in [step: {"embed", "evict", "upsert"}, file: Files, text: Texts]
  BY <1>1, OpFacts DEF Inv
<1>3. /\ \/ \E s \in {"evict", "upsert"} : op' = [op EXCEPT !.step = s]
         \/ op' = NoOp
      /\ faults' = faults \/ faults' = faults + 1
      /\ failed' = failed \/ failed' = failed \cup {op.file}
  BY DEF Embed, Fault
<1>4. op' \in Op /\ op'.step # "remove"
  BY <1>2, <1>3 DEF Op, NoOp
<1>5. faults' \in Nat /\ faults' >= faults
  BY <1>1, <1>3
<1>6. Believed' /\ Forgotten' /\ Known'
  BY <1>1, <1>4, <1>5, Untouched
<1> QED BY <1>1, <1>2, <1>3, <1>4, <1>6

LEMMA EvictKeeps ==
    ASSUME Inv, Evict
    PROVE  /\ Believed' /\ Forgotten' /\ Known' /\ op' \in Op
           /\ index' \in [Files -> SUBSET Chunks]
           /\ store' \in [Files -> [Chunks -> 0..MaxLength]] /\ faults' \in Nat
<1>0. /\ op.step = "evict" /\ op.file \in Files
      /\ op \in [step: {"embed", "evict", "upsert"}, file: Files, text: Texts]
  BY OpFacts DEF Evict, Inv
<1> PICK g \in Files : g = op.file
  BY <1>0
<1> DEFINE O == Obsolete
<1>1. /\ op.step = "evict" /\ UNCHANGED phase /\ faults \in Nat
      /\ index' = [index EXCEPT ![g] = index[g] \ O]
      /\ op' = NoOp \/ op' = [op EXCEPT !.step = "upsert"]
      /\ index \in [Files -> SUBSET Chunks]
      /\ store \in [Files -> Row]
  BY DEF Evict, Inv, TypeOK, Row
<1>2. g \in Files
  OBVIOUS
<1>3. op' \in Op /\ op'.step # "remove"
  BY <1>0, <1>1 DEF Op, NoOp
<1>4. O \subseteq index[g] /\ index[g] \subseteq Stored(g)
  BY <1>2 DEF Inv, Believed, Obsolete
<1> HIDE DEF O
<1>5. /\ index' \in [Files -> SUBSET Chunks] /\ index'[g] = index[g] \ O
      /\ \A f \in Files : f # g => index'[f] = index[f]
  <2>1. index[g] \ O \subseteq Chunks
    BY <1>1, <1>2
  <2> QED BY <1>1, <1>2, <2>1
<1>6. CASE UNCHANGED store /\ Fault
  <2>1. \A f \in Files : Stored(f)' = Stored(f)
    BY <1>6 DEF Stored
  <2>2. faults' \in Nat /\ faults' # 0
    BY <1>1, <1>6 DEF Fault
  <2>3. Believed'
    BY <1>4, <1>5, <2>1 DEF Inv, Believed
  <2>4. Forgotten' /\ Known'
    BY <1>3, <2>2 DEF Forgotten, Known
  <2> QED BY <1>1, <1>3, <1>5, <1>6, <2>2, <2>3, <2>4 DEF Row
<1>7. CASE /\ store' = [store EXCEPT ![g] = [c \in Chunks |-> IF c \in O THEN 0 ELSE store[g][c]]]
           /\ UNCHANGED faults
  <2> DEFINE row == [c \in Chunks |-> IF c \in O THEN 0 ELSE store[g][c]]
  <2>1. row \in Row
    <3>1. 0 \in 0..MaxLength
      BY IndexAssumption
    <3> QED BY <1>1, <1>2, <3>1 DEF Row
  <2>2. /\ store' \in [Files -> [Chunks -> 0..MaxLength]]
        /\ Stored(g)' = {c \in Chunks : row[c] # 0}
        /\ \A f \in Files : f # g => Stored(f)' = Stored(f)
    BY <1>2, <1>7, <2>1, RowChanged DEF Inv
  <2>3. Stored(g)' = Stored(g) \ O
    BY <2>2 DEF Stored
  <2> HIDE DEF row
  <2>4. Believed'
    BY <1>4, <1>5, <2>2, <2>3 DEF Inv, Believed
  <2>5. Forgotten'
    BY <1>3 DEF Forgotten
  <2>6. Known'
    BY <1>1, <1>3, <1>5, <1>7, <2>2, <2>3 DEF Inv, Known
  <2> QED BY <1>1, <1>3, <1>5, <1>7, <2>2, <2>4, <2>5, <2>6
<1> QED BY <1>6, <1>7 DEF Evict, O

LEMMA UpsertKeeps ==
    ASSUME Inv, Upsert
    PROVE  /\ Believed' /\ Forgotten' /\ Known' /\ op' \in Op
           /\ index' \in [Files -> SUBSET Chunks] /\ failed' \subseteq Files
           /\ store' \in [Files -> [Chunks -> 0..MaxLength]] /\ faults' \in Nat
<1>0. op.step = "upsert" /\ op.file \in Files /\ op.text \in Texts
  BY OpFacts DEF Upsert, Inv
<1> PICK g \in Files : g = op.file
  BY <1>0
<1> DEFINE M == Missing
           row == [c \in Chunks |-> IF c \in M THEN OffsetOf(op.text, c) ELSE store[g][c]]
<1>1. /\ op.step = "upsert" /\ UNCHANGED phase /\ faults \in Nat /\ op' = NoOp
      /\ index \in [Files -> SUBSET Chunks] /\ failed \subseteq Files
      /\ store \in [Files -> Row]
  BY DEF Upsert, Inv, TypeOK, Row
<1>2. g \in Files /\ op.text \in Texts
  BY <1>0
<1>3. op' \in Op /\ op'.step # "remove"
  BY <1>1 DEF Op, NoOp
<1>4. \A c \in M : c \in Chunks /\ OffsetOf(op.text, c) \in 0..MaxLength
                     /\ OffsetOf(op.text, c) # 0
  BY <1>2, TextFacts DEF Missing
<1>5. WithMissing = [store EXCEPT ![g] = row]
  BY <1>1, <1>2 DEF WithMissing
<1> HIDE DEF M
<1>6. row \in Row
  BY <1>1, <1>2, <1>4 DEF Row
<1>7. ASSUME store' = WithMissing
      PROVE  /\ store' \in [Files -> [Chunks -> 0..MaxLength]]
             /\ Stored(g)' = Stored(g) \cup M
             /\ \A f \in Files : f # g => Stored(f)' = Stored(f)
  <2>1. /\ store' \in [Files -> [Chunks -> 0..MaxLength]]
        /\ Stored(g)' = {c \in Chunks : row[c] # 0}
        /\ \A f \in Files : f # g => Stored(f)' = Stored(f)
    <3>1. store' = [store EXCEPT ![g] = row]
      BY <1>5, <1>7
    <3> HIDE DEF row
    <3> QED BY <1>2, <1>6, <3>1, RowChanged DEF Inv
  <2>2. {c \in Chunks : row[c] # 0} = Stored(g) \cup M
    BY <1>4 DEF Stored
  <2> QED BY <2>1, <2>2
<1> HIDE DEF row
<1>8. Forgotten'
  BY <1>3 DEF Forgotten
<1>9. CASE store' = WithMissing /\ index' = [index EXCEPT ![g] = index[g] \cup M]
           /\ UNCHANGED <<failed, faults>>
  <2>1. /\ index' \in [Files -> SUBSET Chunks] /\ index'[g] = index[g] \cup M
        /\ \A f \in Files : f # g => index'[f] = index[f]
    <3>1. index[g] \cup M \subseteq Chunks
      BY <1>1, <1>2, <1>4
    <3> QED BY <1>1, <1>2, <1>9, <3>1
  <2>2. Believed'
    BY <1>2, <1>7, <1>9, <2>1 DEF Inv, Believed
  <2>3. Known'
    BY <1>1, <1>3, <1>7, <1>9, <2>1 DEF Inv, Known
  <2> QED BY <1>1, <1>3, <1>7, <1>8, <1>9, <2>1, <2>2, <2>3
<1>10. CASE Fault /\ store' \in {store, WithMissing} /\ failed' = failed \cup {g}
            /\ UNCHANGED index
  <2>1. faults' \in Nat /\ faults' # 0
    BY <1>1, <1>10 DEF Fault
  <2>2. Known'
    BY <2>1 DEF Known
  <2>3. /\ \A f \in Files : Stored(f) \subseteq Stored(f)'
        /\ store' \in [Files -> [Chunks -> 0..MaxLength]]
    <3>1. CASE store' = store
      BY <1>1, <3>1 DEF Stored, Row
    <3>2. CASE store' = WithMissing
      BY <1>7, <3>2
    <3> QED BY <1>10, <3>1, <3>2
  <2>4. Believed'
    BY <1>10, <2>3 DEF Inv, Believed
  <2> QED BY <1>1, <1>2, <1>3, <1>8, <1>10, <2>1, <2>2, <2>3, <2>4
<1> QED BY <1>9, <1>10 DEF Upsert, M

LEMMA RemoveKeeps ==
    ASSUME Inv, Remove
    PROVE  /\ Believed' /\ Forgotten' /\ Known' /\ op' \in Op
           /\ store' \in [Files -> [Chunks -> 0..MaxLength]] /\ faults' \in Nat
<1>0. op.step = "remove" /\ op.file \in Files /\ index[op.file] = {}
  BY OpFacts DEF Remove, Inv, Forgotten
<1> PICK g \in Files : g = op.file
  BY <1>0
<1> DEFINE row == [c \in Chunks |-> 0]
<1>1. /\ op.step = "remove" /\ UNCHANGED <<phase, index>> /\ faults \in Nat
      /\ op' = NoOp /\ store \in [Files -> Row]
  BY DEF Remove, Inv, TypeOK, Row
<1>2. g \in Files /\ index[g] = {}
  BY <1>0
<1>3. op' \in Op /\ op'.step # "remove"
  BY <1>1 DEF Op, NoOp
<1>4. Forgotten'
  BY <1>3 DEF Forgotten
<1>5. CASE UNCHANGED store /\ Fault
  <2>1. \A f \in Files : Stored(f)' = Stored(f)
    BY <1>5 DEF Stored
  <2>2. faults' \in Nat /\ faults' # 0
    BY <1>1, <1>5 DEF Fault
  <2>3. Believed' /\ Known'
    BY <1>1, <2>1, <2>2 DEF Inv, Believed, Known
  <2> QED BY <1>1, <1>3, <1>4, <1>5, <2>2, <2>3 DEF Row
<1>6. CASE store' = [store EXCEPT ![g] = row] /\ UNCHANGED faults
  <2>1. row \in Row
    BY IndexAssumption DEF Row
  <2>2. /\ store' \in [Files -> [Chunks -> 0..MaxLength]]
        /\ Stored(g)' = {c \in Chunks : row[c] # 0}
        /\ \A f \in Files : f # g => Stored(f)' = Stored(f)
    BY <1>2, <1>6, <2>1, RowChanged DEF Inv
  <2>3. \A c \in Chunks : ~(row[c] # 0)
    OBVIOUS
  <2> HIDE DEF row
  <2>4. Stored(g)' = {}
    BY <2>2, <2>3
  <2>5. Believed'
    BY <1>1, <1>2, <2>2, <2>4 DEF Inv, Believed
  <2>6. Known'
    BY <1>1, <1>2, <1>6, <2>2, <2>4 DEF Inv, Known
  <2> QED BY <1>1, <1>3, <1>4, <1>6, <2>2, <2>5, <2>6
<1> QED BY <1>5, <1>6 DEF Remove

-----------------------------------------------------------------------------
(* The rest of the worker, the watcher and the bus. *)

LEMMA BusTypes ==
    ASSUME TypeOK, NEW e \in Event, Publish(e)
    PROVE  queue' \in Seq(Event) /\ Len(queue') <= Capacity /\ lagged' \in BOOLEAN
<1>1. queue \in Seq(Event) /\ Len(queue) <= Capacity /\ lagged \in BOOLEAN
      /\ Capacity \in Nat /\ Capacity # 0 /\ Len(queue) \in Nat
  BY IndexAssumption, LenProperties DEF TypeOK
<1>2. CASE Len(queue) < Capacity
  <2>1. queue' = Append(queue, e) /\ lagged' = lagged
    BY <1>2 DEF Publish
  <2>2. queue' \in Seq(Event) /\ Len(queue') = Len(queue) + 1
    BY <1>1, <2>1, AppendProperties
  <2> QED BY <1>1, <1>2, <2>1, <2>2
<1>3. CASE ~(Len(queue) < Capacity)
  <2> DEFINE t == Tail(queue)
  <2>1. queue' = Append(t, e) /\ lagged' = TRUE
    BY <1>3 DEF Publish
  <2>2. t \in Seq(Event) /\ Len(t) = Len(queue) - 1
    BY <1>1, <1>3, HeadTailProperties, EmptySeq
  <2> HIDE DEF t
  <2>3. queue' \in Seq(Event) /\ Len(queue') = Len(t) + 1
    BY <2>1, <2>2, AppendProperties
  <2> QED BY <1>1, <2>1, <2>2, <2>3
<1> QED BY <1>2, <1>3

LEMMA TaskTypes ==
    ASSUME TypeOK, queue # <<>>
    PROVE  /\ Tail(queue) \in Seq(Event) /\ Len(Tail(queue)) <= Capacity
           /\ Head(queue) \in Event
<1>1. queue \in Seq(Event) /\ Len(queue) <= Capacity /\ Capacity \in Nat /\ Len(queue) \in Nat
  BY IndexAssumption, LenProperties DEF TypeOK
<1> QED BY <1>1, HeadTailProperties

Notice == [file: Files, kind: {"Modify", "Remove"}]

LEMMA OutsideKeeps ==
    ASSUME Inv, Watch \/ StartWatcher \/ \E f \in Files : Change(f)
    PROVE  TypeOK' /\ Believed' /\ Forgotten' /\ Known'
<1>1. UNCHANGED <<index, store, phase, op, faults>>
  BY DEF Watch, StartWatcher, Change, storeVars
<1>2. faults \in Nat /\ faults >= faults
  BY DEF Inv, TypeOK
<1>3. Believed' /\ Forgotten' /\ Known'
  BY <1>1, <1>2, Untouched
<1>4. ASSUME NEW f \in Files, Change(f) PROVE TypeOK'
  <2>1. PICK text \in Texts \cup {NoFile}, kind \in {"Modify", "Remove"} :
          /\ disk' = [disk EXCEPT ![f] = text]
          /\ notices' = IF f \notin watched THEN notices
                        ELSE Append(notices, [file |-> f, kind |-> kind])
    BY <1>4 DEF Change
  <2>2. notices \in Seq(Notice)
    BY DEF Inv, TypeOK, Notice
  <2>3. [file |-> f, kind |-> kind] \in Notice
    BY DEF Notice
  <2>4. notices' \in Seq(Notice)
    BY <2>1, <2>2, <2>3, AppendProperties
  <2>5. disk' \in [Files -> Texts \cup {NoFile}]
    BY <2>1 DEF Inv, TypeOK
  <2>6. changes' \in Nat /\ missed' \subseteq Files
    BY <1>4 DEF Change, Inv, TypeOK
  <2>7. UNCHANGED <<watched, busVars, phase, todo, op, storeVars, failed, faults, starts>>
    BY <1>4 DEF Change
  <2> QED BY <2>4, <2>5, <2>6, <2>7 DEF Inv, TypeOK, busVars, storeVars, Notice
<1>5. ASSUME Watch PROVE TypeOK'
  <2>1. notices \in Seq(Notice) /\ notices # <<>> /\ notices' = Tail(notices)
    BY <1>5 DEF Inv, TypeOK, Watch, Notice
  <2>2. Head(notices) \in Notice /\ notices' \in Seq(Notice)
    BY <2>1, HeadTailProperties
  <2>3. Head(notices).file \in Files
    BY <2>2 DEF Notice
  <2>4. UNCHANGED busVars
          => queue' \in Seq(Event) /\ Len(queue') <= Capacity /\ lagged' \in BOOLEAN
    BY DEF Inv, TypeOK, busVars
  <2>5. \A k \in {"Updated", "Removed"} : [kind |-> k, path |-> Head(notices).file] \in Event
    BY <2>3 DEF Event
  <2>6. queue' \in Seq(Event) /\ Len(queue') <= Capacity /\ lagged' \in BOOLEAN
    <3>1. \/ UNCHANGED busVars
          \/ \E k \in {"Updated", "Removed"} :
               Publish([kind |-> k, path |-> Head(notices).file])
      BY <1>5 DEF Watch
    <3> QED BY <2>4, <2>5, <3>1, BusTypes DEF Inv, TypeOK, busVars
  <2>7. UNCHANGED <<disk, changes, missed, watched, phase, todo, op, storeVars, failed, faults, starts>>
    BY <1>5 DEF Watch
  <2> QED BY <2>2, <2>6, <2>7 DEF Inv, TypeOK, storeVars, Notice
<1>6. ASSUME StartWatcher PROVE TypeOK'
  <2>1. watched' \subseteq Files
        /\ UNCHANGED <<diskVars, busVars, phase, todo, op, storeVars, failed, faults, starts>>
    BY <1>6 DEF StartWatcher
  <2> QED BY <2>1 DEF Inv, TypeOK, diskVars, busVars, storeVars
<1> QED BY <1>3, <1>4, <1>5, <1>6

LEMMA StartsKeep ==
    ASSUME Inv, Start \/ Down \/ CannotStart \/ ScanDone \/ Lag
    PROVE  TypeOK' /\ Believed' /\ Forgotten' /\ Known'
<1>1. CASE Start
  <2>1. /\ UNCHANGED <<index, store, op, faults>> /\ phase' = "connect"
        /\ faults \in Nat /\ faults >= faults
    BY <1>1 DEF Start, storeVars, Inv, TypeOK
  <2>2. Believed' /\ Forgotten' /\ Known'
    BY <2>1, Untouched
  <2>3. missed' \subseteq Files /\ starts' \in Nat /\ phase' = "connect"
        /\ UNCHANGED <<disk, notices, changes, watched, busVars, todo, op, storeVars, failed,
                        faults>>
    BY <1>1 DEF Start, Inv, TypeOK
  <2> QED BY <2>2, <2>3 DEF Inv, TypeOK, busVars, storeVars
<1>2. CASE Down
  <2>1. /\ phase' = "down" /\ notices' = <<>> /\ queue' = <<>> /\ lagged' = FALSE
        /\ todo' = {} /\ op' = NoOp /\ index' = [f \in Files |-> {}] /\ failed' = {}
        /\ watched' = {}
        /\ UNCHANGED <<disk, changes, missed, store, faults, starts>>
    BY <1>2 DEF Down
  <2>2. Believed' /\ Forgotten' /\ Known'
    BY <2>1 DEF Believed, Forgotten, Known, NoOp
  <2>3. /\ notices' \in Seq([file: Files, kind: {"Modify", "Remove"}])
        /\ queue' \in Seq(Event) /\ Len(queue') <= Capacity
    BY <2>1, EmptySeq, IndexAssumption
  <2>4. index' \in [Files -> SUBSET Chunks] /\ op' \in Op /\ lagged' \in BOOLEAN
    BY <2>1 DEF Op
  <2> QED BY <2>1, <2>2, <2>3, <2>4 DEF Inv, TypeOK
<1>3. CASE CannotStart
  <2>1. /\ UNCHANGED <<index, store, op>> /\ phase' = "stopped"
        /\ faults \in Nat /\ faults' = faults + 1
    BY <1>3 DEF CannotStart, storeVars, Inv, TypeOK
  <2>2. faults' \in Nat /\ faults' >= faults
    BY <2>1
  <2>3. Believed' /\ Forgotten' /\ Known'
    BY <2>1, <2>2, Untouched
  <2>4. UNCHANGED <<diskVars, watched, busVars, todo, op, storeVars, failed, starts>>
    BY <1>3 DEF CannotStart
  <2> QED BY <2>1, <2>2, <2>3, <2>4 DEF Inv, TypeOK, diskVars, busVars, storeVars
<1>4. CASE ScanDone \/ Lag
  <2>1. /\ UNCHANGED <<index, store, op, faults>> /\ phase' \in {"recv", "stopped"}
        /\ faults \in Nat /\ faults >= faults /\ phase \in {"scan", "recv"}
    BY <1>4 DEF ScanDone, Lag, storeVars, Inv, TypeOK
  <2>2. Believed' /\ Forgotten' /\ Known'
    BY <2>1, Untouched
  <2>3. UNCHANGED <<diskVars, watched, busVars, todo, storeVars, failed, starts>>
    BY <1>4 DEF ScanDone, Lag
  <2> QED BY <2>1, <2>2, <2>3 DEF Inv, TypeOK, diskVars, busVars, storeVars
<1> QED BY <1>1, <1>2, <1>3, <1>4

LEMMA LoadKeeps ==
    ASSUME Inv, Load
    PROVE  TypeOK' /\ Believed' /\ Forgotten' /\ Known'
<1>1. /\ phase = "connect" /\ phase' = "scan" /\ todo' = Files
      /\ UNCHANGED <<diskVars, watched, busVars, op, store, failed, starts>> /\ faults \in Nat
  BY DEF Load, Inv, TypeOK
<1>2. \A f \in Files : Stored(f)' = Stored(f) /\ Stored(f) \subseteq Chunks
  BY <1>1 DEF Stored
<1>3. CASE index' = [f \in Files |-> Stored(f)] /\ UNCHANGED faults
  <2>1. index' \in [Files -> SUBSET Chunks] /\ \A f \in Files : index'[f] = Stored(f)
    BY <1>2, <1>3
  <2>2. Believed' /\ Known'
    BY <1>2, <2>1 DEF Believed, Known
  <2>3. Forgotten'
    BY <1>1 DEF Inv, Waiting, Idle, NoOp, Forgotten
  <2> QED BY <1>1, <1>3, <2>1, <2>2, <2>3
          DEF Inv, TypeOK, diskVars, busVars
<1>4. CASE index' = [f \in Files |-> {}] /\ faults' = faults + 1
  <2>1. faults' \in Nat /\ faults' # 0
    BY <1>1, <1>4
  <2>2. Believed' /\ Known' /\ Forgotten'
    BY <1>4, <2>1, <1>1, OpFacts DEF Inv, Believed, Known, Forgotten
  <2>3. index' \in [Files -> SUBSET Chunks]
    BY <1>4
  <2> QED BY <1>1, <2>1, <2>2, <2>3 DEF Inv, TypeOK, diskVars, busVars
<1> QED BY <1>3, <1>4 DEF Load

LEMMA WaitingKept ==
    ASSUME Inv, [Next]_vars
    PROVE  Waiting'
<1>1. CASE UNCHANGED vars
  BY <1>1 DEF vars, Inv, Waiting, Idle
<1>2. CASE Embed \/ Evict \/ Upsert \/ Remove
  BY <1>2 DEF Embed, Evict, Upsert, Remove, Inv, Waiting, Idle, NoOp
<1>3. CASE Load \/ Start \/ Down \/ CannotStart \/ ScanDone \/ Lag \/ Receive
  BY <1>3 DEF Load, Start, Down, CannotStart, ScanDone, Lag, Receive, Inv, Waiting, Idle
<1>4. CASE Watch \/ StartWatcher \/ \E f \in Files : Scan(f) \/ Change(f)
  BY <1>4 DEF Watch, StartWatcher, Scan, Change, Inv, Waiting, Idle
<1> QED BY <1>1, <1>2, <1>3, <1>4 DEF Next, Worker, Environment

\* The steps of the worker that visit or receive.
LEMMA VisitsKeep ==
    ASSUME Inv, Receive \/ \E f \in Files : Scan(f)
    PROVE  TypeOK' /\ Believed' /\ Forgotten' /\ Known'
<1>1. ASSUME NEW f \in Files, Scan(f)
      PROVE  TypeOK' /\ Believed' /\ Forgotten' /\ Known'
  <2>1. /\ Idle /\ BeginIndex(f) /\ todo' = todo \ {f} /\ missed' \in {missed, missed \ {f}}
        /\ UNCHANGED <<disk, notices, changes, watched, busVars, phase, store, faults, starts>>
    BY <1>1 DEF Scan
  <2>2. /\ Believed' /\ Forgotten' /\ Known'
        /\ op' \in Op /\ index' \in [Files -> SUBSET Chunks] /\ failed' \subseteq Files
    BY <2>1, Indexing
  <2> QED BY <2>1, <2>2 DEF Inv, TypeOK, busVars
<1>2. CASE Receive
  <2>1. /\ Idle /\ queue # <<>> /\ queue' = Tail(queue)
        /\ BeginIndex(Head(queue).path) \/ BeginRemove(Head(queue).path)
        /\ UNCHANGED <<diskVars, watched, lagged, phase, todo, store, faults, starts>>
    BY <1>2 DEF Receive
  <2>2. queue' \in Seq(Event) /\ Len(queue') <= Capacity /\ Head(queue).path \in Files
    BY <2>1, TaskTypes DEF Inv, Event
  <2>3. /\ Believed' /\ Forgotten' /\ Known'
        /\ op' \in Op /\ index' \in [Files -> SUBSET Chunks] /\ failed' \subseteq Files
    BY <2>1, <2>2, Indexing, Removing
  <2> QED BY <2>1, <2>2, <2>3 DEF Inv, TypeOK, diskVars
<1> QED BY <1>1, <1>2

\* The steps of an operation.
LEMMA CallsKeep ==
    ASSUME Inv, Embed \/ Evict \/ Upsert \/ Remove
    PROVE  TypeOK' /\ Believed' /\ Forgotten' /\ Known'
<1>1. CASE Embed
  <2>1. Believed' /\ Forgotten' /\ Known' /\ op' \in Op /\ failed' \subseteq Files
    BY <1>1, EmbedKeeps
  <2>2. UNCHANGED <<diskVars, watched, busVars, phase, todo, storeVars, starts>> /\ faults' \in Nat
    BY <1>1 DEF Embed, Fault, Inv, TypeOK
  <2> QED BY <2>1, <2>2 DEF Inv, TypeOK, diskVars, busVars, storeVars
<1>2. CASE Evict
  <2>1. UNCHANGED <<diskVars, watched, busVars, phase, todo, failed, starts>>
    BY <1>2 DEF Evict
  <2> QED BY <1>2, <2>1, EvictKeeps DEF Inv, TypeOK, diskVars, busVars
<1>3. CASE Upsert
  <2>1. UNCHANGED <<diskVars, watched, busVars, phase, todo, starts>>
    BY <1>3 DEF Upsert
  <2> QED BY <1>3, <2>1, UpsertKeeps DEF Inv, TypeOK, diskVars, busVars
<1>4. CASE Remove
  <2>1. UNCHANGED <<diskVars, watched, busVars, phase, todo, index, failed, starts>>
    BY <1>4 DEF Remove
  <2> QED BY <1>4, <2>1, RemoveKeeps DEF Inv, TypeOK, diskVars, busVars
<1> QED BY <1>1, <1>2, <1>3, <1>4

-----------------------------------------------------------------------------
(* The theorems. *)

LEMMA Invariance == Spec => []Inv
<1>1. Init => Inv
  <2> SUFFICES ASSUME Init PROVE Inv
    OBVIOUS
  <2>1. /\ notices \in Seq([file: Files, kind: {"Modify", "Remove"}])
        /\ queue \in Seq(Event) /\ Len(queue) <= Capacity /\ lagged \in BOOLEAN
    <3>1. notices = <<>> /\ queue = <<>> /\ lagged = FALSE
      BY DEF Init
    <3>2. notices \in Seq(Notice) /\ queue \in Seq(Event)
      BY <3>1, EmptySeq
    <3>3. Len(queue) <= Capacity
      BY <3>1, IndexAssumption
    <3> QED BY <3>1, <3>2, <3>3 DEF Notice
  <2>2. store \in [Files -> [Chunks -> 0..MaxLength]]
    BY IndexAssumption DEF Init
  <2>3. /\ disk \in [Files -> Texts \cup {NoFile}] /\ op \in Op /\ todo \subseteq Files
        /\ index \in [Files -> SUBSET Chunks] /\ phase = "down"
    BY DEF Init, Op
  <2>4. failed \subseteq Files /\ missed \subseteq Files /\ watched \subseteq Files
        /\ changes \in Nat /\ faults \in Nat /\ starts \in Nat
    BY DEF Init
  <2>5. Waiting /\ Believed /\ Forgotten /\ Known
    BY DEF Init, Waiting, Idle, NoOp, Believed, Forgotten, Known
  <2> QED BY <2>1, <2>2, <2>3, <2>4, <2>5 DEF Inv, TypeOK
<1>2. Inv /\ [Next]_vars => Inv'
  <2> SUFFICES ASSUME Inv, [Next]_vars PROVE Inv'
    OBVIOUS
  <2>1. CASE UNCHANGED vars
    <3>1. UNCHANGED <<disk, notices, changes, missed, watched, queue, lagged, phase, todo,
                      op, index, store, failed, faults, starts>>
      BY <2>1 DEF vars, diskVars, busVars, storeVars
    <3>2. TypeOK'
      BY <3>1 DEF Inv, TypeOK
    <3>3. faults \in Nat /\ faults >= faults
      BY DEF Inv, TypeOK
    <3>4. Believed' /\ Forgotten' /\ Known'
      BY <3>1, <3>3, Untouched
    <3> QED BY <3>2, <3>4, WaitingKept DEF Inv
  <2>2. CASE Next
    <3>1. TypeOK' /\ Believed' /\ Forgotten' /\ Known'
      BY <2>2, OutsideKeeps, StartsKeep, LoadKeeps, VisitsKeep, CallsKeep
         DEF Next, Worker, Environment
    <3> QED BY <3>1, WaitingKept DEF Inv
  <2> QED BY <2>1, <2>2
<1> QED BY <1>1, <1>2, PTL DEF Spec

\* The disk, the bus, the worker and the store are always of their types; the
\* ring never holds more than its capacity.
THEOREM TypeCorrect == Spec => []TypeOK
  BY Invariance, PTL DEF Inv

\* What the worker believes stored is stored, after any failed call, lost
\* answer or restart; and while no call has failed nothing else is.
THEOREM IndexNeverAheadOfStore == Spec => []IndexedIsStored
<1>1. Inv => IndexedIsStored
  <2> SUFFICES ASSUME Inv, NEW f \in Files
               PROVE  /\ index[f] \subseteq Stored(f)
                      /\ faults = 0 /\ Idle /\ phase \in {"scan", "recv"}
                           => Stored(f) \subseteq index[f]
    BY DEF IndexedIsStored
  <2>1. Idle => op.step # "remove"
    BY DEF Idle, NoOp
  <2> QED BY <2>1 DEF Inv, Believed, Known
<1> QED BY <1>1, Invariance, PTL

-----------------------------------------------------------------------------
(* The second invariant: what the worker does not know yet, it will be told. *)
(* Reports reach it in order, so that the last report of a file is the true  *)
(* one; those before it may be of what the file was.  That is not so of a    *)
(* file that was moved away and is missed; once the scan clears a missed     *)
(* file, no report of it is on its way.                                      *)

NoNotice(f) == \A i \in DOMAIN notices : notices[i].file # f
NoEvent(f)  == \A i \in DOMAIN queue : queue[i].path # f
Told(f)     == ~NoNotice(f) \/ ~NoEvent(f)

NoticesTrue ==
    \A i \in DOMAIN notices :
      notices[i].file \notin missed
      /\ (\A j \in DOMAIN notices : j > i => notices[j].file # notices[i].file)
        => (notices[i].kind = "Remove" <=> disk[notices[i].file] = NoFile)

QueueTrueOf(q) ==
    \A i \in DOMAIN q :
      q[i].path \notin missed /\ NoNotice(q[i].path)
      /\ (\A j \in DOMAIN q : j > i => q[j].path # q[i].path)
        => (q[i].kind = "Removed" <=> disk[q[i].path] = NoFile)

Silent == phase = "down" => notices = <<>> /\ queue = <<>> /\ watched = {}

\* Nothing is said of a file that is not watched, or was not when it came to be.
Unseen(f) == f \notin watched \/ (f \in missed /\ disk[f] # NoFile)
Quiet == \A f \in Files : Unseen(f) => NoNotice(f) /\ NoEvent(f)

Reports == NoticesTrue /\ QueueTrueOf(queue) /\ Silent /\ Quiet

\* The operation in progress, or what is believed stored, is right about f.
Right(f) == IF ~Idle /\ op.file = f
              THEN IF op.step = "remove" THEN HashesOf(disk[f]) = {} ELSE op.text = disk[f]
              ELSE index[f] = HashesOf(disk[f])

\* A report of f is to come, or the scan is to come to f, or the worker is right.
Expected(f) == \/ Told(f)
               \/ disk[f] # NoFile /\ (phase = "connect" \/ f \in todo)
               \/ phase # "connect" /\ Right(f)

Following == phase \notin {"down", "stopped"} /\ ~lagged
               => \A f \in Files \ (failed \cup missed) : Expected(f)
Scanned   == phase = "recv" => todo = {}
\* The obsolete chunks are evicted before the missing ones are stored.
Trimmed   == op.step = "upsert" => Obsolete = {}

Follows == Reports /\ Following /\ Scanned /\ Trimmed

-----------------------------------------------------------------------------
(* Sequences, by their indices. *)

LEMMA TailIndex ==
    ASSUME NEW S, NEW s \in Seq(S), s # <<>>
    PROVE  /\ Head(s) \in S /\ Tail(s) \in Seq(S) /\ 1 \in DOMAIN s /\ Head(s) = s[1]
           /\ \A i \in DOMAIN Tail(s) : i \in Nat /\ i + 1 \in DOMAIN s /\ Tail(s)[i] = s[i + 1]
           /\ \A i \in DOMAIN s : /\ i \in Nat
                                  /\ i = 1 \/ (i - 1 \in DOMAIN Tail(s) /\ Tail(s)[i - 1] = s[i])
<1> DEFINE t == Tail(s)
<1>1. /\ Head(s) \in S /\ t \in Seq(S) /\ Len(t) = Len(s) - 1
      /\ \A i \in 1..Len(t) : t[i] = s[i + 1]
  BY HeadTailProperties
<1>2. /\ Len(s) \in Nat /\ Len(t) \in Nat /\ DOMAIN s = 1..Len(s) /\ DOMAIN t = 1..Len(t)
      /\ Head(s) = s[1] /\ Len(s) # 0
  BY <1>1, LenProperties, EmptySeq
<1> HIDE DEF t
<1>3. \A i \in DOMAIN t : i \in Nat /\ i + 1 \in DOMAIN s /\ t[i] = s[i + 1]
  BY <1>1, <1>2
<1>4. \A i \in DOMAIN s : i \in Nat /\ (i = 1 \/ (i - 1 \in DOMAIN t /\ t[i - 1] = s[i]))
  BY <1>1, <1>2
<1>5. 1 \in DOMAIN s
  BY <1>2
<1> QED BY <1>1, <1>2, <1>3, <1>4, <1>5 DEF t

LEMMA AppendIndex ==
    ASSUME NEW S, NEW s \in Seq(S), NEW e \in S
    PROVE  LET t == Append(s, e)  n == Len(s) + 1
           IN  /\ t \in Seq(S) /\ n \in DOMAIN t /\ n \in Nat /\ t[n] = e
               /\ \A i \in DOMAIN s : i \in Nat /\ i < n /\ i \in DOMAIN t /\ t[i] = s[i]
               /\ \A i \in DOMAIN t : i = n \/ i \in DOMAIN s
<1> DEFINE t == Append(s, e)
<1>1. /\ t \in Seq(S) /\ Len(t) = Len(s) + 1 /\ t[Len(s) + 1] = e
      /\ \A i \in 1..Len(s) : t[i] = s[i]
  BY AppendProperties
<1>2. Len(s) \in Nat /\ DOMAIN s = 1..Len(s) /\ DOMAIN t = 1..(Len(s) + 1)
  BY <1>1, LenProperties
<1> HIDE DEF t
<1>3. Len(s) + 1 \in DOMAIN t /\ Len(s) + 1 \in Nat
  BY <1>2
<1>4. \A i \in DOMAIN s : i \in Nat /\ i < Len(s) + 1 /\ i \in DOMAIN t /\ t[i] = s[i]
  BY <1>1, <1>2
<1>5. \A i \in DOMAIN t : i = Len(s) + 1 \/ i \in DOMAIN s
  BY <1>2
<1> QED BY <1>1, <1>3, <1>4, <1>5 DEF t

\* A queue that loses its oldest event stays true.
LEMMA TailIsTrue ==
    ASSUME NEW q \in Seq(Event), q # <<>>, QueueTrueOf(q)
    PROVE  QueueTrueOf(Tail(q))
<1> DEFINE t == Tail(q)
<1>1. /\ \A i \in DOMAIN t : i \in Nat /\ i + 1 \in DOMAIN q /\ t[i] = q[i + 1]
      /\ \A i \in DOMAIN q : i \in Nat /\ (i = 1 \/ (i - 1 \in DOMAIN t /\ t[i - 1] = q[i]))
  BY TailIndex
<1> HIDE DEF t
<1>2. ASSUME NEW i \in DOMAIN t, \A j \in DOMAIN t : j > i => t[j].path # t[i].path,
             NoNotice(t[i].path), t[i].path \notin missed
      PROVE  t[i].kind = "Removed" <=> disk[t[i].path] = NoFile
  <2>1. i \in Nat /\ i + 1 \in DOMAIN q /\ t[i] = q[i + 1]
    BY <1>1
  <2>2. ASSUME NEW j \in DOMAIN q, j > i + 1 PROVE q[j].path # q[i + 1].path
    <3>1. j \in Nat /\ j - 1 \in DOMAIN t /\ t[j - 1] = q[j] /\ j - 1 > i
      BY <1>1, <2>1, <2>2
    <3> QED BY <1>2, <2>1, <3>1
  <2> QED BY <1>2, <2>1, <2>2 DEF QueueTrueOf
<1>3. QueueTrueOf(t)
  BY <1>2 DEF QueueTrueOf
<1> QED BY <1>3 DEF t

-----------------------------------------------------------------------------
(* The reports stay true, and no file is forgotten by them. *)

\* Another program changes a file.
LEMMA ChangeReports ==
    ASSUME TypeOK, Reports, NEW f \in Files, Change(f)
    PROVE  /\ Reports'
           /\ \A g \in Files : Told(g) \/ (g = f /\ g \notin missed') => Told(g)'
<1>1. PICK text \in Texts \cup {NoFile}, kind \in {"Modify", "Remove"} :
        /\ kind = "Remove" => text = NoFile
        /\ disk' = [disk EXCEPT ![f] = text]
        /\ notices' = IF f \notin watched THEN notices
                      ELSE Append(notices, [file |-> f, kind |-> kind])
        /\ missed' = IF f \in watched /\ (text = NoFile => kind = "Remove")
                        THEN missed \ {f} ELSE missed \cup {f}
  BY DEF Change
<1>2. UNCHANGED <<queue, phase, watched>>
  BY DEF Change, busVars
<1>3. PICK n : n = [file |-> f, kind |-> kind]
  OBVIOUS
<1>4. n \in Notice /\ n.file = f /\ n.kind = kind
  BY <1>3 DEF Notice
<1>5. disk'[f] = text /\ \A g \in Files : g # f => disk'[g] = disk[g]
  BY <1>1 DEF TypeOK
<1>6. /\ \A g : g # f => (g \in missed' <=> g \in missed)
      /\ f \notin missed' => f \in watched /\ (kind = "Remove" <=> text = NoFile)
      /\ f \in missed' => f \notin watched \/ text = NoFile
  BY <1>1
<1>7. queue \in Seq(Event) /\ \A i \in DOMAIN queue : queue[i].path \in Files
  <2>1. queue \in Seq(Event)
    BY DEF TypeOK
  <2>2. ASSUME NEW i \in DOMAIN queue PROVE queue[i].path \in Files
    <3>1. queue[i] \in Event
      BY <2>1, ElementOfSeq, LenProperties
    <3> QED BY <3>1 DEF Event
  <2> QED BY <2>1, <2>2
<1>8. notices \in Seq(Notice) /\ \A i \in DOMAIN notices : notices[i].file \in Files
  <2>1. notices \in Seq(Notice)
    BY DEF TypeOK, Notice
  <2>2. ASSUME NEW i \in DOMAIN notices PROVE notices[i].file \in Files
    <3>1. notices[i] \in Notice
      BY <2>1, ElementOfSeq, LenProperties
    <3> QED BY <3>1 DEF Notice
  <2> QED BY <2>1, <2>2
<1>9. CASE f \notin watched
  <2>1. notices' = notices
    BY <1>1, <1>9
  <2>2. NoticesTrue'
    BY <1>5, <1>6, <1>8, <1>9, <2>1 DEF Reports, NoticesTrue
  <2>3. QueueTrueOf(queue)'
    BY <1>2, <1>5, <1>6, <1>7, <1>9, <2>1 DEF Reports, QueueTrueOf, NoNotice
  <2>4. Silent' /\ \A g \in Files : Told(g) => Told(g)'
    BY <1>2, <2>1 DEF Reports, Silent, Told, NoNotice, NoEvent
  <2>5. Quiet'
    BY <1>2, <1>5, <1>6, <1>9, <2>1 DEF Reports, Quiet, Unseen, NoNotice, NoEvent
  <2> QED BY <1>6, <1>9, <2>2, <2>3, <2>4, <2>5 DEF Reports
<1>10. CASE f \in watched
  <2> DEFINE k == Len(notices) + 1
  <2>1. /\ notices' \in Seq(Notice) /\ k \in DOMAIN notices' /\ k \in Nat /\ notices'[k] = n
        /\ \A i \in DOMAIN notices :
             i \in Nat /\ i < k /\ i \in DOMAIN notices' /\ notices'[i] = notices[i]
        /\ \A i \in DOMAIN notices' : i = k \/ i \in DOMAIN notices
    <3>1. notices' = Append(notices, n)
      BY <1>1, <1>3, <1>10
    <3> QED BY <1>4, <1>8, <3>1, AppendIndex
  <2> HIDE DEF k
  <2>2. ASSUME NEW i \in DOMAIN notices', notices'[i].file \notin missed',
               \A j \in DOMAIN notices' : j > i => notices'[j].file # notices'[i].file
        PROVE  notices'[i].kind = "Remove" <=> disk'[notices'[i].file] = NoFile
    <3>1. CASE i = k
      BY <1>4, <1>5, <1>6, <2>1, <2>2, <3>1
    <3>2. CASE i \in DOMAIN notices
      <4>1. notices'[i] = notices[i] /\ i < k /\ notices[i].file \in Files
        BY <1>8, <2>1, <3>2
      <4>2. notices[i].file # f
        BY <1>4, <2>1, <2>2, <4>1
      <4>3. \A j \in DOMAIN notices : j > i => notices[j].file # notices[i].file
        BY <2>1, <2>2, <4>1
      <4> QED BY <1>5, <1>6, <2>2, <3>2, <4>1, <4>2, <4>3 DEF Reports, NoticesTrue
    <3> QED BY <2>1, <3>1, <3>2
  <2>3. NoticesTrue'
    BY <2>2 DEF NoticesTrue
  <2>4. ASSUME NEW g \in Files, NoNotice(g)'
        PROVE  g # f /\ NoNotice(g) /\ disk'[g] = disk[g] /\ (g \in missed' <=> g \in missed)
    <3>1. g # f
      BY <1>4, <2>1, <2>4 DEF NoNotice
    <3> QED BY <1>5, <1>6, <2>1, <2>4, <3>1 DEF NoNotice
  <2>5. QueueTrueOf(queue)'
    <3> SUFFICES ASSUME NEW i \in DOMAIN queue, queue[i].path \notin missed',
                        \A j \in DOMAIN queue : j > i => queue[j].path # queue[i].path,
                        NoNotice(queue[i].path)'
                 PROVE  queue[i].kind = "Removed" <=> disk'[queue[i].path] = NoFile
      BY <1>2 DEF QueueTrueOf
    <3>1. PICK g \in Files : g = queue[i].path
      BY <1>7
    <3>2. NoNotice(g)'
      BY <1>2, <3>1
    <3> QED BY <2>4, <3>1, <3>2 DEF Reports, QueueTrueOf
  <2>6. Silent'
    BY <1>2, <1>10 DEF Reports, Silent
  <2>7. ASSUME NEW g \in Files, Told(g) \/ g = f PROVE Told(g)'
    BY <1>2, <1>4, <2>1, <2>7 DEF Told, NoNotice, NoEvent
  <2>8. Quiet'
    <3> SUFFICES ASSUME NEW g \in Files, Unseen(g)' PROVE NoNotice(g)' /\ NoEvent(g)'
      BY DEF Quiet
    <3>1. g # f /\ Unseen(g)
      BY <1>2, <1>5, <1>6, <1>10 DEF Unseen
    <3>2. NoNotice(g) /\ NoEvent(g)
      BY <3>1 DEF Reports, Quiet
    <3> QED BY <1>2, <1>4, <2>1, <3>1, <3>2 DEF NoNotice, NoEvent
  <2> QED BY <2>3, <2>5, <2>6, <2>7, <2>8 DEF Reports
<1> QED BY <1>9, <1>10

\* The watcher publishes a report, or drops that of a file written and gone.
LEMMA WatchReports ==
    ASSUME TypeOK, Reports, Watch
    PROVE  Reports' /\ (~lagged' => ~lagged /\ \A g \in Files \ missed : Told(g) => Told(g)')
<1>1. PICK n : n = Head(notices)
  OBVIOUS
<1>2. /\ notices # <<>> /\ notices' = Tail(notices) /\ UNCHANGED <<disk, phase, watched, missed>>
      /\ \/ n.kind = "Modify" /\ disk[n.file] # NoFile
            /\ Publish([kind |-> "Updated", path |-> n.file])
         \/ n.kind = "Modify" /\ disk[n.file] = NoFile /\ UNCHANGED <<queue, lagged>>
         \/ n.kind = "Remove" /\ Publish([kind |-> "Removed", path |-> n.file])
  BY <1>1 DEF Watch, busVars
<1>3. notices \in Seq(Notice) /\ queue \in Seq(Event) /\ lagged \in BOOLEAN
  BY DEF TypeOK, Notice
<1>4. /\ n \in Notice /\ notices' \in Seq(Notice) /\ 1 \in DOMAIN notices /\ notices[1] = n
      /\ \A i \in DOMAIN notices' : /\ i \in Nat /\ i + 1 \in DOMAIN notices
                                    /\ notices'[i] = notices[i + 1]
      /\ \A i \in DOMAIN notices :
           i \in Nat /\ (i = 1 \/ (i - 1 \in DOMAIN notices' /\ notices'[i - 1] = notices[i]))
  BY <1>1, <1>2, <1>3, TailIndex
<1>5. PICK f \in Files : f = n.file
  BY <1>4 DEF Notice
<1>6. ASSUME NEW g, NoNotice(g)' PROVE g # f => NoNotice(g)
  BY <1>4, <1>5, <1>6 DEF NoNotice
\* The last report of a file is true when it is at the head.
<1>7. NoNotice(f)' /\ f \notin missed => (n.kind = "Remove" <=> disk[f] = NoFile)
  <2> SUFFICES ASSUME NoNotice(f)', f \notin missed PROVE n.kind = "Remove" <=> disk[f] = NoFile
    OBVIOUS
  <2>1. \A j \in DOMAIN notices : j > 1 => notices[j].file # f
    BY <1>4 DEF NoNotice
  <2> QED BY <1>4, <1>5, <2>1 DEF Reports, NoticesTrue
<1>8. NoticesTrue'
  <2> SUFFICES ASSUME NEW i \in DOMAIN notices', notices'[i].file \notin missed',
                      \A j \in DOMAIN notices' : j > i => notices'[j].file # notices'[i].file
               PROVE  notices'[i].kind = "Remove" <=> disk'[notices'[i].file] = NoFile
    BY DEF NoticesTrue
  <2>1. i \in Nat /\ i + 1 \in DOMAIN notices /\ notices'[i] = notices[i + 1]
    BY <1>4
  <2>2. ASSUME NEW j \in DOMAIN notices, j > i + 1 PROVE notices[j].file # notices[i + 1].file
    <3>1. j \in Nat /\ j - 1 \in DOMAIN notices' /\ notices'[j - 1] = notices[j] /\ j - 1 > i
      BY <1>4, <2>1, <2>2
    <3> QED BY <2>1, <3>1
  <2> QED BY <1>2, <2>1, <2>2 DEF Reports, NoticesTrue
<1>9. PICK e : e = [kind |-> IF n.kind = "Remove" THEN "Removed" ELSE "Updated", path |-> f]
  OBVIOUS
<1>10. /\ e \in Event /\ e.path = f /\ (e.kind = "Removed" <=> n.kind = "Remove")
       /\ n.kind \in {"Modify", "Remove"}
  BY <1>4, <1>9 DEF Event, Notice
<1>11. Silent'
  <2>1. phase # "down"
    BY <1>2 DEF Reports, Silent
  <2> QED BY <1>2, <2>1 DEF Silent
\* A file of which nothing is said is not that of the report.
<1>15. /\ ~Unseen(f)
       /\ \A g \in Files : Unseen(g)' => Unseen(g) /\ g # f /\ NoNotice(g)' /\ NoEvent(g)
  <2>1. ~NoNotice(f)
    BY <1>4, <1>5 DEF NoNotice
  <2>2. ~Unseen(f)
    BY <2>1 DEF Reports, Quiet
  <2>3. \A g \in Files : Unseen(g)' => Unseen(g)
    BY <1>2 DEF Unseen
  <2>4. \A g \in Files : NoNotice(g) => NoNotice(g)'
    BY <1>4 DEF NoNotice
  <2> QED BY <2>2, <2>3, <2>4 DEF Reports, Quiet
<1>12. ASSUME n.kind = "Modify", disk[f] = NoFile, UNCHANGED <<queue, lagged>>
       PROVE  Reports' /\ (~lagged' => ~lagged /\ \A g \in Files \ missed : Told(g) => Told(g)')
  <2>1. f \in missed \/ ~NoNotice(f)'
    BY <1>7, <1>12
  <2>2. QueueTrueOf(queue)'
    BY <1>2, <1>6, <1>12, <2>1 DEF Reports, QueueTrueOf
  <2>3. \A g \in Files \ missed : Told(g) => Told(g)'
    BY <1>6, <1>12, <2>1 DEF Told, NoEvent
  <2>4. Quiet'
    BY <1>12, <1>15 DEF Quiet, NoEvent
  <2> QED BY <1>8, <1>11, <1>12, <2>2, <2>3, <2>4 DEF Reports
<1>13. ASSUME NEW q \in Seq(Event), QueueTrueOf(q), queue' = Append(q, e)
       PROVE  /\ QueueTrueOf(queue)' /\ ~NoEvent(f)'
              /\ (\A i \in DOMAIN q : \E j \in DOMAIN queue : q[i] = queue[j]) => Quiet'
  <2> DEFINE k == Len(q) + 1
  <2>1. /\ k \in DOMAIN queue' /\ queue'[k] = e
        /\ \A i \in DOMAIN q : i < k /\ i \in DOMAIN queue' /\ queue'[i] = q[i]
        /\ \A i \in DOMAIN queue' : i = k \/ i \in DOMAIN q
    BY <1>10, <1>13, AppendIndex
  <2> HIDE DEF k
  <2>2. ~NoEvent(f)'
    BY <1>10, <2>1 DEF NoEvent
  <2>7. (\A i \in DOMAIN q : \E j \in DOMAIN queue : q[i] = queue[j]) => Quiet'
    BY <1>10, <1>15, <2>1 DEF Quiet, NoEvent
  <2> SUFFICES ASSUME NEW i \in DOMAIN queue', queue'[i].path \notin missed',
                      \A j \in DOMAIN queue' : j > i => queue'[j].path # queue'[i].path,
                      NoNotice(queue[i].path)'
               PROVE  queue'[i].kind = "Removed" <=> disk'[queue'[i].path] = NoFile
    BY <2>2, <2>7 DEF QueueTrueOf
  <2>3. PICK g : g = queue'[i].path
    OBVIOUS
  <2>4. NoNotice(g)'
    BY <2>3
  <2>5. CASE i = k
    <3>1. queue'[i] = e /\ g = f
      BY <1>10, <2>1, <2>3, <2>5
    <3> QED BY <1>2, <1>7, <1>10, <2>3, <2>4, <3>1
  <2>6. CASE i \in DOMAIN q
    <3>1. queue'[i] = q[i] /\ i < k
      BY <2>1, <2>6
    <3>2. g # f
      BY <1>10, <2>1, <2>3, <3>1
    <3>3. NoNotice(q[i].path)
      BY <1>6, <2>3, <2>4, <3>1, <3>2
    <3>4. \A j \in DOMAIN q : j > i => q[j].path # q[i].path
      BY <2>1, <3>1
    <3> QED BY <1>2, <1>13, <2>6, <3>1, <3>3, <3>4 DEF QueueTrueOf
  <2> QED BY <2>1, <2>5, <2>6
<1>14. ASSUME Publish(e)
       PROVE  Reports' /\ (~lagged' => ~lagged /\ \A g \in Files \ missed : Told(g) => Told(g)')
  <2>1. CASE Len(queue) < Capacity
    <3>1. queue' = Append(queue, e) /\ lagged' = lagged
      BY <1>14, <2>1 DEF Publish
    <3>2. QueueTrueOf(queue)' /\ ~NoEvent(f)' /\ Quiet'
      BY <1>3, <1>13, <3>1 DEF Reports
    <3>3. ASSUME NEW g \in Files, Told(g) PROVE Told(g)'
      <4>1. CASE g = f
        BY <3>2, <4>1 DEF Told
      <4>2. CASE ~NoNotice(g) /\ g # f
        BY <1>6, <4>2 DEF Told
      <4>3. CASE ~NoEvent(g)
        <5>1. \A i \in DOMAIN queue : i \in DOMAIN queue' /\ queue'[i] = queue[i]
          BY <1>3, <1>10, <3>1, AppendIndex
        <5> QED BY <4>3, <5>1 DEF Told, NoEvent
      <4> QED BY <3>3, <4>1, <4>2, <4>3 DEF Told
    <3> QED BY <1>8, <1>11, <3>1, <3>2, <3>3 DEF Reports
  <2>2. CASE ~(Len(queue) < Capacity)
    <3> DEFINE q == Tail(queue)
    <3>1. queue' = Append(q, e) /\ lagged' = TRUE
      BY <1>14, <2>2 DEF Publish
    <3>2. queue # <<>>
      BY <1>3, <2>2, IndexAssumption, EmptySeq
    <3>3. /\ q \in Seq(Event) /\ QueueTrueOf(q)
          /\ \A i \in DOMAIN q : \E j \in DOMAIN queue : q[i] = queue[j]
      BY <1>3, <3>2, TailIndex, TailIsTrue DEF Reports
    <3> HIDE DEF q
    <3>4. QueueTrueOf(queue)' /\ Quiet'
      BY <1>13, <3>1, <3>3
    <3> QED BY <1>8, <1>11, <3>1, <3>4 DEF Reports
  <2> QED BY <2>1, <2>2
<1> QED BY <1>2, <1>5, <1>9, <1>10, <1>12, <1>14

\* The worker receives an event: it is true, or it is not the last of its file.
LEMMA ReceiveReports ==
    ASSUME TypeOK, Reports, queue # <<>>, queue' = Tail(queue), UNCHANGED <<disk, notices, phase, watched, missed>>, NEW f, f = Head(queue).path
    PROVE  /\ Reports' /\ f \in Files
           /\ \A g \in Files : Told(g) /\ g # f => Told(g)'
           /\ f \in missed \/ Told(f)' \/ (Head(queue).kind = "Removed" <=> disk[f] = NoFile)
<1>1. queue \in Seq(Event)
  BY DEF TypeOK
<1>2. /\ Head(queue) \in Event /\ 1 \in DOMAIN queue /\ Head(queue) = queue[1]
      /\ \A i \in DOMAIN queue :
           i \in Nat /\ (i = 1 \/ (i - 1 \in DOMAIN queue' /\ queue'[i - 1] = queue[i]))
  BY <1>1, TailIndex
<1>3. QueueTrueOf(Tail(queue))
  BY <1>1, TailIsTrue DEF Reports
<1>4. Reports'
  <2>1. QueueTrueOf(queue)'
    BY <1>3 DEF QueueTrueOf, NoNotice
  <2>2. NoticesTrue'
    BY DEF Reports, NoticesTrue
  <2>3. Silent'
    BY DEF Reports, Silent
  <2>4. ASSUME NEW g, NoEvent(g) PROVE NoEvent(g)'
    <3>1. \A i \in DOMAIN queue' : i + 1 \in DOMAIN queue /\ queue'[i] = queue[i + 1]
      BY <1>1, TailIndex
    <3> QED BY <2>4, <3>1 DEF NoEvent
  <2>5. Quiet'
    BY <2>4 DEF Reports, Quiet, Unseen, NoNotice
  <2> QED BY <2>1, <2>2, <2>3, <2>5 DEF Reports
<1>5. ASSUME NEW g, ~NoEvent(g), g # f PROVE ~NoEvent(g)'
  BY <1>2, <1>5 DEF NoEvent
<1>6. \A g \in Files : Told(g) /\ g # f => Told(g)'
  BY <1>5 DEF Told, NoNotice
<1>7. f \in missed \/ Told(f)' \/ (Head(queue).kind = "Removed" <=> disk[f] = NoFile)
  <2> SUFFICES ASSUME ~Told(f)', f \notin missed PROVE Head(queue).kind = "Removed" <=> disk[f] = NoFile
    OBVIOUS
  <2>1. NoNotice(f) /\ NoEvent(f)'
    BY DEF Told, NoNotice
  <2>2. ASSUME NEW j \in DOMAIN queue, j > 1 PROVE queue[j].path # f
    <3>1. j - 1 \in DOMAIN queue' /\ queue'[j - 1] = queue[j]
      BY <1>2, <2>2
    <3>2. queue'[j - 1].path # f
      BY <2>1, <3>1 DEF NoEvent
    <3> QED BY <3>1, <3>2
  <2> QED BY <1>2, <2>1, <2>2 DEF Reports, QueueTrueOf
<1> QED BY <1>2, <1>4, <1>6, <1>7 DEF Event

-----------------------------------------------------------------------------
(* Operations, and what the worker is right about. *)

\* An operation begins with what the file is, unless the file is not there.
LEMMA Beginning ==
    ASSUME TypeOK, Idle, NEW f \in Files, BeginIndex(f) \/ BeginRemove(f), UNCHANGED disk
    PROVE  /\ Trimmed' /\ failed \ {f} \subseteq failed'
           /\ \A g \in Files : g # f /\ Right(g) => Right(g)'
           /\ BeginIndex(f) /\ disk[f] # NoFile => Right(f)'
           /\ BeginIndex(f) /\ disk[f] = NoFile => UNCHANGED <<op, index, failed>>
           /\ BeginRemove(f) /\ disk[f] = NoFile => Right(f)'
<1>1. index \in [Files -> SUBSET Chunks] /\ op = NoOp
  BY DEF TypeOK, Idle
<1>2. ASSUME BeginRemove(f)
      PROVE  /\ Trimmed' /\ failed' = failed \ {f}
             /\ \A g \in Files : g # f /\ Right(g) => Right(g)'
             /\ HashesOf(disk[f]) = {} => Right(f)'
  <2>1. /\ index' = [index EXCEPT ![f] = {}] /\ op' = [step |-> "remove", file |-> f]
        /\ failed' = failed \ {f}
    BY <1>2 DEF BeginRemove
  <2>2. \A g \in Files : g # f => index'[g] = index[g]
    BY <1>1, <2>1
  <2>3. op' # NoOp /\ op'.step = "remove" /\ op'.file = f
    BY <2>1 DEF NoOp
  <2>4. \A g \in Files : g # f /\ Right(g) => Right(g)'
    BY <1>1, <2>2, <2>3 DEF Right, Idle
  <2>5. HashesOf(disk[f]) = {} => Right(f)'
    BY <2>3 DEF Right, Idle
  <2>6. Trimmed'
    BY <2>3 DEF Trimmed
  <2> QED BY <2>1, <2>4, <2>5, <2>6
<1>3. ASSUME NEW s \in {"embed", "evict"}, op' = [step |-> s, file |-> f, text |-> disk[f]],
             UNCHANGED index
      PROVE  Trimmed' /\ Right(f)' /\ \A g \in Files : g # f /\ Right(g) => Right(g)'
  <2>1. op' # NoOp /\ op'.step = s /\ op'.file = f /\ op'.text = disk[f]
    BY <1>3 DEF NoOp
  <2>2. Right(f)'
    BY <2>1 DEF Right, Idle
  <2>3. \A g \in Files : g # f /\ Right(g) => Right(g)'
    BY <1>1, <1>3, <2>1 DEF Right, Idle
  <2>4. Trimmed'
    BY <2>1 DEF Trimmed
  <2> QED BY <2>2, <2>3, <2>4
<1>4. ASSUME UNCHANGED <<op, index>>
      PROVE  Trimmed' /\ \A g \in Files : Right(g)' <=> Right(g)
  <2>1. op.step # "upsert"
    BY <1>1 DEF NoOp
  <2> QED BY <1>4, <2>1 DEF Trimmed, Right, Idle
<1>5. HashesOf(NoFile) = {}
  BY DEF HashesOf
<1>6. HashesOf(<<>>) = {}
  BY DEF HashesOf
<1>7. CASE BeginRemove(f) /\ ~BeginIndex(f)
  BY <1>2, <1>5, <1>7
<1>8. CASE BeginIndex(f)
  <2>1. NoFile # <<>>
    BY DEF NoFile
  <2>2. CASE disk[f] = NoFile /\ UNCHANGED <<op, index, failed>>
    BY <1>2, <1>4, <1>5, <2>2
  <2>3. CASE disk[f] = <<>> /\ BeginRemove(f)
    BY <1>2, <1>6, <2>1, <2>3
  <2>4. CASE /\ HashesOf(disk[f]) # {} /\ HashesOf(disk[f]) = index[f]
             /\ failed' = failed \ {f} /\ UNCHANGED <<op, index>>
    <3>1. Right(f)
      BY <1>1, <2>4 DEF Right, Idle
    <3>2. disk[f] # NoFile
      BY <1>5, <2>4
    <3> QED BY <1>4, <2>4, <3>1, <3>2
  <2>5. CASE /\ HashesOf(disk[f]) # {} /\ failed' = failed \ {f} /\ UNCHANGED index
             /\ \E s \in {"embed", "evict"} : op' = [step |-> s, file |-> f, text |-> disk[f]]
    <3>1. disk[f] # NoFile
      BY <1>5, <2>5
    <3> QED BY <1>3, <2>5, <3>1
  <2> QED BY <1>8, <2>2, <2>3, <2>4, <2>5 DEF BeginIndex
<1> QED BY <1>7, <1>8

\* A call that fails leaves its file among the failed ones; the others bring what
\* is believed stored to the text the operation began with.
LEMMA CallsRight ==
    ASSUME TypeOK, Forgotten, Trimmed, Embed \/ Evict \/ Upsert \/ Remove
    PROVE  /\ Trimmed' /\ failed \subseteq failed'
           /\ \A f \in Files : Right(f) => f \in failed' \/ Right(f)'
<1>1. index \in [Files -> SUBSET Chunks] /\ UNCHANGED disk
  BY DEF TypeOK, Embed, Evict, Upsert, Remove, diskVars
<1>2. op.step \in {"embed", "evict", "upsert", "remove"} /\ ~Idle
  BY DEF Embed, Evict, Upsert, Remove, Idle, NoOp
<1> PICK g \in Files : g = op.file
  BY <1>2, OpFacts
<1> PICK h : h = HashesOf(op.text)
  OBVIOUS
<1>3. Missing = h \ index[g] /\ Obsolete = index[g] \ h
  BY DEF Missing, Obsolete
<1>4. op.step # "remove" => op \in [step: {"embed", "evict", "upsert"}, file: Files, text: Texts]
  BY <1>2, OpFacts
<1>5. ASSUME NEW s, s \in {"evict", "upsert"}, op.step # "remove", op' = [op EXCEPT !.step = s],
             \A f \in Files : f # g => index'[f] = index[f]
      PROVE  /\ op'.step = s /\ op'.file = g /\ op'.text = op.text
             /\ \A f \in Files : Right(f) => Right(f)'
  <2>1. op'.step = s /\ op'.file = g /\ op'.text = op.text
    BY <1>4, <1>5
  <2>2. op' # NoOp
    BY <1>5, <2>1 DEF NoOp
  <2>3. ASSUME NEW f \in Files, Right(f) PROVE Right(f)'
    <3>1. CASE f = g
      BY <1>1, <1>2, <1>5, <2>1, <2>2, <2>3, <3>1 DEF Right, Idle
    <3>2. CASE f # g
      BY <1>1, <1>2, <1>5, <2>1, <2>2, <2>3, <3>2 DEF Right, Idle
    <3> QED BY <3>1, <3>2
  <2> QED BY <2>1, <2>3
<1>6. ASSUME op' = NoOp, \A f \in Files : f # g => index'[f] = index[f]
      PROVE  /\ Trimmed' /\ \A f \in Files : f # g /\ Right(f) => Right(f)'
             /\ index'[g] = HashesOf(disk[g]) => Right(g)'
  BY <1>1, <1>2, <1>6 DEF Trimmed, Right, Idle, NoOp
<1>7. Right(g) => IF op.step = "remove" THEN HashesOf(disk[g]) = {} ELSE h = HashesOf(disk[g])
  BY <1>2 DEF Right
<1>8. CASE Embed
  <2>1. op.step = "embed" /\ UNCHANGED index
    BY <1>8 DEF Embed, storeVars
  <2>2. CASE UNCHANGED failed
             /\ op' = [op EXCEPT !.step = IF Obsolete = {} THEN "upsert" ELSE "evict"]
    <3> DEFINE s == IF Obsolete = {} THEN "upsert" ELSE "evict"
    <3>1. op' = [op EXCEPT !.step = s] /\ s \in {"evict", "upsert"}
          /\ (s = "upsert" => Obsolete = {})
      BY <2>2
    <3> HIDE DEF s
    <3>2. /\ op'.step = s /\ op'.file = g /\ op'.text = op.text
          /\ \A f \in Files : Right(f) => Right(f)'
      BY <1>5, <2>1, <3>1
    <3>3. Trimmed'
      BY <2>1, <3>1, <3>2 DEF Trimmed, Obsolete
    <3> QED BY <2>2, <3>2, <3>3
  <2>3. CASE op' = NoOp /\ failed' = failed \cup {g}
    BY <1>6, <2>1, <2>3
  <2> QED BY <1>8, <2>2, <2>3 DEF Embed
<1>9. CASE Evict
  <2>1. /\ op.step = "evict" /\ index' = [index EXCEPT ![g] = index[g] \ Obsolete]
        /\ op' = IF Missing = {} THEN NoOp ELSE [op EXCEPT !.step = "upsert"]
        /\ UNCHANGED failed
    BY <1>9 DEF Evict
  <2>2. index'[g] = index[g] \cap h /\ \A f \in Files : f # g => index'[f] = index[f]
    BY <1>1, <1>3, <2>1
  <2>3. CASE Missing = {}
    <3>1. op' = NoOp /\ index'[g] = h
      BY <1>3, <2>1, <2>2, <2>3
    <3>2. Right(g) => Right(g)'
      BY <1>6, <1>7, <2>1, <2>2, <3>1
    <3> QED BY <1>6, <2>1, <2>2, <3>1, <3>2
  <2>4. CASE Missing # {}
    <3>1. /\ op'.step = "upsert" /\ op'.file = g /\ op'.text = op.text
          /\ \A f \in Files : Right(f) => Right(f)'
      BY <1>5, <2>1, <2>2, <2>4
    <3>2. Trimmed'
      BY <2>2, <3>1 DEF Trimmed, Obsolete
    <3> QED BY <2>1, <3>1, <3>2
  <2> QED BY <2>3, <2>4
<1>10. CASE Upsert
  <2>1. op.step = "upsert" /\ op' = NoOp /\ index[g] \subseteq h
    BY <1>3, <1>10 DEF Upsert, Trimmed
  <2>2. CASE index' = [index EXCEPT ![g] = index[g] \cup Missing] /\ UNCHANGED failed
    <3>1. index'[g] = h /\ \A f \in Files : f # g => index'[f] = index[f]
      BY <1>1, <1>3, <2>1, <2>2
    <3>2. Right(g) => Right(g)'
      BY <1>6, <1>7, <2>1, <3>1
    <3> QED BY <1>6, <2>1, <2>2, <3>1, <3>2
  <2>3. CASE failed' = failed \cup {g} /\ UNCHANGED index
    BY <1>6, <2>1, <2>3
  <2> QED BY <1>10, <2>2, <2>3 DEF Upsert
<1>11. CASE Remove
  <2>1. op.step = "remove" /\ op' = NoOp /\ UNCHANGED <<index, failed>> /\ index[g] = {}
    BY <1>11 DEF Remove, Forgotten
  <2>2. Right(g) => Right(g)'
    BY <1>6, <1>7, <2>1
  <2> QED BY <1>6, <2>1, <2>2
<1> QED BY <1>8, <1>9, <1>10, <1>11

-----------------------------------------------------------------------------
(* No file is lost from sight. *)

\* Steps that change no file and report nothing.
LEMMA ReportsUnchanged ==
    ASSUME Reports, UNCHANGED <<disk, notices, queue>>, phase' = "down" => phase = "down",
           phase' = "down" => watched' = watched, watched \subseteq watched',
           \A f \in missed' : f \in missed \/ disk[f] = NoFile,
           \A f \in missed : f \in missed' \/ disk[f] # NoFile,
           missed \subseteq Files
    PROVE  Reports' /\ \A f \in Files : Told(f)' <=> Told(f)
<1>1. \A f \in missed : f \in missed' \/ (NoNotice(f) /\ NoEvent(f))
  BY DEF Reports, Quiet, Unseen
<1>2. NoticesTrue'
  BY <1>1 DEF Reports, NoticesTrue, NoNotice
<1>3. QueueTrueOf(queue)'
  BY <1>1 DEF Reports, QueueTrueOf, NoNotice, NoEvent
<1>4. Silent'
  BY DEF Reports, Silent
<1>5. Quiet'
  BY DEF Reports, Quiet, Unseen, NoNotice, NoEvent
<1> QED BY <1>2, <1>3, <1>4, <1>5 DEF Reports, Told, NoNotice, NoEvent

LEMMA OutsideFollows ==
    ASSUME Inv, Follows, Watch \/ StartWatcher \/ \E f \in Files : Change(f)
    PROVE  Follows'
<1>1. UNCHANGED <<index, phase, op, todo, failed>>
  BY DEF Watch, StartWatcher, Change, storeVars
<1>2. Scanned' /\ Trimmed'
  BY <1>1 DEF Follows, Scanned, Trimmed, Obsolete
<1>3. ASSUME NEW f \in Files, disk'[f] = disk[f] PROVE Right(f)' <=> Right(f)
  BY <1>1, <1>3 DEF Right, Idle
<1>4. CASE Watch
  <2>1. Reports' /\ (~lagged' => ~lagged /\ \A f \in Files \ missed : Told(f) => Told(f)')
    BY <1>4, WatchReports DEF Inv, Follows
  <2>2. UNCHANGED <<disk, missed>>
    BY <1>4 DEF Watch
  <2>3. ASSUME phase \notin {"down", "stopped"}, ~lagged', NEW f \in Files \ (failed \cup missed)
        PROVE  Expected(f)'
    <3>1. Expected(f)
      BY <2>1, <2>3 DEF Follows, Following
    <3> QED BY <1>1, <1>3, <2>1, <2>2, <2>3, <3>1 DEF Expected
  <2>4. Following'
    BY <1>1, <2>2, <2>3 DEF Following
  <2> QED BY <1>2, <2>1, <2>4 DEF Follows
<1>5. ASSUME NEW f \in Files, Change(f) PROVE Follows'
  <2>1. Reports' /\ \A g \in Files : Told(g) \/ (g = f /\ g \notin missed') => Told(g)'
    BY <1>5, ChangeReports DEF Inv, Follows
  <2>2. /\ \A g \in Files : g # f => disk'[g] = disk[g]
        /\ lagged' = lagged /\ \A g \in Files : g # f => (g \in missed' <=> g \in missed)
    BY <1>5 DEF Change, Inv, TypeOK, busVars
  <2>3. ASSUME phase \notin {"down", "stopped"}, ~lagged, NEW g \in Files \ (failed \cup missed')
        PROVE  Expected(g)'
    <3>1. CASE g = f
      BY <2>1, <2>3, <3>1 DEF Expected
    <3>2. CASE g # f
      <4>1. Expected(g)
        BY <2>2, <2>3, <3>2 DEF Follows, Following
      <4>2. disk'[g] = disk[g] /\ (Right(g)' <=> Right(g))
        BY <1>3, <2>2, <3>2
      <4> QED BY <1>1, <2>1, <4>1, <4>2 DEF Expected
    <3> QED BY <3>1, <3>2
  <2>4. Following'
    BY <1>1, <2>2, <2>3 DEF Following
  <2> QED BY <1>2, <2>1, <2>4 DEF Follows
<1>6. CASE StartWatcher
  <2>1. /\ phase # "down" /\ watched \subseteq watched'
        /\ UNCHANGED <<disk, notices, queue, lagged, missed>>
    BY <1>6 DEF StartWatcher, diskVars, busVars
  <2>2. Reports' /\ \A f \in Files : Told(f)' <=> Told(f)
    BY <1>1, <2>1, ReportsUnchanged DEF Inv, TypeOK, Follows
  <2>3. Following'
    BY <1>1, <1>3, <2>1, <2>2 DEF Follows, Following, Expected
  <2> QED BY <1>2, <2>2, <2>3 DEF Follows
<1> QED BY <1>4, <1>5, <1>6

LEMMA StartsFollow ==
    ASSUME Inv, Follows, Start \/ Down \/ CannotStart \/ Lag
    PROVE  Follows'
<1>1. CASE Start
  <2>1. /\ phase = "down" /\ phase' = "connect" /\ UNCHANGED <<disk, notices, watched, queue>>
        /\ UNCHANGED <<op, index>> /\ missed' = {f \in Files : disk[f] = NoFile}
    BY <1>1 DEF Start, busVars, storeVars
  <2>2. Reports'
    BY <2>1, ReportsUnchanged DEF Inv, TypeOK, Follows
  <2>3. Following'
    BY <2>1 DEF Following, Expected
  <2>4. Scanned' /\ Trimmed'
    BY <2>1 DEF Follows, Scanned, Trimmed, Obsolete
  <2> QED BY <2>2, <2>3, <2>4 DEF Follows
<1>2. CASE Down
  <2>1. phase' = "down" /\ notices' = <<>> /\ queue' = <<>> /\ watched' = {} /\ op' = NoOp
    BY <1>2 DEF Down
  <2>2. DOMAIN <<>> = {}
    OBVIOUS
  <2>3. Reports'
    BY <2>1, <2>2 DEF Reports, NoticesTrue, QueueTrueOf, Silent, Quiet, NoNotice, NoEvent
  <2>4. Following' /\ Scanned' /\ Trimmed'
    BY <2>1 DEF Following, Scanned, Trimmed, NoOp
  <2> QED BY <2>3, <2>4 DEF Follows
<1>3. CASE CannotStart \/ Lag
  <2>1. phase' = "stopped" /\ UNCHANGED <<disk, notices, queue, op, index, watched, missed>>
    BY <1>3 DEF CannotStart, Lag, diskVars, busVars, storeVars
  <2>2. Reports'
    BY <2>1, ReportsUnchanged DEF Inv, TypeOK, Follows
  <2>3. Following' /\ Scanned' /\ Trimmed'
    BY <2>1 DEF Follows, Following, Scanned, Trimmed, Obsolete
  <2> QED BY <2>2, <2>3 DEF Follows
<1> QED BY <1>1, <1>2, <1>3

\* The scan begins with every file, and ends with none.
LEMMA ScansFollow ==
    ASSUME Inv, Follows, Load \/ ScanDone
    PROVE  Follows'
<1>1. /\ UNCHANGED <<disk, notices, queue, lagged, op, failed, missed, watched>>
      /\ phase' \in {"scan", "recv"}
  BY DEF Load, ScanDone, diskVars, busVars
<1>2. Reports' /\ \A f \in Files : Told(f)' <=> Told(f)
  BY <1>1, ReportsUnchanged DEF Inv, TypeOK, Follows
<1>3. CASE Load
  <2>1. phase = "connect" /\ phase' = "scan" /\ todo' = Files
    BY <1>3 DEF Load
  <2>2. Following'
    BY <1>1, <1>2, <2>1 DEF Follows, Following, Expected
  <2>3. op = NoOp
    BY <2>1 DEF Inv, Waiting, Idle
  <2>4. Scanned' /\ Trimmed'
    BY <1>1, <2>1, <2>3 DEF Scanned, Trimmed, NoOp
  <2> QED BY <1>2, <2>2, <2>4 DEF Follows
<1>4. CASE ScanDone
  <2>1. phase = "scan" /\ phase' = "recv" /\ todo = {} /\ todo' = todo /\ UNCHANGED index
    BY <1>4 DEF ScanDone, storeVars
  <2>2. \A f \in Files : Right(f)' <=> Right(f)
    BY <1>1, <2>1 DEF Right, Idle
  <2>3. Following'
    BY <1>1, <1>2, <2>1, <2>2 DEF Follows, Following, Expected
  <2>4. Scanned' /\ Trimmed'
    BY <1>1, <2>1 DEF Follows, Scanned, Trimmed, Obsolete
  <2> QED BY <1>2, <2>3, <2>4 DEF Follows
<1> QED BY <1>3, <1>4

LEMMA CallsFollow ==
    ASSUME Inv, Follows, Embed \/ Evict \/ Upsert \/ Remove
    PROVE  Follows'
<1>1. UNCHANGED <<disk, notices, queue, lagged, missed, watched, phase, todo>>
  BY DEF Embed, Evict, Upsert, Remove, diskVars, busVars
<1>2. Reports' /\ \A f \in Files : Told(f)' <=> Told(f)
  BY <1>1, ReportsUnchanged DEF Inv, TypeOK, Follows
<1>3. /\ Trimmed' /\ failed \subseteq failed'
      /\ \A f \in Files : Right(f) => f \in failed' \/ Right(f)'
  BY CallsRight DEF Inv, Follows
<1>4. Following'
  BY <1>1, <1>2, <1>3 DEF Follows, Following, Expected
<1>5. Scanned'
  BY <1>1 DEF Follows, Scanned
<1> QED BY <1>2, <1>3, <1>4, <1>5 DEF Follows

LEMMA VisitsFollow ==
    ASSUME Inv, Follows, Receive \/ \E f \in Files : Scan(f)
    PROVE  Follows'
<1>1. ASSUME NEW f \in Files, Scan(f) PROVE Follows'
  <2>1. /\ phase = "scan" /\ Idle /\ BeginIndex(f) /\ todo' = todo \ {f}
        /\ missed' = IF disk[f] = NoFile THEN missed ELSE missed \ {f}
        /\ UNCHANGED <<disk, notices, watched, queue, lagged, phase>>
    BY <1>1 DEF Scan, busVars
  <2>2. Reports' /\ \A g \in Files : Told(g)' <=> Told(g)
    BY <2>1, ReportsUnchanged DEF Inv, TypeOK, Follows
  <2>3. /\ Trimmed' /\ failed \ {f} \subseteq failed'
        /\ \A g \in Files : g # f /\ Right(g) => Right(g)'
        /\ disk[f] # NoFile => Right(f)'
        /\ disk[f] = NoFile => UNCHANGED <<op, index, failed>>
    BY <2>1, Beginning DEF Inv
  <2>4. ASSUME ~lagged, NEW g \in Files \ (failed' \cup missed') PROVE Expected(g)'
    <3>1. CASE g # f
      <4>1. Expected(g)
        BY <2>1, <2>3, <2>4, <3>1 DEF Follows, Following
      <4> QED BY <2>1, <2>2, <2>3, <3>1, <4>1 DEF Expected
    <3>2. CASE g = f /\ disk[f] # NoFile
      BY <2>1, <2>3, <3>2 DEF Expected
    <3>3. CASE g = f /\ disk[f] = NoFile
      <4>1. Told(f) \/ Right(f)
        BY <2>1, <2>3, <2>4, <3>3 DEF Follows, Following, Expected
      <4>2. Right(f)' <=> Right(f)
        BY <2>1, <2>3, <3>3 DEF Right, Idle
      <4> QED BY <2>1, <2>2, <3>3, <4>1, <4>2 DEF Expected
    <3> QED BY <3>1, <3>2, <3>3
  <2>5. Following'
    BY <2>1, <2>4 DEF Following
  <2>6. Scanned'
    BY <2>1 DEF Scanned
  <2> QED BY <2>2, <2>3, <2>5, <2>6 DEF Follows
<1>2. CASE Receive
  <2>1. /\ phase = "recv" /\ Idle /\ ~lagged /\ queue # <<>> /\ queue' = Tail(queue)
        /\ UNCHANGED <<disk, notices, missed, watched, lagged, phase, todo>>
    BY <1>2 DEF Receive, diskVars
  <2> PICK f : f = Head(queue).path
    OBVIOUS
  <2>2. \/ Head(queue).kind # "Removed" /\ BeginIndex(f)
        \/ Head(queue).kind = "Removed" /\ BeginRemove(f)
    BY <1>2 DEF Receive
  <2>3. /\ Reports' /\ f \in Files
        /\ \A g \in Files : Told(g) /\ g # f => Told(g)'
        /\ f \in missed \/ Told(f)' \/ (Head(queue).kind = "Removed" <=> disk[f] = NoFile)
    BY <2>1, ReceiveReports DEF Inv, Follows
  <2>4. /\ Trimmed' /\ failed \ {f} \subseteq failed'
        /\ \A g \in Files : g # f /\ Right(g) => Right(g)'
        /\ BeginIndex(f) /\ disk[f] # NoFile => Right(f)'
        /\ BeginRemove(f) /\ disk[f] = NoFile => Right(f)'
    BY <2>1, <2>2, <2>3, Beginning DEF Inv
  <2>5. ASSUME NEW g \in Files \ (failed' \cup missed) PROVE Expected(g)'
    <3>1. CASE g # f
      <4>1. Expected(g)
        BY <2>1, <2>4, <2>5, <3>1 DEF Follows, Following
      <4> QED BY <2>1, <2>3, <2>4, <3>1, <4>1 DEF Expected
    <3>2. CASE g = f
      <4>1. Told(f)' \/ Right(f)'
        BY <2>2, <2>3, <2>4, <2>5, <3>2
      <4> QED BY <2>1, <3>2, <4>1 DEF Expected
    <3> QED BY <3>1, <3>2
  <2>6. Following'
    BY <2>1, <2>5 DEF Following
  <2>7. Scanned'
    BY <2>1 DEF Follows, Scanned
  <2> QED BY <2>3, <2>4, <2>6, <2>7 DEF Follows
<1> QED BY <1>1, <1>2

-----------------------------------------------------------------------------

LEMMA FollowsInvariance == Spec => [](Inv /\ Follows)
<1>1. Init => Follows
  <2> SUFFICES ASSUME Init PROVE Follows
    OBVIOUS
  <2>1. notices = <<>> /\ queue = <<>> /\ watched = {} /\ phase = "down" /\ op = NoOp
    BY DEF Init
  <2>2. DOMAIN <<>> = {}
    OBVIOUS
  <2>3. Reports
    BY <2>1, <2>2 DEF Reports, NoticesTrue, QueueTrueOf, Silent, Quiet, NoNotice, NoEvent
  <2>4. Following /\ Scanned /\ Trimmed
    BY <2>1 DEF Following, Scanned, Trimmed, NoOp
  <2> QED BY <2>3, <2>4 DEF Follows
<1>2. Inv /\ Follows /\ [Next]_vars => Follows'
  <2> SUFFICES ASSUME Inv, Follows, [Next]_vars PROVE Follows'
    OBVIOUS
  <2>1. CASE UNCHANGED vars
    <3>1. UNCHANGED <<disk, notices, missed, watched, queue, lagged, phase, todo, op, index,
                      failed>>
      BY <2>1 DEF vars, diskVars, busVars, storeVars
    <3>2. Reports' /\ \A f \in Files : Told(f)' <=> Told(f)
      BY <3>1, ReportsUnchanged DEF Inv, TypeOK, Follows
    <3>3. \A f \in Files : Right(f)' <=> Right(f)
      BY <3>1 DEF Right, Idle
    <3>4. Following'
      BY <3>1, <3>2, <3>3 DEF Follows, Following, Expected
    <3>5. Scanned' /\ Trimmed'
      BY <3>1 DEF Follows, Scanned, Trimmed, Obsolete
    <3> QED BY <3>2, <3>4, <3>5 DEF Follows
  <2>2. CASE Next
    BY <2>2, OutsideFollows, StartsFollow, ScansFollow, CallsFollow, VisitsFollow
       DEF Next, Worker, Environment
  <2> QED BY <2>1, <2>2
<1> QED BY <1>1, <1>2, Invariance, PTL DEF Spec

\* When the worker has seen every report, what it believes stored of a file is
\* what the file contains, unless its last indexing failed or it is missed: it
\* changed, and neither the scan nor a report has told of it since.
THEOREM WorkerHasCaughtUp == Spec => []CaughtUp
<1>1. Inv /\ Follows => CaughtUp
  <2> SUFFICES ASSUME Inv, Follows, Settled, NEW f \in Files \ (failed \cup missed)
               PROVE  index[f] = HashesOf(disk[f])
    BY DEF CaughtUp, Converged
  <2>1. DOMAIN <<>> = {}
    OBVIOUS
  <2>2. ~Told(f)
    BY <2>1 DEF Settled, Told, NoNotice, NoEvent
  <2>3. todo = {} /\ phase = "recv" /\ Idle
    BY DEF Settled, Follows, Scanned
  <2>4. Expected(f)
    BY DEF Settled, Follows, Following
  <2> QED BY <2>2, <2>3, <2>4 DEF Expected, Right
<1> QED BY <1>1, FollowsInvariance, PTL

\* In every state in which the worker runs and its reader has not lagged: of a
\* file it is wrong about it will be told, or its scan is still to come to it,
\* unless the last indexing of the file failed, or a change of it was missed.
THEOREM NoChangeIsForgotten == Spec => []Following
BY FollowsInvariance, PTL DEF Follows

=============================================================================
