-------------------------- MODULE Workspace_proofs --------------------------
(***************************************************************************)
(* Proofs about Workspace for every set of files and tags, every ring and  *)
(* every number of changes: whatever the bus drops, and however reports on *)
(* the channel, events on the bus and the user's commands interleave, when *)
(* all is handled the tree, the tags and the tag list are those of the     *)
(* files, but for the files the history variables name.                    *)
(***************************************************************************)
EXTENDS Workspace, SequenceTheorems, TLAPS

-----------------------------------------------------------------------------
(* The inductive invariant. *)

\* How far the indexing thread is, seen from what it still has to do and from
\* what it has announced.
Stages ==
    /\ stage # "scan" => toVisit = {}
    /\ stage \notin {"scan", "join"} => work = {} /\ parsed = {}
    /\ stage \notin {"on", "off"} =>
         ~ui.finished /\ \A r \in ToSet(channel) : r.kind # "Finished"

\* A report that says what is on the disk of f is to come, rs being those that
\* are on the channel.
ComingIn(f, rs) ==
    IF disk[f] = Gone
    THEN \/ Notice("Remove", f) \in ToSet(notices)
         \/ report.kind = "FileDeleted" /\ report.path = f /\ ~report.sent
         \/ \E r \in rs : r.kind = "FileDeleted" /\ r.path = f
    ELSE \/ Notice("Modify", f) \in ToSet(notices)
         \/ /\ report.kind = "FileModified" /\ report.path = f
            /\ ~report.sent /\ report.tag = disk[f]
         \/ \E r \in rs : /\ r.kind \in {"FileParsed", "FileModified"}
                          /\ r.path = f /\ r.tag = disk[f]
         \/ f \in work \cup toVisit \/ [path |-> f, tag |-> disk[f]] \in parsed

Coming(f) == ComingIn(f, ToSet(channel))

\* A file that is shown wrongly is in doubt, or renamed, or what is true of it is
\* on its way: the reports themselves repair what out of date ones did.
InTransit ==
    \A f \in Files \ (doubtful \cup renamed) : Agrees(ui, f) \/ Coming(f)

\* The watcher will report something, which rebuilds the tag list.  A file that
\* was modified and is gone is not reported.
Tells(n) == n.kind = "Remove" \/ disk[n.path] # Gone
RebuildComing ==
    \/ \E n \in ToSet(notices) : Tells(n)
    \/ report # Nothing /\ ~report.sent
    \/ \E r \in ToSet(channel) : r.kind # "FileParsed"

\* What the workers have parsed is handled before the end of the indexing.
ParsedFirst ==
    \A i \in DOMAIN channel : channel[i].kind = "FileParsed" =>
        \E j \in DOMAIN channel : i < j /\ channel[j].kind = "Finished"

ListInTransit ==
    stage = "on" => /\ \/ ui.list = ListOf(ui.tags) \/ RebuildComing
                       \/ doubtful \cup renamed # {}
                    /\ ParsedFirst

-----------------------------------------------------------------------------
(* Sequences, by the set of their elements. *)

LEMMA NoElems == ToSet(<<>>) = {}
BY DEF ToSet

LEMMA AppendElems ==
    ASSUME NEW S, NEW s \in Seq(S), NEW e \in S
    PROVE  /\ Append(s, e) \in Seq(S)
           /\ ToSet(Append(s, e)) = ToSet(s) \cup {e}
<1> DEFINE t == Append(s, e)
<1>1. /\ t \in Seq(S) /\ Len(t) = Len(s) + 1 /\ t[Len(s) + 1] = e
      /\ \A i \in 1..Len(s) : t[i] = s[i]
  BY AppendProperties
<1>2. Len(s) \in Nat /\ DOMAIN s = 1..Len(s) /\ DOMAIN t = 1..(Len(s) + 1)
  BY <1>1, LenProperties
<1> HIDE DEF t
<1>3. ToSet(t) \subseteq ToSet(s) \cup {e}
  BY <1>1, <1>2 DEF ToSet
<1>4. ToSet(s) \subseteq ToSet(t)
  BY <1>1, <1>2 DEF ToSet
<1>5. e \in ToSet(t)
  <2>1. Len(s) + 1 \in DOMAIN t
    BY <1>2
  <2> QED BY <1>1, <2>1 DEF ToSet
<1>6. ToSet(t) = ToSet(s) \cup {e} /\ t \in Seq(S)
  BY <1>1, <1>3, <1>4, <1>5
<1> QED BY <1>6 DEF t

LEMMA ConcatElems ==
    ASSUME NEW S, NEW s \in Seq(S), NEW t \in Seq(S)
    PROVE  /\ s \o t \in Seq(S)
           /\ ToSet(s \o t) = ToSet(s) \cup ToSet(t)
<1> DEFINE u == s \o t
<1>1. /\ u \in Seq(S) /\ Len(u) = Len(s) + Len(t)
      /\ \A i \in 1 .. Len(s) + Len(t) : u[i] = IF i <= Len(s) THEN s[i] ELSE t[i - Len(s)]
  BY ConcatProperties
<1>2. /\ Len(s) \in Nat /\ DOMAIN s = 1..Len(s) /\ Len(t) \in Nat /\ DOMAIN t = 1..Len(t)
      /\ DOMAIN u = 1..Len(s) + Len(t)
  BY <1>1, LenProperties
<1> HIDE DEF u
<1>3. ToSet(u) \subseteq ToSet(s) \cup ToSet(t)
  <2>1. ASSUME NEW i \in DOMAIN u PROVE u[i] \in ToSet(s) \cup ToSet(t)
    <3>1. CASE i <= Len(s)
      <4>1. i \in DOMAIN s /\ u[i] = s[i]
        BY <1>1, <1>2, <3>1
      <4> QED BY <4>1 DEF ToSet
    <3>2. CASE ~(i <= Len(s))
      <4>1. i - Len(s) \in DOMAIN t /\ u[i] = t[i - Len(s)]
        BY <1>1, <1>2, <3>2
      <4> QED BY <4>1 DEF ToSet
    <3> QED BY <3>1, <3>2
  <2> QED BY <2>1 DEF ToSet
<1>4. ToSet(s) \subseteq ToSet(u)
  <2>1. ASSUME NEW i \in DOMAIN s PROVE s[i] \in ToSet(u)
    <3>1. i \in DOMAIN u /\ u[i] = s[i]
      BY <1>1, <1>2
    <3> QED BY <3>1 DEF ToSet
  <2> QED BY <2>1 DEF ToSet
<1>5. ToSet(t) \subseteq ToSet(u)
  <2>1. ASSUME NEW i \in DOMAIN t PROVE t[i] \in ToSet(u)
    <3>1. i + Len(s) \in DOMAIN u /\ u[i + Len(s)] = t[i]
      BY <1>1, <1>2
    <3> QED BY <3>1 DEF ToSet
  <2> QED BY <2>1 DEF ToSet
<1>6. ToSet(u) = ToSet(s) \cup ToSet(t) /\ u \in Seq(S)
  BY <1>1, <1>3, <1>4, <1>5
<1> QED BY <1>6 DEF u

LEMMA TailElems ==
    ASSUME NEW S, NEW s \in Seq(S), s # <<>>
    PROVE  /\ Head(s) \in S /\ Tail(s) \in Seq(S) /\ Len(Tail(s)) = Len(s) - 1
           /\ ToSet(s) = {Head(s)} \cup ToSet(Tail(s))
           /\ \A i \in DOMAIN Tail(s) : i + 1 \in DOMAIN s /\ Tail(s)[i] = s[i + 1]
           /\ \A i \in DOMAIN s : i = 1 \/ (i - 1 \in DOMAIN Tail(s) /\ Tail(s)[i - 1] = s[i])
<1> DEFINE t == Tail(s)
<1>1. /\ Head(s) \in S /\ t \in Seq(S) /\ Len(t) = Len(s) - 1
      /\ \A i \in 1..Len(t) : t[i] = s[i + 1]
  BY HeadTailProperties
<1>2. /\ Len(s) \in Nat /\ Len(t) \in Nat /\ DOMAIN s = 1..Len(s) /\ DOMAIN t = 1..Len(t)
      /\ Head(s) = s[1] /\ Len(s) # 0
  BY <1>1, LenProperties, EmptySeq
<1> HIDE DEF t
<1>3. \A i \in DOMAIN t : i + 1 \in DOMAIN s /\ t[i] = s[i + 1]
  BY <1>1, <1>2
<1>4. \A i \in DOMAIN s : i = 1 \/ (i - 1 \in DOMAIN t /\ t[i - 1] = s[i])
  BY <1>1, <1>2
<1>5. 1 \in DOMAIN s
  BY <1>2
<1>6. ToSet(s) = {Head(s)} \cup ToSet(t)
  <2>1. ToSet(s) \subseteq {Head(s)} \cup ToSet(t)
    BY <1>2, <1>4 DEF ToSet
  <2>2. {Head(s)} \cup ToSet(t) \subseteq ToSet(s)
    BY <1>2, <1>3, <1>5 DEF ToSet
  <2> QED BY <2>1, <2>2
<1> QED BY <1>1, <1>3, <1>4, <1>6 DEF t

LEMMA ElemsTyped == ASSUME NEW S, NEW s \in Seq(S) PROVE ToSet(s) \subseteq S
<1>1. \A i \in 1..Len(s) : s[i] \in S
  BY ElementOfSeq
<1>2. DOMAIN s = 1..Len(s)
  BY LenProperties
<1> QED BY <1>1, <1>2 DEF ToSet

-----------------------------------------------------------------------------
(* The parts of TypeOK. *)

Note     == [kind: {"Modify", "Remove"}, path: Files]
BusEvent == [kind: {"Discovered", "Updated", "Removed"}, paths: SUBSET Files]
Busy     == [kind: {"FileDeleted"}, path: Files, sent: BOOLEAN]
              \cup [kind: {"FileModified"}, path: Files, tag: Tags, sent: BOOLEAN]
UiState  == [tree: SUBSET Files, tags: [Files -> Tags \cup {Unknown, NoTag}],
             list: SUBSET Tags, finished: BOOLEAN]

DiskTypes    == disk \in [Files -> Tags \cup {Gone}] /\ changes \in Nat
NoticeTypes  == notices \in Seq(Note)
IndexTypes   == /\ toVisit \subseteq Files /\ batch \subseteq Files /\ work \subseteq Files
                /\ parsed \subseteq [path: Files, tag: Tags \cup {NoTag}]
                /\ stage \in {"scan", "join", "watching", "unwatched", "on", "off"}
ReportTypes  == report = Nothing \/ report \in Busy
ChannelTypes == channel \in Seq(Report)
BusTypes     == /\ fileBus \in Seq(BusEvent) /\ Len(fileBus) <= BusCapacity
                /\ lagged \in BOOLEAN
Phases       == {"channel", "events", "agent", "commands"}
UiTypes      == ui \in UiState /\ phase \in Phases
HistoryTypes == doubtful \subseteq Files /\ renamed \subseteq Files

\* All but the agent's, which the rest of the invariant does not rest on.
Types == /\ DiskTypes /\ NoticeTypes /\ IndexTypes /\ ReportTypes
         /\ ChannelTypes /\ BusTypes /\ UiTypes /\ HistoryTypes

Effect     == [path: Files, tag: Tags \cup {NoTag}]
AgentTypes == created \subseteq Files /\ effects \in Seq(Effect)

Inv == Types /\ Stages /\ InTransit /\ ListInTransit

LEMMA TypeParts ==
    Types <=> /\ DiskTypes /\ NoticeTypes /\ IndexTypes /\ ReportTypes
              /\ ChannelTypes /\ BusTypes /\ UiTypes /\ HistoryTypes
BY DEF Types

LEMMA AllTypes == TypeOK <=> Types /\ AgentTypes
BY DEF TypeOK, Types, DiskTypes, NoticeTypes, IndexTypes, ReportTypes, ChannelTypes,
       BusTypes, UiTypes, HistoryTypes, Note, BusEvent, Busy, UiState, Phases,
       AgentTypes, Effect

LEMMA RingTypes ==
    ASSUME NEW bus \in Seq(BusEvent), Len(bus) <= BusCapacity, NEW e \in BusEvent
    PROVE  Publish(bus, e) \in Seq(BusEvent) /\ Len(Publish(bus, e)) <= BusCapacity
<1>1. Len(bus) \in Nat /\ BusCapacity \in Nat /\ BusCapacity # 0
  BY LenProperties, WorkspaceAssumption
<1>2. CASE Len(bus) < BusCapacity
  <2>1. Append(bus, e) \in Seq(BusEvent) /\ Len(Append(bus, e)) = Len(bus) + 1
    BY AppendProperties
  <2> QED BY <1>1, <1>2, <2>1 DEF Publish
<1>3. CASE ~(Len(bus) < BusCapacity)
  <2> DEFINE t == Tail(bus)
  <2>1. bus # <<>>
    BY <1>1, <1>3, EmptySeq
  <2>2. t \in Seq(BusEvent) /\ Len(t) = Len(bus) - 1
    BY <2>1, HeadTailProperties
  <2>3. Publish(bus, e) = Append(t, e)
    BY <1>3 DEF Publish
  <2> HIDE DEF t
  <2>4. Append(t, e) \in Seq(BusEvent) /\ Len(Append(t, e)) = Len(t) + 1
    BY <2>2, AppendProperties
  <2> QED BY <1>1, <2>2, <2>3, <2>4
<1> QED BY <1>2, <1>3

LEMMA EventTypes ==
    ASSUME NEW k \in {"Discovered", "Updated", "Removed"}, NEW fs \in SUBSET Files
    PROVE  Event(k, fs) \in BusEvent
BY DEF Event, BusEvent

LEMMA PublishTypes ==
    ASSUME BusTypes, NEW e \in BusEvent, PublishOne(e)
    PROVE  BusTypes'
<1>1. fileBus' = Publish(fileBus, e) /\ lagged' \in BOOLEAN
  BY DEF PublishOne, BusTypes
<1>2. Publish(fileBus, e) \in Seq(BusEvent) /\ Len(Publish(fileBus, e)) <= BusCapacity
  BY RingTypes DEF BusTypes
<1> DEFINE b == Publish(fileBus, e)
<1>3. fileBus' = b /\ b \in Seq(BusEvent) /\ Len(b) <= BusCapacity
  BY <1>1, <1>2
<1> HIDE DEF b
<1> QED BY <1>1, <1>3 DEF BusTypes

LEMMA BusKept == ASSUME BusTypes, UNCHANGED busVars PROVE BusTypes'
BY DEF BusTypes, busVars

-----------------------------------------------------------------------------
(* What the handlers of the UI do. *)

LEMMA ListTypes ==
    ASSUME NEW tags \in [Files -> Tags \cup {Unknown, NoTag}]
    PROVE  ListOf(tags) \subseteq Tags
BY DEF ListOf

LEMMA AddingTags ==
    ASSUME NEW u \in UiState, NEW f \in Files, NEW t \in Tags \cup {NoTag}
    PROVE  /\ AddTags(u, f, t) \in UiState
           /\ AddTags(u, f, t).tree = u.tree
           /\ AddTags(u, f, t).tags = [u.tags EXCEPT ![f] = t]
           /\ AddTags(u, f, t).finished = u.finished
BY DEF AddTags, UiState

LEMMA AddingFile ==
    ASSUME NEW u \in UiState, NEW f \in Files
    PROVE  /\ AddFile(u, f) \in UiState
           /\ AddFile(u, f).tree = u.tree \cup {f}
           /\ AddFile(u, f).tags = u.tags
           /\ AddFile(u, f).finished = u.finished
BY DEF AddFile, UiState

LEMMA RemovingFile ==
    ASSUME NEW u \in UiState, NEW f \in Files
    PROVE  /\ RemoveFile(u, f) \in UiState
           /\ RemoveFile(u, f).tree = u.tree \ {f}
           /\ RemoveFile(u, f).tags = [u.tags EXCEPT ![f] = Unknown]
           /\ RemoveFile(u, f).finished = u.finished
BY DEF RemoveFile, UiState

LEMMA Rebuilding ==
    ASSUME NEW u \in UiState
    PROVE  /\ Rebuild(u) \in UiState
           /\ Rebuild(u).tree = u.tree
           /\ Rebuild(u).tags = u.tags
           /\ Rebuild(u).finished = u.finished
           /\ Rebuild(u).list = ListOf(Rebuild(u).tags)
<1>1. ListOf(u.tags) \subseteq Tags
  BY ListTypes DEF UiState
<1> DEFINE l == ListOf(u.tags)
<1>2. Rebuild(u) = [u EXCEPT !.list = l] /\ l \subseteq Tags
  BY <1>1 DEF Rebuild
<1> HIDE DEF l
<1>3. /\ Rebuild(u) \in UiState /\ Rebuild(u).tree = u.tree /\ Rebuild(u).tags = u.tags
      /\ Rebuild(u).finished = u.finished /\ Rebuild(u).list = l
  BY <1>2 DEF UiState
<1>4. ListOf(Rebuild(u).tags) = l
  BY <1>3 DEF l
<1> QED BY <1>3, <1>4

LEMMA Parsing ==
    ASSUME NEW u \in UiState, NEW f \in Files, NEW t \in Tags \cup {NoTag}
    PROVE  /\ FileParsed(u, f, t) \in UiState
           /\ FileParsed(u, f, t).tree = u.tree \cup {f}
           /\ FileParsed(u, f, t).tags = [u.tags EXCEPT ![f] = t]
           /\ FileParsed(u, f, t).finished = u.finished
BY AddingTags, AddingFile DEF FileParsed

LEMMA Modifying ==
    ASSUME NEW u \in UiState, NEW f \in Files, NEW t \in Tags \cup {NoTag}
    PROVE  /\ FileModified(u, f, t) \in UiState
           /\ FileModified(u, f, t).tree = u.tree \cup {f}
           /\ FileModified(u, f, t).tags = [u.tags EXCEPT ![f] = t]
           /\ FileModified(u, f, t).finished = u.finished
           /\ FileModified(u, f, t).list = ListOf(FileModified(u, f, t).tags)
<1> DEFINE p == FileParsed(u, f, t)
<1>1. /\ p \in UiState /\ p.tree = u.tree \cup {f} /\ p.finished = u.finished
      /\ p.tags = [u.tags EXCEPT ![f] = t]
  BY Parsing
<1>2. FileModified(u, f, t) = Rebuild(p)
  BY DEF FileModified, FileParsed
<1> HIDE DEF p
<1> QED BY <1>1, <1>2, Rebuilding

LEMMA Deleting ==
    ASSUME NEW u \in UiState, NEW f \in Files
    PROVE  /\ FileDeleted(u, f) \in UiState
           /\ FileDeleted(u, f).tree = u.tree \ {f}
           /\ FileDeleted(u, f).tags = [u.tags EXCEPT ![f] = Unknown]
           /\ FileDeleted(u, f).finished = u.finished
           /\ FileDeleted(u, f).list = ListOf(FileDeleted(u, f).tags)
BY RemovingFile, Rebuilding DEF FileDeleted

LEMMA Finishing ==
    ASSUME NEW u \in UiState, NEW v, v = [Rebuild(u) EXCEPT !.finished = TRUE]
    PROVE  v \in UiState /\ v.tree = u.tree /\ v.tags = u.tags /\ v.list = ListOf(v.tags)
<1> DEFINE r == Rebuild(u)
<1>1. r \in UiState /\ r.tree = u.tree /\ r.tags = u.tags /\ r.list = ListOf(r.tags)
  BY Rebuilding
<1>2. v = [r EXCEPT !.finished = TRUE]
  OBVIOUS
<1> HIDE DEF r
<1>3. v \in UiState /\ v.tree = r.tree /\ v.tags = r.tags /\ v.list = r.list
  BY <1>1, <1>2 DEF UiState
<1> QED BY <1>1, <1>3

\* A rename in the UI.
LEMMA Renaming ==
    ASSUME NEW u \in UiState, NEW f \in Files, NEW g \in Files, NEW t \in Tags,
           NEW v, v = AddTags(AddFile(RemoveFile(u, f), g), g, t)
    PROVE  /\ v \in UiState /\ v.finished = u.finished
           /\ v.tree = (u.tree \ {f}) \cup {g}
           /\ v.tags = [[u.tags EXCEPT ![f] = Unknown] EXCEPT ![g] = t]
<1> DEFINE a == RemoveFile(u, f)
           b == AddFile(a, g)
<1>1. /\ a \in UiState /\ a.tree = u.tree \ {f} /\ a.finished = u.finished
      /\ a.tags = [u.tags EXCEPT ![f] = Unknown]
  BY RemovingFile
<1>2. v = AddTags(b, g, t)
  OBVIOUS
<1> HIDE DEF a
<1>3. b \in UiState /\ b.tree = a.tree \cup {g} /\ b.tags = a.tags /\ b.finished = a.finished
  BY <1>1, AddingFile
<1> HIDE DEF b
<1>4. v \in UiState /\ v.tree = b.tree /\ v.tags = [b.tags EXCEPT ![g] = t]
      /\ v.finished = b.finished
  BY <1>2, <1>3, AddingTags
<1> QED BY <1>1, <1>3, <1>4

-----------------------------------------------------------------------------
(* What is to come. *)

\* What Believe asks about is what is to come, for every channel.
LEMMA RepairIsComing ==
    ASSUME Types, NEW f \in Files, NEW ch \in Seq(Report)
    PROVE  RepairComing(f, ch) <=> ComingIn(f, ToSet(ch))
<1>1. \A r \in Report : r = [kind |-> "FileDeleted", path |-> f]
                          <=> r.kind = "FileDeleted" /\ r.path = f
  BY DEF Report
<1>2. ToSet(ch) \subseteq Report /\ \A i \in DOMAIN ch : ch[i] \in Report
  BY ElemsTyped DEF ToSet
<1>3. (\E i \in DOMAIN ch : ch[i] = [kind |-> "FileDeleted", path |-> f])
        <=> \E r \in ToSet(ch) : r.kind = "FileDeleted" /\ r.path = f
  BY <1>1, <1>2 DEF ToSet
<1>4. (\E i \in DOMAIN ch : /\ ch[i].kind \in {"FileParsed", "FileModified"}
                            /\ ch[i].path = f /\ ch[i].tag = disk[f])
        <=> \E r \in ToSet(ch) : /\ r.kind \in {"FileParsed", "FileModified"}
                                 /\ r.path = f /\ r.tag = disk[f]
  BY DEF ToSet
<1>5. \A k : (\E i \in DOMAIN notices : notices[i] = [kind |-> k, path |-> f])
               <=> Notice(k, f) \in ToSet(notices)
  BY DEF ToSet, Notice
<1> QED BY <1>3, <1>4, <1>5 DEF RepairComing, ComingIn

\* What is to come stays to come while nothing is taken away.
LEMMA ComingKept ==
    ASSUME NEW f \in Files, Coming(f), disk'[f] = disk[f], UNCHANGED <<indexVars, report>>,
           ToSet(notices) \subseteq ToSet(notices'), ToSet(channel) \subseteq ToSet(channel')
    PROVE  Coming(f)'
<1>1. CASE disk[f] = Gone
  BY <1>1 DEF Coming, ComingIn, indexVars
<1>2. CASE disk[f] # Gone
  BY <1>2 DEF Coming, ComingIn, indexVars
<1> QED BY <1>1, <1>2

\* What is on the disk of f, what is shown of it and what is to come of it.
LEMMA ShownKept ==
    ASSUME NEW f \in Files, Agrees(ui, f), disk'[f] = disk[f],
           f \in ui'.tree <=> f \in ui.tree, ui'.tags[f] = ui.tags[f]
    PROVE  Agrees(ui, f)'
BY DEF Agrees

LEMMA InTransitKept ==
    ASSUME InTransit, UNCHANGED <<disk, ui, doubtful, renamed>>,
           \A f \in Files : Coming(f) => Coming(f)'
    PROVE  InTransit'
<1> SUFFICES ASSUME NEW f \in Files \ (doubtful' \cup renamed'), ~Coming(f)'
             PROVE  Agrees(ui, f)'
  BY DEF InTransit
<1>1. f \in Files \ (doubtful \cup renamed) /\ ~Coming(f)
  OBVIOUS
<1>2. Agrees(ui, f)
  BY <1>1 DEF InTransit
<1> QED BY <1>2 DEF Agrees

\* Reports that are added to the channel leave the order of the others.
LEMMA ParsedFirstAppend ==
    ASSUME ChannelTypes, ParsedFirst, NEW e \in Report, e.kind # "FileParsed",
           channel' = Append(channel, e)
    PROVE  ParsedFirst'
<1>1. /\ Len(channel) \in Nat /\ DOMAIN channel = 1..Len(channel)
      /\ channel' \in Seq(Report) /\ Len(channel') = Len(channel) + 1
      /\ channel'[Len(channel) + 1] = e
      /\ \A i \in 1..Len(channel) : channel'[i] = channel[i]
  BY AppendProperties, LenProperties DEF ChannelTypes
<1>2. DOMAIN channel' = 1..(Len(channel) + 1)
  BY <1>1, LenProperties
<1> SUFFICES ASSUME NEW i \in DOMAIN channel', channel'[i].kind = "FileParsed"
             PROVE  \E j \in DOMAIN channel' : i < j /\ channel'[j].kind = "Finished"
  BY DEF ParsedFirst
<1>3. i \in DOMAIN channel /\ channel'[i] = channel[i]
  BY <1>1, <1>2
<1>4. PICK j \in DOMAIN channel : i < j /\ channel[j].kind = "Finished"
  BY <1>3 DEF ParsedFirst
<1>5. j \in DOMAIN channel' /\ channel'[j] = channel[j]
  BY <1>1, <1>2
<1> QED BY <1>4, <1>5

-----------------------------------------------------------------------------
(* The indexing thread and the watcher. *)

LEMMA IndexingTypes == ASSUME Types, Indexing PROVE Types'
<1>1. /\ DiskTypes /\ NoticeTypes /\ IndexTypes /\ ReportTypes
      /\ ChannelTypes /\ BusTypes /\ UiTypes /\ HistoryTypes
  BY TypeParts
<1>2. UNCHANGED <<diskVars, report, phase, ui, doubtful, renamed>>
  BY DEF Indexing, Visit, ScanDone, Parse, SendParsed, StartWatcher, Announce
<1>3. DiskTypes' /\ NoticeTypes' /\ ReportTypes' /\ UiTypes' /\ HistoryTypes'
  BY <1>1, <1>2 DEF DiskTypes, NoticeTypes, ReportTypes, UiTypes, HistoryTypes, diskVars
<1>4. ASSUME NEW f \in Files, Visit(f) PROVE IndexTypes' /\ ChannelTypes' /\ BusTypes'
  <2>1. UNCHANGED busVars \/ PublishOne(Event("Discovered", batch))
    BY <1>4 DEF Visit
  <2>2. BusTypes'
    BY <1>1, <2>1, EventTypes, PublishTypes, BusKept DEF IndexTypes
  <2>3. IndexTypes' /\ ChannelTypes'
    BY <1>1, <1>4 DEF Visit, IndexTypes, ChannelTypes
  <2> QED BY <2>2, <2>3
<1>5. ASSUME ScanDone PROVE IndexTypes' /\ ChannelTypes' /\ BusTypes'
  <2>1. UNCHANGED busVars \/ PublishOne(Event("Discovered", batch))
    BY <1>5 DEF ScanDone
  <2>2. BusTypes'
    BY <1>1, <2>1, EventTypes, PublishTypes, BusKept DEF IndexTypes
  <2>3. IndexTypes' /\ ChannelTypes'
    BY <1>1, <1>5 DEF ScanDone, IndexTypes, ChannelTypes
  <2> QED BY <2>2, <2>3
<1>6. ASSUME NEW f \in Files, Parse(f) PROVE IndexTypes' /\ ChannelTypes' /\ BusTypes'
  <2>1. BusTypes' /\ ChannelTypes'
    BY <1>1, <1>6, BusKept DEF Parse, ChannelTypes
  <2>2. (IF disk[f] = Gone THEN NoTag ELSE disk[f]) \in Tags \cup {NoTag}
    BY <1>1 DEF DiskTypes
  <2>3. IndexTypes'
    BY <1>1, <1>6, <2>2 DEF Parse, IndexTypes
  <2> QED BY <2>1, <2>3
<1>7. ASSUME NEW p \in parsed, SendParsed(p) PROVE IndexTypes' /\ ChannelTypes' /\ BusTypes'
  <2> DEFINE e == [kind |-> "FileParsed", path |-> p.path, tag |-> p.tag]
  <2>1. e \in Report
    BY <1>1 DEF IndexTypes, Report
  <2>2. channel' = Append(channel, e)
    BY <1>7 DEF SendParsed
  <2> HIDE DEF e
  <2>3. ChannelTypes'
    BY <1>1, <2>1, <2>2, AppendProperties DEF ChannelTypes
  <2>4. IndexTypes' /\ BusTypes'
    BY <1>1, <1>7, BusKept DEF SendParsed, IndexTypes
  <2> QED BY <2>3, <2>4
<1>8. ASSUME StartWatcher PROVE IndexTypes' /\ ChannelTypes' /\ BusTypes'
  BY <1>1, <1>8, BusKept DEF StartWatcher, IndexTypes, ChannelTypes
<1>9. ASSUME Announce PROVE IndexTypes' /\ ChannelTypes' /\ BusTypes'
  <2> DEFINE e == [kind |-> "Finished", path |-> Nothing]
  <2>1. e \in Report
    BY DEF Report
  <2>2. channel' = Append(channel, e)
    BY <1>9 DEF Announce
  <2> HIDE DEF e
  <2>3. ChannelTypes'
    BY <1>1, <2>1, <2>2, AppendProperties DEF ChannelTypes
  <2>4. IndexTypes' /\ BusTypes'
    BY <1>1, <1>9, BusKept DEF Announce, IndexTypes
  <2> QED BY <2>3, <2>4
<1>10. IndexTypes' /\ ChannelTypes' /\ BusTypes'
  BY <1>4, <1>5, <1>6, <1>7, <1>8, <1>9 DEF Indexing
<1> QED BY <1>3, <1>10, TypeParts, PTL


LEMMA IndexingComing ==
    ASSUME Types, Indexing, NEW f \in Files, Coming(f)
    PROVE  Coming(f)'
<1>1. IndexTypes /\ ChannelTypes /\ DiskTypes
  BY TypeParts
<1>2. UNCHANGED <<disk, notices, report>>
  BY DEF Indexing, Visit, ScanDone, Parse, SendParsed, StartWatcher, Announce, diskVars
<1>3. CASE UNCHANGED <<toVisit, work, parsed, channel>>
  BY <1>2, <1>3 DEF Coming, ComingIn
<1>4. ASSUME NEW g \in Files, Visit(g) PROVE Coming(f)'
  <2>1. /\ UNCHANGED <<parsed, channel>> /\ toVisit' = toVisit \ {g}
        /\ work' = IF disk[g] = Gone THEN work ELSE work \cup {g}
    BY <1>4 DEF Visit
  <2> QED BY <1>2, <2>1 DEF Coming, ComingIn
<1>5. ASSUME NEW g \in Files, Parse(g) PROVE Coming(f)'
  <2>1. /\ UNCHANGED <<toVisit, channel>> /\ work' = work \ {g} /\ parsed \subseteq parsed'
        /\ disk[g] # Gone => [path |-> g, tag |-> disk[g]] \in parsed'
    BY <1>5 DEF Parse
  <2> QED BY <1>2, <2>1 DEF Coming, ComingIn
<1>6. ASSUME NEW p \in parsed, SendParsed(p) PROVE Coming(f)'
  <2> DEFINE e == [kind |-> "FileParsed", path |-> p.path, tag |-> p.tag]
  <2>1. e \in Report
    BY <1>1 DEF IndexTypes, Report
  <2>2. /\ UNCHANGED <<toVisit, work>> /\ parsed' = parsed \ {p}
        /\ channel' = Append(channel, e)
    BY <1>6 DEF SendParsed
  <2>3. e.kind = "FileParsed" /\ e.path = p.path /\ e.tag = p.tag
    OBVIOUS
  <2> HIDE DEF e
  <2>4. ToSet(channel') = ToSet(channel) \cup {e}
    BY <1>1, <2>1, <2>2, AppendElems DEF ChannelTypes
  <2>5. p = [path |-> f, tag |-> disk[f]] => p.path = f /\ p.tag = disk[f]
    OBVIOUS
  <2> QED BY <1>2, <2>2, <2>3, <2>4, <2>5 DEF Coming, ComingIn
<1>7. ASSUME Announce PROVE Coming(f)'
  <2> DEFINE e == [kind |-> "Finished", path |-> Nothing]
  <2>1. e \in Report
    BY DEF Report
  <2>2. UNCHANGED <<toVisit, work, parsed>> /\ channel' = Append(channel, e)
    BY <1>7 DEF Announce
  <2> HIDE DEF e
  <2>3. ToSet(channel') = ToSet(channel) \cup {e}
    BY <1>1, <2>1, <2>2, AppendElems DEF ChannelTypes
  <2> QED BY <1>2, <2>2, <2>3 DEF Coming, ComingIn
<1>8. ASSUME ScanDone \/ StartWatcher PROVE UNCHANGED <<toVisit, work, parsed, channel>>
  BY <1>8 DEF ScanDone, StartWatcher
<1> QED BY <1>3, <1>4, <1>5, <1>6, <1>7, <1>8 DEF Indexing

LEMMA IndexingKeeps == ASSUME Inv, Indexing PROVE Inv'
<1>1. Types'
  BY IndexingTypes DEF Inv
<1>2. IndexTypes /\ ChannelTypes /\ UiTypes
  BY TypeParts DEF Inv
<1>3. UNCHANGED <<disk, notices, report, ui, doubtful, renamed>>
  BY DEF Indexing, Visit, ScanDone, Parse, SendParsed, StartWatcher, Announce, diskVars
<1>4. InTransit'
  BY <1>3, IndexingComing, InTransitKept DEF Inv
<1>5. Stages /\ ListInTransit
  BY DEF Inv
<1>6. ASSUME NEW f \in Files, Visit(f) PROVE Stages' /\ ListInTransit'
  <2>1. stage = "scan" /\ UNCHANGED <<stage, ui, channel>>
    BY <1>6 DEF Visit
  <2> QED BY <1>5, <2>1 DEF Stages, ListInTransit
<1>7. ASSUME ScanDone PROVE Stages' /\ ListInTransit'
  <2>1. /\ stage = "scan" /\ toVisit = {} /\ stage' = "join"
        /\ UNCHANGED <<ui, channel, toVisit, parsed, work>>
    BY <1>7 DEF ScanDone
  <2> QED BY <1>5, <2>1 DEF Stages, ListInTransit
<1>8. ASSUME NEW f \in Files, Parse(f) PROVE Stages' /\ ListInTransit'
  <2>1. work # {} /\ UNCHANGED <<ui, channel, toVisit, stage>>
    BY <1>8 DEF Parse
  <2> QED BY <1>5, <2>1 DEF Stages, ListInTransit
<1>9. ASSUME NEW p \in parsed, SendParsed(p) PROVE Stages' /\ ListInTransit'
  <2> DEFINE e == [kind |-> "FileParsed", path |-> p.path, tag |-> p.tag]
  <2>1. e \in Report /\ e.kind = "FileParsed"
    BY <1>2 DEF IndexTypes, Report
  <2>2. channel' = Append(channel, e) /\ UNCHANGED <<ui, toVisit, stage>>
    BY <1>9 DEF SendParsed
  <2> HIDE DEF e
  <2>3. ToSet(channel') = ToSet(channel) \cup {e}
    BY <1>2, <2>1, <2>2, AppendElems DEF ChannelTypes
  <2>4. parsed # {}
    BY <1>9
  <2> QED BY <1>5, <2>1, <2>2, <2>3, <2>4 DEF Stages, ListInTransit
<1>10. ASSUME StartWatcher PROVE Stages' /\ ListInTransit'
  <2>1. /\ stage = "join" /\ stage' \in {"watching", "unwatched"} /\ work = {} /\ parsed = {}
        /\ UNCHANGED <<ui, channel, toVisit, parsed, work>>
    BY <1>10 DEF StartWatcher
  <2> QED BY <1>5, <2>1 DEF Stages, ListInTransit
<1>11. ASSUME Announce PROVE Stages' /\ ListInTransit'
  <2> DEFINE e == [kind |-> "Finished", path |-> Nothing]
  <2>1. e \in Report /\ e.kind = "Finished"
    BY DEF Report
  <2>2. /\ channel' = Append(channel, e) /\ stage \in {"watching", "unwatched"}
        /\ stage' \in {"on", "off"} /\ UNCHANGED <<report, notices, toVisit, work, parsed>>
    BY <1>11 DEF Announce, diskVars
  <2> HIDE DEF e
  <2>3. Stages'
    BY <1>5, <2>2 DEF Stages
  <2>4. ToSet(channel') = ToSet(channel) \cup {e}
    BY <1>2, <2>1, <2>2, AppendElems DEF ChannelTypes
  <2>5. RebuildComing'
    BY <2>1, <2>4 DEF RebuildComing
  <2>6. ParsedFirst'
    <3>1. /\ Len(channel) \in Nat /\ channel' \in Seq(Report) /\ Len(channel') = Len(channel) + 1
          /\ channel'[Len(channel) + 1] = e
      BY <1>2, <2>1, <2>2, AppendProperties, LenProperties DEF ChannelTypes
    <3>2. DOMAIN channel' = 1..(Len(channel) + 1)
      BY <3>1, LenProperties
    <3> SUFFICES ASSUME NEW i \in DOMAIN channel', channel'[i].kind = "FileParsed"
                 PROVE  \E j \in DOMAIN channel' : i < j /\ channel'[j].kind = "Finished"
      BY DEF ParsedFirst
    <3>3. i # Len(channel) + 1
      BY <2>1, <3>1
    <3> QED BY <2>1, <3>1, <3>2, <3>3
  <2> QED BY <2>3, <2>5, <2>6 DEF ListInTransit
<1>12. Stages' /\ ListInTransit'
  BY <1>6, <1>7, <1>8, <1>9, <1>10, <1>11 DEF Indexing
<1> QED BY <1>1, <1>4, <1>12 DEF Inv

LEMMA WatchKeeps == ASSUME Inv, Watch PROVE Inv'
<1>1. /\ DiskTypes /\ NoticeTypes /\ IndexTypes /\ ReportTypes
      /\ ChannelTypes /\ BusTypes /\ UiTypes /\ HistoryTypes
  BY TypeParts DEF Inv
<1>2. /\ notices # <<>> /\ notices' = Tail(notices) /\ report = Nothing
      /\ UNCHANGED <<disk, changes, indexVars, channel, busVars, phase, ui, doubtful, renamed>>
  BY DEF Watch
<1> DEFINE n == Head(notices)
<1>3. /\ n \in Note /\ notices' \in Seq(Note)
      /\ ToSet(notices) = {n} \cup ToSet(notices')
  BY <1>1, <1>2, TailElems DEF NoticeTypes
<1>4. report' = IF n.kind = "Remove"
                  THEN [kind |-> "FileDeleted", path |-> n.path, sent |-> FALSE]
                ELSE IF disk[n.path] = Gone THEN Nothing
                ELSE [kind |-> "FileModified", path |-> n.path,
                      tag |-> disk[n.path], sent |-> FALSE]
  BY DEF Watch
<1> HIDE DEF n
<1>5. n.path \in Files /\ n.kind \in {"Modify", "Remove"} /\ n = Notice(n.kind, n.path)
  BY <1>3 DEF Note, Notice
<1>6. report' = Nothing \/ report' \in Busy
  BY <1>1, <1>4, <1>5 DEF DiskTypes, Busy
<1>7. Types'
  <2>1. NoticeTypes' /\ ReportTypes'
    BY <1>3, <1>6 DEF NoticeTypes, ReportTypes
  <2>2. DiskTypes' /\ IndexTypes' /\ ChannelTypes' /\ UiTypes' /\ HistoryTypes' /\ BusTypes'
    BY <1>1, <1>2, BusKept DEF DiskTypes, IndexTypes, ChannelTypes, UiTypes, HistoryTypes, indexVars
  <2> QED BY <2>1, <2>2, TypeParts, PTL
<1>8. Stages'
  BY <1>2 DEF Inv, Stages, indexVars
<1>9. ASSUME NEW f \in Files, Coming(f) PROVE Coming(f)'
  <2>1. report.kind = "nothing"
    BY <1>2 DEF Nothing
  <2>2. \A k : Notice(k, f) = n => k = n.kind /\ f = n.path
    BY DEF Notice
  <2>3. CASE disk[f] = Gone
    <3>1. Notice("Remove", f) \in ToSet(notices') \/ Notice("Remove", f) = n
          \/ \E r \in ToSet(channel) : r.kind = "FileDeleted" /\ r.path = f
      BY <1>3, <1>9, <2>1, <2>3 DEF Coming, ComingIn
    <3>2. Notice("Remove", f) = n =>
            report'.kind = "FileDeleted" /\ report'.path = f /\ ~report'.sent
      BY <1>4, <2>2
    <3> QED BY <1>2, <2>3, <3>1, <3>2 DEF Coming, ComingIn
  <2>4. CASE disk[f] # Gone
    <3>1. Notice("Modify", f) = n =>
            /\ report'.kind = "FileModified" /\ report'.path = f
            /\ ~report'.sent /\ report'.tag = disk[f]
      BY <1>4, <2>2, <2>4
    <3> QED BY <1>2, <1>3, <1>9, <2>1, <2>4, <3>1 DEF Coming, ComingIn, indexVars
  <2> QED BY <2>3, <2>4
<1>10. InTransit'
  BY <1>2, <1>9, InTransitKept DEF Inv
<1>11. ListInTransit'
  <2>1. RebuildComing => RebuildComing'
    <3>1. Tells(n) => report' # Nothing /\ ~report'.sent
      BY <1>4, <1>5 DEF Tells, Nothing
    <3>2. \A m : Tells(m) => Tells(m)'
      BY <1>2 DEF Tells
    <3> QED BY <1>2, <1>3, <3>1, <3>2 DEF RebuildComing
  <2> QED BY <1>2, <2>1 DEF Inv, ListInTransit, ParsedFirst, indexVars
<1> QED BY <1>7, <1>8, <1>10, <1>11 DEF Inv

LEMMA WatchSendKeeps == ASSUME Inv, WatchSend PROVE Inv'
<1>1. /\ DiskTypes /\ NoticeTypes /\ IndexTypes /\ ReportTypes
      /\ ChannelTypes /\ BusTypes /\ UiTypes /\ HistoryTypes
  BY TypeParts DEF Inv
<1> DEFINE e == IF report.kind = "FileDeleted"
                  THEN [kind |-> "FileDeleted", path |-> report.path]
                  ELSE [kind |-> "FileModified", path |-> report.path, tag |-> report.tag]
<1>2. /\ report \in Busy /\ ~report.sent /\ report' = [report EXCEPT !.sent = TRUE]
      /\ channel' = Append(channel, e)
      /\ UNCHANGED <<diskVars, indexVars, busVars, phase, ui, doubtful, renamed>>
  BY <1>1 DEF WatchSend, ReportTypes
<1>3. /\ e \in Report /\ e.kind = report.kind /\ e.path = report.path
      /\ report.kind \in {"FileDeleted", "FileModified"}
      /\ report.kind = "FileModified" => e.tag = report.tag
  BY <1>2 DEF Busy, Report
<1> HIDE DEF e
<1>4. channel' \in Seq(Report) /\ ToSet(channel') = ToSet(channel) \cup {e}
  BY <1>1, <1>2, <1>3, AppendElems DEF ChannelTypes
<1>5. Types'
  <2>1. ChannelTypes' /\ ReportTypes'
    BY <1>2, <1>4 DEF ChannelTypes, ReportTypes, Busy
  <2>2. DiskTypes' /\ IndexTypes' /\ NoticeTypes' /\ UiTypes' /\ HistoryTypes' /\ BusTypes'
    BY <1>1, <1>2, BusKept DEF DiskTypes, IndexTypes, NoticeTypes, UiTypes, HistoryTypes,
                               indexVars, diskVars
  <2> QED BY <2>1, <2>2, TypeParts, PTL
<1>6. Stages'
  BY <1>2, <1>3, <1>4 DEF Inv, Stages, indexVars
<1>7. ASSUME NEW f \in Files, Coming(f) PROVE Coming(f)'
  <2>1. CASE disk[f] = Gone
    BY <1>2, <1>3, <1>4, <1>7, <2>1 DEF Coming, ComingIn, diskVars
  <2>2. CASE disk[f] # Gone
    BY <1>2, <1>3, <1>4, <1>7, <2>2 DEF Coming, ComingIn, diskVars, indexVars
  <2> QED BY <2>1, <2>2
<1>8. InTransit'
  BY <1>2, <1>7, InTransitKept DEF Inv, diskVars
<1>9. ListInTransit'
  <2>1. RebuildComing'
    BY <1>3, <1>4 DEF RebuildComing
  <2>2. ParsedFirst => ParsedFirst'
    BY <1>1, <1>2, <1>3, ParsedFirstAppend
  <2> QED BY <1>2, <2>1, <2>2 DEF Inv, ListInTransit, indexVars
<1> QED BY <1>5, <1>6, <1>8, <1>9 DEF Inv

LEMMA WatchPublishKeeps == ASSUME Inv, WatchPublish PROVE Inv'
<1>1. /\ DiskTypes /\ NoticeTypes /\ IndexTypes /\ ReportTypes
      /\ ChannelTypes /\ BusTypes /\ UiTypes /\ HistoryTypes
  BY TypeParts DEF Inv
<1>2. /\ report \in Busy /\ report.sent /\ report' = Nothing
      /\ UNCHANGED <<diskVars, indexVars, channel, phase, ui, doubtful, renamed>>
  BY <1>1 DEF WatchPublish, ReportTypes
<1>3. {report.path} \in SUBSET Files
  BY <1>2 DEF Busy
<1>4. \E k \in {"Removed", "Updated"} : PublishOne(Event(k, {report.path}))
  BY DEF WatchPublish
<1>5. BusTypes'
  BY <1>1, <1>3, <1>4, EventTypes, PublishTypes
<1>6. Types'
  <2>1. /\ DiskTypes' /\ IndexTypes' /\ NoticeTypes' /\ UiTypes' /\ HistoryTypes'
        /\ ChannelTypes' /\ ReportTypes'
    BY <1>1, <1>2 DEF DiskTypes, IndexTypes, NoticeTypes, UiTypes, HistoryTypes, ChannelTypes,
                      ReportTypes, indexVars, diskVars
  <2> QED BY <1>5, <2>1, TypeParts, PTL
<1>7. Stages'
  BY <1>2 DEF Inv, Stages, indexVars
<1>8. ASSUME NEW f \in Files, Coming(f) PROVE Coming(f)'
  BY <1>2, <1>8 DEF Coming, ComingIn, diskVars, indexVars
<1>9. InTransit'
  BY <1>2, <1>8, InTransitKept DEF Inv, diskVars
<1>10. ListInTransit'
  <2>1. RebuildComing => RebuildComing'
    BY <1>2 DEF RebuildComing, Tells, diskVars
  <2> QED BY <1>2, <2>1 DEF Inv, ListInTransit, ParsedFirst, indexVars
<1> QED BY <1>6, <1>7, <1>9, <1>10 DEF Inv

-----------------------------------------------------------------------------
(* The frame. *)

\* What Believe does for the file f that a report is about: f agrees with the
\* disk, is in doubt, or what is true of it is still to come.
LEMMA BelieveKeeps ==
    ASSUME Types, InTransit, NEW f \in Files, NEW t, NEW ch \in Seq(Report),
           Believe(f, t, ch), channel' = ch,
           UNCHANGED <<disk, notices, report, indexVars>>,
           t = disk[f] => Agrees(ui, f)',
           \A g \in Files \ {f} : /\ g \in ui'.tree <=> g \in ui.tree
                                  /\ ui'.tags[g] = ui.tags[g]
                                  /\ Coming(g) => Coming(g)'
    PROVE  InTransit' /\ HistoryTypes'
<1>1. HistoryTypes
  BY TypeParts
<1>2. HistoryTypes'
  BY <1>1 DEF HistoryTypes, Believe
<1>3. RepairComing(f, ch) => Coming(f)'
  <2>1. RepairComing(f, ch) <=> ComingIn(f, ToSet(ch))
    BY RepairIsComing
  <2>2. ComingIn(f, ToSet(ch)) => Coming(f)'
    BY DEF Coming, ComingIn, indexVars
  <2> QED BY <2>1, <2>2
<1>4. ASSUME NEW g \in Files \ (doubtful' \cup renamed'), ~Coming(g)'
      PROVE  Agrees(ui, g)'
  <2>1. CASE g = f
    <3>1. t = disk[f]
      BY <1>3, <1>4, <2>1 DEF Believe
    <3> QED BY <2>1, <3>1
  <2>2. CASE g # f
    <3>1. g \in Files \ (doubtful \cup renamed) /\ ~Coming(g)
      BY <1>4, <2>2 DEF Believe
    <3>2. Agrees(ui, g)
      BY <3>1 DEF InTransit
    <3> QED BY <2>2, <3>2 DEF Agrees
  <2> QED BY <2>1, <2>2
<1> QED BY <1>2, <1>4 DEF InTransit

\* What a report on the channel that is handled does not disturb.
LEMMA Handled ==
    ASSUME Inv, DrainChannel
    PROVE  /\ channel # <<>> /\ Head(channel) \in Report
           /\ channel' \in Seq(Report) /\ channel' = Tail(channel)
           /\ ToSet(channel) = {Head(channel)} \cup ToSet(channel')
           /\ ParsedFirst => ParsedFirst'
           /\ ParsedFirst /\ Head(channel).kind = "FileParsed" => RebuildComing'
           /\ Head(channel).kind # "Finished" =>
                /\ Head(channel).path \in Files
                /\ \A g \in Files \ {Head(channel).path} : Coming(g) => Coming(g)'
           /\ Head(channel).kind = "Finished" => \A g \in Files : Coming(g) => Coming(g)'
           /\ UNCHANGED <<diskVars, indexVars, report, busVars, phase>>
<1> DEFINE e == Head(channel)
<1>1. /\ channel # <<>> /\ channel' = Tail(channel)
      /\ UNCHANGED <<diskVars, indexVars, report, busVars, phase>>
  BY DEF DrainChannel
<1>2. channel \in Seq(Report)
  BY TypeParts DEF Inv, ChannelTypes
<1>3. /\ e \in Report /\ channel' \in Seq(Report)
      /\ ToSet(channel) = {e} \cup ToSet(channel')
      /\ \A i \in DOMAIN channel' : i + 1 \in DOMAIN channel /\ channel'[i] = channel[i + 1]
      /\ \A i \in DOMAIN channel :
           i = 1 \/ (i - 1 \in DOMAIN channel' /\ channel'[i - 1] = channel[i])
  BY <1>1, <1>2, TailElems
<1>4. /\ DOMAIN channel' = 1..Len(channel') /\ Len(channel') \in Nat
      /\ DOMAIN channel = 1..Len(channel) /\ Len(channel) \in Nat /\ 1 \in DOMAIN channel
      /\ e = channel[1]
  <2>1. Len(channel) # 0
    BY <1>1, <1>2, EmptySeq
  <2> QED BY <1>1, <1>2, <1>3, <2>1, LenProperties, HeadTailProperties
<1> HIDE DEF e
<1>5. ASSUME ParsedFirst PROVE ParsedFirst'
  <2> SUFFICES ASSUME NEW i \in DOMAIN channel', channel'[i].kind = "FileParsed"
               PROVE  \E j \in DOMAIN channel' : i < j /\ channel'[j].kind = "Finished"
    BY DEF ParsedFirst
  <2>1. PICK j \in DOMAIN channel : i + 1 < j /\ channel[j].kind = "Finished"
    BY <1>3, <1>5 DEF ParsedFirst
  <2>2. j - 1 \in DOMAIN channel' /\ channel'[j - 1] = channel[j] /\ i < j - 1
    BY <1>3, <1>4, <2>1
  <2> QED BY <2>1, <2>2
<1>6. ASSUME ParsedFirst, e.kind = "FileParsed" PROVE RebuildComing'
  <2>1. PICK j \in DOMAIN channel : 1 < j /\ channel[j].kind = "Finished"
    BY <1>4, <1>6 DEF ParsedFirst
  <2>2. j - 1 \in DOMAIN channel' /\ channel'[j - 1] = channel[j]
    BY <1>3, <1>4, <2>1
  <2>3. channel[j] \in ToSet(channel')
    BY <2>2 DEF ToSet
  <2> QED BY <2>1, <2>3 DEF RebuildComing
<1>7. ASSUME NEW g \in Files, e.kind = "Finished" \/ e.path # g, Coming(g) PROVE Coming(g)'
  <2>1. CASE disk[g] = Gone
    BY <1>1, <1>3, <1>7, <2>1 DEF Coming, ComingIn, diskVars
  <2>2. CASE disk[g] # Gone
    BY <1>1, <1>3, <1>7, <2>2 DEF Coming, ComingIn, diskVars, indexVars
  <2> QED BY <2>1, <2>2
<1>8. e.kind # "Finished" => e.path \in Files
  BY <1>3 DEF Report
<1>9. e.kind # "Finished" => \A g \in Files \ {e.path} : Coming(g) => Coming(g)'
  BY <1>7
<1>10. e.kind = "Finished" => \A g \in Files : Coming(g) => Coming(g)'
  BY <1>7
<1> QED BY <1>1, <1>3, <1>5, <1>6, <1>8, <1>9, <1>10 DEF e

\* What is left of a step that handles a report.
LEMMA HandledKeeps ==
    ASSUME Inv, DrainChannel, InTransit', HistoryTypes', ui' \in UiState,
           ui'.finished => ui.finished \/ Head(channel).kind = "Finished",
           Head(channel).kind = "FileParsed" \/ ui'.list = ListOf(ui'.tags)
    PROVE  Inv'
<1>1. /\ DiskTypes /\ NoticeTypes /\ IndexTypes /\ ReportTypes /\ BusTypes /\ UiTypes
  BY TypeParts DEF Inv
<1>2. /\ channel' \in Seq(Report) /\ ToSet(channel) = {Head(channel)} \cup ToSet(channel')
      /\ ParsedFirst => ParsedFirst'
      /\ ParsedFirst /\ Head(channel).kind = "FileParsed" => RebuildComing'
      /\ UNCHANGED <<diskVars, indexVars, report, busVars, phase>>
  BY Handled
<1>3. Types'
  <2>1. /\ DiskTypes' /\ NoticeTypes' /\ IndexTypes' /\ ReportTypes' /\ ChannelTypes' /\ UiTypes'
    BY <1>1, <1>2 DEF DiskTypes, NoticeTypes, IndexTypes, ReportTypes, ChannelTypes, UiTypes,
                      diskVars, indexVars
  <2>2. BusTypes'
    BY <1>1, <1>2, BusKept
  <2> QED BY <2>1, <2>2, TypeParts, PTL
<1>4. Stages'
  BY <1>2 DEF Inv, Stages, indexVars
<1>5. ListInTransit'
  BY <1>2 DEF Inv, ListInTransit, indexVars
<1> QED BY <1>3, <1>4, <1>5 DEF Inv

LEMMA DrainChannelKeeps == ASSUME Inv, DrainChannel PROVE Inv'
<1>0. PICK e : e = Head(channel)
  OBVIOUS
<1>1. /\ channel # <<>> /\ e \in Report /\ channel' \in Seq(Report) /\ channel' = Tail(channel)
      /\ e.kind # "Finished" => /\ e.path \in Files
                                /\ \A g \in Files \ {e.path} : Coming(g) => Coming(g)'
      /\ e.kind = "Finished" => \A g \in Files : Coming(g) => Coming(g)'
      /\ UNCHANGED <<disk, notices, report, indexVars>>
  <2>1. UNCHANGED diskVars => UNCHANGED <<disk, notices>>
    BY DEF diskVars
  <2> QED BY <1>0, <2>1, Handled
<1>2. ui \in UiState /\ disk \in [Files -> Tags \cup {Gone}] /\ HistoryTypes
      /\ Types /\ InTransit
  BY TypeParts DEF Inv, UiTypes, DiskTypes
<1>3. \/ /\ e.kind = "FileParsed"
         /\ ui' = FileParsed(ui, e.path, e.tag)
         /\ Believe(e.path, e.tag, channel')
      \/ /\ e.kind = "FileModified"
         /\ ui' = FileModified(ui, e.path, e.tag)
         /\ Believe(e.path, e.tag, channel')
      \/ /\ e.kind = "FileDeleted"
         /\ ui' = FileDeleted(ui, e.path)
         /\ Believe(e.path, Gone, channel')
      \/ /\ e.kind = "Finished"
         /\ ui' = [Rebuild(ui) EXCEPT !.finished = TRUE]
         /\ UNCHANGED <<doubtful, renamed>>
  BY <1>0, <1>1 DEF DrainChannel
<1>4. ASSUME NEW t \in Tags \cup {NoTag}, NEW f \in Files, ui' \in UiState,
             ui'.tree = ui.tree \cup {f}, ui'.tags = [ui.tags EXCEPT ![f] = t],
             Believe(f, t, channel'), \A g \in Files \ {f} : Coming(g) => Coming(g)'
      PROVE  InTransit' /\ HistoryTypes'
  <2>1. t = disk[f] => Agrees(ui, f)'
    <3>1. ui'.tags[f] = t /\ f \in ui'.tree /\ t # Gone
      BY <1>2, <1>4, WorkspaceAssumption DEF UiState, Gone, NoTag
    <3> QED BY <1>1, <3>1 DEF Agrees
  <2>2. \A g \in Files \ {f} : /\ g \in ui'.tree <=> g \in ui.tree
                               /\ ui'.tags[g] = ui.tags[g]
    BY <1>2, <1>4 DEF UiState
  <2> QED BY <1>1, <1>2, <1>4, <2>1, <2>2, BelieveKeeps
<1>5. CASE e.kind = "FileParsed"
  <2>0. PICK f : f = e.path
    OBVIOUS
  <2>1. e.tag \in Tags \cup {NoTag} /\ f \in Files
    BY <1>1, <2>0, <1>5 DEF Report
  <2>2. /\ ui' \in UiState /\ ui'.tree = ui.tree \cup {f} /\ ui'.finished = ui.finished
        /\ ui'.tags = [ui.tags EXCEPT ![f] = e.tag] /\ Believe(f, e.tag, channel')
    BY <1>2, <1>3, <1>5, <2>0, <2>1, Parsing
  <2>3. InTransit' /\ HistoryTypes'
    BY <1>1, <1>4, <1>5, <2>0, <2>1, <2>2
  <2> QED BY <1>5, <2>2, <2>3, <1>0, HandledKeeps
<1>6. CASE e.kind = "FileModified"
  <2>0. PICK f : f = e.path
    OBVIOUS
  <2>1. e.tag \in Tags \cup {NoTag} /\ f \in Files
    BY <1>1, <2>0, <1>6 DEF Report
  <2>2. /\ ui' \in UiState /\ ui'.tree = ui.tree \cup {f} /\ ui'.finished = ui.finished
        /\ ui'.tags = [ui.tags EXCEPT ![f] = e.tag] /\ Believe(f, e.tag, channel')
        /\ ui'.list = ListOf(ui'.tags)
    BY <1>2, <1>3, <1>6, <2>0, <2>1, Modifying
  <2>3. InTransit' /\ HistoryTypes'
    BY <1>1, <1>4, <1>6, <2>0, <2>1, <2>2
  <2> QED BY <1>6, <2>2, <2>3, <1>0, HandledKeeps
<1>7. CASE e.kind = "FileDeleted"
  <2>0. PICK f : f = e.path
    OBVIOUS
  <2>1. f \in Files
    BY <1>1, <1>7, <2>0
  <2>2. /\ ui' \in UiState /\ ui'.tree = ui.tree \ {f} /\ ui'.finished = ui.finished
        /\ ui'.tags = [ui.tags EXCEPT ![f] = Unknown] /\ Believe(f, Gone, channel')
        /\ ui'.list = ListOf(ui'.tags)
    <3>1. ui' = FileDeleted(ui, f) /\ Believe(f, Gone, channel')
      BY <1>3, <1>7, <2>0
    <3>2. ui \in UiState
      BY <1>2
    <3> QED BY <2>1, <3>1, <3>2, Deleting
  <2>3. Gone = disk[f] => Agrees(ui, f)'
    <3>1. ui'.tags[f] = Unknown /\ f \notin ui'.tree
      BY <1>2, <2>1, <2>2 DEF UiState
    <3> QED BY <1>1, <3>1 DEF Agrees
  <2>4. \A g \in Files \ {f} : /\ g \in ui'.tree <=> g \in ui.tree
                               /\ ui'.tags[g] = ui.tags[g]
    BY <1>2, <2>1, <2>2 DEF UiState
  <2>5. \A g \in Files \ {f} : Coming(g) => Coming(g)'
    BY <1>1, <1>7, <2>0
  <2>6. InTransit' /\ HistoryTypes'
    BY <1>1, <1>2, <2>1, <2>2, <2>3, <2>4, <2>5, BelieveKeeps
  <2> QED BY <1>7, <2>2, <2>6, <1>0, HandledKeeps
<1>8. CASE e.kind = "Finished"
  <2>1. /\ ui' \in UiState /\ ui'.tree = ui.tree /\ ui'.tags = ui.tags
        /\ ui'.list = ListOf(ui'.tags) /\ UNCHANGED <<doubtful, renamed>>
    BY <1>2, <1>3, <1>8, Finishing
  <2>2. HistoryTypes'
    BY <1>2, <2>1 DEF HistoryTypes
  <2>3. InTransit'
    <3> SUFFICES ASSUME NEW g \in Files \ (doubtful' \cup renamed'), ~Coming(g)'
                 PROVE  Agrees(ui, g)'
      BY DEF InTransit
    <3>1. Agrees(ui, g)
      BY <1>1, <1>2, <1>8, <2>1 DEF InTransit
    <3> QED BY <1>1, <2>1, <3>1 DEF Agrees
  <2> QED BY <1>8, <2>1, <2>2, <2>3, <1>0, HandledKeeps
<1> QED BY <1>3, <1>5, <1>6, <1>7, <1>8

\* The steps of a frame that only go on to its next part.
LEMMA PhaseKeeps ==
    ASSUME Inv, ChannelDrained \/ EventsDrained \/ EffectsDrained PROVE Inv'
<1>1. /\ DiskTypes /\ NoticeTypes /\ IndexTypes /\ ReportTypes
      /\ ChannelTypes /\ BusTypes /\ UiTypes /\ HistoryTypes
  BY TypeParts DEF Inv
<1>2. /\ UNCHANGED <<diskVars, indexVars, report, channel, ui, doubtful, renamed, fileBus>>
      /\ lagged' \in BOOLEAN /\ phase' \in Phases
  BY <1>1 DEF ChannelDrained, EventsDrained, EffectsDrained, busVars, BusTypes, Phases
<1>3. Types'
  <2>1. /\ DiskTypes' /\ NoticeTypes' /\ IndexTypes' /\ ReportTypes' /\ ChannelTypes'
        /\ UiTypes' /\ HistoryTypes' /\ BusTypes'
    BY <1>1, <1>2 DEF DiskTypes, NoticeTypes, IndexTypes, ReportTypes, ChannelTypes, UiTypes,
                      HistoryTypes, BusTypes, diskVars, indexVars
  <2> QED BY <2>1, TypeParts, PTL
<1>4. UNCHANGED <<disk, notices>>
  BY <1>2 DEF diskVars
<1>5. Stages'
  BY <1>2 DEF Inv, Stages, indexVars
<1>6. InTransit'
  <2>1. \A f \in Files : Coming(f) => Coming(f)'
    BY <1>2, <1>4 DEF Coming, ComingIn, indexVars
  <2> QED BY <1>2, <1>4, <2>1, InTransitKept DEF Inv
<1>7. ListInTransit'
  <2>1. RebuildComing => RebuildComing'
    BY <1>2, <1>4 DEF RebuildComing, Tells
  <2> QED BY <1>2, <2>1 DEF Inv, ListInTransit, ParsedFirst, indexVars
<1> QED BY <1>3, <1>5, <1>6, <1>7 DEF Inv

LEMMA DrainEventsKeeps == ASSUME Inv, DrainEvents PROVE Inv'
<1>1. /\ DiskTypes /\ NoticeTypes /\ IndexTypes /\ ReportTypes
      /\ ChannelTypes /\ BusTypes /\ UiTypes /\ HistoryTypes
  BY TypeParts DEF Inv
<1>2. PICK e : e = Head(fileBus)
  OBVIOUS
<1>3. /\ fileBus # <<>> /\ fileBus' = Tail(fileBus)
      /\ \/ /\ e.kind = "Discovered"
            /\ ui' = [ui EXCEPT !.tree = @ \cup e.paths]
            /\ doubtful' = doubtful \cup
                 {f \in e.paths : disk[f] = Gone /\ ~RepairComing(f, channel)}
            /\ UNCHANGED renamed
         \/ \E f \in e.paths :
              /\ ui' = Rebuild(RemoveFile(ui, f))
              /\ Believe(f, Gone, channel)
         \/ UNCHANGED <<ui, doubtful, renamed>>
      /\ UNCHANGED <<diskVars, indexVars, report, channel, lagged, phase>>
  BY <1>2 DEF DrainEvents
<1>4. /\ e \in BusEvent /\ fileBus' \in Seq(BusEvent) /\ Len(fileBus') <= BusCapacity
  <2>1. /\ Head(fileBus) \in BusEvent /\ Tail(fileBus) \in Seq(BusEvent)
        /\ Len(Tail(fileBus)) = Len(fileBus) - 1
    BY <1>1, <1>3, HeadTailProperties DEF BusTypes
  <2>2. Len(fileBus) <= BusCapacity /\ Len(fileBus) \in Nat /\ BusCapacity \in Nat
    BY <1>1, LenProperties, WorkspaceAssumption DEF BusTypes
  <2>3. fileBus' \in Seq(BusEvent) /\ Len(fileBus') = Len(fileBus) - 1
    BY <1>3, <2>1
  <2>4. Len(fileBus') <= BusCapacity
    BY <2>2, <2>3
  <2> QED BY <1>2, <2>1, <2>3, <2>4
<1>5. e.paths \subseteq Files /\ UNCHANGED <<disk, notices, report, indexVars, channel>>
  BY <1>3, <1>4 DEF BusEvent, diskVars
<1>6. \A f \in Files : Coming(f) => Coming(f)'
  BY <1>5 DEF Coming, ComingIn, indexVars
<1>7. InTransit' /\ HistoryTypes' /\ ui' \in UiState /\ ui'.finished = ui.finished
      /\ \/ ui'.list = ListOf(ui'.tags)
         \/ /\ ui.list = ui'.list /\ ui.tags = ui'.tags
            /\ doubtful \subseteq doubtful' /\ renamed \subseteq renamed'
  <2>1. ui \in UiState /\ Types /\ InTransit
    BY <1>1 DEF UiTypes, Inv
  <2>2. CASE /\ ui' = [ui EXCEPT !.tree = @ \cup e.paths]
             /\ doubtful' = doubtful \cup
                  {f \in e.paths : disk[f] = Gone /\ ~RepairComing(f, channel)}
             /\ UNCHANGED renamed
    <3>1. /\ ui' \in UiState /\ ui'.finished = ui.finished /\ ui'.tree = ui.tree \cup e.paths
          /\ ui'.tags = ui.tags /\ ui'.list = ui.list
      BY <1>5, <2>1, <2>2 DEF UiState
    <3>2. HistoryTypes'
      BY <1>1, <1>5, <2>2 DEF HistoryTypes
    <3>3. ASSUME NEW f \in Files \ (doubtful' \cup renamed'), ~Coming(f)'
          PROVE  Agrees(ui, f)'
      <4>1. f \in Files \ (doubtful \cup renamed) /\ ~Coming(f)
        BY <1>6, <2>2, <3>3
      <4>2. Agrees(ui, f)
        BY <2>1, <4>1 DEF InTransit
      <4>3. RepairComing(f, channel) <=> Coming(f)
        BY <1>1, <2>1, RepairIsComing DEF Coming, ChannelTypes
      <4>4. disk[f] = Gone => f \notin e.paths
        BY <2>2, <3>3, <4>1, <4>3
      <4> QED BY <1>5, <3>1, <4>2, <4>4 DEF Agrees
    <3>4. doubtful \subseteq doubtful' /\ renamed \subseteq renamed'
      BY <2>2
    <3>5. InTransit'
      BY <3>3 DEF InTransit
    <3> QED BY <3>1, <3>2, <3>4, <3>5
  <2>3. ASSUME NEW f \in e.paths, ui' = Rebuild(RemoveFile(ui, f)), Believe(f, Gone, channel)
        PROVE  InTransit' /\ HistoryTypes' /\ ui' \in UiState /\ ui'.finished = ui.finished
               /\ ui'.list = ListOf(ui'.tags)
    <3>1. f \in Files /\ ui' = FileDeleted(ui, f)
      BY <1>5, <2>3 DEF FileDeleted
    <3>2. /\ ui' \in UiState /\ ui'.tree = ui.tree \ {f} /\ ui'.finished = ui.finished
          /\ ui'.tags = [ui.tags EXCEPT ![f] = Unknown] /\ ui'.list = ListOf(ui'.tags)
      BY <2>1, <3>1, Deleting
    <3>3. Gone = disk[f] => Agrees(ui, f)'
      <4>1. ui'.tags[f] = Unknown /\ f \notin ui'.tree
        BY <2>1, <3>1, <3>2 DEF UiState
      <4> QED BY <1>5, <4>1 DEF Agrees
    <3>4. \A g \in Files \ {f} : /\ g \in ui'.tree <=> g \in ui.tree
                                 /\ ui'.tags[g] = ui.tags[g]
                                 /\ Coming(g) => Coming(g)'
      BY <1>6, <2>1, <3>1, <3>2 DEF UiState
    <3>5. channel \in Seq(Report) /\ channel' = channel
      BY <1>1, <1>5 DEF ChannelTypes
    <3>6. InTransit' /\ HistoryTypes'
      BY <1>5, <2>1, <2>3, <3>1, <3>3, <3>4, <3>5, BelieveKeeps
    <3> QED BY <3>2, <3>6
  <2>4. CASE UNCHANGED <<ui, doubtful, renamed>>
    <3>1. InTransit'
      BY <1>5, <1>6, <2>1, <2>4, InTransitKept
    <3> QED BY <1>1, <2>1, <2>4, <3>1 DEF HistoryTypes
  <2> QED BY <1>3, <2>2, <2>3, <2>4
<1>8. Types'
  <2>1. /\ DiskTypes' /\ NoticeTypes' /\ IndexTypes' /\ ReportTypes' /\ ChannelTypes'
        /\ BusTypes' /\ UiTypes'
    BY <1>1, <1>3, <1>4, <1>5, <1>7 DEF DiskTypes, NoticeTypes, IndexTypes, ReportTypes,
       ChannelTypes, BusTypes, UiTypes, diskVars, indexVars
  <2> QED BY <1>7, <2>1, TypeParts, PTL
<1>9. Stages'
  BY <1>5, <1>7 DEF Inv, Stages, indexVars
<1>10. ListInTransit'
  <2>1. RebuildComing => RebuildComing'
    BY <1>5 DEF RebuildComing, Tells
  <2> QED BY <1>5, <1>7, <2>1 DEF Inv, ListInTransit, ParsedFirst, indexVars
<1> QED BY <1>7, <1>8, <1>9, <1>10 DEF Inv

-----------------------------------------------------------------------------
(* What happens to the files. *)

\* What a change of the files fs, to be reported by the notices ns, leaves alone,
\* and what those notices say.
Untouched(fs) == \A g \in Files \ fs : /\ disk'[g] = disk[g]
                                       /\ ui'.tags[g] = ui.tags[g]
                                       /\ g \in ui'.tree <=> g \in ui.tree
Told(fs, ns)  == Watched => \A g \in fs :
                   \/ Agrees(ui, g)' \/ g \in doubtful' \cup renamed'
                   \/ disk'[g] = Gone /\ Notice("Remove", g) \in ToSet(ns)
                   \/ disk'[g] # Gone /\ Notice("Modify", g) \in ToSet(ns)
Telling(ns)   == \/ \E n \in ToSet(ns) : n.kind = "Remove" \/ disk'[n.path] # Gone
                 \/ Watched => doubtful' \cup renamed' # {}

\* The files fs change, and the operating system is to report ns of them: once
\* the watcher runs, it will report what is true of each, and before it runs
\* they are in doubt.
LEMMA ChangeKeeps ==
    ASSUME Inv, NEW fs \in SUBSET Files, NEW ns \in Seq(Note), Notify(ns),
           disk' \in [Files -> Tags \cup {Gone}], changes' \in Nat,
           ui' \in UiState, ui'.finished = ui.finished,
           phase' \in Phases, BusTypes',
           UNCHANGED <<indexVars, report, channel>>,
           doubtful \cup Unseen(fs) \subseteq doubtful', doubtful' \subseteq Files,
           renamed \subseteq renamed', renamed' \subseteq Files,
           Untouched(fs), Told(fs, ns), Telling(ns)
    PROVE  Inv'
<1>1. /\ DiskTypes /\ NoticeTypes /\ IndexTypes /\ ReportTypes
      /\ ChannelTypes /\ BusTypes /\ UiTypes /\ HistoryTypes
  BY TypeParts DEF Inv
<1>2. /\ notices' \in Seq(Note) /\ ToSet(notices) \subseteq ToSet(notices')
      /\ Watched => ToSet(ns) \subseteq ToSet(notices')
  <2>1. notices \o ns \in Seq(Note) /\ ToSet(notices \o ns) = ToSet(notices) \cup ToSet(ns)
    BY <1>1, ConcatElems DEF NoticeTypes
  <2>2. notices' = IF Watched THEN notices \o ns ELSE notices
    BY DEF Notify
  <2>3. CASE Watched
    <3>1. notices' = notices \o ns
      BY <2>2, <2>3
    <3> QED BY <2>1, <3>1
  <2>4. CASE ~Watched
    <3>1. notices' = notices
      BY <2>2, <2>4
    <3> QED BY <1>1, <2>4, <3>1 DEF NoticeTypes
  <2> QED BY <2>3, <2>4
<1>3. Types'
  <2>1. HistoryTypes'
    BY DEF HistoryTypes
  <2>2. /\ DiskTypes' /\ NoticeTypes' /\ IndexTypes' /\ ReportTypes' /\ ChannelTypes' /\ UiTypes'
    BY <1>1, <1>2 DEF DiskTypes, NoticeTypes, IndexTypes, ReportTypes, ChannelTypes, UiTypes,
                      indexVars
  <2> QED BY <2>1, <2>2, TypeParts, PTL
<1>4. Stages'
  BY DEF Inv, Stages, indexVars
<1>5. InTransit'
  <2> SUFFICES ASSUME NEW g \in Files \ (doubtful' \cup renamed'), ~Coming(g)'
               PROVE  Agrees(ui, g)'
    BY DEF InTransit
  <2>1. CASE g \in fs
    <3>1. Watched
      BY <2>1 DEF Unseen
    <3>2. disk'[g] = Gone => Notice("Remove", g) \notin ToSet(notices')
      BY DEF Coming, ComingIn
    <3>3. disk'[g] # Gone => Notice("Modify", g) \notin ToSet(notices')
      BY DEF Coming, ComingIn
    <3> QED BY <1>2, <2>1, <3>1, <3>2, <3>3 DEF Told
  <2>2. CASE g \notin fs
    <3>1. ~Coming(g)
      BY <1>2, <2>2, ComingKept DEF Untouched
    <3>2. Agrees(ui, g)
      BY <3>1 DEF Inv, InTransit
    <3> QED BY <2>2, <3>2, ShownKept DEF Untouched
  <2> QED BY <2>1, <2>2
<1>6. ListInTransit'
  <2> SUFFICES ASSUME stage' = "on"
               PROVE  (RebuildComing' \/ doubtful' \cup renamed' # {}) /\ ParsedFirst'
    BY DEF ListInTransit
  <2>1. stage = "on" /\ Watched
    BY DEF indexVars, Watched
  <2>2. ParsedFirst'
    BY <2>1 DEF Inv, ListInTransit, ParsedFirst
  <2>3. RebuildComing' \/ doubtful' \cup renamed' # {}
    BY <1>2, <2>1 DEF RebuildComing, Tells, Telling
  <2> QED BY <2>2, <2>3
<1> QED BY <1>3, <1>4, <1>5, <1>6 DEF Inv

\* The notices of one and of two files.
LEMMA OneNote ==
    ASSUME NEW n \in Note
    PROVE  <<n>> \in Seq(Note) /\ ToSet(<<n>>) = {n}
BY DEF ToSet

LEMMA TwoNotes ==
    ASSUME NEW m \in Note, NEW n \in Note
    PROVE  <<m, n>> \in Seq(Note) /\ ToSet(<<m, n>>) = {m, n}
BY DEF ToSet

LEMMA NoticeFields ==
    ASSUME NEW k \in {"Modify", "Remove"}, NEW f \in Files
    PROVE  Notice(k, f) \in Note /\ Notice(k, f).kind = k /\ Notice(k, f).path = f
BY DEF Notice, Note

LEMMA ChangeOutsideKeeps == ASSUME Inv, Change PROVE Inv'
<1>1. /\ DiskTypes /\ BusTypes /\ UiTypes /\ HistoryTypes
  BY TypeParts DEF Inv
<1>2. /\ UNCHANGED <<indexVars, report, channel, busVars, phase, ui>>
      /\ changes' \in Nat
  BY <1>1 DEF Change, DiskTypes
<1>3. /\ BusTypes' /\ ui' \in UiState /\ ui'.finished = ui.finished /\ changes' \in Nat
      /\ phase' \in Phases /\ renamed \subseteq Files
      /\ UNCHANGED <<ui, indexVars, report, channel>>
  BY <1>1, <1>2, BusKept DEF UiTypes, HistoryTypes
<1>4. ASSUME NEW f \in Files, WriteOutside(f) PROVE Inv'
  <2>1. PICK t \in Tags : disk' = [disk EXCEPT ![f] = t]
    BY <1>4 DEF WriteOutside
  <2>2. PICK n : n = Notice("Modify", f)
    OBVIOUS
  <2>3. n \in Note /\ n.kind = "Modify" /\ n.path = f
    BY <2>2, NoticeFields
  <2>4. <<n>> \in Seq(Note) /\ ToSet(<<n>>) = {n}
    BY <2>3, OneNote
  <2>5. t # Gone
    BY WorkspaceAssumption
  <2>6. /\ disk' \in [Files -> Tags \cup {Gone}] /\ disk'[f] # Gone
        /\ \A g \in Files \ {f} : disk'[g] = disk[g]
    BY <1>1, <2>1, <2>5 DEF DiskTypes
  <2>7. Notify(<<n>>) /\ doubtful' = doubtful \cup Unseen({f}) /\ renamed' = renamed
    BY <1>4, <2>2 DEF WriteOutside
  <2>8. PICK fs, ns : fs = {f} /\ ns = <<n>>
    OBVIOUS
  <2>9. /\ fs \in SUBSET Files /\ ns \in Seq(Note) /\ Notify(ns)
         /\ doubtful \cup Unseen(fs) \subseteq doubtful' /\ doubtful' \subseteq Files
    BY <1>1, <2>4, <2>7, <2>8 DEF HistoryTypes, Unseen
  <2>10. Untouched(fs)
    BY <1>3, <2>6, <2>8 DEF Untouched
  <2>11. Told(fs, ns)
    BY <2>2, <2>4, <2>6, <2>8 DEF Told
  <2>12. Telling(ns)
    BY <2>3, <2>4, <2>6, <2>8 DEF Telling
  <2> QED BY <1>3, <2>6, <2>7, <2>9, <2>10, <2>11, <2>12, ChangeKeeps
<1>5. ASSUME NEW f \in Files, DeleteOutside(f) PROVE Inv'
  <2>1. disk' = [disk EXCEPT ![f] = Gone]
    BY <1>5 DEF DeleteOutside
  <2>0. PICK k \in {"Remove", "Modify"} :
           /\ Notify(<<Notice(k, f)>>)
           /\ renamed' = IF Watched /\ k = "Modify" THEN renamed \cup {f} ELSE renamed
    BY <1>5 DEF DeleteOutside
  <2>2. PICK n : n = Notice(k, f)
    OBVIOUS
  <2>3. n \in Note /\ n.kind = k /\ n.path = f
    BY <2>2, NoticeFields
  <2>4. <<n>> \in Seq(Note) /\ ToSet(<<n>>) = {n}
    BY <2>3, OneNote
  <2>5. /\ disk' \in [Files -> Tags \cup {Gone}] /\ disk'[f] = Gone
        /\ \A g \in Files \ {f} : disk'[g] = disk[g]
    BY <1>1, <2>1 DEF DiskTypes
  <2>6. /\ Notify(<<n>>) /\ doubtful' = doubtful \cup Unseen({f})
        /\ renamed \subseteq renamed' /\ renamed' \subseteq Files
        /\ k = "Remove" \/ (Watched => f \in renamed')
    BY <1>3, <1>5, <2>0, <2>2 DEF DeleteOutside
  <2>7. PICK fs, ns : fs = {f} /\ ns = <<n>>
    OBVIOUS
  <2>8. /\ fs \in SUBSET Files /\ ns \in Seq(Note) /\ Notify(ns)
         /\ doubtful \cup Unseen(fs) \subseteq doubtful' /\ doubtful' \subseteq Files
    BY <1>1, <2>4, <2>6, <2>7 DEF HistoryTypes, Unseen
  <2>9. Untouched(fs)
    BY <1>3, <2>5, <2>7 DEF Untouched
  <2>10. Told(fs, ns)
    BY <2>2, <2>4, <2>5, <2>6, <2>7 DEF Told
  <2>11. Telling(ns)
    BY <2>3, <2>4, <2>6, <2>7 DEF Telling
  <2> QED BY <1>3, <2>5, <2>6, <2>8, <2>9, <2>10, <2>11, ChangeKeeps
<1>6. ASSUME NEW f \in Files, NEW g \in Files, RenameOutside(f, g) PROVE Inv'
  <2>1. disk' = [disk EXCEPT ![g] = disk[f], ![f] = Gone] /\ disk[f] # Gone /\ f # g
    BY <1>6 DEF RenameOutside
  <2>2. PICK m, n : m = Notice("Modify", f) /\ n = Notice("Modify", g)
    OBVIOUS
  <2>3. m \in Note /\ n \in Note /\ n.kind = "Modify" /\ n.path = g
    BY <2>2, NoticeFields
  <2>4. <<m, n>> \in Seq(Note) /\ ToSet(<<m, n>>) = {m, n}
    BY <2>3, TwoNotes
  <2>5. /\ disk' \in [Files -> Tags \cup {Gone}] /\ disk'[g] # Gone
        /\ \A h \in Files \ {f, g} : disk'[h] = disk[h]
    BY <1>1, <2>1 DEF DiskTypes
  <2>6. /\ Notify(<<m, n>>) /\ doubtful' = doubtful \cup Unseen({f, g})
        /\ renamed' = IF Watched THEN renamed \cup {f} ELSE renamed
    BY <1>6, <2>2 DEF RenameOutside
  <2>7. renamed \subseteq renamed' /\ renamed' \subseteq Files
    BY <1>3, <2>6
  <2>8. Watched => f \in renamed'
    BY <2>6
  <2>9. PICK fs, ns : fs = {f, g} /\ ns = <<m, n>>
    OBVIOUS
  <2>10. /\ fs \in SUBSET Files /\ ns \in Seq(Note) /\ Notify(ns)
         /\ doubtful \cup Unseen(fs) \subseteq doubtful' /\ doubtful' \subseteq Files
    BY <1>1, <2>4, <2>6, <2>9 DEF HistoryTypes, Unseen
  <2>11. Untouched(fs)
    BY <1>3, <2>5, <2>9 DEF Untouched
  <2>12. Told(fs, ns)
    <3>1. disk'[g] # Gone /\ Notice("Modify", g) \in ToSet(ns)
      BY <2>2, <2>4, <2>5, <2>9
    <3> QED BY <2>8, <2>9, <3>1 DEF Told
  <2>13. Telling(ns)
    BY <2>3, <2>4, <2>5, <2>9 DEF Telling
  <2> QED BY <1>3, <2>5, <2>7, <2>10, <2>11, <2>12, <2>13, ChangeKeeps
<1> QED BY <1>4, <1>5, <1>6 DEF Change

LEMMA CommandKeeps == ASSUME Inv, Command PROVE Inv'
<1>1. /\ DiskTypes /\ NoticeTypes /\ IndexTypes /\ ReportTypes
      /\ ChannelTypes /\ BusTypes /\ UiTypes /\ HistoryTypes
  BY TypeParts DEF Inv
<1>2. /\ UNCHANGED <<indexVars, report, channel, renamed>>
      /\ phase' \in Phases
      /\ renamed \subseteq renamed' /\ renamed' \subseteq Files
  BY <1>1 DEF Command, HistoryTypes, Phases
<1>3. ASSUME UNCHANGED <<diskVars, busVars, ui, doubtful>> PROVE Inv'
  <2>1. UNCHANGED <<disk, notices, changes>>
    BY <1>3 DEF diskVars
  <2>2. BusTypes'
    BY <1>1, <1>3, BusKept
  <2>3. Types'
    <3>1. /\ DiskTypes' /\ NoticeTypes' /\ IndexTypes' /\ ReportTypes' /\ ChannelTypes'
          /\ UiTypes' /\ HistoryTypes'
      BY <1>1, <1>2, <1>3, <2>1 DEF DiskTypes, NoticeTypes, IndexTypes, ReportTypes,
         ChannelTypes, UiTypes, HistoryTypes, indexVars
    <3> QED BY <2>2, <3>1, TypeParts, PTL
  <2>4. Stages'
    BY <1>2, <1>3 DEF Inv, Stages, indexVars
  <2>5. InTransit'
    <3>1. \A f \in Files : Coming(f) => Coming(f)'
      BY <1>2, <2>1 DEF Coming, ComingIn, indexVars
    <3> QED BY <1>2, <1>3, <2>1, <3>1, InTransitKept DEF Inv
  <2>6. ListInTransit'
    <3>1. RebuildComing => RebuildComing'
      BY <1>2, <2>1 DEF RebuildComing, Tells
    <3> QED BY <1>2, <1>3, <3>1 DEF Inv, ListInTransit, ParsedFirst, indexVars
  <2> QED BY <2>3, <2>4, <2>5, <2>6 DEF Inv
<1>4. ASSUME changes' = changes + 1 PROVE changes' \in Nat
  BY <1>1, <1>4 DEF DiskTypes
<1>5. ASSUME NEW f \in Files, Create(f), changes' \in Nat PROVE Inv'
  <2>1. PICK t \in Tags : disk' = [disk EXCEPT ![f] = t]
    BY <1>5 DEF Create
  <2>2. PICK n : n = Notice("Modify", f)
    OBVIOUS
  <2>3. n \in Note /\ n.kind = "Modify" /\ n.path = f
    BY <2>2, NoticeFields
  <2>4. <<n>> \in Seq(Note) /\ ToSet(<<n>>) = {n}
    BY <2>3, OneNote
  <2>5. t # Gone
    BY WorkspaceAssumption
  <2>6. /\ disk' \in [Files -> Tags \cup {Gone}] /\ disk'[f] # Gone
        /\ \A g \in Files \ {f} : disk'[g] = disk[g]
    BY <1>1, <2>1, <2>5 DEF DiskTypes
  <2>7. /\ Notify(<<n>>) /\ doubtful' = doubtful \cup Unseen({f}) /\ ui' = ui
        /\ PublishOne(Event("Discovered", {f}))
    BY <1>5, <2>2 DEF Create
  <2>8. BusTypes' /\ ui' \in UiState /\ ui'.finished = ui.finished
    <3>1. Event("Discovered", {f}) \in BusEvent
      BY EventTypes
    <3> QED BY <1>1, <2>7, <3>1, PublishTypes DEF UiTypes
  <2>9. PICK fs, ns : fs = {f} /\ ns = <<n>>
    OBVIOUS
  <2>10. /\ fs \in SUBSET Files /\ ns \in Seq(Note) /\ Notify(ns)
         /\ doubtful \cup Unseen(fs) \subseteq doubtful' /\ doubtful' \subseteq Files
    BY <1>1, <2>4, <2>7, <2>9 DEF HistoryTypes, Unseen
  <2>11. Untouched(fs)
    BY <2>6, <2>7, <2>9 DEF Untouched
  <2>12. Told(fs, ns)
    BY <2>2, <2>4, <2>6, <2>9 DEF Told
  <2>13. Telling(ns)
    BY <2>3, <2>4, <2>6, <2>9 DEF Telling
  <2> QED BY <1>2, <1>5, <2>6, <2>8, <2>10, <2>11, <2>12, <2>13, ChangeKeeps
<1>6. ASSUME NEW f \in Files, Delete(f), changes' \in Nat PROVE Inv'
  <2>1. disk' = [disk EXCEPT ![f] = Gone]
    BY <1>6 DEF Delete
  <2>0. PICK k \in {"Remove", "Modify"} :
           /\ Notify(<<Notice(k, f)>>)
           /\ doubtful' = doubtful \cup (IF k = "Modify" THEN {f} ELSE Unseen({f}))
    BY <1>6 DEF Delete
  <2>2. PICK n : n = Notice(k, f)
    OBVIOUS
  <2>3. n \in Note /\ n.kind = k /\ n.path = f
    BY <2>2, NoticeFields
  <2>4. <<n>> \in Seq(Note) /\ ToSet(<<n>>) = {n}
    BY <2>3, OneNote
  <2>5. /\ disk' \in [Files -> Tags \cup {Gone}] /\ disk'[f] = Gone
        /\ \A g \in Files \ {f} : disk'[g] = disk[g]
    BY <1>1, <2>1 DEF DiskTypes
  <2>6. /\ Notify(<<n>>) /\ ui' = ui /\ PublishOne(Event("Removed", {f}))
        /\ doubtful \cup Unseen({f}) \subseteq doubtful' /\ doubtful' \subseteq doubtful \cup {f}
        /\ k = "Remove" \/ f \in doubtful'
    BY <1>6, <2>0, <2>2 DEF Delete, Unseen
  <2>7. BusTypes' /\ ui' \in UiState /\ ui'.finished = ui.finished
    <3>1. Event("Removed", {f}) \in BusEvent
      BY EventTypes
    <3> QED BY <1>1, <2>6, <3>1, PublishTypes DEF UiTypes
  <2>8. PICK fs, ns : fs = {f} /\ ns = <<n>>
    OBVIOUS
  <2>9. /\ fs \in SUBSET Files /\ ns \in Seq(Note) /\ Notify(ns)
         /\ doubtful \cup Unseen(fs) \subseteq doubtful' /\ doubtful' \subseteq Files
    BY <1>1, <2>4, <2>6, <2>8 DEF HistoryTypes, Unseen
  <2>10. Untouched(fs)
    BY <2>5, <2>6, <2>8 DEF Untouched
  <2>11. Told(fs, ns)
    BY <2>2, <2>4, <2>5, <2>6, <2>8 DEF Told
  <2>12. Telling(ns)
    BY <2>3, <2>4, <2>6, <2>8 DEF Telling
  <2> QED BY <1>2, <1>6, <2>5, <2>7, <2>9, <2>10, <2>11, <2>12, ChangeKeeps
<1>7. ASSUME NEW f \in Files, NEW g \in Files, Rename(f, g), changes' \in Nat PROVE Inv'
  <2>1. /\ disk' = [disk EXCEPT ![g] = disk[f], ![f] = Gone] /\ f # g
        /\ disk[f] \in Tags /\ disk[f] # Gone
    BY <1>1, <1>7 DEF Rename, DiskTypes
  <2>2. PICK m, n : m = Notice("Modify", f) /\ n = Notice("Modify", g)
    OBVIOUS
  <2>3. m \in Note /\ n \in Note /\ n.kind = "Modify" /\ n.path = g
    BY <2>2, NoticeFields
  <2>4. <<m, n>> \in Seq(Note) /\ ToSet(<<m, n>>) = {m, n}
    BY <2>3, TwoNotes
  <2>5. /\ disk' \in [Files -> Tags \cup {Gone}] /\ disk'[g] = disk[f] /\ disk'[f] = Gone
        /\ \A h \in Files \ {f, g} : disk'[h] = disk[h]
    BY <1>1, <2>1 DEF DiskTypes
  <2>6. /\ Notify(<<m, n>>) /\ doubtful' = doubtful \cup Unseen({f, g})
        /\ ui' = AddTags(AddFile(RemoveFile(ui, f), g), g, disk[f])
    BY <1>7, <2>2 DEF Rename
  <2>7. /\ ui' \in UiState /\ ui'.finished = ui.finished
        /\ ui'.tree = (ui.tree \ {f}) \cup {g}
        /\ ui'.tags = [[ui.tags EXCEPT ![f] = Unknown] EXCEPT ![g] = disk[f]]
        /\ ui.tags \in [Files -> Tags \cup {Unknown, NoTag}]
    BY <1>1, <2>1, <2>6, Renaming DEF UiTypes, UiState
  <2>8. /\ ui'.tags[f] = Unknown /\ ui'.tags[g] = disk[f]
        /\ \A h \in Files \ {f, g} : /\ ui'.tags[h] = ui.tags[h]
                                     /\ h \in ui'.tree <=> h \in ui.tree
    BY <2>1, <2>7
  <2>9. Agrees(ui, f)' /\ Agrees(ui, g)'
    BY <2>1, <2>5, <2>7, <2>8 DEF Agrees
  <2>10. BusTypes'
    <3> DEFINE x == Event("Removed", {f})
               y == Event("Discovered", {g})
               once == Publish(fileBus, x)
    <3>1. x \in BusEvent /\ y \in BusEvent
      BY EventTypes
    <3>2. fileBus' = Publish(once, y) /\ lagged' = (lagged \/ Overflows(fileBus) \/ Overflows(once))
      BY <1>7 DEF Rename
    <3> HIDE DEF x, y
    <3>3. once \in Seq(BusEvent) /\ Len(once) <= BusCapacity
      BY <1>1, <3>1, RingTypes DEF BusTypes
    <3> HIDE DEF once
    <3>4. Publish(once, y) \in Seq(BusEvent) /\ Len(Publish(once, y)) <= BusCapacity
      BY <3>1, <3>3, RingTypes
    <3>5. lagged' \in BOOLEAN
      BY <1>1, <3>2 DEF BusTypes
    <3> DEFINE b == Publish(once, y)
    <3>6. fileBus' = b /\ b \in Seq(BusEvent) /\ Len(b) <= BusCapacity
      BY <3>2, <3>4
    <3> HIDE DEF b
    <3> QED BY <3>5, <3>6 DEF BusTypes
  <2>11. PICK fs, ns : fs = {f, g} /\ ns = <<m, n>>
    OBVIOUS
  <2>12. /\ fs \in SUBSET Files /\ ns \in Seq(Note) /\ Notify(ns)
         /\ doubtful \cup Unseen(fs) \subseteq doubtful' /\ doubtful' \subseteq Files
    BY <1>1, <2>4, <2>6, <2>11 DEF HistoryTypes, Unseen
  <2>13. Untouched(fs)
    BY <2>5, <2>8, <2>11 DEF Untouched
  <2>14. Told(fs, ns)
    BY <2>9, <2>11 DEF Told
  <2>15. Telling(ns)
    BY <2>1, <2>3, <2>4, <2>5, <2>11 DEF Telling
  <2> QED BY <1>2, <1>7, <2>5, <2>7, <2>10, <2>12, <2>13, <2>14, <2>15, ChangeKeeps
<1> QED BY <1>3, <1>4, <1>5, <1>6, <1>7 DEF Command

-----------------------------------------------------------------------------
(* The agent. *)

\* What the agent reports is believed as what the watcher reports is, although
\* nothing says when the UI will hear of it.
LEMMA DrainEffectsKeeps == ASSUME Inv, AgentTypes, DrainEffects PROVE Inv'
<1>1. /\ DiskTypes /\ NoticeTypes /\ IndexTypes /\ ReportTypes
      /\ ChannelTypes /\ BusTypes /\ UiTypes /\ HistoryTypes
  BY TypeParts DEF Inv
<1>2. PICK e : e = Head(effects)
  OBVIOUS
<1>3. e \in Effect
  BY <1>2, HeadTailProperties DEF AgentTypes, DrainEffects
<1>4. PICK f, t : f = e.path /\ t = e.tag
  OBVIOUS
<1>5. /\ f \in Files /\ t \in Tags \cup {NoTag}
      /\ ui' = FileModified(ui, f, t) /\ Believe(f, t, channel)
      /\ UNCHANGED <<diskVars, indexVars, report, channel, busVars, phase>>
  BY <1>2, <1>3, <1>4 DEF DrainEffects, Effect
<1>6. UNCHANGED <<disk, notices, report, indexVars, channel>>
  BY <1>5 DEF diskVars
<1>7. /\ ui' \in UiState /\ ui'.tree = ui.tree \cup {f} /\ ui'.finished = ui.finished
      /\ ui'.tags = [ui.tags EXCEPT ![f] = t] /\ ui'.list = ListOf(ui'.tags)
      /\ ui \in UiState
  BY <1>1, <1>5, Modifying DEF UiTypes
<1>8. t = disk[f] => Agrees(ui, f)'
  <2>1. ui'.tags[f] = t /\ f \in ui'.tree /\ t # Gone
    BY <1>5, <1>7, WorkspaceAssumption DEF UiState, Gone, NoTag
  <2> QED BY <1>6, <2>1 DEF Agrees
<1>9. \A g \in Files \ {f} : /\ g \in ui'.tree <=> g \in ui.tree
                             /\ ui'.tags[g] = ui.tags[g]
                             /\ Coming(g) => Coming(g)'
  <2>1. \A g \in Files \ {f} : (g \in ui'.tree <=> g \in ui.tree) /\ ui'.tags[g] = ui.tags[g]
    BY <1>5, <1>7 DEF UiState
  <2>2. \A g \in Files : Coming(g) => Coming(g)'
    BY <1>6 DEF Coming, ComingIn, indexVars
  <2> QED BY <2>1, <2>2
<1>10. InTransit' /\ HistoryTypes'
  <2>1. channel \in Seq(Report) /\ channel' = channel /\ Types /\ InTransit
    BY <1>1, <1>6 DEF ChannelTypes, Inv
  <2> QED BY <1>5, <1>6, <1>8, <1>9, <2>1, BelieveKeeps
<1>11. Types'
  <2>1. /\ DiskTypes' /\ NoticeTypes' /\ IndexTypes' /\ ReportTypes' /\ ChannelTypes' /\ UiTypes'
    BY <1>1, <1>5, <1>7 DEF DiskTypes, NoticeTypes, IndexTypes, ReportTypes, ChannelTypes,
                            UiTypes, diskVars, indexVars
  <2>2. BusTypes'
    BY <1>1, <1>5, BusKept
  <2> QED BY <1>10, <2>1, <2>2, TypeParts, PTL
<1>12. Stages'
  BY <1>6, <1>7 DEF Inv, Stages, indexVars
<1>13. ListInTransit'
  BY <1>6, <1>7 DEF Inv, ListInTransit, ParsedFirst, indexVars
<1> QED BY <1>10, <1>11, <1>12, <1>13 DEF Inv

\* A note the agent creates is reported by the operating system as any file is.
LEMMA AgentCreatesKeeps == ASSUME Inv, NEW f \in Files, AgentCreates(f) PROVE Inv'
<1>1. /\ DiskTypes /\ BusTypes /\ UiTypes /\ HistoryTypes
  BY TypeParts DEF Inv
<1>2. PICK t \in Tags : disk' = [disk EXCEPT ![f] = t]
  BY DEF AgentCreates
<1>3. PICK n : n = Notice("Modify", f)
  OBVIOUS
<1>4. n \in Note /\ n.kind = "Modify" /\ n.path = f
  BY <1>3, NoticeFields
<1>5. <<n>> \in Seq(Note) /\ ToSet(<<n>>) = {n}
  BY <1>4, OneNote
<1>6. t # Gone
  BY WorkspaceAssumption
<1>7. /\ disk' \in [Files -> Tags \cup {Gone}] /\ disk'[f] # Gone
      /\ \A g \in Files \ {f} : disk'[g] = disk[g]
  BY <1>1, <1>2, <1>6 DEF DiskTypes
<1>8. /\ Notify(<<n>>) /\ doubtful' = doubtful \cup Unseen({f})
      /\ PublishOne(Event("Updated", {f})) /\ changes' \in Nat
      /\ UNCHANGED <<indexVars, report, channel, phase, ui, renamed>>
  BY <1>1, <1>3 DEF AgentCreates, DiskTypes
<1>9. /\ BusTypes' /\ ui' \in UiState /\ ui'.finished = ui.finished /\ phase' \in Phases
      /\ renamed \subseteq renamed' /\ renamed' \subseteq Files
  <2>1. Event("Updated", {f}) \in BusEvent
    BY EventTypes
  <2> QED BY <1>1, <1>8, <2>1, PublishTypes DEF UiTypes, HistoryTypes
<1>10. PICK fs, ns : fs = {f} /\ ns = <<n>>
  OBVIOUS
<1>11. /\ fs \in SUBSET Files /\ ns \in Seq(Note) /\ Notify(ns)
       /\ doubtful \cup Unseen(fs) \subseteq doubtful' /\ doubtful' \subseteq Files
  BY <1>1, <1>5, <1>8, <1>10 DEF HistoryTypes, Unseen
<1>12. Untouched(fs)
  BY <1>7, <1>8, <1>10 DEF Untouched
<1>13. Told(fs, ns)
  BY <1>3, <1>5, <1>7, <1>10 DEF Told
<1>14. Telling(ns)
  BY <1>4, <1>5, <1>7, <1>10 DEF Telling
<1> QED BY <1>7, <1>8, <1>9, <1>11, <1>12, <1>13, <1>14, ChangeKeeps

LEMMA Unmoved ==
    ASSUME Inv, UNCHANGED <<diskVars, indexVars, report, channel, busVars, phase, ui,
                            doubtful, renamed>>
    PROVE  Inv'
BY DEF Inv, Types, DiskTypes, NoticeTypes, IndexTypes, ReportTypes, ChannelTypes, BusTypes,
       UiTypes, HistoryTypes, Stages, InTransit, Agrees, Coming, ComingIn, ListInTransit,
       RebuildComing, Tells, ParsedFirst, diskVars, indexVars, busVars

LEMMA AgentKeeps == ASSUME Inv, Agent PROVE Inv'
<1>1. CASE EffectDropped
  BY <1>1, Unmoved DEF EffectDropped
<1>2. ASSUME NEW f \in Files, AgentReports(f) PROVE Inv'
  BY <1>2, Unmoved DEF AgentReports
<1> QED BY <1>1, <1>2, AgentCreatesKeeps DEF Agent

\* What the agent has reported and the UI has not drained.
LEMMA AgentTypesKept == ASSUME Types, AgentTypes, [Next]_vars PROVE AgentTypes'
<1>1. CASE UNCHANGED agentVars
  BY <1>1 DEF AgentTypes, agentVars
<1>2. CASE DrainEffects \/ EffectDropped
  <2>1. effects # <<>> /\ effects' = Tail(effects) /\ created' = created
    BY <1>2 DEF DrainEffects, EffectDropped
  <2>2. Tail(effects) \in Seq(Effect)
    BY <2>1, HeadTailProperties DEF AgentTypes
  <2> QED BY <2>1, <2>2 DEF AgentTypes
<1>3. ASSUME NEW f \in Files, AgentCreates(f) PROVE AgentTypes'
  BY <1>3 DEF AgentCreates, AgentTypes
<1>4. ASSUME NEW f \in Files, AgentReports(f) PROVE AgentTypes'
  <2>1. PICK t : t = IF disk[f] = Gone THEN NoTag ELSE disk[f]
    OBVIOUS
  <2>2. PICK e : e = [path |-> f, tag |-> t]
    OBVIOUS
  <2>3. t \in Tags \cup {NoTag}
    BY <2>1 DEF Types, DiskTypes
  <2>4. e \in Effect
    BY <2>2, <2>3 DEF Effect
  <2>5. effects' = Append(effects, e) /\ created' \subseteq created
    BY <1>4, <2>1, <2>2 DEF AgentReports
  <2>6. Append(effects, e) \in Seq(Effect)
    BY <2>4, AppendElems DEF AgentTypes
  <2> QED BY <2>5, <2>6 DEF AgentTypes
<1>5. CASE Indexing
  <2>1. UNCHANGED agentVars
    BY <1>5 DEF Indexing, Visit, ScanDone, Parse, SendParsed, StartWatcher, Announce
  <2> QED BY <1>1, <2>1
<1>6. CASE Watching \/ Change
  <2>1. UNCHANGED agentVars
    BY <1>6 DEF Watching, Watch, WatchSend, WatchPublish, Change
  <2> QED BY <1>1, <2>1
<1>7. CASE ChannelDrained \/ EventsDrained \/ EffectsDrained \/ DrainEvents \/ DrainChannel \/ Command
  <2>1. UNCHANGED agentVars
    BY <1>7 DEF ChannelDrained, EventsDrained, EffectsDrained, DrainEvents, DrainChannel, Command
  <2> QED BY <1>1, <2>1
<1>8. CASE UNCHANGED vars
  BY <1>1, <1>8 DEF vars
<1> QED BY <1>2, <1>3, <1>4, <1>5, <1>6, <1>7, <1>8 DEF Next, Frame, Agent

-----------------------------------------------------------------------------
(* The theorems. *)

LEMMA Invariance == Spec => [](Inv /\ AgentTypes)
<1>1. ASSUME Init PROVE Inv /\ AgentTypes
  <2>1. Types
    <3>1. /\ <<>> \in Seq(Note) /\ <<>> \in Seq(Report) /\ <<>> \in Seq(BusEvent)
          /\ Len(<<>>) = 0 /\ BusCapacity \in Nat
      BY WorkspaceAssumption
    <3>2. NoticeTypes /\ ChannelTypes
      BY <1>1, <3>1 DEF Init, NoticeTypes, ChannelTypes
    <3>5. BusTypes
      <4>1. fileBus = <<>> /\ lagged = FALSE
        BY <1>1 DEF Init
      <4>2. Len(fileBus) <= BusCapacity
        BY <3>1, <4>1
      <4> QED BY <3>1, <4>1, <4>2 DEF BusTypes
    <3>3. DiskTypes /\ IndexTypes /\ ReportTypes /\ HistoryTypes
      BY <1>1 DEF Init, DiskTypes, IndexTypes, ReportTypes, HistoryTypes
    <3>4. UiTypes
      BY <1>1 DEF Init, UiTypes, UiState, Phases
    <3> QED BY <3>2, <3>3, <3>4, <3>5, TypeParts
  <2>2. Stages
    BY <1>1, NoElems DEF Init, Stages
  <2>3. InTransit
    <3> SUFFICES ASSUME NEW f \in Files, ~Coming(f) PROVE Agrees(ui, f)
      BY DEF InTransit
    <3>1. disk[f] = Gone
      BY <1>1 DEF Init, Coming, ComingIn
    <3> QED BY <1>1, <3>1 DEF Init, Agrees
  <2>4. ListInTransit
    BY <1>1 DEF Init, ListInTransit
  <2>5. AgentTypes
    BY <1>1 DEF Init, AgentTypes
  <2> QED BY <2>1, <2>2, <2>3, <2>4, <2>5 DEF Inv
<1>2. ASSUME Inv, AgentTypes, [Next]_vars PROVE Inv'
  <2>1. CASE Indexing
    BY <1>2, <2>1, IndexingKeeps
  <2>2. CASE Watching
    BY <1>2, <2>2, WatchKeeps, WatchSendKeeps, WatchPublishKeeps DEF Watching
  <2>3. CASE Frame
    BY <1>2, <2>3, DrainChannelKeeps, PhaseKeeps, DrainEventsKeeps, DrainEffectsKeeps,
       CommandKeeps DEF Frame
  <2>4. CASE Change
    BY <1>2, <2>4, ChangeOutsideKeeps
  <2>5. CASE Agent
    BY <1>2, <2>5, AgentKeeps
  <2>6. CASE UNCHANGED vars
    BY <1>2, <2>6, Unmoved DEF vars
  <2> QED BY <1>2, <2>1, <2>2, <2>3, <2>4, <2>5, <2>6 DEF Next
<1>3. ASSUME Inv, AgentTypes, [Next]_vars PROVE AgentTypes'
  BY <1>3, AgentTypesKept DEF Inv
<1> QED BY <1>1, <1>2, <1>3, PTL DEF Spec

\* Every step of the indexing thread, the watcher, the frame, the agent and other
\* programs leaves the tree, the tags and the buses of their types, the file
\* bus within its capacity and the tag list free of what is no tag.
THEOREM TypeCorrect == Spec => []TypeOK
BY Invariance, AllTypes, PTL DEF Inv

\* While the watcher runs, the tag filter comes to offer exactly the tags of the
\* files the UI knows, with every number of files, tags and changes, and
\* whatever the buses have dropped, while no file is in doubt or renamed away.
THEOREM TagListAlwaysCurrent == Spec => []TagListIsCurrent
<1>1. Inv => TagListIsCurrent
  <2> SUFFICES ASSUME Inv, Quiet, stage = "on", doubtful \cup renamed = {}
               PROVE  ui.list = ListOf(ui.tags)
    BY DEF TagListIsCurrent
  <2>1. ~RebuildComing
    BY NoElems DEF Quiet, RebuildComing
  <2> QED BY <2>1 DEF Inv, ListInTransit
<1> QED BY <1>1, Invariance, PTL

\* When every report has been handled, the tree and the tags are those of the
\* files on disk, but for the files that the history names: a report that is
\* out of date is followed by one that repairs what it did, or leaves its file
\* in doubt.
THEOREM TreeAlwaysCurrent == Spec => []TreeIsCurrent
<1>1. Inv => TreeIsCurrent
  <2> SUFFICES ASSUME Inv, Quiet, NEW f \in Files \ (doubtful \cup renamed)
               PROVE  Agrees(ui, f)
    BY DEF TreeIsCurrent
  <2>1. toVisit = {} /\ work = {} /\ parsed = {}
    BY DEF Inv, Stages, Quiet
  <2>2. ~Coming(f)
    BY <2>1, NoElems DEF Quiet, Coming, ComingIn, Nothing
  <2> QED BY <2>2 DEF Inv, InTransit
<1> QED BY <1>1, Invariance, PTL

\* In every state, and not only when all is handled: a file the tree or the tags
\* show wrongly is one whose true report is on its way, from the watcher to the
\* file bus, or one the history names.
THEOREM NewsIsOnItsWay == Spec => []InTransit
BY Invariance, PTL DEF Inv

=============================================================================
