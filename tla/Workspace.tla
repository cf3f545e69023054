----------------------------- MODULE Workspace -----------------------------
(***************************************************************************)
(* What the user is shown of the files of a library: the directory tree    *)
(* and the tags (src/src/app/background/task.rs, background/indexer.rs,    *)
(* workspace, orchestrator.rs, command_executor.rs).                       *)
(*                                                                         *)
(* At the start a thread walks the library, publishes the files it finds on*)
(* the file bus and hands them to workers, which read their tags and report*)
(* on the background channel; then it starts the watcher and announces the *)
(* end.  The watcher reports every change on the channel and on the bus,   *)
(* and the agent reports the notes it has created on a bus of its own.     *)
(* The UI drains the channel, then the bus, then the agent's bus, then the *)
(* user's commands, and a bus drops its oldest events when the UI falls    *)
(* behind.  All the while the files change, and nothing orders the ways a  *)
(* report can take.                                                        *)
(*                                                                         *)
(* Left out: directories, and files with a PDF (module PdfPipeline).  The  *)
(* agent's edits and moves are among the changes by other programs: what   *)
(* it publishes of them, Updated, the UI passes over.                      *)
(***************************************************************************)
EXTENDS Integers, Sequences, SequencesExt, FiniteSets

CONSTANTS Files, Tags,
          BusCapacity,   \* BUS_CAPACITY
          MaxChanges,    \* bound: changes by the user, the agent and others
          Changes        \* the kinds of changes, see Change, Command and Agent

Gone    == "gone"
Unknown == "unknown"
NoTag   == "no tag"
Nothing == [kind |-> "nothing"]

ASSUME WorkspaceAssumption == /\ BusCapacity \in Nat \ {0} /\ MaxChanges \in Nat
                              /\ Gone \notin Tags

VARIABLES disk,     \* the tag of every file, Gone when it does not exist
          notices,  \* changes the operating system has not reported yet
          toVisit,  \* files the walk has not come to
          batch,    \* files found and not published yet
          work,     \* files for the workers
          parsed,   \* what workers have read and not sent yet
          stage,    \* of the indexing thread
          report,   \* what the callback of the watcher is busy with
          channel,  \* the background channel
          fileBus,  \* what the UI has not drained from the file bus
          lagged,   \* has the bus dropped events of the UI?
          created,  \* notes the agent has created and not reported yet
          effects,  \* what the UI has not drained from the agent's bus
          phase,    \* of the frame: channel, events, agent or commands
          ui,       \* tree, tags and tag list, see Init
          doubtful, \* history: files whose last report was out of date, or whose only
                    \* report may be lost, see Believe and Delete
          renamed,  \* history: names another program has renamed away
          changes

diskVars  == <<disk, notices, changes>>
indexVars == <<toVisit, batch, work, parsed, stage>>
busVars   == <<fileBus, lagged>>
agentVars == <<created, effects>>
vars == <<diskVars, indexVars, report, channel, busVars, agentVars, phase, ui,
          doubtful, renamed>>

Init ==
    /\ disk \in [Files -> Tags \cup {Gone}]
    /\ notices = <<>>
    /\ toVisit = Files /\ batch = {} /\ work = {} /\ parsed = {}
    /\ stage = "scan"
    /\ report = Nothing
    /\ channel = <<>> /\ fileBus = <<>> /\ lagged = FALSE
    /\ created = {} /\ effects = <<>>
    /\ phase = "channel"
    /\ ui = [tree     |-> {},                        \* all_files
             tags     |-> [f \in Files |-> Unknown], \* file_tags
             list     |-> {},                        \* all_tags
             finished |-> FALSE]                     \* indexing_finished
    /\ doubtful = {} /\ renamed = {}
    /\ changes = 0

\* The bus drops its oldest event when the ring is full.
Publish(bus, e) == IF Len(bus) < BusCapacity THEN Append(bus, e)
                                             ELSE Append(Tail(bus), e)
Overflows(bus)  == Len(bus) = BusCapacity

PublishOne(e) == /\ fileBus' = Publish(fileBus, e)
                 /\ lagged' = (lagged \/ Overflows(fileBus))

Event(k, fs) == [kind |-> k, paths |-> fs]

-----------------------------------------------------------------------------
(* The indexing thread and its workers. *)

\* scan_libraries: files are published by directory; the next one may be in the
\* directory of the last or in another.
Visit(f) ==
    /\ stage = "scan" /\ f \in toVisit
    /\ toVisit' = toVisit \ {f}
    /\ IF disk[f] = Gone THEN UNCHANGED <<batch, work, busVars>>
       ELSE /\ work' = work \cup {f}
            /\ \/ /\ batch' = batch \cup {f}
                  /\ UNCHANGED busVars
               \/ /\ batch # {}
                  /\ PublishOne(Event("Discovered", batch))
                  /\ batch' = {f}
    /\ UNCHANGED <<diskVars, parsed, stage, report, channel, agentVars, phase,
                   ui, doubtful, renamed>>

ScanDone ==
    /\ stage = "scan" /\ toVisit = {}
    /\ stage' = "join"
    /\ batch' = {}
    /\ IF batch = {} THEN UNCHANGED busVars
                     ELSE PublishOne(Event("Discovered", batch))
    /\ UNCHANGED <<diskVars, toVisit, work, parsed, report, channel, agentVars,
                   phase, ui, doubtful, renamed>>

\* A worker reads the tags of a file; a file that is gone has none.
Parse(f) ==
    /\ f \in work
    /\ work' = work \ {f}
    /\ parsed' = parsed \cup {[path |-> f,
                               tag |-> IF disk[f] = Gone THEN NoTag ELSE disk[f]]}
    /\ UNCHANGED <<diskVars, toVisit, batch, stage, report, channel, busVars,
                   agentVars, phase, ui, doubtful, renamed>>

SendParsed(p) ==
    /\ p \in parsed
    /\ parsed' = parsed \ {p}
    /\ channel' = Append(channel, [kind |-> "FileParsed", path |-> p.path,
                                   tag |-> p.tag])
    /\ UNCHANGED <<diskVars, toVisit, batch, work, stage, report, busVars,
                   agentVars, phase, ui, doubtful, renamed>>

\* The workers are joined and the watcher is started, or fails to start.
StartWatcher ==
    /\ stage = "join" /\ work = {} /\ parsed = {}
    /\ stage' \in {"watching", "unwatched"}
    /\ UNCHANGED <<diskVars, toVisit, batch, work, parsed, report, channel,
                   busVars, agentVars, phase, ui, doubtful, renamed>>

\* Finished, or FinishedWithoutWatcher.
Announce ==
    /\ stage \in {"watching", "unwatched"}
    /\ stage' = IF stage = "watching" THEN "on" ELSE "off"
    /\ channel' = Append(channel, [kind |-> "Finished", path |-> Nothing])
    /\ UNCHANGED <<diskVars, toVisit, batch, work, parsed, report, busVars,
                   agentVars, phase, ui, doubtful, renamed>>

Indexing == \/ ScanDone \/ StartWatcher \/ Announce
            \/ \E f \in Files : Visit(f) \/ Parse(f)
            \/ \E p \in parsed : SendParsed(p)

Watched == stage \in {"watching", "on"}

-----------------------------------------------------------------------------
(* The watcher. *)

\* The callback looks at a file that was created or modified; one that is no
\* file is not reported.
Watch ==
    /\ notices # <<>> /\ report = Nothing
    /\ notices' = Tail(notices)
    /\ LET n == Head(notices) IN
         report' = IF n.kind = "Remove"
                     THEN [kind |-> "FileDeleted", path |-> n.path, sent |-> FALSE]
                   ELSE IF disk[n.path] = Gone THEN Nothing
                   ELSE [kind |-> "FileModified", path |-> n.path,
                         tag |-> disk[n.path], sent |-> FALSE]
    /\ UNCHANGED <<disk, changes, indexVars, channel, busVars, agentVars,
                   phase, ui, doubtful, renamed>>

\* It reports on the background channel, and then on the bus.
WatchSend ==
    /\ report # Nothing /\ ~report.sent
    /\ report' = [report EXCEPT !.sent = TRUE]
    /\ channel' = Append(channel,
         IF report.kind = "FileDeleted"
           THEN [kind |-> "FileDeleted", path |-> report.path]
           ELSE [kind |-> "FileModified", path |-> report.path,
                 tag |-> report.tag])
    /\ UNCHANGED <<diskVars, indexVars, busVars, agentVars, phase, ui,
                   doubtful, renamed>>

WatchPublish ==
    /\ report # Nothing /\ report.sent
    /\ report' = Nothing
    /\ PublishOne(Event(IF report.kind = "FileDeleted" THEN "Removed"
                                                       ELSE "Updated",
                        {report.path}))
    /\ UNCHANGED <<diskVars, indexVars, channel, agentVars, phase, ui,
                   doubtful, renamed>>

-----------------------------------------------------------------------------
(* What reports do to the tree and the tags of the UI u. *)

ListOf(tags) == {tags[f] : f \in Files} \ {Unknown, NoTag}

Rebuild(u)    == [u EXCEPT !.list = ListOf(u.tags)]
AddTags(u, f, t) == [u EXCEPT !.tags[f] = t, !.list = @ \cup ({t} \ {NoTag})]
AddFile(u, f)    == [u EXCEPT !.tree = @ \cup {f}]
RemoveFile(u, f) == [u EXCEPT !.tree = @ \ {f}, !.tags[f] = Unknown]

\* Mutant: tags are added to the list and never leave it.
ModifiedNoRebuild(u, f, t) == AddFile(AddTags(u, f, t), f)

\* Mutant: the tree is left to the events of the bus.
ModifiedTagsOnly(u, f, t) == Rebuild(AddTags(u, f, t))

\* Mutant: the tree is left to the events of the bus.
DeletedTagsOnly(u, f) == Rebuild([u EXCEPT !.tags[f] = Unknown])

FileParsed(u, f, t)   == AddFile(AddTags(u, f, t), f)
FileModified(u, f, t) == Rebuild(AddFile(AddTags(u, f, t), f))
FileDeleted(u, f)     == Rebuild(RemoveFile(u, f))

-----------------------------------------------------------------------------
(* History: what the UI cannot know from the reports it gets. *)

\* Is a report that says what is on the disk of f still to come?  One on the
\* bus does not count, since the bus may drop it.
RepairComing(f, ch) ==
    IF disk[f] = Gone
    THEN \/ \E i \in DOMAIN notices : notices[i] = [kind |-> "Remove", path |-> f]
         \/ report.kind = "FileDeleted" /\ report.path = f /\ ~report.sent
         \/ \E i \in DOMAIN ch : ch[i] = [kind |-> "FileDeleted", path |-> f]
    ELSE \/ \E i \in DOMAIN notices : notices[i] = [kind |-> "Modify", path |-> f]
         \/ /\ report.kind = "FileModified" /\ report.path = f
            /\ ~report.sent /\ report.tag = disk[f]
         \/ \E i \in DOMAIN ch : /\ ch[i].kind \in {"FileParsed", "FileModified"}
                                 /\ ch[i].path = f /\ ch[i].tag = disk[f]
         \/ f \in work \cup toVisit \/ [path |-> f, tag |-> disk[f]] \in parsed

\* A report that says t of f is believed.  It leaves f in doubt when it is out of
\* date and no other is to come that would repair what it did.
Believe(f, t, ch) ==
    /\ doubtful' = IF t = disk[f] THEN doubtful \ {f}
                   ELSE IF RepairComing(f, ch) THEN doubtful ELSE doubtful \cup {f}
    /\ renamed' = IF t = disk[f] THEN renamed \ {f} ELSE renamed

\* Before the watcher runs, only the walk can find what has changed.
Unseen(fs) == IF Watched THEN {} ELSE fs

-----------------------------------------------------------------------------
(* A frame. *)

\* drain_background_channel
DrainChannel ==
    /\ phase = "channel" /\ channel # <<>>
    /\ channel' = Tail(channel)
    /\ LET e == Head(channel) IN
         \/ /\ e.kind = "FileParsed"
            /\ ui' = FileParsed(ui, e.path, e.tag)
            /\ Believe(e.path, e.tag, Tail(channel))
         \/ /\ e.kind = "FileModified"
            /\ ui' = FileModified(ui, e.path, e.tag)
            /\ Believe(e.path, e.tag, Tail(channel))
         \/ /\ e.kind = "FileDeleted"
            /\ ui' = FileDeleted(ui, e.path)
            /\ Believe(e.path, Gone, Tail(channel))
         \/ /\ e.kind = "Finished"
            /\ ui' = [Rebuild(ui) EXCEPT !.finished = TRUE]
            /\ UNCHANGED <<doubtful, renamed>>
    /\ UNCHANGED <<diskVars, indexVars, report, busVars, agentVars, phase>>

ChannelDrained ==
    /\ phase = "channel" /\ channel = <<>>
    /\ phase' = "events"
    /\ UNCHANGED <<diskVars, indexVars, report, channel, busVars, agentVars,
                   ui, doubtful, renamed>>

\* process_file_events: an update is left to the channel.
DrainEvents ==
    /\ phase = "events" /\ fileBus # <<>> /\ ~lagged
    /\ fileBus' = Tail(fileBus)
    /\ LET e == Head(fileBus) IN
         \/ /\ e.kind = "Discovered"
            /\ ui' = [ui EXCEPT !.tree = @ \cup e.paths]
            /\ doubtful' = doubtful \cup
                 {f \in e.paths : disk[f] = Gone /\ ~RepairComing(f, channel)}
            /\ UNCHANGED renamed
         \/ \E f \in e.paths :
              /\ e.kind = "Removed"
              /\ ui' = Rebuild(RemoveFile(ui, f))
              /\ Believe(f, Gone, channel)
         \/ /\ e.kind = "Updated"
            /\ UNCHANGED <<ui, doubtful, renamed>>
    /\ UNCHANGED <<diskVars, indexVars, report, channel, lagged, agentVars,
                   phase>>

\* The drain ends at a lag as it does when the bus is empty.
EventsDrained ==
    /\ phase = "events" /\ (fileBus = <<>> \/ lagged)
    /\ lagged' = FALSE
    /\ phase' = "agent"
    /\ UNCHANGED <<diskVars, indexVars, report, channel, fileBus, agentVars,
                   ui, doubtful, renamed>>

\* drain_agent_event_bus: what the agent reports is taken for a modification.
DrainEffects ==
    /\ phase = "agent" /\ effects # <<>>
    /\ effects' = Tail(effects)
    /\ LET e == Head(effects) IN /\ ui' = FileModified(ui, e.path, e.tag)
                                /\ Believe(e.path, e.tag, channel)
    /\ UNCHANGED <<diskVars, indexVars, report, channel, busVars, created, phase>>

EffectsDrained ==
    /\ phase = "agent" /\ effects = <<>>
    /\ phase' = "commands"
    /\ UNCHANGED <<diskVars, indexVars, report, channel, busVars, agentVars, ui,
                   doubtful, renamed>>

Notify(ns) == notices' = IF Watched THEN notices \o ns ELSE notices
Notice(k, f) == [kind |-> k, path |-> f]

\* ConfirmCreateDocument
Create(f) ==
    /\ "create" \in Changes /\ disk[f] = Gone
    /\ \E t \in Tags : disk' = [disk EXCEPT ![f] = t]
    /\ Notify(<<Notice("Modify", f)>>)
    /\ PublishOne(Event("Discovered", {f}))
    /\ doubtful' = doubtful \cup Unseen({f})
    /\ UNCHANGED ui

\* ConfirmDelete: the file is moved to the recycle bin.  Where that is a rename,
\* the operating system reports a modification of a file that is gone, and the
\* event on the bus is all the UI gets.
Delete(f) ==
    /\ "delete" \in Changes /\ disk[f] # Gone
    /\ disk' = [disk EXCEPT ![f] = Gone]
    /\ \E k \in {"Remove", "Modify"} :
         /\ Notify(<<Notice(k, f)>>)
         /\ doubtful' = doubtful \cup (IF k = "Modify" THEN {f} ELSE Unseen({f}))
    /\ PublishOne(Event("Removed", {f}))
    /\ UNCHANGED ui

\* ConfirmRename and ConfirmMove: publish_rename publishes two events, and the
\* tree and the tags follow at once.
Rename(f, g) ==
    /\ "move" \in Changes /\ disk[f] # Gone /\ f # g
    /\ disk' = [disk EXCEPT ![g] = disk[f], ![f] = Gone]
    /\ Notify(<<Notice("Modify", f), Notice("Modify", g)>>)
    /\ LET once == Publish(fileBus, Event("Removed", {f})) IN
         /\ fileBus' = Publish(once, Event("Discovered", {g}))
         /\ lagged' = (lagged \/ Overflows(fileBus) \/ Overflows(once))
    /\ ui' = AddTags(AddFile(RemoveFile(ui, f), g), g, disk[f])
    /\ doubtful' = doubtful \cup Unseen({f, g})

\* drain_user_command_bus
Command ==
    /\ phase = "commands"
    /\ phase' = "channel"
    /\ \/ /\ changes < MaxChanges
          /\ changes' = changes + 1
          /\ \/ \E f \in Files : Create(f) \/ Delete(f)
             \/ \E f, g \in Files : Rename(f, g)
       \/ UNCHANGED <<diskVars, busVars, ui, doubtful>>
    /\ UNCHANGED <<indexVars, report, channel, agentVars, renamed>>

-----------------------------------------------------------------------------
(* Other programs write, delete and rename files. *)

WriteOutside(f) ==
    /\ "write" \in Changes
    /\ \E t \in Tags \ {disk[f]} : disk' = [disk EXCEPT ![f] = t]
    /\ Notify(<<Notice("Modify", f)>>)
    /\ doubtful' = doubtful \cup Unseen({f})
    /\ UNCHANGED renamed

\* Deleted, or moved out of the library, as to a recycle bin.
DeleteOutside(f) ==
    /\ "remove" \in Changes /\ disk[f] # Gone
    /\ disk' = [disk EXCEPT ![f] = Gone]
    /\ \E k \in {"Remove", "Modify"} :
         /\ Notify(<<Notice(k, f)>>)
         /\ renamed' = IF Watched /\ k = "Modify" THEN renamed \cup {f} ELSE renamed
    /\ doubtful' = doubtful \cup Unseen({f})

\* The operating system reports a rename as modifications of both names.
RenameOutside(f, g) ==
    /\ "rename" \in Changes /\ disk[f] # Gone /\ f # g
    /\ disk' = [disk EXCEPT ![g] = disk[f], ![f] = Gone]
    /\ Notify(<<Notice("Modify", f), Notice("Modify", g)>>)
    /\ doubtful' = doubtful \cup Unseen({f, g})
    /\ renamed' = IF Watched THEN renamed \cup {f} ELSE renamed

Change ==
    /\ changes < MaxChanges
    /\ changes' = changes + 1
    /\ \/ \E f \in Files : WriteOutside(f) \/ DeleteOutside(f)
       \/ \E f, g \in Files : RenameOutside(f, g)
    /\ UNCHANGED <<indexVars, report, channel, busVars, agentVars, phase, ui>>

-----------------------------------------------------------------------------
(* The agent creates notes. *)

\* tool_create_note
AgentCreates(f) ==
    /\ "agent" \in Changes /\ changes < MaxChanges /\ disk[f] = Gone
    /\ changes' = changes + 1
    /\ \E t \in Tags : disk' = [disk EXCEPT ![f] = t]
    /\ Notify(<<Notice("Modify", f)>>)
    /\ PublishOne(Event("Updated", {f}))
    /\ created' = created \cup {f}
    /\ doubtful' = doubtful \cup Unseen({f})
    /\ UNCHANGED <<indexVars, report, channel, effects, phase, ui, renamed>>

\* extract_side_effects: the tags are read once the tools of the turn are done.
AgentReports(f) ==
    /\ f \in created
    /\ created' = created \ {f}
    /\ effects' = Append(effects, [path |-> f,
                                   tag |-> IF disk[f] = Gone THEN NoTag ELSE disk[f]])
    /\ UNCHANGED <<diskVars, indexVars, report, channel, busVars, phase, ui,
                   doubtful, renamed>>

\* The agent's bus drops its oldest event when the UI falls behind.
EffectDropped ==
    /\ effects # <<>>
    /\ effects' = Tail(effects)
    /\ UNCHANGED <<diskVars, indexVars, report, channel, busVars, created, phase,
                   ui, doubtful, renamed>>

Agent == EffectDropped \/ \E f \in Files : AgentCreates(f) \/ AgentReports(f)

-----------------------------------------------------------------------------
Watching == Watch \/ WatchSend \/ WatchPublish
Frame    == DrainChannel \/ ChannelDrained \/ DrainEvents \/ EventsDrained
            \/ DrainEffects \/ EffectsDrained \/ Command

Next == Indexing \/ Watching \/ Frame \/ Change \/ Agent
Spec == Init /\ [][Next]_vars

\* The indexing thread, its workers, the watcher and the UI keep running.
FairSpec == Spec /\ WF_vars(Indexing) /\ WF_vars(Watching) /\ WF_vars(Frame)

-----------------------------------------------------------------------------
(* Properties. *)

Paths  == [path: Files]
Report == [kind: {"FileDeleted"}, path: Files]
            \cup [kind: {"FileParsed", "FileModified"}, path: Files,
                  tag: Tags \cup {NoTag}]
            \cup [kind: {"Finished"}, path: {Nothing}]

TypeOK ==
    /\ disk \in [Files -> Tags \cup {Gone}]
    /\ notices \in Seq([kind: {"Modify", "Remove"}, path: Files])
    /\ toVisit \subseteq Files /\ batch \subseteq Files /\ work \subseteq Files
    /\ parsed \subseteq [path: Files, tag: Tags \cup {NoTag}]
    /\ stage \in {"scan", "join", "watching", "unwatched", "on", "off"}
    /\ report = Nothing \/ report \in
         [kind: {"FileDeleted"}, path: Files, sent: BOOLEAN]
         \cup [kind: {"FileModified"}, path: Files, tag: Tags, sent: BOOLEAN]
    /\ channel \in Seq(Report)
    /\ fileBus \in Seq([kind: {"Discovered", "Updated", "Removed"},
                        paths: SUBSET Files])
    /\ Len(fileBus) <= BusCapacity
    /\ lagged \in BOOLEAN
    /\ created \subseteq Files
    /\ effects \in Seq([path: Files, tag: Tags \cup {NoTag}])
    /\ phase \in {"channel", "events", "agent", "commands"}
    /\ ui \in [tree: SUBSET Files, tags: [Files -> Tags \cup {Unknown, NoTag}],
               list: SUBSET Tags, finished: BOOLEAN]
    /\ doubtful \subseteq Files /\ renamed \subseteq Files
    /\ changes \in Nat

\* Is f in u as it is on disk?
Agrees(u, f) == IF disk[f] = Gone
                  THEN f \notin u.tree /\ u.tags[f] = Unknown
                  ELSE f \in u.tree /\ u.tags[f] = disk[f]

\* Everything has been indexed, reported and handled.
Quiet == /\ ui.finished /\ phase = "channel"
         /\ notices = <<>> /\ report = Nothing
         /\ channel = <<>> /\ fileBus = <<>> /\ ~lagged

\* The tag filter offers the tags of the known files and no other, whatever has
\* been created, deleted or renamed over, as long as the watcher runs: it reports
\* again what a rename or a lost event has left in the list; unless a file is
\* left in doubt or was renamed away, of which no report need come.
TagListIsCurrent ==
    Quiet /\ stage = "on" /\ doubtful \cup renamed = {} => ui.list = ListOf(ui.tags)

\* REQ-402 and REQ-403: when everything has been handled, the tree and the tags
\* are those of the files on disk, with and without a watcher, and whatever the
\* bus has dropped; but for the files left in doubt and those another program
\* has renamed.
TreeIsCurrent ==
    Quiet => \A f \in Files \ (doubtful \cup renamed) : Agrees(ui, f)

\* REQ-304, REQ-402 and REQ-403: the indexing ends, also without a watcher, and
\* the tree and the tags come to be those of the files on disk, also when the
\* bus has dropped events; but for the files left in doubt and those another
\* program has renamed.
TreeSettles ==
    <>[](ui.finished /\ (\A f \in Files \ (doubtful \cup renamed) : Agrees(ui, f)))
=============================================================================
