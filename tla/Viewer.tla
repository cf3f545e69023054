------------------------------- MODULE Viewer -------------------------------
(***************************************************************************)
(* The document viewer: open tabs, the selection, the text that is shown   *)
(* and the inline editor (src/src/app/orchestrator.rs, command_executor.rs,*)
(* ui/tabs.rs, ui/app/update.rs).  All of it changes on the UI thread, in  *)
(* frames that drain the background channel, then the file bus, then the   *)
(* user's commands, and draw.  A file is read by a thread of its own, whose*)
(* answer travels on the background channel together with the reports of   *)
(* the watcher, while the file may change, vanish or be renamed and the    *)
(* user goes on clicking at what was drawn one frame before.  The watcher  *)
(* starts late, or fails to, for some or all of the libraries.             *)
(*                                                                         *)
(* The directory tree, renames outside the program and a file bus that     *)
(* overflows are in module Workspace, files with a PDF in PdfPipeline.     *)
(***************************************************************************)
EXTENDS Integers, Sequences, SequencesExt, FiniteSets

CONSTANTS Files, Texts,
          MaxChanges,    \* bound: changes of files
          MaxCommands,   \* bound: commands of the user
          Commands       \* the kinds of commands the user gives

Gone     == "gone"
NoFile   == "none"
Unread   == "unread"
Blank    == "blank"
Nothing  == [kind |-> "nothing"]

ASSUME ViewerAssumption == /\ MaxChanges \in Nat /\ MaxCommands \in Nat
                           /\ NoFile \notin Files
                           /\ Texts \cap {Gone, Unread} = {}

VARIABLES disk,       \* the text of every file, Gone when it does not exist
          watched,    \* files of the libraries the watcher watches
          notices,    \* changes the operating system has not reported yet
          publishing, \* what the watcher has sent and not yet published
          channel,    \* the background channel to the UI
          fileBus,    \* what the UI has not drained from the file bus
          loads,      \* threads that read a file for the viewer
          phase,      \* of the frame: channel, events, commands or draw
          command,    \* what the user clicked in the last frame
          ui,         \* tabs, selection and text, see Init
          editor,     \* the file open in the inline editor, or NoFile
          untold,     \* history: files changed since they were read, with no
                      \* report to come, see Change and Answer
          changes, commands

fileVars  == <<disk, watched, notices, changes>>
busVars   == <<publishing, channel, fileBus>>
vars == <<fileVars, busVars, loads, phase, command, ui, editor, untold,
          commands>>

Report(k, f) == [kind |-> k, path |-> f]

Init ==
    /\ disk \in [Files -> Texts \cup {Gone}]
    /\ watched = {} /\ notices = <<>> /\ publishing = Nothing
    /\ channel = <<>> /\ fileBus = <<>>
    /\ loads = {}
    /\ phase = "channel" /\ command = Nothing
    /\ ui = [tabs     |-> <<>>,     \* the tab strip
             known    |-> {},       \* tabs_set, the paths open_tab compares with
             selected |-> NoFile,   \* selected_file
             marked   |-> {},       \* selected_files
             loaded   |-> NoFile,   \* loaded_path
             shown    |-> Blank,    \* current_markdown
             pending  |-> NoFile]   \* pending_file_load
    /\ editor = NoFile
    /\ untold = {}
    /\ changes = 0 /\ commands = 0

-----------------------------------------------------------------------------
(* Files, the watcher and the threads that read files. *)

\* FileWatcher::start, at the end of indexing; it may fail, for any library or
\* altogether, and is not tried again.
StartWatcher ==
    /\ watched = {}
    /\ \E libraries \in SUBSET Files \ {{}} : watched' = libraries
    /\ UNCHANGED <<disk, notices, changes, busVars, loads, phase, command, ui,
                   editor, untold, commands>>

\* What the operating system reports of a file, when it is watched.
Notice(kind, f) == IF f \in watched THEN <<Report(kind, f)>> ELSE <<>>

\* Another program writes, creates or deletes a file; one that is moved away,
\* also into the trash, is reported as a modification.
Change(f) ==
    /\ changes < MaxChanges
    /\ changes' = changes + 1
    /\ \E t \in (Texts \cup {Gone}) \ {disk[f]}, kind \in {"Modify", "Remove"} :
         /\ kind = "Remove" => t = Gone
         /\ disk' = [disk EXCEPT ![f] = t]
         /\ notices' = notices \o Notice(kind, f)
         /\ untold' = IF f \in watched /\ (t = Gone => kind = "Remove")
                        THEN untold \ {f} ELSE untold \cup {f}
    /\ UNCHANGED <<watched, busVars, loads, phase, command, ui, editor, commands>>

\* The watcher reports a change on the background channel and then on the bus;
\* a file that is written and gone meanwhile is not reported.
Watch ==
    /\ notices # <<>> /\ publishing = Nothing
    /\ notices' = Tail(notices)
    /\ LET n == Head(notices) IN
         \/ /\ n.kind = "Remove"
            /\ channel' = Append(channel, Report("FileDeleted", n.path))
            /\ publishing' = Report("Removed", n.path)
         \/ /\ n.kind = "Modify" /\ disk[n.path] # Gone
            /\ channel' = Append(channel, Report("FileModified", n.path))
            /\ publishing' = Report("Updated", n.path)
         \/ /\ n.kind = "Modify" /\ disk[n.path] = Gone
            /\ UNCHANGED <<channel, publishing>>
    /\ UNCHANGED <<disk, watched, changes, fileBus, loads, phase, command, ui,
                   editor, untold, commands>>

WatchPublish ==
    /\ publishing # Nothing
    /\ fileBus' = Append(fileBus, publishing)
    /\ publishing' = Nothing
    /\ UNCHANGED <<fileVars, channel, loads, phase, command, ui, editor,
                   untold, commands>>

\* A loader thread reads the file, and sends what it read.
Read(l) ==
    /\ l.text = Unread
    /\ loads' = (loads \ {l}) \cup {[l EXCEPT !.text = disk[l.path]]}
    /\ UNCHANGED <<fileVars, busVars, phase, command, ui, editor, untold,
                   commands>>

SendLoaded(l) ==
    /\ l.text # Unread
    /\ loads' = loads \ {l}
    /\ channel' = Append(channel, [kind |-> "FileLoaded", path |-> l.path,
                                   text |-> l.text])
    /\ UNCHANGED <<fileVars, publishing, fileBus, phase, command, ui, editor,
                   untold, commands>>

-----------------------------------------------------------------------------
(* What a report does to the state of the UI u. *)

\* The tabs but those of f, written as a function of how many are looked at.
Without(tabs, f) ==
    LET kept[n \in 0 .. Len(tabs)] ==
          IF n = 0 THEN <<>>
          ELSE IF tabs[n] = f THEN kept[n - 1] ELSE Append(kept[n - 1], tabs[n])
    IN  kept[Len(tabs)]

LastOf(tabs) == IF tabs = <<>> THEN NoFile ELSE Last(tabs)
Forget(u, f) == IF u.loaded = f THEN [u EXCEPT !.loaded = NoFile] ELSE u

\* Mutant: the tabs stay.
KeepTabs(u, f) == u

\* close_tabs_for_removed_files: the selection falls back to the last tab, and
\* the text is cleared when there is none.
CloseRemoved(u, f) ==
    LET left   == Without(u.tabs, f)
        choice == IF u.selected # NoFile /\ Contains(left, u.selected)
                    THEN u.selected ELSE LastOf(left)
    IN  IF ~Contains(u.tabs, f) THEN u
        ELSE IF choice = NoFile
          THEN [u EXCEPT !.tabs = left, !.selected = NoFile, !.loaded = NoFile,
                         !.shown = Blank]
          ELSE [u EXCEPT !.tabs = left, !.selected = choice]

FileDeleted(u, f) ==
    LET v == CloseRemoved(u, f)
        w == IF v.selected = f
               THEN [v EXCEPT !.selected = NoFile, !.shown = Blank] ELSE v
    IN  Forget([w EXCEPT !.marked = @ \ {f}], f)

\* Mutant: an answer is taken only for the file that is loaded.
LoadedOnce(u, f, text) ==
    IF u.loaded # NoFile THEN u
    ELSE [u EXCEPT !.pending = NoFile, !.shown = text, !.loaded = f]

\* FileLoaded with the text of the file.
LoadedText(u, f, text) ==
    [u EXCEPT !.pending = NoFile, !.shown = text, !.loaded = f]

\* Mutant: the error is taken for a text.
LoadedError(u, f) == LoadedText(u, f, Gone)

\* FileLoaded with an error: close_tab and clear the viewer.
LoadFailed(u, f) ==
    [u EXCEPT !.pending = NoFile,
              !.tabs = IF f \in u.known THEN Without(@, f) ELSE @,
              !.known = @ \ {f},
              !.selected = IF @ = f THEN NoFile ELSE @,
              !.marked = @ \ {f},
              !.shown = Blank]

-----------------------------------------------------------------------------
(* A frame: the background channel. *)

\* The kinds of reports that tell what has become of f.
News(f) == {"Remove", "FileDeleted", "Removed"}
             \cup IF disk[f] = Gone THEN {} ELSE {"Modify", "FileModified", "Updated"}

\* Is such a report still on its way to the UI?
Reported(f, ch) ==
    LET IsNews(r) == r # Nothing /\ r.path = f /\ r.kind \in News(f)
    IN  \/ \E i \in DOMAIN notices : IsNews(notices[i])
        \/ IsNews(publishing)
        \/ \E i \in DOMAIN fileBus : IsNews(fileBus[i])
        \/ \E i \in DOMAIN ch : IsNews(ch[i])

\* The text of the UI u has been blanked: whatever is still loaded is not shown.
Blanked(u) == untold \cup ({u.loaded} \ {NoFile})

\* The answer of a loader.  History: the file is untold when it has changed
\* after it was read and no report of that is to come, or no longer.
Answer ==
    LET e == Head(channel) IN
    /\ e.kind = "FileLoaded"
    /\ ui' = IF e.text = Gone THEN LoadFailed(ui, e.path)
                              ELSE LoadedText(ui, e.path, e.text)
    /\ untold' =
         IF e.text = Gone THEN Blanked(ui)
         ELSE IF e.text # disk[e.path] /\ ~Reported(e.path, Tail(channel))
           THEN untold \cup {e.path} ELSE untold \ {e.path}

\* drain_background_channel
DrainChannel ==
    /\ phase = "channel" /\ channel # <<>>
    /\ channel' = Tail(channel)
    /\ LET e == Head(channel) IN
         \/ Answer
         \/ /\ e.kind = "FileModified"
            /\ ui' = Forget(ui, e.path)
            /\ UNCHANGED untold
         \/ /\ e.kind = "FileDeleted"
            /\ ui' = FileDeleted(ui, e.path)
            /\ untold' = IF ui'.shown = ui.shown THEN untold
                                                   ELSE Blanked(ui')
    /\ UNCHANGED <<fileVars, publishing, fileBus, loads, phase, command, editor,
                   commands>>

ChannelDrained ==
    /\ phase = "channel" /\ channel = <<>>
    /\ phase' = "events"
    /\ UNCHANGED <<fileVars, busVars, loads, command, ui, editor, untold,
                   commands>>

\* process_file_events: an update leaves the text alone while the editor is open.
DrainEvents ==
    /\ phase = "events" /\ fileBus # <<>>
    /\ fileBus' = Tail(fileBus)
    /\ LET e == Head(fileBus) IN
         ui' = IF e.kind = "Removed"
                 THEN CloseRemoved(Forget(ui, e.path), e.path)
                 ELSE IF editor = NoFile THEN Forget(ui, e.path) ELSE ui
    /\ UNCHANGED <<fileVars, publishing, channel, loads, phase, command, editor,
                   untold, commands>>

EventsDrained ==
    /\ phase = "events" /\ fileBus = <<>>
    /\ phase' = "commands"
    /\ UNCHANGED <<fileVars, busVars, loads, command, ui, editor, untold,
                   commands>>

-----------------------------------------------------------------------------
(* A frame: the user's commands. *)

\* open_tab compares with tabs_set, not with the strip.
OpenTab(u, f) ==
    IF f \in u.known THEN u
    ELSE [u EXCEPT !.known = @ \cup {f}, !.tabs = Append(@, f)]

SelectFile(u, f) ==
    OpenTab([u EXCEPT !.marked = {f}, !.selected = f], f)

\* With shift or control held; any of the marked files becomes the selection
\* when the selected one is unmarked.
ToggleFile(u, f) ==
    IF f \notin u.marked
      THEN {OpenTab([u EXCEPT !.marked = @ \cup {f}, !.selected = f], f)}
    ELSE IF u.selected # f
      THEN {OpenTab([u EXCEPT !.marked = @ \ {f}], f)}
    ELSE {OpenTab([u EXCEPT !.marked = @ \ {f}, !.selected = g], f) :
            g \in IF u.marked = {f} THEN {NoFile} ELSE u.marked \ {f}}

\* CloseTab changes the strip and leaves tabs_set alone.
CloseTab(u, i) ==
    LET left == IF i \in DOMAIN u.tabs THEN RemoveAt(u.tabs, i) ELSE u.tabs
    IN  [u EXCEPT !.tabs = left,
                  !.selected = IF @ # NoFile /\ Contains(left, @)
                                 THEN @ ELSE LastOf(left)]

CloseOtherTabs(u, i) ==
    IF i \in DOMAIN u.tabs
      THEN [u EXCEPT !.tabs = <<u.tabs[i]>>, !.selected = u.tabs[i]] ELSE u

CloseAllTabs(u) == [u EXCEPT !.tabs = <<>>, !.selected = NoFile]

SelectDirectory(u) == [u EXCEPT !.marked = {}, !.selected = NoFile]

\* Strip, selection and loaded path follow a rename; tabs_set and the marked
\* files do not.
Renamed(u, f, g) ==
    LET Follow(h) == IF h = f THEN g ELSE h
    IN  [u EXCEPT !.tabs = [i \in DOMAIN @ |-> Follow(@[i])],
                  !.selected = Follow(@), !.loaded = Follow(@)]

\* The commands that only change the state of the UI.
Effect(c) ==
    CASE c.kind = "Select"      -> {SelectFile(ui, c.path)}
      [] c.kind = "Toggle"      -> ToggleFile(ui, c.path)
      [] c.kind = "Directory"   -> {SelectDirectory(ui)}
      [] c.kind = "CloseTab"    -> {CloseTab(ui, c.tab)}
      [] c.kind = "CloseOthers" -> {CloseOtherTabs(ui, c.tab)}
      [] c.kind = "CloseAll"    -> {CloseAllTabs(ui)}

UiCommands == {"Select", "Toggle", "Directory", "CloseTab", "CloseOthers",
               "CloseAll"}

ApplyUiCommand ==
    /\ command.kind \in UiCommands
    /\ ui' \in Effect(command)
    /\ UNCHANGED <<disk, notices, fileBus, editor, untold>>

\* The editor reads the file itself; the viewer only notes the path.
OpenInEditor ==
    /\ command.kind = "Edit"
    /\ IF disk[command.path] = Gone
         THEN UNCHANGED <<ui, editor>>
         ELSE /\ editor' = command.path
              /\ ui' = [ui EXCEPT !.loaded = command.path,
                                  !.tabs = IF Contains(@, command.path) THEN @
                                           ELSE Append(@, command.path)]
    /\ UNCHANGED <<disk, notices, fileBus, untold>>

\* Into the trash, which is a removal or a move, as the system has it; the
\* program publishes it in either case.
Delete ==
    /\ command.kind = "Delete"
    /\ IF disk[command.path] = Gone
         THEN UNCHANGED <<disk, notices, fileBus>>
         ELSE /\ disk' = [disk EXCEPT ![command.path] = Gone]
              /\ \E kind \in {"Modify", "Remove"} :
                   notices' = notices \o Notice(kind, command.path)
              /\ fileBus' = Append(fileBus, Report("Removed", command.path))
    /\ UNCHANGED <<ui, editor, untold>>

\* ConfirmRename.  The operating system reports a modification of both names;
\* the Discovered event of the new name does not concern the viewer.
Rename ==
    /\ command.kind = "Rename"
    /\ LET f == command.path  g == command.to IN
         IF disk[f] = Gone
           THEN UNCHANGED <<disk, notices, fileBus, ui, untold>>
           ELSE /\ disk' = [disk EXCEPT ![g] = disk[f], ![f] = Gone]
                /\ notices' = notices \o (Notice("Modify", f) \o Notice("Modify", g))
                /\ fileBus' = Append(fileBus, Report("Removed", f))
                /\ untold' = untold \cup ({g} \ watched)
                /\ ui' = Renamed(ui, f, g)
    /\ UNCHANGED editor

\* drain_user_command_bus
Apply ==
    /\ phase = "commands"
    /\ \/ ApplyUiCommand \/ OpenInEditor \/ Delete \/ Rename
       \/ /\ command = Nothing
          /\ UNCHANGED <<disk, notices, fileBus, ui, editor, untold>>
    /\ command' = Nothing
    /\ phase' = "draw"
    /\ UNCHANGED <<watched, changes, publishing, channel, loads, commands>>

-----------------------------------------------------------------------------
(* A frame: the selected file is loaded and the panels are drawn. *)

\* handle_file_selection spawns a thread that reads the file.
NeedsLoad == ui.selected \notin {NoFile, ui.loaded, ui.pending}
Requested == IF NeedsLoad THEN [ui EXCEPT !.pending = ui.selected] ELSE ui
SpawnLoad ==
    loads' = IF ~NeedsLoad THEN loads ELSE loads \cup
       {[id |-> CHOOSE n \in 1..(Cardinality(loads) + 1) :
                  \A l \in loads : l.id # n,
         path |-> ui.selected, text |-> Unread]}

\* What can be clicked; a tab is named by its place in the strip.
Clicks ==
    {[kind |-> k, path |-> f] :
        k \in Commands \cap {"Select", "Toggle", "Edit", "Delete"}, f \in Files}
    \cup {[kind |-> k] : k \in Commands \cap {"Directory", "CloseAll"}}
    \cup {[kind |-> k, tab |-> i] :
            k \in Commands \cap {"CloseTab", "CloseOthers"}, i \in DOMAIN ui.tabs}
    \cup {c \in [kind : Commands \cap {"Rename"}, path : Files, to : Files] :
            c.path # c.to}

\* The editor stays as it is and the user clicks at something, or at nothing.
Draw ==
    /\ phase = "draw"
    /\ SpawnLoad
    /\ ui' = Requested
    /\ phase' = "channel"
    /\ \/ UNCHANGED <<command, commands>>
       \/ /\ commands < MaxCommands
          /\ commands' = commands + 1
          /\ command' \in Clicks
    /\ UNCHANGED <<fileVars, busVars, editor, untold>>

\* Mutant: the text behind the editor is taken for the text of its file.
ForgetNothing(u) == u

\* The viewer reloads what was behind the editor.
ForgetLoaded(u) == [u EXCEPT !.loaded = NoFile]

\* show_editor_overlay: Cancel closes the editor, Save writes the file first.
CloseEditor ==
    /\ phase = "draw" /\ editor # NoFile
    /\ \/ UNCHANGED <<fileVars, fileBus>>
       \/ /\ changes < MaxChanges
          /\ changes' = changes + 1
          /\ \E t \in Texts : disk' = [disk EXCEPT ![editor] = t]
          /\ notices' = notices \o Notice("Modify", editor)
          /\ fileBus' = Append(fileBus, Report("Updated", editor))
    /\ editor' = NoFile
    /\ SpawnLoad
    /\ ui' = ForgetLoaded(Requested)
    /\ phase' = "channel"
    /\ UNCHANGED <<watched, publishing, channel, command, untold, commands>>

-----------------------------------------------------------------------------
Frame  == \/ DrainChannel \/ ChannelDrained \/ DrainEvents \/ EventsDrained
          \/ Apply \/ Draw \/ CloseEditor
Loader == \E l \in loads : Read(l) \/ SendLoaded(l)

Next == \/ Frame \/ Loader \/ StartWatcher \/ Watch \/ WatchPublish
        \/ \E f \in Files : Change(f)
Spec == Init /\ [][Next]_vars

\* The UI keeps drawing; the loader threads run, and the watcher if it was started.
FairSpec == /\ Spec
            /\ WF_vars(DrainChannel \/ ChannelDrained \/ DrainEvents
                         \/ EventsDrained \/ Apply \/ Draw)
            /\ WF_vars(Loader) /\ WF_vars(Watch \/ WatchPublish)

-----------------------------------------------------------------------------
(* Properties. *)

Command == [kind: {"nothing", "Directory", "CloseAll"}]
             \cup [kind: {"Select", "Toggle", "Edit", "Delete"}, path: Files]
             \cup [kind: {"CloseTab", "CloseOthers"}, tab: Nat \ {0}]
             \cup [kind: {"Rename"}, path: Files, to: Files]
Reports(kinds) == [kind: kinds, path: Files]
Loaded == [kind: {"FileLoaded"}, path: Files, text: Texts \cup {Gone}]

TypeOK ==
    /\ disk \in [Files -> Texts \cup {Gone}]
    /\ notices \in Seq(Reports({"Modify", "Remove"}))
    /\ publishing \in Reports({"Updated", "Removed"}) \cup {Nothing}
    /\ channel \in Seq(Reports({"FileModified", "FileDeleted"}) \cup Loaded)
    /\ fileBus \in Seq(Reports({"Updated", "Removed"}))
    /\ loads \subseteq [id: Nat, path: Files, text: Texts \cup {Gone, Unread}]
    /\ phase \in {"channel", "events", "commands", "draw"}
    /\ command \in Command
    /\ ui \in [tabs: Seq(Files), known: SUBSET Files,
               selected: Files \cup {NoFile}, marked: SUBSET Files,
               loaded: Files \cup {NoFile}, shown: Texts \cup {Blank},
               pending: Files \cup {NoFile}]
    /\ editor \in Files \cup {NoFile}
    /\ untold \subseteq Files /\ watched \subseteq Files
    /\ changes \in Nat /\ commands \in Nat

\* Every report and every answer has been handled.
Quiet == /\ notices = <<>> /\ publishing = Nothing
         /\ channel = <<>> /\ fileBus = <<>> /\ loads = {}

\* REQ-405 and UI-044: when everything has been handled, the text of the
\* selected file is the one on disk, whatever was selected, edited, renamed or
\* changed meanwhile; unless the file changed after it was read and nothing told
\* the viewer since: it was not watched, or not yet, was moved away, or its report
\* was handled before the answer of the loader.
ViewerIsCurrent ==
    Quiet /\ editor = NoFile /\ ui.selected \notin untold
          /\ ui.selected # NoFile /\ ui.loaded = ui.selected
        => ui.shown = disk[ui.selected]

\* UI-051: no tab and no selection is left of a file that is gone.
NothingGoneIsOpen ==
    Quiet /\ phase # "draw"
        => \A f \in Files \ untold : disk[f] = Gone =>
             /\ ~Contains(ui.tabs, f)
             /\ ui.selected = f => ui.loaded # f

\* The viewer comes to show what is selected, or nothing is.
SelectionIsLoaded == []<>(ui.selected \in {NoFile, ui.loaded})
=============================================================================
