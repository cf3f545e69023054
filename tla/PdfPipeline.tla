---------------------------- MODULE PdfPipeline ----------------------------
(***************************************************************************)
(* The conversion of PDF files to Markdown, and the write block of the     *)
(* Markdown files that were generated (src/src/app/background/indexer.rs,  *)
(* background/pdf_converter.rs, workspace/watcher/file_watcher.rs,         *)
(* bus/router, agent/session/pdf_backing_tracker.rs).                      *)
(*                                                                         *)
(* A PDF is queued for conversion when its Markdown file is missing or     *)
(* older: by the first scan, by the watcher, and by a router that forwards *)
(* what the watcher publishes on the file bus until it misses an event.    *)
(* One worker looks again at the two files and runs the converter, which   *)
(* takes its time while both files change.  The UI learns from the bus     *)
(* which Markdown files have a PDF, and the agent may not write those.     *)
(*                                                                         *)
(* Times are ticks of one clock, and those of old files are before the     *)
(* start; each change makes a version of its own.  The converter ends, and *)
(* may fail, and so may the start of the watcher.                          *)
(***************************************************************************)
EXTENDS Integers, Sequences, SequencesExt, FiniteSets

CONSTANTS Docs,         \* a document is a PDF and its Markdown file
          BusCapacity,  \* BUS_CAPACITY
          MaxChanges    \* bound: changes of files

ASSUME PdfAssumption ==
    IsFiniteSet(Docs) /\ BusCapacity \in Nat \ {0} /\ MaxChanges \in Nat

VARIABLES now,      \* the time of the last change of a file
          pdf,      \* when the PDF was modified, None when there is none
          md,       \* when the Markdown file was modified, or None
          from,     \* the PDF the Markdown file was made of, None by hand
          notices,  \* changes the operating system has not reported yet
          toVisit,  \* files the scan has not come to
          batch,    \* files found and not published yet
          stage,    \* of the indexing thread
          report,   \* what the callback of the watcher is busy with
          queue,    \* PDFs for the worker
          job,      \* what the worker is doing
          uiBus, uiLagged,         \* events the UI has not drained
          routerBus, routerLagged, \* events the router has not received
          tracked,  \* pdf_backed_md
          missed,   \* history: PDFs that nothing will queue again, see Converts
          misled,   \* history: Markdown files the UI was misled about, see Tell
          changes

fileVars   == <<now, pdf, md, from, notices, changes>>
scanVars   == <<toVisit, batch, stage>>
busVars    == <<uiBus, uiLagged, routerBus, routerLagged>>
vars == <<fileVars, scanVars, report, queue, job, busVars, tracked, missed,
          misled>>

None == 0
Idle == [at |-> "idle"]
Nothing == [kind |-> "nothing"]

Init ==
    /\ now = 2
    /\ pdf \in [Docs -> {None, 2}] /\ md \in [Docs -> {None, 1}]
    /\ from = [d \in Docs |-> None]
    /\ notices = <<>>
    /\ toVisit = {"pdf", "md"} \X Docs /\ batch = {}
    /\ stage = "scan"
    /\ report = Nothing
    /\ queue = <<>> /\ job = Idle
    /\ uiBus = <<>> /\ uiLagged = FALSE
    /\ routerBus = <<>> /\ routerLagged = FALSE
    /\ tracked = {}
    /\ missed = {} /\ misled = {}
    /\ changes = 0

\* should_convert
ShouldConvert(d) == md[d] = None \/ (pdf[d] # None /\ pdf[d] > md[d])

Watched == stage \in {"watched", "routed"}
Routed  == stage \in {"routed", "alone"}

\* Mutant: nothing is dropped.
RingUnbounded(bus, e) == Append(bus, e)

Ring(bus, e) == IF Len(bus) < BusCapacity THEN Append(bus, e)
                                          ELSE Append(Tail(bus), e)

\* Every reader keeps a ring of its own; the router reads until it lags.
Publish(k, files) ==
    LET e == [kind |-> k, files |-> files] IN
    /\ uiBus' = Ring(uiBus, e)
    /\ uiLagged' = (uiLagged \/ Len(uiBus) = BusCapacity)
    /\ IF Routed
         THEN /\ routerBus' = Ring(routerBus, e)
              /\ routerLagged' = (routerLagged \/ Len(routerBus) = BusCapacity)
         ELSE UNCHANGED <<routerBus, routerLagged>>

-----------------------------------------------------------------------------
(* The first scan. *)

\* scan_libraries: files are published by directory, and PDFs queued.
Visit(file) ==
    LET d == file[2] IN
    /\ stage = "scan" /\ file \in toVisit
    /\ toVisit' = toVisit \ {file}
    /\ queue' = IF file[1] = "pdf" /\ pdf[d] # None /\ ShouldConvert(d)
                  THEN Append(queue, d) ELSE queue
    /\ \/ /\ (IF file[1] = "pdf" THEN pdf[d] ELSE md[d]) = None
          /\ UNCHANGED <<batch, busVars>>
       \/ /\ (IF file[1] = "pdf" THEN pdf[d] ELSE md[d]) # None
          /\ \/ batch' = batch \cup {file} /\ UNCHANGED busVars
             \/ /\ batch # {} /\ batch' = {file}
                /\ Publish("Discovered", batch)
    /\ UNCHANGED <<fileVars, stage, report, job, tracked, missed, misled>>

\* The scan is over and the watcher is started, or fails to start.
StartWatcher ==
    /\ stage = "scan" /\ toVisit = {}
    /\ stage' \in {"watched", "unwatched"}
    /\ batch' = {}
    /\ IF batch = {} THEN UNCHANGED busVars
                     ELSE Publish("Discovered", batch)
    /\ UNCHANGED <<fileVars, toVisit, report, queue, job, tracked, missed, misled>>

StartRouter ==
    /\ stage \in {"watched", "unwatched"}
    /\ stage' = IF stage = "watched" THEN "routed" ELSE "alone"
    /\ UNCHANGED <<fileVars, toVisit, batch, report, queue, job, busVars,
                   tracked, missed, misled>>

Scanning == (\E file \in toVisit : Visit(file)) \/ StartWatcher \/ StartRouter

-----------------------------------------------------------------------------
(* The watcher and the router. *)

\* The callback takes a change.  Removals of PDFs are not looked at, and a
\* Markdown file that is gone again is no file.
Watch ==
    /\ notices # <<>> /\ report = Nothing
    /\ notices' = Tail(notices)
    /\ report' = LET n == Head(notices) IN
         IF n.type = "pdf"
           THEN IF n.kind = "Remove" THEN Nothing ELSE n
           ELSE IF n.kind = "Modify" /\ md[n.doc] = None THEN Nothing ELSE n
    /\ UNCHANGED <<now, pdf, md, from, changes, scanVars, queue, job, busVars,
                   tracked, missed, misled>>

\* It publishes the change, and then it may queue the PDF.
WatchPublish ==
    /\ report # Nothing /\ report.kind # "queue"
    /\ Publish(IF report.kind = "Remove" THEN "Removed" ELSE "Updated",
               {<<report.type, report.doc>>})
    /\ report' = IF report.type = "pdf" THEN [report EXCEPT !.kind = "queue"]
                                        ELSE Nothing
    /\ UNCHANGED <<fileVars, scanVars, queue, job, tracked, missed, misled>>

\* Mutant: the PDF is left to the router.
WatchRouted ==
    /\ report # Nothing /\ report.kind = "queue"
    /\ report' = Nothing
    /\ UNCHANGED <<fileVars, scanVars, queue, job, busVars, tracked, missed, misled>>

WatchQueue ==
    /\ report # Nothing /\ report.kind = "queue"
    /\ report' = Nothing
    /\ queue' = IF ShouldConvert(report.doc) THEN Append(queue, report.doc)
                                             ELSE queue
    /\ UNCHANGED <<fileVars, scanVars, job, busVars, tracked, missed, misled>>

DocsOf(type, e) == {d \in Docs : <<type, d>> \in e.files}

\* The router forwards every PDF that is discovered or updated; a lag ends it.
Route ==
    /\ Routed /\ routerBus # <<>> /\ ~routerLagged
    /\ routerBus' = Tail(routerBus)
    /\ queue' = queue \o SetToSeq(DocsOf("pdf", Head(routerBus)))
    /\ UNCHANGED <<fileVars, scanVars, report, job, uiBus, uiLagged, routerLagged,
                   tracked, missed, misled>>

-----------------------------------------------------------------------------
(* The worker and the converter. *)

\* Mutant: the worker trusts the queue.
TakeUnchecked ==
    /\ job = Idle /\ queue # <<>>
    /\ queue' = Tail(queue)
    /\ job' = [at |-> "start", doc |-> Head(queue), version |-> None]
    /\ UNCHANGED <<fileVars, scanVars, report, busVars, tracked, missed, misled>>

\* spawn_path_worker takes a PDF, and looks whether it is still to convert.
Take ==
    /\ job = Idle /\ queue # <<>>
    /\ queue' = Tail(queue)
    /\ job' = IF ShouldConvert(Head(queue))
                THEN [at |-> "start", doc |-> Head(queue), version |-> None]
                ELSE Idle
    /\ UNCHANGED <<fileVars, scanVars, report, busVars, tracked, missed, misled>>

\* The converter reads the PDF, writes the Markdown file and ends; or it fails.
Read ==
    /\ job.at = "start" /\ pdf[job.doc] # None
    /\ job' = [job EXCEPT !.at = "convert", !.version = pdf[job.doc]]
    /\ missed' = missed \ {job.doc}
    /\ UNCHANGED <<fileVars, scanVars, report, queue, busVars, tracked, misled>>

Notify(k, type, d) ==
    notices' = IF Watched
                 THEN Append(notices, [kind |-> k, type |-> type, doc |-> d])
                 ELSE notices

WriteMarkdown ==
    /\ job.at = "convert"
    /\ job' = [job EXCEPT !.at = "done"]
    /\ now' = now + 1
    /\ md' = [md EXCEPT ![job.doc] = now + 1]
    /\ from' = [from EXCEPT ![job.doc] = job.version]
    /\ Notify("Modify", "md", job.doc)
    /\ UNCHANGED <<pdf, changes, scanVars, report, queue, busVars, tracked,
                   missed, misled>>

\* The converter ends well and its Markdown file is not found.
WriteNothing ==
    /\ job.at = "convert"
    /\ job' = [job EXCEPT !.at = "done"]
    /\ missed' = missed \cup {job.doc}
    /\ UNCHANGED <<fileVars, scanVars, report, queue, busVars, tracked, misled>>

Fail ==
    /\ job.at \in {"start", "convert"}
    /\ job' = Idle
    /\ missed' = missed \cup {job.doc}
    /\ UNCHANGED <<fileVars, scanVars, report, queue, busVars, tracked, misled>>

\* Mutant: nobody is told.
DoneSilently ==
    /\ job.at = "done"
    /\ job' = Idle
    /\ UNCHANGED <<fileVars, scanVars, report, queue, busVars, tracked, missed,
                   misled>>

\* The worker publishes the Markdown file.
Done ==
    /\ job.at = "done"
    /\ job' = Idle
    /\ Publish("Discovered", {<<"md", job.doc>>})
    /\ UNCHANGED <<fileVars, scanVars, report, queue, tracked, missed, misled>>

Worker == Take \/ Read \/ WriteMarkdown \/ WriteNothing \/ Fail \/ Done

-----------------------------------------------------------------------------
(* The UI and its write block. *)

\* process_discovered asks for the PDF; process_removed forgets.  History: the
\* UI is misled by an event that the files have overtaken.
Drain ==
    /\ uiBus # <<>> /\ ~uiLagged
    /\ uiBus' = Tail(uiBus)
    /\ LET e == Head(uiBus)
           texts == DocsOf("md", e) IN
         \/ /\ e.kind = "Discovered"
            /\ LET backed == {d \in texts : pdf[d] # None} IN
                 /\ tracked' = tracked \cup backed
                 /\ misled' = (misled \ backed) \cup (texts \ backed)
         \/ /\ e.kind = "Removed"
            /\ tracked' = tracked \ texts
            /\ misled' = misled \cup {d \in texts : md[d] # None}
         \/ /\ e.kind = "Updated"
            /\ UNCHANGED <<tracked, misled>>
    /\ UNCHANGED <<fileVars, scanVars, report, queue, job, uiLagged, routerBus,
                   routerLagged, missed>>

\* A lag is taken for an empty bus, and what was dropped is not asked for again.
Lag ==
    /\ uiLagged
    /\ uiLagged' = FALSE
    /\ misled' = Docs
    /\ UNCHANGED <<fileVars, scanVars, report, queue, job, uiBus, routerBus,
                   routerLagged, tracked, missed>>

-----------------------------------------------------------------------------
(* Files change. *)

\* A PDF is written, or one that is older is copied or moved there; it is
\* deleted, or moved away, which is reported as a modification.  History: a PDF
\* that changes is missed when neither the scan nor the watcher will come to it,
\* when it is older than its Markdown file, and when it is just being converted,
\* for its Markdown file will be the newer one.
ChangePdf(d) ==
    \/ \E t \in {now + 1, -now} :
         /\ pdf' = [pdf EXCEPT ![d] = t]
         /\ Notify("Modify", "pdf", d)
         /\ missed' = IF \/ ~Watched /\ <<"pdf", d>> \notin toVisit
                         \/ t < 0 /\ md[d] # None
                         \/ job.at = "convert" /\ job.doc = d
                        THEN missed \cup {d} ELSE missed
         /\ UNCHANGED <<md, from, busVars>>
    \/ /\ pdf[d] # None
       /\ pdf' = [pdf EXCEPT ![d] = None]
       /\ \E k \in {"Remove", "Modify"} : Notify(k, "pdf", d)
       /\ UNCHANGED <<md, from, missed, busVars>>

\* Other programs write and delete the Markdown file.  History: nobody looks for
\* the PDF of a Markdown file that is deleted.
ChangeMarkdown(d) ==
    /\ from' = [from EXCEPT ![d] = None]
    /\ \/ /\ md' = [md EXCEPT ![d] = now + 1]
          /\ Notify("Modify", "md", d)
          /\ UNCHANGED missed
       \/ /\ md[d] # None
          /\ md' = [md EXCEPT ![d] = None]
          /\ \E k \in {"Remove", "Modify"} : Notify(k, "md", d)
          /\ missed' = missed \cup {d}
    /\ UNCHANGED <<pdf, busVars>>

\* A tool of the agent writes a Markdown file, if it may.
AgentWrites(d) ==
    /\ d \notin tracked
    /\ md' = [md EXCEPT ![d] = now + 1]
    /\ from' = [from EXCEPT ![d] = None]
    /\ Notify("Modify", "md", d)
    /\ Publish("Updated", {<<"md", d>>})
    /\ UNCHANGED <<pdf, missed>>

Change ==
    /\ changes < MaxChanges
    /\ changes' = changes + 1
    /\ now' = now + 1
    /\ \E d \in Docs : ChangePdf(d) \/ ChangeMarkdown(d) \/ AgentWrites(d)
    /\ UNCHANGED <<scanVars, report, queue, job, tracked, misled>>

-----------------------------------------------------------------------------
Watching == Watch \/ WatchPublish \/ WatchQueue
Ui       == Drain \/ Lag

Next == Scanning \/ Watching \/ Route \/ Worker \/ Ui \/ Change
Spec == Init /\ [][Next]_vars

\* All threads run, and the converter ends.
Fairness == /\ WF_vars(Scanning) /\ WF_vars(Watching) /\ WF_vars(Worker)
            /\ WF_vars(Route) /\ WF_vars(Ui)
FairSpec == Spec /\ Fairness

-----------------------------------------------------------------------------
(* Properties. *)

Files == {"pdf", "md"} \X Docs
Event == [kind: {"Discovered", "Updated", "Removed"}, files: SUBSET Files]

TypeOK ==
    /\ now \in Nat
    /\ pdf \in [Docs -> Int] /\ md \in [Docs -> Nat] /\ from \in [Docs -> Int]
    /\ notices \in Seq([kind: {"Modify", "Remove"}, type: {"pdf", "md"}, doc: Docs])
    /\ toVisit \subseteq Files /\ batch \subseteq Files
    /\ stage \in {"scan", "watched", "unwatched", "routed", "alone"}
    /\ report = Nothing \/ report \in
         [kind: {"Modify", "Remove", "queue"}, type: {"pdf", "md"}, doc: Docs]
    /\ queue \in Seq(Docs)
    /\ job = Idle \/ job \in [at: {"start", "convert", "done"}, doc: Docs,
                              version: Int]
    /\ uiBus \in Seq(Event) /\ Len(uiBus) <= BusCapacity
    /\ routerBus \in Seq(Event) /\ Len(routerBus) <= BusCapacity
    /\ uiLagged \in BOOLEAN /\ routerLagged \in BOOLEAN
    /\ tracked \subseteq Docs /\ missed \subseteq Docs /\ misled \subseteq Docs
    /\ changes \in Nat

\* Every PDF that was reported has been handled; what a dead router keeps is lost.
Quiet == /\ Routed /\ notices = <<>> /\ report = Nothing
         /\ queue = <<>> /\ job = Idle
         /\ uiBus = <<>> /\ ~uiLagged
         /\ (routerBus = <<>> \/ routerLagged)

\* A PDF that is queued several times is converted once.
ConvertedOnce ==
    job.at = "convert" =>
        ~(from[job.doc] = job.version /\ md[job.doc] > job.version)

\* A Markdown file generated from a PDF is write protected in the end.
GeneratedIsProtected ==
    Quiet => \A d \in Docs \ misled :
               md[d] # None /\ from[d] # None /\ pdf[d] # None => d \in tracked

\* REQ-454: the queue is worked off, and a PDF has a newer Markdown file in the
\* end, whichever of the scan, the watcher and the router queued it, and also when
\* the router has died or the watcher did not start; and one that was generated is
\* that of the PDF as it is; but for the PDFs that were missed.
PdfIsConverted ==
    <>[](/\ queue = <<>> /\ job = Idle
         /\ \A d \in Docs \ missed : pdf[d] # None =>
              md[d] > pdf[d] /\ from[d] \in {None, pdf[d]})
=============================================================================
