------------------------- MODULE PdfPipeline_proofs -------------------------
(***************************************************************************)
(* Proofs about PdfPipeline for every finite set of documents, every ring  *)
(* and every number of changes: however often the scan, the watcher and    *)
(* the router queue a PDF, it is converted once; and the UI is told of     *)
(* every Markdown file that is generated, or knows that it missed it.      *)
(***************************************************************************)
EXTENDS PdfPipeline, FiniteSetTheorems, SequenceTheorems, TLAPS

-----------------------------------------------------------------------------
(* The inductive invariant. *)

\* No file is of a time to come, or as old as one that is still to come; and a
\* Markdown file that does not exist was not generated.
InTime(p, m, f, t) == /\ -t < p /\ p <= t /\ -t < f /\ f <= t /\ m <= t
                      /\ m = None => f = None
Timely == \A d \in Docs : InTime(pdf[d], md[d], from[d], now)

\* The Markdown file of document d was generated from version v of its PDF.
Made(d, v) == v # None /\ from[d] = v /\ md[d] > v

\* What the worker has taken is to convert still when the converter starts, and
\* it is still to convert while the converter runs.
Due ==
    /\ job.at = "start" => ~Made(job.doc, pdf[job.doc])
    /\ job.at = "convert" => /\ job.version # None /\ -now < job.version
                             /\ job.version <= now /\ ~Made(job.doc, job.version)

Inv == TypeOK /\ Timely /\ Due

Notice == [kind: {"Modify", "Remove"}, type: {"pdf", "md"}, doc: Docs]
Report == [kind: {"Modify", "Remove", "queue"}, type: {"pdf", "md"}, doc: Docs]
Job    == [at: {"start", "convert", "done"}, doc: Docs, version: Int]

-----------------------------------------------------------------------------
(* The parts of TypeOK. *)

FileTypes == /\ now \in Nat /\ changes \in Nat
             /\ pdf \in [Docs -> Int] /\ md \in [Docs -> Nat]
             /\ from \in [Docs -> Int]
NoticeTypes == notices \in Seq(Notice)
ScanTypes == /\ toVisit \subseteq Files /\ batch \subseteq Files
             /\ stage \in {"scan", "watched", "unwatched", "routed", "alone"}
ReportTypes == report = Nothing \/ report \in Report
QueueTypes == queue \in Seq(Docs)
JobTypes   == job = Idle \/ job \in Job
BusTypes   == /\ uiBus \in Seq(Event) /\ Len(uiBus) <= BusCapacity
              /\ routerBus \in Seq(Event) /\ Len(routerBus) <= BusCapacity
              /\ uiLagged \in BOOLEAN /\ routerLagged \in BOOLEAN
KnownTypes == tracked \subseteq Docs /\ missed \subseteq Docs /\ misled \subseteq Docs

LEMMA TypeParts ==
    TypeOK <=> /\ FileTypes /\ NoticeTypes /\ ScanTypes /\ ReportTypes
               /\ QueueTypes /\ JobTypes /\ BusTypes /\ KnownTypes
BY DEF TypeOK, FileTypes, NoticeTypes, ScanTypes, ReportTypes, QueueTypes,
       JobTypes, BusTypes, KnownTypes, Notice, Report, Job

LEMMA RingTypes ==
    ASSUME NEW bus \in Seq(Event), Len(bus) <= BusCapacity, NEW e \in Event
    PROVE  Ring(bus, e) \in Seq(Event) /\ Len(Ring(bus, e)) <= BusCapacity
<1>1. Len(bus) \in Nat /\ BusCapacity \in Nat /\ BusCapacity # 0
  BY LenProperties, PdfAssumption
<1>2. CASE Len(bus) < BusCapacity
  <2>1. Append(bus, e) \in Seq(Event) /\ Len(Append(bus, e)) = Len(bus) + 1
    BY AppendProperties
  <2> QED BY <1>1, <1>2, <2>1 DEF Ring
<1>3. CASE ~(Len(bus) < BusCapacity)
  <2> DEFINE t == Tail(bus)
  <2>1. bus # <<>>
    BY <1>1, <1>3, EmptySeq
  <2>2. t \in Seq(Event) /\ Len(t) = Len(bus) - 1
    BY <2>1, HeadTailProperties
  <2>3. Ring(bus, e) = Append(t, e)
    BY <1>3 DEF Ring
  <2> HIDE DEF t
  <2>4. Append(t, e) \in Seq(Event) /\ Len(Append(t, e)) = Len(t) + 1
    BY <2>2, AppendProperties
  <2> QED BY <1>1, <2>2, <2>3, <2>4
<1> QED BY <1>2, <1>3

LEMMA PublishTypes ==
    ASSUME BusTypes, NEW k \in {"Discovered", "Updated", "Removed"},
           NEW files \in SUBSET Files, Publish(k, files)
    PROVE  BusTypes'
<1> DEFINE e == [kind |-> k, files |-> files]
<1>1. e \in Event
  BY DEF Event
<1>2. /\ uiBus' = Ring(uiBus, e)
      /\ uiLagged' = (uiLagged \/ Len(uiBus) = BusCapacity)
      /\ \/ /\ routerBus' = Ring(routerBus, e)
            /\ routerLagged' = (routerLagged \/ Len(routerBus) = BusCapacity)
         \/ UNCHANGED <<routerBus, routerLagged>>
  BY DEF Publish
<1> HIDE DEF e
<1>3. uiBus' \in Seq(Event) /\ Len(uiBus') <= BusCapacity
  BY <1>1, <1>2, RingTypes DEF BusTypes
<1>4. routerBus' \in Seq(Event) /\ Len(routerBus') <= BusCapacity
  BY <1>1, <1>2, RingTypes DEF BusTypes
<1>5. uiLagged' \in BOOLEAN /\ routerLagged' \in BOOLEAN
  BY <1>2 DEF BusTypes
<1> QED BY <1>3, <1>4, <1>5 DEF BusTypes

LEMMA BusKept == ASSUME BusTypes, UNCHANGED busVars PROVE BusTypes'
BY DEF BusTypes, busVars

\* The router queues the documents of an event, in some order.
LEMMA ListedDocs ==
    ASSUME NEW S \in SUBSET Docs
    PROVE  SetToSeq(S) \in Seq(Docs)
<1>1. IsFiniteSet(S)
  BY FS_Subset, PdfAssumption
<1>2. Cardinality(S) \in Nat /\ ExistsBijection(1..Cardinality(S), S)
  BY <1>1, FS_CardinalityType
<1>3. \E f \in [1..Cardinality(S) -> S] : IsInjective(f)
  BY <1>2 DEF ExistsBijection, Bijection, Injection
<1>4. SetToSeq(S) \in [1..Cardinality(S) -> S]
  BY <1>3 DEF SetToSeq
<1>5. SetToSeq(S) \in Seq(S)
  BY <1>2, <1>4, IsASeq
<1>6. \A i \in 1..Len(SetToSeq(S)) : SetToSeq(S)[i] \in S
  BY <1>5, ElementOfSeq
<1> QED BY <1>5, SeqMonotonic

-----------------------------------------------------------------------------
(* The steps that leave the files, and what the converter has, as they are. *)

LEMMA FilesKept ==
    ASSUME Inv, UNCHANGED <<now, pdf, md, from>>, job' = job \/ job'.at \in {"idle", "done"}
    PROVE  Timely' /\ Due'
<1>1. Timely'
  BY DEF Inv, Timely
<1>2. CASE job' = job
  <2>1. Due'
    BY <1>2 DEF Inv, Due, Made
  <2> QED BY <1>1, <2>1
<1>3. CASE job'.at \in {"idle", "done"}
  <2>1. Due'
    BY <1>3 DEF Due
  <2> QED BY <1>1, <2>1
<1> QED BY <1>2, <1>3

LEMMA ScanningKeeps == ASSUME Inv, Scanning PROVE Inv'
<1>1. /\ FileTypes /\ NoticeTypes /\ ScanTypes /\ ReportTypes
      /\ QueueTypes /\ JobTypes /\ BusTypes /\ KnownTypes
  BY TypeParts DEF Inv
<1>2. UNCHANGED <<fileVars, report, job, tracked, missed, misled>>
  BY DEF Scanning, Visit, StartWatcher, StartRouter
<1>3. Timely' /\ Due'
  BY <1>2, FilesKept DEF fileVars
<1>4. FileTypes' /\ NoticeTypes' /\ ReportTypes' /\ JobTypes' /\ KnownTypes'
  BY <1>1, <1>2 DEF FileTypes, NoticeTypes, ReportTypes, JobTypes, KnownTypes, fileVars
<1>5. ASSUME NEW file \in toVisit, Visit(file)
      PROVE  ScanTypes' /\ QueueTypes' /\ BusTypes'
  <2>1. file \in Files /\ file[2] \in Docs
    BY <1>1 DEF ScanTypes, Files
  <2>2. queue' = queue \/ queue' = Append(queue, file[2])
    BY <1>5 DEF Visit
  <2>3. QueueTypes'
    BY <1>1, <2>1, <2>2, AppendProperties DEF QueueTypes
  <2>4. BusTypes'
    <3>1. UNCHANGED busVars \/ Publish("Discovered", batch)
      BY <1>5 DEF Visit
    <3> QED BY <1>1, <3>1, PublishTypes, BusKept DEF ScanTypes
  <2>5. ScanTypes'
    BY <1>1, <1>5, <2>1 DEF Visit, ScanTypes
  <2> QED BY <2>3, <2>4, <2>5
<1>6. ASSUME StartWatcher PROVE ScanTypes' /\ QueueTypes' /\ BusTypes'
  <2>1. ScanTypes' /\ QueueTypes'
    BY <1>1, <1>6 DEF StartWatcher, ScanTypes, QueueTypes
  <2>2. UNCHANGED busVars \/ Publish("Discovered", batch)
    BY <1>6 DEF StartWatcher
  <2>3. BusTypes'
    BY <1>1, <2>2, PublishTypes, BusKept DEF ScanTypes
  <2> QED BY <2>1, <2>3
<1>7. ASSUME StartRouter PROVE ScanTypes' /\ QueueTypes' /\ BusTypes'
  BY <1>1, <1>7, BusKept DEF StartRouter, ScanTypes, QueueTypes
<1>8. ScanTypes' /\ QueueTypes' /\ BusTypes'
  BY <1>5, <1>6, <1>7 DEF Scanning
<1>9. TypeOK'
  BY <1>4, <1>8, TypeParts, PTL
<1> QED BY <1>3, <1>9 DEF Inv

LEMMA WatchingKeeps == ASSUME Inv, Watching PROVE Inv'
<1>1. /\ FileTypes /\ NoticeTypes /\ ScanTypes /\ ReportTypes
      /\ QueueTypes /\ JobTypes /\ BusTypes /\ KnownTypes
  BY TypeParts DEF Inv
<1>2. /\ UNCHANGED <<now, pdf, md, from, changes, scanVars, job, tracked, missed, misled>>
  BY DEF Watching, Watch, WatchPublish, WatchQueue, fileVars
<1>3. Timely' /\ Due'
  BY <1>2, FilesKept
<1>4. FileTypes' /\ ScanTypes' /\ JobTypes' /\ KnownTypes'
  BY <1>1, <1>2 DEF FileTypes, ScanTypes, JobTypes, KnownTypes, scanVars
<1>5. ASSUME Watch PROVE NoticeTypes' /\ ReportTypes' /\ QueueTypes' /\ BusTypes'
  <2>1. notices # <<>> /\ notices' = Tail(notices) /\ notices \in Seq(Notice)
    BY <1>1, <1>5 DEF Watch, NoticeTypes
  <2>2. Head(notices) \in Notice /\ NoticeTypes'
    BY <2>1, HeadTailProperties DEF NoticeTypes
  <2>3. report' = Nothing \/ report' = Head(notices)
    BY <1>5 DEF Watch
  <2>4. ReportTypes'
    BY <2>2, <2>3 DEF ReportTypes, Notice, Report
  <2>5. QueueTypes' /\ BusTypes'
    BY <1>1, <1>5, BusKept DEF Watch, QueueTypes
  <2> QED BY <2>2, <2>4, <2>5
<1>6. ASSUME WatchPublish PROVE NoticeTypes' /\ ReportTypes' /\ QueueTypes' /\ BusTypes'
  <2>1. report \in Report
    BY <1>1, <1>6 DEF WatchPublish, ReportTypes
  <2>2. {<<report.type, report.doc>>} \in SUBSET Files
    BY <2>1 DEF Report, Files
  <2>3. \E k \in {"Removed", "Updated"} : Publish(k, {<<report.type, report.doc>>})
    BY <1>6 DEF WatchPublish
  <2>4. BusTypes'
    BY <1>1, <2>2, <2>3, PublishTypes
  <2>5. report' = Nothing \/ report' = [report EXCEPT !.kind = "queue"]
    BY <1>6 DEF WatchPublish
  <2>6. ReportTypes'
    BY <2>1, <2>5 DEF ReportTypes, Report
  <2>7. NoticeTypes' /\ QueueTypes'
    BY <1>1, <1>6 DEF WatchPublish, NoticeTypes, QueueTypes, fileVars
  <2> QED BY <2>4, <2>6, <2>7
<1>7. ASSUME WatchQueue PROVE NoticeTypes' /\ ReportTypes' /\ QueueTypes' /\ BusTypes'
  <2>1. report.doc \in Docs
    BY <1>1, <1>7 DEF WatchQueue, ReportTypes, Report
  <2>2. queue' = queue \/ queue' = Append(queue, report.doc)
    BY <1>7 DEF WatchQueue
  <2>3. QueueTypes'
    BY <1>1, <2>1, <2>2, AppendProperties DEF QueueTypes
  <2>4. NoticeTypes' /\ ReportTypes' /\ BusTypes'
    BY <1>1, <1>7, BusKept DEF WatchQueue, NoticeTypes, ReportTypes, fileVars
  <2> QED BY <2>3, <2>4
<1>8. NoticeTypes' /\ ReportTypes' /\ QueueTypes' /\ BusTypes'
  BY <1>5, <1>6, <1>7 DEF Watching
<1>9. TypeOK'
  BY <1>4, <1>8, TypeParts, PTL
<1> QED BY <1>3, <1>9 DEF Inv

LEMMA RouteKeeps == ASSUME Inv, Route PROVE Inv'
<1>1. /\ FileTypes /\ NoticeTypes /\ ScanTypes /\ ReportTypes
      /\ QueueTypes /\ JobTypes /\ BusTypes /\ KnownTypes
  BY TypeParts DEF Inv
<1>2. /\ UNCHANGED <<fileVars, scanVars, report, job, uiBus, uiLagged, routerLagged,
                     tracked, missed, misled>>
      /\ routerBus # <<>> /\ routerBus' = Tail(routerBus)
      /\ queue' = queue \o SetToSeq(DocsOf("pdf", Head(routerBus)))
  BY DEF Route
<1>3. Timely' /\ Due'
  BY <1>2, FilesKept DEF fileVars
<1>4. FileTypes' /\ NoticeTypes' /\ ScanTypes' /\ ReportTypes' /\ JobTypes' /\ KnownTypes'
  BY <1>1, <1>2 DEF FileTypes, NoticeTypes, ScanTypes, ReportTypes, JobTypes, KnownTypes,
                    fileVars, scanVars
<1> DEFINE more == SetToSeq(DocsOf("pdf", Head(routerBus)))
<1>5. more \in Seq(Docs)
  BY ListedDocs DEF DocsOf
<1>6. QueueTypes'
  <2>1. queue' = queue \o more
    BY <1>2
  <2> HIDE DEF more
  <2> QED BY <1>1, <1>5, <2>1, ConcatProperties DEF QueueTypes
<1>7. BusTypes'
  <2>1. routerBus \in Seq(Event) /\ Len(routerBus) <= BusCapacity /\ Len(routerBus) \in Nat
        /\ BusCapacity \in Nat
    BY <1>1, LenProperties, PdfAssumption DEF BusTypes
  <2>2. routerBus' \in Seq(Event) /\ Len(routerBus') = Len(routerBus) - 1
    BY <1>2, <2>1, HeadTailProperties
  <2>3. Len(routerBus') <= BusCapacity
    BY <2>1, <2>2
  <2> QED BY <1>1, <1>2, <2>2, <2>3 DEF BusTypes
<1>8. TypeOK'
  BY <1>4, <1>6, <1>7, TypeParts, PTL
<1> QED BY <1>3, <1>8 DEF Inv

LEMMA UiKeeps == ASSUME Inv, Ui PROVE Inv'
<1>1. /\ FileTypes /\ NoticeTypes /\ ScanTypes /\ ReportTypes
      /\ QueueTypes /\ JobTypes /\ BusTypes /\ KnownTypes
  BY TypeParts DEF Inv
<1>2. /\ UNCHANGED <<fileVars, scanVars, report, queue, job, routerBus, routerLagged, missed>>
      /\ \/ uiBus # <<>> /\ uiBus' = Tail(uiBus) /\ UNCHANGED uiLagged
         \/ UNCHANGED uiBus /\ uiLagged' = FALSE
  BY DEF Ui, Drain, Lag
<1>3. Timely' /\ Due'
  BY <1>2, FilesKept DEF fileVars
<1>4. /\ FileTypes' /\ NoticeTypes' /\ ScanTypes' /\ ReportTypes' /\ QueueTypes' /\ JobTypes'
  BY <1>1, <1>2 DEF FileTypes, NoticeTypes, ScanTypes, ReportTypes, QueueTypes, JobTypes,
                    fileVars, scanVars
<1>5. BusTypes'
  <2>1. uiBus \in Seq(Event) /\ Len(uiBus) <= BusCapacity /\ Len(uiBus) \in Nat
        /\ BusCapacity \in Nat
    BY <1>1, LenProperties, PdfAssumption DEF BusTypes
  <2>2. uiBus # <<>> => Tail(uiBus) \in Seq(Event) /\ Len(Tail(uiBus)) = Len(uiBus) - 1
    BY <2>1, HeadTailProperties
  <2>3. uiBus' \in Seq(Event) /\ Len(uiBus') <= BusCapacity
    BY <1>2, <2>1, <2>2
  <2> QED BY <1>1, <1>2, <2>3 DEF BusTypes
<1>6. KnownTypes'
  <2>1. CASE Drain
    <3> DEFINE texts == DocsOf("md", Head(uiBus))
               backed == {d \in texts : pdf[d] # None}
    <3>1. texts \subseteq Docs /\ backed \subseteq texts
      BY DEF DocsOf
    <3>2. /\ tracked' \in {tracked, tracked \cup backed, tracked \ texts}
          /\ misled' \in {misled, (misled \ backed) \cup (texts \ backed),
                          misled \cup {d \in texts : md[d] # None}}
          /\ missed' = missed
      BY <2>1 DEF Drain
    <3> HIDE DEF texts, backed
    <3> QED BY <1>1, <3>1, <3>2 DEF KnownTypes
  <2>2. CASE Lag
    BY <1>1, <2>2 DEF Lag, KnownTypes
  <2> QED BY <2>1, <2>2 DEF Ui
<1>7. TypeOK'
  BY <1>4, <1>5, <1>6, TypeParts, PTL
<1> QED BY <1>3, <1>7 DEF Inv

-----------------------------------------------------------------------------
(* The worker. *)

\* What a step of the worker does not touch.
LEMMA WorkerTypes ==
    ASSUME Inv, Worker, FileTypes', NoticeTypes', QueueTypes', JobTypes', BusTypes'
    PROVE  TypeOK'
<1>1. ScanTypes /\ ReportTypes /\ KnownTypes /\ JobTypes
  BY TypeParts DEF Inv
<1>2. UNCHANGED <<scanVars, report, tracked, misled>>
  BY DEF Worker, Take, Read, WriteMarkdown, WriteNothing, Fail, Done
<1>3. missed' \subseteq missed \/ (job \in Job /\ missed' = missed \cup {job.doc})
  BY <1>1 DEF Worker, Take, Read, WriteMarkdown, WriteNothing, Fail, Done, JobTypes, Idle
<1>4. ScanTypes' /\ ReportTypes' /\ KnownTypes'
  BY <1>1, <1>2, <1>3 DEF ScanTypes, ReportTypes, KnownTypes, scanVars, Job
<1> QED BY <1>4, TypeParts, PTL

LEMMA TakeKeeps == ASSUME Inv, Take PROVE Inv'
<1>1. /\ FileTypes /\ NoticeTypes /\ ScanTypes /\ ReportTypes
      /\ QueueTypes /\ JobTypes /\ BusTypes /\ KnownTypes
  BY TypeParts DEF Inv
<1>2. queue # <<>> /\ queue' = Tail(queue) /\ UNCHANGED <<fileVars, busVars>>
  BY DEF Take
<1>3. Head(queue) \in Docs /\ QueueTypes'
  BY <1>1, <1>2, HeadTailProperties DEF QueueTypes
<1> PICK d \in Docs : d = Head(queue)
  BY <1>3
<1>4. \/ job' = Idle
      \/ ShouldConvert(d) /\ job' = [at |-> "start", doc |-> d, version |-> None]
  BY DEF Take
<1>5. FileTypes' /\ NoticeTypes' /\ BusTypes'
  BY <1>1, <1>2, BusKept DEF FileTypes, NoticeTypes, fileVars
<1>6. JobTypes'
  BY <1>4 DEF JobTypes, Job, None
<1>7. TypeOK'
  BY <1>3, <1>5, <1>6, WorkerTypes DEF Worker
<1>8. Timely'
  BY <1>2 DEF Inv, Timely, fileVars
<1>9. CASE job' = Idle
  BY <1>7, <1>8, <1>9 DEF Inv, Due, Idle
<1>10. CASE ShouldConvert(d) /\ job' = [at |-> "start", doc |-> d, version |-> None]
  <2>1. pdf[d] \in Int /\ md[d] \in Nat /\ (md[d] = None => from[d] = None)
    BY <1>1 DEF FileTypes, Inv, Timely, InTime
  <2>2. ~Made(d, pdf[d])
    BY <1>10, <2>1 DEF ShouldConvert, Made, None
  <2>3. ~(pdf'[d] # None /\ from'[d] = pdf'[d] /\ md'[d] > pdf'[d])
    BY <1>2, <2>2 DEF Made, fileVars
  <2>4. job'.at = "start" /\ job'.doc = d
    BY <1>10
  <2>5. Due'
    BY <2>3, <2>4 DEF Due, Made
  <2> QED BY <1>7, <1>8, <2>5 DEF Inv
<1> QED BY <1>4, <1>9, <1>10

LEMMA ReadKeeps == ASSUME Inv, Read PROVE Inv'
<1>1. /\ FileTypes /\ NoticeTypes /\ ScanTypes /\ ReportTypes
      /\ QueueTypes /\ JobTypes /\ BusTypes /\ KnownTypes
  BY TypeParts DEF Inv
<1>2. job.at = "start" /\ job \in Job
  BY <1>1 DEF Read, JobTypes, Idle
<1> PICK d \in Docs : d = job.doc
  BY <1>2 DEF Job
<1>3. /\ pdf[d] # None /\ job' = [job EXCEPT !.at = "convert", !.version = pdf[d]]
      /\ UNCHANGED <<fileVars, queue, busVars>>
  BY DEF Read
<1>4. pdf[d] \in Int /\ -now < pdf[d] /\ pdf[d] <= now
  BY <1>1 DEF FileTypes, Inv, Timely, InTime
<1>5. job' \in Job /\ job'.at = "convert" /\ job'.doc = d /\ job'.version = pdf[d]
  BY <1>2, <1>3, <1>4 DEF Job
<1>6. FileTypes' /\ NoticeTypes' /\ QueueTypes' /\ JobTypes' /\ BusTypes'
  BY <1>1, <1>3, <1>5, BusKept DEF FileTypes, NoticeTypes, QueueTypes, JobTypes, fileVars
<1>7. TypeOK'
  BY <1>6, WorkerTypes DEF Worker
<1>8. Timely'
  BY <1>3 DEF Inv, Timely, fileVars
<1>9. ~Made(d, pdf[d])
  BY <1>2 DEF Inv, Due
<1>10. ~(pdf[d] # None /\ from'[d] = pdf[d] /\ md'[d] > pdf[d])
  BY <1>3, <1>9 DEF Made, fileVars
<1>11. now' = now
  BY <1>3 DEF fileVars
<1>12. Due'
  BY <1>3, <1>4, <1>5, <1>10, <1>11 DEF Due, Made
<1> QED BY <1>7, <1>8, <1>12 DEF Inv

LEMMA NotifyTypes ==
    ASSUME NoticeTypes, NEW k \in {"Modify", "Remove"}, NEW type \in {"pdf", "md"},
           NEW d \in Docs, Notify(k, type, d)
    PROVE  NoticeTypes'
<1> DEFINE n == [kind |-> k, type |-> type, doc |-> d]
<1>1. n \in Notice
  BY DEF Notice
<1>2. notices' = notices \/ notices' = Append(notices, n)
  BY DEF Notify
<1> HIDE DEF n
<1> QED BY <1>1, <1>2, AppendProperties DEF NoticeTypes

LEMMA WriteMarkdownKeeps == ASSUME Inv, WriteMarkdown PROVE Inv'
<1>1. /\ FileTypes /\ NoticeTypes /\ ScanTypes /\ ReportTypes
      /\ QueueTypes /\ JobTypes /\ BusTypes /\ KnownTypes
  BY TypeParts DEF Inv
<1>2. job.at = "convert" /\ job \in Job
  BY <1>1 DEF WriteMarkdown, JobTypes, Idle
<1> PICK d \in Docs : d = job.doc
  BY <1>2 DEF Job
<1>3. /\ job' = [job EXCEPT !.at = "done"] /\ now' = now + 1
      /\ md' = [md EXCEPT ![d] = now + 1] /\ from' = [from EXCEPT ![d] = job.version]
      /\ Notify("Modify", "md", d)
      /\ UNCHANGED <<pdf, changes, queue, busVars>>
  BY DEF WriteMarkdown
<1>4. job.version \in Int /\ -now < job.version /\ job.version <= now /\ now \in Nat
  BY <1>1, <1>2 DEF Job, Inv, Due, FileTypes
<1>5. FileTypes'
  BY <1>1, <1>3, <1>4 DEF FileTypes
<1>6. Timely'
  <2> SUFFICES ASSUME NEW e \in Docs
               PROVE  InTime(pdf'[e], md'[e], from'[e], now')
    BY DEF Timely
  <2>1. /\ pdf[e] \in Int /\ md[e] \in Nat /\ from[e] \in Int
        /\ InTime(pdf[e], md[e], from[e], now)
    BY <1>1 DEF FileTypes, Inv, Timely
  <2>2. \/ md'[e] = md[e] /\ from'[e] = from[e]
        \/ md'[e] = now + 1 /\ from'[e] = job.version
    BY <1>1, <1>3 DEF FileTypes
  <2> QED BY <1>3, <1>4, <2>1, <2>2 DEF InTime, None
<1>7. job' \in Job /\ job'.at = "done"
  BY <1>2, <1>3 DEF Job
<1>8. NoticeTypes' /\ QueueTypes' /\ JobTypes' /\ BusTypes'
  BY <1>1, <1>3, <1>7, NotifyTypes, BusKept DEF QueueTypes, JobTypes
<1>9. TypeOK'
  BY <1>5, <1>8, WorkerTypes DEF Worker
<1>10. Due'
  BY <1>7 DEF Due
<1> QED BY <1>6, <1>9, <1>10 DEF Inv

LEMMA EndsKeep == ASSUME Inv, WriteNothing \/ Fail \/ Done PROVE Inv'
<1>1. /\ FileTypes /\ NoticeTypes /\ ScanTypes /\ ReportTypes
      /\ QueueTypes /\ JobTypes /\ BusTypes /\ KnownTypes
  BY TypeParts DEF Inv
<1>2. job \in Job /\ UNCHANGED <<fileVars, queue>>
  BY <1>1 DEF WriteNothing, Fail, Done, JobTypes, Idle
<1>3. job' = Idle \/ job' = [job EXCEPT !.at = "done"]
  BY DEF WriteNothing, Fail, Done
<1>4. JobTypes' /\ job'.at \in {"idle", "done"}
  BY <1>2, <1>3 DEF JobTypes, Job, Idle
<1>5. BusTypes'
  <2>1. CASE Done
    <3>1. {<<"md", job.doc>>} \in SUBSET Files
      BY <1>2 DEF Job, Files
    <3>2. Publish("Discovered", {<<"md", job.doc>>})
      BY <2>1 DEF Done
    <3> QED BY <1>1, <3>1, <3>2, PublishTypes
  <2>2. CASE WriteNothing \/ Fail
    BY <1>1, <2>2, BusKept DEF WriteNothing, Fail
  <2> QED BY <2>1, <2>2
<1>6. FileTypes' /\ NoticeTypes' /\ QueueTypes'
  BY <1>1, <1>2 DEF FileTypes, NoticeTypes, QueueTypes, fileVars
<1>7. TypeOK'
  BY <1>4, <1>5, <1>6, WorkerTypes DEF Worker
<1>8. Timely' /\ Due'
  BY <1>2, <1>4, FilesKept DEF fileVars
<1> QED BY <1>7, <1>8 DEF Inv

-----------------------------------------------------------------------------
(* Changes of the files. *)

\* Every change is of a new time, and of the PDF of a document or of its
\* Markdown file; the latter is then not the one that was generated.
LEMMA ChangeKeepsTimes ==
    ASSUME Inv, FileTypes', NEW d \in Docs, now' = now + 1, UNCHANGED job,
           \/ /\ UNCHANGED <<md, from>>
              /\ \E t \in {None, now + 1, -now} : pdf' = [pdf EXCEPT ![d] = t]
           \/ /\ UNCHANGED pdf /\ from' = [from EXCEPT ![d] = None]
              /\ \E t \in {None, now + 1} : md' = [md EXCEPT ![d] = t]
    PROVE  Timely' /\ Due'
<1>1. FileTypes /\ JobTypes
  BY TypeParts DEF Inv
<1>2. now \in Nat
  BY <1>1 DEF FileTypes
<1>3. \A e \in Docs :
        /\ pdf[e] \in Int /\ md[e] \in Nat /\ from[e] \in Int
        /\ InTime(pdf[e], md[e], from[e], now)
  BY <1>1 DEF FileTypes, Inv, Timely
<1>4. \A e \in Docs :
        \/ UNCHANGED <<md, from>> /\ pdf'[e] \in {pdf[e], None, now + 1, -now}
        \/ /\ UNCHANGED pdf
           /\ \/ from'[e] = from[e] /\ md'[e] = md[e]
              \/ from'[e] = None /\ md'[e] \in {None, now + 1}
  BY <1>1 DEF FileTypes
<1>5. Timely'
  <2> SUFFICES ASSUME NEW e \in Docs
               PROVE  InTime(pdf'[e], md'[e], from'[e], now')
    BY DEF Timely
  <2> QED BY <1>2, <1>3, <1>4 DEF InTime, None
<1>6. CASE job.at = "start" \/ job.at = "convert"
  <2>1. job \in Job
    BY <1>1, <1>6 DEF JobTypes, Idle
  <2> PICK e \in Docs : e = job.doc
    BY <2>1 DEF Job
  <2>2. job.at = "start" => ~Made(e, pdf[e])
    BY DEF Inv, Due
  <2>3. job.at = "convert" => /\ job.version # None /\ -now < job.version
                              /\ job.version <= now /\ ~Made(e, job.version)
    BY DEF Inv, Due
  <2>4. job.at = "start" => ~(pdf'[e] # None /\ from'[e] = pdf'[e] /\ md'[e] > pdf'[e])
    BY <1>2, <1>3, <1>4, <2>2 DEF Made, InTime, None
  <2>5. job.at = "convert" => ~(from'[e] = job.version /\ md'[e] > job.version)
    BY <1>4, <2>3 DEF Made
  <2>6. job.at = "convert" => -now' < job.version /\ job.version <= now'
    BY <1>2, <2>1, <2>3 DEF Job
  <2>7. Due'
    BY <2>3, <2>4, <2>5, <2>6 DEF Due, Made
  <2> QED BY <1>5, <2>7
<1>7. CASE ~(job.at = "start" \/ job.at = "convert")
  BY <1>5, <1>7 DEF Due
<1> QED BY <1>6, <1>7

LEMMA ChangeKeeps == ASSUME Inv, Change PROVE Inv'
<1>1. /\ FileTypes /\ NoticeTypes /\ ScanTypes /\ ReportTypes
      /\ QueueTypes /\ JobTypes /\ BusTypes /\ KnownTypes
  BY TypeParts DEF Inv
<1>2. /\ changes' = changes + 1 /\ now' = now + 1
      /\ UNCHANGED <<scanVars, report, queue, job, tracked, misled>>
  BY DEF Change
<1> PICK d \in Docs : ChangePdf(d) \/ ChangeMarkdown(d) \/ AgentWrites(d)
  BY DEF Change
<1>3. \/ /\ UNCHANGED <<md, from>>
         /\ \E t \in {None, now + 1, -now} : pdf' = [pdf EXCEPT ![d] = t]
      \/ /\ UNCHANGED pdf /\ from' = [from EXCEPT ![d] = None]
         /\ \E t \in {None, now + 1} : md' = [md EXCEPT ![d] = t]
  BY DEF ChangePdf, ChangeMarkdown, AgentWrites
<1>4. FileTypes'
  <2>1. /\ now + 1 \in Nat /\ None \in Nat /\ changes + 1 \in Nat
        /\ now + 1 \in Int /\ None \in Int /\ -now \in Int
    BY <1>1 DEF FileTypes, None
  <2> QED BY <1>1, <1>2, <1>3, <2>1 DEF FileTypes
<1>5. Timely' /\ Due'
  BY <1>2, <1>3, <1>4, ChangeKeepsTimes
<1>6. NoticeTypes'
  <2>1. \E k \in {"Modify", "Remove"}, type \in {"pdf", "md"} : Notify(k, type, d)
    BY DEF ChangePdf, ChangeMarkdown, AgentWrites
  <2> QED BY <1>1, <2>1, NotifyTypes
<1>7. BusTypes'
  <2>1. {<<"md", d>>} \in SUBSET Files
    BY DEF Files
  <2>2. UNCHANGED busVars \/ Publish("Updated", {<<"md", d>>})
    BY DEF ChangePdf, ChangeMarkdown, AgentWrites
  <2> QED BY <1>1, <2>1, <2>2, PublishTypes, BusKept
<1>8. KnownTypes'
  <2>1. missed' = missed \/ missed' = missed \cup {d}
    BY DEF ChangePdf, ChangeMarkdown, AgentWrites
  <2> QED BY <1>1, <1>2, <2>1 DEF KnownTypes
<1>9. ScanTypes' /\ ReportTypes' /\ QueueTypes' /\ JobTypes'
  BY <1>1, <1>2 DEF ScanTypes, ReportTypes, QueueTypes, JobTypes, scanVars
<1>10. TypeOK'
  BY <1>4, <1>6, <1>7, <1>8, <1>9, TypeParts, PTL
<1> QED BY <1>5, <1>10 DEF Inv

-----------------------------------------------------------------------------
(* The write block. *)

\* An event that makes the UI look for the PDF of document d.
Tells(e, d) == e.kind = "Discovered" /\ <<"md", d>> \in e.files
OnTheWay(d) == \E i \in 1..Len(uiBus) : Tells(uiBus[i], d)

\* The UI knows of the Markdown file of d, or will hear of it, or will learn
\* that it has missed something.
Told(d) == \/ d \in tracked \/ uiLagged \/ OnTheWay(d)
           \/ job.at = "done" /\ job.doc = d

Protected == \A d \in Docs \ misled : md[d] # None /\ from[d] # None => Told(d)

LEMMA PublishTells ==
    ASSUME BusTypes, NEW k \in {"Discovered", "Updated", "Removed"},
           NEW files \in SUBSET Files, Publish(k, files), NEW d \in Docs,
           \/ uiLagged \/ OnTheWay(d)
           \/ k = "Discovered" /\ <<"md", d>> \in files
    PROVE  uiLagged' \/ OnTheWay(d)'
<1> DEFINE e == [kind |-> k, files |-> files]
<1>1. uiBus' = Ring(uiBus, e) /\ uiLagged' = (uiLagged \/ Len(uiBus) = BusCapacity)
  BY DEF Publish
<1>2. e \in Event /\ (k = "Discovered" /\ <<"md", d>> \in files => Tells(e, d))
  BY DEF Event, Tells
<1> HIDE DEF e
<1>3. /\ uiBus \in Seq(Event) /\ Len(uiBus) \in Nat /\ Len(uiBus) <= BusCapacity
      /\ BusCapacity \in Nat
  BY LenProperties, PdfAssumption DEF BusTypes
<1>4. CASE Len(uiBus) = BusCapacity
  BY <1>1, <1>4
<1>5. CASE Len(uiBus) # BusCapacity
  <2>1. Len(uiBus) < BusCapacity
    BY <1>3, <1>5
  <2>2. uiBus' = Append(uiBus, e)
    BY <1>1, <2>1 DEF Ring
  <2>3. /\ Len(uiBus') = Len(uiBus) + 1
        /\ \A i \in 1..Len(uiBus) : uiBus'[i] = uiBus[i]
        /\ uiBus'[Len(uiBus) + 1] = e
    BY <1>2, <1>3, <2>2, AppendProperties
  <2>4. CASE uiLagged
    BY <1>1, <2>4
  <2>5. CASE OnTheWay(d)
    <3>1. PICK i \in 1..Len(uiBus) : Tells(uiBus[i], d)
      BY <2>5 DEF OnTheWay
    <3>2. i \in 1..Len(uiBus')
      BY <1>3, <2>3
    <3>3. Tells(uiBus'[i], d)
      BY <2>3, <3>1
    <3> QED BY <3>2, <3>3 DEF OnTheWay, Tells
  <2>6. CASE k = "Discovered" /\ <<"md", d>> \in files
    <3>1. Len(uiBus) + 1 \in 1..Len(uiBus')
      BY <1>3, <2>3
    <3>2. Tells(uiBus'[Len(uiBus) + 1], d)
      BY <1>2, <2>3, <2>6
    <3> QED BY <3>1, <3>2 DEF OnTheWay, Tells
  <2> QED BY <2>4, <2>5, <2>6
<1> QED BY <1>4, <1>5

\* The steps after which the UI has drained nothing, and the worker has not
\* published what it has done.
LEMMA StillTold ==
    ASSUME Inv, Protected, UNCHANGED <<tracked, misled>>,
           \/ UNCHANGED <<uiBus, uiLagged>>
           \/ \E k \in {"Discovered", "Updated", "Removed"}, files \in SUBSET Files :
                Publish(k, files),
           job' = job \/ job.at # "done",
           \A d \in Docs : \/ from'[d] = None
                           \/ from'[d] = from[d] /\ md'[d] = md[d]
                           \/ job'.at = "done" /\ job'.doc = d
    PROVE  Protected'
<1> SUFFICES ASSUME NEW d \in Docs, d \notin misled, md'[d] # None, from'[d] # None
             PROVE  Told(d)'
  BY DEF Protected
<1>1. CASE job'.at = "done" /\ job'.doc = d
  BY <1>1 DEF Told
<1>2. CASE from'[d] = from[d] /\ md'[d] = md[d]
  <2>1. Told(d)
    BY <1>2 DEF Protected
  <2>2. CASE d \in tracked
    BY <2>2 DEF Told
  <2>3. CASE uiLagged \/ OnTheWay(d)
    <3>1. CASE UNCHANGED <<uiBus, uiLagged>>
      <4>1. uiLagged' \/ OnTheWay(d)'
        BY <2>3, <3>1 DEF OnTheWay, Tells
      <4> QED BY <4>1 DEF Told
    <3>2. ASSUME NEW k \in {"Discovered", "Updated", "Removed"},
                 NEW files \in SUBSET Files, Publish(k, files)
          PROVE  uiLagged' \/ OnTheWay(d)'
      BY <2>3, <3>2, PublishTells, TypeParts DEF Inv
    <3> QED BY <3>1, <3>2 DEF Told
  <2>4. CASE job.at = "done" /\ job.doc = d
    BY <2>4 DEF Told
  <2> QED BY <2>1, <2>2, <2>3, <2>4 DEF Told
<1> QED BY <1>1, <1>2

LEMMA DrainTells == ASSUME Inv, Protected, Drain PROVE Protected'
<1>1. /\ FileTypes /\ BusTypes /\ KnownTypes
  BY TypeParts DEF Inv
<1> DEFINE e == Head(uiBus)
           texts == DocsOf("md", e)
           backed == {d \in texts : pdf[d] # None}
<1>2. /\ uiBus # <<>> /\ ~uiLagged /\ uiBus' = Tail(uiBus) /\ UNCHANGED <<uiLagged, md, from, job>>
  BY DEF Drain, fileVars
<1>3. /\ uiBus \in Seq(Event) /\ Len(uiBus) \in Nat
  BY <1>1, LenProperties DEF BusTypes
<1>4. /\ Len(uiBus') = Len(uiBus) - 1 /\ uiBus[1] = e
      /\ \A i \in 1..Len(uiBus') : uiBus'[i] = uiBus[i + 1]
  BY <1>2, <1>3, HeadTailProperties
<1>5. \/ /\ e.kind = "Discovered" /\ tracked' = tracked \cup backed
         /\ misled' = (misled \ backed) \cup (texts \ backed)
      \/ /\ e.kind = "Removed" /\ tracked' = tracked \ texts
         /\ misled' = misled \cup {d \in texts : md[d] # None}
      \/ /\ e.kind = "Updated" /\ UNCHANGED <<tracked, misled>>
  BY DEF Drain
<1> SUFFICES ASSUME NEW d \in Docs, d \notin misled', md'[d] # None, from'[d] # None
             PROVE  Told(d)'
  BY DEF Protected
<1>6. Tells(e, d) => d \in texts
  BY DEF Tells, DocsOf
<1> HIDE DEF e
<1>7. CASE d \in tracked'
  BY <1>7 DEF Told
<1>8. CASE d \notin tracked'
  <2> HIDE DEF texts, backed
  <2>1. d \notin misled
    BY <1>5, <1>8
  <2>2. d \notin tracked /\ ~Tells(e, d)
    BY <1>2, <1>5, <1>6, <1>8, <2>1 DEF Tells
  <2>3. Told(d)
    BY <1>2, <2>1 DEF Protected
  <2>4. CASE OnTheWay(d)
    <3>1. PICK i \in 1..Len(uiBus) : Tells(uiBus[i], d)
      BY <2>4 DEF OnTheWay
    <3>2. i # 1
      BY <1>4, <2>2, <3>1
    <3> DEFINE j == i - 1
    <3>3. j \in 1..Len(uiBus') /\ i = j + 1
      BY <1>3, <1>4, <3>1, <3>2
    <3> HIDE DEF j
    <3>4. Tells(uiBus'[j], d)
      BY <1>4, <3>1, <3>3
    <3> QED BY <3>3, <3>4 DEF Told, OnTheWay, Tells
  <2>5. CASE job.at = "done" /\ job.doc = d
    BY <1>2, <2>5 DEF Told
  <2> QED BY <1>2, <2>2, <2>3, <2>4, <2>5 DEF Told
<1> QED BY <1>7, <1>8

LEMMA DoneTells == ASSUME Inv, Protected, Done PROVE Protected'
<1>1. /\ BusTypes /\ JobTypes
  BY TypeParts DEF Inv
<1>2. /\ Publish("Discovered", {<<"md", job.doc>>}) /\ job.at = "done"
      /\ UNCHANGED <<md, from, tracked, misled>>
  BY DEF Done, fileVars
<1>3. job.doc \in Docs
  BY <1>1, <1>2 DEF JobTypes, Job, Idle
<1>4. {<<"md", job.doc>>} \in SUBSET Files
  BY <1>3 DEF Files
<1> SUFFICES ASSUME NEW d \in Docs, d \notin misled, md[d] # None, from[d] # None
             PROVE  Told(d)'
  BY <1>2 DEF Protected
<1>5. Told(d)
  BY DEF Protected
<1>6. CASE d \in tracked
  BY <1>2, <1>6 DEF Told
<1>7. CASE uiLagged \/ OnTheWay(d) \/ job.doc = d
  <2>1. uiLagged' \/ OnTheWay(d)'
    BY <1>1, <1>2, <1>4, <1>7, PublishTells
  <2> QED BY <2>1 DEF Told
<1> QED BY <1>5, <1>6, <1>7 DEF Told

LEMMA NextTells == ASSUME Inv, Protected, Next PROVE Protected'
<1>1. /\ FileTypes /\ ScanTypes /\ ReportTypes /\ JobTypes
  BY TypeParts DEF Inv
<1>2. CASE Scanning
  <2>1. UNCHANGED <<md, from, job, tracked, misled>>
    BY <1>2 DEF Scanning, Visit, StartWatcher, StartRouter, fileVars
  <2>2. UNCHANGED busVars \/ Publish("Discovered", batch)
    BY <1>2 DEF Scanning, Visit, StartWatcher, StartRouter
  <2>3. batch \in SUBSET Files
    BY <1>1 DEF ScanTypes
  <2> QED BY <2>1, <2>2, <2>3, StillTold DEF busVars
<1>3. CASE Watching
  <2>1. UNCHANGED <<md, from, job, tracked, misled>>
    BY <1>3 DEF Watching, Watch, WatchPublish, WatchQueue, fileVars
  <2>2. CASE Watch \/ WatchQueue
    <3>1. UNCHANGED busVars
      BY <2>2 DEF Watch, WatchQueue
    <3> QED BY <2>1, <3>1, StillTold DEF busVars
  <2>3. CASE WatchPublish
    <3>1. \E k \in {"Removed", "Updated"} : Publish(k, {<<report.type, report.doc>>})
      BY <2>3 DEF WatchPublish
    <3>2. {<<report.type, report.doc>>} \in SUBSET Files
      BY <1>1, <2>3 DEF WatchPublish, ReportTypes, Report, Files
    <3> QED BY <2>1, <3>1, <3>2, StillTold
  <2> QED BY <1>3, <2>2, <2>3 DEF Watching
<1>4. CASE Route
  BY <1>4, StillTold DEF Route, fileVars
<1>5. CASE Worker
  <2>1. CASE Done
    BY <2>1, DoneTells
  <2>2. CASE Take \/ Read \/ WriteNothing \/ Fail
    <3>1. UNCHANGED <<md, from, tracked, misled, uiBus, uiLagged>>
      BY <2>2 DEF Take, Read, WriteNothing, Fail, fileVars, busVars
    <3>2. job.at # "done"
      BY <2>2 DEF Take, Read, WriteNothing, Fail, Idle
    <3> QED BY <3>1, <3>2, StillTold
  <2>3. CASE WriteMarkdown
    <3>1. /\ job.at = "convert" /\ job' = [job EXCEPT !.at = "done"] /\ job \in Job
          /\ UNCHANGED <<tracked, misled, uiBus, uiLagged>>
      BY <1>1, <2>3 DEF WriteMarkdown, busVars, JobTypes, Idle
    <3>2. job'.at = "done" /\ job'.doc = job.doc
      BY <3>1 DEF Job
    <3>3. \A d \in Docs : d # job.doc => from'[d] = from[d] /\ md'[d] = md[d]
      BY <1>1, <2>3 DEF WriteMarkdown, FileTypes
    <3> QED BY <3>1, <3>2, <3>3, StillTold
  <2> QED BY <1>5, <2>1, <2>2, <2>3 DEF Worker
<1>6. CASE Ui
  <2>1. CASE Lag
    BY <2>1 DEF Lag, Protected
  <2> QED BY <1>6, <2>1, DrainTells DEF Ui
<1>7. CASE Change
  <2>1. UNCHANGED <<job, tracked, misled>>
    BY <1>7 DEF Change
  <2> PICK d \in Docs : ChangePdf(d) \/ ChangeMarkdown(d) \/ AgentWrites(d)
    BY <1>7 DEF Change
  <2>2. UNCHANGED <<md, from>> \/ (from' = [from EXCEPT ![d] = None]
                                   /\ \E t \in {None, now + 1} : md' = [md EXCEPT ![d] = t])
    BY DEF ChangePdf, ChangeMarkdown, AgentWrites
  <2>3. \A e \in Docs : from'[e] = None \/ (from'[e] = from[e] /\ md'[e] = md[e])
    BY <1>1, <2>2 DEF FileTypes
  <2>4. UNCHANGED busVars \/ Publish("Updated", {<<"md", d>>})
    BY DEF ChangePdf, ChangeMarkdown, AgentWrites
  <2>5. {<<"md", d>>} \in SUBSET Files
    BY DEF Files
  <2> QED BY <2>1, <2>3, <2>4, <2>5, StillTold DEF busVars
<1> QED BY <1>2, <1>3, <1>4, <1>5, <1>6, <1>7 DEF Next

-----------------------------------------------------------------------------
(* The theorems. *)

LEMMA Invariance == Spec => []Inv
<1>1. Init => Inv
  <2> SUFFICES ASSUME Init PROVE Inv
    OBVIOUS
  <2>1. FileTypes /\ Timely
    BY DEF Init, FileTypes, Timely, InTime, None
  <2>2. ScanTypes /\ ReportTypes /\ JobTypes /\ KnownTypes
    BY DEF Init, ScanTypes, Files, ReportTypes, JobTypes, KnownTypes
  <2>3. NoticeTypes /\ QueueTypes
    BY EmptySeq DEF Init, NoticeTypes, QueueTypes
  <2>4. BusTypes
    <3>1. uiBus = <<>> /\ routerBus = <<>> /\ uiLagged = FALSE /\ routerLagged = FALSE
      BY DEF Init
    <3>2. 0 <= BusCapacity
      BY PdfAssumption
    <3> QED BY <3>1, <3>2, EmptySeq DEF BusTypes
  <2>5. Due
    BY DEF Init, Due, Idle
  <2> QED BY <2>1, <2>2, <2>3, <2>4, <2>5, TypeParts DEF Inv
<1>2. Inv /\ [Next]_vars => Inv'
  <2> SUFFICES ASSUME Inv, [Next]_vars PROVE Inv'
    OBVIOUS
  <2>1. CASE UNCHANGED vars
    <3>1. TypeOK'
      BY <2>1 DEF Inv, TypeOK, vars, fileVars, scanVars, busVars
    <3>2. Timely' /\ Due'
      BY <2>1, FilesKept DEF vars, fileVars
    <3> QED BY <3>1, <3>2 DEF Inv
  <2>2. CASE Next
    BY <2>2, ScanningKeeps, WatchingKeeps, RouteKeeps, UiKeeps, ChangeKeeps,
       TakeKeeps, ReadKeeps, WriteMarkdownKeeps, EndsKeep DEF Next, Worker
  <2> QED BY <2>1, <2>2
<1> QED BY <1>1, <1>2, PTL DEF Spec

\* The files, the rings, the queue and the worker are always of their types; no
\* ring of the file bus ever holds more than its capacity.
THEOREM TypeCorrect == Spec => []TypeOK
  BY Invariance, PTL DEF Inv

\* However often the scan, the watcher and the router queue a PDF, and however
\* the files change meanwhile, the converter is not run for a version of it that
\* the Markdown file was already generated from.
THEOREM NoSecondConversion == Spec => []ConvertedOnce
<1>1. Inv => ConvertedOnce
  BY DEF Inv, Due, Made, ConvertedOnce
<1> QED BY <1>1, Invariance, PTL

\* When everything that happened has been handled, a Markdown file that was
\* generated from a PDF is write protected, unless the event it was announced
\* with was overtaken by the files, or lost.
THEOREM GeneratedWillBeProtected == Spec => []GeneratedIsProtected
<1>1. Init => Protected
  BY DEF Init, Protected
<1>2. Inv /\ Protected /\ [Next]_vars => Protected'
  <2> SUFFICES ASSUME Inv, Protected, [Next]_vars PROVE Protected'
    OBVIOUS
  <2>1. CASE UNCHANGED vars
    <3>1. UNCHANGED <<tracked, misled, uiBus, uiLagged, job, md, from>>
      BY <2>1 DEF vars, fileVars, busVars
    <3> QED BY <3>1, StillTold
  <2> QED BY <2>1, NextTells
<1>3. Inv /\ Protected => GeneratedIsProtected
  <2> SUFFICES ASSUME Protected, Quiet, NEW d \in Docs \ misled,
                      md[d] # None, from[d] # None
               PROVE  d \in tracked
    BY DEF GeneratedIsProtected
  <2>1. Told(d)
    BY DEF Protected
  <2>2. ~OnTheWay(d)
    BY DEF Quiet, OnTheWay
  <2> QED BY <2>1, <2>2 DEF Told, Quiet, Idle
<1> QED BY <1>1, <1>2, <1>3, Invariance, PTL DEF Spec

=============================================================================
