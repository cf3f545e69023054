---------------------------- MODULE Viewer_proofs ----------------------------
(***************************************************************************)
(* Proofs about Viewer for every set of files and texts and every number of*)
(* changes and commands: however the answers of the loaders, the reports of*)
(* the watcher and the clicks of the user interleave, when all is handled  *)
(* the text of the selected file is the one on disk, and no tab is left of *)
(* a file that is gone, but for files that changed untold.                 *)
(***************************************************************************)
EXTENDS Viewer, FiniteSetTheorems, SequenceTheorems, WellFoundedInduction, TLAPS

-----------------------------------------------------------------------------
(* The inductive invariant. *)

\* What is on its way to the UI, rs being what is on the channel.
WayOf(rs) == ToSet(notices) \cup ToSet(fileBus) \cup ({publishing} \ {Nothing}) \cup rs
OnTheWay  == WayOf(ToSet(channel))

Removals == {"Remove", "FileDeleted", "Removed"}

\* A report of f is on its way, the removal of f is, an answer for f is to come.
TellsOf(f, rs)   == \E r \in WayOf(rs) : r.path = f /\ r.kind \in News(f)
Tells(f)         == TellsOf(f, ToSet(channel))
RemovalComing(f) == \E r \in OnTheWay : r.path = f /\ r.kind \in Removals
InFlight(f)      == \/ \E l \in loads : l.path = f
                    \/ \E r \in ToSet(channel) : r.kind = "FileLoaded" /\ r.path = f

\* The viewer has f loaded and f is gone or has another text, unless the editor
\* is open: then the text behind it does not matter.
Stale(f) == disk[f] = Gone \/ (editor = NoFile /\ ui.shown # disk[f])

\* What is loaded wrongly is still to be reported.
LoadedInv == ui.loaded # NoFile /\ ui.loaded \notin untold /\ Stale(ui.loaded)
               => Tells(ui.loaded)

\* A tab of a file that is gone is closed by its removal, or by the error that
\* its loader is to answer.
Doomed(f) == \/ RemovalComing(f)
             \/ f \in ui.known /\ (InFlight(f) \/ (phase = "draw" /\ ui.selected = f))
TabInv == \A f \in Files \ untold :
            f \in ToSet(ui.tabs) /\ disk[f] = Gone => Doomed(f)

\* open_tab adds no tab for a file that is unmarked; a load that is waited for is
\* under way.
MarkedKnown == ui.marked \subseteq ui.known
PendingInv  == ui.pending # NoFile => InFlight(ui.pending)

Inv == /\ TypeOK /\ IsFiniteSet(loads)
       /\ LoadedInv /\ TabInv /\ MarkedKnown /\ PendingInv

-----------------------------------------------------------------------------
(* Sequences, by the set of their elements. *)

LEMMA NoElems == ToSet(<<>>) = {}
BY DEF ToSet

LEMMA AppendElems ==
    ASSUME NEW S, NEW s \in Seq(S), NEW e \in S
    PROVE  /\ Append(s, e) \in Seq(S)
           /\ ToSet(Append(s, e)) = ToSet(s) \cup {e}
<1> DEFINE t == Append(s, e)
<1>1. /\ t \in Seq(S) /\ Len(t) = Len(s) + 1 /\ t[Len(s) + 1] = e
      /\ \A i \in 1..Len(s) : t[i] = s[i]
  BY AppendProperties
<1>2. Len(s) \in Nat /\ DOMAIN s = 1..Len(s) /\ DOMAIN t = 1..(Len(s) + 1)
  BY <1>1, LenProperties
<1> HIDE DEF t
<1>3. ToSet(t) \subseteq ToSet(s) \cup {e}
  BY <1>1, <1>2 DEF ToSet
<1>4. ToSet(s) \subseteq ToSet(t)
  BY <1>1, <1>2 DEF ToSet
<1>5. e \in ToSet(t)
  <2>1. Len(s) + 1 \in DOMAIN t
    BY <1>2
  <2> QED BY <1>1, <2>1 DEF ToSet
<1>6. ToSet(t) = ToSet(s) \cup {e} /\ t \in Seq(S)
  BY <1>1, <1>3, <1>4, <1>5
<1> QED BY <1>6 DEF t

LEMMA ConcatElems ==
    ASSUME NEW S, NEW s \in Seq(S), NEW t \in Seq(S)
    PROVE  /\ s \o t \in Seq(S)
           /\ ToSet(s \o t) = ToSet(s) \cup ToSet(t)
<1> DEFINE u == s \o t
<1>1. /\ u \in Seq(S) /\ Len(u) = Len(s) + Len(t)
      /\ \A i \in 1 .. Len(s) + Len(t) : u[i] = IF i <= Len(s) THEN s[i] ELSE t[i - Len(s)]
  BY ConcatProperties
<1>2. /\ Len(s) \in Nat /\ DOMAIN s = 1..Len(s) /\ Len(t) \in Nat /\ DOMAIN t = 1..Len(t)
      /\ DOMAIN u = 1..Len(s) + Len(t)
  BY <1>1, LenProperties
<1> HIDE DEF u
<1>3. ToSet(u) \subseteq ToSet(s) \cup ToSet(t)
  <2>1. ASSUME NEW i \in DOMAIN u PROVE u[i] \in ToSet(s) \cup ToSet(t)
    <3>1. CASE i <= Len(s)
      <4>1. i \in DOMAIN s /\ u[i] = s[i]
        BY <1>1, <1>2, <3>1
      <4> QED BY <4>1 DEF ToSet
    <3>2. CASE ~(i <= Len(s))
      <4>1. i - Len(s) \in DOMAIN t /\ u[i] = t[i - Len(s)]
        BY <1>1, <1>2, <3>2
      <4> QED BY <4>1 DEF ToSet
    <3> QED BY <3>1, <3>2
  <2> QED BY <2>1 DEF ToSet
<1>4. ToSet(s) \subseteq ToSet(u)
  <2>1. ASSUME NEW i \in DOMAIN s PROVE s[i] \in ToSet(u)
    <3>1. i \in DOMAIN u /\ u[i] = s[i]
      BY <1>1, <1>2
    <3> QED BY <3>1 DEF ToSet
  <2> QED BY <2>1 DEF ToSet
<1>5. ToSet(t) \subseteq ToSet(u)
  <2>1. ASSUME NEW i \in DOMAIN t PROVE t[i] \in ToSet(u)
    <3>1. i + Len(s) \in DOMAIN u /\ u[i + Len(s)] = t[i]
      BY <1>1, <1>2
    <3> QED BY <3>1 DEF ToSet
  <2> QED BY <2>1 DEF ToSet
<1>6. ToSet(u) = ToSet(s) \cup ToSet(t) /\ u \in Seq(S)
  BY <1>1, <1>3, <1>4, <1>5
<1> QED BY <1>6 DEF u

LEMMA TailElems ==
    ASSUME NEW S, NEW s \in Seq(S), s # <<>>
    PROVE  /\ Head(s) \in S /\ Tail(s) \in Seq(S) /\ Len(Tail(s)) = Len(s) - 1
           /\ ToSet(s) = {Head(s)} \cup ToSet(Tail(s))
           /\ \A i \in DOMAIN Tail(s) : i + 1 \in DOMAIN s /\ Tail(s)[i] = s[i + 1]
           /\ \A i \in DOMAIN s : i = 1 \/ (i - 1 \in DOMAIN Tail(s) /\ Tail(s)[i - 1] = s[i])
<1> DEFINE t == Tail(s)
<1>1. /\ Head(s) \in S /\ t \in Seq(S) /\ Len(t) = Len(s) - 1
      /\ \A i \in 1..Len(t) : t[i] = s[i + 1]
  BY HeadTailProperties
<1>2. /\ Len(s) \in Nat /\ Len(t) \in Nat /\ DOMAIN s = 1..Len(s) /\ DOMAIN t = 1..Len(t)
      /\ Head(s) = s[1] /\ Len(s) # 0
  BY <1>1, LenProperties, EmptySeq
<1> HIDE DEF t
<1>3. \A i \in DOMAIN t : i + 1 \in DOMAIN s /\ t[i] = s[i + 1]
  BY <1>1, <1>2
<1>4. \A i \in DOMAIN s : i = 1 \/ (i - 1 \in DOMAIN t /\ t[i - 1] = s[i])
  BY <1>1, <1>2
<1>5. 1 \in DOMAIN s
  BY <1>2
<1>6. ToSet(s) = {Head(s)} \cup ToSet(t)
  <2>1. ToSet(s) \subseteq {Head(s)} \cup ToSet(t)
    BY <1>2, <1>4 DEF ToSet
  <2>2. {Head(s)} \cup ToSet(t) \subseteq ToSet(s)
    BY <1>2, <1>3, <1>5 DEF ToSet
  <2> QED BY <2>1, <2>2
<1> QED BY <1>1, <1>3, <1>4, <1>6 DEF t

LEMMA ElemsTyped == ASSUME NEW S, NEW s \in Seq(S) PROVE ToSet(s) \subseteq S
<1>1. \A i \in 1..Len(s) : s[i] \in S
  BY ElementOfSeq
<1>2. DOMAIN s = 1..Len(s)
  BY LenProperties
<1> QED BY <1>1, <1>2 DEF ToSet

LEMMA ContainsElem ==
    ASSUME NEW S, NEW s \in Seq(S), NEW x
    PROVE  Contains(s, x) <=> x \in ToSet(s)
<1>1. DOMAIN s = 1..Len(s)
  BY LenProperties
<1> QED BY <1>1 DEF Contains, ToSet

-----------------------------------------------------------------------------
(* Without is a function on numbers: that it is the function its definition  *)
(* says, and what it yields, is shown by induction, from the least number at *)
(* which it could fail.                                                      *)

LEMMA Least ==
    ASSUME NEW T \in SUBSET Nat, T # {}
    PROVE  \E n \in T : \A m \in T : n <= m
<1> DEFINE R == {ss \in Nat \X Nat : ss[1] < ss[2]}
<1>1. IsWellFoundedOn(R, Nat)
  BY NatLessThanWellFounded DEF OpToRel
<1>2. \E x \in T : \A y \in T : <<y, x>> \notin R
  <2> HIDE DEF R
  <2> QED BY <1>1, WFMin
<1>3. PICK x \in T : \A y \in T : <<y, x>> \notin R
  BY <1>2
<1>4. \A y \in T : ~(y < x)
  <2> SUFFICES ASSUME NEW y \in T, y < x PROVE FALSE
    OBVIOUS
  <2>1. <<y, x>> \in Nat \X Nat /\ <<y, x>>[1] = y /\ <<y, x>>[2] = x
    OBVIOUS
  <2>2. <<y, x>> \in R
    BY <2>1
  <2> QED BY <1>3, <2>2
<1> QED BY <1>4

LEMMA Induction ==
    ASSUME NEW G \in SUBSET Nat, 0 \in G, \A n \in G : n + 1 \in G
    PROVE  G = Nat
<1> SUFFICES ASSUME Nat \ G # {} PROVE FALSE
  OBVIOUS
<1>1. PICK n \in Nat \ G : \A m \in Nat \ G : n <= m
  BY Least
<1>2. n # 0 /\ n - 1 \in Nat
  BY <1>1
<1>3. n - 1 \in G
  BY <1>1, <1>2
<1> QED BY <1>1, <1>2, <1>3

\* k keeps the first n of tabs but those of f.
Keeps(k, tabs, f, n) ==
    k = [i \in 0 .. n |->
           IF i = 0 THEN <<>>
           ELSE IF tabs[i] = f THEN k[i - 1] ELSE Append(k[i - 1], tabs[i])]

LEMMA KeepsExists ==
    ASSUME NEW tabs, NEW f, NEW n \in Nat
    PROVE  \E k : Keeps(k, tabs, f, n)
<1> DEFINE G == {m \in Nat : \E k : Keeps(k, tabs, f, m)}
<1>1. 0 \in G
  <2>1. Keeps([i \in 0 .. 0 |-> <<>>], tabs, f, 0)
    BY DEF Keeps
  <2> QED BY <2>1
<1>2. ASSUME NEW m \in G PROVE m + 1 \in G
  <2>1. PICK k : Keeps(k, tabs, f, m)
    OBVIOUS
  <2> DEFINE Step(h, i) == IF i = 0 THEN <<>>
                           ELSE IF tabs[i] = f THEN h[i - 1] ELSE Append(h[i - 1], tabs[i])
             h == [i \in 0 .. m + 1 |-> IF i <= m THEN k[i] ELSE Step(k, i)]
  <2>2. \A i \in 0 .. m : k[i] = Step(k, i)
    BY <2>1 DEF Keeps
  <2>3. ASSUME NEW i \in 0 .. m + 1 PROVE h[i] = Step(h, i)
    <3>1. CASE i <= m
      <4>1. h[i] = k[i] /\ (i # 0 => h[i - 1] = k[i - 1])
        BY <3>1
      <4>2. k[i] = Step(k, i)
        BY <2>2, <3>1
      <4> HIDE DEF h
      <4> QED BY <4>1, <4>2
    <3>2. CASE i = m + 1
      <4>1. h[i - 1] = k[i - 1] /\ i # 0
        BY <3>2
      <4>2. h[i] = Step(k, i)
        BY <3>2
      <4> HIDE DEF h
      <4> QED BY <4>1, <4>2
    <3> QED BY <3>1, <3>2
  <2>4. h = [i \in 0 .. m + 1 |-> h[i]]
    OBVIOUS
  <2> HIDE DEF h
  <2>5. Keeps(h, tabs, f, m + 1)
    BY <2>3, <2>4 DEF Keeps
  <2>6. m + 1 \in Nat
    OBVIOUS
  <2> QED BY <2>5, <2>6
<1>3. G = Nat
  <2>1. G \in SUBSET Nat
    OBVIOUS
  <2> HIDE DEF G
  <2> QED BY <1>1, <1>2, <2>1, Induction
<1> QED BY <1>3

\* The tabs without f are the other tabs.
LEMMA WithoutElems ==
    ASSUME NEW S, NEW tabs \in Seq(S), NEW f
    PROVE  Without(tabs, f) \in Seq(S) /\ ToSet(Without(tabs, f)) = ToSet(tabs) \ {f}
<1> DEFINE k == CHOOSE k : Keeps(k, tabs, f, Len(tabs))
<1>1. Len(tabs) \in Nat /\ DOMAIN tabs = 1 .. Len(tabs) /\ \A i \in 1 .. Len(tabs) : tabs[i] \in S
  BY LenProperties, ElementOfSeq
<1>2. Without(tabs, f) = k[Len(tabs)]
  BY DEF Without, Keeps
<1>3. Keeps(k, tabs, f, Len(tabs))
  BY <1>1, KeepsExists
<1> HIDE DEF k
<1>4. \A i \in 0 .. Len(tabs) :
        k[i] = IF i = 0 THEN <<>>
               ELSE IF tabs[i] = f THEN k[i - 1] ELSE Append(k[i - 1], tabs[i])
  BY <1>3 DEF Keeps
<1> DEFINE First(n) == {tabs[i] : i \in 1 .. n} \ {f}
           G == {n \in Nat : n <= Len(tabs) => k[n] \in Seq(S) /\ ToSet(k[n]) = First(n)}
<1>5. 0 \in G
  <2>1. k[0] = <<>> /\ <<>> \in Seq(S)
    BY <1>1, <1>4
  <2>2. First(0) = {}
    OBVIOUS
  <2>3. ToSet(<<>>) = {}
    BY NoElems
  <2> HIDE DEF First
  <2> QED BY <2>1, <2>2, <2>3
<1>6. ASSUME NEW n \in G PROVE n + 1 \in G
  <2> SUFFICES ASSUME n + 1 <= Len(tabs)
               PROVE  k[n + 1] \in Seq(S) /\ ToSet(k[n + 1]) = First(n + 1)
    OBVIOUS
  <2>1. k[n] \in Seq(S) /\ ToSet(k[n]) = First(n)
    BY <1>1
  <2>2. n + 1 \in 0 .. Len(tabs) /\ n + 1 \in 1 .. Len(tabs) /\ n + 1 # 0 /\ (n + 1) - 1 = n
    BY <1>1
  <2>3. k[n + 1] = IF tabs[n + 1] = f THEN k[n] ELSE Append(k[n], tabs[n + 1])
    BY <1>4, <2>2
  <2>4. tabs[n + 1] \in S
    BY <1>1, <2>2
  <2>5. First(n + 1) = First(n) \cup ({tabs[n + 1]} \ {f})
    <3>1. 1 .. n + 1 = 1 .. n \cup {n + 1}
      OBVIOUS
    <3> QED BY <3>1
  <2> HIDE DEF First
  <2>6. CASE tabs[n + 1] = f
    BY <2>1, <2>3, <2>5, <2>6
  <2>7. CASE tabs[n + 1] # f
    <3>1. Append(k[n], tabs[n + 1]) \in Seq(S)
          /\ ToSet(Append(k[n], tabs[n + 1])) = ToSet(k[n]) \cup {tabs[n + 1]}
      BY <2>1, <2>4, AppendElems
    <3> QED BY <2>1, <2>3, <2>5, <2>7, <3>1
  <2> QED BY <2>6, <2>7
<1>7. G = Nat
  <2>1. G \in SUBSET Nat
    OBVIOUS
  <2> HIDE DEF G
  <2> QED BY <1>5, <1>6, <2>1, Induction
<1>8. k[Len(tabs)] \in Seq(S) /\ ToSet(k[Len(tabs)]) = First(Len(tabs))
  <2>1. Len(tabs) \in G
    BY <1>1, <1>7
  <2> HIDE DEF First
  <2> QED BY <1>1, <2>1
<1>9. First(Len(tabs)) = ToSet(tabs) \ {f}
  BY <1>1 DEF ToSet
<1> QED BY <1>2, <1>8, <1>9

-----------------------------------------------------------------------------
(* What the operations on the state of the UI do.  UiState is made of seven  *)
(* fields; each lemma says what becomes of those the invariant is about.     *)

UiState == [tabs: Seq(Files), known: SUBSET Files,
            selected: Files \cup {NoFile}, marked: SUBSET Files,
            loaded: Files \cup {NoFile}, shown: Texts \cup {Blank},
            pending: Files \cup {NoFile}]

LEMMA LastTypes ==
    ASSUME NEW tabs \in Seq(Files)
    PROVE  LastOf(tabs) \in Files \cup {NoFile}
<1>1. CASE tabs = <<>>
  BY <1>1 DEF LastOf
<1>2. CASE tabs # <<>>
  <2>1. Len(tabs) \in Nat /\ Len(tabs) # 0
    BY <1>2, LenProperties, EmptySeq
  <2>2. tabs[Len(tabs)] \in Files
    BY <2>1, ElementOfSeq
  <2> QED BY <1>2, <2>2 DEF LastOf, Last
<1> QED BY <1>1, <1>2

LEMMA Forgetting ==
    ASSUME NEW u \in UiState, NEW f \in Files
    PROVE  /\ Forget(u, f) \in UiState
           /\ Forget(u, f).tabs = u.tabs /\ Forget(u, f).known = u.known
           /\ Forget(u, f).selected = u.selected /\ Forget(u, f).marked = u.marked
           /\ Forget(u, f).shown = u.shown /\ Forget(u, f).pending = u.pending
           /\ Forget(u, f).loaded = IF u.loaded = f THEN NoFile ELSE u.loaded
BY DEF Forget, UiState

\* The text is only blanked when nothing is loaded any more.
LEMMA ClosingRemoved ==
    ASSUME NEW u \in UiState, NEW f \in Files
    PROVE  LET v == CloseRemoved(u, f)
           IN  /\ v \in UiState /\ ToSet(v.tabs) = ToSet(u.tabs) \ {f}
               /\ v.known = u.known /\ v.marked = u.marked /\ v.pending = u.pending
               /\ v.loaded = NoFile \/ (v.loaded = u.loaded /\ v.shown = u.shown)
<1> DEFINE v == CloseRemoved(u, f)
           left == Without(u.tabs, f)
           choice == IF u.selected # NoFile /\ Contains(left, u.selected)
                       THEN u.selected ELSE LastOf(left)
<1>1. u.tabs \in Seq(Files) /\ u.selected \in Files \cup {NoFile}
  BY DEF UiState
<1>2. left \in Seq(Files) /\ ToSet(left) = ToSet(u.tabs) \ {f}
  BY <1>1, WithoutElems
<1>3. choice \in Files \cup {NoFile}
  <2> HIDE DEF left
  <2> QED BY <1>1, <1>2, LastTypes
<1>4. v = IF ~Contains(u.tabs, f) THEN u
          ELSE IF choice = NoFile
            THEN [u EXCEPT !.tabs = left, !.selected = NoFile, !.loaded = NoFile,
                           !.shown = Blank]
            ELSE [u EXCEPT !.tabs = left, !.selected = choice]
  BY DEF CloseRemoved
<1>5. Contains(u.tabs, f) <=> f \in ToSet(u.tabs)
  BY <1>1, ContainsElem
<1> HIDE DEF v, left, choice
<1>6. CASE ~Contains(u.tabs, f)
  <2>1. v = u /\ ToSet(u.tabs) = ToSet(u.tabs) \ {f}
    BY <1>4, <1>5, <1>6
  <2> QED BY <2>1 DEF v
<1>7. CASE Contains(u.tabs, f) /\ choice = NoFile
  <2>1. v = [u EXCEPT !.tabs = left, !.selected = NoFile, !.loaded = NoFile, !.shown = Blank]
    BY <1>4, <1>7
  <2>2. /\ v \in UiState /\ v.tabs = left /\ v.known = u.known /\ v.marked = u.marked
        /\ v.pending = u.pending /\ v.loaded = NoFile
    BY <1>2, <2>1 DEF UiState
  <2> QED BY <1>2, <2>2 DEF v
<1>8. CASE Contains(u.tabs, f) /\ choice # NoFile
  <2>1. v = [u EXCEPT !.tabs = left, !.selected = choice]
    BY <1>4, <1>8
  <2>2. /\ v \in UiState /\ v.tabs = left /\ v.known = u.known /\ v.marked = u.marked
        /\ v.pending = u.pending /\ v.loaded = u.loaded /\ v.shown = u.shown
    BY <1>2, <1>3, <2>1 DEF UiState
  <2> QED BY <1>2, <2>2 DEF v
<1> QED BY <1>6, <1>7, <1>8

LEMMA Deleting ==
    ASSUME NEW u \in UiState, NEW f \in Files
    PROVE  LET v == FileDeleted(u, f)
           IN  /\ v \in UiState /\ ToSet(v.tabs) = ToSet(u.tabs) \ {f}
               /\ v.known = u.known /\ v.marked = u.marked \ {f} /\ v.pending = u.pending
               /\ v.loaded = NoFile \/ (v.loaded = u.loaded /\ v.loaded # f)
<1> DEFINE a == CloseRemoved(u, f)
           b == IF a.selected = f THEN [a EXCEPT !.selected = NoFile, !.shown = Blank] ELSE a
           c == [b EXCEPT !.marked = @ \ {f}]
           v == Forget(c, f)
<1>1. /\ a \in UiState /\ ToSet(a.tabs) = ToSet(u.tabs) \ {f}
      /\ a.known = u.known /\ a.marked = u.marked /\ a.pending = u.pending
      /\ a.loaded = NoFile \/ a.loaded = u.loaded
  BY ClosingRemoved
<1>2. FileDeleted(u, f) = v
  BY DEF FileDeleted
<1> HIDE DEF a
<1>3. /\ b \in UiState /\ b.tabs = a.tabs /\ b.known = a.known /\ b.marked = a.marked
      /\ b.pending = a.pending /\ b.loaded = a.loaded
  BY <1>1 DEF UiState
<1> HIDE DEF b
<1>4. /\ c \in UiState /\ c.tabs = b.tabs /\ c.known = b.known /\ c.marked = b.marked \ {f}
      /\ c.pending = b.pending /\ c.loaded = b.loaded
  BY <1>3 DEF UiState
<1> HIDE DEF c
<1>5. /\ v \in UiState /\ v.tabs = c.tabs /\ v.known = c.known /\ v.marked = c.marked
      /\ v.pending = c.pending /\ v.loaded = IF c.loaded = f THEN NoFile ELSE c.loaded
  BY <1>4, Forgetting
<1> HIDE DEF v
<1> QED BY <1>1, <1>2, <1>3, <1>4, <1>5

LEMMA Loading ==
    ASSUME NEW u \in UiState, NEW f \in Files, NEW text \in Texts
    PROVE  LET v == LoadedText(u, f, text)
           IN  /\ v \in UiState /\ v.tabs = u.tabs /\ v.known = u.known
               /\ v.marked = u.marked /\ v.pending = NoFile
               /\ v.loaded = f /\ v.shown = text
BY DEF LoadedText, UiState

LEMMA FailingToLoad ==
    ASSUME NEW u \in UiState, NEW f \in Files
    PROVE  LET v == LoadFailed(u, f)
           IN  /\ v \in UiState /\ v.known = u.known \ {f} /\ v.marked = u.marked \ {f}
               /\ ToSet(v.tabs) = IF f \in u.known THEN ToSet(u.tabs) \ {f} ELSE ToSet(u.tabs)
               /\ v.pending = NoFile /\ v.loaded = u.loaded
<1> DEFINE left == Without(u.tabs, f)
           tabs == IF f \in u.known THEN left ELSE u.tabs
           v == LoadFailed(u, f)
<1>1. u.tabs \in Seq(Files)
  BY DEF UiState
<1>2. left \in Seq(Files) /\ ToSet(left) = ToSet(u.tabs) \ {f}
  BY <1>1, WithoutElems
<1>3. v = [u EXCEPT !.pending = NoFile, !.tabs = tabs, !.known = @ \ {f},
                    !.selected = IF @ = f THEN NoFile ELSE @, !.marked = @ \ {f},
                    !.shown = Blank]
  BY DEF LoadFailed
<1> HIDE DEF left
<1>4. tabs \in Seq(Files)
      /\ ToSet(tabs) = IF f \in u.known THEN ToSet(u.tabs) \ {f} ELSE ToSet(u.tabs)
  BY <1>1, <1>2
<1> HIDE DEF tabs, v
<1>5. /\ v \in UiState /\ v.known = u.known \ {f} /\ v.marked = u.marked \ {f}
      /\ v.tabs = tabs /\ v.pending = NoFile /\ v.loaded = u.loaded
  BY <1>3, <1>4 DEF UiState
<1> QED BY <1>4, <1>5 DEF v

LEMMA Opening ==
    ASSUME NEW u \in UiState, NEW f \in Files
    PROVE  LET v == OpenTab(u, f)
           IN  /\ v \in UiState /\ v.known = u.known \cup {f}
               /\ v.selected = u.selected /\ v.marked = u.marked /\ v.loaded = u.loaded
               /\ v.shown = u.shown /\ v.pending = u.pending
               /\ ToSet(v.tabs) \subseteq ToSet(u.tabs) \cup {f}
               /\ f \in u.known => v = u
<1> DEFINE more == Append(u.tabs, f)
           v == OpenTab(u, f)
<1>1. u.tabs \in Seq(Files)
  BY DEF UiState
<1>2. more \in Seq(Files) /\ ToSet(more) = ToSet(u.tabs) \cup {f}
  BY <1>1, AppendElems
<1>3. v = IF f \in u.known THEN u ELSE [u EXCEPT !.known = @ \cup {f}, !.tabs = more]
  BY DEF OpenTab
<1> HIDE DEF more, v
<1>4. CASE f \in u.known
  BY <1>3, <1>4 DEF v, UiState
<1>5. CASE f \notin u.known
  <2>1. v = [u EXCEPT !.known = @ \cup {f}, !.tabs = more]
    BY <1>3, <1>5
  <2>2. /\ v \in UiState /\ v.known = u.known \cup {f} /\ v.tabs = more
        /\ v.selected = u.selected /\ v.marked = u.marked /\ v.loaded = u.loaded
        /\ v.shown = u.shown /\ v.pending = u.pending
    BY <1>2, <2>1 DEF UiState
  <2> QED BY <1>2, <1>5, <2>2 DEF v
<1> QED BY <1>4, <1>5

\* What a command that only changes the state of the UI u may make of it: a tab
\* that it opens is the one that it selects.
Clicked(u, v) ==
    /\ v \in UiState /\ u.known \subseteq v.known
    /\ v.loaded = u.loaded /\ v.shown = u.shown /\ v.pending = u.pending
    /\ u.marked \subseteq u.known => v.marked \subseteq v.known
    /\ \A g \in ToSet(v.tabs) : g \in ToSet(u.tabs) \/ (g \in v.known /\ v.selected = g)

LEMMA Selecting ==
    ASSUME NEW u \in UiState, NEW f \in Files
    PROVE  Clicked(u, SelectFile(u, f))
<1> DEFINE a == [u EXCEPT !.marked = {f}, !.selected = f]
<1>1. /\ a \in UiState /\ a.known = u.known /\ a.tabs = u.tabs /\ a.loaded = u.loaded
      /\ a.shown = u.shown /\ a.pending = u.pending /\ a.marked = {f} /\ a.selected = f
  BY DEF UiState
<1>2. SelectFile(u, f) = OpenTab(a, f)
  BY DEF SelectFile
<1> HIDE DEF a
<1> QED BY <1>1, <1>2, Opening DEF Clicked

LEMMA Toggling ==
    ASSUME NEW u \in UiState, u.marked \subseteq u.known, NEW f \in Files,
           NEW v \in ToggleFile(u, f)
    PROVE  Clicked(u, v)
<1>1. CASE f \notin u.marked
  <2> DEFINE a == [u EXCEPT !.marked = @ \cup {f}, !.selected = f]
  <2>1. v = OpenTab(a, f)
    BY <1>1 DEF ToggleFile
  <2>2. /\ a \in UiState /\ a.known = u.known /\ a.tabs = u.tabs /\ a.loaded = u.loaded
        /\ a.shown = u.shown /\ a.pending = u.pending /\ a.marked = u.marked \cup {f}
        /\ a.selected = f
    BY DEF UiState
  <2> HIDE DEF a
  <2> QED BY <2>1, <2>2, Opening DEF Clicked
<1>2. ASSUME NEW a \in UiState, v = OpenTab(a, f), f \in u.marked, a.known = u.known,
             a.tabs = u.tabs, a.loaded = u.loaded, a.shown = u.shown,
             a.pending = u.pending, a.marked \subseteq u.marked
      PROVE  Clicked(u, v)
  <2>1. v = a
    BY <1>2, Opening
  <2> QED BY <1>2, <2>1 DEF Clicked
<1>3. CASE f \in u.marked /\ u.selected # f
  <2> DEFINE a == [u EXCEPT !.marked = @ \ {f}]
  <2>1. v = OpenTab(a, f)
    BY <1>3 DEF ToggleFile
  <2>2. /\ a \in UiState /\ a.known = u.known /\ a.tabs = u.tabs /\ a.loaded = u.loaded
        /\ a.shown = u.shown /\ a.pending = u.pending /\ a.marked \subseteq u.marked
    BY DEF UiState
  <2> HIDE DEF a
  <2> QED BY <1>2, <1>3, <2>1, <2>2
<1>4. CASE f \in u.marked /\ u.selected = f
  <2>1. PICK g \in IF u.marked = {f} THEN {NoFile} ELSE u.marked \ {f} :
          v = OpenTab([u EXCEPT !.marked = @ \ {f}, !.selected = g], f)
    BY <1>4 DEF ToggleFile
  <2>2. g \in Files \cup {NoFile}
    BY <2>1 DEF UiState
  <2> DEFINE a == [u EXCEPT !.marked = @ \ {f}, !.selected = g]
  <2>3. /\ a \in UiState /\ a.known = u.known /\ a.tabs = u.tabs /\ a.loaded = u.loaded
        /\ a.shown = u.shown /\ a.pending = u.pending /\ a.marked \subseteq u.marked
    BY <2>2 DEF UiState
  <2>4. v = OpenTab(a, f)
    BY <2>1
  <2> HIDE DEF a
  <2> QED BY <1>2, <1>4, <2>3, <2>4
<1> QED BY <1>1, <1>3, <1>4

\* What is left of the strip when a tab is closed.
LEMMA RemovedTab ==
    ASSUME NEW tabs \in Seq(Files), NEW i \in DOMAIN tabs
    PROVE  RemoveAt(tabs, i) \in Seq(Files) /\ ToSet(RemoveAt(tabs, i)) \subseteq ToSet(tabs)
<1> DEFINE a == SubSeq(tabs, 1, i - 1)
           b == SubSeq(tabs, i + 1, Len(tabs))
<1>1. /\ Len(tabs) \in Nat /\ DOMAIN tabs = 1 .. Len(tabs) /\ i \in 1 .. Len(tabs)
      /\ \A k \in 1 .. Len(tabs) : tabs[k] \in ToSet(tabs)
  BY LenProperties DEF ToSet
<1>2. \A k \in 1 .. (i - 1) : tabs[k] \in ToSet(tabs)
  BY <1>1
<1>3. \A k \in (i + 1) .. Len(tabs) : tabs[k] \in ToSet(tabs)
  BY <1>1
<1>4. a \in Seq(ToSet(tabs))
  BY <1>1, <1>2, SubSeqProperties
<1>5. b \in Seq(ToSet(tabs))
  BY <1>1, <1>3, SubSeqProperties
<1>6. RemoveAt(tabs, i) = a \o b
  BY DEF RemoveAt
<1> HIDE DEF a, b
<1>7. a \o b \in Seq(ToSet(tabs))
  BY <1>4, <1>5, ConcatElems
<1>8. ToSet(tabs) \subseteq Files
  BY ElemsTyped
<1>9. a \o b \in Seq(Files)
  BY <1>7, <1>8, SeqMonotonic
<1>10. ToSet(a \o b) \subseteq ToSet(tabs)
  BY <1>7, ElemsTyped
<1> QED BY <1>6, <1>9, <1>10

LEMMA ClosingTabs ==
    ASSUME NEW u \in UiState, NEW i \in Nat \ {0}
    PROVE  /\ Clicked(u, CloseTab(u, i)) /\ Clicked(u, CloseOtherTabs(u, i))
           /\ Clicked(u, CloseAllTabs(u)) /\ Clicked(u, SelectDirectory(u))
<1>1. u.tabs \in Seq(Files) /\ u.selected \in Files \cup {NoFile}
  BY DEF UiState
<1>2. Clicked(u, CloseTab(u, i))
  <2> DEFINE left == IF i \in DOMAIN u.tabs THEN RemoveAt(u.tabs, i) ELSE u.tabs
             choice == IF u.selected # NoFile /\ Contains(left, u.selected)
                         THEN u.selected ELSE LastOf(left)
             v == CloseTab(u, i)
  <2>1. left \in Seq(Files) /\ ToSet(left) \subseteq ToSet(u.tabs)
    BY <1>1, RemovedTab
  <2>2. v = [u EXCEPT !.tabs = left, !.selected = choice]
    BY DEF CloseTab
  <2> HIDE DEF left
  <2>3. choice \in Files \cup {NoFile}
    BY <1>1, <2>1, LastTypes
  <2> HIDE DEF choice, v
  <2>4. /\ v \in UiState /\ v.known = u.known /\ v.tabs = left /\ v.loaded = u.loaded
        /\ v.shown = u.shown /\ v.pending = u.pending /\ v.marked = u.marked
    BY <2>1, <2>2, <2>3 DEF UiState
  <2> QED BY <2>1, <2>4 DEF Clicked, v
<1>3. Clicked(u, CloseOtherTabs(u, i))
  <2>1. CASE i \in DOMAIN u.tabs
    <3> DEFINE f == u.tabs[i]
               v == CloseOtherTabs(u, i)
    <3>1. f \in Files /\ f \in ToSet(u.tabs)
      BY <1>1, <2>1, ElementOfSeq, LenProperties DEF ToSet
    <3>2. v = [u EXCEPT !.tabs = <<f>>, !.selected = f]
      BY <2>1 DEF CloseOtherTabs
    <3> HIDE DEF f, v
    <3>3. <<f>> \in Seq(Files) /\ ToSet(<<f>>) = {f}
      BY <3>1 DEF ToSet
    <3>4. /\ v \in UiState /\ v.known = u.known /\ v.tabs = <<f>> /\ v.loaded = u.loaded
          /\ v.shown = u.shown /\ v.pending = u.pending /\ v.marked = u.marked
      BY <3>1, <3>2, <3>3 DEF UiState
    <3> QED BY <3>1, <3>3, <3>4 DEF Clicked, v
  <2>2. CASE i \notin DOMAIN u.tabs
    BY <2>2 DEF CloseOtherTabs, Clicked
  <2> QED BY <2>1, <2>2
<1>4. Clicked(u, CloseAllTabs(u))
  <2> DEFINE v == CloseAllTabs(u)
  <2>1. PICK none \in Seq(Files) : none = <<>>
    BY EmptySeq
  <2>2. v = [u EXCEPT !.tabs = none, !.selected = NoFile]
    BY <2>1 DEF CloseAllTabs
  <2> HIDE DEF v
  <2>3. /\ v \in UiState /\ v.known = u.known /\ v.tabs = none /\ v.loaded = u.loaded
        /\ v.shown = u.shown /\ v.pending = u.pending /\ v.marked = u.marked
    BY <2>2 DEF UiState
  <2> QED BY <2>1, <2>3, NoElems DEF Clicked, v
<1>5. Clicked(u, SelectDirectory(u))
  <2> DEFINE v == SelectDirectory(u)
  <2>1. /\ v \in UiState /\ v.known = u.known /\ v.tabs = u.tabs /\ v.loaded = u.loaded
        /\ v.shown = u.shown /\ v.pending = u.pending /\ v.marked = {}
    BY DEF SelectDirectory, UiState
  <2> HIDE DEF v
  <2> QED BY <2>1 DEF Clicked, v
<1> QED BY <1>2, <1>3, <1>4, <1>5

\* A rename gives tabs the new name.
LEMMA Renaming ==
    ASSUME NEW u \in UiState, NEW f \in Files, NEW g \in Files
    PROVE  LET v == Renamed(u, f, g)
           IN  /\ v \in UiState /\ v.known = u.known /\ v.marked = u.marked
               /\ v.shown = u.shown /\ v.pending = u.pending
               /\ v.loaded = IF u.loaded = f THEN g ELSE u.loaded
               /\ \A h \in ToSet(v.tabs) : h = g \/ h \in ToSet(u.tabs)
<1> DEFINE Follow(h) == IF h = f THEN g ELSE h
           tabs == [i \in DOMAIN u.tabs |-> Follow(u.tabs[i])]
           v == Renamed(u, f, g)
<1>1. /\ u.tabs \in Seq(Files) /\ Len(u.tabs) \in Nat /\ DOMAIN u.tabs = 1 .. Len(u.tabs)
      /\ \A i \in 1 .. Len(u.tabs) : u.tabs[i] \in Files
  BY LenProperties, ElementOfSeq DEF UiState
<1>2. tabs \in Seq(Files)
  <2>1. tabs \in [1 .. Len(u.tabs) -> Files]
    BY <1>1
  <2> HIDE DEF tabs
  <2> QED BY <1>1, <2>1, IsASeq
<1>3. \A h \in ToSet(tabs) : h = g \/ h \in ToSet(u.tabs)
  BY DEF ToSet
<1>4. v = [u EXCEPT !.tabs = tabs, !.selected = Follow(@), !.loaded = Follow(@)]
  BY DEF Renamed
<1>5. Follow(u.selected) \in Files \cup {NoFile} /\ Follow(u.loaded) \in Files \cup {NoFile}
  BY DEF UiState
<1> HIDE DEF tabs, v
<1>6. /\ v \in UiState /\ v.known = u.known /\ v.marked = u.marked /\ v.tabs = tabs
      /\ v.shown = u.shown /\ v.pending = u.pending /\ v.loaded = Follow(u.loaded)
  BY <1>2, <1>4, <1>5 DEF UiState
<1> QED BY <1>3, <1>6 DEF v

-----------------------------------------------------------------------------
(* The parts of TypeOK. *)

Note     == Reports({"Modify", "Remove"})
BusEvent == Reports({"Updated", "Removed"})
Message  == Reports({"FileModified", "FileDeleted"}) \cup Loaded
Load     == [id: Nat, path: Files, text: Texts \cup {Gone, Unread}]

FileTypes    == /\ disk \in [Files -> Texts \cup {Gone}] /\ changes \in Nat
                /\ watched \subseteq Files
NoticeTypes  == notices \in Seq(Note)
WatcherTypes == publishing \in BusEvent \cup {Nothing}
ChannelTypes == channel \in Seq(Message)
BusTypes     == fileBus \in Seq(BusEvent)
LoadTypes    == loads \subseteq Load
UserTypes    == /\ phase \in {"channel", "events", "commands", "draw"}
                /\ command \in Command /\ commands \in Nat
UiTypes      == ui \in UiState /\ editor \in Files \cup {NoFile} /\ untold \subseteq Files

LEMMA TypeParts ==
    TypeOK <=> /\ FileTypes /\ NoticeTypes /\ WatcherTypes /\ ChannelTypes /\ BusTypes
               /\ LoadTypes /\ UserTypes /\ UiTypes
BY DEF TypeOK, FileTypes, NoticeTypes, WatcherTypes, ChannelTypes, BusTypes, LoadTypes,
       UserTypes, UiTypes, Note, BusEvent, Message, Load, UiState

-----------------------------------------------------------------------------
(* What is on its way. *)

\* The history asks about what is on its way.
LEMMA ReportedTells ==
    ASSUME TypeOK, NEW f \in Files, NEW ch \in Seq(Message)
    PROVE  Reported(f, ch) <=> TellsOf(f, ToSet(ch))
<1>1. /\ notices \in Seq(Note) /\ publishing \in BusEvent \cup {Nothing}
      /\ fileBus \in Seq(BusEvent)
  BY TypeParts DEF NoticeTypes, WatcherTypes, BusTypes
<1>2. ToSet(notices) \subseteq Note /\ ToSet(fileBus) \subseteq BusEvent /\ ToSet(ch) \subseteq Message
  BY <1>1, ElemsTyped
<1>3. \A r \in Note \cup BusEvent \cup Message : r # Nothing
  BY DEF Note, BusEvent, Message, Reports, Loaded, Nothing
<1> DEFINE IsNews(r) == r # Nothing /\ r.path = f /\ r.kind \in News(f)
<1>4. Reported(f, ch) <=> \/ \E i \in DOMAIN notices : IsNews(notices[i])
                          \/ IsNews(publishing)
                          \/ \E i \in DOMAIN fileBus : IsNews(fileBus[i])
                          \/ \E i \in DOMAIN ch : IsNews(ch[i])
  BY DEF Reported
<1>5. (\E i \in DOMAIN notices : IsNews(notices[i])) <=> \E r \in ToSet(notices) : IsNews(r)
  BY DEF ToSet
<1>6. (\E i \in DOMAIN fileBus : IsNews(fileBus[i])) <=> \E r \in ToSet(fileBus) : IsNews(r)
  BY DEF ToSet
<1>7. (\E i \in DOMAIN ch : IsNews(ch[i])) <=> \E r \in ToSet(ch) : IsNews(r)
  BY DEF ToSet
<1>8. TellsOf(f, ToSet(ch)) <=> \E r \in WayOf(ToSet(ch)) : r.path = f /\ r.kind \in News(f)
  BY DEF TellsOf
<1>9. \A r \in WayOf(ToSet(ch)) : r # Nothing
  BY <1>2, <1>3 DEF WayOf
<1>10. WayOf(ToSet(ch)) = ToSet(notices) \cup ToSet(fileBus) \cup ({publishing} \ {Nothing})
                           \cup ToSet(ch)
  BY DEF WayOf
<1>11. TellsOf(f, ToSet(ch)) <=> \E r \in WayOf(ToSet(ch)) : IsNews(r)
  BY <1>8, <1>9
<1> HIDE DEF IsNews
<1>12. IsNews(publishing) => publishing # Nothing
  BY DEF IsNews
<1> QED BY <1>4, <1>5, <1>6, <1>7, <1>10, <1>11, <1>12

\* Of a file that is gone, only its removal is told; and its removal is always
\* told.
LEMMA GoneIsTold ==
    ASSUME NEW f \in Files
    PROVE  /\ RemovalComing(f) => Tells(f)
           /\ disk[f] = Gone /\ Tells(f) => RemovalComing(f)
BY DEF RemovalComing, Tells, TellsOf, OnTheWay, News, Removals

\* What is on its way stays on its way while nothing is taken away, and the
\* file stays what it is.
LEMMA WayKept ==
    ASSUME NEW f \in Files, disk'[f] = disk[f],
           \A r \in OnTheWay : r.path = f => r \in OnTheWay'
    PROVE  (Tells(f) => Tells(f)') /\ (RemovalComing(f) => RemovalComing(f)')
<1>1. News(f)' = News(f)
  BY DEF News
<1>2. RemovalComing(f) => RemovalComing(f)'
  BY DEF RemovalComing
<1>3. Tells(f) <=> \E r \in OnTheWay : r.path = f /\ r.kind \in News(f)
  BY DEF Tells, TellsOf, OnTheWay
<1>4. Tells(f)' <=> \E r \in OnTheWay' : r.path = f /\ r.kind \in News(f)'
  BY DEF Tells, TellsOf, OnTheWay
<1> QED BY <1>1, <1>2, <1>3, <1>4

\* A step that moves reports on, or answers, and leaves the UI as it is.
LEMMA MovingKeeps ==
    ASSUME Inv, TypeOK', IsFiniteSet(loads'),
           UNCHANGED <<disk, ui, editor, untold, command>>,
           phase' = phase \/ phase # "draw",
           \A f \in Files : /\ Tells(f) => Tells(f)'
                            /\ RemovalComing(f) => RemovalComing(f)'
                            /\ InFlight(f) => InFlight(f)'
    PROVE  Inv'
<1>1. ui.loaded \in Files \cup {NoFile} /\ ui.pending \in Files \cup {NoFile}
  BY TypeParts DEF Inv, UiTypes, UiState
<1>2. LoadedInv'
  BY <1>1 DEF Inv, LoadedInv, Stale
<1>3. TabInv'
  BY DEF Inv, TabInv, Doomed
<1>4. PendingInv' /\ MarkedKnown'
  BY <1>1 DEF Inv, PendingInv, MarkedKnown
<1> QED BY <1>2, <1>3, <1>4 DEF Inv

-----------------------------------------------------------------------------
(* The watcher and the loaders. *)

LEMMA WatchKeeps == ASSUME Inv, Watch PROVE Inv'
<1>1. /\ FileTypes /\ NoticeTypes /\ WatcherTypes /\ ChannelTypes /\ BusTypes
      /\ LoadTypes /\ UserTypes /\ UiTypes
  BY TypeParts DEF Inv
<1>2. PICK n : n = Head(notices)
  OBVIOUS
<1>3. /\ notices # <<>> /\ notices' = Tail(notices) /\ publishing = Nothing
      /\ UNCHANGED <<disk, watched, changes, fileBus, loads, phase, command, ui, editor, untold,
                     commands>>
      /\ \/ /\ n.kind = "Remove"
            /\ channel' = Append(channel, Report("FileDeleted", n.path))
            /\ publishing' = Report("Removed", n.path)
         \/ /\ n.kind = "Modify" /\ disk[n.path] # Gone
            /\ channel' = Append(channel, Report("FileModified", n.path))
            /\ publishing' = Report("Updated", n.path)
         \/ /\ n.kind = "Modify" /\ disk[n.path] = Gone
            /\ UNCHANGED <<channel, publishing>>
  BY <1>2 DEF Watch
<1>4. /\ n \in Note /\ notices' \in Seq(Note) /\ ToSet(notices) = {n} \cup ToSet(notices')
  BY <1>1, <1>2, <1>3, TailElems DEF NoticeTypes
<1>5. n.path \in Files
  BY <1>4 DEF Note, Reports
<1>6. PICK m, b : /\ m = Report(IF n.kind = "Remove" THEN "FileDeleted" ELSE "FileModified", n.path)
                  /\ b = Report(IF n.kind = "Remove" THEN "Removed" ELSE "Updated", n.path)
  OBVIOUS
<1>7. /\ m \in Message /\ b \in BusEvent /\ m.path = n.path /\ b.path = n.path
      /\ m.kind = IF n.kind = "Remove" THEN "FileDeleted" ELSE "FileModified"
  BY <1>5, <1>6 DEF Message, BusEvent, Reports, Report
<1>8. \/ channel' = Append(channel, m) /\ publishing' = b
         /\ (n.kind = "Remove" \/ disk[n.path] # Gone)
      \/ n.kind = "Modify" /\ disk[n.path] = Gone /\ UNCHANGED <<channel, publishing>>
  BY <1>3, <1>6
<1>9. /\ channel' \in Seq(Message) /\ publishing' \in BusEvent \cup {Nothing}
      /\ ToSet(channel) \subseteq ToSet(channel')
      /\ n.kind = "Remove" \/ disk[n.path] # Gone => m \in ToSet(channel')
  <2>1. Append(channel, m) \in Seq(Message) /\ ToSet(Append(channel, m)) = ToSet(channel) \cup {m}
    BY <1>1, <1>7, AppendElems DEF ChannelTypes
  <2>2. CASE channel' = Append(channel, m) /\ publishing' = b
    BY <1>7, <2>1, <2>2
  <2>3. CASE n.kind = "Modify" /\ disk[n.path] = Gone /\ UNCHANGED <<channel, publishing>>
    BY <1>1, <2>3 DEF ChannelTypes, WatcherTypes
  <2> QED BY <1>8, <2>2, <2>3
<1>10. TypeOK'
  <2>1. NoticeTypes' /\ ChannelTypes' /\ WatcherTypes'
    BY <1>4, <1>9 DEF NoticeTypes, ChannelTypes, WatcherTypes
  <2>2. FileTypes' /\ BusTypes' /\ LoadTypes' /\ UserTypes' /\ UiTypes'
    BY <1>1, <1>3 DEF FileTypes, BusTypes, LoadTypes, UserTypes, UiTypes
  <2> QED BY <2>1, <2>2, TypeParts, PTL
<1>11. \A r \in OnTheWay : r = n \/ r \in OnTheWay'
  BY <1>3, <1>4, <1>9 DEF OnTheWay, WayOf
<1>12. \A r \in ToSet(channel') : r \in OnTheWay'
  BY DEF OnTheWay, WayOf
<1>13. ASSUME NEW f \in Files
       PROVE  (Tells(f) => Tells(f)') /\ (RemovalComing(f) => RemovalComing(f)')
  <2>1. CASE f # n.path
    <3>1. \A r \in OnTheWay : r.path = f => r \in OnTheWay'
      BY <1>11, <2>1
    <3> QED BY <1>3, <3>1, WayKept
  <2>2. CASE f = n.path /\ n.kind = "Remove"
    <3>1. RemovalComing(f)'
      BY <1>7, <1>9, <1>12, <2>2 DEF RemovalComing, Removals
    <3>2. (RemovalComing(f) => Tells(f))'
      BY <1>7, <1>9, <1>12, <2>2 DEF RemovalComing, Tells, TellsOf, OnTheWay, News, Removals
    <3> QED BY <3>1, <3>2
  <2>3. CASE f = n.path /\ n.kind = "Modify"
    <3>1. RemovalComing(f) => RemovalComing(f)'
      BY <1>11, <2>3 DEF RemovalComing, Removals
    <3>2. CASE disk[f] # Gone
      <4>1. Tells(f)'
        BY <1>3, <1>7, <1>9, <1>12, <2>3, <3>2 DEF Tells, TellsOf, OnTheWay, News
      <4> QED BY <3>1, <4>1
    <3>3. CASE disk[f] = Gone
      <4>1. Tells(f) <=> \E r \in OnTheWay : r.path = f /\ r.kind \in News(f)
        BY DEF Tells, TellsOf, OnTheWay
      <4>2. Tells(f)' <=> \E r \in OnTheWay' : r.path = f /\ r.kind \in News(f)'
        BY DEF Tells, TellsOf, OnTheWay
      <4>3. News(f)' = News(f) /\ n.kind \notin News(f)
        BY <1>3, <2>3, <3>3 DEF News
      <4> QED BY <1>11, <3>1, <4>1, <4>2, <4>3
    <3> QED BY <3>2, <3>3
  <2> QED BY <1>4, <2>1, <2>2, <2>3 DEF Note, Reports
<1>14. ASSUME NEW f \in Files PROVE InFlight(f) => InFlight(f)'
  BY <1>3, <1>9 DEF InFlight
<1>15. IsFiniteSet(loads')
  BY <1>3 DEF Inv
<1> QED BY <1>3, <1>10, <1>13, <1>14, <1>15, MovingKeeps

LEMMA WatchPublishKeeps == ASSUME Inv, WatchPublish PROVE Inv'
<1>1. /\ FileTypes /\ NoticeTypes /\ WatcherTypes /\ ChannelTypes /\ BusTypes
      /\ LoadTypes /\ UserTypes /\ UiTypes
  BY TypeParts DEF Inv
<1>2. /\ publishing \in BusEvent /\ publishing' = Nothing /\ publishing # Nothing
      /\ fileBus' = Append(fileBus, publishing)
      /\ UNCHANGED <<disk, watched, notices, changes, channel, loads, phase, command, ui, editor,
                     untold, commands>>
  BY <1>1 DEF WatchPublish, WatcherTypes, fileVars
<1>3. fileBus' \in Seq(BusEvent) /\ ToSet(fileBus') = ToSet(fileBus) \cup {publishing}
  BY <1>1, <1>2, AppendElems DEF BusTypes
<1>4. TypeOK'
  <2>1. BusTypes' /\ WatcherTypes'
    BY <1>2, <1>3 DEF BusTypes, WatcherTypes
  <2>2. FileTypes' /\ NoticeTypes' /\ ChannelTypes' /\ LoadTypes' /\ UserTypes' /\ UiTypes'
    BY <1>1, <1>2 DEF FileTypes, NoticeTypes, ChannelTypes, LoadTypes, UserTypes, UiTypes
  <2> QED BY <2>1, <2>2, TypeParts, PTL
<1>5. \A r \in OnTheWay : r \in OnTheWay'
  BY <1>2, <1>3 DEF OnTheWay, WayOf
<1>6. ASSUME NEW f \in Files
      PROVE  (Tells(f) => Tells(f)') /\ (RemovalComing(f) => RemovalComing(f)')
  BY <1>2, <1>5, WayKept
<1>7. ASSUME NEW f \in Files PROVE InFlight(f) => InFlight(f)'
  BY <1>2 DEF InFlight
<1>8. IsFiniteSet(loads')
  BY <1>2 DEF Inv
<1> QED BY <1>2, <1>4, <1>6, <1>7, <1>8, MovingKeeps

LEMMA LoaderKeeps == ASSUME Inv, Loader PROVE Inv'
<1>1. /\ FileTypes /\ NoticeTypes /\ WatcherTypes /\ ChannelTypes /\ BusTypes
      /\ LoadTypes /\ UserTypes /\ UiTypes /\ IsFiniteSet(loads)
  BY TypeParts DEF Inv
<1>2. /\ UNCHANGED <<disk, watched, notices, changes, publishing, fileBus, phase, command, ui, editor,
                     untold, commands>>
  BY DEF Loader, Read, SendLoaded, fileVars, busVars
<1>3. ASSUME LoadTypes', ChannelTypes', IsFiniteSet(loads'),
             \A r \in OnTheWay : r \in OnTheWay',
             \A f \in Files : InFlight(f) => InFlight(f)'
      PROVE  Inv'
  <2>1. FileTypes' /\ NoticeTypes' /\ WatcherTypes' /\ BusTypes' /\ UserTypes' /\ UiTypes'
    BY <1>1, <1>2 DEF FileTypes, NoticeTypes, WatcherTypes, BusTypes, UserTypes, UiTypes
  <2>2. TypeOK'
    BY <1>3, <2>1, TypeParts, PTL
  <2>3. \A f \in Files : (Tells(f) => Tells(f)') /\ (RemovalComing(f) => RemovalComing(f)')
    BY <1>2, <1>3, WayKept
  <2> QED BY <1>2, <1>3, <2>2, <2>3, MovingKeeps
<1>4. ASSUME NEW l \in loads, Read(l) PROVE Inv'
  <2>1. PICK m : m = [l EXCEPT !.text = disk[l.path]]
    OBVIOUS
  <2>2. m \in Load /\ m.path = l.path
    BY <1>1, <2>1 DEF LoadTypes, Load, FileTypes
  <2>3. loads' = (loads \ {l}) \cup {m} /\ channel' = channel
    BY <1>4, <2>1 DEF Read, busVars
  <2>4. LoadTypes' /\ ChannelTypes'
    BY <1>1, <2>2, <2>3 DEF LoadTypes, ChannelTypes
  <2>5. IsFiniteSet(loads')
    BY <1>1, <2>3, FS_RemoveElement, FS_AddElement
  <2>6. \A r \in OnTheWay : r \in OnTheWay'
    BY <1>2, <2>3 DEF OnTheWay, WayOf
  <2>7. \A f \in Files : InFlight(f) => InFlight(f)'
    BY <2>2, <2>3 DEF InFlight
  <2> QED BY <1>3, <2>4, <2>5, <2>6, <2>7
<1>5. ASSUME NEW l \in loads, SendLoaded(l) PROVE Inv'
  <2>1. PICK m : m = [kind |-> "FileLoaded", path |-> l.path, text |-> l.text]
    OBVIOUS
  <2>2. l.text # Unread /\ loads' = loads \ {l} /\ channel' = Append(channel, m)
    BY <1>5, <2>1 DEF SendLoaded
  <2>3. m \in Message /\ m.kind = "FileLoaded" /\ m.path = l.path
    BY <1>1, <2>1, <2>2 DEF LoadTypes, Load, Message, Loaded
  <2>4. channel' \in Seq(Message) /\ ToSet(channel') = ToSet(channel) \cup {m}
    BY <1>1, <2>2, <2>3, AppendElems DEF ChannelTypes
  <2>5. LoadTypes' /\ ChannelTypes'
    BY <1>1, <2>2, <2>4 DEF LoadTypes, ChannelTypes
  <2>6. IsFiniteSet(loads')
    BY <1>1, <2>2, FS_RemoveElement
  <2>7. \A r \in OnTheWay : r \in OnTheWay'
    BY <1>2, <2>4 DEF OnTheWay, WayOf
  <2>8. \A f \in Files : InFlight(f) => InFlight(f)'
    BY <2>2, <2>3, <2>4 DEF InFlight
  <2> QED BY <1>3, <2>5, <2>6, <2>7, <2>8
<1> QED BY <1>4, <1>5 DEF Loader

LEMMA PhaseKeeps ==
    ASSUME Inv, ChannelDrained \/ EventsDrained \/ StartWatcher PROVE Inv'
<1>1. /\ FileTypes /\ NoticeTypes /\ WatcherTypes /\ ChannelTypes /\ BusTypes
      /\ LoadTypes /\ UserTypes /\ UiTypes
  BY TypeParts DEF Inv
<1>2. /\ UNCHANGED <<disk, notices, changes, publishing, channel, fileBus, loads, command, ui,
                     editor, untold, commands>>
      /\ phase' = phase \/ (phase # "draw" /\ phase' \in {"events", "commands"})
      /\ watched' = watched \/ watched' \subseteq Files
  BY DEF ChannelDrained, EventsDrained, StartWatcher, fileVars, busVars
<1>3. TypeOK'
  <2>1. /\ FileTypes' /\ NoticeTypes' /\ WatcherTypes' /\ ChannelTypes' /\ BusTypes'
        /\ LoadTypes' /\ UserTypes' /\ UiTypes'
    BY <1>1, <1>2 DEF FileTypes, NoticeTypes, WatcherTypes, ChannelTypes, BusTypes, LoadTypes,
                      UserTypes, UiTypes
  <2> QED BY <2>1, TypeParts, PTL
<1>4. \A r \in OnTheWay : r \in OnTheWay'
  BY <1>2 DEF OnTheWay, WayOf
<1>5. ASSUME NEW f \in Files
      PROVE  /\ (Tells(f) => Tells(f)') /\ (RemovalComing(f) => RemovalComing(f)')
             /\ InFlight(f) => InFlight(f)'
  <2>1. InFlight(f) => InFlight(f)'
    BY <1>2 DEF InFlight
  <2> QED BY <1>2, <1>4, <2>1, WayKept
<1>6. IsFiniteSet(loads')
  BY <1>2 DEF Inv
<1> QED BY <1>2, <1>3, <1>5, <1>6, MovingKeeps

-----------------------------------------------------------------------------
(* Another program changes a file. *)

\* The operating system reports the files that are watched.
LEMMA NoticeFacts ==
    ASSUME NoticeTypes, NEW f \in Files, NEW kind \in {"Modify", "Remove"}
    PROVE  /\ Notice(kind, f) \in Seq(Note)
           /\ ToSet(Notice(kind, f)) = IF f \in watched THEN {Report(kind, f)} ELSE {}
           /\ notices \o Notice(kind, f) \in Seq(Note)
           /\ ToSet(notices \o Notice(kind, f))
                = ToSet(notices) \cup ToSet(Notice(kind, f))
<1>1. PICK n : n = Report(kind, f)
  OBVIOUS
<1>2. n \in Note
  BY <1>1 DEF Note, Reports, Report
<1>3. /\ <<n>> \in Seq(Note) /\ ToSet(<<n>>) = {n}
      /\ <<>> \in Seq(Note) /\ ToSet(<<>>) = {}
  BY <1>2, NoElems, EmptySeq DEF ToSet
<1>4. PICK s : s = Notice(kind, f)
  OBVIOUS
<1>5. s \in Seq(Note) /\ ToSet(s) = IF f \in watched THEN {n} ELSE {}
  BY <1>1, <1>3, <1>4 DEF Notice
<1>6. notices \o s \in Seq(Note) /\ ToSet(notices \o s) = ToSet(notices) \cup ToSet(s)
  BY <1>5, ConcatElems DEF NoticeTypes
<1> QED BY <1>1, <1>4, <1>5, <1>6

LEMMA ChangeKeeps == ASSUME Inv, NEW f0 \in Files, Change(f0) PROVE Inv'
<1>1. /\ FileTypes /\ NoticeTypes /\ WatcherTypes /\ ChannelTypes /\ BusTypes
      /\ LoadTypes /\ UserTypes /\ UiTypes
  BY TypeParts DEF Inv
<1>2. PICK t \in (Texts \cup {Gone}) \ {disk[f0]}, kind \in {"Modify", "Remove"} :
         /\ kind = "Remove" => t = Gone
         /\ disk' = [disk EXCEPT ![f0] = t]
         /\ notices' = notices \o Notice(kind, f0)
         /\ untold' = IF f0 \in watched /\ (t = Gone => kind = "Remove")
                        THEN untold \ {f0} ELSE untold \cup {f0}
  BY DEF Change
<1>3. /\ changes' = changes + 1
      /\ UNCHANGED <<watched, publishing, channel, fileBus, loads, phase, command, ui, editor,
                     commands>>
  BY DEF Change, busVars
<1>4. PICK n : n = Report(kind, f0)
  OBVIOUS
<1>5. n.path = f0 /\ n.kind = kind
  BY <1>4 DEF Report
<1>6. /\ notices' \in Seq(Note)
      /\ ToSet(notices') = ToSet(notices) \cup (IF f0 \in watched THEN {n} ELSE {})
  BY <1>1, <1>2, <1>4, NoticeFacts
<1>7. disk' \in [Files -> Texts \cup {Gone}] /\ disk'[f0] = t
      /\ \A f \in Files : f # f0 => disk'[f] = disk[f]
  BY <1>1, <1>2 DEF FileTypes
<1>8. TypeOK'
  <2>1. FileTypes' /\ NoticeTypes'
    BY <1>1, <1>3, <1>6, <1>7 DEF FileTypes, NoticeTypes
  <2>2. WatcherTypes' /\ ChannelTypes' /\ BusTypes' /\ LoadTypes' /\ UserTypes'
    BY <1>1, <1>3 DEF WatcherTypes, ChannelTypes, BusTypes, LoadTypes, UserTypes
  <2>3. UiTypes'
    BY <1>1, <1>2, <1>3 DEF UiTypes
  <2> QED BY <2>1, <2>2, <2>3, TypeParts, PTL
<1>9. OnTheWay' = OnTheWay \cup (IF f0 \in watched THEN {n} ELSE {})
  BY <1>3, <1>6 DEF OnTheWay, WayOf
<1>10. ASSUME NEW f \in Files, f # f0
       PROVE  (Tells(f) => Tells(f)') /\ (RemovalComing(f) => RemovalComing(f)')
  BY <1>7, <1>9, <1>10, WayKept
<1>11. f0 \notin untold' => Tells(f0)' /\ (t = Gone => RemovalComing(f0)')
  <2> SUFFICES ASSUME f0 \notin untold' PROVE Tells(f0)' /\ (t = Gone => RemovalComing(f0)')
    OBVIOUS
  <2>0. f0 \in watched /\ (kind = "Remove" <=> t = Gone)
    BY <1>2
  <2>1. t = Gone => RemovalComing(f0)'
    BY <1>5, <1>9, <2>0 DEF RemovalComing, Removals
  <2>2. Tells(f0)' <=> \E r \in OnTheWay' : r.path = f0 /\ r.kind \in News(f0)'
    BY DEF Tells, TellsOf, OnTheWay
  <2>3. n.kind \in News(f0)'
    BY <1>5, <1>7, <2>0 DEF News
  <2> QED BY <1>5, <1>9, <2>0, <2>1, <2>2, <2>3
<1>12. /\ ui.loaded \in Files \cup {NoFile} /\ ui.pending \in Files \cup {NoFile}
       /\ \A f : f # f0 => (f \in untold' <=> f \in untold)
  BY <1>1, <1>2 DEF UiTypes, UiState
<1>13. LoadedInv'
  <2>1. CASE ui.loaded = f0
    BY <1>3, <1>11, <2>1 DEF LoadedInv
  <2>2. CASE ui.loaded # f0
    BY <1>3, <1>7, <1>10, <1>12, <2>2 DEF Inv, LoadedInv, Stale
  <2> QED BY <2>1, <2>2
<1>14. ASSUME NEW f \in Files PROVE InFlight(f) => InFlight(f)'
  BY <1>3 DEF InFlight
<1>15. TabInv'
  <2> SUFFICES ASSUME NEW f \in Files \ untold', f \in ToSet(ui.tabs), disk'[f] = Gone
               PROVE  Doomed(f)'
    BY <1>3 DEF TabInv
  <2>1. CASE f = f0
    BY <1>7, <1>11, <2>1 DEF Doomed
  <2>2. CASE f # f0
    <3>1. Doomed(f)
      BY <1>7, <1>12, <2>2 DEF Inv, TabInv
    <3> QED BY <1>3, <1>10, <1>14, <2>2, <3>1 DEF Doomed
  <2> QED BY <2>1, <2>2
<1>16. PendingInv' /\ MarkedKnown' /\ IsFiniteSet(loads')
  BY <1>3, <1>12, <1>14 DEF Inv, PendingInv, MarkedKnown
<1> QED BY <1>8, <1>13, <1>15, <1>16 DEF Inv

-----------------------------------------------------------------------------
(* The UI drains the background channel. *)

\* What is on its way when the message e has been taken from the channel.
LEMMA TakingAMessage ==
    ASSUME Inv, NEW e \in Message, ToSet(channel) = {e} \cup ToSet(channel'),
           UNCHANGED <<disk, notices, publishing, fileBus, loads>>, NEW f \in Files
    PROVE  /\ f # e.path \/ e.kind = "FileLoaded" =>
                (Tells(f) => Tells(f)') /\ (RemovalComing(f) => RemovalComing(f)')
           /\ e.kind = "FileModified" => (RemovalComing(f) => RemovalComing(f)')
           /\ f # e.path \/ e.kind # "FileLoaded" => (InFlight(f) => InFlight(f)')
<1>1. \A r \in OnTheWay : r = e \/ r \in OnTheWay'
  BY DEF OnTheWay, WayOf
<1>2. Tells(f) <=> \E r \in OnTheWay : r.path = f /\ r.kind \in News(f)
  BY DEF Tells, TellsOf, OnTheWay
<1>3. Tells(f)' <=> \E r \in OnTheWay' : r.path = f /\ r.kind \in News(f)'
  BY DEF Tells, TellsOf, OnTheWay
<1>4. News(f)' = News(f) /\ "FileLoaded" \notin News(f)
  BY DEF News
<1>5. f # e.path \/ e.kind = "FileLoaded" => (Tells(f) => Tells(f)')
  BY <1>1, <1>2, <1>3, <1>4
<1>6. f # e.path \/ e.kind \in {"FileLoaded", "FileModified"}
        => (RemovalComing(f) => RemovalComing(f)')
  BY <1>1 DEF RemovalComing, Removals
<1>7. f # e.path \/ e.kind # "FileLoaded" => (InFlight(f) => InFlight(f)')
  BY DEF InFlight
<1> QED BY <1>5, <1>6, <1>7

LEMMA DrainChannelKeeps == ASSUME Inv, DrainChannel PROVE Inv'
<1>1. /\ FileTypes /\ NoticeTypes /\ WatcherTypes /\ ChannelTypes /\ BusTypes
      /\ LoadTypes /\ UserTypes /\ UiTypes
  BY TypeParts DEF Inv
<1>2. PICK e : e = Head(channel)
  OBVIOUS
<1>3. /\ phase = "channel" /\ channel # <<>> /\ channel' = Tail(channel)
      /\ UNCHANGED <<disk, watched, notices, changes, publishing, fileBus, loads, phase, command, editor,
                     commands>>
  BY DEF DrainChannel, fileVars
<1>4. /\ e \in Message /\ channel' \in Seq(Message)
      /\ ToSet(channel) = {e} \cup ToSet(channel')
  BY <1>1, <1>2, <1>3, TailElems DEF ChannelTypes
<1>5. PICK f : f = e.path
  OBVIOUS
<1>6. f \in Files
  BY <1>4, <1>5 DEF Message, Reports, Loaded
<1>7. \/ /\ e.kind = "FileLoaded" /\ e.text = Gone
         /\ ui' = LoadFailed(ui, f) /\ untold' = Blanked(ui)
      \/ /\ e.kind = "FileLoaded" /\ e.text # Gone
         /\ ui' = LoadedText(ui, f, e.text)
         /\ untold' = IF e.text # disk[f] /\ ~Reported(f, channel')
                           THEN untold \cup {f} ELSE untold \ {f}
      \/ /\ e.kind = "FileModified" /\ ui' = Forget(ui, f) /\ untold' = untold
      \/ /\ e.kind = "FileDeleted" /\ ui' = FileDeleted(ui, f)
         /\ untold' = IF ui'.shown = ui.shown THEN untold ELSE Blanked(ui')
  BY <1>2, <1>3, <1>5 DEF DrainChannel, Answer
<1>8. /\ ui \in UiState /\ editor \in Files \cup {NoFile} /\ untold \subseteq Files
      /\ ui.loaded \in Files \cup {NoFile} /\ ui.pending \in Files \cup {NoFile}
      /\ ui.marked \subseteq ui.known
  BY <1>1 DEF Inv, MarkedKnown, UiTypes, UiState
<1>9. ASSUME NEW g \in Files
      PROVE  /\ g # f \/ e.kind = "FileLoaded" =>
                  (Tells(g) => Tells(g)') /\ (RemovalComing(g) => RemovalComing(g)')
             /\ e.kind = "FileModified" => (RemovalComing(g) => RemovalComing(g)')
             /\ g # f \/ e.kind # "FileLoaded" => (InFlight(g) => InFlight(g)')
  BY <1>3, <1>4, <1>5, <1>9, TakingAMessage
<1>10. ASSUME ui' \in UiState, untold' \subseteq Files, LoadedInv', TabInv', MarkedKnown',
              PendingInv'
       PROVE  Inv'
  <2>1. ChannelTypes' /\ UiTypes'
    BY <1>4, <1>3, <1>8, <1>10 DEF ChannelTypes, UiTypes
  <2>2. FileTypes' /\ NoticeTypes' /\ WatcherTypes' /\ BusTypes' /\ LoadTypes' /\ UserTypes'
    BY <1>1, <1>3 DEF FileTypes, NoticeTypes, WatcherTypes, BusTypes, LoadTypes, UserTypes
  <2>3. TypeOK'
    BY <2>1, <2>2, TypeParts, PTL
  <2>4. IsFiniteSet(loads')
    BY <1>3 DEF Inv
  <2> QED BY <1>10, <2>3, <2>4 DEF Inv
<1>11. ASSUME NEW g \in Files \ untold, g \in ToSet(ui.tabs), disk[g] = Gone
       PROVE  RemovalComing(g) \/ (g \in ui.known /\ InFlight(g))
  BY <1>3, <1>11 DEF Inv, TabInv, Doomed
<1>12. CASE e.kind = "FileLoaded" /\ e.text = Gone
  <2>1. ui' = LoadFailed(ui, f) /\ untold' = untold \cup ({ui.loaded} \ {NoFile})
    BY <1>7, <1>12 DEF Blanked
  <2>2. /\ ui' \in UiState /\ ui'.known = ui.known \ {f} /\ ui'.marked = ui.marked \ {f}
        /\ ToSet(ui'.tabs) = IF f \in ui.known THEN ToSet(ui.tabs) \ {f} ELSE ToSet(ui.tabs)
        /\ ui'.pending = NoFile /\ ui'.loaded = ui.loaded
    BY <1>6, <1>8, <2>1, FailingToLoad
  <2>3. LoadedInv' /\ PendingInv' /\ MarkedKnown'
    BY <1>8, <2>1, <2>2 DEF LoadedInv, PendingInv, MarkedKnown
  <2>4. ASSUME NEW g \in Files \ untold', g \in ToSet(ui'.tabs), disk'[g] = Gone
        PROVE  Doomed(g)'
    <3>1. RemovalComing(g) \/ (g \in ui.known /\ InFlight(g))
      BY <1>3, <1>11, <2>1, <2>2, <2>4
    <3>2. RemovalComing(g) => RemovalComing(g)'
      BY <1>9, <1>12
    <3>3. g \in ui.known => g # f
      BY <2>2, <2>4
    <3>4. g \in ui.known /\ InFlight(g) => g \in ui'.known /\ InFlight(g)'
      BY <1>9, <2>2, <3>3
    <3> QED BY <3>1, <3>2, <3>4 DEF Doomed
  <2>5. TabInv'
    BY <2>4 DEF TabInv
  <2> QED BY <1>8, <1>10, <2>1, <2>2, <2>3, <2>5
<1>13. CASE e.kind = "FileLoaded" /\ e.text # Gone
  <2>1. /\ ui' = LoadedText(ui, f, e.text)
        /\ untold' = IF e.text # disk[f] /\ ~Reported(f, channel')
                          THEN untold \cup {f} ELSE untold \ {f}
    BY <1>7, <1>13
  <2>2. e.text \in Texts
    BY <1>4, <1>13 DEF Message, Reports, Loaded
  <2>3. /\ ui' \in UiState /\ ui'.tabs = ui.tabs /\ ui'.known = ui.known
        /\ ui'.marked = ui.marked /\ ui'.pending = NoFile /\ ui'.loaded = f
        /\ ui'.shown = e.text
    BY <1>6, <1>8, <2>1, <2>2, Loading
  <2>4. f \notin untold' => e.text = disk[f] \/ Tells(f)'
    <3>1. Reported(f, channel') <=> TellsOf(f, ToSet(channel'))
      BY <1>4, <1>6, ReportedTells DEF Inv
    <3>2. TellsOf(f, ToSet(channel')) <=> Tells(f)'
      BY <1>3 DEF Tells, TellsOf, WayOf, News
    <3> QED BY <2>1, <3>1, <3>2
  <2>5. LoadedInv'
    BY <1>3, <1>13, <2>3, <2>4 DEF LoadedInv, Stale
  <2>6. ASSUME NEW g \in Files \ untold', g \in ToSet(ui'.tabs), disk'[g] = Gone
        PROVE  Doomed(g)'
    <3>1. CASE g = f
      <4>1. Tells(g)' /\ disk'[g] = Gone
        BY <1>3, <1>13, <2>4, <2>6, <3>1
      <4>2. RemovalComing(g)'
        BY <4>1 DEF Tells, TellsOf, RemovalComing, OnTheWay, News, Removals
      <4> QED BY <4>2 DEF Doomed
    <3>2. CASE g # f
      <4>1. RemovalComing(g) \/ (g \in ui.known /\ InFlight(g))
        BY <1>3, <1>11, <2>1, <2>3, <2>6, <3>2
      <4>2. (RemovalComing(g) => RemovalComing(g)') /\ (InFlight(g) => InFlight(g)')
        BY <1>9, <3>2
      <4> QED BY <2>3, <4>1, <4>2 DEF Doomed
    <3> QED BY <3>1, <3>2
  <2>7. TabInv'
    BY <2>6 DEF TabInv
  <2>8. PendingInv' /\ MarkedKnown' /\ untold' \subseteq Files
    BY <1>6, <1>8, <2>1, <2>3 DEF PendingInv, MarkedKnown
  <2> QED BY <1>10, <2>3, <2>5, <2>7, <2>8
<1>14. CASE e.kind = "FileModified"
  <2>1. ui' = Forget(ui, f) /\ untold' = untold
    BY <1>7, <1>14
  <2>2. /\ ui' \in UiState /\ ui'.tabs = ui.tabs /\ ui'.known = ui.known
        /\ ui'.marked = ui.marked /\ ui'.shown = ui.shown /\ ui'.pending = ui.pending
        /\ ui'.loaded = IF ui.loaded = f THEN NoFile ELSE ui.loaded
    BY <1>6, <1>8, <2>1, Forgetting
  <2>3. LoadedInv'
    <3> SUFFICES ASSUME ui'.loaded # NoFile, ui'.loaded \notin untold', Stale(ui.loaded)',
                        ui'.loaded = ui.loaded, ui.loaded \in Files \ {f}
                 PROVE  Tells(ui.loaded)'
      BY <1>8, <2>2 DEF LoadedInv, Stale
    <3>1. Stale(ui.loaded)
      BY <1>3, <2>2 DEF Stale
    <3>2. PICK h : h = ui.loaded
      OBVIOUS
    <3>3. Tells(h)
      BY <2>1, <2>2, <3>1, <3>2 DEF Inv, LoadedInv
    <3>4. Tells(h)'
      BY <1>9, <3>2, <3>3
    <3> QED BY <2>2, <3>2, <3>4
  <2>4. ASSUME NEW g \in Files \ untold', g \in ToSet(ui'.tabs), disk'[g] = Gone
        PROVE  Doomed(g)'
    <3>1. RemovalComing(g) \/ (g \in ui.known /\ InFlight(g))
      BY <1>3, <1>11, <2>1, <2>2, <2>4
    <3>2. (RemovalComing(g) => RemovalComing(g)') /\ (InFlight(g) => InFlight(g)')
      BY <1>9, <1>14
    <3> QED BY <2>2, <3>1, <3>2 DEF Doomed
  <2>5. TabInv'
    BY <2>4 DEF TabInv
  <2>6. PendingInv' /\ MarkedKnown'
    <3>1. ASSUME ui.pending # NoFile PROVE InFlight(ui.pending)'
      <4>1. PICK h : h = ui.pending
        OBVIOUS
      <4>2. h \in Files /\ InFlight(h)
        BY <1>8, <3>1, <4>1 DEF Inv, PendingInv
      <4>3. InFlight(h)'
        BY <1>9, <1>14, <4>2
      <4> QED BY <2>2, <4>1, <4>3
    <3> QED BY <1>8, <2>2, <3>1 DEF PendingInv, MarkedKnown
  <2> QED BY <1>8, <1>10, <2>1, <2>2, <2>3, <2>5, <2>6
<1>15. CASE e.kind = "FileDeleted"
  <2>1. /\ ui' = FileDeleted(ui, f)
        /\ untold' = IF ui'.shown = ui.shown THEN untold
                        ELSE untold \cup ({ui'.loaded} \ {NoFile})
    BY <1>7, <1>15 DEF Blanked
  <2>2. /\ ui' \in UiState /\ ToSet(ui'.tabs) = ToSet(ui.tabs) \ {f}
        /\ ui'.known = ui.known /\ ui'.marked = ui.marked \ {f} /\ ui'.pending = ui.pending
        /\ ui'.loaded = NoFile \/ (ui'.loaded = ui.loaded /\ ui'.loaded # f)
    <3> DEFINE v == FileDeleted(ui, f)
    <3>1. /\ v \in UiState /\ ToSet(v.tabs) = ToSet(ui.tabs) \ {f}
          /\ v.known = ui.known /\ v.marked = ui.marked \ {f} /\ v.pending = ui.pending
          /\ v.loaded = NoFile \/ (v.loaded = ui.loaded /\ v.loaded # f)
      BY <1>6, <1>8, Deleting
    <3>2. ui' = v
      BY <2>1
    <3> HIDE DEF v
    <3> QED BY <3>1, <3>2
  <2>3. untold \subseteq untold' /\ untold' \subseteq Files
    <3>1. ui'.loaded \in Files \cup {NoFile}
      BY <1>8, <2>2
    <3> QED BY <1>8, <2>1, <3>1
  <2>4. LoadedInv'
    <3> SUFFICES ASSUME ui'.loaded # NoFile, ui'.loaded \notin untold', Stale(ui.loaded)'
                 PROVE  Tells(ui.loaded)'
      BY DEF LoadedInv
    <3>1. PICK h : h = ui.loaded
      OBVIOUS
    <3>2. h \in Files /\ h # f /\ ui'.loaded = h /\ ui'.shown = ui.shown
      BY <1>8, <2>1, <2>2, <3>1
    <3>3. Stale(h)
      BY <1>3, <3>2 DEF Stale
    <3>4. Tells(h)
      BY <2>3, <3>1, <3>2, <3>3 DEF Inv, LoadedInv
    <3>5. Tells(h)'
      BY <1>9, <3>2, <3>4
    <3> QED BY <3>2, <3>5
  <2>5. ASSUME NEW g \in Files \ untold', g \in ToSet(ui'.tabs), disk'[g] = Gone
        PROVE  Doomed(g)'
    <3>1. g # f /\ (RemovalComing(g) \/ (g \in ui.known /\ InFlight(g)))
      BY <1>3, <1>11, <2>2, <2>3, <2>5
    <3>2. (RemovalComing(g) => RemovalComing(g)') /\ (InFlight(g) => InFlight(g)')
      BY <1>9, <3>1
    <3> QED BY <2>2, <3>1, <3>2 DEF Doomed
  <2>6. TabInv'
    BY <2>5 DEF TabInv
  <2>7. PendingInv' /\ MarkedKnown'
    <3>1. ASSUME ui.pending # NoFile PROVE InFlight(ui.pending)'
      <4>1. PICK h : h = ui.pending
        OBVIOUS
      <4>2. h \in Files /\ InFlight(h)
        BY <1>8, <3>1, <4>1 DEF Inv, PendingInv
      <4>3. InFlight(h)'
        BY <1>9, <1>15, <4>2
      <4> QED BY <2>2, <4>1, <4>3
    <3> QED BY <1>8, <2>2, <3>1 DEF PendingInv, MarkedKnown
  <2> QED BY <1>10, <2>2, <2>3, <2>4, <2>6, <2>7
<1> QED BY <1>7, <1>12, <1>13, <1>14, <1>15

-----------------------------------------------------------------------------
(* The UI drains the file bus. *)

LEMMA DrainEventsKeeps == ASSUME Inv, DrainEvents PROVE Inv'
<1>1. /\ FileTypes /\ NoticeTypes /\ WatcherTypes /\ ChannelTypes /\ BusTypes
      /\ LoadTypes /\ UserTypes /\ UiTypes
  BY TypeParts DEF Inv
<1>2. PICK e : e = Head(fileBus)
  OBVIOUS
<1>3. /\ phase = "events" /\ fileBus # <<>> /\ fileBus' = Tail(fileBus)
      /\ UNCHANGED <<disk, watched, notices, changes, publishing, channel, loads, phase, command, editor,
                     untold, commands>>
  BY DEF DrainEvents, fileVars
<1>4. /\ e \in BusEvent /\ fileBus' \in Seq(BusEvent)
      /\ ToSet(fileBus) = {e} \cup ToSet(fileBus')
  BY <1>1, <1>2, <1>3, TailElems DEF BusTypes
<1>5. PICK f : f = e.path
  OBVIOUS
<1>6. f \in Files /\ (e.kind = "Removed" \/ e.kind = "Updated")
  BY <1>4, <1>5 DEF BusEvent, Reports
<1>7. \/ e.kind = "Removed" /\ ui' = CloseRemoved(Forget(ui, f), f)
      \/ e.kind = "Updated" /\ editor = NoFile /\ ui' = Forget(ui, f)
      \/ e.kind = "Updated" /\ editor # NoFile /\ ui' = ui
  BY <1>2, <1>5, <1>6 DEF DrainEvents
<1>8. /\ ui \in UiState /\ editor \in Files \cup {NoFile} /\ untold \subseteq Files
      /\ ui.loaded \in Files \cup {NoFile} /\ ui.pending \in Files \cup {NoFile}
      /\ ui.marked \subseteq ui.known
  BY <1>1 DEF Inv, MarkedKnown, UiTypes, UiState
<1>9. ASSUME NEW g \in Files
      PROVE  /\ g # f => (Tells(g) => Tells(g)')
             /\ g # f \/ e.kind = "Updated" => (RemovalComing(g) => RemovalComing(g)')
             /\ InFlight(g) => InFlight(g)'
  <2>1. \A r \in OnTheWay : r = e \/ r \in OnTheWay'
    BY <1>3, <1>4 DEF OnTheWay, WayOf
  <2>2. Tells(g) <=> \E r \in OnTheWay : r.path = g /\ r.kind \in News(g)
    BY DEF Tells, TellsOf, OnTheWay
  <2>3. Tells(g)' <=> \E r \in OnTheWay' : r.path = g /\ r.kind \in News(g)'
    BY DEF Tells, TellsOf, OnTheWay
  <2>4. News(g)' = News(g)
    BY <1>3 DEF News
  <2>5. g # f => (Tells(g) => Tells(g)')
    BY <1>5, <2>1, <2>2, <2>3, <2>4
  <2>6. g # f \/ e.kind = "Updated" => (RemovalComing(g) => RemovalComing(g)')
    BY <1>5, <2>1 DEF RemovalComing, Removals
  <2>7. InFlight(g) => InFlight(g)'
    BY <1>3 DEF InFlight
  <2> QED BY <2>5, <2>6, <2>7
\* Nothing is opened; the tabs of f are closed by its removal; f is not loaded any
\* more, or the editor hides its text.
<1>10. /\ ui' \in UiState /\ ui'.known = ui.known /\ ui'.marked = ui.marked
       /\ ui'.pending = ui.pending
       /\ ToSet(ui'.tabs) = IF e.kind = "Removed" THEN ToSet(ui.tabs) \ {f} ELSE ToSet(ui.tabs)
       /\ \/ ui'.loaded = NoFile
          \/ /\ ui'.loaded = ui.loaded /\ ui'.shown = ui.shown
             /\ ui.loaded # f \/ (e.kind = "Updated" /\ editor # NoFile)
  <2> DEFINE v == Forget(ui, f)
             w == CloseRemoved(v, f)
  <2>1. /\ v \in UiState /\ v.tabs = ui.tabs /\ v.known = ui.known /\ v.marked = ui.marked
        /\ v.shown = ui.shown /\ v.pending = ui.pending
        /\ v.loaded = IF ui.loaded = f THEN NoFile ELSE ui.loaded
    BY <1>6, <1>8, Forgetting
  <2> HIDE DEF v
  <2>2. /\ w \in UiState /\ ToSet(w.tabs) = ToSet(v.tabs) \ {f}
        /\ w.known = v.known /\ w.marked = v.marked /\ w.pending = v.pending
        /\ w.loaded = NoFile \/ (w.loaded = v.loaded /\ w.shown = v.shown)
    BY <1>6, <2>1, ClosingRemoved
  <2> HIDE DEF w
  <2>3. CASE e.kind = "Removed"
    <3>1. ui' = w
      BY <1>7, <2>3 DEF v, w
    <3> QED BY <2>1, <2>2, <2>3, <3>1
  <2>4. CASE e.kind = "Updated" /\ editor = NoFile
    <3>1. ui' = v
      BY <1>7, <2>4 DEF v
    <3> QED BY <2>1, <2>4, <3>1
  <2>5. CASE e.kind = "Updated" /\ editor # NoFile
    <3>1. ui' = ui
      BY <1>7, <2>5
    <3> QED BY <1>8, <2>5, <3>1
  <2> QED BY <1>6, <2>3, <2>4, <2>5
<1>11. TypeOK'
  <2>1. BusTypes' /\ UiTypes'
    BY <1>3, <1>4, <1>8, <1>10 DEF BusTypes, UiTypes
  <2>2. FileTypes' /\ NoticeTypes' /\ WatcherTypes' /\ ChannelTypes' /\ LoadTypes' /\ UserTypes'
    BY <1>1, <1>3 DEF FileTypes, NoticeTypes, WatcherTypes, ChannelTypes, LoadTypes, UserTypes
  <2> QED BY <2>1, <2>2, TypeParts, PTL
<1>12. LoadedInv'
  <2> SUFFICES ASSUME ui'.loaded # NoFile, ui'.loaded \notin untold', Stale(ui.loaded)'
               PROVE  Tells(ui.loaded)'
    BY DEF LoadedInv
  <2>1. PICK h : h = ui.loaded
    OBVIOUS
  <2>2. /\ h \in Files /\ ui'.loaded = h /\ ui'.shown = ui.shown
        /\ h # f \/ (e.kind = "Updated" /\ editor # NoFile)
    BY <1>8, <1>10, <2>1
  <2>3. Stale(h)
    BY <1>3, <2>2 DEF Stale
  <2>4. Tells(h)
    BY <1>3, <2>1, <2>2, <2>3 DEF Inv, LoadedInv
  <2>5. Tells(h)'
    <3>1. CASE h # f
      BY <1>9, <2>2, <2>4, <3>1
    <3>2. CASE e.kind = "Updated" /\ editor # NoFile
      <4>1. disk[h] = Gone
        BY <2>3, <3>2 DEF Stale
      <4>2. RemovalComing(h)
        BY <2>2, <2>4, <4>1, GoneIsTold
      <4>3. RemovalComing(h)'
        BY <1>9, <2>2, <3>2, <4>2
      <4> QED BY <4>3 DEF RemovalComing, Tells, TellsOf, OnTheWay, News, Removals
    <3> QED BY <2>2, <3>1, <3>2
  <2> QED BY <2>2, <2>5
<1>13. TabInv'
  <2> SUFFICES ASSUME NEW g \in Files \ untold', g \in ToSet(ui'.tabs), disk'[g] = Gone
               PROVE  Doomed(g)'
    BY DEF TabInv
  <2>1. /\ g \in ToSet(ui.tabs) /\ (g # f \/ e.kind = "Updated")
        /\ g \notin untold /\ disk[g] = Gone
    BY <1>3, <1>6, <1>10
  <2>2. RemovalComing(g) \/ (g \in ui.known /\ InFlight(g))
    BY <1>3, <2>1 DEF Inv, TabInv, Doomed
  <2> QED BY <1>9, <1>10, <2>1, <2>2 DEF Doomed
<1>14. PendingInv' /\ MarkedKnown' /\ IsFiniteSet(loads')
  <2>1. ASSUME ui.pending # NoFile PROVE InFlight(ui.pending)'
    <3>1. PICK h : h = ui.pending
      OBVIOUS
    <3>2. h \in Files /\ InFlight(h)
      BY <1>8, <2>1, <3>1 DEF Inv, PendingInv
    <3>3. InFlight(h)'
      BY <1>9, <3>2
    <3> QED BY <1>10, <3>1, <3>3
  <2>2. PendingInv' /\ MarkedKnown'
    BY <1>8, <1>10, <2>1 DEF PendingInv, MarkedKnown
  <2> QED BY <1>3, <2>2 DEF Inv
<1> QED BY <1>11, <1>12, <1>13, <1>14 DEF Inv

-----------------------------------------------------------------------------
(* The commands of the user. *)

Applying == /\ phase = "commands" /\ phase' = "draw" /\ command' = Nothing
            /\ UNCHANGED <<watched, changes, publishing, channel, loads, commands>>

\* A command that changes files tells of all of them that are not untold; what it loads has been
\* changed or is hidden by the editor; the tab that it opens is of a file that
\* it has changed, that is there or that it selects.
LEMMA ApplyingKeeps ==
    ASSUME Inv, Applying, NEW changed \in SUBSET Files,
           disk' \in [Files -> Texts \cup {Gone}], ui' \in UiState,
           editor' \in Files \cup {NoFile}, NoticeTypes', BusTypes',
           ToSet(notices) \subseteq ToSet(notices'), ToSet(fileBus) \subseteq ToSet(fileBus'),
           \A g \in changed \ untold' : Tells(g)',
           untold \subseteq untold', untold' \subseteq Files,
           \A g \in Files \ changed : disk'[g] = disk[g],
           ui.known \subseteq ui'.known, ui'.marked \subseteq ui'.known,
           ui'.pending = ui.pending,
           \/ ui'.loaded \in changed
           \/ ui'.loaded = ui.loaded /\ ui'.shown = ui.shown /\ editor' = editor
           \/ disk'[ui'.loaded] # Gone /\ editor' # NoFile,
           \A g \in ToSet(ui'.tabs) : \/ g \in ToSet(ui.tabs) \/ g \in changed
                                      \/ disk'[g] # Gone
                                      \/ g \in ui'.known /\ ui'.selected = g
    PROVE  Inv'
<1>1. /\ FileTypes /\ NoticeTypes /\ WatcherTypes /\ ChannelTypes /\ BusTypes
      /\ LoadTypes /\ UserTypes /\ UiTypes
  BY TypeParts DEF Inv
<1>2. TypeOK'
  <2>1. FileTypes' /\ UiTypes'
    BY <1>1 DEF Applying, FileTypes, UiTypes
  <2>2. WatcherTypes' /\ ChannelTypes' /\ LoadTypes'
    BY <1>1 DEF Applying, WatcherTypes, ChannelTypes, LoadTypes
  <2>3. Nothing \in Command
    BY DEF Nothing, Command
  <2>4. UserTypes'
    BY <1>1, <2>3 DEF Applying, UserTypes
  <2> QED BY <2>1, <2>2, <2>4, TypeParts, PTL
<1>3. /\ ui.loaded \in Files \cup {NoFile} /\ ui.pending \in Files \cup {NoFile}
      /\ ui'.loaded \in Files \cup {NoFile}
  BY <1>1 DEF UiTypes, UiState
<1>4. ASSUME NEW g \in Files \ changed
      PROVE  (Tells(g) => Tells(g)') /\ (RemovalComing(g) => RemovalComing(g)')
  <2>1. \A r \in OnTheWay : r \in OnTheWay'
    BY DEF Applying, OnTheWay, WayOf
  <2> QED BY <1>4, <2>1, WayKept
<1>5. ASSUME NEW g \in Files PROVE InFlight(g) => InFlight(g)'
  BY DEF Applying, InFlight
<1>6. LoadedInv'
  <2> SUFFICES ASSUME ui'.loaded # NoFile, ui'.loaded \notin untold', Stale(ui.loaded)'
               PROVE  Tells(ui.loaded)'
    BY DEF LoadedInv
  <2>1. PICK h : h = ui'.loaded
    OBVIOUS
  <2>2. CASE h \in changed
    BY <2>1, <2>2
  <2>3. CASE h \notin changed /\ h = ui.loaded /\ ui'.shown = ui.shown /\ editor' = editor
    <3>1. Stale(h)
      BY <1>3, <2>1, <2>3 DEF Stale
    <3>2. Tells(h)
      BY <2>1, <2>3, <3>1 DEF Applying, Inv, LoadedInv
    <3> QED BY <1>3, <1>4, <2>1, <2>3, <3>2
  <2>4. CASE disk'[h] # Gone /\ editor' # NoFile
    BY <2>1, <2>4 DEF Stale
  <2> QED BY <2>1, <2>2, <2>3, <2>4
<1>7. TabInv'
  <2> SUFFICES ASSUME NEW g \in Files \ untold', g \in ToSet(ui'.tabs), disk'[g] = Gone
               PROVE  Doomed(g)'
    BY DEF TabInv
  <2>0. g \notin untold
    OBVIOUS
  <2>1. CASE g \in changed
    <3>1. Tells(g)' /\ disk'[g] = Gone
      BY <2>1
    <3>2. RemovalComing(g)'
      BY <3>1 DEF Tells, TellsOf, RemovalComing, OnTheWay, News, Removals
    <3> QED BY <3>2 DEF Doomed
  <2>2. CASE g \in ui'.known /\ ui'.selected = g
    BY <2>2 DEF Applying, Doomed
  <2>3. CASE g \notin changed /\ g \in ToSet(ui.tabs)
    <3>1. RemovalComing(g) \/ (g \in ui.known /\ InFlight(g))
      BY <2>0, <2>3 DEF Applying, Inv, TabInv, Doomed
    <3> QED BY <1>4, <1>5, <2>3, <3>1 DEF Doomed
  <2> QED BY <2>1, <2>2, <2>3
<1>8. PendingInv' /\ MarkedKnown' /\ IsFiniteSet(loads')
  <2>1. ASSUME ui.pending # NoFile PROVE InFlight(ui.pending)'
    <3>1. PICK h : h = ui.pending
      OBVIOUS
    <3>2. h \in Files /\ InFlight(h)
      BY <1>3, <2>1, <3>1 DEF Inv, PendingInv
    <3> QED BY <1>5, <3>1, <3>2
  <2> QED BY <2>1 DEF Applying, Inv, PendingInv, MarkedKnown
<1> QED BY <1>2, <1>6, <1>7, <1>8 DEF Inv

LEMMA UiCommandKeeps == ASSUME Inv, Applying, ApplyUiCommand PROVE Inv'
<1>1. /\ NoticeTypes /\ BusTypes /\ FileTypes /\ UserTypes /\ UiTypes
      /\ ui \in UiState /\ ui.marked \subseteq ui.known
  BY TypeParts DEF Inv, MarkedKnown, UiTypes
<1>2. UNCHANGED <<disk, notices, fileBus, editor, untold>>
  BY DEF ApplyUiCommand
<1>3. PICK c \in Command : c = command
  BY <1>1 DEF UserTypes
<1>4. PICK w : w \in Effect(c) /\ ui' = w /\ c.kind \in UiCommands
  BY <1>3 DEF ApplyUiCommand
<1>5. Clicked(ui, w)
  <2>1. CASE c.kind = "Select"
    <3>1. w = SelectFile(ui, c.path) /\ c.path \in Files
      BY <1>4, <2>1 DEF Effect, Command
    <3> QED BY <1>1, <3>1, Selecting
  <2>2. CASE c.kind = "Toggle"
    <3>1. w \in ToggleFile(ui, c.path) /\ c.path \in Files
      BY <1>4, <2>2 DEF Effect, Command
    <3> QED BY <1>1, <3>1, Toggling
  <2>3. CASE c.kind = "Directory"
    <3>1. w = SelectDirectory(ui)
      BY <1>4, <2>3 DEF Effect
    <3> QED BY <1>1, <3>1, ClosingTabs
  <2>4. CASE c.kind = "CloseAll"
    <3>1. w = CloseAllTabs(ui)
      BY <1>4, <2>4 DEF Effect
    <3> QED BY <1>1, <3>1, ClosingTabs
  <2>5. CASE c.kind = "CloseTab"
    <3>1. w = CloseTab(ui, c.tab) /\ c.tab \in Nat \ {0}
      BY <1>4, <2>5 DEF Effect, Command
    <3> QED BY <1>1, <3>1, ClosingTabs
  <2>6. CASE c.kind = "CloseOthers"
    <3>1. w = CloseOtherTabs(ui, c.tab) /\ c.tab \in Nat \ {0}
      BY <1>4, <2>6 DEF Effect, Command
    <3> QED BY <1>1, <3>1, ClosingTabs
  <2> QED BY <1>4, <2>1, <2>2, <2>3, <2>4, <2>5, <2>6 DEF UiCommands
<1>6. /\ ui' \in UiState /\ ui.known \subseteq ui'.known /\ ui'.marked \subseteq ui'.known
      /\ ui'.pending = ui.pending /\ ui'.loaded = ui.loaded /\ ui'.shown = ui.shown
      /\ \A g \in ToSet(ui'.tabs) : g \in ToSet(ui.tabs) \/ (g \in ui'.known /\ ui'.selected = g)
  BY <1>1, <1>4, <1>5 DEF Clicked
<1>7. /\ disk' \in [Files -> Texts \cup {Gone}] /\ editor' \in Files \cup {NoFile}
      /\ NoticeTypes' /\ BusTypes'
      /\ ToSet(notices) \subseteq ToSet(notices') /\ ToSet(fileBus) \subseteq ToSet(fileBus')
      /\ untold \subseteq untold' /\ untold' \subseteq Files
  BY <1>1, <1>2 DEF FileTypes, UiTypes, NoticeTypes, BusTypes
<1> DEFINE changed == {}
<1>8. /\ changed \in SUBSET Files /\ \A g \in changed : Tells(g)'
      /\ \A g \in Files \ changed : disk'[g] = disk[g]
  BY <1>2
<1> HIDE DEF changed
<1> QED BY <1>2, <1>6, <1>7, <1>8, ApplyingKeeps

LEMMA OpenInEditorKeeps == ASSUME Inv, Applying, OpenInEditor PROVE Inv'
<1>1. /\ NoticeTypes /\ BusTypes /\ FileTypes /\ UserTypes /\ UiTypes
      /\ ui \in UiState /\ ui.tabs \in Seq(Files) /\ ui.marked \subseteq ui.known
  BY TypeParts DEF Inv, MarkedKnown, UiTypes, UiState
<1>2. PICK f : f = command.path
  OBVIOUS
<1>3. /\ UNCHANGED <<disk, notices, fileBus, untold>>
      /\ IF disk[f] = Gone THEN UNCHANGED <<ui, editor>>
         ELSE /\ editor' = f
              /\ ui' = [ui EXCEPT !.loaded = f,
                                  !.tabs = IF Contains(@, f) THEN @ ELSE Append(@, f)]
  BY <1>2 DEF OpenInEditor
<1>4. f \in Files
  BY <1>1, <1>2 DEF OpenInEditor, UserTypes, Command
<1>5. /\ disk' \in [Files -> Texts \cup {Gone}] /\ editor' \in Files \cup {NoFile}
      /\ NoticeTypes' /\ BusTypes'
      /\ ToSet(notices) \subseteq ToSet(notices') /\ ToSet(fileBus) \subseteq ToSet(fileBus')
      /\ untold \subseteq untold' /\ untold' \subseteq Files
  BY <1>1, <1>3, <1>4 DEF FileTypes, UiTypes, NoticeTypes, BusTypes
<1>6. /\ ui' \in UiState /\ ui'.known = ui.known /\ ui'.marked = ui.marked
      /\ ui'.pending = ui.pending
      /\ \/ ui'.loaded = ui.loaded /\ ui'.shown = ui.shown /\ editor' = editor
         \/ disk'[ui'.loaded] # Gone /\ editor' # NoFile
      /\ \A g \in ToSet(ui'.tabs) : g \in ToSet(ui.tabs) \/ disk'[g] # Gone
  <2>1. CASE disk[f] = Gone
    BY <1>1, <1>3, <2>1
  <2>2. CASE disk[f] # Gone
    <3> DEFINE tabs == IF Contains(ui.tabs, f) THEN ui.tabs ELSE Append(ui.tabs, f)
    <3>1. tabs \in Seq(Files) /\ \A g \in ToSet(tabs) : g \in ToSet(ui.tabs) \/ g = f
      <4>1. Append(ui.tabs, f) \in Seq(Files) /\ ToSet(Append(ui.tabs, f)) = ToSet(ui.tabs) \cup {f}
        BY <1>1, <1>4, AppendElems
      <4> QED BY <1>1, <4>1
    <3>2. ui' = [ui EXCEPT !.loaded = f, !.tabs = tabs] /\ editor' = f
      BY <1>3, <2>2
    <3> HIDE DEF tabs
    <3>3. /\ ui' \in UiState /\ ui'.known = ui.known /\ ui'.marked = ui.marked
          /\ ui'.pending = ui.pending /\ ui'.loaded = f /\ ui'.tabs = tabs
      BY <1>1, <1>4, <3>1, <3>2 DEF UiState
    <3>4. editor' # NoFile /\ disk'[f] # Gone
      BY <1>3, <1>4, <2>2, <3>2, ViewerAssumption
    <3> QED BY <3>1, <3>3, <3>4
  <2> QED BY <2>1, <2>2
<1> DEFINE changed == {}
<1>7. /\ changed \in SUBSET Files /\ \A g \in changed : Tells(g)'
      /\ \A g \in Files \ changed : disk'[g] = disk[g]
  BY <1>3
<1> HIDE DEF changed
<1> QED BY <1>1, <1>5, <1>6, <1>7, ApplyingKeeps

LEMMA DeleteKeeps == ASSUME Inv, Applying, Delete PROVE Inv'
<1>1. /\ NoticeTypes /\ BusTypes /\ FileTypes /\ UserTypes /\ UiTypes
      /\ ui \in UiState /\ ui.marked \subseteq ui.known
  BY TypeParts DEF Inv, MarkedKnown, UiTypes
<1>2. PICK f : f = command.path
  OBVIOUS
<1>3. PICK b : b = Report("Removed", f)
  OBVIOUS
<1>4. /\ UNCHANGED <<ui, editor, untold>>
      /\ IF disk[f] = Gone THEN UNCHANGED <<disk, notices, fileBus>>
         ELSE /\ disk' = [disk EXCEPT ![f] = Gone]
              /\ \E kind \in {"Modify", "Remove"} : notices' = notices \o Notice(kind, f)
              /\ fileBus' = Append(fileBus, b)
  BY <1>2, <1>3 DEF Delete
<1>5. f \in Files
  BY <1>1, <1>2 DEF Delete, UserTypes, Command
<1>6. b \in BusEvent /\ b.path = f /\ b.kind = "Removed"
  BY <1>3, <1>5 DEF BusEvent, Reports, Report
<1>7. /\ \A kind \in {"Modify", "Remove"} :
           /\ notices \o Notice(kind, f) \in Seq(Note)
           /\ ToSet(notices) \subseteq ToSet(notices \o Notice(kind, f))
      /\ Append(fileBus, b) \in Seq(BusEvent)
      /\ ToSet(Append(fileBus, b)) = ToSet(fileBus) \cup {b}
  BY <1>1, <1>5, <1>6, AppendElems, NoticeFacts DEF BusTypes
<1> DEFINE changed == IF disk[f] = Gone THEN {} ELSE {f}
<1>8. /\ disk' \in [Files -> Texts \cup {Gone}] /\ editor' \in Files \cup {NoFile}
      /\ NoticeTypes' /\ BusTypes'
      /\ ToSet(notices) \subseteq ToSet(notices') /\ ToSet(fileBus) \subseteq ToSet(fileBus')
      /\ untold \subseteq untold' /\ untold' \subseteq Files
      /\ \A g \in Files \ changed : disk'[g] = disk[g]
      /\ changed # {} => b \in ToSet(fileBus')
  BY <1>1, <1>4, <1>5, <1>7 DEF FileTypes, UiTypes, NoticeTypes, BusTypes
<1>9. /\ changed \in SUBSET Files /\ \A g \in changed : Tells(g)'
  <2>1. b \in ToSet(fileBus') => Tells(f)'
    BY <1>6 DEF Tells, TellsOf, WayOf, News
  <2> QED BY <1>5, <1>8, <2>1
<1> HIDE DEF changed
<1> QED BY <1>1, <1>4, <1>8, <1>9, ApplyingKeeps

LEMMA RenameKeeps == ASSUME Inv, Applying, Rename PROVE Inv'
<1>1. /\ NoticeTypes /\ BusTypes /\ FileTypes /\ UserTypes /\ UiTypes
      /\ ui \in UiState /\ ui.marked \subseteq ui.known /\ ui.loaded \in Files \cup {NoFile}
  BY TypeParts DEF Inv, MarkedKnown, UiTypes, UiState
<1>2. PICK f, g : f = command.path /\ g = command.to
  OBVIOUS
<1>3. PICK n, b : n = Report("Modify", g) /\ b = Report("Removed", f)
  OBVIOUS
<1>4. /\ editor' = editor
      /\ IF disk[f] = Gone THEN UNCHANGED <<disk, notices, fileBus, ui, untold>>
         ELSE /\ disk' = [disk EXCEPT ![g] = disk[f], ![f] = Gone]
              /\ notices' = notices \o (Notice("Modify", f) \o Notice("Modify", g))
              /\ fileBus' = Append(fileBus, b)
              /\ ui' = Renamed(ui, f, g) /\ untold' = untold \cup ({g} \ watched)
  BY <1>2, <1>3 DEF Rename
<1>5. f \in Files /\ g \in Files
  BY <1>1, <1>2 DEF Rename, UserTypes, Command
<1>6. /\ b \in BusEvent /\ b.path = f /\ b.kind = "Removed"
      /\ n.path = g /\ n.kind = "Modify"
  BY <1>3, <1>5 DEF BusEvent, Reports, Report
<1>7. CASE disk[f] = Gone
  <2>1. /\ UNCHANGED <<disk, notices, fileBus, ui, editor, untold>>
    BY <1>4, <1>7
  <2>2. /\ disk' \in [Files -> Texts \cup {Gone}] /\ editor' \in Files \cup {NoFile}
        /\ NoticeTypes' /\ BusTypes'
        /\ ToSet(notices) \subseteq ToSet(notices') /\ ToSet(fileBus) \subseteq ToSet(fileBus')
        /\ untold \subseteq untold' /\ untold' \subseteq Files
    BY <1>1, <2>1 DEF FileTypes, UiTypes, NoticeTypes, BusTypes
  <2> DEFINE changed == {}
  <2>3. /\ changed \in SUBSET Files /\ \A h \in changed : Tells(h)'
        /\ \A h \in Files \ changed : disk'[h] = disk[h]
    BY <2>1
  <2> HIDE DEF changed
  <2> QED BY <1>1, <2>1, <2>2, <2>3, ApplyingKeeps
<1>8. CASE disk[f] # Gone
  <2>1. /\ notices' \in Seq(Note) /\ ToSet(notices) \subseteq ToSet(notices')
        /\ g \in watched => n \in ToSet(notices')
    <3>1. PICK s, t : s = Notice("Modify", f) /\ t = Notice("Modify", g)
      OBVIOUS
    <3>2. s \in Seq(Note) /\ t \in Seq(Note) /\ (g \in watched => n \in ToSet(t))
      BY <1>1, <1>3, <1>5, <3>1, NoticeFacts
    <3>3. s \o t \in Seq(Note) /\ ToSet(s \o t) = ToSet(s) \cup ToSet(t)
      BY <3>2, ConcatElems
    <3>4. PICK two : two = s \o t
      OBVIOUS
    <3>5. notices' = notices \o two
      BY <1>4, <1>8, <3>1, <3>4
    <3>6. ToSet(notices') = ToSet(notices) \cup ToSet(two) /\ notices' \in Seq(Note)
      <4>1. two \in Seq(Note) /\ notices \in Seq(Note)
        BY <1>1, <3>3, <3>4 DEF NoticeTypes
      <4>2. PICK all : all = notices \o two
        OBVIOUS
      <4>3. all \in Seq(Note) /\ ToSet(all) = ToSet(notices) \cup ToSet(two)
        BY <4>1, <4>2, ConcatElems
      <4> QED BY <3>5, <4>2, <4>3
    <3> QED BY <3>2, <3>3, <3>4, <3>6
  <2>2. fileBus' \in Seq(BusEvent) /\ ToSet(fileBus') = ToSet(fileBus) \cup {b}
    <3>1. Append(fileBus, b) \in Seq(BusEvent) /\ ToSet(Append(fileBus, b)) = ToSet(fileBus) \cup {b}
      BY <1>1, <1>6, AppendElems DEF BusTypes
    <3> QED BY <1>4, <1>8, <3>1
  <2>3. /\ disk' \in [Files -> Texts \cup {Gone}] /\ disk'[f] = Gone
        /\ g # f => disk'[g] # Gone
        /\ \A h \in Files \ {f, g} : disk'[h] = disk[h]
    BY <1>1, <1>4, <1>5, <1>8 DEF FileTypes
  <2>4. Tells(f)'
    BY <1>6, <2>2 DEF Tells, TellsOf, WayOf, News
  <2>5. g # f /\ g \in watched => Tells(g)'
    BY <1>6, <2>1, <2>3 DEF Tells, TellsOf, WayOf, News
  <2>6. /\ ui' \in UiState /\ ui'.known = ui.known /\ ui'.marked = ui.marked
        /\ ui'.shown = ui.shown /\ ui'.pending = ui.pending
        /\ ui'.loaded = IF ui.loaded = f THEN g ELSE ui.loaded
        /\ \A h \in ToSet(ui'.tabs) : h = g \/ h \in ToSet(ui.tabs)
    <3> DEFINE v == Renamed(ui, f, g)
    <3>1. /\ v \in UiState /\ v.known = ui.known /\ v.marked = ui.marked
          /\ v.shown = ui.shown /\ v.pending = ui.pending
          /\ v.loaded = IF ui.loaded = f THEN g ELSE ui.loaded
          /\ \A h \in ToSet(v.tabs) : h = g \/ h \in ToSet(ui.tabs)
      BY <1>1, <1>5, Renaming
    <3>2. ui' = v
      BY <1>4, <1>8
    <3> HIDE DEF v
    <3> QED BY <3>1, <3>2
  <2>7. NoticeTypes' /\ BusTypes' /\ editor' \in Files \cup {NoFile}
    BY <1>1, <1>4, <2>1, <2>2 DEF NoticeTypes, BusTypes, UiTypes
  <2> DEFINE changed == {f, g}
  <2>8. /\ changed \in SUBSET Files /\ \A h \in changed \ untold' : Tells(h)'
        /\ \A h \in Files \ changed : disk'[h] = disk[h]
        /\ untold \subseteq untold' /\ untold' \subseteq Files
    BY <1>1, <1>4, <1>5, <1>8, <2>3, <2>4, <2>5 DEF UiTypes
  <2>9. g \in changed
    OBVIOUS
  <2> HIDE DEF changed
  <2>10. \/ ui'.loaded \in changed
         \/ ui'.loaded = ui.loaded /\ ui'.shown = ui.shown /\ editor' = editor
    BY <1>4, <2>6, <2>9
  <2> QED BY <1>1, <2>1, <2>2, <2>3, <2>6, <2>7, <2>8, <2>9, <2>10, ApplyingKeeps
<1> QED BY <1>7, <1>8

LEMMA ApplyKeeps == ASSUME Inv, Apply PROVE Inv'
<1>1. Applying
  BY DEF Apply, Applying
<1>2. CASE command = Nothing /\ UNCHANGED <<disk, notices, fileBus, ui, editor, untold>>
  <2>1. /\ NoticeTypes /\ BusTypes /\ FileTypes /\ UiTypes
        /\ ui \in UiState /\ ui.marked \subseteq ui.known
    BY TypeParts DEF Inv, MarkedKnown, UiTypes
  <2>2. /\ disk' \in [Files -> Texts \cup {Gone}] /\ editor' \in Files \cup {NoFile}
        /\ NoticeTypes' /\ BusTypes'
        /\ ToSet(notices) \subseteq ToSet(notices') /\ ToSet(fileBus) \subseteq ToSet(fileBus')
        /\ untold \subseteq untold' /\ untold' \subseteq Files
    BY <1>2, <2>1 DEF FileTypes, UiTypes, NoticeTypes, BusTypes
  <2> DEFINE changed == {}
  <2>3. /\ changed \in SUBSET Files /\ \A g \in changed : Tells(g)'
        /\ \A g \in Files \ changed : disk'[g] = disk[g]
    BY <1>2
  <2> HIDE DEF changed
  <2> QED BY <1>1, <1>2, <2>1, <2>2, <2>3, ApplyingKeeps
<1> QED BY <1>1, <1>2, UiCommandKeeps, OpenInEditorKeeps, DeleteKeeps, RenameKeeps DEF Apply

-----------------------------------------------------------------------------
(* The UI draws. *)

\* There is always a number that no loader has.
LEMMA FreeNumber ==
    ASSUME loads \subseteq Load, IsFiniteSet(loads)
    PROVE  \E n \in 1 .. (Cardinality(loads) + 1) : \A l \in loads : l.id # n
<1>1. Cardinality(loads) \in Nat
  BY FS_CardinalityType
<1> SUFFICES ASSUME \A n \in 1 .. (Cardinality(loads) + 1) : \E l \in loads : l.id = n
             PROVE  FALSE
  OBVIOUS
<1> DEFINE ids == {l.id : l \in loads}
           number == [l \in loads |-> l.id]
           numbers == 1 .. (Cardinality(loads) + 1)
<1>2. number \in Surjection(loads, ids)
  BY DEF Surjection
<1> HIDE DEF number
<1>3. IsFiniteSet(ids) /\ Cardinality(ids) <= Cardinality(loads)
  BY <1>2, FS_Surjection
<1>4. numbers \in SUBSET ids
  OBVIOUS
<1>5. Cardinality(numbers) = Cardinality(loads) + 1
  BY <1>1, FS_Interval
<1> HIDE DEF ids, numbers
<1>6. Cardinality(numbers) <= Cardinality(ids) /\ Cardinality(ids) \in Nat
  BY <1>3, <1>4, FS_Subset, FS_CardinalityType
<1> QED BY <1>1, <1>3, <1>5, <1>6

LEMMA Spawning ==
    ASSUME TypeOK, IsFiniteSet(loads), SpawnLoad
    PROVE  /\ LoadTypes' /\ IsFiniteSet(loads') /\ loads \subseteq loads'
           /\ NeedsLoad => ui.selected \in Files /\ \E l \in loads' : l.path = ui.selected
<1>1. loads \subseteq Load /\ ui.selected \in Files \cup {NoFile}
  BY TypeParts DEF LoadTypes, UiTypes, UiState
<1>2. CASE ~NeedsLoad
  BY <1>1, <1>2 DEF SpawnLoad, LoadTypes
<1>3. CASE NeedsLoad
  <2> DEFINE n == CHOOSE n \in 1 .. (Cardinality(loads) + 1) : \A l \in loads : l.id # n
             m == [id |-> n, path |-> ui.selected, text |-> Unread]
  <2>1. Cardinality(loads) \in Nat
    BY FS_CardinalityType
  <2>2. n \in 1 .. (Cardinality(loads) + 1)
    <3> HIDE DEF n
    <3> QED BY <1>1, FreeNumber DEF n
  <2>3. n \in Nat
    <3> HIDE DEF n
    <3> QED BY <2>1, <2>2
  <2>4. loads' = loads \cup {m}
    BY <1>3 DEF SpawnLoad
  <2> HIDE DEF n
  <2>5. ui.selected \in Files
    BY <1>1, <1>3 DEF NeedsLoad
  <2>6. m \in Load /\ m.path = ui.selected
    BY <2>3, <2>5 DEF Load
  <2> HIDE DEF m
  <2>7. IsFiniteSet(loads')
    BY <2>4, FS_AddElement
  <2> QED BY <1>1, <2>4, <2>5, <2>6, <2>7 DEF LoadTypes
<1> QED BY <1>2, <1>3

LEMMA Requesting ==
    ASSUME ui \in UiState, NEW v, v = Requested
    PROVE  /\ v \in UiState /\ v.tabs = ui.tabs /\ v.known = ui.known /\ v.marked = ui.marked
           /\ v.loaded = ui.loaded /\ v.shown = ui.shown
           /\ v.pending = IF NeedsLoad THEN ui.selected ELSE ui.pending
<1>1. CASE NeedsLoad
  <2>1. v = [ui EXCEPT !.pending = ui.selected]
    BY <1>1 DEF Requested
  <2> QED BY <1>1, <2>1 DEF UiState
<1>2. CASE ~NeedsLoad
  BY <1>2 DEF Requested, UiState
<1> QED BY <1>1, <1>2

\* What was selected is asked for, or is what the viewer has or waits for.
LEMMA DrawingKeeps ==
    ASSUME Inv, SpawnLoad, phase = "draw", UNCHANGED <<channel, untold>>,
           ui'.tabs = ui.tabs, ui'.known = ui.known, ui'.marked = ui.marked,
           ui'.pending = IF NeedsLoad THEN ui.selected ELSE ui.pending,
           \A r \in OnTheWay : r \in OnTheWay',
           \A g \in Files : disk'[g] = Gone => disk[g] = Gone
    PROVE  TabInv' /\ PendingInv' /\ MarkedKnown'
<1>1. /\ ui.pending \in Files \cup {NoFile} /\ ui.selected \in Files \cup {NoFile}
      /\ IsFiniteSet(loads) /\ TypeOK
  BY TypeParts DEF Inv, UiTypes, UiState
<1>2. /\ loads \subseteq loads'
      /\ NeedsLoad => ui.selected \in Files /\ \E l \in loads' : l.path = ui.selected
  BY <1>1, Spawning
<1>3. ASSUME NEW g \in Files
      PROVE  /\ RemovalComing(g) => RemovalComing(g)'
             /\ InFlight(g) => InFlight(g)'
             /\ NeedsLoad /\ ui.selected = g => InFlight(g)'
  <2>1. RemovalComing(g) => RemovalComing(g)'
    BY DEF RemovalComing
  <2> QED BY <1>2, <2>1 DEF InFlight
<1>4. TabInv'
  <2> SUFFICES ASSUME NEW g \in Files \ untold', g \in ToSet(ui'.tabs), disk'[g] = Gone
               PROVE  Doomed(g)'
    BY DEF TabInv
  <2>1. g \in ToSet(ui.tabs) /\ disk[g] = Gone /\ g \notin untold
    OBVIOUS
  <2>2. RemovalComing(g) \/ (g \in ui.known /\ (InFlight(g) \/ ui.selected = g))
    BY <2>1 DEF Inv, TabInv, Doomed
  <2>3. CASE RemovalComing(g) \/ (g \in ui.known /\ InFlight(g))
    BY <1>3, <2>3 DEF Doomed
  <2>4. CASE g \in ui.known /\ ui.selected = g
    <3>1. CASE NeedsLoad
      BY <1>3, <2>4, <3>1 DEF Doomed
    <3>2. CASE ui.loaded = g
      <4>1. g # NoFile
        BY ViewerAssumption
      <4>2. Tells(g)
        BY <2>1, <3>2, <4>1 DEF Inv, LoadedInv, Stale
      <4>3. RemovalComing(g)
        BY <2>1, <4>2, GoneIsTold
      <4> QED BY <1>3, <4>3 DEF Doomed
    <3>3. CASE ui.pending = g
      <4>1. InFlight(g)
        BY <3>3, ViewerAssumption DEF Inv, PendingInv
      <4> QED BY <1>3, <2>4, <4>1 DEF Doomed
    <3>4. ui.selected # NoFile
      BY <2>4, ViewerAssumption
    <3> QED BY <2>4, <3>1, <3>2, <3>3, <3>4 DEF NeedsLoad
  <2> QED BY <2>2, <2>3, <2>4
<1>5. PendingInv'
  <2> SUFFICES ASSUME ui'.pending # NoFile PROVE InFlight(ui.pending)'
    BY DEF PendingInv
  <2>1. PICK h : h = ui'.pending
    OBVIOUS
  <2>2. CASE NeedsLoad
    BY <1>2, <1>3, <2>1, <2>2
  <2>3. CASE ~NeedsLoad
    <3>1. h \in Files /\ InFlight(h)
      BY <1>1, <2>1, <2>3 DEF Inv, PendingInv
    <3> QED BY <1>3, <2>1, <3>1
  <2> QED BY <2>2, <2>3
<1>6. MarkedKnown'
  BY DEF Inv, MarkedKnown
<1> QED BY <1>4, <1>5, <1>6

LEMMA DrawKeeps == ASSUME Inv, Draw PROVE Inv'
<1>1. /\ FileTypes /\ NoticeTypes /\ WatcherTypes /\ ChannelTypes /\ BusTypes
      /\ LoadTypes /\ UserTypes /\ UiTypes /\ ui \in UiState /\ IsFiniteSet(loads) /\ TypeOK
  BY TypeParts DEF Inv, UiTypes
<1>2. /\ phase = "draw" /\ SpawnLoad /\ ui' = Requested /\ phase' = "channel"
      /\ UNCHANGED <<disk, watched, notices, changes, publishing, channel, fileBus, editor, untold>>
      /\ \/ UNCHANGED <<command, commands>>
         \/ commands' = commands + 1 /\ command' \in Clicks
  BY DEF Draw, fileVars, busVars
<1>3. /\ ui' \in UiState /\ ui'.tabs = ui.tabs /\ ui'.known = ui.known /\ ui'.marked = ui.marked
      /\ ui'.loaded = ui.loaded /\ ui'.shown = ui.shown
      /\ ui'.pending = IF NeedsLoad THEN ui.selected ELSE ui.pending
  <2>1. PICK v : v = Requested
    OBVIOUS
  <2> QED BY <1>1, <1>2, <2>1, Requesting
<1>4. Clicks \subseteq Command
  <2>1. DOMAIN ui.tabs \subseteq Nat \ {0}
    BY <1>1, LenProperties DEF UiState
  <2> QED BY <2>1 DEF Clicks, Command
<1>5. LoadTypes' /\ IsFiniteSet(loads')
  BY <1>1, <1>2, Spawning
<1>6. TypeOK'
  <2>1. UserTypes'
    BY <1>1, <1>2, <1>4 DEF UserTypes
  <2>2. UiTypes'
    BY <1>1, <1>2, <1>3 DEF UiTypes
  <2>3. FileTypes' /\ NoticeTypes' /\ WatcherTypes' /\ ChannelTypes' /\ BusTypes'
    BY <1>1, <1>2 DEF FileTypes, NoticeTypes, WatcherTypes, ChannelTypes, BusTypes
  <2> QED BY <1>5, <2>1, <2>2, <2>3, TypeParts, PTL
<1>7. \A r \in OnTheWay : r \in OnTheWay'
  BY <1>2 DEF OnTheWay, WayOf
<1>8. TabInv' /\ PendingInv' /\ MarkedKnown'
  BY <1>2, <1>3, <1>7, DrawingKeeps
<1>9. LoadedInv'
  <2> SUFFICES ASSUME ui'.loaded # NoFile, ui'.loaded \notin untold', Stale(ui.loaded)'
               PROVE  Tells(ui.loaded)'
    BY DEF LoadedInv
  <2>1. PICK h : h = ui.loaded
    OBVIOUS
  <2>2. h \in Files /\ Stale(h)
    BY <1>1, <1>2, <1>3, <2>1 DEF Stale, UiState
  <2>3. Tells(h)
    BY <1>2, <1>3, <2>1, <2>2 DEF Inv, LoadedInv
  <2>4. Tells(h)'
    BY <1>2, <1>7, <2>2, <2>3, WayKept
  <2> QED BY <1>3, <2>1, <2>4
<1> QED BY <1>5, <1>6, <1>8, <1>9 DEF Inv

LEMMA CloseEditorKeeps == ASSUME Inv, CloseEditor PROVE Inv'
<1>1. /\ FileTypes /\ NoticeTypes /\ WatcherTypes /\ ChannelTypes /\ BusTypes
      /\ LoadTypes /\ UserTypes /\ UiTypes /\ ui \in UiState /\ IsFiniteSet(loads) /\ TypeOK
  BY TypeParts DEF Inv, UiTypes
<1>2. PICK b : b = Report("Updated", editor)
  OBVIOUS
<1>3. /\ phase = "draw" /\ editor # NoFile /\ SpawnLoad /\ ui' = ForgetLoaded(Requested)
      /\ phase' = "channel" /\ editor' = NoFile
      /\ UNCHANGED <<watched, publishing, channel, command, untold, commands>>
      /\ \/ UNCHANGED <<disk, watched, notices, changes, fileBus>>
         \/ /\ changes' = changes + 1
            /\ \E t \in Texts : disk' = [disk EXCEPT ![editor] = t]
            /\ notices' = notices \o Notice("Modify", editor) /\ fileBus' = Append(fileBus, b)
  BY <1>2 DEF CloseEditor, fileVars
<1>4. editor \in Files /\ b \in BusEvent
  BY <1>1, <1>2, <1>3 DEF UiTypes, BusEvent, Reports, Report
<1>5. /\ FileTypes' /\ NoticeTypes' /\ BusTypes'
      /\ ToSet(notices) \subseteq ToSet(notices') /\ ToSet(fileBus) \subseteq ToSet(fileBus')
      /\ \A g \in Files : disk'[g] = Gone => disk[g] = Gone
  <2>1. CASE UNCHANGED <<disk, watched, notices, changes, fileBus>>
    BY <1>1, <1>3, <2>1 DEF FileTypes, NoticeTypes, BusTypes
  <2>2. ASSUME NEW t \in Texts, changes' = changes + 1, disk' = [disk EXCEPT ![editor] = t],
               notices' = notices \o Notice("Modify", editor), fileBus' = Append(fileBus, b)
        PROVE  /\ FileTypes' /\ NoticeTypes' /\ BusTypes'
               /\ ToSet(notices) \subseteq ToSet(notices') /\ ToSet(fileBus) \subseteq ToSet(fileBus')
               /\ \A g \in Files : disk'[g] = Gone => disk[g] = Gone
    <3>1. /\ notices' \in Seq(Note) /\ ToSet(notices) \subseteq ToSet(notices')
          /\ fileBus' \in Seq(BusEvent) /\ ToSet(fileBus') = ToSet(fileBus) \cup {b}
      BY <1>1, <1>4, <2>2, AppendElems, NoticeFacts DEF BusTypes
    <3>2. t # Gone
      BY ViewerAssumption
    <3>3. FileTypes' /\ \A g \in Files : disk'[g] = Gone => disk[g] = Gone
      <4>1. disk \in [Files -> Texts \cup {Gone}] /\ changes \in Nat
        BY <1>1 DEF FileTypes
      <4>2. /\ DOMAIN disk' = Files /\ disk' = [g \in Files |-> disk'[g]]
            /\ \A g \in Files : disk'[g] = IF g = editor THEN t ELSE disk[g]
        BY <2>2, <4>1
      <4>3. disk' \in [Files -> Texts \cup {Gone}]
        <5>1. \A g \in Files : disk'[g] \in Texts \cup {Gone}
          BY <4>1, <4>2
        <5> QED BY <4>2, <5>1
      <4>4. changes' \in Nat /\ watched' \subseteq Files
        BY <1>1, <1>3, <2>2, <4>1 DEF FileTypes
      <4>5. \A g \in Files : disk'[g] = Gone => disk[g] = Gone
        BY <3>2, <4>2
      <4> QED BY <4>3, <4>4, <4>5 DEF FileTypes
    <3> QED BY <3>1, <3>3 DEF NoticeTypes, BusTypes
  <2> QED BY <1>3, <2>1, <2>2
<1>6. /\ ui' \in UiState /\ ui'.tabs = ui.tabs /\ ui'.known = ui.known /\ ui'.marked = ui.marked
      /\ ui'.loaded = NoFile /\ ui'.pending = IF NeedsLoad THEN ui.selected ELSE ui.pending
  <2>1. PICK v : v = Requested
    OBVIOUS
  <2>2. /\ v \in UiState /\ v.tabs = ui.tabs /\ v.known = ui.known /\ v.marked = ui.marked
        /\ v.pending = IF NeedsLoad THEN ui.selected ELSE ui.pending
    BY <1>1, <2>1, Requesting
  <2>3. ui' = [v EXCEPT !.loaded = NoFile]
    BY <1>3, <2>1 DEF ForgetLoaded
  <2> QED BY <2>2, <2>3 DEF UiState
<1>7. LoadTypes' /\ IsFiniteSet(loads')
  BY <1>1, <1>3, Spawning
<1>8. TypeOK'
  <2>1. UserTypes' /\ UiTypes' /\ WatcherTypes' /\ ChannelTypes'
    BY <1>1, <1>3, <1>6 DEF UserTypes, UiTypes, WatcherTypes, ChannelTypes
  <2> QED BY <1>5, <1>7, <2>1, TypeParts, PTL
<1>9. \A r \in OnTheWay : r \in OnTheWay'
  BY <1>3, <1>5 DEF OnTheWay, WayOf
<1>10. TabInv' /\ PendingInv' /\ MarkedKnown'
  BY <1>3, <1>5, <1>6, <1>9, DrawingKeeps
<1>11. LoadedInv'
  BY <1>6 DEF LoadedInv
<1> QED BY <1>7, <1>8, <1>10, <1>11 DEF Inv

-----------------------------------------------------------------------------
(* The theorems. *)

LEMMA Invariance == Spec => []Inv
<1>1. Init => Inv
  <2> SUFFICES ASSUME Init PROVE Inv
    OBVIOUS
  <2>1. <<>> \in Seq(Note) /\ <<>> \in Seq(BusEvent) /\ <<>> \in Seq(Message)
        /\ <<>> \in Seq(Files) /\ ToSet(<<>>) = {}
    BY EmptySeq, NoElems
  <2>2. PICK none : none = <<>>
    OBVIOUS
  <2>3. ui = [tabs |-> none, known |-> {}, selected |-> NoFile, marked |-> {},
              loaded |-> NoFile, shown |-> Blank, pending |-> NoFile]
    BY <2>2 DEF Init
  <2>4. /\ ui \in UiState /\ ui.tabs = none /\ ui.known = {} /\ ui.marked = {}
        /\ ui.loaded = NoFile /\ ui.pending = NoFile
    BY <2>1, <2>2, <2>3 DEF UiState
  <2>5. FileTypes /\ NoticeTypes /\ WatcherTypes /\ ChannelTypes /\ BusTypes /\ LoadTypes
    BY <2>1 DEF Init, FileTypes, NoticeTypes, WatcherTypes, ChannelTypes, BusTypes, LoadTypes
  <2>6. UserTypes /\ UiTypes
    BY <2>4 DEF Init, UserTypes, UiTypes, Command, Nothing
  <2>7. IsFiniteSet(loads)
    BY FS_EmptySet DEF Init
  <2>8. LoadedInv /\ TabInv /\ MarkedKnown /\ PendingInv
    BY <2>1, <2>2, <2>4 DEF LoadedInv, TabInv, MarkedKnown, PendingInv
  <2> QED BY <2>5, <2>6, <2>7, <2>8, TypeParts DEF Inv
<1>2. Inv /\ [Next]_vars => Inv'
  <2> SUFFICES ASSUME Inv, [Next]_vars PROVE Inv'
    OBVIOUS
  <2>1. ASSUME NEW f \in Files, Change(f) PROVE Inv'
    BY <2>1, ChangeKeeps
  <2>2. CASE Frame
    BY <2>2, PhaseKeeps, DrainChannelKeeps, DrainEventsKeeps, ApplyKeeps, DrawKeeps,
       CloseEditorKeeps DEF Frame
  <2>3. CASE UNCHANGED vars
    <3>1. UNCHANGED <<disk, watched, notices, changes, publishing, channel, fileBus, loads, phase, command,
                      ui, editor, untold, commands>>
      BY <2>3 DEF vars, fileVars, busVars
    <3>2. TypeOK'
      <4>1. /\ FileTypes /\ NoticeTypes /\ WatcherTypes /\ ChannelTypes /\ BusTypes
            /\ LoadTypes /\ UserTypes /\ UiTypes
        BY TypeParts DEF Inv
      <4>2. /\ FileTypes' /\ NoticeTypes' /\ WatcherTypes' /\ ChannelTypes' /\ BusTypes'
            /\ LoadTypes' /\ UserTypes' /\ UiTypes'
        BY <3>1, <4>1 DEF FileTypes, NoticeTypes, WatcherTypes, ChannelTypes, BusTypes,
                          LoadTypes, UserTypes, UiTypes
      <4> QED BY <4>2, TypeParts, PTL
    <3>3. ASSUME NEW f \in Files
          PROVE  /\ (Tells(f) => Tells(f)') /\ (RemovalComing(f) => RemovalComing(f)')
                 /\ InFlight(f) => InFlight(f)'
      <4>1. InFlight(f) => InFlight(f)'
        BY <3>1 DEF InFlight
      <4>2. \A r \in OnTheWay : r \in OnTheWay'
        BY <3>1 DEF OnTheWay, WayOf
      <4> QED BY <3>1, <4>1, <4>2, WayKept
    <3>4. IsFiniteSet(loads')
      BY <3>1 DEF Inv
    <3> QED BY <3>1, <3>2, <3>3, <3>4, MovingKeeps
  <2> QED BY <2>1, <2>2, <2>3, PhaseKeeps, LoaderKeeps, WatchKeeps,
         WatchPublishKeeps DEF Next
<1> QED BY <1>1, <1>2, PTL DEF Spec

\* The state of the viewer has the types that the code gives it: of every report,
\* answer and command, and of the tabs and paths that they leave in AppState.
THEOREM TypeCorrect == Spec => []TypeOK
<1>1. Inv => TypeOK
  BY DEF Inv
<1> QED BY <1>1, Invariance, PTL

\* When everything has been handled nothing is on its way.
LEMMA NothingOnTheWay ==
    ASSUME Quiet, NEW f PROVE ~Tells(f) /\ ~RemovalComing(f) /\ ~InFlight(f)
<1>1. OnTheWay = {} /\ ToSet(channel) = {}
  BY NoElems DEF Quiet, OnTheWay, WayOf
<1>2. ~Tells(f) /\ ~RemovalComing(f)
  BY <1>1 DEF Tells, TellsOf, RemovalComing, OnTheWay
<1>3. ~InFlight(f)
  BY <1>1 DEF Quiet, InFlight
<1> QED BY <1>2, <1>3

\* REQ-405 and UI-044, for any number of files, changes and commands: once all is
\* handled, the text that is shown of the selected file is the one on disk, unless
\* the file changed after it was read and no report was left, or none was made, to
\* tell of it (drain_background_channel, process_file_events).
THEOREM ViewerAlwaysCurrent == Spec => []ViewerIsCurrent
<1>1. Inv => ViewerIsCurrent
  <2> SUFFICES ASSUME Inv, Quiet, editor = NoFile, ui.selected \notin untold,
                      ui.selected # NoFile, ui.loaded = ui.selected
               PROVE  ui.shown = disk[ui.selected]
    BY DEF ViewerIsCurrent
  <2>1. ~Tells(ui.loaded)
    BY NothingOnTheWay
  <2> QED BY <2>1 DEF Inv, LoadedInv, Stale
<1> QED BY <1>1, Invariance, PTL

\* UI-051, likewise: once all is handled and the frame is not about to draw, no
\* tab and no loaded selection is left of a file that is gone, however it went:
\* deleted or renamed by the user or by another program, while it was being read,
\* selected, edited or marked.
THEOREM NothingGoneStaysOpen == Spec => []NothingGoneIsOpen
<1>1. Inv => NothingGoneIsOpen
  <2> SUFFICES ASSUME Inv, Quiet, phase # "draw", NEW f \in Files \ untold, disk[f] = Gone
               PROVE  ~Contains(ui.tabs, f) /\ (ui.selected = f => ui.loaded # f)
    BY DEF NothingGoneIsOpen
  <2>1. ~Tells(f) /\ ~RemovalComing(f) /\ ~InFlight(f)
    BY NothingOnTheWay
  <2>2. f \notin ToSet(ui.tabs)
    BY <2>1 DEF Inv, TabInv, Doomed
  <2>3. ui.tabs \in Seq(Files)
    BY TypeParts DEF Inv, UiTypes, UiState
  <2>4. ~Contains(ui.tabs, f)
    BY <2>2, <2>3, ContainsElem
  <2>5. ui.loaded # f
    BY <2>1, ViewerAssumption DEF Inv, LoadedInv, Stale
  <2> QED BY <2>4, <2>5
<1> QED BY <1>1, Invariance, PTL

\* A selection that waits for its text (AppUiState.pending_load) waits for a load
\* that is running or whose answer is on the channel: the wait is never left
\* standing after its load, whatever is selected, edited or deleted meanwhile.
THEOREM AwaitedLoadIsUnderWay == Spec => []PendingInv
BY Invariance, PTL DEF Inv

=============================================================================
