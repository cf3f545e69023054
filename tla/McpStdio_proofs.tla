-------------------------- MODULE McpStdio_proofs --------------------------
(***************************************************************************)
(* Proofs about McpStdio for every set of callers and every bound.  The    *)
(* argument about answers: an id is given out once, is worn by at most one *)
(* caller, and every request and answer under way carries the id of a past *)
(* allocation together with the caller it was allocated for.               *)
(***************************************************************************)
EXTENDS McpStdio, SequenceTheorems, TLAPS

\* A caller at one of these places wears the id of the request it makes.
Asking == {"write", "writing", "grab", "poll", "junk"}

\* The id of a caller was given out, and no other caller has it.
Ids ==
    \A c \in Callers :
        /\ caller[c].id < nextId
        /\ caller[c].at \in Asking => caller[c].id # NoId
        /\ \A d \in Callers : c # d /\ caller[c].id # NoId => caller[d].id # caller[c].id

\* The id was given out, and a caller that wears it is the one named.
Addressed(r) ==
    /\ r.id \in 1 .. (nextId - 1)
    /\ \A c \in Callers : caller[c].id = r.id => r.for = c

Said(s, t) == {s[t].out[i] : i \in DOMAIN s[t].out}

Mail ==
    \A t \in Transports :
        /\ \A r \in server[t].inbox : Addressed(r)
        /\ \A l \in Said(server, t) : l.kind = "answer" => Addressed(l)

IInv ==
    /\ TypeOK /\ Ids /\ Mail /\ NoOrphan
    /\ removal # "taken" => going = NoTransport

-----------------------------------------------------------------------------
\* What most steps do to the callers: one of them moves, and keeps its id or
\* gives it up.
KeepIds ==
    /\ caller' \in [Callers -> Caller]
    /\ \A c \in Callers :
          /\ caller'[c].id \in {caller[c].id, NoId}
          /\ caller'[c].at \in Asking => caller[c].at \in Asking /\ caller'[c].id = caller[c].id

\* What most steps do to the subprocesses: nothing new is asked or said.
NoNews(s) ==
    /\ s \in [Transports -> Server]
    /\ \A t \in Transports : s[t].inbox \subseteq server[t].inbox /\ Said(s, t) \subseteq Said(server, t)

LEMMA Places ==
    /\ {"grab", "poll", "junk"} \subseteq CallerAt \cap Asking
    /\ NoTransport \in Transports \cup {NoTransport}
  BY DEF CallerAt, Asking

\* Only one caller changes, and it keeps its id or has none.
LEMMA ReplaceKeeps ==
    ASSUME TypeOK, NEW c \in Callers, caller' \in [Callers -> Caller],
           \A d \in Callers \ {c} : caller'[d] = caller[d],
           caller'[c].id \in {caller[c].id, NoId},
           caller'[c].at \in Asking => caller[c].at \in Asking /\ caller'[c].id = caller[c].id
    PROVE  KeepIds
  BY DEF KeepIds

LEMMA ResetKeeps ==
    ASSUME TypeOK, NEW c \in Callers, NEW r \in Caller, caller' = [caller EXCEPT ![c] = r],
           r.id = NoId, r.at \notin Asking
    PROVE  KeepIds
<1>1. caller \in [Callers -> Caller]
  BY DEF TypeOK
<1>2. /\ caller' \in [Callers -> Caller]
      /\ caller'[c] = r
      /\ \A d \in Callers \ {c} : caller'[d] = caller[d]
  BY <1>1
<1> QED BY <1>2, ReplaceKeeps

\* One caller goes somewhere with another pipe.
LEMMA MoveKeeps ==
    ASSUME TypeOK, NEW c \in Callers, NEW at \in CallerAt,
           NEW pipe \in Transports \cup {NoTransport},
           caller' = [caller EXCEPT ![c].at = at, ![c].pipe = pipe],
           at \in Asking => caller[c].at \in Asking
    PROVE  KeepIds
<1> DEFINE old == caller[c]
           one == [old EXCEPT !.at = at]
           two == [one EXCEPT !.pipe = pipe]
<1>1. caller \in [Callers -> Caller] /\ old \in Caller
  BY DEF TypeOK, CallerAt, Asking
<1>2. caller' = [caller EXCEPT ![c] = two]
  BY <1>1
<1> HIDE DEF old
<1>3. one \in Caller /\ one.id = old.id /\ one.at = at
  BY <1>1 DEF Caller
<1> HIDE DEF one
<1>4. two \in Caller /\ two.id = old.id /\ two.at = at
  BY <1>3 DEF Caller
<1> HIDE DEF two
<1>5. /\ caller' \in [Callers -> Caller]
      /\ caller'[c] = two
      /\ \A d \in Callers \ {c} : caller'[d] = caller[d]
  BY <1>1, <1>2, <1>4
<1> QED BY <1>1, <1>4, <1>5, ReplaceKeeps DEF old

\* One caller goes on to a request of another kind, wearing no new id yet.
LEMMA TurnKeeps ==
    ASSUME TypeOK, NEW c \in Callers, NEW kind \in {"initialize", "call"},
           caller' = [caller EXCEPT ![c].at = "alloc", ![c].kind = kind]
    PROVE  KeepIds
<1> DEFINE old == caller[c]
           one == [old EXCEPT !.at = "alloc"]
           two == [one EXCEPT !.kind = kind]
<1>1. caller \in [Callers -> Caller] /\ old \in Caller /\ "alloc" \in CallerAt /\ "alloc" \notin Asking
  BY DEF TypeOK, CallerAt, Asking
<1>2. caller' = [caller EXCEPT ![c] = two]
  BY <1>1
<1> HIDE DEF old
<1>3. one \in Caller /\ one.id = old.id /\ one.at = "alloc"
  BY <1>1 DEF Caller
<1> HIDE DEF one
<1>4. two \in Caller /\ two.id = old.id /\ two.at = "alloc"
  BY <1>3 DEF Caller
<1> HIDE DEF two
<1>5. /\ caller' \in [Callers -> Caller]
      /\ caller'[c] = two
      /\ \A d \in Callers \ {c} : caller'[d] = caller[d]
  BY <1>1, <1>2, <1>4
<1> QED BY <1>1, <1>4, <1>5, ReplaceKeeps DEF old

LEMMA GoToKeeps ==
    ASSUME TypeOK, NEW c \in Callers, NEW at \in CallerAt, GoTo(c, at),
           at \in Asking => caller[c].at \in Asking
    PROVE  KeepIds
<1>1. caller \in [Callers -> Caller] /\ caller' = [caller EXCEPT ![c].at = at]
  BY DEF TypeOK, GoTo
<1>2. caller' \in [Callers -> Caller]
  BY <1>1 DEF Caller
<1>3. caller'[c].at = at /\ caller'[c].id = caller[c].id
      /\ \A d \in Callers \ {c} : caller'[d] = caller[d]
  BY <1>1 DEF Caller
<1> QED BY <1>2, <1>3, ReplaceKeeps

LEMMA ProceedKeeps ==
    ASSUME TypeOK, NEW c \in Callers, NEW at \in CallerAt \ Asking, Proceed(c, at)
    PROVE  KeepIds
<1>1. caller \in [Callers -> Caller] /\ IdleCaller \in Caller /\ IdleCaller.id = NoId
  BY DEF TypeOK, IdleCaller, Caller, CallerAt, NoId, NoTransport
<1>2. caller' = [caller EXCEPT ![c] = [IdleCaller EXCEPT !.at = at]]
  BY DEF Proceed
<1>3. caller' \in [Callers -> Caller]
  BY <1>1, <1>2 DEF Caller
<1>4. caller'[c].at = at /\ caller'[c].id = NoId
      /\ \A d \in Callers \ {c} : caller'[d] = caller[d]
  BY <1>1, <1>2 DEF Caller
<1> QED BY <1>3, <1>4, ReplaceKeeps

LEMMA EndCallKeeps ==
    ASSUME TypeOK, NEW c \in Callers, EndCall(c)
    PROVE  KeepIds
<1>1. IdleCaller \in Caller /\ IdleCaller.id = NoId /\ IdleCaller.at \notin Asking
  BY DEF IdleCaller, Caller, CallerAt, Asking, NoId, NoTransport
<1> QED BY <1>1, ResetKeeps DEF EndCall

LEMMA NoteFailsKeeps ==
    ASSUME TypeOK, NEW c \in Callers, NoteFails(c)
    PROVE  KeepIds
<1>1. "dead" \in CallerAt \ Asking
  BY DEF CallerAt, Asking
<1> QED BY <1>1, ProceedKeeps, EndCallKeeps DEF NoteFails

LEMMA NoteDoneKeeps ==
    ASSUME TypeOK, NEW c \in Callers, NoteDone(c)
    PROVE  KeepIds
<1>1. {"dead", "activate"} \subseteq CallerAt \ Asking
  BY DEF CallerAt, Asking
<1> QED BY <1>1, ProceedKeeps DEF NoteDone

-----------------------------------------------------------------------------
LEMMA SameServers == ASSUME TypeOK PROVE NoNews(server)
  BY DEF TypeOK, NoNews

LEMMA KillSaysNothing ==
    ASSUME TypeOK, NEW t \in Transports
    PROVE  NoNews(Kill(t)) /\ Kill(t)[t].state = "closed"
           /\ \A u \in Transports \ {t} : Kill(t)[u] = server[u]
<1> DEFINE out == IF Held(t) THEN server[t].out ELSE <<>>
           dead == [state |-> "closed", greeted |-> FALSE, deaf |-> FALSE, inbox |-> {}, out |-> out]
<1>1. out \in Seq(Line) /\ server[t].out \in Seq(Line)
  BY DEF TypeOK, Server
<1>2. dead \in Server
  BY <1>1 DEF Server
<1>3. Kill(t) = [server EXCEPT ![t] = dead]
  BY DEF Kill
<1>4. Kill(t) \in [Transports -> Server] /\ Kill(t)[t] = dead
      /\ \A u \in Transports \ {t} : Kill(t)[u] = server[u]
  BY <1>2, <1>3 DEF TypeOK
<1>5. Said(Kill(t), t) \subseteq Said(server, t)
  <2>1. Said(Kill(t), t) = {out[i] : i \in DOMAIN out}
    BY <1>2, <1>4 DEF Said
  <2> QED BY <2>1 DEF Said
<1>6. \A u \in Transports \ {t} : Said(Kill(t), u) = Said(server, u)
  BY <1>4 DEF Said
<1> QED BY <1>4, <1>5, <1>6 DEF NoNews

LEMMA PopSaysNothing ==
    ASSUME TypeOK, NEW c \in Callers, Lines(c) # <<>>
    PROVE  NoNews(PopLine(c)) /\ \A t \in Transports : PopLine(c)[t].state = server[t].state
<1> DEFINE p == caller[c].pipe
<1>1. CASE p \notin Transports
  <2>1. PopLine(c) = server
    BY <1>1 DEF PopLine, TypeOK
  <2> QED BY <2>1, SameServers
<1>2. CASE p \in Transports
  <2> DEFINE out == server[p].out
  <2>1. out \in Seq(Line) /\ out # <<>> /\ server[p] \in Server
    BY <1>2 DEF TypeOK, Server, Lines
  <2>2. Tail(out) \in Seq(Line)
    BY <2>1, HeadTailProperties
  <2>3. \A i \in DOMAIN Tail(out) : i + 1 \in DOMAIN out /\ Tail(out)[i] = out[i + 1]
    <3>1. Len(Tail(out)) = Len(out) - 1 /\ Len(out) \in Nat
      BY <2>1, HeadTailProperties
    <3>2. \A i \in 1 .. Len(Tail(out)) : Tail(out)[i] = out[i + 1]
      BY <2>1, HeadTailProperties
    <3> QED BY <2>1, <2>2, <3>1, <3>2, LenProperties
  <2>4. /\ PopLine(c) \in [Transports -> Server]
        /\ PopLine(c)[p].out = Tail(out) /\ PopLine(c)[p].inbox = server[p].inbox
        /\ PopLine(c)[p].state = server[p].state
        /\ \A u \in Transports \ {p} : PopLine(c)[u] = server[u]
    BY <1>2, <2>1, <2>2 DEF TypeOK, PopLine, Server
  <2>5. Said(PopLine(c), p) \subseteq Said(server, p)
    BY <2>3, <2>4 DEF Said
  <2>6. \A u \in Transports \ {p} : Said(PopLine(c), u) = Said(server, u)
    BY <2>4 DEF Said
  <2> QED BY <2>4, <2>5, <2>6 DEF NoNews
<1> QED BY <1>1, <1>2

LEMMA MarkDeadEffect ==
    ASSUME TypeOK, NoOrphan, MarkDead, going' = going
    PROVE  /\ phase' \in {"Uninitialized", "Active"}
           /\ current' \in Transports \cup {NoTransport}
           /\ NoNews(server') /\ NoOrphan'
<1>1. CASE poisoned \/ current = NoTransport
  BY <1>1, SameServers DEF MarkDead, TypeOK, NoOrphan, NoTransport, Transports
<1>2. CASE ~poisoned /\ current # NoTransport
  <2>1. current \in Transports /\ server' = Kill(current)
    BY <1>2 DEF MarkDead, TypeOK
  <2>2. /\ NoNews(server') /\ server'[current].state = "closed"
        /\ \A u \in Transports \ {current} : server'[u] = server[u]
    BY <2>1, KillSaysNothing
  <2> QED BY <1>2, <2>1, <2>2 DEF MarkDead, NoOrphan
<1> QED BY <1>1, <1>2

LEMMA EnsureEffect ==
    ASSUME TypeOK, NoOrphan, EnsureTransport, going' = going
    PROVE  /\ current' \in Transports \cup {NoTransport}
           /\ spawned' \in 0 .. MaxSpawns
           /\ NoNews(server') /\ NoOrphan'
<1>1. CASE current # NoTransport
  BY <1>1, SameServers DEF EnsureTransport, TypeOK, NoOrphan
<1>2. CASE current = NoTransport
  <2> DEFINE n == spawned + 1
  <2>1. n \in Transports /\ spawned' \in 0 .. MaxSpawns /\ current' = n
    BY <1>2, BoundsAssumption DEF EnsureTransport, TypeOK, Transports
  <2>2. server' = [server EXCEPT ![n].state = "running"]
    BY <1>2 DEF EnsureTransport
  <2>3. /\ server' \in [Transports -> Server]
        /\ \A t \in Transports : server'[t].inbox = server[t].inbox /\ server'[t].out = server[t].out
        /\ \A t \in Transports \ {n} : server'[t] = server[t]
    BY <2>1, <2>2 DEF TypeOK, Server
  <2>4. NoNews(server')
    BY <2>3 DEF NoNews, Said
  <2>5. NoOrphan'
    BY <1>2, <2>1, <2>3 DEF NoOrphan, Transports, NoTransport
  <2> QED BY <2>1, <2>4, <2>5
<1> QED BY <1>1, <1>2

-----------------------------------------------------------------------------
\* A step that keeps the ids and brings no news keeps the books.
LEMMA QuietStep ==
    ASSUME IInv, KeepIds, nextId' = nextId, NoNews(server')
    PROVE  Ids' /\ Mail'
<1>1. Ids'
  <2> SUFFICES ASSUME NEW c \in Callers
               PROVE  /\ caller'[c].id < nextId
                      /\ caller'[c].at \in Asking => caller'[c].id # NoId
                      /\ \A d \in Callers : c # d /\ caller'[c].id # NoId => caller'[d].id # caller'[c].id
    BY DEF Ids
  <2>1. caller'[c].id < nextId
    BY DEF IInv, TypeOK, Ids, KeepIds, NoId
  <2>2. caller'[c].at \in Asking => caller'[c].id # NoId
    BY DEF IInv, Ids, KeepIds
  <2>3. \A d \in Callers : c # d /\ caller'[c].id # NoId => caller'[d].id # caller'[c].id
    BY DEF IInv, Ids, KeepIds
  <2> QED BY <2>1, <2>2, <2>3
<1>2. \A r : Addressed(r) => Addressed(r)'
  BY DEF Addressed, KeepIds, NoId
<1>3. Mail'
  <2> SUFFICES ASSUME NEW t \in Transports
               PROVE  /\ \A r \in server'[t].inbox : Addressed(r)'
                      /\ \A l \in Said(server', t) : l.kind = "answer" => Addressed(l)'
    BY DEF Mail, Said
  <2>1. server'[t].inbox \subseteq server[t].inbox /\ Said(server', t) \subseteq Said(server, t)
    BY DEF NoNews
  <2> QED BY <1>2, <2>1 DEF IInv, Mail
<1> QED BY <1>1, <1>3

LEMMA QuietInv ==
    ASSUME IInv, KeepIds, nextId' = nextId, NoNews(server'), NoOrphan',
           phase' \in {"Uninitialized", "Active"},
           current' \in Transports \cup {NoTransport},
           poisoned' \in BOOLEAN, removal' \in {"none", "removed", "taken", "over"},
           going' \in Transports \cup {NoTransport},
           removal' # "taken" => going' = NoTransport,
           spawned' \in 0 .. MaxSpawns, calls' \in 0 .. MaxCalls, noise' \in 0 .. MaxNoise
    PROVE  IInv'
<1>1. TypeOK'
  BY DEF IInv, TypeOK, KeepIds, NoNews
<1> QED BY <1>1, QuietStep DEF IInv

-----------------------------------------------------------------------------
\* Steps that touch neither the session nor a subprocess.
LEMMA OnlyTheCaller ==
    ASSUME IInv, KeepIds, UNCHANGED <<sessionVars, server>>,
           spawned' = spawned, calls' \in 0 .. MaxCalls, noise' = noise
    PROVE  IInv'
<1>1. NoNews(server') /\ NoOrphan'
  BY SameServers DEF IInv, sessionVars, removalVars, NoOrphan
<1> QED BY <1>1, QuietInv DEF IInv, TypeOK, sessionVars, removalVars

LEMMA LockFailsInv ==
    ASSUME IInv, NEW c \in Callers, LockFails(c)
    PROVE  IInv'
  BY EndCallKeeps, OnlyTheCaller DEF LockFails, IInv, TypeOK, countVars

\* The transport is dropped while a caller moves on.
LEMMA MarkDeadInv ==
    ASSUME IInv, KeepIds, MarkDead, UNCHANGED <<nextId, poisoned, removalVars, countVars>>
    PROVE  IInv'
  BY MarkDeadEffect, QuietInv DEF IInv, TypeOK, countVars, removalVars

LEMMA EnsureInv ==
    ASSUME IInv, KeepIds, EnsureTransport,
           UNCHANGED <<phase, nextId, poisoned, removalVars, calls, noise>>
    PROVE  IInv'
  BY EnsureEffect, QuietInv DEF IInv, TypeOK, removalVars

LEMMA SpawnFailsInv ==
    ASSUME IInv, KeepIds, SpawnFails,
           UNCHANGED <<phase, nextId, poisoned, removalVars, calls, noise>>
    PROVE  IInv'
  BY OnlyTheCaller DEF SpawnFails, IInv, TypeOK, sessionVars, removalVars

\* A line is taken from the channel while the caller moves on.
LEMMA PopInv ==
    ASSUME IInv, NEW c \in Callers, Lines(c) # <<>>, server' = PopLine(c), KeepIds,
           UNCHANGED <<sessionVars, spawned, noise>>, calls' \in 0 .. MaxCalls
    PROVE  IInv'
<1>1. NoNews(server') /\ NoOrphan'
  BY PopSaysNothing DEF IInv, NoOrphan, sessionVars, removalVars
<1> QED BY <1>1, QuietInv DEF IInv, TypeOK, sessionVars, removalVars

-----------------------------------------------------------------------------
LEMMA BeginCallInv ==
    ASSUME IInv, NEW c \in Callers, BeginCall(c)
    PROVE  IInv'
<1>1. KeepIds
  BY GoToKeeps DEF BeginCall, IInv, CallerAt, Asking
<1>2. calls' \in 0 .. MaxCalls
  BY BoundsAssumption DEF BeginCall, IInv, TypeOK
<1> QED BY <1>1, <1>2, OnlyTheCaller DEF BeginCall

LEMMA CheckPhaseInv ==
    ASSUME IInv, NEW c \in Callers, CheckPhase(c)
    PROVE  IInv'
<1> DEFINE kind == IF phase = "Active" /\ ~poisoned THEN "call" ELSE "initialize"
<1>1. KeepIds
  <2>1. kind \in {"initialize", "call"}
    OBVIOUS
  <2>2. caller' = [caller EXCEPT ![c].at = "alloc", ![c].kind = kind]
    BY DEF CheckPhase
  <2> HIDE DEF kind
  <2> QED BY <2>1, <2>2, TurnKeeps DEF IInv
<1> QED BY <1>1, OnlyTheCaller DEF CheckPhase, countVars, IInv, TypeOK

\* The one step that gives out an id, to a caller that goes on to write, or to
\* none.
LEMMA ConnectInv ==
    ASSUME IInv, NEW c \in Callers, Connect(c)
    PROVE  IInv'
<1>1. CASE LockFails(c)
  BY <1>1, LockFailsInv
<1>2. CASE ~LockFails(c)
  <2>1. /\ nextId' = nextId + 1
        /\ UNCHANGED <<phase, poisoned, removalVars, calls, noise>>
        /\ \/ /\ EnsureTransport
              /\ caller' = [caller EXCEPT ![c].at = "write", ![c].id = nextId]
           \/ SpawnFails /\ EndCall(c)
    BY <1>2 DEF Connect
  <2>2. nextId \in Nat \ {0} /\ caller \in [Callers -> Caller] /\ going' = going
    BY <2>1 DEF IInv, TypeOK, removalVars
  <2>3. /\ caller' \in [Callers -> Caller]
        /\ caller'[c].id \in {nextId, NoId}
        /\ caller'[c].at \in Asking => caller'[c].id = nextId
        /\ \A d \in Callers \ {c} : caller'[d] = caller[d]
    <3>1. CASE caller' = [caller EXCEPT ![c].at = "write", ![c].id = nextId]
      <4>1. "write" \in CallerAt
        BY DEF CallerAt
      <4> DEFINE old == caller[c]
                 one == [old EXCEPT !.at = "write"]
                 two == [one EXCEPT !.id = nextId]
      <4>2. old \in Caller
        BY <2>2
      <4>3. caller' = [caller EXCEPT ![c] = two]
        BY <2>2, <3>1
      <4> HIDE DEF old
      <4>4. one \in Caller
        BY <4>1, <4>2 DEF Caller
      <4> HIDE DEF one
      <4>5. two \in Caller /\ two.id = nextId
        BY <2>2, <4>4 DEF Caller
      <4> HIDE DEF two
      <4> QED BY <2>2, <4>3, <4>5
    <3>2. CASE EndCall(c)
      <4>1. IdleCaller \in Caller /\ IdleCaller.id = NoId /\ IdleCaller.at \notin Asking
        BY DEF IdleCaller, Caller, CallerAt, Asking, NoId, NoTransport
      <4> QED BY <2>2, <3>2, <4>1 DEF EndCall
    <3> QED BY <2>1, <3>1, <3>2
  <2>4. /\ current' \in Transports \cup {NoTransport} /\ spawned' \in 0 .. MaxSpawns
        /\ NoNews(server') /\ NoOrphan'
    <3>1. CASE EnsureTransport
      BY <2>2, <3>1, EnsureEffect DEF IInv
    <3>2. CASE SpawnFails
      BY <2>2, <3>2, SameServers DEF SpawnFails, IInv, TypeOK, NoOrphan
    <3> QED BY <2>1, <3>1, <3>2
  <2>5. TypeOK'
    BY <2>1, <2>2, <2>3, <2>4 DEF IInv, TypeOK, NoNews, removalVars
  <2>6. \A d \in Callers : caller[d].id \in Nat /\ caller[d].id < nextId
    BY <2>2 DEF IInv, Ids, Caller
  <2>7. Ids'
    BY <2>1, <2>2, <2>3, <2>6 DEF IInv, Ids, NoId
  <2>8. \A r : Addressed(r) => Addressed(r)'
    <3> SUFFICES ASSUME NEW r, Addressed(r) PROVE Addressed(r)'
      OBVIOUS
    <3> QED BY <2>1, <2>2, <2>3 DEF Addressed, NoId
  <2>9. Mail'
    <3> SUFFICES ASSUME NEW t \in Transports
                 PROVE  /\ \A r \in server'[t].inbox : Addressed(r)'
                        /\ \A l \in Said(server', t) : l.kind = "answer" => Addressed(l)'
      BY DEF Mail, Said
    <3>1. server'[t].inbox \subseteq server[t].inbox /\ Said(server', t) \subseteq Said(server, t)
      BY <2>4 DEF NoNews
    <3> QED BY <2>8, <3>1 DEF IInv, Mail
  <2> QED BY <1>2, <2>4, <2>5, <2>7, <2>9 DEF Connect, IInv, removalVars
<1> QED BY <1>1, <1>2

\* The step that asks a subprocess something.
LEMMA SendInv ==
    ASSUME IInv, NEW c \in Callers, caller[c].at \in {"write", "writing"},
           Send(c), GoTo(c, "grab"), UNCHANGED <<sessionVars, countVars>>
    PROVE  IInv'
<1> DEFINE r == RequestOf(c)
<1>2. r \in Request /\ Addressed(r)
  <2>1. caller[c].id \in Nat /\ caller[c].id # NoId /\ caller[c].id < nextId /\ nextId \in Nat
    BY DEF IInv, TypeOK, Caller, Ids, Asking
  <2>2. \A d \in Callers : caller[d].id = caller[c].id => d = c
    BY <2>1 DEF IInv, Ids
  <2>3. r \in Request
    BY <2>1 DEF IInv, TypeOK, Caller, Request, RequestOf
  <2> QED BY <2>1, <2>2, <2>3 DEF Addressed, NoId, RequestOf
<1>3. /\ server' \in [Transports -> Server]
      /\ \A t \in Transports : /\ server'[t].out = server[t].out
                               /\ server'[t].state = server[t].state
                               /\ server'[t].inbox \subseteq server[t].inbox \cup {r}
  <2> HIDE DEF r
  <2> DEFINE box == server[current].inbox \cup {r}
  <2>1. server' = [server EXCEPT ![current].inbox = box] /\ server \in [Transports -> Server]
    BY DEF Send, r, IInv, TypeOK
  <2>2. CASE current \in Transports
    <3>1. box \in SUBSET Request
      BY <1>2, <2>1, <2>2 DEF Server
    <3> DEFINE old == server[current]
               new == [old EXCEPT !.inbox = box]
    <3>2. server' = [server EXCEPT ![current] = new] /\ old \in Server
      BY <2>1, <2>2
    <3> HIDE DEF box
    <3>3. new \in Server /\ new.inbox = box /\ new.out = old.out /\ new.state = old.state
      BY <3>1, <3>2 DEF Server
    <3> HIDE DEF new
    <3> QED BY <2>1, <2>2, <3>2, <3>3 DEF box
  <2>3. CASE current \notin Transports
    BY <2>1, <2>3
  <2> QED BY <2>2, <2>3
<1>4. KeepIds
  BY GoToKeeps DEF IInv, CallerAt, Asking
<1>5. TypeOK'
  BY <1>3, <1>4 DEF IInv, TypeOK, KeepIds, sessionVars, removalVars, countVars
<1>6. Ids'
  BY <1>4 DEF IInv, TypeOK, Ids, KeepIds, NoId, sessionVars, removalVars
<1>7. \A q : Addressed(q) => Addressed(q)'
  BY <1>4 DEF Addressed, KeepIds, NoId, sessionVars, removalVars
<1>8. Mail'
  BY <1>2, <1>3, <1>7 DEF IInv, Mail, Said
<1>9. NoOrphan'
  BY <1>3 DEF IInv, NoOrphan, sessionVars, removalVars
<1> QED BY <1>5, <1>6, <1>8, <1>9 DEF IInv, sessionVars, removalVars

LEMMA WriteInv ==
    ASSUME IInv, NEW c \in Callers, Write(c)
    PROVE  IInv'
<1>1. CASE LockFails(c)
  BY <1>1, LockFailsInv
<1>2. CASE poisoned' = TRUE /\ GoTo(c, "panicked") /\ UNCHANGED server
  <2>1. KeepIds
    BY <1>2, GoToKeeps DEF IInv, CallerAt, Asking
  <2>2. NoNews(server') /\ NoOrphan'
    BY <1>2, SameServers DEF Write, IInv, NoOrphan, removalVars
  <2> QED BY <1>2, <2>1, <2>2, QuietInv DEF Write, IInv, TypeOK, countVars, removalVars
<1>3. CASE Proceed(c, "dead") /\ UNCHANGED <<poisoned, server>>
  <2>1. KeepIds
    BY <1>3, ProceedKeeps DEF IInv, CallerAt, Asking
  <2> QED BY <1>3, <2>1, OnlyTheCaller DEF Write, IInv, TypeOK, sessionVars, removalVars, countVars
<1>4. CASE GoTo(c, "writing") /\ UNCHANGED <<poisoned, server>>
  <2>1. KeepIds
    BY <1>4, GoToKeeps DEF Write, IInv, CallerAt, Asking
  <2> QED BY <1>4, <2>1, OnlyTheCaller DEF Write, IInv, TypeOK, sessionVars, removalVars, countVars
<1>5. CASE Send(c) /\ GoTo(c, "grab") /\ UNCHANGED poisoned
  BY <1>5, SendInv DEF Write, sessionVars
<1> QED BY <1>1, <1>2, <1>3, <1>4, <1>5 DEF Write

LEMMA FinishWriteInv ==
    ASSUME IInv, NEW c \in Callers, FinishWrite(c)
    PROVE  IInv'
<1>1. CASE Send(c) /\ GoTo(c, "grab")
  BY <1>1, SendInv DEF FinishWrite
<1>2. CASE Proceed(c, "dead") /\ UNCHANGED server
  <2>1. KeepIds
    BY <1>2, ProceedKeeps DEF IInv, CallerAt, Asking
  <2> QED BY <1>2, <2>1, OnlyTheCaller DEF FinishWrite, IInv, TypeOK, countVars
<1> QED BY <1>1, <1>2 DEF FinishWrite

LEMMA ClockInv ==
    ASSUME IInv, NEW c \in Callers, Clock(c)
    PROVE  IInv'
<1>1. KeepIds
  BY DEF Clock, IInv, TypeOK, KeepIds, Caller
<1> QED BY <1>1, OnlyTheCaller DEF Clock, countVars, IInv, TypeOK

LEMMA GrabInv ==
    ASSUME IInv, NEW c \in Callers, Grab(c)
    PROVE  IInv'
<1>1. KeepIds
  <2>1. CASE EndCall(c)
    BY <2>1, EndCallKeeps DEF IInv
  <2>2. CASE caller' = [caller EXCEPT ![c] = LateCaller]
    <3>1. LateCaller \in Caller /\ LateCaller.id = NoId /\ LateCaller.at \notin Asking
      BY DEF LateCaller, Caller, CallerAt, Asking, NoId, NoTransport
    <3> QED BY <2>2, <3>1, ResetKeeps DEF IInv
  <2>3. CASE caller' = [caller EXCEPT ![c].at = "poll", ![c].pipe = current]
    <3>1. current \in Transports \cup {NoTransport}
      BY DEF IInv, TypeOK
    <3> QED BY <2>3, <3>1, Places, MoveKeeps DEF Grab, IInv
  <2> QED BY <2>1, <2>2, <2>3 DEF Grab
<1> QED BY <1>1, OnlyTheCaller DEF Grab, countVars, IInv, TypeOK

LEMMA PollInv ==
    ASSUME IInv, NEW c \in Callers, Poll(c)
    PROVE  IInv'
<1> USE DEF IInv
<1>1. CASE OnAnswer(c)
  <2>1. {"noteConnect", "ensure"} \subseteq CallerAt \ Asking
    BY DEF CallerAt, Asking
  <2>2. KeepIds
    BY <1>1, <2>1, ProceedKeeps, EndCallKeeps DEF OnAnswer
  <2>3. calls' \in 0 .. MaxCalls
    BY <1>1, BoundsAssumption DEF OnAnswer, TypeOK
  <2> QED BY <1>1, <2>2, <2>3, PopInv DEF OnAnswer
<1>p. CASE OnPush(c)
  BY <1>p, EndCallKeeps, PopInv DEF OnPush, TypeOK, countVars
<1>2. CASE OnOther(c)
  <2>1. KeepIds
    BY <1>2, Places, MoveKeeps DEF Poll, OnOther
  <2> QED BY <1>2, <2>1, PopInv DEF OnOther, TypeOK, countVars
<1>3. CASE OnJunk(c)
  <2>1. KeepIds
    BY <1>3, Places, MoveKeeps DEF Poll, OnJunk
  <2> QED BY <1>3, <2>1, PopInv DEF OnJunk, TypeOK, countVars
<1>4. CASE OnEof(c)
  <2>1. KeepIds
    BY <1>4, ProceedKeeps DEF OnEof, CallerAt, Asking
  <2> QED BY <1>4, <2>1, OnlyTheCaller DEF OnEof, TypeOK, countVars
<1>5. CASE OnSilence(c)
  <2>1. KeepIds
    BY <1>5, Places, MoveKeeps DEF Poll, OnSilence
  <2> QED BY <1>5, <2>1, OnlyTheCaller DEF OnSilence, TypeOK, countVars
<1> QED BY <1>1, <1>2, <1>3, <1>4, <1>5, <1>p DEF Poll

LEMMA DropForJunkInv ==
    ASSUME IInv, NEW c \in Callers, DropForJunk(c)
    PROVE  IInv'
<1>1. KeepIds
  BY GoToKeeps DEF DropForJunk, IInv, CallerAt, Asking
<1> QED BY <1>1, MarkDeadInv DEF DropForJunk

LEMMA NoteConnectInv ==
    ASSUME IInv, NEW c \in Callers, NoteConnect(c)
    PROVE  IInv'
<1>1. CASE NoteFails(c) /\ UNCHANGED <<current, server, spawned>>
  BY <1>1, NoteFailsKeeps, OnlyTheCaller DEF NoteConnect, IInv, TypeOK, sessionVars, removalVars
<1>2. CASE EnsureTransport /\ GoTo(c, "notePick")
  <2>1. KeepIds
    BY <1>2, GoToKeeps DEF IInv, CallerAt, Asking
  <2> QED BY <1>2, <2>1, EnsureInv DEF NoteConnect
<1>3. CASE SpawnFails /\ NoteFails(c)
  BY <1>3, NoteFailsKeeps, SpawnFailsInv DEF NoteConnect, IInv
<1> QED BY <1>1, <1>2, <1>3 DEF NoteConnect

LEMMA NotePickInv ==
    ASSUME IInv, NEW c \in Callers, NotePick(c)
    PROVE  IInv'
<1>1. CASE NoteFails(c)
  BY <1>1, NoteFailsKeeps, OnlyTheCaller DEF NotePick, IInv, TypeOK, countVars
<1>2. CASE caller' = [caller EXCEPT ![c].at = "noteWrite", ![c].pipe = current]
  <2>1. KeepIds
    <3>1. current \in Transports \cup {NoTransport} /\ "noteWrite" \in CallerAt \ Asking
      BY DEF IInv, TypeOK, CallerAt, Asking
    <3> QED BY <1>2, <3>1, MoveKeeps DEF IInv
  <2> QED BY <2>1, OnlyTheCaller DEF NotePick, IInv, TypeOK, countVars
<1> QED BY <1>1, <1>2 DEF NotePick

LEMMA NoteWriteInv ==
    ASSUME IInv, NEW c \in Callers, NoteWrite(c) \/ FinishNote(c)
    PROVE  IInv'
<1> DEFINE p == caller[c].pipe
<1>1. CASE NoteFails(c) /\ UNCHANGED server
  BY <1>1, NoteFailsKeeps, OnlyTheCaller DEF NoteWrite, FinishNote, IInv, TypeOK, countVars
<1>2. ASSUME NEW at \in {"noteDead", "noteWriting"}, GoTo(c, at), UNCHANGED server
      PROVE  IInv'
  <2>1. KeepIds
    BY <1>2, GoToKeeps DEF IInv, CallerAt, Asking
  <2> QED BY <1>2, <2>1, OnlyTheCaller DEF NoteWrite, FinishNote, IInv, TypeOK, countVars
<1>3. CASE server' = [server EXCEPT ![p].greeted = @ \/ ~caller[c].late] /\ NoteDone(c)
  <2>1. /\ server' \in [Transports -> Server]
        /\ \A t \in Transports : /\ server'[t].inbox = server[t].inbox
                                 /\ server'[t].out = server[t].out
                                 /\ server'[t].state = server[t].state
    <3> DEFINE b == server[p].greeted \/ ~caller[c].late
    <3>1. b \in BOOLEAN /\ server' = [server EXCEPT ![p].greeted = b]
      BY <1>3
    <3> HIDE DEF b
    <3>2. server \in [Transports -> Server]
      BY DEF IInv, TypeOK
    <3> DEFINE old == server[p]
               new == [old EXCEPT !.greeted = b]
    <3>3. /\ server' = IF p \in Transports THEN [server EXCEPT ![p] = new] ELSE server
          /\ p \in Transports => old \in Server
      BY <3>1, <3>2
    <3> HIDE DEF old
    <3>4. p \in Transports => /\ new \in Server /\ new.inbox = old.inbox /\ new.out = old.out
                              /\ new.state = old.state
      BY <3>1, <3>3 DEF Server
    <3> HIDE DEF new
    <3>5. server' \in [Transports -> Server]
      BY <3>2, <3>3, <3>4
    <3> QED BY <3>2, <3>3, <3>4, <3>5 DEF old
  <2>2. NoNews(server')
    BY <2>1 DEF NoNews, Said
  <2>3. NoOrphan'
    BY <2>1 DEF NoteWrite, FinishNote, IInv, NoOrphan, sessionVars, removalVars
  <2>4. KeepIds
    BY <1>3, NoteDoneKeeps DEF IInv
  <2> QED BY <2>2, <2>3, <2>4, QuietInv DEF NoteWrite, FinishNote, IInv, TypeOK, sessionVars, removalVars, countVars
<1> QED BY <1>1, <1>2, <1>3 DEF NoteWrite, FinishNote

LEMMA NoteLostInv ==
    ASSUME IInv, NEW c \in Callers, NoteLost(c)
    PROVE  IInv'
  BY NoteDoneKeeps, MarkDeadInv DEF NoteLost, IInv

LEMMA ActivateInv ==
    ASSUME IInv, NEW c \in Callers, Activate(c)
    PROVE  IInv'
<1>1. CASE LockFails(c)
  BY <1>1, LockFailsInv
<1>2. CASE phase' = "Active" /\ caller' = [caller EXCEPT ![c].at = "alloc", ![c].kind = "call"]
           /\ UNCHANGED <<nextId, current, poisoned, removalVars, server, countVars>>
  <2>1. KeepIds
    BY <1>2, TurnKeeps DEF IInv
  <2>2. NoNews(server') /\ NoOrphan'
    BY <1>2, SameServers DEF IInv, NoOrphan, removalVars
  <2> QED BY <1>2, <2>1, <2>2, QuietInv DEF IInv, TypeOK, removalVars, countVars
<1>3. CASE GoTo(c, "disconnect") /\ UNCHANGED <<sessionVars, server, countVars>>
  <2>1. KeepIds
    BY <1>3, GoToKeeps DEF IInv, CallerAt, Asking
  <2> QED BY <1>3, <2>1, OnlyTheCaller DEF IInv, TypeOK, countVars
<1> QED BY <1>1, <1>2, <1>3 DEF Activate

LEMMA GivingUpInv ==
    ASSUME IInv, NEW c \in Callers, Disconnect(c) \/ GiveUp(c)
    PROVE  IInv'
  BY EndCallKeeps, MarkDeadInv DEF Disconnect, GiveUp, IInv

-----------------------------------------------------------------------------
\* The stdin of a transport that the session no longer has is closed.
LEMMA CloseEffect ==
    ASSUME TypeOK, NEW t \in Transports
    PROVE  /\ NoNews(Close(t)) /\ Close(t)[t].state # "running"
           /\ \A u \in Transports \ {t} : Close(t)[u] = server[u]
<1>1. CASE server[t].state = "running"
  <2> DEFINE old == server[t]
             new == [old EXCEPT !.state = "closing"]
  <2>1. Close(t) = [server EXCEPT ![t] = new] /\ server \in [Transports -> Server] /\ old \in Server
    BY <1>1 DEF Close, TypeOK
  <2> HIDE DEF old
  <2>3. new \in Server /\ new.state = "closing" /\ new.inbox = old.inbox /\ new.out = old.out
    BY <2>1 DEF Server
  <2> HIDE DEF new
  <2>2. /\ Close(t) \in [Transports -> Server]
        /\ Close(t)[t].state = "closing"
        /\ \A u \in Transports : Close(t)[u].inbox = server[u].inbox /\ Close(t)[u].out = server[u].out
        /\ \A u \in Transports \ {t} : Close(t)[u] = server[u]
    BY <2>1, <2>3 DEF old
  <2> QED BY <2>2 DEF NoNews, Said
<1>2. CASE server[t].state # "running"
  <2> DEFINE after == Kill(t)
  <2>1. /\ NoNews(after) /\ after[t].state = "closed"
        /\ \A u \in Transports \ {t} : after[u] = server[u]
    BY KillSaysNothing
  <2>2. Close(t) = after
    BY <1>2 DEF Close
  <2> HIDE DEF after
  <2>3. NoNews(Close(t))
    BY <2>1, <2>2, Zenon
  <2> QED BY <2>1, <2>2, <2>3
<1> QED BY <1>1, <1>2

LEMMA ShutdownInv ==
    ASSUME IInv, Shutdown, removal # "taken"
    PROVE  IInv'
<1>1. KeepIds
  BY DEF Shutdown, IInv, TypeOK, KeepIds
<1>2. CASE poisoned \/ current = NoTransport
  <2>1. NoNews(server') /\ NoOrphan'
    BY <1>2, SameServers DEF Shutdown, IInv, NoOrphan
  <2> QED BY <1>1, <1>2, <2>1, QuietInv DEF Shutdown, IInv, TypeOK, countVars
<1>3. CASE ~poisoned /\ current # NoTransport
  <2>1. current \in Transports /\ current' = NoTransport
    BY <1>3 DEF Shutdown, IInv, TypeOK
  <2>2. CASE removal' = "taken" /\ going' = current /\ UNCHANGED server
    <3>1. NoNews(server')
      BY <2>2, SameServers DEF IInv
    <3>2. NoOrphan'
      BY <2>1, <2>2 DEF IInv, NoOrphan, Transports, NoTransport
    <3> QED BY <1>1, <2>1, <2>2, <3>1, <3>2, QuietInv DEF Shutdown, IInv, TypeOK, countVars
  <2>3. CASE removal' = "over" /\ server' = Close(current) /\ UNCHANGED going
    <3>1. NoNews(server') /\ NoOrphan'
      BY <2>1, <2>3, CloseEffect DEF IInv, NoOrphan
    <3> QED BY <1>1, <2>1, <2>3, <3>1, QuietInv DEF Shutdown, IInv, TypeOK, countVars
  <2> QED BY <1>3, <2>2, <2>3 DEF Shutdown
<1> QED BY <1>2, <1>3

LEMMA RetireInv ==
    ASSUME IInv, Retire
    PROVE  IInv'
<1>1. CASE Shutdown
  BY <1>1, ShutdownInv DEF Retire
<1>2. CASE removal' = "removed"
           /\ UNCHANGED <<phase, nextId, current, poisoned, going, caller, server, countVars>>
  <2>1. KeepIds /\ NoNews(server') /\ NoOrphan'
    BY <1>2, SameServers DEF IInv, TypeOK, KeepIds, NoOrphan
  <2>2. going' = NoTransport
    BY <1>2 DEF Retire, IInv
  <2> QED BY <1>2, <2>1, <2>2, QuietInv DEF IInv, TypeOK, countVars
<1> QED BY <1>1, <1>2 DEF Retire

LEMMA CloseAtLastInv ==
    ASSUME IInv, CloseAtLast
    PROVE  IInv'
<1>1. KeepIds
  BY DEF CloseAtLast, IInv, TypeOK, KeepIds
<1>2. CASE going = NoTransport
  <2>1. going \notin Transports
    BY <1>2 DEF Transports, NoTransport
  <2>2. server' = server
    BY <2>1 DEF CloseAtLast, Close, Kill, IInv, TypeOK
  <2>3. NoNews(server') /\ NoOrphan'
    BY <1>2, <2>2, SameServers DEF CloseAtLast, IInv, NoOrphan
  <2> QED BY <1>1, <2>3, QuietInv DEF CloseAtLast, IInv, TypeOK, countVars
<1>3. CASE going \in Transports
  <2>1. NoNews(server') /\ NoOrphan'
    BY <1>3, CloseEffect DEF CloseAtLast, IInv, NoOrphan
  <2> QED BY <1>1, <2>1, QuietInv DEF CloseAtLast, IInv, TypeOK, countVars
<1> QED BY <1>2, <1>3 DEF IInv, TypeOK

LEMMA ReapInv ==
    ASSUME IInv, NEW t \in Transports, GraceOver(t) \/ (DropSession /\ t = current)
    PROVE  IInv'
<1>1. KeepIds
  BY DEF GraceOver, DropSession, IInv, TypeOK, KeepIds
<1>2. /\ NoNews(server') /\ server'[t].state = "closed"
      /\ \A u \in Transports \ {t} : server'[u] = server[u]
  BY KillSaysNothing DEF GraceOver, DropSession, IInv
<1>3. NoOrphan'
  BY <1>2 DEF GraceOver, DropSession, IInv, NoOrphan, sessionVars, removalVars
<1> QED BY <1>1, <1>2, <1>3, QuietInv DEF GraceOver, DropSession, IInv, TypeOK, sessionVars, removalVars, countVars

\* What a subprocess does: it moves a request to its answers, adds a line that
\* is no answer, stops or goes on reading, or exits.
LEMMA ServerInv ==
    ASSUME IInv, NEW t \in Transports, ServerStep(t)
    PROVE  IInv'
<1> DEFINE out == server[t].out
<1>1. server[t] \in Server /\ out \in Seq(Line)
  BY DEF IInv, TypeOK, Server
<1>2. ASSUME NEW l \in Line, NEW rest \in SUBSET server[t].inbox,
             l.kind = "answer" => Addressed(l),
             server' = [server EXCEPT ![t].inbox = rest, ![t].out = Append(out, l)],
             UNCHANGED <<sessionVars, caller, spawned, calls>>, noise' \in 0 .. MaxNoise
      PROVE  IInv'
  <2>1. Append(out, l) \in Seq(Line)
    BY <1>1, AppendProperties
  <2>2. /\ server' \in [Transports -> Server]
        /\ server'[t].inbox = rest /\ server'[t].out = Append(out, l)
        /\ server'[t].state = server[t].state
        /\ \A u \in Transports \ {t} : server'[u] = server[u]
    BY <1>1, <1>2, <2>1 DEF IInv, TypeOK, Server
  <2>3. Said(server', t) \subseteq Said(server, t) \cup {l}
    <3>1. \A i \in DOMAIN Append(out, l) : Append(out, l)[i] = l \/ (i \in DOMAIN out /\ Append(out, l)[i] = out[i])
      BY <1>1, AppendProperties, LenProperties
    <3> QED BY <2>2, <3>1 DEF Said
  <2>4. \A u \in Transports \ {t} : Said(server', u) = Said(server, u)
    BY <2>2 DEF Said
  <2>5. \A q : Addressed(q) => Addressed(q)'
    BY <1>2 DEF Addressed, sessionVars, removalVars
  <2>6. Mail'
    BY <1>2, <2>2, <2>3, <2>4, <2>5 DEF IInv, Mail
  <2>7. TypeOK' /\ Ids'
    BY <1>2, <2>2 DEF IInv, TypeOK, Ids, sessionVars, removalVars
  <2>8. NoOrphan'
    BY <1>2, <2>2 DEF IInv, NoOrphan, sessionVars, removalVars
  <2> QED BY <1>2, <2>6, <2>7, <2>8 DEF IInv, sessionVars, removalVars
<1>3. CASE Answer(t)
  <2>1. PICK r \in server[t].inbox :
           server' = [server EXCEPT ![t].inbox = @ \ {r},
                                    ![t].out = Append(@, [kind |-> "answer", id |-> r.id, for |-> r.for])]
    BY <1>3 DEF Answer
  <2> DEFINE l == [kind |-> "answer", id |-> r.id, for |-> r.for]
  <2>2. r \in Request /\ Addressed(r)
    BY <1>1 DEF IInv, Mail, Server
  <2>3. l \in Line /\ Addressed(l)
    BY <2>2 DEF Line, Request, Addressed
  <2>4. server' = [server EXCEPT ![t].inbox = server[t].inbox \ {r}, ![t].out = Append(out, l)]
    BY <2>1
  <2>5. UNCHANGED <<sessionVars, caller, spawned, calls>> /\ noise' \in 0 .. MaxNoise
    BY <1>3 DEF Answer, IInv, TypeOK, countVars
  <2> HIDE DEF l
  <2> QED BY <1>2, <2>3, <2>4, <2>5
<1>4. CASE Babble(t)
  <2>1. PICK l \in [kind : {"junk"}]
                    \cup [kind : {"push"}, id : {NoId} \cup {caller[c].id : c \in Callers}] :
           server' = [server EXCEPT ![t].out = Append(@, l)]
    BY <1>4 DEF Babble
  <2>2. l \in Line /\ l.kind # "answer"
    <3>1. \A c \in Callers : caller[c].id \in Nat
      BY DEF IInv, TypeOK, Caller
    <3> QED BY <3>1 DEF Line, NoId
  <2>3. server' = [server EXCEPT ![t].inbox = server[t].inbox, ![t].out = Append(out, l)]
    BY <1>1, <2>1 DEF IInv, TypeOK, Server
  <2>4. UNCHANGED <<sessionVars, caller, spawned, calls>> /\ noise' \in 0 .. MaxNoise
    BY <1>4, BoundsAssumption DEF Babble, IInv, TypeOK
  <2> QED BY <1>2, <2>2, <2>3, <2>4
<1>5. CASE Exit(t)
  <2>1. /\ server' \in [Transports -> Server]
        /\ server'[t].inbox = {} /\ server'[t].out = out /\ server'[t].state = "exited"
        /\ \A u \in Transports \ {t} : server'[u] = server[u]
    BY <1>1, <1>5 DEF Exit, IInv, TypeOK, Server
  <2>2. NoNews(server')
    BY <2>1 DEF NoNews, Said
  <2>3. NoOrphan' /\ KeepIds
    BY <1>5, <2>1 DEF Exit, IInv, TypeOK, NoOrphan, KeepIds, sessionVars, removalVars
  <2> QED BY <1>5, <2>2, <2>3, QuietInv DEF Exit, IInv, TypeOK, sessionVars, removalVars, countVars
<1>6. CASE Stall(t) \/ Resume(t)
  <2>1. PICK b \in BOOLEAN : server' = [server EXCEPT ![t].deaf = b]
    BY <1>6 DEF Stall, Resume
  <2>2. /\ server' \in [Transports -> Server]
        /\ \A u \in Transports : /\ server'[u].inbox = server[u].inbox
                                 /\ server'[u].out = server[u].out
                                 /\ server'[u].state = server[u].state
    BY <1>1, <2>1 DEF IInv, TypeOK, Server
  <2>3. UNCHANGED <<sessionVars, caller, spawned, calls>> /\ noise' \in 0 .. MaxNoise
    BY <1>6, BoundsAssumption DEF Stall, Resume, IInv, TypeOK, countVars
  <2>4. NoNews(server') /\ NoOrphan' /\ KeepIds
    BY <2>2, <2>3 DEF NoNews, Said, IInv, TypeOK, NoOrphan, KeepIds, sessionVars, removalVars
  <2> QED BY <2>3, <2>4, QuietInv DEF IInv, TypeOK, sessionVars, removalVars
<1> QED BY <1>3, <1>4, <1>5, <1>6 DEF ServerStep

-----------------------------------------------------------------------------
\* The books are kept by every step.
LEMMA Invariance == Spec => []IInv
<1>1. Init => IInv
  <2> SUFFICES ASSUME Init PROVE IInv
    OBVIOUS
  <2>1. IdleCaller \in Caller /\ Unborn \in Server
    BY EmptySeq DEF IdleCaller, Caller, CallerAt, NoId, NoTransport, Unborn, Server
  <2>2. TypeOK
    <3>1. 0 \in 0 .. MaxSpawns /\ 0 \in 0 .. MaxCalls /\ 0 \in 0 .. MaxNoise
      BY BoundsAssumption
    <3>2. caller \in [Callers -> Caller] /\ server \in [Transports -> Server]
      BY <2>1 DEF Init
    <3>3. nextId \in Nat \ {0} /\ current \in Transports \cup {NoTransport}
      BY DEF Init, FirstId
    <3>4. phase \in {"Uninitialized", "Active"} /\ poisoned \in BOOLEAN
          /\ removal \in {"none", "removed", "taken", "over"} /\ going \in Transports \cup {NoTransport}
      BY DEF Init
    <3>5. spawned \in 0 .. MaxSpawns /\ calls \in 0 .. MaxCalls /\ noise \in 0 .. MaxNoise
      BY <3>1 DEF Init
    <3> QED BY <3>2, <3>3, <3>4, <3>5 DEF TypeOK
  <2>3. Ids
    <3>1. \A c \in Callers : caller[c].id = 0 /\ caller[c].at = "idle"
      BY DEF Init, IdleCaller, NoId
    <3>2. nextId = 1
      BY DEF Init, FirstId
    <3>3. "idle" \notin Asking
      BY DEF Asking
    <3>4. \A c \in Callers : caller[c].id < nextId
      <4> SUFFICES ASSUME NEW c \in Callers PROVE caller[c].id < nextId
        OBVIOUS
      <4>1. caller[c].id = 0 /\ nextId = 1
        BY <3>1, <3>2
      <4>2. 0 < 1
        OBVIOUS
      <4> QED BY <4>1, <4>2
    <3> QED BY <3>1, <3>3, <3>4 DEF Ids, NoId
  <2>4. Mail
    BY DEF Init, Mail, Said, Unborn
  <2>5. NoOrphan
    BY DEF Init, NoOrphan, Unborn
  <2>6. going = NoTransport
    BY DEF Init
  <2> QED BY <2>2, <2>3, <2>4, <2>5, <2>6 DEF IInv
<1>2. IInv /\ [Next]_vars => IInv'
  <2> SUFFICES ASSUME IInv, [Next]_vars PROVE IInv'
    OBVIOUS
  <2>1. ASSUME NEW c \in Callers, BeginCall(c) \/ CallerStep(c) \/ Clock(c)
        PROVE  IInv'
    BY <2>1, BeginCallInv, CheckPhaseInv, ConnectInv, WriteInv, FinishWriteInv, ClockInv, GrabInv,
       PollInv, DropForJunkInv, NoteConnectInv, NotePickInv, NoteWriteInv, NoteLostInv,
       ActivateInv, GivingUpInv DEF CallerStep
  <2>2. ASSUME NEW t \in Transports, ServerStep(t) \/ GraceOver(t)
        PROVE  IInv'
    BY <2>2, ServerInv, ReapInv
  <2>3. CASE Retire
    BY <2>3, RetireInv
  <2>6. CASE ShutdownAtLast \/ CloseAtLast
    BY <2>6, ShutdownInv, CloseAtLastInv DEF ShutdownAtLast
  <2>4. CASE DropSession
    BY <2>4, ReapInv DEF DropSession, IInv, TypeOK
  <2>5. CASE UNCHANGED vars
    BY <2>5 DEF vars, IInv, TypeOK, Ids, Mail, Said, Addressed, NoOrphan
  <2> QED BY <2>1, <2>2, <2>3, <2>4, <2>5, <2>6 DEF Next
<1> QED BY <1>1, <1>2, PTL DEF Spec

\* The session, its callers and its subprocesses are always of their types.
THEOREM TypeCorrect == Spec => []TypeOK
<1>1. IInv => TypeOK
  BY DEF IInv
<1> QED BY <1>1, Invariance, PTL

\* A caller that takes the answer with its id takes the answer to its own
\* request, over any number of callers, timeouts and respawns.
THEOREM AnswersAreOwn == Spec => []AnswerIsOwn
<1>1. IInv => AnswerIsOwn
  <2> SUFFICES ASSUME IInv, NEW c \in Callers, NEW t \in Transports
               PROVE  /\ \A r \in server[t].inbox : r.id = caller[c].id => r.for = c
                      /\ \A i \in DOMAIN server[t].out :
                            LET l == server[t].out[i]
                            IN  l.kind = "answer" /\ l.id = caller[c].id => l.for = c
    BY DEF AnswerIsOwn
  <2>1. \A i \in DOMAIN server[t].out : server[t].out[i] \in Said(server, t)
    BY DEF Said
  <2> QED BY <2>1 DEF IInv, Mail, Addressed
<1> QED BY <1>1, Invariance, PTL

\* A running child that was not told to go is the child of the session.
THEOREM NoOrphans == Spec => []NoOrphan
<1>1. IInv => NoOrphan
  BY DEF IInv
<1> QED BY <1>1, Invariance, PTL
=============================================================================
