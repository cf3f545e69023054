--------------------------- MODULE Discord_proofs ---------------------------
(***************************************************************************)
(* Proofs about Discord for every set of users and channels, every limit,  *)
(* window, time to live and length of the history.                         *)
(***************************************************************************)
EXTENDS Discord, SequenceTheorems, FiniteSetTheorems, TLAPS

-----------------------------------------------------------------------------
(* What an event is, and what trimming leaves. *)

LEMMA EventKinds ==
    ASSUME NEW e \in Event
    PROVE  /\ e = Ready <=> e.kind = "Ready"
           /\ e.kind = "Message" => e.id \in Ids /\ e.user \in Users /\ e.channel \in Channels
           /\ e.kind = "Slash" => e.id \in Ids
           /\ e # Ready => e.id \in Ids
           /\ e.kind # "Ready" => e # Ready
  BY DEF Event, Ready

LEMMA LastFacts ==
    ASSUME NEW S, NEW s \in Seq(S), NEW n \in Nat
    PROVE  /\ Last(s, n) \in Seq(S)
           /\ Len(Last(s, n)) = IF Len(s) > n THEN n ELSE Len(s)
           /\ \A i \in 1..Len(Last(s, n)) :
                Last(s, n)[i] = s[i + (Len(s) - Len(Last(s, n)))]
<1> DEFINE m == IF Len(s) > n THEN Len(s) - n + 1 ELSE 1
<1>1. Len(s) \in Nat /\ m \in Int
  BY LenProperties
<1>2. \A i \in m..Len(s) : s[i] \in S
  BY <1>1, ElementOfSeq
<1>3. /\ SubSeq(s, m, Len(s)) \in Seq(S)
      /\ Len(SubSeq(s, m, Len(s))) = IF m <= Len(s) THEN Len(s) - m + 1 ELSE 0
      /\ \A i \in 1..(Len(s) - m + 1) : SubSeq(s, m, Len(s))[i] = s[m + i - 1]
  BY <1>1, <1>2, SubSeqProperties, SMT
<1>4. Last(s, n) = SubSeq(s, m, Len(s))
  BY DEF Last
<1>5. Len(Last(s, n)) = IF Len(s) > n THEN n ELSE Len(s)
  <2>1. CASE Len(s) > n /\ n = 0
    BY <2>1, <1>1, <1>3, <1>4
  <2>2. CASE Len(s) > n /\ n # 0
    BY <2>2, <1>1, <1>3, <1>4
  <2>3. CASE ~(Len(s) > n)
    <3>1. m = 1 /\ Len(s) - m + 1 = Len(s)
      BY <2>3, <1>1
    <3>2. 1 <= Len(s) \/ Len(s) = 0
      BY <1>1
    <3> QED BY <2>3, <3>1, <3>2, <1>3, <1>4
  <2> QED BY <2>1, <2>2, <2>3
<1>6. ASSUME NEW i \in 1..Len(Last(s, n))
      PROVE  Last(s, n)[i] = s[i + (Len(s) - Len(Last(s, n)))]
  <2>1. i \in 1..(Len(s) - m + 1) /\ m + i - 1 = i + (Len(s) - Len(Last(s, n)))
    BY <1>1, <1>5
  <2> QED BY <2>1, <1>3, <1>4
<1> QED BY <1>3, <1>4, <1>5, <1>6

\* U is T with the new turn t at its end, without some turns at the front.
Grown(T, U, t) ==
    /\ Len(U) <= Len(T) + 1
    /\ \A i \in 1..Len(U) :
         \/ i = Len(U) /\ U[i] = t
         \/ /\ i < Len(U) /\ i + (Len(T) + 1 - Len(U)) \in 1..Len(T)
            /\ U[i] = T[i + (Len(T) + 1 - Len(U))]

\* What add_message does to the history of a channel.
LEMMA AddFacts ==
    ASSUME TypeOK, NEW c \in Channels, NEW role \in {"user", "assistant"},
           NEW e, e.id \in Ids, Add(c, role, e)
    PROVE  /\ context' \in [Channels -> [turns: Seq(Turn), last: Int]]
           /\ \A d \in Channels \ {c} : context'[d] = context[d]
           /\ Len(context'[c].turns) <= MaxHistory
           /\ Grown(context[c].turns, context'[c].turns, [role |-> role, id |-> e.id])
<1> DEFINE T == context[c].turns
           t == [role |-> role, id |-> e.id]
           A == Append(T, t)
           L == Last(A, MaxHistory)
           r == [turns |-> L, last |-> now]
<1>1. T \in Seq(Turn) /\ Len(T) \in Nat /\ t \in Turn /\ MaxHistory \in Nat /\ now \in Int
  <2>1. context[c] \in [turns: Seq(Turn), last: Int]
    BY DEF TypeOK
  <2>2. T \in Seq(Turn) /\ Len(T) \in Nat
    BY <2>1, LenProperties
  <2>3. t \in Turn
    BY DEF Turn
  <2>4. now \in Int
    BY TimesAssumption DEF TypeOK
  <2> QED BY <2>2, <2>3, <2>4, LimitsAssumption
<1>2. A \in Seq(Turn) /\ Len(A) = Len(T) + 1 /\ A[Len(T) + 1] = t
      /\ \A i \in 1..Len(T) : A[i] = T[i]
  BY <1>1, AppendProperties
<1>3. context' = [context EXCEPT ![c] = r]
  BY DEF Add
<1> HIDE DEF A
<1>4. /\ L \in Seq(Turn)
      /\ Len(L) = IF Len(A) > MaxHistory THEN MaxHistory ELSE Len(A)
      /\ \A i \in 1..Len(L) : L[i] = A[i + (Len(A) - Len(L))]
  BY <1>1, <1>2, LastFacts
<1> HIDE DEF L, t
<1>5. r \in [turns: Seq(Turn), last: Int]
  BY <1>1, <1>4
<1>6. context'[c] = r /\ r.turns = L /\ r.last = now
  BY <1>3 DEF TypeOK
<1>7. context' \in [Channels -> [turns: Seq(Turn), last: Int]]
      /\ \A d \in Channels \ {c} : context'[d] = context[d]
  <2> HIDE DEF r
  <2> QED BY <1>3, <1>5 DEF TypeOK
<1>8. Len(L) <= MaxHistory /\ Len(L) <= Len(T) + 1 /\ Len(L) \in Nat
  BY <1>1, <1>2, <1>4
<1>9. ASSUME NEW i \in 1..Len(L)
      PROVE  \/ i = Len(L) /\ L[i] = t
             \/ /\ i < Len(L) /\ i + (Len(T) + 1 - Len(L)) \in 1..Len(T)
                /\ L[i] = T[i + (Len(T) + 1 - Len(L))]
  <2>1. L[i] = A[i + (Len(T) + 1 - Len(L))]
    <3>1. Len(A) = Len(T) + 1 /\ L[i] = A[i + (Len(A) - Len(L))]
      BY <1>2, <1>4
    <3> QED BY <3>1
  <2>2. CASE i = Len(L)
    BY <2>1, <2>2, <1>1, <1>2, <1>8
  <2>3. CASE i # Len(L)
    <3>1. i < Len(L) /\ i + (Len(T) + 1 - Len(L)) \in 1..Len(T)
      BY <2>3, <1>1, <1>8
    <3> QED BY <3>1, <2>1, <1>2
  <2> QED BY <2>2, <2>3
<1>10. Grown(T, L, t)
  BY <1>8, <1>9 DEF Grown
<1> QED
  <2>1. context'[c].turns = L
    BY <1>6
  <2> HIDE DEF r
  <2> QED BY <2>1, <1>7, <1>8, <1>10 DEF t

-----------------------------------------------------------------------------
(* The types. *)

RunnerTypes ==
    /\ log \in Seq(Event) /\ valid \in BOOLEAN /\ cursor \in Nat
    /\ minted \in 0..MaxEvents /\ conns \in 0..MaxConns
    /\ gateway \in {"dial", "identify", "resume", "live", "refused", "backoff",
                    "aborted"}
    /\ session \in BOOLEAN /\ sequence \in Nat
    /\ init \in {"pending", "ok", "failed"}
    /\ received \in Seq(Ids)
LoopTypes ==
    /\ queue \in Seq(Event)
    /\ bot \in {"starting", "registering", "loop", "asking", "sending",
                "acknowledging", "gone"}
    /\ calls \subseteq {e \in Event : e.kind = "Message"} /\ followUps \in Nat
LimitTypes ==
    /\ bucket \in [Users -> [count: 0..Limit, start: Int]]
    /\ \A u \in Users : bucket[u].start <= now
    /\ admitted \subseteq [user: Users, id: Ids, at: 0..now]
    /\ now \in 0..MaxTime
ContextTypes ==
    /\ context \in [Channels -> [turns: Seq(Turn), last: Int]]
    /\ \A c \in Channels : Len(context[c].turns) <= MaxHistory

LEMMA TypeParts ==
    TypeOK <=> RunnerTypes /\ LoopTypes /\ LimitTypes /\ ContextTypes
  BY DEF TypeOK, RunnerTypes, LoopTypes, LimitTypes, ContextTypes

\* What is at the head of the queue.
LEMMA TakenFacts ==
    ASSUME LoopTypes, NEW kind \in {"Ready", "Message", "Slash"}, Taken(kind)
    PROVE  /\ Head(queue) \in Event /\ Head(queue).kind = kind
           /\ queue' \in Seq(Event)
           /\ kind = "Message" => /\ Head(queue) # Ready /\ Head(queue).id \in Ids
                                  /\ Head(queue).user \in Users
                                  /\ Head(queue).channel \in Channels
           /\ kind = "Slash" => Head(queue).id \in Ids
<1>1. queue \in Seq(Event) /\ queue # <<>> /\ Head(queue).kind = kind /\ queue' = Tail(queue)
  BY DEF LoopTypes, Taken
<1>2. Head(queue) \in Event /\ Tail(queue) \in Seq(Event)
  BY <1>1, HeadTailProperties
<1> QED BY <1>1, <1>2, EventKinds

\* The bucket a request is counted in.
LEMMA CurrentFacts ==
    ASSUME LimitTypes, NEW u \in Users
    PROVE  /\ Current(u) \in [count: 0..Limit, start: Int]
           /\ Current(u).start <= now
           /\ now \in Int /\ now - bucket[u].start \in Int
<1>1. bucket[u] \in [count: 0..Limit, start: Int] /\ bucket[u].start <= now
  BY DEF LimitTypes
<1>2. now \in Int /\ 0 \in 0..Limit
  BY TimesAssumption, LimitsAssumption DEF LimitTypes
<1>3. [count |-> 0, start |-> now] \in [count: 0..Limit, start: Int]
  BY <1>2
<1> QED BY <1>1, <1>2, <1>3 DEF Current

\* A user who passes the limit is charged and stays within it.
LEMMA AdmitTypes ==
    ASSUME LimitTypes, NEW e, e.user \in Users, e.id \in Ids, Admit(e), now' = now
    PROVE  LimitTypes'
<1> DEFINE u == e.user
           r == [Current(u) EXCEPT !.count = @ + 1]
           a == [user |-> u, id |-> e.id, at |-> now]
<1>1. /\ Current(u) \in [count: 0..Limit, start: Int] /\ Current(u).start <= now
      /\ Current(u).count < Limit
  BY CurrentFacts DEF Admit, Admits
<1>2. r \in [count: 0..Limit, start: Int] /\ r.start <= now
  BY <1>1, LimitsAssumption
<1>3. bucket' = [bucket EXCEPT ![u] = r]
  BY DEF Admit, Charge
<1> HIDE DEF r
<1>4. bucket' \in [Users -> [count: 0..Limit, start: Int]]
      /\ \A v \in Users : bucket'[v].start <= now
  BY <1>2, <1>3 DEF LimitTypes
<1>5. a \in [user: Users, id: Ids, at: 0..now]
  BY TimesAssumption DEF LimitTypes
<1> QED BY <1>4, <1>5 DEF LimitTypes, Admit

\* Every state has the types of the module.
LEMMA TypesKept == TypeOK /\ [Next]_vars => TypeOK'
<1> SUFFICES ASSUME TypeOK, [Next]_vars PROVE TypeOK'
  OBVIOUS
<1>t. RunnerTypes /\ LoopTypes /\ LimitTypes /\ ContextTypes
  BY TypeParts
<1>p. RunnerTypes' /\ LoopTypes' /\ LimitTypes' /\ ContextTypes' => TypeOK'
  BY DEF TypeOK, RunnerTypes, LoopTypes, LimitTypes, ContextTypes
<1> USE DEF discordVars, runnerVars, loopVars, limitVars
<1>1. UNCHANGED <<discordVars, runnerVars>> => RunnerTypes'
  BY <1>t DEF RunnerTypes
<1>2. UNCHANGED <<queue, loopVars>> => LoopTypes'
  BY <1>t DEF LoopTypes
<1>3. UNCHANGED <<limitVars, now>> => LimitTypes'
  BY <1>t DEF LimitTypes
<1>4. UNCHANGED context => ContextTypes'
  BY <1>t DEF ContextTypes
<1>5. CASE Server \/ Greet
  <2>1. CASE Post
    <3>1. PICK e \in Event : e.id = minted + 1 /\ e # Ready
                              /\ log' = (IF valid THEN Append(log, e) ELSE log)
      BY <2>1 DEF Post
    <3>2. log' \in Seq(Event)
      BY <3>1, <1>t, AppendProperties DEF RunnerTypes
    <3>3. RunnerTypes'
      BY <3>2, <2>1, <1>t, BoundsAssumption DEF Post, RunnerTypes
    <3> QED BY <3>3, <2>1, <1>2, <1>3, <1>4, <1>p DEF Post
  <2>2. CASE Forget
    <3>1. RunnerTypes'
      BY <2>2, <1>t DEF Forget, RunnerTypes
    <3> QED BY <3>1, <2>2, <1>2, <1>3, <1>4, <1>p DEF Forget
  <2>3. CASE Greet
    <3>1. <<Ready>> \in Seq(Event)
      BY DEF Event
    <3>2. /\ log' \in Seq(Event) /\ valid' \in BOOLEAN /\ cursor' \in Nat
          /\ gateway' \in {"live", "refused"}
      <4>1. CASE gateway = "identify"
        <5>1. log' = <<Ready>> /\ valid' = TRUE /\ cursor' = 0 /\ gateway' = "live"
          BY <4>1, <2>3 DEF Greet
        <5> QED BY <5>1, <3>1
      <4>2. CASE gateway # "identify"
        BY <4>2, <2>3, <1>t DEF Greet, RunnerTypes
      <4> QED BY <4>1, <4>2
    <3>3. RunnerTypes'
      BY <3>2, <2>3, <1>t DEF Greet, RunnerTypes
    <3> QED BY <3>3, <2>3, <1>2, <1>3, <1>4, <1>p DEF Greet
  <2> QED BY <1>5, <2>1, <2>2, <2>3 DEF Server
<1>6. CASE Runner
  <2>1. CASE Dial \/ DialFails \/ Disconnected \/ Invalidated \/ Retry
    <3>1. RunnerTypes'
      <4>1. CASE Dial
        BY <4>1, <1>t, BoundsAssumption DEF Dial, RunnerTypes
      <4>2. CASE DialFails \/ Disconnected
        BY <4>2, <1>t DEF DialFails, Disconnected, Ended, RunnerTypes
      <4>3. CASE Invalidated
        BY <4>3, <1>t DEF Invalidated, Ended, RunnerTypes
      <4>4. CASE Retry
        BY <4>4, <1>t DEF Retry, RunnerTypes
      <4> QED BY <2>1, <4>1, <4>2, <4>3, <4>4
    <3> QED BY <3>1, <2>1, <1>2, <1>3, <1>4, <1>p
      DEF Dial, DialFails, Disconnected, Invalidated, Retry
  <2>2. CASE Receive
    <3> DEFINE e == log[cursor + 1]
    <3>1. cursor + 1 \in 1..Len(log) /\ e \in Event
      BY <2>2, <1>t, ElementOfSeq, LenProperties DEF Receive, RunnerTypes
    <3>2. e # Ready => e.id \in Ids
      BY <3>1, EventKinds
    <3>3. queue' = Append(queue, e) /\ sequence' = cursor + 1 /\ cursor' = cursor + 1
          /\ received' = (IF e = Ready THEN received ELSE Append(received, e.id))
          /\ session' = (session \/ e = Ready)
      BY <2>2 DEF Receive
    <3> HIDE DEF e
    <3>4. queue' \in Seq(Event)
      BY <3>1, <3>3, <1>t, AppendProperties DEF LoopTypes
    <3>5. received' \in Seq(Ids)
      BY <3>2, <3>3, <1>t, AppendProperties DEF RunnerTypes
    <3>6. session' \in BOOLEAN
      BY <3>3
    <3>7. RunnerTypes'
      BY <3>3, <3>5, <3>6, <2>2, <1>t DEF Receive, RunnerTypes
    <3>8. LoopTypes'
      BY <3>4, <2>2, <1>t DEF Receive, LoopTypes
    <3> QED BY <3>7, <3>8, <2>2, <1>3, <1>4, <1>p DEF Receive
  <2> QED BY <1>6, <2>1, <2>2 DEF Runner
<1>7. CASE Bot
  <2>1. CASE Started
    <3>1. RunnerTypes' /\ LoopTypes'
      BY <2>1, <1>t DEF Started, RunnerTypes, LoopTypes
    <3> QED BY <3>1, <2>1, <1>3, <1>4, <1>p DEF Started
  <2>2. CASE HandleReady \/ IgnoreMessage
    <3>1. \E kind \in {"Ready", "Message", "Slash"} : Taken(kind)
      BY <2>2 DEF HandleReady, IgnoreMessage
    <3>2. LoopTypes'
      BY <3>1, <2>2, <1>t, TakenFacts DEF HandleReady, IgnoreMessage, LoopTypes
    <3> QED BY <3>2, <2>2, <1>1, <1>3, <1>4, <1>p DEF HandleReady, IgnoreMessage
  <2>3. CASE TakeSlash
    <3>1. LoopTypes'
      BY <2>3, <1>t, TakenFacts DEF TakeSlash, LoopTypes
    <3> QED BY <3>1, <2>3, <1>1, <1>3, <1>4, <1>p DEF TakeSlash
  <2>4. CASE RefuseMessage
    <3> DEFINE u == Head(queue).user
    <3>1. queue' \in Seq(Event) /\ u \in Users
      BY <2>4, <1>t, TakenFacts DEF RefuseMessage
    <3>2. bucket' = [bucket EXCEPT ![u] = Current(u)]
      BY <2>4 DEF RefuseMessage
    <3> HIDE DEF u
    <3>3. Current(u) \in [count: 0..Limit, start: Int] /\ Current(u).start <= now
      BY <3>1, <1>t, CurrentFacts
    <3>4. LimitTypes'
      BY <3>1, <3>2, <3>3, <2>4, <1>t DEF RefuseMessage, LimitTypes
    <3>5. LoopTypes'
      BY <3>1, <2>4, <1>t DEF RefuseMessage, LoopTypes
    <3> QED BY <3>4, <3>5, <2>4, <1>1, <1>4, <1>p DEF RefuseMessage
  <2>5. CASE BlockMessage
    <3>1. LimitTypes'
      BY <2>5, <1>t, TakenFacts, AdmitTypes DEF BlockMessage
    <3>2. LoopTypes'
      BY <2>5, <1>t, TakenFacts DEF BlockMessage, LoopTypes
    <3> QED BY <3>1, <3>2, <2>5, <1>1, <1>4, <1>p DEF BlockMessage
  <2>6. CASE AskLlm
    <3> DEFINE e == Head(queue)
    <3>1. queue' \in Seq(Event) /\ e \in Event /\ e.kind = "Message" /\ e.user \in Users
          /\ e.id \in Ids /\ e.channel \in Channels
      BY <2>6, <1>t, TakenFacts DEF AskLlm
    <3>2. /\ Admit(e) /\ Add(e.channel, "user", e) /\ calls' = calls \cup {e}
          /\ bot' = "asking" /\ UNCHANGED <<discordVars, runnerVars, followUps, now>>
      BY <2>6 DEF AskLlm
    <3> HIDE DEF e
    <3>3. LimitTypes'
      BY <3>1, <3>2, <1>t, AdmitTypes
    <3>4. LoopTypes'
      BY <3>1, <3>2, <1>t DEF LoopTypes
    <3>5. ContextTypes'
      BY <3>1, <3>2, <1>t, AddFacts DEF ContextTypes
    <3> QED BY <3>2, <3>3, <3>4, <3>5, <1>1, <1>p
  <2>7. CASE Answer
    <3>1. PICK e \in calls : calls' = calls \ {e} /\ Add(e.channel, "assistant", e)
      BY <2>7 DEF Answer
    <3>2. e.id \in Ids /\ e.channel \in Channels
      BY <1>t, EventKinds DEF LoopTypes
    <3>3. ContextTypes'
      BY <3>1, <3>2, <1>t, AddFacts DEF ContextTypes
    <3>4. LoopTypes'
      BY <3>1, <2>7, <1>t DEF Answer, LoopTypes
    <3> QED BY <3>3, <3>4, <2>7, <1>1, <1>3, <1>p DEF Answer
  <2> QED BY <1>7, <2>1, <2>2, <2>3, <2>4, <2>5, <2>6, <2>7 DEF Bot
<1>8. CASE FollowUp \/ Rest
  <2>1. LoopTypes'
    BY <1>8, <1>t DEF FollowUp, Rest, Returned, AcknowledgeSlash, RejectSlash, LoopTypes
  <2> QED BY <2>1, <1>8, <1>1, <1>3, <1>4, <1>p
    DEF FollowUp, Rest, Returned, AcknowledgeSlash, RejectSlash
<1>9. CASE CleanUp
  <2>1. CASE CleanContexts
    <3>1. Empty \in [turns: Seq(Turn), last: Int] /\ Len(Empty.turns) <= MaxHistory
      BY LimitsAssumption, TimesAssumption DEF Empty
    <3>2. context' \in [Channels -> [turns: Seq(Turn), last: Int]]
      BY <2>1, <3>1, <1>t DEF CleanContexts, ContextTypes
    <3>3. \A c \in Channels : context'[c] \in {context[c], Empty}
      BY <2>1 DEF CleanContexts
    <3>4. ContextTypes'
      BY <3>1, <3>2, <3>3, <1>t DEF ContextTypes
    <3> QED BY <3>4, <2>1, <1>1, <1>2, <1>3, <1>p DEF CleanContexts
  <2>2. CASE CleanBuckets
    <3>1. NoBucket \in [count: 0..Limit, start: Int] /\ NoBucket.start <= now
      BY LimitsAssumption, TimesAssumption, <1>t DEF NoBucket, LimitTypes
    <3>2. bucket' \in [Users -> [count: 0..Limit, start: Int]]
      BY <2>2, <3>1, <1>t DEF CleanBuckets, LimitTypes
    <3>3. \A u \in Users : bucket'[u] \in {bucket[u], NoBucket}
      BY <2>2 DEF CleanBuckets
    <3>4. LimitTypes'
      BY <2>2, <3>1, <3>2, <3>3, <1>t DEF CleanBuckets, LimitTypes
    <3> QED BY <3>4, <2>2, <1>1, <1>2, <1>4, <1>p DEF CleanBuckets
  <2> QED BY <1>9, <2>1, <2>2 DEF CleanUp
<1>10. CASE Tick
  <2>1. now \in Int /\ now < MaxTime /\ now' = now + 1 /\ UNCHANGED limitVars
    BY <1>10, <1>t, TimesAssumption DEF Tick, LimitTypes
  <2>2. /\ \A u \in Users : bucket'[u].start <= now'
        /\ now' \in 0..MaxTime
    BY <2>1, <1>t, TimesAssumption DEF LimitTypes
  <2>3. 0..now \subseteq 0..now'
    BY <2>1
  <2>4. admitted' \subseteq [user: Users, id: Ids, at: 0..now']
    BY <2>1, <2>3, <1>t DEF LimitTypes
  <2>5. LimitTypes'
    BY <2>1, <2>2, <2>4, <1>t DEF LimitTypes
  <2> QED BY <2>5, <1>10, <1>1, <1>2, <1>4, <1>p DEF Tick
<1>11. CASE UNCHANGED vars
  BY <1>11, <1>1, <1>2, <1>3, <1>4, <1>p DEF vars
<1> QED BY <1>5, <1>6, <1>7, <1>8, <1>9, <1>10, <1>11 DEF Next

LEMMA TypesInitially == Init => TypeOK
<1> SUFFICES ASSUME Init PROVE TypeOK
  OBVIOUS
<1>1. NoBucket \in [count: 0..Limit, start: Int] /\ NoBucket.start <= 0
  BY LimitsAssumption, TimesAssumption DEF NoBucket
<1>2. Empty \in [turns: Seq(Turn), last: Int] /\ Len(Empty.turns) <= MaxHistory
  BY LimitsAssumption, TimesAssumption DEF Empty
<1>3. RunnerTypes /\ LoopTypes
  <2>1. 0 \in 0..MaxEvents /\ 0 \in 0..MaxConns
    BY BoundsAssumption
  <2>2. <<>> \in Seq(Event) /\ <<>> \in Seq(Ids)
    OBVIOUS
  <2> QED BY <2>1, <2>2 DEF Init, RunnerTypes, LoopTypes
<1>4. LimitTypes
  BY <1>1, TimesAssumption DEF Init, LimitTypes
<1>5. ContextTypes
  BY <1>2 DEF Init, ContextTypes
<1> QED BY <1>3, <1>4, <1>5, TypeParts

\* Every state has the types of the module, whatever connects, disconnects,
\* expires and is cleaned up.
THEOREM TypeCorrect == Spec => []TypeOK
  BY TypesInitially, TypesKept, PTL DEF Spec

-----------------------------------------------------------------------------
(* Resuming. *)

\* A session begins with READY, which gives it a first event; afterwards come
\* events in the order caused.
Numbered ==
    /\ valid => log # <<>>
    /\ \A i \in 1..Len(log) : /\ log[i] = Ready <=> i = 1
                              /\ i # 1 => log[i].id <= minted
    /\ \A i, j \in 2..Len(log) : i < j => log[i].id < log[j].id
    /\ \A k \in 1..Len(received) : received[k] <= minted

\* The runner knows a session exactly when it has counted an event of it, which
\* is then still the session in log, and a connection goes on where it stands.
Placed ==
    /\ session <=> sequence > 0
    /\ sequence <= Len(log)
    /\ gateway = "live" => log # <<>> /\ cursor = sequence
    /\ gateway = "identify" => ~session
    /\ gateway = "resume" => session

\* The bot was given nothing of what is still to come.
Coming ==
    session \/ gateway = "live" =>
        \A i \in 2..Len(log) : i > sequence =>
            \A k \in 1..Len(received) : received[k] < log[i].id

\* ResumesExactly, over the lengths of the sequences.
Resumed ==
    /\ \A i, j \in 1..Len(received) : i < j => received[i] < received[j]
    /\ session => \A i \in 2..sequence : \E k \in 1..Len(received) : received[k] = log[i].id

RunnerInv == Numbered /\ Placed /\ Coming /\ Resumed

\* What RunnerInv speaks of.
sessionVars == <<log, valid, cursor, minted, gateway, session, sequence, received>>

LEMMA RunnerInvKept == RunnerTypes /\ RunnerInv /\ [Next]_vars => RunnerInv'
<1> SUFFICES ASSUME RunnerTypes, RunnerInv, [Next]_vars PROVE RunnerInv'
  OBVIOUS
<1>t. /\ log \in Seq(Event) /\ Len(log) \in Nat /\ sequence \in Nat /\ cursor \in Nat
      /\ minted \in Nat /\ received \in Seq(Ids) /\ Len(received) \in Nat
      /\ session \in BOOLEAN /\ Ids \subseteq Nat
  BY BoundsAssumption DEF RunnerTypes, Ids
<1>i. /\ \A i \in 1..Len(log) : log[i] \in Event /\ (log[i] # Ready => log[i].id \in Nat)
      /\ \A k \in 1..Len(received) : received[k] \in Nat
  <2>1. ASSUME NEW i \in 1..Len(log)
        PROVE  log[i] \in Event /\ (log[i] # Ready => log[i].id \in Nat)
    <3>1. log[i] \in Event
      BY <1>t, ElementOfSeq
    <3> QED BY <3>1, <1>t, EventKinds
  <2>2. \A k \in 1..Len(received) : received[k] \in Nat
    BY <1>t, ElementOfSeq
  <2> QED BY <2>1, <2>2
<1> DEFINE Same == sessionVars' = sessionVars
<1>1. CASE Same
  BY <1>1 DEF sessionVars, RunnerInv, Numbered, Placed, Coming, Resumed
<1>2. CASE Post
  <2>1. PICK e \in Event : /\ e.id = minted + 1 /\ e # Ready
                           /\ log' = (IF valid THEN Append(log, e) ELSE log)
    BY <1>2 DEF Post
  <2>2. minted' = minted + 1
        /\ UNCHANGED <<valid, cursor, gateway, session, sequence, received>>
    BY <1>2 DEF Post, runnerVars
  <2>a. /\ \A i \in 2..Len(log) : log[i].id \in Nat /\ log[i].id < minted + 1
        /\ \A k \in 1..Len(received) : received[k] < minted + 1
    BY <1>t, <1>i DEF RunnerInv, Numbered
  <2>3. CASE ~valid
    <3>1. log' = log
      BY <2>1, <2>3
    <3>2. Numbered'
      <4>1. \A k \in 1..Len(received) : received[k] <= minted + 1
        BY <2>a, <1>t, <1>i
      <4>2. \A i \in 1..Len(log) : i # 1 => log[i].id <= minted + 1
        BY <2>a, <1>t
      <4> QED BY <4>1, <4>2, <3>1, <2>2, <2>3 DEF RunnerInv, Numbered
    <3>3. Placed' /\ Coming' /\ Resumed'
      BY <3>1, <2>2 DEF RunnerInv, Placed, Coming, Resumed
    <3> QED BY <3>2, <3>3 DEF RunnerInv
  <2>4. CASE valid
    <3>1. /\ Len(log') = Len(log) + 1 /\ log'[Len(log) + 1] = e
          /\ \A i \in 1..Len(log) : log'[i] = log[i]
          /\ Len(log) >= 1
      BY <2>1, <2>4, <1>t, AppendProperties DEF RunnerInv, Numbered
    <3>2. Numbered'
      <4>1. \A k \in 1..Len(received) : received[k] <= minted + 1
        BY <2>a, <1>t, <1>i
      <4>2. \A i \in 1..Len(log') : /\ log'[i] = Ready <=> i = 1
                                    /\ i # 1 => log'[i].id <= minted + 1
        BY <2>a, <3>1, <2>1, <1>t DEF RunnerInv, Numbered
      <4>3. \A i, j \in 2..Len(log') : i < j => log'[i].id < log'[j].id
        BY <2>a, <3>1, <2>1, <1>t DEF RunnerInv, Numbered
      <4>4. log' # <<>>
        BY <3>1, <1>t
      <4> QED BY <4>1, <4>2, <4>3, <4>4, <2>2 DEF Numbered
    <3>3. Placed'
      BY <3>1, <2>2, <1>t DEF RunnerInv, Placed
    <3>4. Coming'
      <4> SUFFICES ASSUME session \/ gateway = "live", NEW i \in 2..Len(log'),
                          i > sequence, NEW k \in 1..Len(received)
                   PROVE  received[k] < log'[i].id
        BY <2>2 DEF Coming
      <4>1. CASE i = Len(log) + 1
        BY <4>1, <3>1, <2>1, <2>a
      <4>2. CASE i # Len(log) + 1
        <5>1. i \in 2..Len(log) /\ log'[i] = log[i]
          BY <4>2, <3>1, <1>t
        <5> QED BY <5>1 DEF RunnerInv, Coming
      <4> QED BY <4>1, <4>2
    <3>5. Resumed'
      <4>1. \A i \in 2..sequence : log'[i] = log[i]
        BY <3>1, <1>t DEF RunnerInv, Placed
      <4> QED BY <4>1, <2>2 DEF RunnerInv, Resumed
    <3> QED BY <3>2, <3>3, <3>4, <3>5 DEF RunnerInv
  <2> QED BY <2>3, <2>4
<1>3. CASE Forget
  BY <1>3, <1>t DEF Forget, runnerVars, RunnerInv, Numbered, Placed, Coming, Resumed
<1>4. CASE Greet
  <2>1. CASE gateway = "identify"
    <3>1. /\ log' = <<Ready>> /\ cursor' = 0 /\ gateway' = "live"
          /\ UNCHANGED <<minted, session, sequence, received>>
          /\ ~session /\ sequence = 0
      BY <1>4, <2>1, <1>t DEF Greet, RunnerInv, Placed
    <3>2. Len(log') = 1 /\ log'[1] = Ready /\ log' # <<>>
      BY <3>1
    <3> QED BY <3>1, <3>2, <1>t DEF RunnerInv, Numbered, Placed, Coming, Resumed
  <2>2. CASE gateway = "resume"
    <3>1. /\ gateway' \in {"live", "refused"} /\ cursor' = sequence
          /\ UNCHANGED <<log, valid, minted, session, sequence, received>>
          /\ session
      BY <1>4, <2>2 DEF Greet, RunnerInv, Placed
    <3>2. log # <<>>
      BY <3>1, <1>t DEF RunnerInv, Placed
    <3> QED BY <3>1, <3>2, <1>t DEF RunnerInv, Numbered, Placed, Coming, Resumed
  <2> QED BY <1>4, <2>1, <2>2 DEF Greet
<1>5. CASE Dial
  <2>1. /\ gateway' = (IF session /\ sequence > 0 THEN "resume" ELSE "identify")
        /\ UNCHANGED <<log, valid, cursor, minted, session, sequence, received>>
    BY <1>5 DEF Dial, discordVars
  <2> QED BY <2>1 DEF RunnerInv, Numbered, Placed, Coming, Resumed
<1>6. CASE DialFails \/ Disconnected \/ Retry \/ Started
  <2>1. /\ gateway' \in {"backoff", "dial", "aborted", gateway}
        /\ gateway' = "live" => gateway = "live"
        /\ UNCHANGED <<log, valid, cursor, minted, session, sequence, received>>
    BY <1>6 DEF DialFails, Disconnected, Retry, Started, Ended, discordVars
  <2> QED BY <2>1 DEF RunnerInv, Numbered, Placed, Coming, Resumed
<1>7. CASE Invalidated
  <2>1. /\ gateway' = "backoff" /\ session' = FALSE /\ sequence' = 0 /\ valid' = FALSE
        /\ UNCHANGED <<log, cursor, minted, received>>
    BY <1>7 DEF Invalidated, Ended
  <2>2. Numbered' /\ Placed'
    BY <2>1, <1>t DEF RunnerInv, Numbered, Placed
  <2>3. Coming' /\ Resumed'
    BY <2>1 DEF RunnerInv, Coming, Resumed
  <2> QED BY <2>2, <2>3 DEF RunnerInv
<1>8. CASE Receive
  <2> DEFINE e == log[cursor + 1]
  <2>1. /\ gateway = "live" /\ gateway' = "live" /\ cursor < Len(log)
        /\ cursor' = sequence + 1 /\ sequence' = sequence + 1 /\ cursor = sequence
        /\ session' = (session \/ e = Ready)
        /\ received' = (IF e = Ready THEN received ELSE Append(received, e.id))
        /\ UNCHANGED <<log, valid, minted>>
    BY <1>8 DEF Receive, RunnerInv, Placed
  <2>2. e \in Event /\ (e = Ready <=> sequence = 0) /\ (e # Ready => e.id \in Ids)
        /\ sequence + 1 \in 1..Len(log)
    BY <2>1, <1>t, <1>i, EventKinds DEF RunnerInv, Numbered
  <2>3. CASE sequence = 0
    <3>1. /\ session' = TRUE /\ sequence' = 1 /\ cursor' = 1 /\ received' = received
          /\ 1 <= Len(log)
      <4> HIDE DEF e
      <4>1. e = Ready
        BY <2>2, <2>3
      <4>2. session' = TRUE /\ received' = received
        BY <4>1, <2>1
      <4>3. sequence' = 1 /\ cursor' = 1 /\ 1 <= Len(log)
        BY <2>1, <2>2, <2>3, <1>t
      <4> QED BY <4>2, <4>3
    <3> HIDE DEF e
    <3>2. Numbered' /\ Placed'
      BY <3>1, <2>1, <1>t DEF RunnerInv, Numbered, Placed
    <3>3. Coming'
      BY <3>1, <2>1, <2>3, <1>t DEF RunnerInv, Coming
    <3>4. Resumed'
      BY <3>1, <2>1, <1>t DEF RunnerInv, Resumed
    <3> QED BY <3>2, <3>3, <3>4 DEF RunnerInv
  <2>4. CASE sequence # 0
    <3>1. /\ session /\ session' /\ e = log[sequence + 1] /\ e.id \in Nat
          /\ sequence + 1 \in 2..Len(log)
      <4>1. session /\ session'
        BY <2>1, <2>4, <1>t DEF RunnerInv, Placed
      <4>2. e.id \in Ids /\ sequence + 1 \in 2..Len(log)
        BY <2>2, <2>4, <1>t
      <4> QED BY <4>1, <4>2, <2>1, <1>t
    <3>2. /\ Len(received') = Len(received) + 1 /\ received'[Len(received) + 1] = e.id
          /\ \A k \in 1..Len(received) : received'[k] = received[k]
      BY <2>1, <2>2, <2>4, <1>t, AppendProperties
    <3> HIDE DEF e
    <3>3. \A k \in 1..Len(received) : received[k] < e.id
      BY <3>1, <2>1, <1>t DEF RunnerInv, Coming
    <3>4. Numbered'
      BY <3>1, <3>2, <2>1, <1>t, <1>i DEF RunnerInv, Numbered
    <3>5. Placed'
      BY <3>1, <2>1, <1>t DEF RunnerInv, Placed
    <3>6. Coming'
      <4>1. \A i \in 2..Len(log) : i > sequence + 1 => e.id < log[i].id
        BY <3>1, <1>t DEF RunnerInv, Numbered
      <4> QED BY <4>1, <3>1, <3>2, <2>1, <1>t, <1>i DEF RunnerInv, Coming
    <3>7. Resumed'
      <4>1. ASSUME NEW i \in 1..Len(received'), NEW j \in 1..Len(received'), i < j
            PROVE  received'[i] < received'[j]
        <5>1. CASE j = Len(received) + 1
          BY <5>1, <4>1, <3>2, <3>3, <1>t
        <5>2. CASE j # Len(received) + 1
          <6>1. i \in 1..Len(received) /\ j \in 1..Len(received)
            BY <5>2, <4>1, <3>2, <1>t
          <6> QED BY <6>1, <4>1, <3>2 DEF RunnerInv, Resumed
        <5> QED BY <5>1, <5>2
      <4>2. ASSUME NEW i \in 2..(sequence + 1)
            PROVE  \E k \in 1..Len(received') : received'[k] = log[i].id
        <5>1. CASE i = sequence + 1
          BY <5>1, <3>1, <3>2, <1>t
        <5>2. CASE i # sequence + 1
          <6>1. i \in 2..sequence
            BY <5>2, <1>t
          <6>2. PICK k \in 1..Len(received) : received[k] = log[i].id
            BY <6>1, <3>1 DEF RunnerInv, Resumed
          <6> QED BY <6>2, <3>2, <1>t
        <5> QED BY <5>1, <5>2
      <4> QED BY <4>1, <4>2, <2>1 DEF Resumed
    <3> QED BY <3>4, <3>5, <3>6, <3>7 DEF RunnerInv
  <2> QED BY <2>3, <2>4
<1>9. CASE Bot /\ ~Started
  <2> USE DEF discordVars, runnerVars, sessionVars
  <2>1. CASE HandleReady \/ RefuseMessage \/ BlockMessage \/ AskLlm
    BY <2>1, <1>1 DEF HandleReady, RefuseMessage, BlockMessage, AskLlm
  <2>2. CASE Answer \/ IgnoreMessage \/ TakeSlash
    BY <2>2, <1>1 DEF Answer, IgnoreMessage, TakeSlash
  <2> QED BY <1>9, <2>1, <2>2 DEF Bot
<1>10. CASE FollowUp \/ Rest \/ CleanUp \/ Tick \/ UNCHANGED vars
  BY <1>10, <1>1 DEF FollowUp, Rest, Returned, AcknowledgeSlash, RejectSlash, CleanUp,
                     CleanContexts, CleanBuckets, Tick, vars,
                     discordVars, runnerVars, sessionVars
<1> QED BY <1>2, <1>3, <1>4, <1>5, <1>6, <1>7, <1>8, <1>9, <1>10
    DEF Next, Server, Runner, Bot

\* Each event is given to the bot at most once and in order, and none of the
\* resumable session is skipped, over every sequence of connections.
THEOREM ResumesExactlyAlways == Spec => []ResumesExactly
<1>1. Init => RunnerInv
  BY DEF Init, RunnerInv, Numbered, Placed, Coming, Resumed
<1>2. TypeOK /\ RunnerInv /\ [Next]_vars => RunnerInv'
  BY RunnerInvKept, TypeParts
<1>3. TypeOK /\ RunnerInv => ResumesExactly
  BY LenProperties, TypeParts DEF RunnerTypes, RunnerInv, Resumed, ResumesExactly
<1> QED BY <1>1, <1>2, <1>3, TypeCorrect, PTL DEF Spec

-----------------------------------------------------------------------------
(* Questions and answers. *)

\* In a history every answer has its question before it, and every question but
\* the last its answer after it.
Answered(turns) ==
    \A i \in 1..Len(turns) :
        /\ turns[i].role = "assistant" /\ i > 1
             => turns[i - 1] = [role |-> "user", id |-> turns[i].id]
        /\ turns[i].role = "user" /\ i < Len(turns)
             => turns[i + 1] = [role |-> "assistant", id |-> turns[i].id]

\* A history that ends in a question ends in that of the call, of which there
\* is one at most, and while the call runs its channel has it at the end or is
\* forgotten.
Asked ==
    /\ \A c \in Channels :
         LET turns == context[c].turns IN
           /\ Answered(turns)
           /\ Len(turns) > 0 /\ turns[Len(turns)].role = "user" =>
                \E e \in calls : e.id = turns[Len(turns)].id /\ e.channel = c
    /\ \A e \in calls :
         LET turns == context[e.channel].turns IN
           Len(turns) > 0 => turns[Len(turns)] = [role |-> "user", id |-> e.id]
    /\ calls # {} => bot = "asking"
    /\ \A e, f \in calls : e = f

\* A turn that fits the end of a history may be added, and trimmed to.
LEMMA AnsweredGrows ==
    ASSUME NEW T \in Seq(Turn), NEW U \in Seq(Turn), NEW t \in Turn,
           Answered(T), Grown(T, U, t),
           Len(T) > 0 => IF t.role = "assistant"
                           THEN T[Len(T)] = [role |-> "user", id |-> t.id]
                           ELSE T[Len(T)].role = "assistant"
    PROVE  Answered(U)
<1> DEFINE k == Len(T) + 1 - Len(U)
<1>1. Len(T) \in Nat /\ Len(U) \in Nat /\ k \in Nat
  BY LenProperties DEF Grown
<1>g. \A i \in 1..Len(U) : \/ i = Len(U) /\ U[i] = t
                           \/ i < Len(U) /\ i + k \in 1..Len(T) /\ U[i] = T[i + k]
  BY DEF Grown
<1> SUFFICES ASSUME NEW i \in 1..Len(U)
             PROVE  /\ U[i].role = "assistant" /\ i > 1
                         => U[i - 1] = [role |-> "user", id |-> U[i].id]
                    /\ U[i].role = "user" /\ i < Len(U)
                         => U[i + 1] = [role |-> "assistant", id |-> U[i].id]
  BY DEF Answered
<1>2. /\ t \in [role: {"user", "assistant"}, id: Ids]
      /\ t.role = "assistant" => t = [role |-> "assistant", id |-> t.id]
  BY DEF Turn
<1>3. ASSUME i > 1, U[i].role = "assistant"
      PROVE  U[i - 1] = [role |-> "user", id |-> U[i].id]
  <2>1. i - 1 \in 1..Len(U) /\ i - 1 # Len(U)
    BY <1>1, <1>3
  <2>2. U[i - 1] = T[i - 1 + k] /\ i - 1 + k \in 1..Len(T)
    BY <2>1, <1>g
  <2>3. CASE i = Len(U)
    <3>1. U[i] = t /\ i - 1 + k = Len(T) /\ Len(T) > 0
      BY <2>2, <2>3, <1>1, <1>g
    <3> HIDE DEF k
    <3> QED BY <2>2, <3>1, <1>3
  <2>4. CASE i # Len(U)
    <3>1. U[i] = T[i + k] /\ i + k \in 1..Len(T) /\ i + k > 1 /\ i + k - 1 = i - 1 + k
      BY <2>2, <2>4, <1>1, <1>3, <1>g
    <3> DEFINE j == i + k
    <3>2. \A n \in 1..Len(T) : T[n].role = "assistant" /\ n > 1
                                => T[n - 1] = [role |-> "user", id |-> T[n].id]
      BY DEF Answered
    <3>3. j \in 1..Len(T) /\ j > 1 /\ T[j].role = "assistant" /\ T[j] = U[i]
      BY <3>1, <1>3
    <3>4. j - 1 = i - 1 + k
      BY <3>1
    <3> HIDE DEF j, k
    <3>5. T[j - 1] = [role |-> "user", id |-> T[j].id]
      BY <3>2, <3>3
    <3> QED BY <3>3, <3>4, <3>5, <2>2
  <2> QED BY <2>3, <2>4
<1>4. ASSUME i < Len(U), U[i].role = "user"
      PROVE  U[i + 1] = [role |-> "assistant", id |-> U[i].id]
  <2>1. U[i] = T[i + k] /\ i + k \in 1..Len(T) /\ i + 1 \in 1..Len(U)
    BY <1>1, <1>4, <1>g
  <2>2. CASE i + 1 = Len(U)
    <3>1. i + k = Len(T) /\ U[i + 1] = t
      <4>1. i + k = Len(T) /\ i + 1 \in 1..Len(U) /\ ~(i + 1 < Len(U))
        BY <2>1, <2>2, <1>1
      <4> HIDE DEF k
      <4> QED BY <4>1, <1>g
    <3>2. T[Len(T)].role = "user"
      BY <3>1, <2>1, <1>4
    <3>3. T[Len(T)] = [role |-> "user", id |-> t.id] /\ t.role = "assistant"
      BY <3>1, <3>2, <2>1, <1>1
    <3> QED BY <3>1, <3>3, <2>1, <1>2
  <2>3. CASE i + 1 # Len(U)
    <3>1. /\ U[i + 1] = T[i + 1 + k] /\ i + k < Len(T)
          /\ i + 1 + k = i + k + 1
      BY <2>1, <2>3, <1>1, <1>g
    <3> QED BY <3>1, <2>1, <1>4 DEF Answered
  <2> QED BY <2>2, <2>3
<1> QED BY <1>3, <1>4

LEMMA AskedKept == TypeOK /\ Asked /\ [Next]_vars => Asked'
<1> SUFFICES ASSUME TypeOK, Asked, [Next]_vars PROVE Asked'
  OBVIOUS
<1>t. /\ RunnerTypes /\ LoopTypes /\ LimitTypes /\ ContextTypes /\ ContextTypes'
  BY TypesKept, TypeParts DEF TypeOK, ContextTypes
<1>c. \A c \in Channels :
        /\ context[c].turns \in Seq(Turn) /\ Len(context[c].turns) \in Nat
        /\ context'[c].turns \in Seq(Turn) /\ Len(context'[c].turns) \in Nat
  BY <1>t, LenProperties DEF ContextTypes
<1>k. \A e \in calls : e.channel \in Channels /\ e.id \in Ids
  BY <1>t, EventKinds DEF LoopTypes
<1> USE DEF discordVars, runnerVars, loopVars, limitVars
<1>1. CASE UNCHANGED <<context, calls>> /\ (calls # {} => bot' = bot)
  BY <1>1 DEF Asked
<1>2. CASE Server \/ Greet \/ Runner \/ CleanBuckets \/ Tick \/ FollowUp \/ UNCHANGED vars
  BY <1>2, <1>1 DEF Server, Post, Forget, Greet, Runner, Dial, DialFails, Receive,
     Disconnected, Invalidated, Retry, CleanBuckets, Tick, FollowUp, vars
<1>3. CASE Started \/ HandleReady \/ RefuseMessage \/ BlockMessage \/ IgnoreMessage
           \/ TakeSlash \/ Rest
  <2>1. UNCHANGED <<context, calls>>
    BY <1>3 DEF Started, HandleReady, RefuseMessage, BlockMessage, IgnoreMessage,
                TakeSlash, Rest, Returned, AcknowledgeSlash, RejectSlash
  <2>2. bot # "asking"
    BY <1>3 DEF Started, HandleReady, RefuseMessage, BlockMessage, IgnoreMessage,
                TakeSlash, Rest, Returned, AcknowledgeSlash, RejectSlash, Taken
  <2>3. calls = {}
    BY <2>2 DEF Asked
  <2> QED BY <2>1, <2>3, <1>1
<1>4. CASE AskLlm
  <2> DEFINE e == Head(queue)
             c == e.channel
             t == [role |-> "user", id |-> e.id]
             T == context[c].turns
             U == context'[c].turns
  <2>1. e.id \in Ids /\ c \in Channels /\ bot = "loop"
    BY <1>4, <1>t, TakenFacts DEF AskLlm, Taken
  <2>2. Add(c, "user", e) /\ calls' = calls \cup {e} /\ bot' = "asking"
    BY <1>4 DEF AskLlm
  <2> HIDE DEF e
  <2>3. calls = {} /\ calls' = {e}
    BY <2>1, <2>2 DEF Asked
  <2>4. (\A d \in Channels \ {c} : context'[d] = context[d]) /\ Grown(T, U, t)
    BY <2>1, <2>2, AddFacts
  <2>5. T \in Seq(Turn) /\ U \in Seq(Turn) /\ t \in Turn /\ Len(T) \in Nat /\ Len(U) \in Nat
    BY <2>1, <1>c DEF Turn
  <2>6. Len(T) > 0 => T[Len(T)].role = "assistant"
    <3>1. Len(T) > 0 => T[Len(T)] \in Turn
      BY <2>5, ElementOfSeq
    <3>2. Len(T) > 0 => T[Len(T)].role # "user"
      BY <2>1, <2>3 DEF Asked
    <3> QED BY <3>1, <3>2 DEF Turn
  <2>7. Answered(U)
    <3>1. Answered(T) /\ t.role = "user"
      BY <2>1 DEF Asked
    <3> HIDE DEF T, U, t
    <3> QED BY <3>1, <2>4, <2>5, <2>6, AnsweredGrows
  <2>8. Len(U) > 0 => U[Len(U)] = t
    <3>1. Len(U) > 0 => Len(U) \in 1..Len(U)
      BY <2>5
    <3> HIDE DEF U, T, t
    <3> QED BY <3>1, <2>4, <2>5 DEF Grown
  <2>9. t.id = e.id
    OBVIOUS
  <2> HIDE DEF t
  <2>10. ASSUME NEW d \in Channels
         PROVE  LET turns == context'[d].turns IN
                  /\ Answered(turns)
                  /\ Len(turns) > 0 /\ turns[Len(turns)].role = "user" =>
                       \E f \in calls' : f.id = turns[Len(turns)].id /\ f.channel = d
    <3>1. CASE d = c
      BY <3>1, <2>3, <2>7, <2>8, <2>9
    <3>2. CASE d # c
      BY <3>2, <2>3, <2>4 DEF Asked
    <3> QED BY <3>1, <3>2
  <2>11. \A f \in calls' :
           LET turns == context'[f.channel].turns IN
             Len(turns) > 0 => turns[Len(turns)] = [role |-> "user", id |-> f.id]
    BY <2>3, <2>8 DEF t
  <2> QED BY <2>2, <2>3, <2>10, <2>11 DEF Asked
<1>5. CASE Answer
  <2>1. PICK e \in calls : calls' = calls \ {e} /\ Add(e.channel, "assistant", e)
    BY <1>5 DEF Answer
  <2> DEFINE c == e.channel
             t == [role |-> "assistant", id |-> e.id]
             T == context[c].turns
             U == context'[c].turns
  <2>2. e.id \in Ids /\ c \in Channels /\ calls' = {} /\ calls = {e}
    BY <2>1, <1>k DEF Asked
  <2>4. (\A d \in Channels \ {c} : context'[d] = context[d]) /\ Grown(T, U, t)
    BY <2>1, <2>2, AddFacts
  <2>5. T \in Seq(Turn) /\ U \in Seq(Turn) /\ t \in Turn /\ Len(T) \in Nat /\ Len(U) \in Nat
    BY <2>2, <1>c DEF Turn
  <2>6. Len(T) > 0 => T[Len(T)] = [role |-> "user", id |-> t.id]
    BY DEF Asked
  <2>7. Answered(U)
    <3>1. Answered(T) /\ t.role = "assistant"
      BY <2>2 DEF Asked
    <3> HIDE DEF T, U, t
    <3> QED BY <3>1, <2>4, <2>5, <2>6, AnsweredGrows
  <2>8. Len(U) > 0 => U[Len(U)].role = "assistant"
    <3>1. (Len(U) > 0 => Len(U) \in 1..Len(U)) /\ t.role = "assistant"
      BY <2>5
    <3> HIDE DEF U, T, t
    <3> QED BY <3>1, <2>4, <2>5 DEF Grown
  <2>10. ASSUME NEW d \in Channels
         PROVE  LET turns == context'[d].turns IN
                  Answered(turns) /\ ~(Len(turns) > 0 /\ turns[Len(turns)].role = "user")
    <3>1. CASE d = c
      BY <3>1, <2>7, <2>8
    <3>2. CASE d # c
      BY <3>2, <2>2, <2>4 DEF Asked
    <3> QED BY <3>1, <3>2
  <2> QED BY <2>2, <2>10 DEF Asked
<1>6. CASE CleanContexts
  <2>1. \A d \in Channels : context'[d] \in {context[d], Empty}
    BY <1>6 DEF CleanContexts
  <2>2. UNCHANGED <<calls, bot>>
    BY <1>6 DEF CleanContexts
  <2>3. Len(Empty.turns) = 0 /\ Answered(Empty.turns)
    BY DEF Empty, Answered
  <2> QED BY <2>1, <2>2, <2>3, <1>k DEF Asked
<1> QED BY <1>2, <1>3, <1>4, <1>5, <1>6 DEF Next, Bot, CleanUp

\* In every history sent to the LLM an answer follows its question, and only
\* the question being answered has none.
THEOREM AnswersFollowQuestions == Spec => []AnswerFollowsQuestion
<1>1. Init => Asked
  BY DEF Init, Asked, Answered, Empty
<1>2. TypeOK /\ Asked => AnswerFollowsQuestion
  <2> SUFFICES ASSUME TypeOK, Asked, NEW c \in Channels,
                      NEW i \in DOMAIN context[c].turns
               PROVE  LET turns == context[c].turns IN
                        IF turns[i].role = "assistant"
                          THEN i > 1 => turns[i - 1] = [role |-> "user", id |-> turns[i].id]
                          ELSE IF i < Len(turns)
                            THEN turns[i + 1] = [role |-> "assistant", id |-> turns[i].id]
                            ELSE \E e \in calls : e.id = turns[i].id
    BY DEF AnswerFollowsQuestion
  <2> DEFINE turns == context[c].turns
  <2>1. turns \in Seq(Turn)
    BY DEF TypeOK
  <2>2. i \in 1..Len(turns) /\ Len(turns) \in Nat /\ turns[i] \in Turn
    BY <2>1, LenProperties, ElementOfSeq
  <2>3. turns[i].role # "assistant" => turns[i].role = "user"
    BY <2>2 DEF Turn
  <2>4. Answered(turns) /\ (Len(turns) > 0 /\ turns[Len(turns)].role = "user" =>
                              \E e \in calls : e.id = turns[Len(turns)].id)
    BY DEF Asked
  <2> HIDE DEF turns
  <2>5. i < Len(turns) \/ i = Len(turns)
    BY <2>2
  <2>6. CASE turns[i].role = "assistant"
    BY <2>2, <2>4, <2>6 DEF Answered, turns
  <2>7. CASE turns[i].role = "user" /\ i < Len(turns)
    BY <2>2, <2>4, <2>7 DEF Answered, turns
  <2>8. CASE turns[i].role = "user" /\ i = Len(turns)
    BY <2>2, <2>4, <2>8 DEF turns
  <2> QED BY <2>3, <2>5, <2>6, <2>7, <2>8
<1> QED BY <1>1, <1>2, AskedKept, TypeCorrect, PTL DEF Spec

-----------------------------------------------------------------------------
(* The rate limit. *)

\* Whom of A, all let through, the limiter let through from s on and before t.
Between(A, u, s, t) == {a \in A : a.user = u /\ s <= a.at /\ a.at < t}

\* At time n, a bucket whose window is not over counts the window, and the
\* stretch as long before it held at most one limit.
Fits(A, n, u, b) ==
    /\ b.start + Window > n
    /\ Cardinality(Between(A, u, b.start, n + 1)) <= b.count
    /\ Cardinality(Between(A, u, b.start - Window, b.start)) <= Limit

\* When it is over, or there is none, the last window up to now held at most
\* one limit, and nobody was let through in this tick.
Over(A, n, u) ==
    /\ \A a \in A : a.user = u => a.at < n
    /\ Cardinality(Between(A, u, n - Window, n)) <= Limit

Windows ==
    /\ IsFiniteSet(admitted)
    /\ \A u \in Users :
         /\ IF bucket[u].start + Window > now
              THEN Fits(admitted, now, u, bucket[u])
              ELSE Over(admitted, now, u)
         /\ \A t \in Nat : Cardinality(Between(admitted, u, t, t + Window)) <= 2 * Limit

\* The arithmetic of the types.
Numbers ==
    /\ Limit \in Nat /\ Window \in Nat /\ Window > 0 /\ now \in Nat
    /\ bucket \in [Users -> [count: 0..Limit, start: Int]]
    /\ \A u \in Users : /\ bucket[u].count \in Nat /\ bucket[u].count <= Limit
                        /\ bucket[u].start \in Int /\ bucket[u].start <= now
    /\ \A a \in admitted : a.at \in Nat /\ a.at <= now

LEMMA NumbersOfTypes == LimitTypes => Numbers
<1> SUFFICES ASSUME LimitTypes PROVE Numbers
  OBVIOUS
<1>1. now \in Nat /\ Limit \in Nat /\ Window \in Nat /\ Window > 0
  BY TimesAssumption, LimitsAssumption DEF LimitTypes
<1>2. ASSUME NEW a \in admitted PROVE a.at \in Nat /\ a.at <= now
  <2>1. a.at \in 0..now
    BY DEF LimitTypes
  <2> QED BY <2>1, <1>1
<1>3. ASSUME NEW u \in Users
      PROVE  /\ bucket[u].count \in Nat /\ bucket[u].count <= Limit
             /\ bucket[u].start \in Int /\ bucket[u].start <= now
  <2>1. bucket[u] \in [count: 0..Limit, start: Int] /\ bucket[u].start <= now
    BY DEF LimitTypes
  <2> QED BY <2>1, <1>1
<1> QED BY <1>1, <1>2, <1>3 DEF LimitTypes, Numbers

LEMMA BetweenFinite ==
    ASSUME NEW A, IsFiniteSet(A), NEW u, NEW s, NEW t
    PROVE  IsFiniteSet(Between(A, u, s, t)) /\ Cardinality(Between(A, u, s, t)) \in Nat
<1>1. Between(A, u, s, t) \in SUBSET A
  BY DEF Between
<1> QED BY <1>1, FS_Subset, FS_CardinalityType

\* Counting is monotonic, and one more counts one more at most.
LEMMA FewerCount ==
    ASSUME NEW T, IsFiniteSet(T), NEW S \in SUBSET T
    PROVE  /\ Cardinality(S) \in Nat /\ Cardinality(T) \in Nat
           /\ Cardinality(S) <= Cardinality(T)
  BY FS_Subset, FS_CardinalityType

LEMMA OneMoreCounts ==
    ASSUME NEW S, IsFiniteSet(S), NEW a, NEW R \in SUBSET (S \cup {a})
    PROVE  /\ Cardinality(R) \in Nat /\ Cardinality(S) \in Nat
           /\ Cardinality(R) <= Cardinality(S) + 1
<1>1. Cardinality(S) \in Nat
  BY FS_CardinalityType
<1>2. /\ IsFiniteSet(S \cup {a})
      /\ Cardinality(S \cup {a}) = IF a \in S THEN Cardinality(S) ELSE Cardinality(S) + 1
  BY FS_AddElement
<1>3. Cardinality(R) \in Nat /\ Cardinality(R) <= Cardinality(S \cup {a})
  BY <1>2, FewerCount
<1> QED BY <1>1, <1>2, <1>3

LEMMA TogetherCount ==
    ASSUME NEW S, IsFiniteSet(S), NEW T, IsFiniteSet(T), NEW R \in SUBSET (S \cup T)
    PROVE  /\ Cardinality(R) \in Nat /\ Cardinality(S) \in Nat /\ Cardinality(T) \in Nat
           /\ Cardinality(R) <= Cardinality(S) + Cardinality(T)
<1>1. /\ IsFiniteSet(S \cup T)
      /\ Cardinality(S \cup T) = Cardinality(S) + Cardinality(T) - Cardinality(S \cap T)
  BY FS_Union
<1>2. S \cap T \in SUBSET S
  OBVIOUS
<1>3. Cardinality(S \cap T) \in Nat /\ Cardinality(S) \in Nat /\ Cardinality(T) \in Nat
  BY <1>2, FewerCount, FS_CardinalityType
<1>4. Cardinality(R) \in Nat /\ Cardinality(R) <= Cardinality(S \cup T)
  BY <1>1, FewerCount
<1> QED BY <1>1, <1>3, <1>4

\* The bucket a request is counted in fits, also when it is begun anew.
LEMMA CurrentFits ==
    ASSUME LimitTypes, Windows, NEW u \in Users
    PROVE  Fits(admitted, now, u, Current(u))
<1>n. Numbers
  BY NumbersOfTypes
<1>1. CASE now - bucket[u].start >= Window
  <2>1. Current(u).count = 0 /\ Current(u).start = now
    BY <1>1 DEF Current
  <2>2. ~(bucket[u].start + Window > now) /\ now + Window > now
    BY <1>1, <1>n DEF Numbers
  <2>3. Over(admitted, now, u)
    BY <2>2 DEF Windows
  <2>4. Between(admitted, u, now, now + 1) = {}
    BY <2>3, <1>n DEF Between, Over, Numbers
  <2> QED BY <2>1, <2>2, <2>3, <2>4, FS_EmptySet DEF Fits, Over
<1>2. CASE ~(now - bucket[u].start >= Window)
  <2>1. Current(u) = bucket[u] /\ bucket[u].start + Window > now
    BY <1>2, <1>n DEF Current, Numbers
  <2> QED BY <2>1 DEF Windows
<1> QED BY <1>1, <1>2

\* A step that lets nobody through, at the same time, and changes buckets only
\* to ones that fit, or from and to ones that are over.
LEMMA NobodyPasses ==
    ASSUME LimitTypes, Windows, admitted' = admitted, now' = now,
           \A u \in Users :
             \/ bucket'[u] = bucket[u]
             \/ bucket'[u] = Current(u)
             \/ /\ ~(bucket'[u].start + Window > now)
                /\ ~(bucket[u].start + Window > now)
    PROVE  Windows'
<1>1. ASSUME NEW u \in Users
      PROVE  IF bucket'[u].start + Window > now
               THEN Fits(admitted, now, u, bucket'[u])
               ELSE Over(admitted, now, u)
  <2>1. CASE bucket'[u] = bucket[u]
    BY <2>1 DEF Windows
  <2>2. CASE bucket'[u] = Current(u)
    <3>1. Fits(admitted, now, u, Current(u))
      BY CurrentFits
    <3> QED BY <2>2, <3>1 DEF Fits
  <2>3. CASE /\ ~(bucket'[u].start + Window > now)
             /\ ~(bucket[u].start + Window > now)
    BY <2>3 DEF Windows
  <2> QED BY <2>1, <2>2, <2>3
<1> QED BY <1>1 DEF Windows

\* Somebody passes.
LEMMA SomebodyPasses ==
    ASSUME LimitTypes, Windows, NEW e, e.user \in Users, Admit(e), now' = now
    PROVE  Windows'
<1> DEFINE u == e.user
           a == [user |-> u, id |-> e.id, at |-> now]
           b == Current(u)
           A == admitted \cup {a}
<1>n. Numbers
  BY NumbersOfTypes
<1>1. /\ Fits(admitted, now, u, b) /\ b.count < Limit
      /\ b \in [count: 0..Limit, start: Int] /\ b.start <= now
      /\ b.count \in Nat /\ b.start \in Int
  BY CurrentFits, CurrentFacts, <1>n DEF Admit, Admits, Numbers
<1>2. /\ admitted' = A
      /\ bucket' = [bucket EXCEPT ![u] = [b EXCEPT !.count = @ + 1]]
  BY DEF Admit, Charge
<1> HIDE DEF b
<1>3. /\ bucket'[u].count = b.count + 1 /\ bucket'[u].start = b.start
      /\ \A v \in Users \ {u} : bucket'[v] = bucket[v]
  BY <1>1, <1>2, <1>n DEF Numbers
<1>4. a.user = u /\ a.at = now
  OBVIOUS
<1> HIDE DEF a
<1>5. IsFiniteSet(admitted) /\ IsFiniteSet(A)
  BY FS_AddElement DEF Windows
<1>6. \A v \in Users \ {u} : \A s, t : Between(A, v, s, t) = Between(admitted, v, s, t)
  BY <1>4 DEF Between
<1>7. \A s, t \in Int :
        /\ Between(A, u, s, t) \subseteq Between(admitted, u, s, t) \cup {a}
        /\ now < s \/ now >= t => Between(A, u, s, t) = Between(admitted, u, s, t)
  BY <1>4, <1>n DEF Between, Numbers
<1> HIDE DEF A
<1>8. ASSUME NEW s \in Int, NEW t \in Int
      PROVE  /\ Cardinality(Between(A, u, s, t)) \in Nat
             /\ Cardinality(Between(admitted, u, s, t)) \in Nat
             /\ Cardinality(Between(A, u, s, t))
                  <= Cardinality(Between(admitted, u, s, t)) + 1
  BY <1>5, <1>7, BetweenFinite, OneMoreCounts
<1>9. Fits(A, now, u, bucket'[u])
  <2>1. b.start \in Int /\ now + 1 \in Int /\ b.start - Window \in Int
        /\ now >= b.start
    BY <1>1, <1>n DEF Numbers
  <2>2. Cardinality(Between(A, u, b.start, now + 1)) <= b.count + 1
    <3> DEFINE before == Cardinality(Between(admitted, u, b.start, now + 1))
               after == Cardinality(Between(A, u, b.start, now + 1))
    <3>1. before \in Nat /\ after \in Nat /\ after <= before + 1
      BY <2>1, <1>8
    <3>2. before <= b.count
      BY <1>1 DEF Fits
    <3> HIDE DEF before, after
    <3>3. after <= b.count + 1
      BY <3>1, <3>2, <1>1
    <3> QED BY <3>3 DEF after
  <2>3. Between(A, u, b.start - Window, b.start)
          = Between(admitted, u, b.start - Window, b.start)
    BY <2>1, <1>7
  <2> QED BY <2>2, <2>3, <1>1, <1>3 DEF Fits
<1>10. ASSUME NEW t \in Nat
       PROVE  Cardinality(Between(A, u, t, t + Window)) <= 2 * Limit
  <2>1. CASE now < t \/ now >= t + Window
    <3>1. Between(A, u, t, t + Window) = Between(admitted, u, t, t + Window)
      BY <2>1, <1>7, <1>n DEF Numbers
    <3> QED BY <3>1 DEF Windows
  <2>2. CASE t <= now /\ now < t + Window
    <3> DEFINE S == Between(admitted, u, t, t + Window)
               old == Between(admitted, u, b.start - Window, b.start)
               new == Between(admitted, u, b.start, now + 1)
    <3>1. S \subseteq old \cup new
      <4> SUFFICES ASSUME NEW x \in S PROVE x \in old \cup new
        OBVIOUS
      <4>1. x \in admitted /\ x.user = u /\ x.at \in Nat /\ x.at <= now /\ t <= x.at
        BY <1>n DEF Between, Numbers
      <4>2. b.start - Window <= x.at /\ x.at < now + 1
        BY <4>1, <2>2, <1>1, <1>n DEF Numbers
      <4>3. x.at < b.start \/ b.start <= x.at
        BY <4>1, <1>1
      <4> QED BY <4>1, <4>2, <4>3 DEF Between
    <3>2. IsFiniteSet(old) /\ IsFiniteSet(new)
      BY <1>5, BetweenFinite
    <3>3. Cardinality(old) <= Limit /\ Cardinality(new) <= b.count
      BY <1>1 DEF Fits
    <3>4. /\ Cardinality(Between(A, u, t, t + Window)) <= Cardinality(S) + 1
          /\ Cardinality(Between(A, u, t, t + Window)) \in Nat
      <4>1. t \in Int /\ t + Window \in Int
        BY <1>n DEF Numbers
      <4> QED BY <4>1, <1>8
    <3> HIDE DEF S, old, new
    <3>5. /\ Cardinality(S) \in Nat /\ Cardinality(old) \in Nat /\ Cardinality(new) \in Nat
          /\ Cardinality(S) <= Cardinality(old) + Cardinality(new)
      BY <3>1, <3>2, TogetherCount
    <3> QED BY <3>3, <3>4, <3>5, <1>1, <1>n DEF Numbers
  <2> QED BY <2>1, <2>2, <1>n DEF Numbers
<1>11. ASSUME NEW v \in Users
       PROVE  /\ IF bucket'[v].start + Window > now
                   THEN Fits(A, now, v, bucket'[v])
                   ELSE Over(A, now, v)
              /\ \A t \in Nat : Cardinality(Between(A, v, t, t + Window)) <= 2 * Limit
  <2>1. CASE v = u
    <3>1. bucket'[u].start + Window > now
      BY <1>1, <1>3 DEF Fits
    <3> QED BY <2>1, <3>1, <1>9, <1>10
  <2>2. CASE v # u
    <3>1. /\ bucket'[v] = bucket[v]
          /\ \A s, t : Between(A, v, s, t) = Between(admitted, v, s, t)
      BY <2>2, <1>3, <1>6
    <3>2. Over(admitted, now, v) => Over(A, now, v)
      BY <3>1, <2>2, <1>4 DEF Over, A
    <3>3. Fits(admitted, now, v, bucket[v]) => Fits(A, now, v, bucket[v])
      BY <3>1 DEF Fits
    <3> QED BY <3>1, <3>2, <3>3 DEF Windows
  <2> QED BY <2>1, <2>2
<1> QED BY <1>2, <1>5, <1>11 DEF Windows

\* Time goes on: a window may be over now, and it held the last stretch.
LEMMA TimePasses ==
    ASSUME LimitTypes, Windows, now' = now + 1, UNCHANGED <<bucket, admitted>>
    PROVE  Windows'
<1>n. Numbers
  BY NumbersOfTypes
<1>f. IsFiniteSet(admitted)
  BY DEF Windows
<1>1. ASSUME NEW u \in Users
      PROVE  IF bucket[u].start + Window > now + 1
               THEN Fits(admitted, now + 1, u, bucket[u])
               ELSE Over(admitted, now + 1, u)
  <2>1. CASE bucket[u].start + Window > now + 1
    <3>1. Fits(admitted, now, u, bucket[u])
      BY <2>1, <1>n DEF Windows, Numbers
    <3>2. Between(admitted, u, bucket[u].start, (now + 1) + 1)
            = Between(admitted, u, bucket[u].start, now + 1)
      BY <1>n DEF Between, Numbers
    <3> QED BY <2>1, <3>1, <3>2 DEF Fits
  <2>2. CASE bucket[u].start + Window = now + 1
    <3>1. Fits(admitted, now, u, bucket[u])
      BY <2>2, <1>n DEF Windows, Numbers
    <3>2. now + 1 - Window = bucket[u].start
      BY <2>2, <1>n DEF Numbers
    <3>3. Cardinality(Between(admitted, u, now + 1 - Window, now + 1)) <= Limit
      <4>1. /\ Cardinality(Between(admitted, u, bucket[u].start, now + 1)) <= bucket[u].count
            /\ Cardinality(Between(admitted, u, bucket[u].start, now + 1)) \in Nat
        BY <3>1, <1>f, BetweenFinite DEF Fits
      <4> QED BY <4>1, <3>2, <1>n DEF Numbers
    <3> QED BY <2>2, <3>3, <1>n DEF Over, Numbers
  <2>3. CASE ~(bucket[u].start + Window > now)
    <3>1. Over(admitted, now, u)
      BY <2>3 DEF Windows
    <3>2. Between(admitted, u, now + 1 - Window, now + 1)
            \subseteq Between(admitted, u, now - Window, now)
      BY <3>1, <1>n DEF Between, Over, Numbers
    <3>3. /\ Cardinality(Between(admitted, u, now + 1 - Window, now + 1)) \in Nat
          /\ Cardinality(Between(admitted, u, now - Window, now)) \in Nat
          /\ Cardinality(Between(admitted, u, now + 1 - Window, now + 1))
               <= Cardinality(Between(admitted, u, now - Window, now))
      BY <3>2, <1>f, BetweenFinite, FewerCount
    <3>4. Over(admitted, now + 1, u)
      BY <3>1, <3>3, <1>n DEF Over, Numbers
    <3> QED BY <2>3, <3>4, <1>n DEF Numbers
  <2> QED BY <2>1, <2>2, <2>3, <1>n DEF Numbers
<1> QED BY <1>1 DEF Windows

LEMMA WindowsKept == TypeOK /\ Windows /\ [Next]_vars => Windows'
<1> SUFFICES ASSUME TypeOK, Windows, [Next]_vars PROVE Windows'
  OBVIOUS
<1>t. LoopTypes /\ LimitTypes
  BY TypeParts
<1> USE DEF discordVars, runnerVars, loopVars, limitVars
<1>1. UNCHANGED <<bucket, admitted, now>> => Windows'
  BY DEF Windows
<1>2. CASE Server \/ Greet \/ Runner \/ FollowUp \/ CleanContexts \/ UNCHANGED vars
  BY <1>2, <1>1 DEF Server, Post, Forget, Greet, Runner, Dial, DialFails, Receive,
     Disconnected, Invalidated, Retry, FollowUp, CleanContexts, vars
<1>3. CASE Started \/ HandleReady \/ Answer \/ IgnoreMessage \/ TakeSlash \/ Rest
  BY <1>3, <1>1 DEF Started, HandleReady, Answer, IgnoreMessage, TakeSlash, Rest,
                    Returned, AcknowledgeSlash, RejectSlash
<1>4. CASE RefuseMessage
  <2> DEFINE u == Head(queue).user
  <2>1. bucket' = [bucket EXCEPT ![u] = Current(u)] /\ UNCHANGED <<admitted, now>>
    BY <1>4 DEF RefuseMessage
  <2> HIDE DEF u
  <2>2. \A v \in Users : bucket'[v] = bucket[v] \/ bucket'[v] = Current(v)
    BY <2>1, <1>t DEF LimitTypes
  <2> QED BY <2>1, <2>2, <1>t, NobodyPasses
<1>5. CASE BlockMessage
  <2>1. Head(queue).user \in Users
    BY <1>5, <1>t, TakenFacts DEF BlockMessage
  <2> QED BY <2>1, <1>5, <1>t, SomebodyPasses DEF BlockMessage
<1>6. CASE AskLlm
  <2>1. Head(queue).user \in Users
    BY <1>6, <1>t, TakenFacts DEF AskLlm
  <2>2. Admit(Head(queue)) /\ now' = now
    BY <1>6 DEF AskLlm
  <2> QED BY <2>1, <2>2, <1>t, SomebodyPasses
<1>7. CASE CleanBuckets
  <2>1. UNCHANGED <<admitted, now>>
    BY <1>7 DEF CleanBuckets
  <2>2. ASSUME NEW u \in Users
        PROVE  \/ bucket'[u] = bucket[u]
               \/ /\ ~(bucket'[u].start + Window > now)
                  /\ ~(bucket[u].start + Window > now)
    <3>1. CASE now - bucket[u].start < 2 * Window
      BY <3>1, <1>7 DEF CleanBuckets
    <3>2. CASE ~(now - bucket[u].start < 2 * Window)
      <4>1. bucket'[u].start = -Window
        BY <3>2, <1>7 DEF CleanBuckets, NoBucket
      <4> QED BY <4>1, <3>2, <1>t, NumbersOfTypes DEF Numbers
    <3> QED BY <3>1, <3>2
  <2> QED BY <2>1, <2>2, <1>t, NobodyPasses
<1>8. CASE Tick
  BY <1>8, <1>t, TimePasses DEF Tick
<1> QED BY <1>2, <1>3, <1>4, <1>5, <1>6, <1>7, <1>8 DEF Next, Bot, CleanUp

\* In any stretch as long as a window a user gets at most twice the limit,
\* whenever windows begin, expire and are cleaned up.
THEOREM TwiceTheLimitAtMost == Spec => []AtMostTwice
<1>1. Init => Windows
  <2> SUFFICES ASSUME Init PROVE Windows
    OBVIOUS
  <2>1. admitted = {} /\ IsFiniteSet(admitted) /\ Cardinality(admitted) = 0
    BY FS_EmptySet DEF Init
  <2>2. \A u, s, t : Between(admitted, u, s, t) = admitted
    BY <2>1 DEF Between
  <2>3. Limit \in Nat /\ Window \in Nat
    BY LimitsAssumption, TimesAssumption
  <2>4. \A u \in Users : ~(bucket[u].start + Window > now)
    BY <2>3 DEF Init, NoBucket
  <2>5. 0 <= Limit /\ 0 <= 2 * Limit
    BY <2>3
  <2>6. \A u \in Users : Over(admitted, now, u)
    BY <2>1, <2>2, <2>5 DEF Over
  <2>7. \A u \in Users : \A t \in Nat :
          Cardinality(Between(admitted, u, t, t + Window)) <= 2 * Limit
    BY <2>1, <2>2, <2>5
  <2> QED BY <2>1, <2>4, <2>6, <2>7 DEF Windows
<1>2. TypeOK /\ Windows => AtMostTwice
  <2> SUFFICES ASSUME TypeOK, Windows, NEW u \in Users, NEW t \in 0..MaxTime
               PROVE  Cardinality({a \in admitted : a.user = u
                                        /\ a.at \in t..(t + Window - 1)}) <= 2 * Limit
    BY DEF AtMostTwice
  <2>1. Numbers /\ t \in Nat
    BY NumbersOfTypes, TypeParts, TimesAssumption
  <2>2. {a \in admitted : a.user = u /\ a.at \in t..(t + Window - 1)}
          = Between(admitted, u, t, t + Window)
    BY <2>1 DEF Between, Numbers
  <2> QED BY <2>1, <2>2 DEF Windows
<1> QED BY <1>1, <1>2, WindowsKept, TypeCorrect, PTL DEF Spec

=============================================================================
