---------------------- MODULE ProcessRefinementProofs ----------------------
(***************************************************************************)
(* The runtime implements AtomicProcess, step by step, for every process   *)
(* definition, either event store, any calls, crashes and failed requests, *)
(* as long as the stream is not cleared.                                   *)
(***************************************************************************)
EXTENDS ProcessRefinement, ProcessRuntimeProofs

----------------------------------------------------------------------------
(* What is owed for each record.                                           *)

(* The effect of a record has begun, or its writer is about to begin it,   *)
(* or its writer was cut short: a call that returns has begun its effects. *)
EffectBegunOrOwed(v) ==
  LET c == stream[v].by
  IN  \/ \E i \in DOMAIN effects : effects[i].version = v
      \/ pc[c] \in {"failed", "crashed"}
      \/ pc[c] = "started" /\ v = 1
      \/ pc[c] = "recorded" /\ v = Len(view[c]) + 1

EffectsAccounted == \A v \in DOMAIN stream : EffectBegunOrOwed(v)

AccountInv == clears = 0 => EffectsAccounted

(* A step that writes nothing and begins nothing, and takes no call away   *)
(* from the effect it owes but by cutting it short.                        *)
LEMMA QuietAccount ==
  ASSUME CallInv, EffectsAccounted, UNCHANGED <<stream, effects>>,
         \A c \in Calls :
           \/ pc'[c] = pc[c] /\ (pc[c] = "recorded" => view'[c] = view[c])
           \/ pc'[c] \in {"failed", "crashed"}
           \/ pc[c] \notin {"failed", "crashed", "started", "recorded"}
  PROVE  EffectsAccounted'
<1>1. stream \in Seq(Records)
  BY DEF CallInv, TypeOK
<1>2. \A v \in DOMAIN stream : stream[v].by \in Calls
  BY <1>1, ElementOfSeq, LenProperties DEF Records
<1> QED
  BY <1>2 DEF EffectsAccounted, EffectBegunOrOwed

(* A record is written by a call that then owes its effect, or fails.      *)
LEMMA PushAccount ==
  ASSUME CallInv, EffectsAccounted, NEW c \in Calls, NEW r \in Records,
         r.by = c, stream' = Append(stream, r), UNCHANGED effects,
         \A d \in Calls : pc[d] # "decide" => view'[d] = view[d],
         pc[c] \in {"start", "append"},
         \/ GoTo(c, "failed")
         \/ GoTo(c, "started") /\ Len(stream) + 1 = 1
         \/ GoTo(c, "recorded") /\ Len(stream) = Len(view'[c])
  PROVE  EffectsAccounted'
<1>1. /\ stream \in Seq(Records)
      /\ pc \in [Calls -> Working \cup Settled \cup {"idle"}]
  BY DEF CallInv, TypeOK
<1>2. /\ Len(stream) \in Nat /\ DOMAIN stream = 1 .. Len(stream)
      /\ DOMAIN stream' = 1 .. Len(stream) + 1
      /\ stream'[Len(stream) + 1] = r
      /\ \A v \in DOMAIN stream : stream'[v] = stream[v]
  BY <1>1, LenProperties
<1>3. \A v \in DOMAIN stream : stream[v].by \in Calls
  BY <1>1, ElementOfSeq, LenProperties DEF Records
<1>4. ASSUME NEW v, v = Len(stream) + 1
      PROVE  EffectBegunOrOwed(v)'
  BY <1>1, <1>2, <1>4 DEF EffectBegunOrOwed, GoTo
<1>5. ASSUME NEW v \in DOMAIN stream
      PROVE  EffectBegunOrOwed(v)'
  <2>1. EffectBegunOrOwed(v) /\ stream'[v] = stream[v] /\ stream[v].by \in Calls
    BY <1>2, <1>3 DEF EffectsAccounted
  <2>2. \A d \in Calls \ {c} : pc'[d] = pc[d]
    BY <1>1 DEF GoTo
  <2>3. pc[c] \notin {"failed", "crashed", "started", "recorded"}
    OBVIOUS
  <2>4. \A d \in Calls : pc[d] = "recorded" => view'[d] = view[d]
    OBVIOUS
  <2> QED
    BY <2>1, <2>2, <2>3, <2>4 DEF EffectBegunOrOwed
<1> QED
  BY <1>2, <1>4, <1>5 DEF EffectsAccounted

(* The call that owes an effect begins it.                                 *)
LEMMA BeginAccount ==
  ASSUME CallInv, EffectsAccounted, NEW c \in Calls, NEW f \in EffectRuns,
         effects' = Append(effects, f), UNCHANGED <<stream, view>>,
         \/ pc[c] = "started" /\ f.version = 1 /\ GoTo(c, "initial")
         \/ pc[c] = "recorded" /\ f.version = Len(view[c]) + 1 /\ GoTo(c, "effect")
  PROVE  EffectsAccounted'
<1>1. /\ stream \in Seq(Records) /\ effects \in Seq(EffectRuns)
      /\ pc \in [Calls -> Working \cup Settled \cup {"idle"}]
  BY DEF CallInv, TypeOK
<1>2. \A v \in DOMAIN stream : stream[v].by \in Calls
  BY <1>1, ElementOfSeq, LenProperties DEF Records
<1>3. /\ DOMAIN effects \subseteq DOMAIN effects'
      /\ Len(effects) + 1 \in DOMAIN effects' /\ effects'[Len(effects) + 1] = f
      /\ \A i \in DOMAIN effects : effects'[i] = effects[i]
  BY <1>1, LenProperties
<1>4. \A d \in Calls \ {c} : pc'[d] = pc[d]
  BY <1>1 DEF GoTo
<1> QED
  BY <1>2, <1>3, <1>4 DEF EffectsAccounted, EffectBegunOrOwed

(* The record a call writes, at the end of the stream.                     *)
LEMMA StartedAtEnd ==
  ASSUME CallInv, HistoryFacts, NEW c \in Calls, ~Conflicts(stream, 0),
         Push(0, StartedBy(c))
  PROVE  /\ stream = << >>
         /\ \E r \in Records :
              /\ r.by = c /\ r.type = "ProcessStarted" /\ r.event = NoEvent
              /\ stream' = Append(stream, r)
         /\ \A d \in Calls : pc[d] # "decide" => view'[d] = view[d]
<1>1. stream = << >> /\ Len(stream) = 0 /\ stream \in Seq(Records)
  BY StartsOnlyOnce, EmptySeq DEF CallInv, TypeOK
<1>2. StartedBy(c) \in Drafts
  BY DEF Drafts
<1> DEFINE r == [StartedBy(c) EXCEPT !.version = Len(stream) + 1]
<1>3. r \in Records
  <2>1. Len(stream) + 1 \in Nat \ {0}
    BY <1>1
  <2> QED
    BY <1>2, <2>1, DraftType
<1>4. r.by = c /\ r.type = "ProcessStarted" /\ r.event = NoEvent
  BY DEF StartedBy
<1>5. stream' = Append(stream, r)
  BY <1>1, <1>2, WrittenAppends DEF Push, HistoryFacts
<1>6. \A d \in Calls : pc[d] # "decide" => view'[d] = view[d]
  BY <1>2, PushType
<1> QED
  BY <1>1, <1>3, <1>4, <1>5, <1>6

LEMMA ReceivedAtEnd ==
  ASSUME CallInv, HistoryFacts, NEW c \in Calls, pc[c] = "append",
         ~Conflicts(stream, Len(view[c])), Push(Len(view[c]), ReceivedBy(c))
  PROVE  /\ view[c] = stream /\ stream # << >>
         /\ Accepts(applyHistory(stream), event[c])
         /\ \E r \in Records :
              /\ r.by = c /\ r.type = "EventReceived" /\ r.event = event[c]
              /\ stream' = Append(stream, r)
         /\ \A d \in Calls : pc[d] # "decide" => view'[d] = view[d]
<1>1. /\ view[c] = stream /\ stream # << >>
      /\ Accepts(applyHistory(stream), event[c])
  BY AppendsToWhatWasReplayed
<1>2. /\ event[c] \in Events /\ stream \in Seq(Records) /\ Len(stream) \in Nat
  BY LenProperties DEF CallInv, EventsGiven, TypeOK
<1>3. ReceivedBy(c) \in Drafts
  BY <1>2 DEF Drafts, ReceivedBy
<1> DEFINE r == [ReceivedBy(c) EXCEPT !.version = Len(stream) + 1]
<1>4. r \in Records
  <2>1. Len(stream) + 1 \in Nat \ {0}
    BY <1>2
  <2> QED
    BY <1>3, <2>1, DraftType
<1>5. r.by = c /\ r.type = "EventReceived" /\ r.event = event[c]
  BY DEF ReceivedBy
<1>6. stream' = Append(stream, r)
  BY <1>1, <1>2, <1>3, WrittenAppends DEF Push, HistoryFacts
<1>7. \A d \in Calls : pc[d] # "decide" => view'[d] = view[d]
  BY <1>2, <1>3, PushType
<1> QED
  BY <1>1, <1>4, <1>5, <1>6, <1>7

LEMMA AccountInit == Init => AccountInv
BY DEF Init, AccountInv, EffectsAccounted

LEMMA AccountStep == CallInv /\ HistoryInv /\ AccountInv /\ [Next]_vars => AccountInv'
<1> SUFFICES ASSUME CallInv, HistoryInv, AccountInv, [Next]_vars, clears' = 0
             PROVE  EffectsAccounted'
  BY DEF AccountInv
<1>0. ~ClearProcessState /\ HistoryFacts /\ EffectsAccounted
  BY ClearsOnlyGrow DEF HistoryInv, AccountInv
<1>t. /\ pc \in [Calls -> Working \cup Settled \cup {"idle"}]
      /\ effects \in Seq(EffectRuns) /\ view \in [Calls -> Seq(Records)]
  BY DEF CallInv, TypeOK
<1>1. ASSUME NEW c \in Calls, NEW e \in Events, HandleEvent(c, e)
      PROVE  EffectsAccounted'
  BY <1>0, <1>t, <1>1, QuietAccount DEF HandleEvent, Call, GoTo
<1>2. ASSUME NEW c \in Calls,
             \/ StreamExists(c) \/ RetryStart(c) \/ ApplyNewEvent(c) \/ RetryReceived(c)
             \/ EffectReturns(c) \/ EffectThrows(c)
      PROVE  EffectsAccounted'
  <2>1. /\ \E label : pc' = [pc EXCEPT ![c] = label]
        /\ pc[c] \notin {"failed", "crashed", "started", "recorded"}
        /\ UNCHANGED <<stream, view, effects>>
    BY <1>2 DEF StreamExists, RetryStart, ApplyNewEvent, RetryReceived,
                EffectReturns, EffectThrows, InEffect, GoTo
  <2> QED
    BY <1>0, <1>t, <2>1, QuietAccount
<1>3. ASSUME NEW c \in Calls, LoadEvents(c)
      PROVE  EffectsAccounted'
  BY <1>0, <1>t, <1>3, QuietAccount DEF LoadEvents, GoTo
<1>4. ASSUME NEW c \in Calls, pc[c] = "start", ~Conflicts(stream, 0),
             Push(0, StartedBy(c)), UNCHANGED effects,
             GoTo(c, "started") \/ GoTo(c, "failed")
      PROVE  EffectsAccounted'
  <2>1. stream = << >> /\ Len(stream) + 1 = 1
    BY <1>0, <1>4, StartedAtEnd, EmptySeq
  <2>2. PICK r \in Records : r.by = c /\ stream' = Append(stream, r)
    BY <1>0, <1>4, StartedAtEnd
  <2>3. \A d \in Calls : pc[d] # "decide" => view'[d] = view[d]
    BY <1>0, <1>4, StartedAtEnd
  <2> QED
    BY <1>0, <1>4, <2>1, <2>2, <2>3, PushAccount
<1>5. ASSUME NEW c \in Calls, pc[c] = "append", ~Conflicts(stream, Len(view[c])),
             Push(Len(view[c]), ReceivedBy(c)), UNCHANGED effects,
             GoTo(c, "recorded") \/ GoTo(c, "failed")
      PROVE  EffectsAccounted'
  <2>1. PICK r \in Records : r.by = c /\ stream' = Append(stream, r)
    BY <1>0, <1>5, ReceivedAtEnd
  <2>2. \A d \in Calls : pc[d] # "decide" => view'[d] = view[d]
    BY <1>0, <1>5, ReceivedAtEnd
  <2>3. Len(stream) = Len(view'[c])
    BY <1>0, <1>5, <2>2, ReceivedAtEnd
  <2> QED
    BY <1>0, <1>5, <2>1, <2>2, <2>3, PushAccount
<1>6. ASSUME NEW c \in Calls, RunInitialEffect(c)
      PROVE  EffectsAccounted'
  <2>1. [type |-> "ProcessStarted", version |-> 1, by |-> c, from |-> Initial]
          \in EffectRuns
    BY ProcessAssumption DEF EffectRuns
  <2> QED
    BY <1>0, <1>6, <2>1, BeginAccount DEF RunInitialEffect
<1>7. ASSUME NEW c \in Calls, RunEffect(c)
      PROVE  EffectsAccounted'
  <2>0. Len(view[c]) + 1 \in Nat \ {0}
    <3>1. Len(view[c]) \in Nat
      BY <1>t, LenProperties
    <3> QED
      BY <3>1
  <2>1. applyHistory(view[c]) \in States
    BY <1>7 DEF RunEffect, CallInv, DecisionStands, Accepts, InProgress
  <2>2. [type |-> "EventReceived", version |-> Len(view[c]) + 1, by |-> c,
         from |-> applyHistory(view[c])] \in EffectRuns
    BY <2>0, <2>1 DEF EffectRuns
  <2> QED
    BY <1>0, <1>7, <2>2, BeginAccount DEF RunEffect
<1>8. ASSUME NEW c \in Calls, NEW d \in Calls, NEW e \in Events,
             EffectEnqueues(c, d, e)
      PROVE  EffectsAccounted'
  BY <1>0, <1>t, <1>8, QuietAccount DEF EffectEnqueues, Call, GoTo
<1>9. ASSUME NEW c \in Calls, RequestFails(c)
      PROVE  EffectsAccounted'
  <2>1. GoTo(c, "failed") /\ UNCHANGED effects
    BY <1>9 DEF RequestFails
  <2>2. CASE UNCHANGED <<stream, view>>
    BY <1>0, <1>t, <2>1, <2>2, QuietAccount DEF GoTo
  <2> QED
    BY <1>4, <1>5, <1>9, <2>1, <2>2 DEF RequestFails
<1>10. ASSUME NEW n \in Nodes, Crash(n)
       PROVE  EffectsAccounted'
  BY <1>0, <1>t, <1>10, QuietAccount DEF Crash
<1>11. CASE UNCHANGED vars
  BY <1>0, <1>11, QuietAccount DEF vars
<1>12. ASSUME NEW c \in Calls, AppendStarted(c) \/ AppendReceived(c)
       PROVE  EffectsAccounted'
  BY <1>4, <1>5, <1>12 DEF AppendStarted, AppendReceived
<1>13. ASSUME NEW c \in Calls, Step(c)
       PROVE  EffectsAccounted'
  BY <1>2, <1>3, <1>6, <1>7, <1>8, <1>12, <1>13 DEF Step
<1> QED
  BY <1>0, <1>1, <1>9, <1>10, <1>11, <1>13 DEF Next, Quiescent

(* As long as the stream is not cleared, no record's effect is forgotten:  *)
(* it has begun, the call that wrote the record still owes it, or that     *)
(* call has failed (the await of the effect after the append).             *)
THEOREM EffectsAlwaysAccounted == Spec => []AccountInv
<1>1. CallInv /\ HistoryInv /\ AccountInv /\ [Next]_vars => AccountInv'
  BY AccountStep
<1> QED
  BY AccountInit, <1>1, InvariantsHold, PTL DEF Spec

----------------------------------------------------------------------------
(* The abstract state.                                                     *)

(* The abstract process is the same process, and its log, which has no     *)
(* versions, replays as the stream does: a replay looks at types and       *)
(* events only.                                                            *)
LEMMA SameDefinition ==
  /\ \A s, e : Atomic!Accepts(s, e) <=> Accepts(s, e)
  /\ \A h : Atomic!applyHistory(h) = applyHistory(h)
<1>1. \A s, e : Atomic!Accepts(s, e) <=> Accepts(s, e)
  BY DEF Atomic!Accepts, Accepts, Atomic!InProgress, InProgress
<1>2. \A h : Atomic!applyHistory(h) = applyHistory(h)
  BY DEF Atomic!applyHistory, applyHistory, Atomic!Applied, Applied,
         Atomic!InProgress, InProgress
<1> QED
  BY <1>1, <1>2

LEMMA ReplayIgnoresVersions ==
  ASSUME NEW g, NEW h, Len(g) = Len(h), Len(h) \in Nat \ {0}, g # << >>, h # << >>,
         \A i \in 1 .. Len(h) : g[i].type = h[i].type /\ g[i].event = h[i].event
  PROVE  applyHistory(g) = applyHistory(h)
<1> DEFINE Body(f, s) == [i \in 1 .. Len(s) |->
                            IF i = 1 THEN Initial ELSE Applied(f[i - 1], s[i])]
           After(s) == CHOOSE f : f = Body(f, s)
<1>1. \A f : Body(f, g) = Body(f, h)
  <2> TAKE f
  <2>1. \A i \in 1 .. Len(h) : \A s : Applied(s, g[i]) = Applied(s, h[i])
    BY DEF Applied
  <2> QED
    BY <2>1
<1> HIDE DEF Body
<1>2. After(g) = After(h)
  BY <1>1
<1>3. applyHistory(g) = IF g[1].type # "ProcessStarted" THEN Broken ELSE After(g)[Len(g)]
  BY DEF applyHistory, Body
<1>4. applyHistory(h) = IF h[1].type # "ProcessStarted" THEN Broken ELSE After(h)[Len(h)]
  BY DEF applyHistory, Body
<1> HIDE DEF After
<1> QED
  BY <1>2, <1>3, <1>4

LEMMA LogType ==
  ASSUME NEW s \in Seq(Records)
  PROVE  /\ DOMAIN LogOf(s) = DOMAIN s /\ Len(LogOf(s)) = Len(s)
         /\ LogOf(s) # << >> <=> s # << >>
         /\ s # << >> => applyHistory(LogOf(s)) = applyHistory(s)
<1>1. Len(s) \in Nat /\ DOMAIN s = 1 .. Len(s)
  BY LenProperties
<1> DEFINE Entries == {[type |-> s[i].type, event |-> s[i].event, by |-> s[i].by] :
                         i \in DOMAIN s}
<1>2. LogOf(s) \in Seq(Entries)
  <2>1. LogOf(s) \in [1 .. Len(s) -> Entries]
    BY <1>1 DEF LogOf
  <2> QED
    BY <1>1, <2>1, IsASeq DEF LogOf
<1>3. DOMAIN LogOf(s) = 1 .. Len(s)
  BY <1>1 DEF LogOf
<1>4. Len(LogOf(s)) = Len(s)
  BY <1>1, <1>2, <1>3, LenProperties
<1>5. LogOf(s) # << >> <=> s # << >>
  BY <1>2, <1>4, EmptySeq
<1>6. ASSUME s # << >>
      PROVE  applyHistory(LogOf(s)) = applyHistory(s)
  <2>1. Len(s) \in Nat \ {0}
    BY <1>1, <1>6, EmptySeq
  <2>2. \A i \in 1 .. Len(s) :
          LogOf(s)[i].type = s[i].type /\ LogOf(s)[i].event = s[i].event
    BY <1>1 DEF LogOf
  <2> QED
    BY <1>4, <1>5, <1>6, <2>1, <2>2, ReplayIgnoresVersions
<1> QED
  BY <1>1, <1>3, <1>4, <1>5, <1>6

LEMMA LogGrows ==
  ASSUME NEW s \in Seq(Records), NEW r \in Records
  PROVE  LogOf(Append(s, r))
           = Append(LogOf(s), [type |-> r.type, event |-> r.event, by |-> r.by])
<1> DEFINE e == [type |-> r.type, event |-> r.event, by |-> r.by]
<1>1. /\ Len(s) \in Nat /\ DOMAIN s = 1 .. Len(s)
      /\ DOMAIN Append(s, r) = 1 .. Len(s) + 1
      /\ Append(s, r)[Len(s) + 1] = r
      /\ \A i \in 1 .. Len(s) : Append(s, r)[i] = s[i]
  BY LenProperties
<1>2. Len(LogOf(s)) = Len(s)
  BY LogType
<1>3. Append(LogOf(s), e)
        = [i \in 1 .. Len(s) + 1 |-> IF i = Len(s) + 1 THEN e ELSE LogOf(s)[i]]
  BY <1>1, <1>2
<1>4. LogOf(Append(s, r))
        = [i \in 1 .. Len(s) + 1 |-> IF i = Len(s) + 1 THEN e ELSE LogOf(s)[i]]
  BY <1>1 DEF LogOf
<1> QED
  BY <1>3, <1>4

(* The phase of a call depends on nothing that others change.              *)
LEMMA PhaseKept ==
  ASSUME NEW c \in Calls, pc'[c] = pc[c], event'[c] = event[c],
         c \in live' <=> c \in live,
         c \in live \/ view'[c] = view[c] \/ pc[c] # "decide"
  PROVE  AbstractPhase(c)' = AbstractPhase(c)
BY DEF AbstractPhase, Dropped

LEMMA OnePhaseMoves ==
  ASSUME NEW c \in Calls, NEW p, AbstractPhase(c)' = p,
         \A d \in Calls \ {c} : AbstractPhase(d)' = AbstractPhase(d)
  PROVE  abstractPhase' = [abstractPhase EXCEPT ![c] = p]
BY DEF abstractPhase

LEMMA PhaseOf ==
  ASSUME NEW c \in Calls
  PROVE  /\ abstractPhase[c] = AbstractPhase(c)
         /\ pc[c] \in {"exists", "start", "started", "initial", "load", "append"}
              => AbstractPhase(c) = "waiting"
         /\ pc[c] \in {"recorded", "effect"} => AbstractPhase(c) = "recorded"
         /\ pc[c] \in {"failed", "crashed"} => AbstractPhase(c) = "failed"
         /\ pc[c] \in {"idle", "done"} => AbstractPhase(c) = pc[c]
         /\ pc[c] = "decide" =>
              IF Dropped(c) THEN AbstractPhase(c) = "dropped"
                            ELSE AbstractPhase(c) = "waiting"
BY DEF abstractPhase, AbstractPhase, Dropped

AbstractStep == [Atomic!Next]_(Atomic!vars)

(* Steps the abstract process does not see, or sees as calls cut short.    *)
LEMMA StutterOrAbort ==
  ASSUME UNCHANGED <<stream, event, effects>>,
         \A c \in Calls :
           \/ AbstractPhase(c)' = AbstractPhase(c)
           \/ /\ AbstractPhase(c)' = "failed"
              /\ AbstractPhase(c) \in {"waiting", "recorded", "dropped"}
  PROVE  AbstractStep
<1> DEFINE dead == {c \in Calls : AbstractPhase(c)' # AbstractPhase(c)}
<1>1. LogOf(stream)' = LogOf(stream) /\ effectsBegun' = effectsBegun
  BY DEF effectsBegun
<1>2. dead \in SUBSET {c \in Calls : abstractPhase[c] \in {"waiting", "recorded", "dropped"}}
  BY DEF abstractPhase
<1>3. abstractPhase' = [c \in Calls |-> IF c \in dead THEN "failed" ELSE abstractPhase[c]]
  BY DEF abstractPhase
<1>4. Atomic!Abort
  BY <1>1, <1>2, <1>3 DEF Atomic!Abort
<1> QED
  BY <1>4 DEF AbstractStep, Atomic!Next

LEMMA SubmitSimulated ==
  ASSUME CallInv, NEW c \in Calls, NEW e \in Events, NEW p, Call(c, e, p),
         UNCHANGED <<stream, view, live, effects>>
  PROVE  AbstractStep
<1>1. /\ pc \in [Calls -> Working \cup Settled \cup {"idle"}]
      /\ event \in [Calls -> Events \cup {NoEvent}]
  BY DEF CallInv, TypeOK
<1>2. /\ pc[c] = "idle" /\ pc' = [pc EXCEPT ![c] = "exists"]
      /\ event' = [event EXCEPT ![c] = e]
  BY DEF Call, GoTo
<1>3. AbstractPhase(c) = "idle" /\ AbstractPhase(c)' = "waiting"
  BY <1>1, <1>2 DEF AbstractPhase, Dropped
<1>4. \A d \in Calls \ {c} : AbstractPhase(d)' = AbstractPhase(d)
  BY <1>1, <1>2, PhaseKept
<1>5. abstractPhase' = [abstractPhase EXCEPT ![c] = "waiting"]
  BY <1>3, <1>4, OnePhaseMoves
<1>6. LogOf(stream)' = LogOf(stream) /\ effectsBegun' = effectsBegun
  BY DEF effectsBegun
<1>7. Atomic!Submit(c, e)
  BY <1>2, <1>3, <1>5, <1>6, PhaseOf DEF Atomic!Submit
<1> QED
  BY <1>7 DEF AbstractStep, Atomic!Next

LEMMA StartSimulated ==
  ASSUME CallInv, HistoryFacts, NEW c \in Calls, pc[c] = "start",
         ~Conflicts(stream, 0), Push(0, StartedBy(c)), UNCHANGED <<event, live, effects>>,
         \/ GoTo(c, "started") \/ GoTo(c, "failed")
  PROVE  AbstractStep
<1>1. /\ pc \in [Calls -> Working \cup Settled \cup {"idle"}]
      /\ view \in [Calls -> Seq(Records)] /\ stream \in Seq(Records)
  BY DEF CallInv, TypeOK
<1>2. PICK r \in Records :
        /\ r.by = c /\ r.type = "ProcessStarted" /\ r.event = NoEvent
        /\ stream' = Append(stream, r)
  BY StartedAtEnd
<1>3. stream = << >> /\ LogOf(stream) = << >>
  BY <1>1, StartedAtEnd, LogType
<1>4. LogOf(stream)' = <<[type |-> "ProcessStarted", event |-> NoEvent, by |-> c]>>
  <2> DEFINE e == [type |-> "ProcessStarted", event |-> NoEvent, by |-> c]
  <2>1. LogOf(stream)' = Append(LogOf(stream), e)
    BY <1>1, <1>2, LogGrows
  <2> HIDE DEF e
  <2>2. LogOf(stream)' = Append(<< >>, e)
    BY <1>3, <2>1
  <2> QED
    BY <2>2 DEF e
<1>5. effectsBegun' = effectsBegun
  BY DEF effectsBegun
<1>6. \A d \in Calls \ {c} : AbstractPhase(d)' = AbstractPhase(d)
  <2> SUFFICES ASSUME NEW d \in Calls \ {c}
               PROVE  AbstractPhase(d)' = AbstractPhase(d)
    OBVIOUS
  <2>1. pc'[d] = pc[d]
    BY <1>1 DEF GoTo
  <2>2. d \in live \/ view'[d] = view[d]
    BY DEF Push
  <2> QED
    BY <2>1, <2>2, PhaseKept
<1>7. AbstractPhase(c) = "waiting"
  BY PhaseOf
<1>8. \/ abstractPhase' = abstractPhase
      \/ abstractPhase' = [abstractPhase EXCEPT ![c] = "failed"]
  <2>1. CASE GoTo(c, "started")
    <3>1. AbstractPhase(c)' = AbstractPhase(c)
      BY <1>1, <1>7, <2>1 DEF GoTo, AbstractPhase, Dropped
    <3> QED
      BY <1>6, <3>1 DEF abstractPhase
  <2>2. CASE GoTo(c, "failed")
    <3>1. AbstractPhase(c)' = "failed"
      BY <1>1, <2>2 DEF GoTo, AbstractPhase, Dropped
    <3> QED
      BY <1>6, <3>1, OnePhaseMoves
  <2> QED
    BY <2>1, <2>2
<1>9. Atomic!Start(c)
  BY <1>3, <1>4, <1>5, <1>7, <1>8, PhaseOf DEF Atomic!Start, Atomic!PhaseTo
<1> QED
  BY <1>9 DEF AbstractStep, Atomic!Next

LEMMA RecordSimulated ==
  ASSUME CallInv, HistoryFacts, NEW c \in Calls, pc[c] = "append",
         ~Conflicts(stream, Len(view[c])), Push(Len(view[c]), ReceivedBy(c)),
         UNCHANGED <<event, live, effects>>,
         \/ GoTo(c, "recorded") \/ GoTo(c, "failed")
  PROVE  AbstractStep
<1>1. /\ pc \in [Calls -> Working \cup Settled \cup {"idle"}]
      /\ view \in [Calls -> Seq(Records)] /\ stream \in Seq(Records)
  BY DEF CallInv, TypeOK
<1>2. PICK r \in Records :
        /\ r.by = c /\ r.type = "EventReceived" /\ r.event = event[c]
        /\ stream' = Append(stream, r)
  BY ReceivedAtEnd
<1>3. stream # << >> /\ Accepts(applyHistory(stream), event[c])
  BY ReceivedAtEnd
<1>4. LogOf(stream)'
        = Append(LogOf(stream),
                 [type |-> "EventReceived", event |-> event[c], by |-> c])
  BY <1>1, <1>2, LogGrows
<1>5. /\ LogOf(stream) # << >>
      /\ Atomic!Accepts(Atomic!applyHistory(LogOf(stream)), event[c])
  BY <1>1, <1>3, LogType, SameDefinition
<1>6. effectsBegun' = effectsBegun
  BY DEF effectsBegun
<1>7. \A d \in Calls \ {c} : AbstractPhase(d)' = AbstractPhase(d)
  <2> SUFFICES ASSUME NEW d \in Calls \ {c}
               PROVE  AbstractPhase(d)' = AbstractPhase(d)
    OBVIOUS
  <2>1. pc'[d] = pc[d]
    BY <1>1 DEF GoTo
  <2>2. d \in live \/ view'[d] = view[d]
    BY DEF Push
  <2> QED
    BY <2>1, <2>2, PhaseKept
<1>8. AbstractPhase(c) = "waiting"
  BY PhaseOf
<1>9. \E p \in {"recorded", "failed"} : abstractPhase' = [abstractPhase EXCEPT ![c] = p]
  <2>1. AbstractPhase(c)' \in {"recorded", "failed"}
    BY <1>1 DEF GoTo, AbstractPhase, Dropped
  <2> QED
    BY <1>7, <2>1, OnePhaseMoves
<1>10. Atomic!Record(c)
  BY <1>4, <1>5, <1>6, <1>8, <1>9, PhaseOf DEF Atomic!Record, Atomic!PhaseTo
<1> QED
  BY <1>10 DEF AbstractStep, Atomic!Next

LEMMA LoadSimulated ==
  ASSUME CallInv, HistoryFacts, NEW c \in Calls, LoadEvents(c)
  PROVE  AbstractStep
<1>1. /\ pc \in [Calls -> Working \cup Settled \cup {"idle"}]
      /\ view \in [Calls -> Seq(Records)] /\ stream \in Seq(Records)
      /\ live \subseteq Calls
  BY DEF CallInv, TypeOK
<1>2. /\ pc[c] = "load" /\ pc' = [pc EXCEPT ![c] = "decide"]
      /\ view' = [view EXCEPT ![c] = stream]
      /\ live' = IF LoadsLiveArray(stream) THEN live \cup {c} ELSE live
      /\ UNCHANGED <<stream, event, effects>>
  BY DEF LoadEvents, GoTo
<1>3. stream # << >> /\ c \notin live
  BY <1>2 DEF HistoryFacts, StreamPresent, CallInv, LiveWhileDeciding
<1>4. \A d \in Calls \ {c} : AbstractPhase(d)' = AbstractPhase(d)
  BY <1>1, <1>2, PhaseKept
<1>5. AbstractPhase(c) = "waiting"
  BY <1>2, PhaseOf
<1>6. CASE ~Dropped(c)'
  <2>1. AbstractPhase(c)' = "waiting"
    BY <1>1, <1>2, <1>6 DEF AbstractPhase
  <2> QED
    BY <1>2, <1>4, <1>5, <2>1, StutterOrAbort
<1>7. CASE Dropped(c)'
  <2>1. AbstractPhase(c)' = "dropped"
    BY <1>1, <1>2, <1>7 DEF AbstractPhase
  <2>2. abstractPhase' = [abstractPhase EXCEPT ![c] = "dropped"]
    BY <1>4, <2>1, OnePhaseMoves
  <2>3. ~Accepts(applyHistory(stream), event[c])
    BY <1>1, <1>2, <1>7 DEF Dropped
  <2>4. /\ LogOf(stream) # << >>
        /\ ~Atomic!Accepts(Atomic!applyHistory(LogOf(stream)), event[c])
    BY <1>1, <1>3, <2>3, LogType, SameDefinition
  <2>5. LogOf(stream)' = LogOf(stream) /\ effectsBegun' = effectsBegun
    BY <1>2 DEF effectsBegun
  <2>6. Atomic!Drop(c)
    BY <1>2, <1>5, <2>2, <2>4, <2>5, PhaseOf DEF Atomic!Drop, Atomic!PhaseTo
  <2> QED
    BY <2>6 DEF AbstractStep, Atomic!Next
<1> QED
  BY <1>6, <1>7

(* A call whose record is written and whose effect is over has no other    *)
(* record whose effect is still to begin; nor has one that only decides.   *)
LEMMA NothingOwed ==
  ASSUME CallInv, EffectsAccounted, NEW c \in Calls,
         pc[c] \notin {"failed", "crashed", "started", "recorded"}
  PROVE  \A i \in DOMAIN LogOf(stream) :
           LogOf(stream)[i].by = c => i \in effectsBegun
<1>1. \A i \in DOMAIN LogOf(stream) :
        i \in DOMAIN stream /\ LogOf(stream)[i].by = stream[i].by
  BY DEF LogOf
<1> QED
  BY <1>1 DEF EffectsAccounted, EffectBegunOrOwed, effectsBegun

LEMMA ReturnSimulated ==
  ASSUME CallInv, EffectsAccounted, NEW c \in Calls,
         AbstractPhase(c) \in {"recorded", "dropped"}, AbstractPhase(c)' = "done",
         pc[c] \notin {"failed", "crashed", "started", "recorded"},
         \A d \in Calls \ {c} : AbstractPhase(d)' = AbstractPhase(d),
         UNCHANGED <<stream, event, effects>>
  PROVE  AbstractStep
<1>1. abstractPhase' = [abstractPhase EXCEPT ![c] = "done"]
  BY OnePhaseMoves
<1>2. LogOf(stream)' = LogOf(stream) /\ effectsBegun' = effectsBegun
  BY DEF effectsBegun
<1>3. Atomic!Return(c)
  BY <1>1, <1>2, NothingOwed, PhaseOf DEF Atomic!Return, Atomic!PhaseTo
<1> QED
  BY <1>3 DEF AbstractStep, Atomic!Next

LEMMA DecisionSimulated ==
  ASSUME CallInv, HistoryFacts, EffectsAccounted, NEW c \in Calls, ApplyNewEvent(c)
  PROVE  AbstractStep
<1> DEFINE state == applyHistory(view[c])
<1>1. /\ pc \in [Calls -> Working \cup Settled \cup {"idle"}]
      /\ stream \in Seq(Records) /\ live \subseteq Calls
  BY DEF CallInv, TypeOK
<1>2. /\ pc[c] = "decide" /\ live' = live \ {c}
      /\ pc' = [pc EXCEPT ![c] = IF state = Broken THEN "failed"
                                 ELSE IF Accepts(state, event[c]) THEN "append"
                                      ELSE "done"]
      /\ UNCHANGED <<stream, event, view, effects>>
  BY DEF ApplyNewEvent, GoTo
<1> HIDE DEF state
<1>3. \A d \in Calls \ {c} : AbstractPhase(d)' = AbstractPhase(d)
  BY <1>1, <1>2, PhaseKept
<1>4. AbstractPhase(c) = IF Dropped(c) THEN "dropped" ELSE "waiting"
  BY <1>2, PhaseOf
<1>5. CASE state = Broken
  <2>1. AbstractPhase(c)' = "failed"
    BY <1>1, <1>2, <1>5 DEF AbstractPhase, Dropped
  <2> QED
    BY <1>2, <1>3, <1>4, <2>1, StutterOrAbort
<1>6. CASE state # Broken /\ Accepts(state, event[c])
  <2>1. ~Dropped(c)
    BY <1>6 DEF Dropped, state
  <2>2. AbstractPhase(c)' = "waiting"
    BY <1>1, <1>2, <1>6 DEF AbstractPhase, Dropped
  <2> QED
    BY <1>2, <1>3, <1>4, <2>1, <2>2, StutterOrAbort
<1>7. CASE state # Broken /\ ~Accepts(state, event[c])
  <2>1. AbstractPhase(c)' = "done"
    BY <1>1, <1>2, <1>7 DEF AbstractPhase, Dropped
  <2>2. CASE Dropped(c)
    BY <1>2, <1>3, <1>4, <2>1, <2>2, ReturnSimulated
  <2>3. CASE ~Dropped(c)
    <3>1. c \in live
      BY <1>2, <1>7, <2>3 DEF Dropped, state
    <3>2. view[c] = stream /\ stream # << >>
      BY <1>2, <3>1 DEF HistoryFacts, LiveIsStream, ViewsArePrefixes
    <3>3. ~Accepts(applyHistory(stream), event[c])
      BY <1>7, <3>2 DEF state
    <3>4. /\ LogOf(stream) # << >>
          /\ ~Atomic!Accepts(Atomic!applyHistory(LogOf(stream)), event[c])
      BY <1>1, <3>2, <3>3, LogType, SameDefinition
    <3>5. abstractPhase' = [abstractPhase EXCEPT ![c] = "done"]
      BY <1>3, <2>1, OnePhaseMoves
    <3>6. LogOf(stream)' = LogOf(stream) /\ effectsBegun' = effectsBegun
      BY <1>2 DEF effectsBegun
    <3>7. Atomic!Drop(c)
      BY <1>2, <1>4, <2>3, <3>4, <3>5, <3>6, PhaseOf DEF Atomic!Drop, Atomic!PhaseTo
    <3> QED
      BY <3>7 DEF AbstractStep, Atomic!Next
  <2> QED
    BY <2>2, <2>3
<1> QED
  BY <1>5, <1>6, <1>7

(* An effect begins: of a record of the call's own, for the first time.    *)
LEMMA BeginSimulated ==
  ASSUME CallInv, NEW c \in Calls, NEW f \in EffectRuns, NEW i, i = f.version,
         effects' = Append(effects, f), UNCHANGED <<stream, event, view, live>>,
         i \in DOMAIN stream, stream[i].by = c,
         \A k \in DOMAIN effects : effects[k].version # i,
         \/ pc[c] = "started" /\ i = 1 /\ GoTo(c, "initial")
         \/ pc[c] = "recorded" /\ GoTo(c, "effect")
  PROVE  AbstractStep
<1>1. /\ pc \in [Calls -> Working \cup Settled \cup {"idle"}]
      /\ effects \in Seq(EffectRuns)
  BY DEF CallInv, TypeOK
<1>2. effectsBegun' = effectsBegun \cup {i}
  <2>1. /\ Len(effects) \in Nat /\ DOMAIN effects = 1 .. Len(effects)
        /\ DOMAIN effects' = 1 .. Len(effects) + 1
        /\ effects'[Len(effects) + 1] = f
        /\ \A k \in 1 .. Len(effects) : effects'[k] = effects[k]
    BY <1>1, LenProperties
  <2>2. effectsBegun \cup {i} \subseteq effectsBegun'
    BY <2>1 DEF effectsBegun
  <2>3. effectsBegun' \subseteq effectsBegun \cup {i}
    BY <2>1 DEF effectsBegun
  <2> QED
    BY <2>2, <2>3
<1>3. i \in DOMAIN LogOf(stream) \ effectsBegun /\ LogOf(stream)[i].by = c
  BY DEF LogOf, effectsBegun
<1>4. \A d \in Calls \ {c} : AbstractPhase(d)' = AbstractPhase(d)
  BY <1>1, PhaseKept DEF GoTo
<1>5. /\ AbstractPhase(c)' = AbstractPhase(c)
      /\ \/ AbstractPhase(c) = "recorded"
         \/ AbstractPhase(c) = "waiting" /\ i = 1
  BY <1>1 DEF GoTo, AbstractPhase, Dropped
<1>6. abstractPhase' = abstractPhase
  BY <1>4, <1>5 DEF abstractPhase
<1>7. LogOf(stream)' = LogOf(stream)
  OBVIOUS
<1>8. Atomic!BeginEffect(c, i)
  <2>1. 1 > 1 <=> FALSE
    OBVIOUS
  <2> QED
    BY <1>2, <1>3, <1>5, <1>6, <1>7, <2>1, PhaseOf DEF Atomic!BeginEffect
<1> QED
  BY <1>3, <1>8 DEF AbstractStep, Atomic!Next

LEMMA InitSimulated == Init => Atomic!Init
<1> SUFFICES ASSUME Init
             PROVE  Atomic!Init
  OBVIOUS
<1>1. LogOf(stream) = << >>
  BY EmptySeq, LogType DEF Init
<1>2. abstractPhase = [c \in Calls |-> "idle"]
  <2>1. \A c \in Calls : AbstractPhase(c) = "idle"
    BY PhaseOf DEF Init
  <2> QED
    BY <2>1 DEF abstractPhase
<1>3. effectsBegun = {}
  BY DEF Init, effectsBegun
<1> QED
  BY <1>1, <1>2, <1>3 DEF Init, Atomic!Init

LEMMA StepSimulated ==
  ASSUME CallInv, HistoryInv, AccountInv, [Next]_vars, clears' = 0
  PROVE  AbstractStep
<1>0. ~ClearProcessState /\ HistoryFacts /\ EffectsAccounted
  BY ClearsOnlyGrow DEF HistoryInv, AccountInv
<1>t. pc \in [Calls -> Working \cup Settled \cup {"idle"}]
  BY DEF CallInv, TypeOK
<1>1. ASSUME NEW c \in Calls, NEW e \in Events, HandleEvent(c, e)
      PROVE  AbstractStep
  BY <1>1, SubmitSimulated DEF HandleEvent
<1>2. ASSUME NEW c \in Calls, NEW d \in Calls, NEW e \in Events,
             EffectEnqueues(c, d, e)
      PROVE  AbstractStep
  BY <1>2, SubmitSimulated DEF EffectEnqueues
<1>3. ASSUME NEW c \in Calls, AppendStarted(c)
      PROVE  AbstractStep
  BY <1>0, <1>3, StartSimulated DEF AppendStarted
<1>4. ASSUME NEW c \in Calls, AppendReceived(c)
      PROVE  AbstractStep
  BY <1>0, <1>4, RecordSimulated DEF AppendReceived
<1>5. ASSUME NEW c \in Calls, LoadEvents(c)
      PROVE  AbstractStep
  BY <1>0, <1>5, LoadSimulated
<1>6. ASSUME NEW c \in Calls, ApplyNewEvent(c)
      PROVE  AbstractStep
  BY <1>0, <1>6, DecisionSimulated
<1>7. ASSUME NEW c \in Calls, StreamExists(c) \/ RetryStart(c) \/ RetryReceived(c)
      PROVE  AbstractStep
  <2>1. \A d \in Calls \ {c} : AbstractPhase(d)' = AbstractPhase(d)
    BY <1>t, <1>7, PhaseKept DEF StreamExists, RetryStart, RetryReceived, GoTo
  <2>2. AbstractPhase(c)' = AbstractPhase(c)
    BY <1>t, <1>7
       DEF StreamExists, RetryStart, RetryReceived, GoTo, AbstractPhase, Dropped
  <2> QED
    BY <1>7, <2>1, <2>2, StutterOrAbort DEF StreamExists, RetryStart, RetryReceived
<1>8. ASSUME NEW c \in Calls, RunInitialEffect(c)
      PROVE  AbstractStep
  <2> DEFINE f == [type |-> "ProcessStarted", version |-> 1, by |-> c, from |-> Initial]
  <2>1. f \in EffectRuns /\ f.version = 1
    BY ProcessAssumption DEF EffectRuns
  <2>2. pc[c] = "started" /\ GoTo(c, "initial") /\ effects' = Append(effects, f)
        /\ UNCHANGED <<stream, event, view, live>>
    BY <1>8 DEF RunInitialEffect
  <2> HIDE DEF f
  <2>3. 1 \in DOMAIN stream /\ stream[1].by = c
        /\ \A k \in DOMAIN effects : effects[k].version # 1
    <3>1. stream # << >>
      BY <1>0, <2>2 DEF HistoryFacts, StreamPresent
    <3>2. 1 \in DOMAIN stream
      BY <3>1, EmptySeq, LenProperties DEF CallInv, TypeOK
    <3> QED
      BY <1>0, <2>2, <3>2 DEF HistoryFacts, InitialEffectOwed
  <2> QED
    BY <2>1, <2>2, <2>3, BeginSimulated
<1>9. ASSUME NEW c \in Calls, RunEffect(c)
      PROVE  AbstractStep
  <2> DEFINE f == [type |-> "EventReceived", version |-> Len(view[c]) + 1, by |-> c,
                   from |-> applyHistory(view[c])]
             v == Len(view[c]) + 1
  <2>1. f \in EffectRuns /\ f.version = v
    <3>1. Len(view[c]) \in Nat
      BY LenProperties DEF CallInv, TypeOK
    <3>2. applyHistory(view[c]) \in States
      BY <1>9 DEF RunEffect, CallInv, DecisionStands, Accepts, InProgress
    <3> QED
      BY <3>1, <3>2 DEF EffectRuns
  <2>2. pc[c] = "recorded" /\ GoTo(c, "effect") /\ effects' = Append(effects, f)
        /\ UNCHANGED <<stream, event, view, live>>
    BY <1>9 DEF RunEffect
  <2>3. v \in DOMAIN stream /\ stream[v].by = c
        /\ \A k \in DOMAIN effects : effects[k].version # v
    BY <1>0, <2>2 DEF HistoryFacts, EffectOwed
  <2> HIDE DEF f, v
  <2> QED
    BY <2>1, <2>2, <2>3, BeginSimulated
<1>10. ASSUME NEW c \in Calls, EffectReturns(c) \/ EffectThrows(c)
       PROVE  AbstractStep
  <2>1. \A d \in Calls \ {c} : AbstractPhase(d)' = AbstractPhase(d)
    BY <1>t, <1>10, PhaseKept DEF EffectReturns, EffectThrows, GoTo
  <2>2. /\ pc[c] \in {"initial", "effect"} /\ UNCHANGED <<stream, event, effects>>
        /\ AbstractPhase(c) = IF pc[c] = "initial" THEN "waiting" ELSE "recorded"
    BY <1>10, PhaseOf DEF EffectReturns, EffectThrows, InEffect
  <2>3. CASE EffectThrows(c)
    <3>1. AbstractPhase(c)' = "failed"
      BY <1>t, <2>3 DEF EffectThrows, GoTo, AbstractPhase, Dropped
    <3> QED
      BY <2>1, <2>2, <3>1, StutterOrAbort
  <2>4. CASE EffectReturns(c) /\ pc[c] = "initial"
    <3>1. AbstractPhase(c)' = "waiting"
      BY <1>t, <2>4 DEF EffectReturns, GoTo, AbstractPhase, Dropped
    <3> QED
      BY <2>1, <2>2, <2>4, <3>1, StutterOrAbort
  <2>5. CASE EffectReturns(c) /\ pc[c] = "effect"
    <3>1. AbstractPhase(c)' = "done"
      BY <1>t, <2>5 DEF EffectReturns, GoTo, AbstractPhase, Dropped
    <3> QED
      BY <1>0, <2>1, <2>2, <2>5, <3>1, ReturnSimulated
  <2> QED
    BY <1>10, <2>2, <2>3, <2>4, <2>5
<1>11. ASSUME NEW c \in Calls, RequestFails(c)
       PROVE  AbstractStep
  <2>1. GoTo(c, "failed") /\ UNCHANGED <<event, live, effects>>
    BY <1>11 DEF RequestFails
  <2>2. CASE pc[c] \in {"exists", "start", "load", "append"} /\ UNCHANGED <<stream, view>>
    <3>1. \A d \in Calls \ {c} : AbstractPhase(d)' = AbstractPhase(d)
      BY <1>t, <2>1, <2>2, PhaseKept DEF GoTo
    <3>2. AbstractPhase(c)' = "failed" /\ AbstractPhase(c) = "waiting"
      BY <1>t, <2>1, <2>2, PhaseOf DEF GoTo, AbstractPhase, Dropped
    <3> QED
      BY <2>1, <2>2, <3>1, <3>2, StutterOrAbort
  <2> QED
    BY <1>0, <1>11, <2>1, <2>2, StartSimulated, RecordSimulated DEF RequestFails
<1>12. ASSUME NEW n \in Nodes, Crash(n)
       PROVE  AbstractStep
  <2>1. /\ UNCHANGED <<stream, event, view, live, effects>>
        /\ \A d \in Calls : \/ pc'[d] = pc[d]
                            \/ pc[d] \in Working /\ pc'[d] = "crashed"
    BY <1>12 DEF Crash
  <2> SUFFICES ASSUME NEW d \in Calls
               PROVE  \/ AbstractPhase(d)' = AbstractPhase(d)
                      \/ /\ AbstractPhase(d)' = "failed"
                         /\ AbstractPhase(d) \in {"waiting", "recorded", "dropped"}
    BY <2>1, StutterOrAbort
  <2>2. CASE pc'[d] = pc[d]
    BY <2>1, <2>2, PhaseKept
  <2>3. CASE pc[d] \in Working /\ pc'[d] = "crashed"
    <3>1. AbstractPhase(d)' = "failed"
      BY <2>3 DEF AbstractPhase, Dropped
    <3>2. AbstractPhase(d) \in {"waiting", "recorded", "dropped"}
      BY <2>3, PhaseOf DEF Working
    <3> QED
      BY <3>1, <3>2
  <2> QED
    BY <2>1, <2>2, <2>3
<1>13. CASE UNCHANGED vars
  <2>1. \A d \in Calls : AbstractPhase(d)' = AbstractPhase(d)
    BY <1>13, PhaseKept DEF vars
  <2> QED
    BY <1>13, <2>1, StutterOrAbort DEF vars
<1>14. ASSUME NEW c \in Calls, Step(c)
       PROVE  AbstractStep
  BY <1>2, <1>3, <1>4, <1>5, <1>6, <1>7, <1>8, <1>9, <1>10, <1>14 DEF Step
<1> QED
  BY <1>0, <1>1, <1>11, <1>12, <1>13, <1>14 DEF Next, Quiescent

(* The runtime implements the atomic process: as long as the stream is not *)
(* cleared, what the concurrent calls of handleEvent do to the history,    *)
(* their promises and the effects is what some calls that each handle      *)
(* their event at one instant do.                                          *)
THEOREM HandlesEventsAtomically == Spec /\ [](clears = 0) => HandlesAtomically
<1>1. Spec => [](CallInv /\ HistoryInv /\ AccountInv)
  BY InvariantsHold, EffectsAlwaysAccounted, PTL
<1>2. CallInv /\ HistoryInv /\ AccountInv /\ [Next]_vars /\ (clears = 0)'
        => [Atomic!Next]_(Atomic!vars)
  BY StepSimulated DEF AbstractStep
<1> QED
  BY InitSimulated, <1>1, <1>2, PTL DEF Spec, HandlesAtomically, Atomic!Spec
============================================================================
