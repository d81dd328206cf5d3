------------------------ MODULE ProcessRuntimeProofs ------------------------
(***************************************************************************)
(* Theorems about ProcessRuntime, for every process definition, either     *)
(* event store, any set of calls and nodes, and any number of clears,      *)
(* crashes and failed requests.                                            *)
(***************************************************************************)
EXTENDS ProcessRuntime, SequenceTheorems, FiniteSetTheorems, TLAPS

----------------------------------------------------------------------------
(* The event store.                                                        *)

(* A record is inserted among the records of a stream, or behind them.     *)
LEMMA PlaceInRange ==
  ASSUME NEW s \in Seq(Records), NEW v
  PROVE  Cardinality({i \in DOMAIN s : s[i].version < v}) + 1 \in 1 .. Len(s) + 1
<1> DEFINE below == {i \in DOMAIN s : s[i].version < v}
<1>1. DOMAIN s = 1 .. Len(s) /\ Len(s) \in Nat
  BY LenProperties
<1>2. /\ IsFiniteSet(1 .. Len(s))
      /\ Cardinality(1 .. Len(s)) = Len(s)
  <2>1. 1 \in Int /\ Len(s) \in Int
    BY <1>1
  <2>2. /\ IsFiniteSet(1 .. Len(s))
        /\ Cardinality(1 .. Len(s)) = IF 1 > Len(s) THEN 0 ELSE Len(s) - 1 + 1
    BY <2>1, FS_Interval
  <2> QED
    BY <1>1, <2>2
<1>3. below \in SUBSET (1 .. Len(s))
  BY <1>1
<1>4. IsFiniteSet(below) /\ Cardinality(below) <= Len(s)
  BY <1>2, <1>3, FS_Subset
<1>5. Cardinality(below) \in Nat
  BY <1>4, FS_CardinalityType
<1> QED
  BY <1>1, <1>4, <1>5

LEMMA InsertAtType ==
  ASSUME NEW S, NEW s \in Seq(S), NEW e \in S, NEW p \in 1 .. Len(s) + 1
  PROVE  /\ InsertAt(s, p, e) \in Seq(S)
         /\ Len(InsertAt(s, p, e)) = Len(s) + 1
<1>1. /\ SubSeq(s, 1, p - 1) \in Seq(S)
      /\ Len(SubSeq(s, 1, p - 1)) = p - 1
  BY SubSeqProperties, ElementOfSeq
<1>2. /\ SubSeq(s, p, Len(s)) \in Seq(S)
      /\ Len(SubSeq(s, p, Len(s))) = Len(s) - p + 1
  BY SubSeqProperties, ElementOfSeq
<1>3. <<e>> \in Seq(S) /\ Len(<<e>>) = 1
  OBVIOUS
<1> DEFINE front == SubSeq(s, 1, p - 1) \o <<e>>
           back  == SubSeq(s, p, Len(s))
<1>4. InsertAt(s, p, e) = front \o back
  BY DEF InsertAt
<1>5. front \in Seq(S) /\ Len(front) = p
  BY <1>1, <1>3, ConcatProperties
<1>6. back \in Seq(S) /\ Len(back) = Len(s) - p + 1
  BY <1>2
<1> HIDE DEF front, back
<1>7. /\ front \o back \in Seq(S)
      /\ Len(front \o back) = Len(front) + Len(back)
  BY <1>5, <1>6, ConcatProperties
<1>8. Len(s) \in Nat
  BY LenProperties
<1> QED
  BY <1>4, <1>5, <1>6, <1>7, <1>8

LEMMA InsertAtEnd ==
  ASSUME NEW S, NEW s \in Seq(S), NEW e \in S
  PROVE  InsertAt(s, Len(s) + 1, e) = Append(s, e)
<1>1. Len(s) \in Nat /\ (Len(s) + 1) - 1 = Len(s)
  BY LenProperties
<1>2. SubSeq(s, 1, (Len(s) + 1) - 1) = s
  BY <1>1
<1>3. SubSeq(s, Len(s) + 1, Len(s)) = << >>
  BY <1>1, SubSeqEmpty
<1>4. s \o <<e>> \in Seq(S) /\ s \o <<e>> = Append(s, e)
  OBVIOUS
<1>5. (s \o <<e>>) \o << >> = s \o <<e>>
  BY <1>4, ConcatEmptySeq
<1>6. InsertAt(s, Len(s) + 1, e)
        = SubSeq(s, 1, (Len(s) + 1) - 1) \o <<e>> \o SubSeq(s, Len(s) + 1, Len(s))
  BY DEF InsertAt
<1> QED
  BY <1>2, <1>3, <1>4, <1>5, <1>6, Zenon

(* What a call hands to appendEvent: a record without its version.         *)
Drafts ==
  {StartedBy(c) : c \in Calls} \cup
  {[version |-> 0, type |-> "EventReceived", event |-> e, by |-> c] :
     e \in Events, c \in Calls}

LEMMA DraftType ==
  ASSUME NEW r \in Drafts, NEW v \in Nat \ {0}
  PROVE  [r EXCEPT !.version = v] \in Records
BY DEF Drafts, StartedBy, Records

LEMMA WrittenType ==
  ASSUME NEW s \in Seq(Records), NEW n \in Nat, NEW r \in Drafts
  PROVE  /\ Written(s, n, r) \in Seq(Records)
         /\ Len(Written(s, n, r)) = Len(s) + 1
<1> DEFINE v == IF Backend = "in-memory" THEN Len(s) + 1 ELSE n + 1
           p == Cardinality({i \in DOMAIN s : s[i].version < v}) + 1
           e == [r EXCEPT !.version = v]
<1>1. v \in Nat \ {0}
  BY LenProperties
<1>2. e \in Records
  BY <1>1, DraftType
<1>3. p \in 1 .. Len(s) + 1
  BY PlaceInRange
<1>4. Written(s, n, r) = InsertAt(s, p, e)
  BY DEF Written, VersionInMemory, VersionMssql
<1> HIDE DEF p, e
<1> QED
  BY <1>2, <1>3, <1>4, InsertAtType

(* Each record at the version that is its position.                        *)
Numbered(s) == \A i \in DOMAIN s : s[i].version = i

(* An append at the stream's own length goes to its end.                   *)
LEMMA WrittenAppends ==
  ASSUME NEW s \in Seq(Records), Numbered(s), NEW r \in Drafts
  PROVE  Written(s, Len(s), r) = Append(s, [r EXCEPT !.version = Len(s) + 1])
<1>1. DOMAIN s = 1 .. Len(s) /\ Len(s) \in Nat
  BY LenProperties
<1>2. {i \in DOMAIN s : s[i].version < Len(s) + 1} = 1 .. Len(s)
  BY <1>1 DEF Numbered
<1>3. Cardinality(1 .. Len(s)) = Len(s)
  <2>1. 1 \in Int /\ Len(s) \in Int
    BY <1>1
  <2>2. Cardinality(1 .. Len(s)) = IF 1 > Len(s) THEN 0 ELSE Len(s) - 1 + 1
    BY <2>1, FS_Interval
  <2> QED
    BY <1>1, <2>2
<1>0. Len(s) + 1 \in Nat \ {0}
  BY <1>1
<1>4. [r EXCEPT !.version = Len(s) + 1] \in Records
  BY <1>0, DraftType
<1>5. Written(s, Len(s), r)
        = InsertAt(s, Len(s) + 1, [r EXCEPT !.version = Len(s) + 1])
  BY <1>2, <1>3 DEF Written, VersionInMemory, VersionMssql
<1> QED
  BY <1>4, <1>5, InsertAtEnd

(* The version check: an append that does not conflict, from a history no  *)
(* longer than the stream, was expected at the stream's own length.        *)
LEMMA NoConflictMeansCurrent ==
  ASSUME NEW s \in Seq(Records), Numbered(s),
         NEW n \in Nat, n <= Len(s), ~Conflicts(s, n)
  PROVE  n = Len(s)
<1>1. DOMAIN s = 1 .. Len(s)
  BY LenProperties
<1>2. Len(s) \in Nat
  BY LenProperties
<1> SUFFICES ASSUME n < Len(s)
             PROVE  FALSE
  BY <1>2
<1>3. n + 1 \in DOMAIN s
  BY <1>1, <1>2
<1>4. s[n + 1].version = n + 1
  BY <1>3 DEF Numbered
<1>5. s # << >> /\ Len(s) # n
  BY <1>2, EmptySeq
<1> QED
  BY <1>3, <1>4, <1>5 DEF Conflicts, ConflictsInMemory, ConflictsMssql, streamExists

----------------------------------------------------------------------------
(* Types.  That an effect starts from a state of the process follows from  *)
(* the decision it was recorded on, so the decision is carried along: a    *)
(* call only gets to its append with a history that accepts its event, and *)
(* nothing changes that history any more.                                  *)

EventsGiven == \A c \in Calls : pc[c] # "idle" => event[c] \in Events

LiveWhileDeciding ==
  \A c \in live : pc[c] = "decide" /\ Backend = "in-memory"

DecisionStands ==
  \A c \in Calls : pc[c] \in {"append", "recorded"} =>
                     Accepts(applyHistory(view[c]), event[c])

CallInv == TypeOK /\ EventsGiven /\ LiveWhileDeciding /\ DecisionStands

LEMMA PushType ==
  ASSUME CallInv, NEW n \in Nat, NEW r \in Drafts, Push(n, r)
  PROVE  /\ stream' \in Seq(Records)
         /\ view' \in [Calls -> Seq(Records)]
         /\ \A c \in Calls : pc[c] # "decide" => view'[c] = view[c]
<1>1. stream' \in Seq(Records)
  BY WrittenType DEF CallInv, TypeOK, Push
<1> QED
  BY <1>1 DEF CallInv, TypeOK, Push, LiveWhileDeciding

LEMMA CallInvInit == Init => CallInv
BY RuntimeAssumption
   DEF Init, CallInv, TypeOK, EventsGiven, LiveWhileDeciding, DecisionStands,
       Working, Settled

LEMMA CallInvStep == CallInv /\ [Next]_vars => CallInv'
<1> SUFFICES ASSUME CallInv, [Next]_vars
             PROVE  CallInv'
  OBVIOUS
<1> USE DEF CallInv, TypeOK, EventsGiven, LiveWhileDeciding, DecisionStands,
            Working, Settled, GoTo
<1>1. ASSUME NEW c \in Calls, NEW e \in Events, HandleEvent(c, e)
      PROVE  CallInv'
  BY <1>1 DEF HandleEvent, Call
<1>2. ASSUME NEW c \in Calls, StreamExists(c)
      PROVE  CallInv'
  BY <1>2 DEF StreamExists
<1>3. ASSUME NEW c \in Calls, AppendStarted(c)
      PROVE  CallInv'
  <2>1. StartedBy(c) \in Drafts
    BY DEF Drafts
  <2>2. /\ stream' \in Seq(Records)
        /\ view' \in [Calls -> Seq(Records)]
        /\ \A d \in Calls : pc[d] # "decide" => view'[d] = view[d]
    BY <1>3, <2>1, PushType DEF AppendStarted
  <2> QED
    BY <1>3, <2>2 DEF AppendStarted
<1>4. ASSUME NEW c \in Calls, RetryStart(c)
      PROVE  CallInv'
  BY <1>4 DEF RetryStart
<1>5. ASSUME NEW c \in Calls, RunInitialEffect(c)
      PROVE  CallInv'
  <2>1. effects' \in Seq(EffectRuns)
    BY <1>5, ProcessAssumption DEF RunInitialEffect, EffectRuns
  <2> QED
    BY <1>5, <2>1 DEF RunInitialEffect
<1>6. ASSUME NEW c \in Calls, LoadEvents(c)
      PROVE  CallInv'
  BY <1>6 DEF LoadEvents, LoadsLiveArray
<1>7. ASSUME NEW c \in Calls, ApplyNewEvent(c)
      PROVE  CallInv'
  BY <1>7 DEF ApplyNewEvent
<1>8. ASSUME NEW c \in Calls, AppendReceived(c)
      PROVE  CallInv'
  <2>1. ReceivedBy(c) \in Drafts
    BY <1>8 DEF Drafts, ReceivedBy, AppendReceived
  <2>2. Len(view[c]) \in Nat
    BY LenProperties
  <2>3. /\ stream' \in Seq(Records)
        /\ view' \in [Calls -> Seq(Records)]
        /\ \A d \in Calls : pc[d] # "decide" => view'[d] = view[d]
    BY <1>8, <2>1, <2>2, PushType DEF AppendReceived
  <2> QED
    BY <1>8, <2>3 DEF AppendReceived
<1>9. ASSUME NEW c \in Calls, RetryReceived(c)
      PROVE  CallInv'
  BY <1>9 DEF RetryReceived
<1>10. ASSUME NEW c \in Calls, RunEffect(c)
       PROVE  CallInv'
  <2>1. applyHistory(view[c]) \in States
    BY <1>10 DEF RunEffect, Accepts, InProgress
  <2>2. Len(view[c]) + 1 \in Nat \ {0}
    BY LenProperties
  <2>3. effects' \in Seq(EffectRuns)
    BY <1>10, <2>1, <2>2 DEF RunEffect, EffectRuns
  <2> QED
    BY <1>10, <2>3 DEF RunEffect
<1>11. ASSUME NEW c \in Calls, EffectReturns(c) \/ EffectThrows(c)
       PROVE  CallInv'
  BY <1>11 DEF EffectReturns, EffectThrows, InEffect
<1>12. ASSUME NEW c \in Calls, NEW d \in Calls, NEW e \in Events,
              EffectEnqueues(c, d, e)
       PROVE  CallInv'
  BY <1>12 DEF EffectEnqueues, Call
<1>13. CASE ClearProcessState
  BY <1>13, RuntimeAssumption DEF ClearProcessState
<1>14. ASSUME NEW c \in Calls, RequestFails(c)
       PROVE  CallInv'
  <2>1. faults' \in 0 .. MaxFaults
    BY <1>14, RuntimeAssumption DEF RequestFails
  <2>2. StartedBy(c) \in Drafts
    BY DEF Drafts
  <2>3. ASSUME pc[c] = "append"
        PROVE  ReceivedBy(c) \in Drafts
    <3>1. event[c] \in Events
      BY <2>3
    <3> QED
      BY <3>1 DEF Drafts, ReceivedBy
  <2>4. 0 \in Nat /\ Len(view[c]) \in Nat
    BY LenProperties
  <2>5. /\ stream' \in Seq(Records)
        /\ view' \in [Calls -> Seq(Records)]
        /\ \A d \in Calls : pc[d] # "decide" => view'[d] = view[d]
    <3>1. CASE UNCHANGED <<stream, view>>
      BY <3>1
    <3>2. CASE Push(0, StartedBy(c))
      BY <2>2, <2>4, <3>2, PushType
    <3>3. CASE pc[c] = "append" /\ Push(Len(view[c]), ReceivedBy(c))
      BY <2>3, <2>4, <3>3, PushType
    <3> QED
      BY <1>14, <3>1, <3>2, <3>3 DEF RequestFails
  <2> QED
    BY <1>14, <2>1, <2>5 DEF RequestFails
<1>15. ASSUME NEW n \in Nodes, Crash(n)
       PROVE  CallInv'
  <2>1. Backend # "in-memory"
    BY <1>15 DEF Crash
  <2>2. faults' \in 0 .. MaxFaults
    BY <1>15, RuntimeAssumption DEF Crash
  <2> QED
    BY <1>15, <2>1, <2>2 DEF Crash
<1>16. CASE UNCHANGED vars
  BY <1>16 DEF vars
<1> HIDE DEF CallInv, TypeOK, EventsGiven, LiveWhileDeciding, DecisionStands,
             Working, Settled, GoTo
<1>17. ASSUME NEW c \in Calls, Step(c)
       PROVE  CallInv'
  BY <1>2, <1>3, <1>4, <1>5, <1>6, <1>7, <1>8, <1>9, <1>10, <1>11, <1>12, <1>17
     DEF Step
<1> QED
  BY <1>1, <1>13, <1>14, <1>15, <1>16, <1>17 DEF Next, Quiescent

(* Type correctness, with either store, whatever clears and faults happen. *)
THEOREM TypeCorrect == Spec => []TypeOK
<1>1. CallInv => TypeOK
  BY DEF CallInv
<1> QED
  BY CallInvInit, CallInvStep, <1>1, PTL DEF Spec

----------------------------------------------------------------------------
(* The history.  Until the stream is cleared, what a call has loaded is a  *)
(* prefix of it, so an append that the version check lets through extends  *)
(* the very history that was replayed.                                     *)

PrefixOf(h, s) == Len(h) <= Len(s) /\ \A i \in 1 .. Len(h) : h[i] = s[i]

ViewsArePrefixes ==
  \A c \in Calls : pc[c] \in {"decide", "append", "recorded"} =>
                     view[c] # << >> /\ PrefixOf(view[c], stream)

LiveIsStream == \A c \in live : view[c] = stream

StreamPresent ==
  \A c \in Calls : pc[c] \in {"started", "initial", "load"} => stream # << >>

(* The effect that the record of a call still owes.                        *)
InitialEffectOwed ==
  \A c \in Calls : pc[c] = "started" =>
    /\ stream[1].by = c
    /\ \A i \in DOMAIN effects : effects[i].version # 1

EffectOwed ==
  \A c \in Calls : pc[c] = "recorded" =>
    LET v == Len(view[c]) + 1
    IN  /\ v \in DOMAIN stream
        /\ stream[v].by = c
        /\ stream[v].type = "EventReceived"
        /\ \A i \in DOMAIN effects : effects[i].version # v

EffectsDistinct ==
  \A i, j \in DOMAIN effects : effects[i].version = effects[j].version => i = j

EffectMatches(f, s) ==
  /\ f.version \in DOMAIN s
  /\ s[f.version].by = f.by
  /\ s[f.version].type = f.type
  /\ f.version > 1 => f.from = applyHistory(Prefix(s, f.version - 1))

EffectsOfRecords == \A i \in DOMAIN effects : EffectMatches(effects[i], stream)

HistoryFacts ==
  /\ Numbered(stream) /\ Replays(stream)
  /\ ViewsArePrefixes /\ LiveIsStream /\ StreamPresent
  /\ InitialEffectOwed /\ EffectOwed
  /\ EffectsDistinct /\ EffectsOfRecords

HistoryInv == clears = 0 => HistoryFacts

LEMMA PrefixOfAppend ==
  ASSUME NEW S, NEW s \in Seq(S), NEW e \in S, NEW n \in 0 .. Len(s)
  PROVE  Prefix(Append(s, e), n) = Prefix(s, n)
BY DEF Prefix

LEMMA WholePrefix ==
  ASSUME NEW S, NEW s \in Seq(S)
  PROVE  Prefix(s, Len(s)) = s
BY DEF Prefix

LEMMA PrefixIsSubSeq ==
  ASSUME NEW S, NEW h \in Seq(S), NEW s \in Seq(S), PrefixOf(h, s)
  PROVE  Prefix(s, Len(h)) = h
<1>1. Len(h) \in Nat /\ Len(s) \in Nat
  BY LenProperties
<1>2. \A i \in 1 .. Len(h) : s[i] \in S
  BY <1>1, ElementOfSeq DEF PrefixOf
<1>3. /\ Prefix(s, Len(h)) \in Seq(S)
      /\ Len(Prefix(s, Len(h))) = Len(h)
      /\ \A i \in 1 .. Len(h) : Prefix(s, Len(h))[i] = s[i]
  BY <1>1, <1>2, SubSeqProperties DEF Prefix
<1> QED
  BY <1>3, SeqEqual DEF PrefixOf

(* A history that replays still does when it grows by an event its process *)
(* is waiting for.                                                         *)
LEMMA ReplaysGrows ==
  ASSUME NEW s \in Seq(Records), Replays(s), s # << >>,
         NEW r \in Records, r.type = "EventReceived",
         Accepts(applyHistory(s), r.event)
  PROVE  Replays(Append(s, r))
<1> DEFINE t == Append(s, r)
<1>1. /\ t \in Seq(Records) /\ Len(s) \in Nat \ {0} /\ Len(t) = Len(s) + 1
      /\ t[Len(s) + 1] = r /\ \A i \in 1 .. Len(s) : t[i] = s[i]
  BY EmptySeq
<1>2. t[1].type = "ProcessStarted"
  BY <1>1 DEF Replays
<1>3. ASSUME NEW i \in 2 .. Len(t)
      PROVE  /\ t[i].type = "EventReceived"
             /\ Accepts(applyHistory(Prefix(t, i - 1)), t[i].event)
  <2>1. i - 1 \in 0 .. Len(s)
    BY <1>1
  <2>2. Prefix(t, i - 1) = Prefix(s, i - 1)
    BY <2>1, PrefixOfAppend
  <2>3. CASE i <= Len(s)
    BY <1>1, <2>2, <2>3 DEF Replays
  <2>4. CASE i = Len(s) + 1
    <3>1. Prefix(s, i - 1) = s
      BY <1>1, <2>4, WholePrefix
    <3> QED
      BY <1>1, <2>2, <2>4, <3>1
  <2> QED
    BY <1>1, <2>3, <2>4
<1> QED
  BY <1>2, <1>3 DEF Replays

LEMMA EffectStillMatches ==
  ASSUME NEW s \in Seq(Records), NEW r \in Records, NEW f \in EffectRuns,
         EffectMatches(f, s)
  PROVE  EffectMatches(f, Append(s, r))
<1>1. /\ DOMAIN s = 1 .. Len(s) /\ Len(s) \in Nat
      /\ DOMAIN Append(s, r) = 1 .. Len(s) + 1
      /\ \A i \in 1 .. Len(s) : Append(s, r)[i] = s[i]
  BY LenProperties
<1>2. f.version - 1 \in 0 .. Len(s)
  BY <1>1 DEF EffectMatches, EffectRuns
<1>3. Prefix(Append(s, r), f.version - 1) = Prefix(s, f.version - 1)
  BY <1>2, PrefixOfAppend
<1> QED
  BY <1>1, <1>3 DEF EffectMatches

(* What an append at the stream's length leaves true of every call.        *)
LEMMA PushKeepsFacts ==
  ASSUME CallInv, HistoryFacts, NEW r \in Drafts, Push(Len(stream), r),
         stream = << >> => r.type = "ProcessStarted",
         stream # << >> => /\ r.type = "EventReceived"
                           /\ Accepts(applyHistory(stream), r.event),
         UNCHANGED <<live, effects>>
  PROVE  /\ stream' = Append(stream, [r EXCEPT !.version = Len(stream) + 1])
         /\ Numbered(stream)' /\ Replays(stream)' /\ LiveIsStream'
         /\ EffectsDistinct' /\ EffectsOfRecords'
         /\ \A c \in Calls : pc[c] \in {"decide", "append", "recorded"} =>
                              view'[c] # << >> /\ PrefixOf(view'[c], stream')
         /\ \A c \in Calls : pc[c] = "started" => stream'[1].by = c
         /\ \A c \in Calls : pc[c] = "recorded" =>
              LET v == Len(view[c]) + 1
              IN  /\ v \in DOMAIN stream'
                  /\ stream'[v].by = c
                  /\ stream'[v].type = "EventReceived"
<1> DEFINE e == [r EXCEPT !.version = Len(stream) + 1]
<1>1. /\ stream \in Seq(Records) /\ view \in [Calls -> Seq(Records)]
      /\ effects \in Seq(EffectRuns) /\ live \subseteq Calls
  BY DEF CallInv, TypeOK
<1>2. Len(stream) \in Nat /\ DOMAIN stream = 1 .. Len(stream)
  BY <1>1, LenProperties
<1>3. e \in Records
  <2>1. Len(stream) + 1 \in Nat \ {0}
    BY <1>2
  <2> QED
    BY <2>1, DraftType
<1>4. stream' = Append(stream, e)
  BY <1>1, WrittenAppends DEF Push, HistoryFacts
<1>5. /\ stream' \in Seq(Records) /\ Len(stream') = Len(stream) + 1
      /\ DOMAIN stream' = 1 .. Len(stream) + 1
      /\ stream'[Len(stream) + 1] = e
      /\ \A i \in 1 .. Len(stream) : stream'[i] = stream[i]
  BY <1>1, <1>2, <1>3, <1>4
<1>6. /\ e.type = r.type /\ e.event = r.event /\ e.by = r.by
      /\ e.version = Len(stream) + 1
  BY DEF Drafts, StartedBy
<1> HIDE DEF e
<1>7. Numbered(stream)'
  BY <1>2, <1>5, <1>6 DEF Numbered, HistoryFacts
<1>8. Replays(stream)'
  <2>1. CASE stream = << >>
    <3>1. Len(stream') = 1 /\ stream'[1].type = "ProcessStarted"
      BY <1>5, <1>6, <2>1, EmptySeq
    <3> QED
      BY <3>1 DEF Replays
  <2>2. CASE stream # << >>
    BY <1>1, <1>3, <1>4, <1>6, <2>2, ReplaysGrows DEF HistoryFacts
  <2> QED
    BY <2>1, <2>2
<1>9. LiveIsStream'
  BY <1>1 DEF Push, LiveIsStream
<1>10. EffectsDistinct' /\ EffectsOfRecords'
  <2>1. EffectsDistinct'
    BY DEF EffectsDistinct, HistoryFacts
  <2>2. ASSUME NEW i \in DOMAIN effects
        PROVE  EffectMatches(effects[i], stream')
    <3>1. effects[i] \in EffectRuns
      BY <1>1, <2>2
    <3>2. EffectMatches(effects[i], stream)
      BY <2>2 DEF HistoryFacts, EffectsOfRecords
    <3> QED
      BY <1>1, <1>3, <1>4, <3>1, <3>2, EffectStillMatches
  <2> QED
    BY <2>1, <2>2 DEF EffectsOfRecords
<1>11. ASSUME NEW c \in Calls, pc[c] \in {"decide", "append", "recorded"}
       PROVE  view'[c] # << >> /\ PrefixOf(view'[c], stream')
  <2>1. CASE c \in live
    <3>1. view'[c] = stream'
      BY <2>1 DEF Push
    <3>2. stream' # << >>
      BY <1>2, <1>5, EmptySeq
    <3> QED
      BY <1>5, <1>2, <3>1, <3>2 DEF PrefixOf
  <2>2. CASE c \notin live
    <3>1. view'[c] = view[c]
      BY <2>2 DEF Push
    <3>2. view[c] # << >> /\ PrefixOf(view[c], stream)
      BY <1>11 DEF HistoryFacts, ViewsArePrefixes
    <3>3. Len(view[c]) \in Nat
      BY <1>1, LenProperties
    <3> QED
      BY <1>2, <1>5, <3>1, <3>2, <3>3 DEF PrefixOf
  <2> QED
    BY <2>1, <2>2
<1>12. ASSUME NEW c \in Calls, pc[c] = "started"
       PROVE  stream'[1].by = c
  <2>1. stream # << >> /\ stream[1].by = c
    BY <1>12 DEF HistoryFacts, StreamPresent, InitialEffectOwed
  <2>2. 1 \in 1 .. Len(stream)
    BY <1>1, <2>1, EmptySeq
  <2> QED
    BY <1>5, <2>1, <2>2
<1>13. ASSUME NEW c \in Calls, pc[c] = "recorded"
       PROVE  LET v == Len(view[c]) + 1
              IN  /\ v \in DOMAIN stream'
                  /\ stream'[v].by = c
                  /\ stream'[v].type = "EventReceived"
  BY <1>2, <1>5, <1>13 DEF HistoryFacts, EffectOwed
<1> QED
  BY <1>4, <1>7, <1>8, <1>9, <1>10, <1>11, <1>12, <1>13 DEF e

(* ProcessStarted is only written to a stream that does not exist, ...     *)
LEMMA StartsOnlyOnce ==
  ASSUME CallInv, HistoryFacts, ~Conflicts(stream, 0)
  PROVE  stream = << >>
<1>1. stream \in Seq(Records) /\ Len(stream) \in Nat
  BY LenProperties DEF CallInv, TypeOK
<1>2. Len(stream) = 0
  BY <1>1, NoConflictMeansCurrent DEF HistoryFacts
<1> QED
  BY <1>1, <1>2, EmptySeq

(* ... and EventReceived only behind the history that was replayed.        *)
LEMMA AppendsToWhatWasReplayed ==
  ASSUME CallInv, HistoryFacts, NEW c \in Calls, pc[c] = "append",
         ~Conflicts(stream, Len(view[c]))
  PROVE  /\ view[c] = stream /\ stream # << >>
         /\ Accepts(applyHistory(stream), event[c])
<1>1. /\ stream \in Seq(Records) /\ view[c] \in Seq(Records)
      /\ Len(stream) \in Nat /\ Len(view[c]) \in Nat
  BY LenProperties DEF CallInv, TypeOK
<1>2. view[c] # << >> /\ PrefixOf(view[c], stream)
  BY DEF HistoryFacts, ViewsArePrefixes
<1>3. Len(view[c]) = Len(stream)
  BY <1>1, <1>2, NoConflictMeansCurrent DEF HistoryFacts, PrefixOf
<1>4. view[c] = stream
  BY <1>1, <1>2, <1>3, SeqEqual DEF PrefixOf
<1> QED
  BY <1>2, <1>4 DEF CallInv, DecisionStands

LEMMA HistoryInit == Init => HistoryInv
BY EmptySeq
   DEF Init, HistoryInv, HistoryFacts, Numbered, Replays, ViewsArePrefixes,
       LiveIsStream, StreamPresent, InitialEffectOwed, EffectOwed,
       EffectsDistinct, EffectsOfRecords

(* A step that leaves the stream, the views and the effects alone, and     *)
(* takes no call to a place of which HistoryFacts says something new.      *)
LEMMA QuietStep ==
  ASSUME CallInv, HistoryFacts, UNCHANGED <<stream, view, effects>>,
         live' \subseteq live,
         \A c \in Calls :
           \/ pc'[c] = pc[c]
           \/ pc'[c] \notin {"decide", "append", "recorded", "started", "initial", "load"}
           \/ pc'[c] = "append" /\ pc[c] = "decide"
           \/ pc'[c] = "load" /\ stream # << >>
  PROVE  HistoryFacts'
BY DEF HistoryFacts, Numbered, Replays, ViewsArePrefixes, LiveIsStream,
       StreamPresent, InitialEffectOwed, EffectOwed, EffectsDistinct,
       EffectsOfRecords, PrefixOf, EffectMatches

LEMMA StartedStep ==
  ASSUME CallInv, HistoryFacts, NEW c \in Calls, pc[c] = "start",
         ~Conflicts(stream, 0), Push(0, StartedBy(c)), UNCHANGED <<live, effects>>,
         \/ GoTo(c, "started") \/ GoTo(c, "failed")
  PROVE  HistoryFacts'
<1>1. /\ stream \in Seq(Records) /\ pc \in [Calls -> Working \cup Settled \cup {"idle"}]
      /\ view \in [Calls -> Seq(Records)] /\ live \subseteq Calls
      /\ effects \in Seq(EffectRuns)
  BY DEF CallInv, TypeOK
<1>2. Len(stream) \in Nat /\ DOMAIN stream = 1 .. Len(stream)
  BY <1>1, LenProperties
<1>3. Len(stream) = 0 /\ stream = << >>
  BY <1>1, StartsOnlyOnce, EmptySeq
<1>4. StartedBy(c) \in Drafts /\ StartedBy(c).type = "ProcessStarted"
      /\ StartedBy(c).by = c
  BY DEF Drafts, StartedBy
<1>5. /\ stream' = Append(stream, [StartedBy(c) EXCEPT !.version = Len(stream) + 1])
      /\ Numbered(stream)' /\ Replays(stream)' /\ LiveIsStream'
      /\ EffectsDistinct' /\ EffectsOfRecords'
  BY <1>3, <1>4, PushKeepsFacts
<1>6. /\ stream' # << >> /\ stream'[1].by = c
  BY <1>3, <1>4, <1>5 DEF StartedBy
<1>7. \A i \in DOMAIN effects : FALSE
  BY <1>2, <1>3 DEF HistoryFacts, EffectsOfRecords, EffectMatches
<1>8. \A d \in Calls : pc[d] \notin {"started", "initial", "load"}
  BY <1>3 DEF HistoryFacts, StreamPresent
<1>9. \A d \in Calls : pc[d] \notin {"decide", "append", "recorded"}
  <2> SUFFICES ASSUME NEW d \in Calls, pc[d] \in {"decide", "append", "recorded"}
               PROVE  FALSE
    OBVIOUS
  <2>1. view[d] # << >> /\ Len(view[d]) <= 0
    BY <1>3 DEF HistoryFacts, ViewsArePrefixes, PrefixOf
  <2> QED
    BY <1>1, <2>1, EmptySeq
<1>10. pc' \in {[pc EXCEPT ![c] = "started"], [pc EXCEPT ![c] = "failed"]}
  BY DEF GoTo
<1>11. /\ StreamPresent' /\ ViewsArePrefixes' /\ EffectOwed'
  BY <1>1, <1>6, <1>8, <1>9, <1>10 DEF StreamPresent, ViewsArePrefixes, EffectOwed
<1>12. InitialEffectOwed'
  BY <1>1, <1>6, <1>7, <1>8, <1>10 DEF InitialEffectOwed
<1> QED
  BY <1>5, <1>11, <1>12 DEF HistoryFacts

LEMMA ReceivedStep ==
  ASSUME CallInv, HistoryFacts, NEW c \in Calls, pc[c] = "append",
         ~Conflicts(stream, Len(view[c])), Push(Len(view[c]), ReceivedBy(c)),
         UNCHANGED <<live, effects>>,
         \/ GoTo(c, "recorded") \/ GoTo(c, "failed")
  PROVE  HistoryFacts'
<1>1. /\ stream \in Seq(Records) /\ pc \in [Calls -> Working \cup Settled \cup {"idle"}]
      /\ view \in [Calls -> Seq(Records)] /\ live \subseteq Calls
      /\ effects \in Seq(EffectRuns) /\ event[c] \in Events
  BY DEF CallInv, TypeOK, EventsGiven
<1>2. Len(stream) \in Nat /\ DOMAIN stream = 1 .. Len(stream)
      /\ Len(view[c]) \in Nat
  BY <1>1, LenProperties
<1>3. view[c] # << >> /\ PrefixOf(view[c], stream)
  BY DEF HistoryFacts, ViewsArePrefixes
<1>4. view[c] = stream /\ Accepts(applyHistory(stream), event[c])
  BY AppendsToWhatWasReplayed
<1>5. Len(view[c]) = Len(stream)
  BY <1>4
<1>6. /\ ReceivedBy(c) \in Drafts /\ ReceivedBy(c).type = "EventReceived"
      /\ ReceivedBy(c).event = event[c] /\ ReceivedBy(c).by = c
  BY <1>1 DEF Drafts, ReceivedBy
<1>7. Accepts(applyHistory(stream), ReceivedBy(c).event)
  BY <1>4, <1>6
<1>8. Push(Len(stream), ReceivedBy(c)) /\ stream # << >>
  BY <1>3, <1>4, <1>5
<1>9. /\ stream' = Append(stream, [ReceivedBy(c) EXCEPT !.version = Len(stream) + 1])
      /\ Numbered(stream)' /\ Replays(stream)' /\ LiveIsStream'
      /\ EffectsDistinct' /\ EffectsOfRecords'
      /\ \A d \in Calls : pc[d] \in {"decide", "append", "recorded"} =>
                          view'[d] # << >> /\ PrefixOf(view'[d], stream')
      /\ \A d \in Calls : pc[d] = "started" => stream'[1].by = d
      /\ \A d \in Calls : pc[d] = "recorded" =>
            LET v == Len(view[d]) + 1
            IN  /\ v \in DOMAIN stream'
                /\ stream'[v].by = d
                /\ stream'[v].type = "EventReceived"
  BY <1>6, <1>7, <1>8, PushKeepsFacts
<1>10. pc' \in {[pc EXCEPT ![c] = "recorded"], [pc EXCEPT ![c] = "failed"]}
  BY DEF GoTo
<1>11. \A d \in Calls : pc[d] # "decide" => view'[d] = view[d]
  BY <1>1 DEF Push, CallInv, LiveWhileDeciding
<1>12. ViewsArePrefixes'
  BY <1>1, <1>9, <1>10, ZenonT(60) DEF ViewsArePrefixes
<1>13. stream' # << >> /\ Len(stream) + 1 \in DOMAIN stream'
       /\ stream'[Len(stream) + 1].by = c
       /\ stream'[Len(stream) + 1].type = "EventReceived"
  <2> DEFINE e == [ReceivedBy(c) EXCEPT !.version = Len(stream) + 1]
  <2>1. e.by = c /\ e.type = "EventReceived"
    BY DEF ReceivedBy
  <2>2. Len(stream) + 1 \in Nat \ {0}
    BY <1>2
  <2>3. e \in Records
    BY <1>6, <2>2, DraftType
  <2> HIDE DEF e
  <2>4. stream' = Append(stream, e)
    BY <1>9 DEF e
  <2>5. /\ stream' \in Seq(Records) /\ Len(stream') = Len(stream) + 1
        /\ DOMAIN stream' = 1 .. Len(stream) + 1
        /\ stream'[Len(stream) + 1] = e
    BY <1>1, <1>2, <2>3, <2>4
  <2>6. stream' # << >>
    BY <1>2, <2>5, EmptySeq
  <2> QED
    BY <1>2, <2>1, <2>5, <2>6
<1>14. StreamPresent' /\ InitialEffectOwed'
  BY <1>1, <1>9, <1>10, <1>13 DEF HistoryFacts, StreamPresent, InitialEffectOwed
<1>15. \A i \in DOMAIN effects : effects[i].version # Len(stream) + 1
  BY <1>2 DEF HistoryFacts, EffectsOfRecords, EffectMatches
<1>16. EffectOwed'
  <2> SUFFICES ASSUME NEW d \in Calls, pc'[d] = "recorded"
               PROVE  LET v == Len(view'[d]) + 1
                      IN  /\ v \in DOMAIN stream'
                          /\ stream'[v].by = d
                          /\ stream'[v].type = "EventReceived"
                          /\ \A i \in DOMAIN effects' : effects'[i].version # v
    BY DEF EffectOwed
  <2>1. CASE d = c
    BY <1>4, <1>11, <1>13, <1>15, <2>1
  <2>2. CASE d # c
    <3>1. pc[d] = "recorded" /\ view'[d] = view[d]
      BY <1>1, <1>10, <1>11, <2>2
    <3> QED
      BY <1>9, <3>1 DEF HistoryFacts, EffectOwed
  <2> QED
    BY <2>1, <2>2
<1> QED
  BY <1>9, <1>12, <1>14, <1>16 DEF HistoryFacts

(* An effect begins: the one its record owes.                              *)
LEMMA InitialEffectStep ==
  ASSUME CallInv, HistoryFacts, NEW c \in Calls, RunInitialEffect(c)
  PROVE  HistoryFacts'
<1> DEFINE f == [type |-> "ProcessStarted", version |-> 1, by |-> c, from |-> Initial]
<1>1. /\ stream \in Seq(Records) /\ effects \in Seq(EffectRuns)
      /\ pc \in [Calls -> Working \cup Settled \cup {"idle"}]
  BY DEF CallInv, TypeOK
<1>2. /\ pc[c] = "started" /\ stream # << >> /\ stream[1].by = c
      /\ \A i \in DOMAIN effects : effects[i].version # 1
  BY DEF RunInitialEffect, HistoryFacts, StreamPresent, InitialEffectOwed
<1>3. 1 \in DOMAIN stream /\ stream[1].type = "ProcessStarted"
  BY <1>1, <1>2, EmptySeq, LenProperties DEF HistoryFacts, Replays
<1>4. f \in EffectRuns
  BY ProcessAssumption DEF EffectRuns
<1>5. effects' = Append(effects, f) /\ UNCHANGED <<stream, view, live>>
      /\ pc' = [pc EXCEPT ![c] = "initial"]
  BY DEF RunInitialEffect, GoTo
<1>6. EffectMatches(f, stream)
  BY <1>2, <1>3 DEF EffectMatches
<1>7. f.version = 1
  OBVIOUS
<1> HIDE DEF f
<1>8. /\ Len(effects) \in Nat /\ DOMAIN effects = 1 .. Len(effects)
      /\ DOMAIN effects' = 1 .. Len(effects) + 1
      /\ effects'[Len(effects) + 1] = f
      /\ \A i \in 1 .. Len(effects) : effects'[i] = effects[i]
  BY <1>1, <1>4, <1>5, LenProperties
<1>9. EffectsDistinct'
  BY <1>2, <1>7, <1>8 DEF HistoryFacts, EffectsDistinct
<1>10. EffectsOfRecords'
  BY <1>5, <1>6, <1>8 DEF HistoryFacts, EffectsOfRecords, EffectMatches
<1>11. InitialEffectOwed'
  BY <1>1, <1>2, <1>5 DEF HistoryFacts, InitialEffectOwed
<1>12. EffectOwed'
  <2>1. \A d \in Calls : pc[d] = "recorded" => Len(view[d]) + 1 # 1
    BY EmptySeq DEF HistoryFacts, ViewsArePrefixes, CallInv, TypeOK
  <2> QED
    BY <1>1, <1>5, <1>7, <1>8, <2>1 DEF HistoryFacts, EffectOwed
<1>13. ViewsArePrefixes' /\ LiveIsStream' /\ StreamPresent'
  BY <1>1, <1>2, <1>5
     DEF HistoryFacts, ViewsArePrefixes, LiveIsStream, StreamPresent, PrefixOf
<1>14. Numbered(stream)' /\ Replays(stream)'
  BY <1>5 DEF HistoryFacts, Numbered, Replays
<1> QED
  BY <1>9, <1>10, <1>11, <1>12, <1>13, <1>14 DEF HistoryFacts

LEMMA EffectStep ==
  ASSUME CallInv, HistoryFacts, NEW c \in Calls, RunEffect(c)
  PROVE  HistoryFacts'
<1> DEFINE v == Len(view[c]) + 1
           f == [type |-> "EventReceived", version |-> v, by |-> c,
                 from |-> applyHistory(view[c])]
<1>1. /\ stream \in Seq(Records) /\ effects \in Seq(EffectRuns)
      /\ view \in [Calls -> Seq(Records)]
      /\ pc \in [Calls -> Working \cup Settled \cup {"idle"}]
  BY DEF CallInv, TypeOK
<1>2. /\ pc[c] = "recorded" /\ v \in DOMAIN stream /\ stream[v].by = c
      /\ stream[v].type = "EventReceived"
      /\ \A i \in DOMAIN effects : effects[i].version # v
  BY DEF RunEffect, HistoryFacts, EffectOwed
<1>3. Len(view[c]) \in Nat \ {0} /\ Prefix(stream, Len(view[c])) = view[c]
  BY <1>1, <1>2, EmptySeq, PrefixIsSubSeq DEF HistoryFacts, ViewsArePrefixes
<1>4. applyHistory(view[c]) \in States
  BY <1>2 DEF CallInv, DecisionStands, Accepts, InProgress
<1>5. f \in EffectRuns
  BY <1>3, <1>4 DEF EffectRuns
<1>6. effects' = Append(effects, f) /\ UNCHANGED <<stream, view, live>>
      /\ pc' = [pc EXCEPT ![c] = "effect"]
  BY DEF RunEffect, GoTo
<1>7. EffectMatches(f, stream)
  <2>1. v - 1 = Len(view[c])
    BY <1>3
  <2> QED
    BY <1>2, <1>3, <2>1 DEF EffectMatches
<1>8. f.version = v /\ v # 1
  BY <1>3
<1> HIDE DEF f
<1>9. /\ Len(effects) \in Nat /\ DOMAIN effects = 1 .. Len(effects)
      /\ DOMAIN effects' = 1 .. Len(effects) + 1
      /\ effects'[Len(effects) + 1] = f
      /\ \A i \in 1 .. Len(effects) : effects'[i] = effects[i]
  BY <1>1, <1>5, <1>6, LenProperties
<1>10. EffectsDistinct'
  BY <1>2, <1>8, <1>9 DEF HistoryFacts, EffectsDistinct
<1>11. EffectsOfRecords'
  BY <1>6, <1>7, <1>9 DEF HistoryFacts, EffectsOfRecords, EffectMatches
<1>12. InitialEffectOwed'
  BY <1>1, <1>6, <1>8, <1>9 DEF HistoryFacts, InitialEffectOwed
<1>13. EffectOwed'
  <2> SUFFICES ASSUME NEW d \in Calls, pc'[d] = "recorded"
               PROVE  LET w == Len(view[d]) + 1
                      IN  /\ w \in DOMAIN stream
                          /\ stream[w].by = d
                          /\ stream[w].type = "EventReceived"
                          /\ \A i \in DOMAIN effects' : effects'[i].version # w
    BY <1>6 DEF EffectOwed
  <2>1. d # c /\ pc[d] = "recorded"
    BY <1>1, <1>6
  <2>2. /\ Len(view[d]) + 1 \in DOMAIN stream
        /\ stream[Len(view[d]) + 1].by = d
        /\ stream[Len(view[d]) + 1].type = "EventReceived"
        /\ \A i \in DOMAIN effects : effects[i].version # Len(view[d]) + 1
    BY <2>1 DEF HistoryFacts, EffectOwed
  <2>3. Len(view[d]) + 1 # v
    BY <1>2, <2>1, <2>2
  <2> QED
    BY <1>8, <1>9, <2>2, <2>3
<1>14. ViewsArePrefixes' /\ LiveIsStream' /\ StreamPresent'
  BY <1>1, <1>2, <1>6
     DEF HistoryFacts, ViewsArePrefixes, LiveIsStream, StreamPresent, PrefixOf
<1>15. Numbered(stream)' /\ Replays(stream)'
  BY <1>6 DEF HistoryFacts, Numbered, Replays
<1> QED
  BY <1>10, <1>11, <1>12, <1>13, <1>14, <1>15 DEF HistoryFacts

LEMMA LoadStep ==
  ASSUME CallInv, HistoryFacts, NEW c \in Calls, LoadEvents(c)
  PROVE  HistoryFacts'
<1>1. /\ stream \in Seq(Records) /\ view \in [Calls -> Seq(Records)]
      /\ pc \in [Calls -> Working \cup Settled \cup {"idle"}] /\ live \subseteq Calls
  BY DEF CallInv, TypeOK
<1>2. /\ view' = [view EXCEPT ![c] = stream]
      /\ live' \subseteq live \cup {c}
      /\ pc' = [pc EXCEPT ![c] = "decide"]
      /\ UNCHANGED <<stream, effects>> /\ stream # << >> /\ pc[c] = "load"
  BY DEF LoadEvents, GoTo, HistoryFacts, StreamPresent
<1>3. PrefixOf(stream, stream)
  BY <1>1, LenProperties DEF PrefixOf
<1>4. ViewsArePrefixes' /\ LiveIsStream' /\ StreamPresent'
  BY <1>1, <1>2, <1>3
     DEF HistoryFacts, ViewsArePrefixes, LiveIsStream, StreamPresent, PrefixOf
<1>5. EffectOwed' /\ InitialEffectOwed'
  BY <1>1, <1>2 DEF HistoryFacts, EffectOwed, InitialEffectOwed
<1>6. EffectsDistinct' /\ EffectsOfRecords' /\ Numbered(stream)' /\ Replays(stream)'
  BY <1>2 DEF HistoryFacts, EffectsDistinct, EffectsOfRecords, EffectMatches,
              Numbered, Replays
<1> QED
  BY <1>4, <1>5, <1>6 DEF HistoryFacts

LEMMA ClearsOnlyGrow ==
  ASSUME CallInv, [Next]_vars, clears' = 0
  PROVE  clears = 0 /\ ~ClearProcessState
<1>1. clears \in Nat
  BY RuntimeAssumption DEF CallInv, TypeOK
<1>2. ~ClearProcessState
  BY <1>1 DEF ClearProcessState
<1>3. clears' = clears
  BY <1>2 DEF Next, Step, HandleEvent, StreamExists, AppendStarted, RetryStart,
              RunInitialEffect, LoadEvents, ApplyNewEvent, AppendReceived,
              RetryReceived, RunEffect, EffectReturns, EffectThrows,
              EffectEnqueues, RequestFails, Crash, Quiescent, vars
<1> QED
  BY <1>2, <1>3

LEMMA HistoryStep == CallInv /\ HistoryInv /\ [Next]_vars => HistoryInv'
<1> SUFFICES ASSUME CallInv, HistoryInv, [Next]_vars, clears' = 0
             PROVE  HistoryFacts'
  BY DEF HistoryInv
<1>0. clears = 0 /\ ~ClearProcessState /\ HistoryFacts
  BY ClearsOnlyGrow DEF HistoryInv
<1>t. pc \in [Calls -> Working \cup Settled \cup {"idle"}]
  BY DEF CallInv, TypeOK
<1>1. ASSUME NEW c \in Calls, NEW e \in Events, HandleEvent(c, e)
      PROVE  HistoryFacts'
  BY <1>0, <1>t, <1>1, QuietStep DEF HandleEvent, Call, GoTo
<1>2. ASSUME NEW c \in Calls, StreamExists(c)
      PROVE  HistoryFacts'
  BY <1>0, <1>t, <1>2, QuietStep DEF StreamExists, streamExists, GoTo
<1>3. ASSUME NEW c \in Calls, AppendStarted(c)
      PROVE  HistoryFacts'
  BY <1>0, <1>3, StartedStep DEF AppendStarted
<1>4. ASSUME NEW c \in Calls, RetryStart(c) \/ RetryReceived(c)
      PROVE  HistoryFacts'
  BY <1>0, <1>t, <1>4, QuietStep DEF RetryStart, RetryReceived, GoTo
<1>5. ASSUME NEW c \in Calls, RunInitialEffect(c)
      PROVE  HistoryFacts'
  BY <1>0, <1>5, InitialEffectStep
<1>6. ASSUME NEW c \in Calls, LoadEvents(c)
      PROVE  HistoryFacts'
  BY <1>0, <1>6, LoadStep
<1>7. ASSUME NEW c \in Calls, ApplyNewEvent(c)
      PROVE  HistoryFacts'
  <2>1. live' \subseteq live /\ UNCHANGED <<stream, view, effects>>
    BY <1>7 DEF ApplyNewEvent
  <2>2. /\ pc[c] = "decide"
        /\ \E label \in {"failed", "append", "done"} : pc' = [pc EXCEPT ![c] = label]
    BY <1>7 DEF ApplyNewEvent, GoTo
  <2> QED
    BY <1>0, <1>t, <2>1, <2>2, QuietStep
<1>8. ASSUME NEW c \in Calls, AppendReceived(c)
      PROVE  HistoryFacts'
  BY <1>0, <1>8, ReceivedStep DEF AppendReceived
<1>9. ASSUME NEW c \in Calls, RunEffect(c)
      PROVE  HistoryFacts'
  BY <1>0, <1>9, EffectStep
<1>10. ASSUME NEW c \in Calls, EffectReturns(c) \/ EffectThrows(c)
       PROVE  HistoryFacts'
  <2>1. pc[c] = "initial" => stream # << >>
    BY <1>0 DEF HistoryFacts, StreamPresent
  <2> QED
    BY <1>0, <1>t, <1>10, <2>1, QuietStep DEF EffectReturns, EffectThrows, GoTo
<1>11. ASSUME NEW c \in Calls, NEW d \in Calls, NEW e \in Events,
              EffectEnqueues(c, d, e)
       PROVE  HistoryFacts'
  BY <1>0, <1>t, <1>11, QuietStep DEF EffectEnqueues, Call, GoTo
<1>12. ASSUME NEW c \in Calls, RequestFails(c)
       PROVE  HistoryFacts'
  <2>1. GoTo(c, "failed") /\ UNCHANGED <<live, effects>>
    BY <1>12 DEF RequestFails
  <2>2. CASE UNCHANGED <<stream, view>>
    BY <1>0, <1>t, <2>1, <2>2, QuietStep DEF GoTo
  <2>3. CASE pc[c] = "start" /\ ~Conflicts(stream, 0) /\ Push(0, StartedBy(c))
    BY <1>0, <2>1, <2>3, StartedStep
  <2>4. CASE /\ pc[c] = "append" /\ ~Conflicts(stream, Len(view[c]))
             /\ Push(Len(view[c]), ReceivedBy(c))
    BY <1>0, <2>1, <2>4, ReceivedStep
  <2> QED
    BY <1>12, <2>2, <2>3, <2>4 DEF RequestFails
<1>13. ASSUME NEW n \in Nodes, Crash(n)
       PROVE  HistoryFacts'
  BY <1>0, <1>t, <1>13, QuietStep DEF Crash
<1>14. CASE UNCHANGED vars
  BY <1>0, <1>14, QuietStep DEF vars
<1>15. ASSUME NEW c \in Calls, Step(c)
       PROVE  HistoryFacts'
  BY <1>2, <1>3, <1>4, <1>5, <1>6, <1>7, <1>8, <1>9, <1>10, <1>11, <1>15 DEF Step
<1> QED
  BY <1>0, <1>1, <1>12, <1>13, <1>14, <1>15 DEF Next, Quiescent

THEOREM InvariantsHold == Spec => [](CallInv /\ HistoryInv)
<1>1. CallInv /\ HistoryInv /\ [Next]_vars => (CallInv /\ HistoryInv)'
  BY CallInvStep, HistoryStep
<1> QED
  BY CallInvInit, HistoryInit, <1>1, PTL DEF Spec

----------------------------------------------------------------------------
(* The properties.                                                         *)

(* No lost or phantom update: an uncleared stream always replays, however  *)
(* the calls of handleEvent interleave, retry, fail or crash.              *)
THEOREM HistoryAlwaysReplays == Spec => []HistoryReplays
<1>1. HistoryInv => HistoryReplays
  BY DEF HistoryInv, HistoryFacts, HistoryReplays
<1> QED
  BY InvariantsHold, <1>1, PTL

(* The effects begun are those of distinct records, each begun by the      *)
(* writer of its record from the state that the records before it give.    *)
THEOREM EffectsAlwaysMatch == Spec => []EffectsMatchHistory
<1>1. HistoryInv => EffectsMatchHistory
  BY DEF HistoryInv, HistoryFacts, EffectsMatchHistory, EffectsDistinct,
         EffectsOfRecords, EffectMatches
<1> QED
  BY InvariantsHold, <1>1, PTL

(* Until it is cleared, the stream of a process that has succeeded or      *)
(* failed stays as it is (applyNewEvent, the Succeeded and Failed cases).  *)
FinishedForGood ==
  [][/\ streamExists(stream) /\ getProcessState(stream) \in Terminal
     /\ clears' = 0
     => stream' = stream]_vars

(* The stream of a finished process is never written again.                *)
THEOREM FinishedStays == Spec => FinishedForGood
<1>1. ASSUME CallInv, HistoryInv, [Next]_vars, clears' = 0,
             streamExists(stream), getProcessState(stream) \in Terminal
      PROVE  stream' = stream
  <2>1. HistoryFacts /\ ~ClearProcessState
    BY <1>1, ClearsOnlyGrow DEF HistoryInv
  <2>2. stream # << >> /\ stream \in Seq(Records) /\ Len(stream) \in Nat \ {0}
    BY <1>1, EmptySeq DEF streamExists, CallInv, TypeOK
  <2>3. applyHistory(stream) \in Terminal
    BY <1>1, <2>2 DEF getProcessState
  <2>4. ASSUME NEW c \in Calls, ~Conflicts(stream, 0)
        PROVE  FALSE
    BY <1>1, <2>1, <2>2, <2>4, StartsOnlyOnce
  <2>5. ASSUME NEW c \in Calls, pc[c] = "append", ~Conflicts(stream, Len(view[c]))
        PROVE  FALSE
    BY <1>1, <2>1, <2>3, <2>5, AppendsToWhatWasReplayed DEF Accepts, InProgress
  <2>6. ASSUME NEW c \in Calls, Step(c) \/ RequestFails(c)
        PROVE  stream' = stream
    BY <2>4, <2>5, <2>6
       DEF Step, StreamExists, AppendStarted, RetryStart, RunInitialEffect,
           LoadEvents, ApplyNewEvent, AppendReceived, RetryReceived, RunEffect,
           EffectReturns, EffectThrows, EffectEnqueues, RequestFails
  <2> QED
    BY <1>1, <2>1, <2>6 DEF Next, HandleEvent, Crash, Quiescent, vars
<1> QED
  BY InvariantsHold, <1>1, PTL DEF Spec, FinishedForGood

----------------------------------------------------------------------------
(* The fold in applyHistory.  What it computes is an induction over the    *)
(* history, made with the least counterexample: a set of numbers that is   *)
(* not empty has a least one.                                              *)

LEMMA LeastOf ==
  ASSUME NEW S \in SUBSET Nat, S # {}
  PROVE  \E m \in S : \A k \in S : m <= k
<1>1. PICK m \in S : \A k \in S : <<k, m>> \notin OpToRel(<, Nat)
  BY NatLessThanWellFounded, WFMin
<1>2. \A k \in S : ~(k < m)
  BY <1>1 DEF OpToRel
<1> QED
  BY <1>2

(* A set of numbers that has each number whose predecessors it has.        *)
LEMMA AllOfNat ==
  ASSUME NEW S \in SUBSET Nat,
         \A n \in Nat : (\A k \in Nat : k < n => k \in S) => n \in S
  PROVE  S = Nat
<1> SUFFICES ASSUME Nat \ S # {}  PROVE  FALSE
  OBVIOUS
<1>1. PICK m \in Nat \ S : \A k \in Nat \ S : m <= k
  BY LeastOf
<1>2. \A k \in Nat : k < m => k \in S
  BY <1>1
<1> QED
  BY <1>1, <1>2

(* A fold over the positions 1 .. n from s0 exists ...                     *)
IsFold(f, n, s0, step) ==
  f[1] = s0 /\ \A i \in 2 .. n : f[i] = step[<<f[i - 1], i>>]

LEMMA FoldExists ==
  ASSUME NEW n \in Nat \ {0}, NEW S, NEW s0 \in S, NEW step \in [S \X (1 .. n) -> S]
  PROVE  \E f \in [1 .. n -> S] : IsFold(f, n, s0, step)
<1> DEFINE Good(f, k) == f[1] = s0 /\ \A i \in 2 .. n : i <= k => f[i] = step[<<f[i - 1], i>>]
           P == {k \in Nat : \E f \in [1 .. n -> S] : Good(f, k)}
<1>1. ASSUME NEW k \in Nat, \A j \in Nat : j < k => j \in P
      PROVE  k \in P
  <2>1. CASE k < 2
    <3>1. [i \in 1 .. n |-> s0] \in [1 .. n -> S]
      OBVIOUS
    <3>2. Good([i \in 1 .. n |-> s0], k)
      BY <2>1
    <3> QED
      BY <3>1, <3>2
  <2>2. CASE k >= 2
    <3>0. k - 1 \in P
      <4> HIDE DEF P
      <4> QED
        BY <1>1, <2>2
    <3>1. PICK f \in [1 .. n -> S] : Good(f, k - 1)
      <4> HIDE DEF Good
      <4> QED
        BY <3>0
    <3>2. CASE k > n
      <4>1. Good(f, k)
        BY <2>2, <3>1, <3>2
      <4> QED
        BY <4>1
    <3>3. CASE k <= n
      <4> DEFINE g == [f EXCEPT ![k] = step[<<f[k - 1], k>>]]
      <4>1. k \in 1 .. n /\ k - 1 \in 1 .. n
        BY <2>2, <3>3
      <4>2. step[<<f[k - 1], k>>] \in S
        BY <4>1
      <4>3. g \in [1 .. n -> S] /\ g[k] = step[<<f[k - 1], k>>]
            /\ \A i \in 1 .. n : i # k => g[i] = f[i]
        BY <4>1, <4>2
      <4> HIDE DEF g
      <4>4. g[1] = s0
        BY <2>2, <3>1, <4>3
      <4>5. ASSUME NEW i \in 2 .. n, i <= k  PROVE  g[i] = step[<<g[i - 1], i>>]
        <5>1. i - 1 \in 1 .. n /\ i - 1 # k /\ i \in 1 .. n
          BY <4>5, <2>2
        <5>2. CASE i = k
          BY <4>3, <5>1, <5>2
        <5>3. CASE i # k
          <6>1. i <= k - 1
            BY <4>5, <5>3, <2>2
          <6> QED
            BY <3>1, <4>3, <5>1, <5>3, <6>1
        <5> QED
          BY <5>2, <5>3
      <4> QED
        BY <4>3, <4>4, <4>5
    <3> QED
      BY <2>2, <3>2, <3>3
  <2> QED
    BY <2>1, <2>2
<1> HIDE DEF P
<1>2. P = Nat
  <2>1. P \in SUBSET Nat
    BY DEF P
  <2> QED
    BY <1>1, <2>1, AllOfNat
<1>3. PICK f \in [1 .. n -> S] : Good(f, n)
  BY <1>2 DEF P
<1>4. IsFold(f, n, s0, step)
  BY <1>3 DEF IsFold
<1> QED
  BY <1>4

(* ... and two that go the same way for a while have the same values.      *)
GoAlike(f, g, n) ==
  f[1] = g[1] /\ \A i \in 2 .. n : f[i - 1] = g[i - 1] => f[i] = g[i]

LEMMA FoldUnique ==
  ASSUME NEW n \in Nat, NEW f, NEW g, GoAlike(f, g, n)
  PROVE  \A i \in 1 .. n : f[i] = g[i]
<1> DEFINE P == {k \in Nat : k \in 1 .. n => f[k] = g[k]}
<1>1. ASSUME NEW k \in Nat, \A j \in Nat : j < k => j \in P
      PROVE  k \in P
  <2>1. CASE k \in 2 .. n
    <3>1. k - 1 \in P /\ k - 1 \in 1 .. n
      BY <1>1, <2>1
    <3> QED
      BY <2>1, <3>1 DEF GoAlike
  <2>2. CASE k \notin 2 .. n
    <3>1. k \in 1 .. n => k = 1
      BY <2>2
    <3> QED
      BY <3>1 DEF GoAlike
  <2> QED
    BY <2>1, <2>2
<1> HIDE DEF P
<1>2. P = Nat
  <2>1. P \in SUBSET Nat
    BY DEF P
  <2> QED
    BY <1>1, <2>1, AllOfNat
<1> QED
  BY <1>2 DEF P

Outcomes == States \cup {Broken}

LEMMA AppliedType ==
  ASSUME NEW s \in Outcomes, NEW r \in Records
  PROVE  Applied(s, r) \in Outcomes
<1>1. CASE r.type = "EventReceived" /\ InProgress(s)
  <2>1. s \in States /\ r.event \in Events
    BY <1>1 DEF InProgress, Records
  <2>2. Move[<<s, r.event>>] \in States \cup {Ignored}
    BY <2>1, ProcessAssumption
  <2> QED
    BY <1>1, <2>1, <2>2 DEF Applied, Outcomes
<1>2. CASE ~(r.type = "EventReceived" /\ InProgress(s))
  BY <1>2 DEF Applied, Outcomes
<1> QED
  BY <1>1, <1>2

(* What applyHistory computes: `after`, one state for each record.         *)
ReplaySteps(f, h) ==
  /\ f[1] = Initial
  /\ \A i \in 2 .. Len(h) : f[i] = Applied(f[i - 1], h[i])

LEMMA ReplayIsFold ==
  ASSUME NEW h \in Seq(Records), h # << >>, h[1].type = "ProcessStarted"
  PROVE  \E f : ReplaySteps(f, h) /\ f[Len(h)] \in Outcomes /\ applyHistory(h) = f[Len(h)]
<1> DEFINE n == Len(h)
           Body(f) == [i \in 1 .. n |-> IF i = 1 THEN Initial ELSE Applied(f[i - 1], h[i])]
           step == [x \in Outcomes \X (1 .. n) |-> Applied(x[1], h[x[2]])]
<1>1. n \in Nat \ {0} /\ \A i \in 1 .. n : h[i] \in Records
  BY LenProperties, EmptySeq, ElementOfSeq
<1>2. step \in [Outcomes \X (1 .. n) -> Outcomes]
  BY <1>1, AppliedType
<1>3. Initial \in Outcomes
  BY ProcessAssumption DEF Outcomes
<1>4. ASSUME NEW s \in Outcomes, NEW i \in 1 .. n
      PROVE  step[<<s, i>>] = Applied(s, h[i])
  OBVIOUS
<1> HIDE DEF step
<1>5. PICK f \in [1 .. n -> Outcomes] : IsFold(f, n, Initial, step)
  <2> HIDE DEF n
  <2>1. n \in Nat \ {0}
    BY <1>1
  <2> QED
    BY <2>1, <1>2, <1>3, FoldExists
<1>6. \A i \in 2 .. n : f[i] = Applied(f[i - 1], h[i])
  <2> TAKE i \in 2 .. n
  <2>1. i \in 1 .. n /\ i - 1 \in 1 .. n
    BY <1>1
  <2>2. f[i - 1] \in Outcomes
    BY <1>5, <2>1
  <2> QED
    BY <1>4, <1>5, <2>1, <2>2 DEF IsFold
<1>7. f = Body(f)
  <2>1. \A i \in 1 .. n : f[i] = IF i = 1 THEN Initial ELSE Applied(f[i - 1], h[i])
    BY <1>1, <1>5, <1>6 DEF IsFold
  <2> QED
    BY <1>5, <2>1
<1> DEFINE g == CHOOSE a : a = Body(a)
<1> HIDE DEF n
<1>8. applyHistory(h) = g[n]
  BY DEF applyHistory, n
<1>9. g = Body(g)
  <2> HIDE DEF Body
  <2> QED
    BY <1>7
<1> HIDE DEF g
<1>10. g[1] = Initial /\ \A i \in 2 .. n : g[i] = Applied(g[i - 1], h[i])
  <2>1. \A i \in 1 .. n : g[i] = IF i = 1 THEN Initial ELSE Applied(g[i - 1], h[i])
    BY <1>9
  <2> QED
    BY <1>1, <2>1
<1>11. \A i \in 1 .. n : f[i] = g[i]
  <2>1. n \in Nat
    BY <1>1
  <2>2. GoAlike(f, g, n)
    BY <1>5, <1>6, <1>10 DEF GoAlike, IsFold
  <2> QED
    BY <2>1, <2>2, FoldUnique
<1>12. g[n] \in Outcomes
  BY <1>1, <1>5, <1>11
<1> QED
  BY <1>8, <1>10, <1>12 DEF ReplaySteps, n

(* A history of ProcessStarted alone leaves the process where it starts.   *)
LEMMA ReplayOfStart ==
  ASSUME NEW h \in Seq(Records), Len(h) = 1, h[1].type = "ProcessStarted"
  PROVE  applyHistory(h) = Initial
<1>1. h # << >>
  <2> SUFFICES ASSUME h = << >>  PROVE  FALSE
    OBVIOUS
  <2>1. Len(<< >>) = 0
    OBVIOUS
  <2> QED
    BY <2>1
<1>2. \E f : ReplaySteps(f, h) /\ f[Len(h)] \in Outcomes /\ applyHistory(h) = f[Len(h)]
  BY <1>1, ReplayIsFold
<1> QED
  BY <1>2 DEF ReplaySteps

(* One more record is one more step of the fold.                           *)
LEMMA ReplayOneMore ==
  ASSUME NEW h \in Seq(Records), h # << >>, h[1].type = "ProcessStarted",
         NEW r \in Records
  PROVE  applyHistory(Append(h, r)) = Applied(applyHistory(h), r)
<1> DEFINE n == Len(h)
           t == Append(h, r)
<1>1. /\ n \in Nat \ {0} /\ t \in Seq(Records) /\ t # << >> /\ Len(t) = n + 1
      /\ t[n + 1] = r /\ \A i \in 1 .. n : t[i] = h[i]
  BY EmptySeq
<1>2. PICK f : ReplaySteps(f, h) /\ applyHistory(h) = f[n]
  BY ReplayIsFold
<1>3. t[1].type = "ProcessStarted"
  BY <1>1
<1> HIDE DEF n, t
<1>4. PICK g : ReplaySteps(g, t) /\ applyHistory(t) = g[Len(t)]
  BY <1>1, <1>3, ReplayIsFold
<1>5. /\ n \in Nat /\ f[1] = g[1]
      /\ \A i \in 2 .. n : f[i] = Applied(f[i - 1], h[i])
      /\ \A i \in 2 .. n + 1 : g[i] = Applied(g[i - 1], t[i])
  BY <1>1, <1>2, <1>4 DEF ReplaySteps, n
<1>6. \A i \in 2 .. n : f[i - 1] = g[i - 1] => f[i] = g[i]
  <2> TAKE i \in 2 .. n
  <2>1. i \in 1 .. n /\ i \in 2 .. n + 1
    BY <1>1
  <2>2. t[i] = h[i]
    BY <1>1, <2>1
  <2> QED
    BY <1>5, <2>1, <2>2
<1>7. \A i \in 1 .. n : f[i] = g[i]
  <2>1. GoAlike(f, g, n) /\ n \in Nat
    BY <1>5, <1>6 DEF GoAlike
  <2> QED
    BY <2>1, FoldUnique
<1>8. n \in 1 .. n /\ n + 1 \in 2 .. n + 1 /\ (n + 1) - 1 = n
  BY <1>1
<1>9. g[n + 1] = Applied(g[n], r)
  BY <1>1, <1>5, <1>8
<1> QED
  BY <1>1, <1>2, <1>4, <1>7, <1>8, <1>9 DEF t

(* A history that replays brings the process to one of its states: the     *)
(* replay does not throw.                                                  *)
LEMMA ReplayingNeverBreaks ==
  ASSUME NEW h \in Seq(Records), h # << >>, Replays(h)
  PROVE  applyHistory(h) \in States
<1> DEFINE n == Len(h)
<1>1. n \in Nat \ {0} /\ h[1].type = "ProcessStarted"
  BY EmptySeq DEF Replays
<1>2. CASE n = 1
  BY <1>1, <1>2, ReplayOfStart, ProcessAssumption
<1>3. CASE n # 1
  <2> DEFINE p == Prefix(h, n - 1)
             s == applyHistory(p)
  <2>1. n \in 2 .. n /\ n \in 1 .. n /\ h[n] \in Records
    <3>1. n \in 2 .. n /\ n \in 1 .. n
      <4> HIDE DEF n
      <4>1. n \in Nat /\ n >= 2
        BY <1>1, <1>3
      <4> QED
        BY <4>1
    <3>2. h[n] \in Records
      BY <3>1, ElementOfSeq
    <3> QED
      BY <3>1, <3>2
  <2>2. h[n].type = "EventReceived" /\ Accepts(s, h[n].event)
    BY <2>1 DEF Replays
  <2>3. /\ p \in Seq(Records) /\ Len(p) = n - 1 /\ p # << >>
        /\ \A i \in 1 .. n - 1 : p[i] = h[i]
    <3>1. n - 1 \in 1 .. n /\ \A i \in 1 .. n - 1 : h[i] \in Records
      <4>1. n - 1 \in 1 .. n /\ \A i \in 1 .. n - 1 : i \in 1 .. n
        <5> HIDE DEF n
        <5>1. n \in Nat /\ n >= 2
          BY <1>1, <1>3
        <5> QED
          BY <5>1
      <4> QED
        BY <4>1, ElementOfSeq
    <3>2. p \in Seq(Records) /\ Len(p) = n - 1 /\ \A i \in 1 .. n - 1 : p[i] = h[i]
      BY <1>1, <3>1, SubSeqProperties DEF Prefix
    <3> QED
      BY <3>1, <3>2, EmptySeq
  <2>4. p[1].type = "ProcessStarted"
    BY <1>1, <1>3, <2>3
  <2>5. h = Append(p, h[n])
    <3> HIDE DEF p
    <3>1. /\ Append(p, h[n]) \in Seq(Records) /\ Len(Append(p, h[n])) = n
          /\ Append(p, h[n])[n] = h[n]
          /\ \A i \in 1 .. n - 1 : Append(p, h[n])[i] = p[i]
      BY <1>1, <2>1, <2>3
    <3>2. \A i \in 1 .. n : Append(p, h[n])[i] = h[i]
      BY <1>1, <2>3, <3>1
    <3> QED
      BY <1>1, <3>1, <3>2, SeqEqual
  <2> HIDE DEF p
  <2>6. applyHistory(h) = Applied(s, h[n])
    BY <2>1, <2>3, <2>4, <2>5, ReplayOneMore
  <2>7. h[n].event \in Events
    BY <2>1, <2>2 DEF Records
  <2>8. Move[<<s, h[n].event>>] \in States
    BY <2>2, <2>7, ProcessAssumption DEF Accepts, InProgress
  <2> QED
    BY <2>2, <2>6, <2>8 DEF Applied, Accepts
<1> QED
  BY <1>2, <1>3

LEMMA PrefixReplays ==
  ASSUME NEW s \in Seq(Records), Replays(s),
         NEW h \in Seq(Records), h # << >>, PrefixOf(h, s)
  PROVE  Replays(h)
<1>1. /\ Len(h) \in Nat \ {0} /\ Len(s) \in Nat /\ Len(h) <= Len(s) /\ s # << >>
      /\ \A i \in 1 .. Len(h) : h[i] = s[i]
  BY EmptySeq DEF PrefixOf
<1>2. h[1].type = "ProcessStarted"
  BY <1>1 DEF Replays
<1>3. ASSUME NEW i \in 2 .. Len(h)
      PROVE  /\ h[i].type = "EventReceived"
             /\ Accepts(applyHistory(Prefix(h, i - 1)), h[i].event)
  <2>1. i \in 2 .. Len(s) /\ h[i] = s[i] /\ i - 1 \in 1 .. Len(h)
    BY <1>1
  <2>2. Prefix(h, i - 1) = Prefix(s, i - 1)
    <3>1. \A j \in 1 .. i - 1 : h[j] \in Records /\ s[j] \in Records /\ h[j] = s[j]
      BY <1>1, <2>1, ElementOfSeq
    <3>2. /\ Prefix(h, i - 1) \in Seq(Records) /\ Len(Prefix(h, i - 1)) = i - 1
          /\ \A j \in 1 .. i - 1 : Prefix(h, i - 1)[j] = h[j]
      BY <2>1, <3>1, SubSeqProperties DEF Prefix
    <3>3. /\ Prefix(s, i - 1) \in Seq(Records) /\ Len(Prefix(s, i - 1)) = i - 1
          /\ \A j \in 1 .. i - 1 : Prefix(s, i - 1)[j] = s[j]
      BY <1>1, <2>1, <3>1, SubSeqProperties DEF Prefix
    <3> QED
      BY <3>1, <3>2, <3>3, SeqEqual
  <2> QED
    BY <1>1, <2>1, <2>2 DEF Replays
<1> QED
  BY <1>2, <1>3 DEF Replays

(* What each append does to the answer of getProcessState.                 *)
LEMMA StartMoves ==
  ASSUME CallInv, HistoryFacts, NEW c \in Calls,
         ~Conflicts(stream, 0), Push(0, StartedBy(c))
  PROVE  stream = << >> /\ getProcessState(stream') = Initial
<1>1. stream = << >> /\ StartedBy(c) \in Drafts
  BY StartsOnlyOnce DEF StartedBy, Drafts
<1>2. Len(stream) = 0 /\ stream \in Seq(Records) /\ Numbered(stream)
  BY <1>1, EmptySeq DEF CallInv, TypeOK, HistoryFacts
<1> DEFINE r == [StartedBy(c) EXCEPT !.version = 1]
<1>3. r \in Records /\ r.type = "ProcessStarted"
  BY <1>1, DraftType DEF StartedBy
<1>4. stream' = Append(stream, r)
  <2>1. stream' = Written(stream, Len(stream), StartedBy(c))
    BY <1>2 DEF Push
  <2>2. Written(stream, Len(stream), StartedBy(c))
          = Append(stream, [StartedBy(c) EXCEPT !.version = Len(stream) + 1])
    BY <1>1, <1>2, WrittenAppends
  <2> QED
    BY <1>2, <2>1, <2>2
<1> HIDE DEF r
<1>5. /\ stream' \in Seq(Records) /\ Len(stream') = 1 /\ stream' # << >>
      /\ stream'[1].type = "ProcessStarted"
  <2>1. /\ Append(stream, r) \in Seq(Records) /\ Len(Append(stream, r)) = 1
        /\ Append(stream, r)[1] = r
    BY <1>2, <1>3
  <2> QED
    BY <1>3, <1>4, <2>1, EmptySeq
<1>6. applyHistory(stream') = Initial
  BY <1>5, ReplayOfStart
<1> QED
  BY <1>1, <1>5, <1>6 DEF getProcessState

LEMMA EventMoves ==
  ASSUME CallInv, HistoryFacts, NEW c \in Calls, pc[c] = "append",
         ~Conflicts(stream, Len(view[c])), Push(Len(view[c]), ReceivedBy(c))
  PROVE  /\ InProgress(getProcessState(stream))
         /\ Move[<<getProcessState(stream), event[c]>>] # Ignored
         /\ getProcessState(stream') = Move[<<getProcessState(stream), event[c]>>]
<1> DEFINE state == applyHistory(stream)
           r == [ReceivedBy(c) EXCEPT !.version = Len(stream) + 1]
<1>1. /\ view[c] = stream /\ stream # << >> /\ Accepts(state, event[c])
      /\ stream \in Seq(Records) /\ Numbered(stream)
  BY AppendsToWhatWasReplayed DEF CallInv, TypeOK, HistoryFacts
<1>2. ReceivedBy(c) \in Drafts
  <2>1. event[c] \in Events
    BY DEF CallInv, EventsGiven
  <2> QED
    BY <2>1 DEF ReceivedBy, Drafts
<1>3. r \in Records /\ r.type = "EventReceived" /\ r.event = event[c]
  <2>1. Len(stream) + 1 \in Nat \ {0}
    BY <1>1, LenProperties
  <2> QED
    BY <1>2, <2>1, DraftType DEF ReceivedBy
<1>4. stream' = Append(stream, r)
  BY <1>1, <1>2, WrittenAppends DEF Push
<1>5. stream[1].type = "ProcessStarted" /\ stream' # << >>
  <2> HIDE DEF r
  <2> QED
    BY <1>1, <1>3, <1>4, EmptySeq DEF HistoryFacts, Replays
<1>6. applyHistory(stream') = Applied(state, r)
  <2> HIDE DEF r
  <2> QED
    BY <1>1, <1>3, <1>4, <1>5, ReplayOneMore
<1>7. Applied(state, r) = Move[<<state, event[c]>>]
  BY <1>1, <1>3 DEF Applied, Accepts
<1> QED
  BY <1>1, <1>5, <1>6, <1>7 DEF getProcessState, Accepts

(* Until it is cleared, the answer of getProcessState moves by one awaited *)
(* event at a time, each brought by the one call that records it.          *)
THEOREM OneEventAtATime == Spec => MovesAsTheProcess
<1> DEFINE Moved(c) ==
             LET state == getProcessState(stream)
             IN  /\ pc[c] = "append" /\ pc'[c] # "append"
                 /\ InProgress(state) /\ Move[<<state, event[c]>>] # Ignored
                 /\ getProcessState(stream') = Move[<<state, event[c]>>]
           Started == stream = << >> /\ getProcessState(stream') = Initial
<1>1. ASSUME CallInv, HistoryInv, [Next]_vars, clears' = 0
      PROVE  stream' = stream \/ Started \/ \E c \in Calls : Moved(c)
  <2>1. HistoryFacts /\ ~ClearProcessState
    BY <1>1, ClearsOnlyGrow DEF HistoryInv
  <2>2. pc \in [Calls -> Working \cup Settled \cup {"idle"}]
    BY <1>1 DEF CallInv, TypeOK
  <2>3. ASSUME NEW c \in Calls, AppendStarted(c)  PROVE  Started
    BY <1>1, <2>1, <2>3, StartMoves DEF AppendStarted
  <2>4. ASSUME NEW c \in Calls, AppendReceived(c)  PROVE  Moved(c)
    <3>1. pc[c] = "append" /\ pc'[c] # "append"
      BY <2>2, <2>4 DEF AppendReceived, GoTo
    <3>2. ~Conflicts(stream, Len(view[c])) /\ Push(Len(view[c]), ReceivedBy(c))
      BY <2>4 DEF AppendReceived
    <3> QED
      BY <1>1, <2>1, <3>1, <3>2, EventMoves
  <2>5. ASSUME NEW c \in Calls, RequestFails(c)
        PROVE  stream' = stream \/ Started \/ Moved(c)
    <3>1. CASE stream' = stream
      BY <3>1
    <3>2. CASE ~Conflicts(stream, 0) /\ Push(0, StartedBy(c))
      BY <1>1, <2>1, <3>2, StartMoves
    <3>3. CASE /\ pc[c] = "append" /\ ~Conflicts(stream, Len(view[c]))
               /\ Push(Len(view[c]), ReceivedBy(c))
      <4>1. pc'[c] # "append"
        BY <2>2, <2>5 DEF RequestFails, GoTo
      <4> QED
        BY <1>1, <2>1, <3>3, <4>1, EventMoves
    <3> QED
      BY <2>5, <3>1, <3>2, <3>3 DEF RequestFails
  <2>6. ASSUME NEW c \in Calls, Step(c), ~AppendStarted(c), ~AppendReceived(c)
        PROVE  stream' = stream
    BY <2>6 DEF Step, StreamExists, RetryStart, RunInitialEffect, LoadEvents,
                ApplyNewEvent, RetryReceived, RunEffect, EffectReturns,
                EffectThrows, EffectEnqueues
  <2>7. CASE \E c \in Calls : Step(c) \/ RequestFails(c)
    BY <2>3, <2>4, <2>5, <2>6, <2>7
  <2>8. CASE ~ \E c \in Calls : Step(c) \/ RequestFails(c)
    <3>1. stream' = stream
      BY <1>1, <2>1, <2>8 DEF Next, HandleEvent, Crash, Quiescent, vars
    <3> QED
      BY <3>1
  <2> QED
    BY <2>7, <2>8
<1>2. CallInv /\ HistoryInv /\ [Next]_vars =>
        (clears' = 0 => stream' = stream \/ Started \/ \E c \in Calls : Moved(c))
  BY <1>1
<1> QED
  BY InvariantsHold, <1>2, PTL DEF Spec, MovesAsTheProcess

(* The replay of a stream that is never cleared does not throw, neither in *)
(* getProcessState nor in a call of handleEvent that has loaded a history: *)
(* "Invalid history" and "Unexpected event type" stay unreachable.         *)
NeverThrows ==
  clears = 0 =>
    /\ getProcessState(stream) \in States
    /\ \A c \in Calls : pc[c] \in {"decide", "append", "recorded"} =>
                         applyHistory(view[c]) \in States

THEOREM ReplayNeverThrows == Spec => []NeverThrows
<1>1. ASSUME CallInv, HistoryInv, clears = 0  PROVE  getProcessState(stream) \in States
  <2>1. stream \in Seq(Records) /\ Replays(stream)
    BY <1>1 DEF CallInv, TypeOK, HistoryInv, HistoryFacts
  <2> QED
    BY <2>1, ReplayingNeverBreaks, ProcessAssumption DEF getProcessState
<1>2. ASSUME CallInv, HistoryInv, clears = 0, NEW c \in Calls,
             pc[c] \in {"decide", "append", "recorded"}
      PROVE  applyHistory(view[c]) \in States
  <2>1. /\ stream \in Seq(Records) /\ Replays(stream) /\ view[c] \in Seq(Records)
        /\ view[c] # << >> /\ PrefixOf(view[c], stream)
    BY <1>2 DEF CallInv, TypeOK, HistoryInv, HistoryFacts, ViewsArePrefixes
  <2>2. Replays(view[c])
    BY <2>1, PrefixReplays
  <2> QED
    BY <2>1, <2>2, ReplayingNeverBreaks
<1>3. CallInv /\ HistoryInv => NeverThrows
  BY <1>1, <1>2 DEF NeverThrows
<1> QED
  BY InvariantsHold, <1>3, PTL

----------------------------------------------------------------------------
(* The initial effect, when the stream may be cleared at any moment.  A    *)
(* life of the stream gives out version 1 once; whoever wrote it may begin *)
(* the initial effect, once.                                               *)

LEMMA InsertAtElements ==
  ASSUME NEW s \in Seq(Records), NEW e \in Records, NEW p \in 1 .. Len(s) + 1
  PROVE  /\ InsertAt(s, p, e)[p] = e
         /\ \A i \in DOMAIN s : \E j \in 1 .. Len(s) + 1 : InsertAt(s, p, e)[j] = s[i]
<1>0. Len(s) \in Nat /\ DOMAIN s = 1 .. Len(s)
  BY LenProperties
<1> DEFINE front == SubSeq(s, 1, p - 1)
           back  == SubSeq(s, p, Len(s))
<1>1. /\ front \in Seq(Records) /\ Len(front) = p - 1
      /\ \A i \in 1 .. p - 1 : front[i] = s[i]
  BY <1>0, SubSeqProperties, ElementOfSeq
<1>2. /\ back \in Seq(Records) /\ Len(back) = Len(s) - p + 1
      /\ \A i \in 1 .. Len(s) - p + 1 : back[i] = s[p + i - 1]
  BY <1>0, SubSeqProperties, ElementOfSeq
<1>3. InsertAt(s, p, e) = (front \o <<e>>) \o back
  BY DEF InsertAt
<1> HIDE DEF front, back
<1> DEFINE upto == front \o <<e>>
<1>4. <<e>> \in Seq(Records) /\ Len(<<e>>) = 1 /\ <<e>>[1] = e
  OBVIOUS
<1>5. /\ upto \in Seq(Records) /\ Len(upto) = p /\ upto[p] = e
      /\ \A i \in 1 .. p - 1 : upto[i] = s[i]
  <2>1. p \in Nat /\ p - 1 \in Nat
    BY <1>0
  <2>2. upto \in Seq(Records) /\ Len(upto) = p
    BY <1>1, <1>4, <2>1, ConcatProperties
  <2>3. upto[p] = e
    <3>1. p \in Len(front) + 1 .. Len(front) + Len(<<e>>) /\ p - Len(front) = 1
      BY <1>1, <1>4, <2>1
    <3>2. upto[p] = <<e>>[p - Len(front)]
      BY <1>1, <1>4, <3>1, ConcatProperties
    <3> QED
      BY <1>4, <3>1, <3>2
  <2>4. ASSUME NEW i \in 1 .. p - 1  PROVE  upto[i] = s[i]
    <3>1. upto[i] = front[i]
      BY <1>1, <1>4, ConcatProperties
    <3> QED
      BY <1>1, <3>1
  <2> QED
    BY <2>2, <2>3, <2>4
<1> HIDE DEF upto
<1>6. /\ \A i \in 1 .. p : (upto \o back)[i] = upto[i]
      /\ \A i \in p + 1 .. Len(s) + 1 : (upto \o back)[i] = back[i - p]
  BY <1>0, <1>2, <1>5, ConcatProperties
<1>7. InsertAt(s, p, e) = upto \o back
  BY <1>3 DEF upto
<1>8. ASSUME NEW i \in DOMAIN s
      PROVE  \E j \in 1 .. Len(s) + 1 : InsertAt(s, p, e)[j] = s[i]
  <2>1. CASE i < p
    <3>1. i \in 1 .. Len(s) + 1 /\ InsertAt(s, p, e)[i] = s[i]
      BY <1>0, <1>5, <1>6, <1>7, <2>1
    <3> QED
      BY <3>1
  <2>2. CASE i >= p
    <3>1. i + 1 \in p + 1 .. Len(s) + 1
      BY <1>0, <2>2
    <3>2. (i + 1) - p \in 1 .. Len(s) - p + 1 /\ p + ((i + 1) - p) - 1 = i
      BY <1>0, <2>2
    <3>3. InsertAt(s, p, e)[i + 1] = s[i]
      BY <1>2, <1>6, <1>7, <3>1, <3>2
    <3>4. i + 1 \in 1 .. Len(s) + 1
      BY <3>1
    <3> QED
      BY <3>3, <3>4
  <2> QED
    BY <1>0, <2>1, <2>2
<1>9. InsertAt(s, p, e)[p] = e
  <2>1. p \in 1 .. p
    BY <1>0
  <2> QED
    BY <1>5, <1>6, <1>7, <2>1
<1> QED
  BY <1>8, <1>9

(* Version 1 is taken: the stream has started and was not cleared since.   *)
Begun(s) == \E i \in DOMAIN s : s[i].version = 1

Running == {c \in Calls : pc[c] = "started"}
InitialEffects == {i \in DOMAIN effects : effects[i].type = "ProcessStarted"}

LifeInv ==
  /\ Backend = "in-memory" => Numbered(stream)
  /\ IsFiniteSet(Running) /\ IsFiniteSet(InitialEffects)
  /\ Cardinality(InitialEffects) + Cardinality(Running)
       <= clears + IF Begun(stream) THEN 1 ELSE 0

LEMMA WrittenBegins ==
  ASSUME NEW s \in Seq(Records), NEW n \in Nat, NEW r \in Drafts,
         Backend = "in-memory" => Numbered(s)
  PROVE  /\ Backend = "in-memory" => Numbered(Written(s, n, r))
         /\ Begun(s) => Begun(Written(s, n, r))
         /\ ~Conflicts(s, 0) => ~Begun(s) /\ Begun(Written(s, 0, r))
<1>0. Len(s) \in Nat /\ DOMAIN s = 1 .. Len(s)
  BY LenProperties
<1>1. Backend = "in-memory" => Numbered(Written(s, n, r))
  <2> SUFFICES ASSUME Backend = "in-memory"
               PROVE  Numbered(Written(s, n, r))
    OBVIOUS
  <2> DEFINE e == [r EXCEPT !.version = Len(s) + 1]
  <2>1. Written(s, n, r) = Written(s, Len(s), r)
    BY DEF Written, VersionInMemory
  <2>2. Written(s, n, r) = Append(s, e)
    BY <2>1, WrittenAppends
  <2>3. Len(s) + 1 \in Nat \ {0}
    BY <1>0
  <2>4. e \in Records
    BY <2>3, DraftType
  <2>5. e.version = Len(s) + 1
    BY DEF Drafts, StartedBy
  <2> HIDE DEF e
  <2> QED
    BY <1>0, <2>2, <2>4, <2>5 DEF Numbered
<1>2. ASSUME NEW m \in Nat
      PROVE  /\ Begun(s) => Begun(Written(s, m, r))
             /\ (Backend # "in-memory" \/ Len(s) = 0) /\ m = 0 => Begun(Written(s, m, r))
  <2> DEFINE v == IF Backend = "in-memory" THEN Len(s) + 1 ELSE m + 1
             p == Cardinality({i \in DOMAIN s : s[i].version < v}) + 1
             e == [r EXCEPT !.version = v]
  <2>1. v \in Nat \ {0}
    BY <1>0
  <2>2. e \in Records
    BY <2>1, DraftType
  <2>3. e.version = v
    BY DEF Drafts, StartedBy
  <2>4. p \in 1 .. Len(s) + 1
    BY PlaceInRange
  <2>5. Written(s, m, r) = InsertAt(s, p, e)
    BY DEF Written, VersionInMemory, VersionMssql
  <2>6. Written(s, m, r) \in Seq(Records) /\ Len(Written(s, m, r)) = Len(s) + 1
    BY WrittenType
  <2>7. DOMAIN Written(s, m, r) = 1 .. Len(s) + 1
    BY <2>6, LenProperties
  <2> HIDE DEF p, e
  <2>8. /\ Written(s, m, r)[p] = e
        /\ \A i \in DOMAIN s : \E j \in 1 .. Len(s) + 1 : Written(s, m, r)[j] = s[i]
    <3>1. /\ InsertAt(s, p, e)[p] = e
          /\ \A i \in DOMAIN s : \E j \in 1 .. Len(s) + 1 : InsertAt(s, p, e)[j] = s[i]
      <4>1. \A x \in Records : \A q \in 1 .. Len(s) + 1 :
              /\ InsertAt(s, q, x)[q] = x
              /\ \A i \in DOMAIN s : \E j \in 1 .. Len(s) + 1 : InsertAt(s, q, x)[j] = s[i]
        BY InsertAtElements
      <4> QED
        BY <2>2, <2>4, <4>1
    <3> QED
      BY <2>5, <3>1
  <2>9. Begun(s) => Begun(Written(s, m, r))
    BY <2>7, <2>8 DEF Begun
  <2>10. (Backend # "in-memory" \/ Len(s) = 0) /\ m = 0 => v = 1
    OBVIOUS
  <2> QED
    BY <2>3, <2>4, <2>7, <2>8, <2>9, <2>10 DEF Begun
<1>3. ASSUME ~Conflicts(s, 0)
      PROVE  ~Begun(s) /\ (Backend # "in-memory" \/ Len(s) = 0)
  BY <1>0, <1>3, EmptySeq
     DEF Conflicts, ConflictsInMemory, ConflictsMssql, Begun, streamExists
<1> QED
  BY <1>1, <1>2, <1>3

LEMMA LifeInit == Init => LifeInv
<1> SUFFICES ASSUME Init
             PROVE  LifeInv
  OBVIOUS
<1>1. Running = {} /\ InitialEffects = {}
  BY DEF Init, Running, InitialEffects
<1> QED
  BY <1>1, FS_EmptySet, EmptySeq DEF Init, LifeInv, Numbered

(* A step that begins no initial effect, lets no call through to one and   *)
(* leaves version 1 where it is.                                           *)
LEMMA LifeGoesOn ==
  ASSUME CallInv, LifeInv, UNCHANGED clears,
         InitialEffects' = InitialEffects, Running' \in SUBSET Running,
         Begun(stream) => Begun(stream)',
         Backend = "in-memory" => Numbered(stream)'
  PROVE  LifeInv'
<1>1. /\ IsFiniteSet(Running') /\ Cardinality(Running') <= Cardinality(Running)
  BY FS_Subset DEF LifeInv
<1>2. /\ Cardinality(Running) \in Nat /\ Cardinality(Running') \in Nat
      /\ Cardinality(InitialEffects) \in Nat /\ clears \in Nat
  BY <1>1, FS_CardinalityType, RuntimeAssumption DEF LifeInv, CallInv, TypeOK
<1> QED
  BY <1>1, <1>2 DEF LifeInv

LEMMA LifeStep == CallInv /\ LifeInv /\ [Next]_vars => LifeInv'
<1> SUFFICES ASSUME CallInv, LifeInv, [Next]_vars
             PROVE  LifeInv'
  OBVIOUS
<1>t. /\ stream \in Seq(Records) /\ effects \in Seq(EffectRuns)
      /\ pc \in [Calls -> Working \cup Settled \cup {"idle"}]
  BY DEF CallInv, TypeOK
<1>n. /\ Cardinality(Running) \in Nat /\ Cardinality(InitialEffects) \in Nat
      /\ clears \in Nat
  BY FS_CardinalityType, RuntimeAssumption DEF LifeInv, CallInv, TypeOK
<1>1. ASSUME UNCHANGED <<stream, effects, clears>>,
             \A c \in Calls : pc'[c] = "started" => pc[c] = "started"
      PROVE  LifeInv'
  <2>1. InitialEffects' = InitialEffects /\ Running' \in SUBSET Running
    BY <1>1 DEF InitialEffects, Running
  <2>2. Begun(stream)' = Begun(stream) /\ Numbered(stream)' = Numbered(stream)
    BY <1>1 DEF Begun, Numbered
  <2> QED
    BY <1>1, <2>1, <2>2, LifeGoesOn DEF LifeInv
<1>2. ASSUME NEW c \in Calls, NEW n \in Nat, NEW r \in Drafts, Push(n, r),
             UNCHANGED <<effects, clears>>,
             \A d \in Calls : pc'[d] = "started" => pc[d] = "started"
      PROVE  LifeInv'
  <2>1. InitialEffects' = InitialEffects /\ Running' \in SUBSET Running
    BY <1>2 DEF InitialEffects, Running
  <2>2. stream' = Written(stream, n, r)
    BY <1>2 DEF Push
  <2>3. /\ Begun(stream) => Begun(stream)'
        /\ Backend = "in-memory" => Numbered(stream)'
    BY <1>t, <1>2, <2>2, WrittenBegins DEF LifeInv
  <2> QED
    BY <1>2, <2>1, <2>3, LifeGoesOn
<1>3. ASSUME NEW c \in Calls, AppendStarted(c)
      PROVE  LifeInv'
  <2>1. /\ stream' = Written(stream, 0, StartedBy(c)) /\ ~Conflicts(stream, 0)
        /\ UNCHANGED <<effects, clears>> /\ pc[c] = "start"
        /\ pc' = [pc EXCEPT ![c] = "started"]
    BY <1>3 DEF AppendStarted, Push, GoTo
  <2>2. StartedBy(c) \in Drafts
    BY DEF Drafts
  <2>3. /\ ~Begun(stream) /\ Begun(stream)'
        /\ Backend = "in-memory" => Numbered(stream)'
    BY <1>t, <2>1, <2>2, WrittenBegins DEF LifeInv
  <2>4. Running' = Running \cup {c}
    BY <1>t, <2>1 DEF Running
  <2>5. IsFiniteSet(Running') /\ Cardinality(Running') <= Cardinality(Running) + 1
        /\ Cardinality(Running') \in Nat
    BY <1>n, <2>4, FS_AddElement, SMTT(30) DEF LifeInv
  <2>6. InitialEffects' = InitialEffects
    BY <2>1 DEF InitialEffects
  <2> QED
    BY <1>n, <2>1, <2>3, <2>5, <2>6 DEF LifeInv
<1>4. ASSUME NEW c \in Calls, RunInitialEffect(c)
      PROVE  LifeInv'
  <2> DEFINE f == [type |-> "ProcessStarted", version |-> 1, by |-> c, from |-> Initial]
  <2>1. /\ pc[c] = "started" /\ pc' = [pc EXCEPT ![c] = "initial"]
        /\ effects' = Append(effects, f) /\ UNCHANGED <<stream, clears>>
    BY <1>4 DEF RunInitialEffect, GoTo
  <2>2. f \in EffectRuns /\ f.type = "ProcessStarted"
    BY ProcessAssumption DEF EffectRuns
  <2> HIDE DEF f
  <2>3. Running' = Running \ {c} /\ c \in Running
    BY <1>t, <2>1 DEF Running
  <2>4. IsFiniteSet(Running') /\ Cardinality(Running') = Cardinality(Running) - 1
    BY <2>3, FS_RemoveElement DEF LifeInv
  <2>5. InitialEffects' = InitialEffects \cup {Len(effects) + 1}
    BY <1>t, <2>1, <2>2, LenProperties DEF InitialEffects
  <2>6. /\ IsFiniteSet(InitialEffects')
        /\ Cardinality(InitialEffects') <= Cardinality(InitialEffects) + 1
        /\ Cardinality(InitialEffects') \in Nat
    <3> DEFINE last == Len(effects) + 1
    <3>1. InitialEffects' = InitialEffects \cup {last} /\ IsFiniteSet(InitialEffects)
      BY <2>5 DEF LifeInv
    <3> HIDE DEF last
    <3>2. /\ IsFiniteSet(InitialEffects \cup {last})
          /\ Cardinality(InitialEffects \cup {last})
               = IF last \in InitialEffects THEN Cardinality(InitialEffects)
                                            ELSE Cardinality(InitialEffects) + 1
      BY <3>1, FS_AddElement
    <3> QED
      BY <1>n, <3>1, <3>2
  <2>7. Begun(stream)' = Begun(stream) /\ Numbered(stream)' = Numbered(stream)
    BY <2>1 DEF Begun, Numbered
  <2> QED
    BY <1>n, <2>1, <2>4, <2>6, <2>7 DEF LifeInv
<1>5. ASSUME NEW c \in Calls, RunEffect(c)
      PROVE  LifeInv'
  <2> DEFINE f == [type |-> "EventReceived", version |-> Len(view[c]) + 1, by |-> c,
                   from |-> applyHistory(view[c])]
  <2>1. /\ pc[c] = "recorded" /\ pc' = [pc EXCEPT ![c] = "effect"]
        /\ effects' = Append(effects, f) /\ UNCHANGED <<stream, clears>>
    BY <1>5 DEF RunEffect, GoTo
  <2>2. f.type = "EventReceived"
    OBVIOUS
  <2> HIDE DEF f
  <2>3. InitialEffects' = InitialEffects
    BY <1>t, <2>1, <2>2, LenProperties DEF InitialEffects
  <2>4. Running' = Running
    BY <1>t, <2>1 DEF Running
  <2>5. Begun(stream)' = Begun(stream) /\ Numbered(stream)' = Numbered(stream)
    BY <2>1 DEF Begun, Numbered
  <2> QED
    BY <2>1, <2>3, <2>4, <2>5 DEF LifeInv
<1>6. ASSUME NEW c \in Calls, AppendReceived(c)
      PROVE  LifeInv'
  <2>1. ReceivedBy(c) \in Drafts /\ Len(view[c]) \in Nat
    <3>1. event[c] \in Events
      BY <1>6 DEF AppendReceived, CallInv, EventsGiven
    <3> QED
      BY <3>1, LenProperties DEF Drafts, ReceivedBy, CallInv, TypeOK
  <2>2. \A d \in Calls : pc'[d] = "started" => pc[d] = "started"
    BY <1>t, <1>6 DEF AppendReceived, GoTo
  <2> QED
    BY <1>2, <1>6, <2>1, <2>2 DEF AppendReceived
<1>7. ASSUME NEW c \in Calls, RequestFails(c)
      PROVE  LifeInv'
  <2>1. GoTo(c, "failed") /\ UNCHANGED <<effects, clears>>
    BY <1>7 DEF RequestFails
  <2>2. \A d \in Calls : pc'[d] = "started" => pc[d] = "started"
    BY <1>t, <2>1 DEF GoTo
  <2>3. CASE UNCHANGED <<stream, view>>
    BY <1>1, <2>1, <2>2, <2>3
  <2>4. CASE Push(0, StartedBy(c))
    <3>1. StartedBy(c) \in Drafts
      BY DEF Drafts
    <3> QED
      BY <1>2, <2>1, <2>2, <2>4, <3>1
  <2>5. CASE pc[c] = "append" /\ Push(Len(view[c]), ReceivedBy(c))
    <3>1. event[c] \in Events
      BY <2>5 DEF CallInv, EventsGiven
    <3>2. ReceivedBy(c) \in Drafts /\ Len(view[c]) \in Nat
      BY <3>1, LenProperties DEF Drafts, ReceivedBy, CallInv, TypeOK
    <3> QED
      BY <1>2, <2>1, <2>2, <2>5, <3>2
  <2> QED
    BY <1>7, <2>3, <2>4, <2>5 DEF RequestFails
<1>8. CASE ClearProcessState
  <2>1. /\ stream' = << >> /\ clears' = clears + 1 /\ UNCHANGED <<effects, pc>>
    BY <1>8 DEF ClearProcessState
  <2>2. Running' = Running /\ InitialEffects' = InitialEffects
    BY <2>1 DEF Running, InitialEffects
  <2>3. ~Begun(stream)' /\ Numbered(stream)'
    BY <2>1 DEF Begun, Numbered
  <2> QED
    BY <1>n, <2>1, <2>2, <2>3 DEF LifeInv
<1>9. ASSUME NEW c \in Calls,
             \/ \E e \in Events : HandleEvent(c, e)
             \/ StreamExists(c) \/ RetryStart(c) \/ LoadEvents(c) \/ ApplyNewEvent(c)
             \/ RetryReceived(c) \/ EffectReturns(c) \/ EffectThrows(c)
             \/ \E d \in Calls, e \in Events : EffectEnqueues(c, d, e)
      PROVE  LifeInv'
  <2>1. /\ UNCHANGED <<stream, effects, clears>>
        /\ \E d \in Calls : \E label : label # "started" /\ pc' = [pc EXCEPT ![d] = label]
    BY <1>9 DEF HandleEvent, StreamExists, RetryStart, LoadEvents, ApplyNewEvent,
                RetryReceived, EffectReturns, EffectThrows, EffectEnqueues, Call, GoTo
  <2> QED
    BY <1>t, <1>1, <2>1
<1>10. ASSUME NEW n \in Nodes, Crash(n)
       PROVE  LifeInv'
  BY <1>1, <1>10 DEF Crash
<1>11. CASE UNCHANGED vars
  BY <1>1, <1>11 DEF vars
<1>12. ASSUME NEW c \in Calls, Step(c)
       PROVE  LifeInv'
  BY <1>3, <1>4, <1>5, <1>6, <1>9, <1>12 DEF Step
<1> QED
  BY <1>7, <1>8, <1>9, <1>10, <1>11, <1>12 DEF Next, Quiescent

(* However calls of handleEvent race with each other and with              *)
(* clearProcessState, the initial effect begins at most once for each life *)
(* of the stream.                                                          *)
THEOREM InitialEffectOnce == Spec => []InitialEffectOncePerLife
<1>1. CallInv /\ LifeInv => InitialEffectOncePerLife
  <2> SUFFICES ASSUME CallInv, LifeInv
               PROVE  Cardinality(InitialEffects) <= clears + 1
    BY DEF InitialEffectOncePerLife, InitialEffects
  <2>1. /\ Cardinality(Running) \in Nat /\ Cardinality(InitialEffects) \in Nat
        /\ clears \in Nat
    BY FS_CardinalityType, RuntimeAssumption DEF LifeInv, CallInv, TypeOK
  <2> QED
    BY <2>1 DEF LifeInv
<1> QED
  BY CallInvInit, CallInvStep, LifeInit, LifeStep, <1>1, PTL DEF Spec
============================================================================
