------------------------ MODULE RequestLoggingProofs ------------------------
(***************************************************************************)
(* Proofs about RequestLogging and the queue behind it: what a client is   *)
(* told, what is logged, and what becomes of the logs, for any number of   *)
(* requests, errors and logs, any batch limit, with either plugin.         *)
(***************************************************************************)
EXTENDS RequestLogging, FiniteSetTheorems, SequenceTheorems, TLAPS

----------------------------------------------------------------------------
(* The queue.                                                              *)

InOrder(s) == \A i, j \in DOMAIN s : i < j => s[i] < s[j]
Before(s, t) == \A x \in Range(s), y \in Range(t) : x < y
Disjoint(s, t) == Range(s) \cap Range(t) = {}

QueueTypeOK ==
  /\ enqueued \in Nat
  /\ queue \in Seq(Nat) /\ table \in Seq(Nat)
  /\ batch \in [{"loop", "close"} -> Seq(Nat)]
  /\ loop \in {"waiting", "inserting", "stopped", "ended"}
  /\ closer \in {"open", "inserting", "closed"}

(* A flush has a batch only while it inserts it, or if the thread ended    *)
(* then; close comes once, ends the loop's waiting, and stays until the    *)
(* queue is empty.                                                         *)
FlushesInv ==
  /\ loop \notin {"inserting", "ended"} => batch["loop"] = << >>
  /\ closer # "inserting" => batch["close"] = << >>
  /\ closer # "open" => loop # "waiting"
  /\ closer = "closed" => queue = << >>
  /\ Len(batch["loop"]) <= batchLimit

(* Each log has one place.                                                 *)
PlacesInv ==
  /\ InOrder(queue) /\ InOrder(batch["loop"]) /\ InOrder(batch["close"])
  /\ IsInjective(table)
  /\ Disjoint(queue, batch["loop"]) /\ Disjoint(queue, batch["close"])
  /\ Disjoint(queue, table) /\ Disjoint(batch["loop"], batch["close"])
  /\ Disjoint(batch["loop"], table) /\ Disjoint(batch["close"], table)
  /\ (Range(queue) \cup Range(batch["loop"]) \cup Range(batch["close"]) \cup Range(table))
       \cap dropped = {}
  /\ Range(queue) \cup Range(batch["loop"]) \cup Range(batch["close"]) \cup Range(table)
       \cup dropped = 1 .. enqueued

(* Until close, one flush moves the logs from the queue to the table.      *)
LineInv ==
  closer = "open" =>
    /\ InOrder(table) /\ Before(table, batch["loop"]) /\ Before(table, queue)
    /\ Before(batch["loop"], queue)

QueueInv == QueueTypeOK /\ FlushesInv /\ PlacesInv /\ LineInv

----------------------------------------------------------------------------
(* The requests.                                                           *)

Phases == {"new", "parsing", "unparsable", "validating", "resolved", "executing",
           "failing", "responding", "persisting", "answered", "hung", "stuck"}
Errors == [business : BOOLEAN, message : {"raw", "secured", "full", "internal"},
           stack : BOOLEAN]

RequestTypeOK ==
  /\ phase \in [Requests -> Phases]
  /\ operation \in [Requests -> {"introspection", "other"}]
  /\ errors \in [Requests -> Seq(Errors)]
  /\ done \in [Requests -> Nat]
  /\ failures \in Nat /\ failures <= MaxErrors

(* How far didEncounterErrors is: d of the errors es, in phase p, when n   *)
(* errors have been thrown in all.                                         *)
Progress(p, es, d, n) ==
  /\ p \in {"new", "parsing", "validating", "resolved", "executing"} => es = << >> /\ d = 0
  /\ p = "unparsable" => d = 0 /\ Len(es) > 0
  /\ p = "failing" => d < Len(es)
  /\ p \in {"responding", "persisting"} => d = Len(es)
  /\ d <= n /\ Len(es) <= n

(* What may be sent, by apollo-logger or not.                              *)
Safe(e, apollo) ==
  securedMessages =>
    /\ e.message \in {"secured", "internal"} \/ (~apollo /\ e.business)
    /\ e.stack => apollo

(* The errors it has seen may be sent, the others are as they were thrown. *)
Shown(p, es, d, apollo) ==
  /\ p \in {"failing", "responding", "persisting"} => \A i \in 1 .. d : Safe(es[i], apollo)
  /\ p = "answered" => \A i \in 1 .. Len(es) : Safe(es[i], apollo)
  /\ p \in {"unparsable", "failing"} =>
       \A i \in 1 .. Len(es) : i > d => es[i].message = "raw"

RequestInv ==
  /\ RequestTypeOK
  /\ \A r \in Requests : /\ Progress(phase[r], errors[r], done[r], failures)
                         /\ Shown(phase[r], errors[r], done[r], Apollo)

(* Each error seen is logged once; nothing else is logged as its number.   *)
LoggedOnce(r, i) ==
  \E n \in DOMAIN records :
    /\ records[n] = [of |-> r, error |-> i, message |-> "raw"]
    /\ \A k \in DOMAIN records : records[k].of = r /\ records[k].error = i => k = n

Messages == {"started", "raw", "secured", "full", "internal"}
Records == [of : Requests, error : Nat, message : Messages]

RecordsInv ==
  /\ records \in Seq(Records)
  /\ \A n \in DOMAIN records :
       records[n].error \in 0 .. done[records[n].of] \cup {MaxErrors + 1}
  /\ ~Apollo /\ closer = "open" =>
       \A r \in Requests : operation[r] = "other" => \A i \in 1 .. done[r] : LoggedOnce(r, i)

(* Of a request in phase p with the errors es: the logs that are due (d)   *)
(* are in its context (l), and none is while w calls wait to clear it, and *)
(* in the end.                                                             *)
Handed(p, es, l, d, w) ==
  es = << >> =>
    /\ d \subseteq l
    /\ p \in {"new", "parsing", "validating", "resolved"} => w = 0
    /\ w > 0 \/ p \in {"persisting", "answered"} => d = {}

ContextTypeOK ==
  /\ appended \in [Requests -> Nat] /\ persisting \in [Requests -> Nat]
  /\ logs \in [Requests -> SUBSET Nat] /\ due \in [Requests -> SUBSET Nat]

ContextInv ==
  /\ ContextTypeOK
  /\ persists => Apollo
  /\ \A r \in Requests : persists =>
       Handed(phase[r], errors[r], logs[r], due[r], persisting[r])

LoggingInv == QueueInv /\ RequestInv /\ RecordsInv /\ ContextInv

----------------------------------------------------------------------------
(* Ranges and order of the pieces of a sequence of numbers.                *)

LEMMA RangeIn ==
  ASSUME NEW s \in Seq(Nat)
  PROVE  Range(s) \subseteq Nat /\ \A x : x \in Range(s) <=> \E i \in 1 .. Len(s) : s[i] = x
BY LenProperties DEF Range

LEMMA InOrderIsInjective ==
  ASSUME NEW s \in Seq(Nat), InOrder(s)
  PROVE  IsInjective(s)
BY LenProperties DEF InOrder, IsInjective

LEMMA BeforeIsDisjoint ==
  ASSUME NEW s \in Seq(Nat), NEW t \in Seq(Nat), Before(s, t)
  PROVE  Disjoint(s, t)
BY RangeIn DEF Before, Disjoint

LEMMA ConcatPieces ==
  ASSUME NEW s \in Seq(Nat), NEW t \in Seq(Nat)
  PROVE  /\ s \o t \in Seq(Nat)
         /\ Range(s \o t) = Range(s) \cup Range(t)
         /\ IsInjective(s) /\ IsInjective(t) /\ Disjoint(s, t) => IsInjective(s \o t)
         /\ InOrder(s) /\ InOrder(t) /\ Before(s, t) => InOrder(s \o t)
<1> DEFINE c == s \o t
<1>1. /\ c \in Seq(Nat) /\ Len(c) = Len(s) + Len(t)
      /\ \A i \in 1 .. Len(s) + Len(t) : c[i] = IF i <= Len(s) THEN s[i] ELSE t[i - Len(s)]
  BY ConcatProperties
<1>2. DOMAIN c = 1 .. Len(s) + Len(t) /\ DOMAIN s = 1 .. Len(s) /\ DOMAIN t = 1 .. Len(t)
      /\ Len(s) \in Nat /\ Len(t) \in Nat
  BY <1>1, LenProperties
<1> HIDE DEF c
<1>3. ASSUME NEW i \in DOMAIN c
      PROVE  \/ i \in DOMAIN s /\ c[i] = s[i]
             \/ i > Len(s) /\ i - Len(s) \in DOMAIN t /\ c[i] = t[i - Len(s)]
  BY <1>1, <1>2, SMTT(30)
<1>4. /\ \A i \in DOMAIN s : i \in DOMAIN c /\ c[i] = s[i]
      /\ \A i \in DOMAIN t : i + Len(s) \in DOMAIN c /\ c[i + Len(s)] = t[i]
  <2>1. ASSUME NEW i \in DOMAIN t, NEW k, k = i + Len(s)
        PROVE  k \in DOMAIN c /\ c[k] = t[i]
    <3>1. k \in 1 .. Len(s) + Len(t) /\ ~(k <= Len(s)) /\ k - Len(s) = i
      BY <1>2, <2>1
    <3> QED
      BY <1>1, <1>2, <3>1
  <2> QED
    BY <1>1, <1>2, <2>1
<1>5. Range(c) = Range(s) \cup Range(t)
  <2>1. ASSUME NEW i \in DOMAIN c  PROVE  c[i] \in Range(s) \cup Range(t)
    BY <1>3 DEF Range
  <2>2. Range(s) \subseteq Range(c) /\ Range(t) \subseteq Range(c)
    BY <1>4 DEF Range
  <2> QED
    BY <2>1, <2>2 DEF Range
<1>6. ASSUME IsInjective(s), IsInjective(t), Disjoint(s, t), NEW i \in DOMAIN c,
             NEW j \in DOMAIN c, c[i] = c[j]
      PROVE  i = j
  <2>1. \A k \in DOMAIN s, l \in DOMAIN t : s[k] # t[l]
    BY <1>6 DEF Disjoint, Range
  <2> QED
    BY <1>2, <1>3, <1>6, <2>1 DEF IsInjective
<1>7. ASSUME InOrder(s), InOrder(t), Before(s, t), NEW i \in DOMAIN c, NEW j \in DOMAIN c, i < j
      PROVE  c[i] < c[j]
  <2>1. \A k \in DOMAIN s, l \in DOMAIN t : s[k] < t[l]
    BY <1>7 DEF Before, Range
  <2>2. CASE i \in DOMAIN s /\ j \in DOMAIN s /\ c[i] = s[i] /\ c[j] = s[j]
    BY <1>7, <2>2 DEF InOrder
  <2>3. CASE i \in DOMAIN s /\ c[i] = s[i] /\ j - Len(s) \in DOMAIN t /\ c[j] = t[j - Len(s)]
    BY <2>1, <2>3
  <2>4. CASE /\ i - Len(s) \in DOMAIN t /\ c[i] = t[i - Len(s)]
             /\ j - Len(s) \in DOMAIN t /\ c[j] = t[j - Len(s)]
    <3>1. i - Len(s) < j - Len(s)
      BY <1>2, <1>7
    <3> QED
      BY <1>7, <2>4, <3>1 DEF InOrder
  <2>5. ~(i > Len(s) /\ j \in DOMAIN s)
    BY <1>2, <1>7
  <2> QED
    BY <1>3, <1>7, <2>2, <2>3, <2>4, <2>5
<1> QED
  BY <1>1, <1>5, <1>6, <1>7 DEF IsInjective, InOrder, c

LEMMA SplitPieces ==
  ASSUME NEW s \in Seq(Nat), NEW n \in 0 .. Len(s)
  PROVE  LET h == SubSeq(s, 1, n)
             t == SubSeq(s, n + 1, Len(s))
         IN  /\ h \in Seq(Nat) /\ t \in Seq(Nat) /\ Len(h) = n /\ Len(t) = Len(s) - n
             /\ Range(s) = Range(h) \cup Range(t)
             /\ InOrder(s) => InOrder(h) /\ InOrder(t) /\ Before(h, t)
<1> DEFINE h == SubSeq(s, 1, n)
           t == SubSeq(s, n + 1, Len(s))
<1>1. Len(s) \in Nat /\ DOMAIN s = 1 .. Len(s) /\ \A i \in 1 .. Len(s) : s[i] \in Nat
  BY LenProperties, ElementOfSeq
<1>2. /\ h \in Seq(Nat) /\ Len(h) = n /\ \A i \in 1 .. n : h[i] = s[i]
  <2>1. \A i \in 1 .. n : s[i] \in Nat
    BY <1>1
  <2> QED
    BY <1>1, <2>1, SubSeqProperties
<1>3. /\ t \in Seq(Nat) /\ Len(t) = Len(s) - n
      /\ \A i \in 1 .. Len(s) - n : t[i] = s[i + n]
  <2>1. \A i \in n + 1 .. Len(s) : s[i] \in Nat
    BY <1>1
  <2>2. n + 1 \in Int /\ Len(s) \in Int /\ n \in Int
    BY <1>1
  <2>3. /\ t \in Seq(Nat) /\ Len(t) = IF n + 1 <= Len(s) THEN Len(s) - (n + 1) + 1 ELSE 0
        /\ \A i \in 1 .. Len(s) - (n + 1) + 1 : t[i] = s[n + 1 + i - 1]
    BY <2>1, <2>2, SubSeqProperties
  <2>4. Len(t) = Len(s) - n
    <3>1. Len(t) = IF n + 1 <= Len(s) THEN Len(s) - (n + 1) + 1 ELSE 0
      BY <2>3
    <3>2. CASE n + 1 <= Len(s)
      BY <1>1, <2>2, <3>1, <3>2
    <3>3. CASE n = Len(s)
      BY <1>1, <2>2, <3>1, <3>3
    <3>4. n <= Len(s) /\ Len(s) \in Nat /\ n \in Nat
      BY <1>1
    <3> QED
      BY <3>2, <3>3, <3>4
  <2>5. ASSUME NEW i \in 1 .. Len(s) - n  PROVE  t[i] = s[i + n]
    <3>1. i \in 1 .. Len(s) - (n + 1) + 1 /\ n + 1 + i - 1 = i + n
      BY <1>1, <2>2
    <3> QED
      BY <2>3, <3>1
  <2> QED
    BY <2>3, <2>4, <2>5
<1> HIDE DEF h, t
<1>4. DOMAIN h = 1 .. n /\ DOMAIN t = 1 .. Len(s) - n
  BY <1>2, <1>3, LenProperties
<1>5. Range(s) = Range(h) \cup Range(t)
  <2>1. ASSUME NEW i \in 1 .. Len(s)  PROVE  s[i] \in Range(h) \cup Range(t)
    <3>1. CASE i <= n
      BY <1>2, <1>4, <3>1 DEF Range
    <3>2. CASE i > n
      <4> DEFINE j == i - n
      <4>1. j \in 1 .. Len(s) - n /\ j + n = i
        BY <1>1, <3>2
      <4>2. j \in DOMAIN t /\ t[j] = s[i]
        BY <1>3, <1>4, <4>1
      <4> QED
        BY <4>2 DEF Range
    <3> QED
      BY <3>1, <3>2, <1>1
  <2>2. Range(h) \subseteq Range(s)
    BY <1>1, <1>2, <1>4 DEF Range
  <2>3. ASSUME NEW i \in DOMAIN t  PROVE  t[i] \in Range(s)
    <3>1. i \in 1 .. Len(s) - n /\ i + n \in DOMAIN s
      BY <1>1, <1>4
    <3> QED
      BY <1>3, <3>1 DEF Range
  <2> QED
    BY <1>1, <2>1, <2>2, <2>3 DEF Range
<1>6. ASSUME InOrder(s)  PROVE  InOrder(h) /\ InOrder(t)
  <2>1. InOrder(h)
    BY <1>1, <1>2, <1>4, <1>6 DEF InOrder
  <2>2. ASSUME NEW i \in DOMAIN t, NEW j \in DOMAIN t, i < j  PROVE  t[i] < t[j]
    <3>1. i + n \in DOMAIN s /\ j + n \in DOMAIN s /\ i + n < j + n
      BY <1>1, <1>4, <2>2, SMTT(30)
    <3>2. s[i + n] < s[j + n]
      BY <1>6, <3>1 DEF InOrder
    <3>3. t[i] = s[i + n] /\ t[j] = s[j + n]
      BY <1>3, <1>4
    <3> QED
      BY <3>2, <3>3
  <2> QED
    BY <2>1, <2>2 DEF InOrder
<1>7. ASSUME InOrder(s)  PROVE  Before(h, t)
  <2>1. ASSUME NEW i \in DOMAIN h, NEW j \in DOMAIN t  PROVE  h[i] < t[j]
    <3>1. i \in DOMAIN s /\ j + n \in DOMAIN s /\ i < j + n
      BY <1>1, <1>4
    <3>2. s[i] < s[j + n]
      BY <1>7, <3>1 DEF InOrder
    <3> QED
      BY <1>2, <1>3, <1>4, <3>2
  <2> QED
    BY <2>1 DEF Before, Range
<1> QED
  BY <1>2, <1>3, <1>5, <1>6, <1>7 DEF h, t

LEMMA AppendPieces ==
  ASSUME NEW s \in Seq(Nat), NEW x \in Nat
  PROVE  /\ Append(s, x) \in Seq(Nat)
         /\ Range(Append(s, x)) = Range(s) \cup {x}
         /\ InOrder(s) /\ (\A y \in Range(s) : y < x) => InOrder(Append(s, x))
<1> DEFINE c == Append(s, x)
<1>1. /\ c \in Seq(Nat) /\ Len(c) = Len(s) + 1 /\ c[Len(s) + 1] = x
      /\ \A i \in 1 .. Len(s) : c[i] = s[i]
  BY AppendProperties
<1>2. DOMAIN c = 1 .. Len(s) + 1 /\ DOMAIN s = 1 .. Len(s) /\ Len(s) \in Nat
  BY <1>1, LenProperties
<1> HIDE DEF c
<1>3. \A i \in DOMAIN c : i = Len(s) + 1 \/ (i \in DOMAIN s /\ i < Len(s) + 1 /\ c[i] = s[i])
  BY <1>1, <1>2
<1>4. Range(c) = Range(s) \cup {x}
  <2>1. \A i \in DOMAIN c : c[i] \in Range(s) \cup {x}
    BY <1>1, <1>3 DEF Range
  <2>2. x \in Range(c) /\ \A i \in DOMAIN s : s[i] \in Range(c)
    BY <1>1, <1>2 DEF Range
  <2> QED
    BY <2>1, <2>2 DEF Range
<1>5. ASSUME InOrder(s), \A y \in Range(s) : y < x, NEW i \in DOMAIN c, NEW j \in DOMAIN c, i < j
      PROVE  c[i] < c[j]
  <2>1. i \in DOMAIN s /\ i < Len(s) + 1 /\ c[i] = s[i]
    BY <1>2, <1>3, <1>5
  <2>2. s[i] < x
    BY <1>5, <2>1 DEF Range
  <2> QED
    BY <1>1, <1>3, <1>5, <2>1, <2>2 DEF InOrder
<1> QED
  BY <1>1, <1>4, <1>5 DEF InOrder, c

(* splice: what is taken and what stays are the queue, cut in two.         *)
LEMMA TakeSplits ==
  ASSUME QueueTypeOK, NEW f \in {"loop", "close"}, Transport!Take(f)
  PROVE  /\ queue' \in Seq(Nat) /\ batch' \in [{"loop", "close"} -> Seq(Nat)]
         /\ \A g \in {"loop", "close"} \ {f} : batch'[g] = batch[g]
         /\ Range(queue) = Range(batch'[f]) \cup Range(queue')
         /\ InOrder(queue) =>
              InOrder(batch'[f]) /\ InOrder(queue') /\ Before(batch'[f], queue')
         /\ Len(batch'[f]) <= batchLimit
         /\ queue = << >> => queue' = << >> /\ batch'[f] = << >>
<1> DEFINE n == IF Len(queue) < batchLimit THEN Len(queue) ELSE batchLimit
           h == SubSeq(queue, 1, n)
           t == SubSeq(queue, n + 1, Len(queue))
<1>1. queue \in Seq(Nat) /\ batch \in [{"loop", "close"} -> Seq(Nat)] /\ Len(queue) \in Nat
  BY LenProperties DEF QueueTypeOK
<1>2. n \in 0 .. Len(queue) /\ n <= batchLimit /\ (Len(queue) = 0 => n = 0)
  BY <1>1, LoggingAssumption
<1> HIDE DEF n
<1>3. Transport!FirstBatch = h
  BY DEF Transport!FirstBatch, n
<1>4. /\ h \in Seq(Nat) /\ Len(h) = n
      /\ t \in Seq(Nat) /\ Len(t) = Len(queue) - n
      /\ Range(queue) = Range(h) \cup Range(t)
      /\ InOrder(queue) => InOrder(h) /\ InOrder(t) /\ Before(h, t)
  BY <1>1, <1>2, SplitPieces
<1>5. queue' = t /\ batch' = [batch EXCEPT ![f] = h]
  BY <1>3, <1>4 DEF Transport!Take
<1> HIDE DEF h, t
<1>6. batch'[f] = h /\ \A g \in {"loop", "close"} \ {f} : batch'[g] = batch[g]
  BY <1>1, <1>5
<1>7. ASSUME queue = << >>  PROVE  queue' = << >> /\ h = << >>
  <2>1. Len(queue) = 0 /\ n = 0
    BY <1>2, <1>7
  <2>2. Len(queue') = 0 /\ Len(h) = 0
    BY <1>4, <1>5, <2>1
  <2> QED
    BY <1>4, <1>5, <2>2, EmptySeq
<1> QED
  BY <1>1, <1>2, <1>4, <1>5, <1>6, <1>7

LEMMA QueueInit == Transport!Init => QueueInv
<1> SUFFICES ASSUME Transport!Init  PROVE  QueueInv
  OBVIOUS
<1>1. QueueTypeOK /\ FlushesInv
  BY EmptySeq, LoggingAssumption
     DEF Transport!Init, Transport!Flushes, QueueTypeOK, FlushesInv
<1>2. /\ queue = << >> /\ table = << >> /\ batch["loop"] = << >> /\ batch["close"] = << >>
      /\ enqueued = 0 /\ dropped = {}
  BY DEF Transport!Init, Transport!Flushes
<1>3. /\ Range(<< >>) = {} /\ InOrder(<< >>) /\ IsInjective(<< >>)
      /\ Before(<< >>, << >>) /\ Disjoint(<< >>, << >>)
  BY DEF Range, InOrder, IsInjective, Before, Disjoint
<1>4. 1 .. 0 = {}
  OBVIOUS
<1> QED
  BY <1>1, <1>2, <1>3, <1>4 DEF QueueInv, PlacesInv, LineInv

LEMMA EnqueueStep == QueueInv /\ Transport!Enqueue => QueueInv'
<1> SUFFICES ASSUME QueueInv, Transport!Enqueue  PROVE  QueueInv'
  OBVIOUS
<1>1. /\ closer = "open" /\ enqueued' = enqueued + 1 /\ enqueued \in Nat
      /\ queue' = Append(queue, enqueued + 1) /\ queue \in Seq(Nat)
      /\ UNCHANGED <<loop, closer, batch, table, dropped>>
  BY DEF QueueInv, QueueTypeOK, Transport!Enqueue
<1>2. \A y \in Range(queue) \cup Range(batch["loop"]) \cup Range(batch["close"]) \cup Range(table)
           \cup dropped : y \in Nat /\ y < enqueued + 1
  BY <1>1 DEF QueueInv, PlacesInv
<1>3. /\ queue' \in Seq(Nat) /\ Range(queue') = Range(queue) \cup {enqueued + 1}
      /\ InOrder(queue')
  BY <1>1, <1>2, AppendPieces DEF QueueInv, PlacesInv
<1>4. QueueTypeOK' /\ FlushesInv'
  BY <1>1, <1>3 DEF QueueInv, QueueTypeOK, FlushesInv
<1>5. enqueued + 1 \notin Range(queue) \cup Range(batch["loop"]) \cup Range(batch["close"])
                             \cup Range(table) \cup dropped
      /\ 1 .. enqueued + 1 = 1 .. enqueued \cup {enqueued + 1}
  BY <1>1, <1>2
<1>6. PlacesInv'
  BY <1>1, <1>3, <1>5 DEF QueueInv, PlacesInv, Disjoint
<1>7. LineInv'
  BY <1>1, <1>2, <1>3 DEF QueueInv, LineInv, Before
<1> QED
  BY <1>4, <1>6, <1>7 DEF QueueInv

(* A flush that has no batch takes one.                                    *)
LEMMA TakePlaces ==
  ASSUME QueueInv, NEW f \in {"loop", "close"}, Transport!Take(f), batch[f] = << >>,
         UNCHANGED <<enqueued, table, dropped>>
  PROVE  PlacesInv'
<1> DEFINE g == IF f = "loop" THEN "close" ELSE "loop"
<1>1. /\ queue' \in Seq(Nat) /\ batch'[f] \in Seq(Nat) /\ batch'[g] = batch[g]
      /\ Range(queue) = Range(batch'[f]) \cup Range(queue')
      /\ InOrder(batch'[f]) /\ InOrder(queue') /\ Before(batch'[f], queue')
  BY TakeSplits DEF QueueInv, PlacesInv
<1>2. Disjoint(batch'[f], queue')
  BY <1>1, BeforeIsDisjoint
<1>3. Range(batch[f]) = {}
  BY DEF Range
<1>4. CASE f = "loop"
  BY <1>1, <1>2, <1>3, <1>4 DEF QueueInv, PlacesInv, Disjoint
<1>5. CASE f = "close"
  BY <1>1, <1>2, <1>3, <1>5 DEF QueueInv, PlacesInv, Disjoint
<1> QED
  BY <1>4, <1>5

LEMMA IntervalStep == QueueInv /\ Transport!IntervalEnds => QueueInv'
<1> SUFFICES ASSUME QueueInv, Transport!IntervalEnds  PROVE  QueueInv'
  OBVIOUS
<1>1. /\ loop = "waiting" /\ Transport!Take("loop") /\ batch["loop"] = << >>
      /\ loop' = IF queue = << >> THEN "waiting" ELSE "inserting"
      /\ closer = "open" /\ UNCHANGED <<enqueued, closer, table, dropped>>
  BY DEF QueueInv, FlushesInv, QueueTypeOK, Transport!IntervalEnds
<1>2. /\ queue' \in Seq(Nat) /\ batch' \in [{"loop", "close"} -> Seq(Nat)]
      /\ batch'["close"] = batch["close"]
      /\ Range(queue) = Range(batch'["loop"]) \cup Range(queue')
      /\ Before(batch'["loop"], queue')
      /\ Len(batch'["loop"]) <= batchLimit
      /\ queue = << >> => batch'["loop"] = << >>
  BY <1>1, TakeSplits DEF QueueInv, PlacesInv
<1>3. QueueTypeOK' /\ FlushesInv'
  BY <1>1, <1>2 DEF QueueInv, QueueTypeOK, FlushesInv
<1>4. PlacesInv'
  BY <1>1, TakePlaces
<1>5. LineInv'
  BY <1>1, <1>2 DEF QueueInv, LineInv, Before
<1> QED
  BY <1>3, <1>4, <1>5 DEF QueueInv

LEMMA CloseStep == QueueInv /\ Transport!Close => QueueInv'
<1> SUFFICES ASSUME QueueInv, Transport!Close  PROVE  QueueInv'
  OBVIOUS
<1>1. /\ closer = "open" /\ Transport!Take("close") /\ batch["close"] = << >>
      /\ loop' = IF loop = "waiting" THEN "stopped" ELSE loop
      /\ closer' = IF queue = << >> THEN "closed" ELSE "inserting"
      /\ UNCHANGED <<enqueued, table, dropped>>
  BY DEF QueueInv, FlushesInv, Transport!Close
<1>2. /\ queue' \in Seq(Nat) /\ batch' \in [{"loop", "close"} -> Seq(Nat)]
      /\ batch'["loop"] = batch["loop"]
      /\ queue = << >> => queue' = << >> /\ batch'["close"] = << >>
  BY <1>1, TakeSplits DEF QueueInv, PlacesInv
<1>3. QueueTypeOK' /\ FlushesInv'
  BY <1>1, <1>2 DEF QueueInv, QueueTypeOK, FlushesInv
<1>4. PlacesInv'
  BY <1>1, TakePlaces
<1> QED
  BY <1>1, <1>3, <1>4 DEF QueueInv, LineInv

(* The batch goes to the table, or its insert fails and it is dropped;     *)
(* the next one is taken from what is left of the queue.                   *)
LEMMA InsertPlaces ==
  ASSUME QueueInv, NEW f \in {"loop", "close"}, Transport!InsertEnds(f)
  PROVE  PlacesInv' /\ table' \in Seq(Nat)
<1> DEFINE g == IF f = "loop" THEN "close" ELSE "loop"
<1>1. /\ queue' \in Seq(Nat) /\ batch'[f] \in Seq(Nat) /\ batch'[g] = batch[g]
      /\ Range(queue) = Range(batch'[f]) \cup Range(queue')
      /\ InOrder(batch'[f]) /\ InOrder(queue') /\ Before(batch'[f], queue')
  BY TakeSplits DEF QueueInv, PlacesInv, Transport!InsertEnds
<1>2. Disjoint(batch'[f], queue')
  BY <1>1, BeforeIsDisjoint
<1>3. /\ Disjoint(batch[f], batch[g]) /\ Disjoint(queue, batch[f]) /\ Disjoint(queue, batch[g])
      /\ Disjoint(queue, table) /\ Disjoint(batch[f], table) /\ Disjoint(batch[g], table)
      /\ InOrder(batch[f]) /\ InOrder(batch[g]) /\ IsInjective(table)
      /\ batch[f] \in Seq(Nat) /\ table \in Seq(Nat)
      /\ (Range(queue) \cup Range(batch[f]) \cup Range(batch[g]) \cup Range(table))
           \cap dropped = {}
      /\ Range(queue) \cup Range(batch[f]) \cup Range(batch[g]) \cup Range(table)
           \cup dropped = 1 .. enqueued
  <2>1. QueueTypeOK /\ PlacesInv
    BY DEF QueueInv
  <2>2. CASE f = "loop"
    BY <2>1, <2>2 DEF PlacesInv, QueueTypeOK
  <2>3. CASE f = "close"
    BY <2>1, <2>3 DEF PlacesInv, QueueTypeOK, Disjoint
  <2> QED
    BY <2>2, <2>3
<1>4. IsInjective(batch[f]) /\ Disjoint(table, batch[f])
  BY <1>3, InOrderIsInjective DEF Disjoint
<1>5. /\ enqueued' = enqueued
      /\ \/ table' = table \o batch[f] /\ dropped' = dropped
         \/ table' = table /\ dropped' = dropped \cup Range(batch[f])
  BY DEF Transport!InsertEnds, Transport!Range, Range
<1>6. /\ table' \in Seq(Nat) /\ IsInjective(table')
      /\ \/ Range(table') = Range(table) \cup Range(batch[f]) /\ dropped' = dropped
         \/ Range(table') = Range(table) /\ dropped' = dropped \cup Range(batch[f])
  BY <1>3, <1>4, <1>5, ConcatPieces
<1>7. /\ Disjoint(queue', batch'[f]) /\ Disjoint(queue', batch'[g])
      /\ Disjoint(queue', table') /\ Disjoint(batch'[f], batch'[g])
      /\ Disjoint(batch'[f], table') /\ Disjoint(batch'[g], table')
  BY <1>1, <1>2, <1>3, <1>6 DEF Disjoint
<1>8. /\ (Range(queue') \cup Range(batch'[f]) \cup Range(batch'[g]) \cup Range(table'))
           \cap dropped' = {}
      /\ Range(queue') \cup Range(batch'[f]) \cup Range(batch'[g]) \cup Range(table')
           \cup dropped' = 1 .. enqueued'
  BY <1>1, <1>2, <1>3, <1>5, <1>6 DEF Disjoint
<1>9. CASE f = "loop"
  BY <1>1, <1>3, <1>6, <1>7, <1>8, <1>9 DEF PlacesInv
<1>10. CASE f = "close"
  BY <1>1, <1>3, <1>6, <1>7, <1>8, <1>10 DEF PlacesInv, Disjoint
<1> QED
  BY <1>6, <1>9, <1>10

LEMMA InsertStep ==
  ASSUME QueueInv, NEW f \in {"loop", "close"}, Transport!InsertEnds(f)
  PROVE  QueueInv'
<1>1. /\ queue' \in Seq(Nat) /\ batch' \in [{"loop", "close"} -> Seq(Nat)]
      /\ \A g \in {"loop", "close"} \ {f} : batch'[g] = batch[g]
      /\ Range(queue) = Range(batch'[f]) \cup Range(queue')
      /\ Before(batch'[f], queue')
      /\ Len(batch'[f]) <= batchLimit
      /\ queue = << >> => queue' = << >> /\ batch'[f] = << >>
  BY TakeSplits DEF QueueInv, PlacesInv, Transport!InsertEnds
<1>2. PlacesInv' /\ table' \in Seq(Nat) /\ enqueued' \in Nat
  BY InsertPlaces DEF QueueInv, QueueTypeOK, Transport!InsertEnds
<1>3. /\ f = "loop" => /\ loop = "inserting" /\ UNCHANGED closer
                       /\ loop' = IF queue # << >> THEN "inserting"
                                  ELSE IF closer = "open" THEN "waiting" ELSE "stopped"
      /\ f = "close" => /\ closer = "inserting" /\ UNCHANGED loop
                        /\ closer' = IF queue = << >> THEN "closed" ELSE "inserting"
  BY DEF Transport!InsertEnds, Transport!Inserting, Transport!LoopMoves, Transport!CloserMoves
<1>4. QueueTypeOK'
  BY <1>1, <1>2, <1>3 DEF QueueInv, QueueTypeOK
<1>5. FlushesInv'
  <2>1. CASE f = "loop"
    BY <1>1, <1>3, <2>1 DEF QueueInv, QueueTypeOK, FlushesInv
  <2>2. CASE f = "close"
    BY <1>1, <1>3, <2>2 DEF QueueInv, QueueTypeOK, FlushesInv
  <2> QED
    BY <2>1, <2>2
<1>6. ASSUME closer' = "open"
      PROVE  /\ InOrder(table') /\ Before(table', batch'["loop"]) /\ Before(table', queue')
             /\ Before(batch'["loop"], queue')
  <2>1. f = "loop" /\ closer = "open"
    BY <1>3, <1>6
  <2>2. /\ InOrder(table) /\ Before(table, batch["loop"]) /\ Before(table, queue)
        /\ Before(batch["loop"], queue) /\ InOrder(batch["loop"])
        /\ table \in Seq(Nat) /\ batch["loop"] \in Seq(Nat)
    BY <2>1 DEF QueueInv, LineInv, PlacesInv, QueueTypeOK
  <2>3. table' = table \/ table' = table \o batch["loop"]
    BY <2>1 DEF Transport!InsertEnds
  <2>4. InOrder(table') /\ Range(table') \subseteq Range(table) \cup Range(batch["loop"])
    BY <2>2, <2>3, ConcatPieces
  <2> QED
    BY <1>1, <2>1, <2>2, <2>4 DEF Before
<1> QED
  BY <1>2, <1>4, <1>5, <1>6 DEF QueueInv, LineInv

(* The thread ends after close has called back: no flush goes on.          *)
LEMMA ThreadStep == QueueInv /\ Transport!ThreadEnds => QueueInv'
<1> SUFFICES ASSUME QueueInv, Transport!ThreadEnds  PROVE  QueueInv'
  OBVIOUS
<1>1. /\ closer = "closed" /\ loop' = "ended"
      /\ UNCHANGED <<enqueued, queue, closer, batch, table, dropped>>
  BY DEF Transport!ThreadEnds
<1>2. QueueTypeOK' /\ FlushesInv'
  BY <1>1 DEF QueueInv, QueueTypeOK, FlushesInv
<1>3. PlacesInv' /\ LineInv'
  BY <1>1 DEF QueueInv, PlacesInv, LineInv
<1> QED
  BY <1>2, <1>3 DEF QueueInv

----------------------------------------------------------------------------
(* Steps of the requests.                                                  *)

LEMMA RequestInit == Init => RequestInv
<1> SUFFICES ASSUME Init  PROVE  RequestInv
  OBVIOUS
<1>1. << >> \in Seq(Errors) /\ Len(<< >>) = 0
  BY EmptySeq
<1>2. RequestTypeOK
  BY <1>1, LoggingAssumption DEF Init, Of, RequestTypeOK, Phases
<1>3. \A r \in Requests : phase[r] = "new" /\ errors[r] = << >> /\ done[r] = 0 /\ failures = 0
  BY DEF Init, Of
<1> QED
  BY <1>1, <1>2, <1>3 DEF RequestInv, Progress, Shown

(* A step of one request.                                                  *)
LEMMA OneRequest ==
  ASSUME RequestInv, NEW r \in Requests, NEW p \in Phases, NEW es \in Seq(Errors), NEW d \in Nat,
         phase' = [phase EXCEPT ![r] = p], errors' = [errors EXCEPT ![r] = es],
         done' = [done EXCEPT ![r] = d],
         operation' \in [Requests -> {"introspection", "other"}],
         failures' \in Nat, failures <= failures', failures' <= MaxErrors, UNCHANGED plugin,
         Progress(p, es, d, failures'), Shown(p, es, d, Apollo)
  PROVE  RequestInv'
<1>1. RequestTypeOK'
  BY DEF RequestInv, RequestTypeOK
<1>2. Apollo' = Apollo
  BY DEF Apollo
<1>3. /\ phase'[r] = p /\ errors'[r] = es /\ done'[r] = d
      /\ \A q \in Requests \ {r} :
           phase'[q] = phase[q] /\ errors'[q] = errors[q] /\ done'[q] = done[q]
  BY DEF RequestInv, RequestTypeOK
<1>4. ASSUME NEW q \in Requests
      PROVE  Progress(phase'[q], errors'[q], done'[q], failures')
  <2>1. CASE q = r
    BY <1>3, <2>1
  <2>2. CASE q # r
    <3>1. Progress(phase[q], errors[q], done[q], failures) /\ failures \in Nat
          /\ done[q] \in Nat /\ Len(errors[q]) \in Nat
      BY LenProperties DEF RequestInv, RequestTypeOK
    <3> QED
      BY <1>3, <2>2, <3>1 DEF Progress
  <2> QED
    BY <2>1, <2>2
<1>5. ASSUME NEW q \in Requests
      PROVE  Shown(phase'[q], errors'[q], done'[q], Apollo')
  BY <1>2, <1>3 DEF RequestInv
<1> QED
  BY <1>1, <1>4, <1>5 DEF RequestInv

(* A step that leaves the errors of the request as they are.               *)
LEMMA PhaseMoves ==
  ASSUME RequestInv, NEW r \in Requests, NEW p \in Phases,
         phase' = [phase EXCEPT ![r] = p],
         operation' \in [Requests -> {"introspection", "other"}],
         UNCHANGED <<errors, done, failures, plugin>>,
         Progress(p, errors[r], done[r], failures), Shown(p, errors[r], done[r], Apollo)
  PROVE  RequestInv'
<1>1. /\ errors' = [errors EXCEPT ![r] = errors[r]] /\ done' = [done EXCEPT ![r] = done[r]]
      /\ errors[r] \in Seq(Errors) /\ done[r] \in Nat /\ failures \in Nat
      /\ failures <= failures' /\ failures' <= MaxErrors
  BY DEF RequestInv, RequestTypeOK
<1> QED
  BY <1>1, OneRequest

(* A request fails, with errors as they were thrown.                       *)
LEMMA RequestThrows ==
  ASSUME RequestInv, NEW r \in Requests, NEW p \in {"unparsable", "failing"}, NEW es,
         phase[r] \in {"parsing", "validating", "executing"},
         es \in Seq(Errors), Len(es) > 0, \A i \in 1 .. Len(es) : es[i].message = "raw",
         Goes(r, p), FailsWith(r, es),
         operation' \in [Requests -> {"introspection", "other"}], UNCHANGED <<done, plugin>>
  PROVE  RequestInv'
<1>1. /\ phase' = [phase EXCEPT ![r] = p] /\ errors' = [errors EXCEPT ![r] = es]
      /\ failures' = failures + Len(es) /\ failures + Len(es) <= MaxErrors
  BY DEF Goes, FailsWith, MayFail
<1>2. done[r] = 0 /\ done[r] \in Nat /\ failures \in Nat /\ Len(es) \in Nat /\ p \in Phases
      /\ done' = [done EXCEPT ![r] = done[r]]
  <2>1. Progress(phase[r], errors[r], done[r], failures) /\ RequestTypeOK
    BY DEF RequestInv
  <2> QED
    BY <2>1, LenProperties DEF Progress, RequestTypeOK, Phases
<1>3. failures' \in Nat /\ failures <= failures' /\ failures' <= MaxErrors
  BY <1>1, <1>2
<1>4. Progress(p, es, done[r], failures')
  BY <1>1, <1>2 DEF Progress
<1>5. Shown(p, es, done[r], Apollo)
  BY <1>2 DEF Shown
<1>6. UNCHANGED plugin /\ phase' = [phase EXCEPT ![r] = p] /\ errors' = [errors EXCEPT ![r] = es]
  BY <1>1
<1> QED
  BY <1>2, <1>3, <1>4, <1>5, <1>6, OneRequest

LEMMA ThrownErrors ==
  /\ \A b \in BOOLEAN : Raw(b) \in Errors /\ Raw(b).message = "raw"
  /\ <<Raw(FALSE)>> \in Seq(Errors) /\ Len(<<Raw(FALSE)>>) = 1
  /\ \A i \in 1 .. 1 : <<Raw(FALSE)>>[i].message = "raw"
  /\ \A b \in BOOLEAN, n \in 1 .. 2 :
       LET es == SubSeq(<<Raw(b), Raw(FALSE)>>, 1, n)
       IN  es \in Seq(Errors) /\ Len(es) = n /\ \A i \in 1 .. n : es[i].message = "raw"
<1>1. ASSUME NEW b \in BOOLEAN  PROVE  Raw(b) \in Errors /\ Raw(b).message = "raw"
  BY DEF Raw, Errors
<1> HIDE DEF Raw
<1>2. /\ <<Raw(FALSE)>> \in Seq(Errors) /\ Len(<<Raw(FALSE)>>) = 1
      /\ \A i \in 1 .. 1 : <<Raw(FALSE)>>[i].message = "raw"
  <2> DEFINE e == Raw(FALSE)
  <2>1. e \in Errors /\ e.message = "raw"
    BY <1>1
  <2> HIDE DEF e
  <2>2. <<e>> \in Seq(Errors) /\ Len(<<e>>) = 1 /\ \A i \in 1 .. 1 : <<e>>[i] = e
    BY <2>1
  <2> QED
    BY <2>1, <2>2 DEF e
<1>3. ASSUME NEW b \in BOOLEAN, NEW n \in 1 .. 2
      PROVE  LET es == SubSeq(<<Raw(b), Raw(FALSE)>>, 1, n)
             IN  es \in Seq(Errors) /\ Len(es) = n /\ \A i \in 1 .. n : es[i].message = "raw"
  <2> DEFINE s == <<Raw(b), Raw(FALSE)>>
             es == SubSeq(s, 1, n)
  <2>1. \A i \in 1 .. n : s[i] \in Errors /\ s[i].message = "raw"
    <3>1. s[1] = Raw(b) /\ s[2] = Raw(FALSE)
      OBVIOUS
    <3> HIDE DEF s
    <3>2. \A i \in 1 .. n : i = 1 \/ i = 2
      OBVIOUS
    <3> QED
      BY <1>1, <3>1, <3>2
  <2> HIDE DEF s
  <2>2. 1 \in Int /\ n \in Int /\ \A i \in 1 .. n : s[i] \in Errors
    BY <2>1
  <2>3. /\ es \in Seq(Errors) /\ Len(es) = IF 1 <= n THEN n - 1 + 1 ELSE 0
        /\ \A i \in 1 .. n - 1 + 1 : es[i] = s[1 + i - 1]
    BY <2>2, SubSeqProperties
  <2>4. Len(es) = n
    BY <2>3
  <2>5. ASSUME NEW i \in 1 .. n  PROVE  es[i] = s[i]
    <3>1. i \in 1 .. n - 1 + 1 /\ 1 + i - 1 = i
      OBVIOUS
    <3> QED
      BY <2>3, <3>1
  <2> QED
    BY <2>1, <2>3, <2>4, <2>5 DEF s
<1> QED
  BY <1>1, <1>2, <1>3

(* _enrichError, _logRequestError: what they make of an error may be sent. *)
LEMMA SentIsSafe ==
  /\ \A e \in Errors : Enriched(e) \in Errors /\ Safe(Enriched(e), FALSE)
  /\ \A e \in Errors : \A r : Sent(r, e) \in Errors /\ Safe(Sent(r, e), FALSE)
  /\ \A e \in Errors : LET l == [e EXCEPT !.message = Message]
                       IN  l \in Errors /\ Safe(l, TRUE)
<1>1. securedMessages \in BOOLEAN
  BY LoggingAssumption
<1>2. ASSUME NEW e \in Errors  PROVE  Enriched(e) \in Errors /\ Safe(Enriched(e), FALSE)
  BY <1>1 DEF Enriched, Message, Errors, Safe
<1>3. ASSUME NEW e \in Errors, NEW r  PROVE  Sent(r, e) \in Errors /\ Safe(Sent(r, e), FALSE)
  <2>1. CASE e.business
    BY <1>1, <2>1 DEF Sent, Errors, Safe
  <2>2. CASE ~e.business
    BY <1>2, <2>2 DEF Sent
  <2> QED
    BY <2>1, <2>2
<1>4. ASSUME NEW e \in Errors
      PROVE  LET l == [e EXCEPT !.message = Message] IN l \in Errors /\ Safe(l, TRUE)
  BY <1>1 DEF Message, Errors, Safe
<1> QED
  BY <1>2, <1>3, <1>4

LEMMA Requests0 ==
  ASSUME RequestInv, NEW r \in Requests
  PROVE  /\ phase[r] \in Phases /\ errors[r] \in Seq(Errors) /\ Len(errors[r]) \in Nat
         /\ DOMAIN errors[r] = 1 .. Len(errors[r]) /\ done[r] \in Nat /\ failures \in Nat
         /\ operation \in [Requests -> {"introspection", "other"}]
         /\ \A i \in 1 .. Len(errors[r]) : errors[r][i] \in Errors
         /\ Progress(phase[r], errors[r], done[r], failures)
         /\ Shown(phase[r], errors[r], done[r], Apollo)
<1>1. errors[r] \in Seq(Errors)
  BY DEF RequestInv, RequestTypeOK
<1>2. /\ Len(errors[r]) \in Nat /\ DOMAIN errors[r] = 1 .. Len(errors[r])
      /\ \A i \in 1 .. Len(errors[r]) : errors[r][i] \in Errors
  BY <1>1, LenProperties, ElementOfSeq
<1> QED
  BY <1>1, <1>2 DEF RequestInv, RequestTypeOK

LEMMA HooksBeforeErrors ==
  ASSUME RequestInv, NEW r \in Requests,
         \/ requestDidStart(r) \/ parsingDidStart(r) \/ parsingDidEnd(r)
         \/ validationDidStart(r) \/ executionDidStart(r) \/ ExecutionEnds(r)
  PROVE  RequestInv'
<1> USE Requests0
<1>1. CASE requestDidStart(r)
  <2>1. /\ phase' = [phase EXCEPT ![r] = "parsing"] /\ phase[r] = "new"
        /\ operation' \in [Requests -> {"introspection", "other"}]
        /\ UNCHANGED <<errors, done, failures, plugin>>
    BY <1>1 DEF requestDidStart, Goes, settings
  <2>2. /\ Progress("parsing", errors[r], done[r], failures)
        /\ Shown("parsing", errors[r], done[r], Apollo) /\ "parsing" \in Phases
    BY <2>1 DEF Progress, Shown, Phases
  <2> QED
    BY <2>1, <2>2, PhaseMoves
<1>2. CASE parsingDidStart(r)
  <2>1. phase[r] = "parsing" /\ UNCHANGED <<done, plugin>>
        /\ operation' \in [Requests -> {"introspection", "other"}]
    BY <1>2 DEF parsingDidStart, settings
  <2>2. CASE Goes(r, "validating") /\ UNCHANGED <<errors, failures>>
    <3>1. /\ Progress("validating", errors[r], done[r], failures)
          /\ Shown("validating", errors[r], done[r], Apollo) /\ "validating" \in Phases
      BY <2>1 DEF Progress, Shown, Phases
    <3> QED
      BY <2>1, <2>2, <3>1, PhaseMoves DEF Goes
  <2>3. CASE Goes(r, "unparsable") /\ FailsWith(r, <<Raw(FALSE)>>)
    <3> DEFINE es == <<Raw(FALSE)>>
    <3>1. es \in Seq(Errors) /\ Len(es) = 1 /\ \A i \in 1 .. 1 : es[i].message = "raw"
      BY ThrownErrors
    <3> HIDE DEF es
    <3>2. FailsWith(r, es)
      BY <2>3 DEF es
    <3>3. Len(es) > 0 /\ \A i \in 1 .. Len(es) : es[i].message = "raw"
      BY <3>1
    <3>4. Goes(r, "unparsable") /\ es \in Seq(Errors) /\ phase[r] \in {"parsing", "validating", "executing"}
      BY <2>1, <2>3, <3>1
    <3> QED
      BY <2>1, <3>2, <3>3, <3>4, RequestThrows
  <2> QED
    BY <1>2, <2>2, <2>3 DEF parsingDidStart
<1>3. CASE parsingDidEnd(r)
  <2>1. /\ phase[r] = "unparsable" /\ UNCHANGED <<operation, errors, done, failures, plugin>>
        /\ operation' \in [Requests -> {"introspection", "other"}]
        /\ \E p \in {"hung", "failing"} : phase' = [phase EXCEPT ![r] = p]
    BY <1>3 DEF parsingDidEnd, logError, Goes, settings
  <2>2. PICK p \in {"hung", "failing"} : phase' = [phase EXCEPT ![r] = p]
    BY <2>1
  <2>3. /\ Progress(p, errors[r], done[r], failures)
        /\ Shown(p, errors[r], done[r], Apollo) /\ p \in Phases
    BY <2>1 DEF Progress, Shown, Phases
  <2> QED
    BY <2>1, <2>2, <2>3, PhaseMoves
<1>4. CASE validationDidStart(r)
  <2>1. phase[r] = "validating" /\ UNCHANGED <<done, plugin>>
        /\ operation' \in [Requests -> {"introspection", "other"}]
    BY <1>4 DEF validationDidStart, settings
  <2>2. CASE Goes(r, "resolved") /\ UNCHANGED <<errors, failures>>
    <3>1. /\ Progress("resolved", errors[r], done[r], failures)
          /\ Shown("resolved", errors[r], done[r], Apollo) /\ "resolved" \in Phases
      BY <2>1 DEF Progress, Shown, Phases
    <3> QED
      BY <2>1, <2>2, <3>1, PhaseMoves DEF Goes
  <2>3. CASE Goes(r, "failing") /\ FailsWith(r, <<Raw(FALSE)>>)
    <3> DEFINE es == <<Raw(FALSE)>>
    <3>1. es \in Seq(Errors) /\ Len(es) = 1 /\ \A i \in 1 .. 1 : es[i].message = "raw"
      BY ThrownErrors
    <3> HIDE DEF es
    <3>2. FailsWith(r, es)
      BY <2>3 DEF es
    <3>3. Len(es) > 0 /\ \A i \in 1 .. Len(es) : es[i].message = "raw"
      BY <3>1
    <3>4. Goes(r, "failing") /\ es \in Seq(Errors) /\ phase[r] \in {"parsing", "validating", "executing"}
      BY <2>1, <2>3, <3>1
    <3> QED
      BY <2>1, <3>2, <3>3, <3>4, RequestThrows
  <2> QED
    BY <1>4, <2>2, <2>3 DEF validationDidStart
<1>5. CASE executionDidStart(r)
  <2>1. /\ phase[r] = "resolved" /\ phase' = [phase EXCEPT ![r] = "executing"]
        /\ operation' \in [Requests -> {"introspection", "other"}]
        /\ UNCHANGED <<errors, done, failures, plugin>>
    BY <1>5 DEF executionDidStart, Goes, settings
  <2>2. /\ Progress("executing", errors[r], done[r], failures)
        /\ Shown("executing", errors[r], done[r], Apollo) /\ "executing" \in Phases
    BY <2>1 DEF Progress, Shown, Phases
  <2> QED
    BY <2>1, <2>2, PhaseMoves
<1>6. CASE ExecutionEnds(r)
  <2>1. /\ phase[r] \in {"executing", "parsing"} /\ UNCHANGED <<done, plugin>>
        /\ operation' \in [Requests -> {"introspection", "other"}]
    BY <1>6 DEF ExecutionEnds, settings
  <2>2. CASE Goes(r, "responding") /\ UNCHANGED <<errors, failures>>
    <3>1. errors[r] = << >> /\ done[r] = 0
      BY <2>1 DEF Progress
    <3>2. /\ Progress("responding", errors[r], done[r], failures)
          /\ Shown("responding", errors[r], done[r], Apollo) /\ "responding" \in Phases
      BY <3>1, EmptySeq DEF Progress, Shown, Phases
    <3> QED
      BY <2>1, <2>2, <3>2, PhaseMoves DEF Goes
  <2>3. CASE /\ Goes(r, "failing")
             /\ \E business \in BOOLEAN, n \in 1 .. 2 :
                  FailsWith(r, SubSeq(<<Raw(business), Raw(FALSE)>>, 1, n))
    <3>1. PICK business \in BOOLEAN, n \in 1 .. 2 :
                  FailsWith(r, SubSeq(<<Raw(business), Raw(FALSE)>>, 1, n))
      BY <2>3
    <3> DEFINE es == SubSeq(<<Raw(business), Raw(FALSE)>>, 1, n)
    <3>2. es \in Seq(Errors) /\ Len(es) = n /\ \A i \in 1 .. n : es[i].message = "raw"
      BY ThrownErrors
    <3>3. FailsWith(r, es) /\ Len(es) > 0
      BY <3>1, <3>2
    <3> HIDE DEF es
    <3> QED
      BY <2>1, <2>3, <3>2, <3>3, RequestThrows
  <2> QED
    BY <1>6, <2>2, <2>3 DEF ExecutionEnds
<1> QED
  BY <1>1, <1>2, <1>3, <1>4, <1>5, <1>6

(* didEncounterErrors: the next error is made fit to be sent, in either    *)
(* plugin; or its logError never settles.                                  *)
LEMMA NextErrorShown ==
  ASSUME RequestInv, NEW r \in Requests, didEncounterErrors(r)
  PROVE  RequestInv'
<1> USE Requests0
<1> DEFINE i == done[r] + 1
           next == IF i = Len(errors[r]) THEN "responding" ELSE "failing"
<1>1. /\ phase[r] = "failing" /\ done' = [done EXCEPT ![r] = i]
      /\ UNCHANGED <<plugin, operation, failures>>
  BY DEF didEncounterErrors, settings
<1>2. i \in 1 .. Len(errors[r]) /\ i \in Nat
  BY <1>1 DEF Progress
<1> DEFINE e == errors[r][i]
<1>3. \E p \in {next, "hung"}, f \in Errors :
        /\ phase' = [phase EXCEPT ![r] = p]
        /\ errors' = [errors EXCEPT ![r] = [@ EXCEPT ![i] = f]]
        /\ p = next => Safe(f, Apollo)
  <2>1. e \in Errors /\ Apollo \in BOOLEAN
    BY <1>2 DEF Apollo
  <2>2. CASE Apollo /\ operation[r] = "introspection"
    <3>1. phase' = [phase EXCEPT ![r] = "hung"] /\ errors' = errors
      BY <2>2 DEF didEncounterErrors, logError, Goes
    <3>2. errors = [errors EXCEPT ![r] = [@ EXCEPT ![i] = e]]
      <4>1. [errors[r] EXCEPT ![i] = e] = errors[r]
        BY <1>2
      <4> QED
        BY <4>1 DEF RequestInv, RequestTypeOK
    <3> QED
      BY <2>1, <3>1, <3>2
  <2>3. CASE Apollo /\ operation[r] # "introspection"
    <3> DEFINE f == [e EXCEPT !.message = Message]
    <3>1. f \in Errors /\ Safe(f, TRUE)
      BY <2>1, SentIsSafe
    <3>2. phase' = [phase EXCEPT ![r] = next] /\ errors' = [errors EXCEPT ![r][i] = f]
      BY <2>3 DEF didEncounterErrors, logError, Goes
    <3> HIDE DEF f
    <3> QED
      BY <2>3, <3>1, <3>2
  <2>4. CASE ~Apollo
    <3> DEFINE f == Sent(r, e)
    <3>1. f \in Errors /\ Safe(f, FALSE)
      BY <2>1, SentIsSafe
    <3>2. phase' = [phase EXCEPT ![r] = next] /\ errors' = [errors EXCEPT ![r][i] = f]
      BY <2>4 DEF didEncounterErrors, Goes
    <3> HIDE DEF f
    <3> QED
      BY <2>1, <2>4, <3>1, <3>2
  <2> QED
    BY <2>2, <2>3, <2>4
<1>4. PICK p \in {next, "hung"} : \E f \in Errors :
        /\ phase' = [phase EXCEPT ![r] = p]
        /\ errors' = [errors EXCEPT ![r] = [@ EXCEPT ![i] = f]]
        /\ p = next => Safe(f, Apollo)
  BY <1>3
<1>5. PICK f \in Errors :
        /\ phase' = [phase EXCEPT ![r] = p]
        /\ errors' = [errors EXCEPT ![r] = [@ EXCEPT ![i] = f]]
        /\ p = next => Safe(f, Apollo)
  BY <1>4
<1> DEFINE es == [errors[r] EXCEPT ![i] = f]
<1>6. /\ es \in Seq(Errors) /\ Len(es) = Len(errors[r])
      /\ \A j \in 1 .. Len(errors[r]) : es[j] = IF j = i THEN f ELSE errors[r][j]
  BY <1>2, ExceptSeq
<1>7. errors' = [errors EXCEPT ![r] = es]
  BY <1>5
<1> HIDE DEF es
<1>8. Progress(p, es, i, failures)
  BY <1>1, <1>2, <1>4, <1>6 DEF Progress
<1>9. Shown(p, es, i, Apollo)
  <2>1. ASSUME p = next, NEW j \in 1 .. i  PROVE  Safe(es[j], Apollo)
    <3>1. j \in 1 .. Len(errors[r]) /\ (j = i \/ j \in 1 .. done[r])
      BY <1>2
    <3>2. j # i => Safe(errors[r][j], Apollo)
      BY <1>1, <3>1 DEF Shown
    <3> QED
      BY <1>5, <1>6, <2>1, <3>1, <3>2
  <2>2. ASSUME NEW j \in 1 .. Len(es), j > i, p = "failing"  PROVE  es[j].message = "raw"
    <3>1. j \in 1 .. Len(errors[r]) /\ j # i /\ j > done[r]
      BY <1>2, <1>6, <2>2
    <3>2. errors[r][j].message = "raw"
      BY <1>1, <3>1 DEF Shown
    <3> QED
      BY <1>6, <3>1, <3>2
  <2>3. p \notin {"answered", "unparsable", "persisting"} /\ (p \in {"failing", "responding"} => p = next)
    BY <1>4
  <2> QED
    BY <2>1, <2>2, <2>3 DEF Shown
<1>10. p \in Phases /\ failures' = failures /\ failures <= MaxErrors /\ UNCHANGED plugin
       /\ operation' \in [Requests -> {"introspection", "other"}]
  BY <1>1, <1>4 DEF Phases, RequestInv, RequestTypeOK
<1>11. failures' \in Nat /\ failures <= failures' /\ failures' <= MaxErrors
  BY <1>10
<1> HIDE DEF i, next
<1> QED
  BY <1>1, <1>2, <1>5, <1>6, <1>7, <1>8, <1>9, <1>10, <1>11, OneRequest

(* Apollo answers with an error of its own.                                *)
LEMMA AnswersWith ==
  ASSUME RequestInv, NEW r \in Requests, NEW e \in Errors, NEW d \in {0, 1, done[r]},
         Safe(e, Apollo), Answered(r, e), MayFail(1), done' = [done EXCEPT ![r] = d]
  PROVE  RequestInv'
<1> USE Requests0
<1>1. /\ phase' = [phase EXCEPT ![r] = "answered"] /\ errors' = [errors EXCEPT ![r] = <<e>>]
      /\ failures' = failures + 1 /\ failures + 1 <= MaxErrors /\ UNCHANGED plugin
      /\ operation' \in [Requests -> {"introspection", "other"}]
  BY DEF Answered, Goes, MayFail, settings
<1>2. d \in Nat /\ d <= failures + 1
  BY DEF Progress
<1>3. failures' \in Nat /\ failures <= failures' /\ failures' <= MaxErrors
  BY <1>1
<1> DEFINE es == <<e>>
<1>4. es \in Seq(Errors) /\ Len(es) = 1 /\ \A i \in 1 .. 1 : es[i] = e
  OBVIOUS
<1>5. errors' = [errors EXCEPT ![r] = es]
  BY <1>1
<1> HIDE DEF es
<1>6. Progress("answered", es, d, failures') /\ Shown("answered", es, d, Apollo)
      /\ "answered" \in Phases
  BY <1>1, <1>2, <1>4 DEF Progress, Shown, Phases
<1> QED
  BY <1>1, <1>2, <1>3, <1>4, <1>5, <1>6, OneRequest

LEMMA RequestStep == RequestInv /\ [Next]_vars => RequestInv'
<1> SUFFICES ASSUME RequestInv, [Next]_vars  PROVE  RequestInv'
  OBVIOUS
<1> USE Requests0
<1>1. ASSUME UNCHANGED <<plugin, phase, operation, errors, done, failures>>  PROVE  RequestInv'
  BY <1>1 DEF RequestInv, RequestTypeOK, Apollo
<1>2. ASSUME NEW r \in Requests, willSendResponse(r)  PROVE  RequestInv'
  <2>1. /\ phase[r] = "responding" /\ UNCHANGED <<errors, done, failures, plugin>>
        /\ operation' \in [Requests -> {"introspection", "other"}]
        /\ \E p \in {"persisting", "answered"} : phase' = [phase EXCEPT ![r] = p]
    BY <1>2 DEF willSendResponse, Goes, settings
  <2>2. PICK p \in {"persisting", "answered"} : phase' = [phase EXCEPT ![r] = p]
    BY <2>1
  <2>3. /\ Progress(p, errors[r], done[r], failures)
        /\ Shown(p, errors[r], done[r], Apollo) /\ p \in Phases
    BY <2>1 DEF Progress, Shown, Phases
  <2> QED
    BY <2>1, <2>2, <2>3, PhaseMoves
<1>3. ASSUME NEW r \in Requests, ResponsePersisted(r)  PROVE  RequestInv'
  <2>1. /\ phase[r] = "persisting" /\ UNCHANGED <<errors, done, failures, plugin>>
        /\ operation' \in [Requests -> {"introspection", "other"}]
        /\ phase' = [phase EXCEPT ![r] = "answered"]
    BY <1>3 DEF ResponsePersisted, Goes, settings
  <2>2. /\ Progress("answered", errors[r], done[r], failures)
        /\ Shown("answered", errors[r], done[r], Apollo) /\ "answered" \in Phases
    BY <2>1 DEF Progress, Shown, Phases
  <2> QED
    BY <2>1, <2>2, PhaseMoves
<1>4. ASSUME NEW r \in Requests, unexpectedErrorProcessingRequest(r)  PROVE  RequestInv'
  <2> DEFINE e == [business |-> FALSE, message |-> "internal", stack |-> FALSE]
  <2>1. e \in Errors /\ Safe(e, Apollo)
    BY DEF Errors, Safe
  <2> HIDE DEF e
  <2>2. Answered(r, e) /\ MayFail(1) /\ done' = [done EXCEPT ![r] = done[r]]
    BY <1>4 DEF unexpectedErrorProcessingRequest, e, RequestInv, RequestTypeOK
  <2> QED
    BY <2>1, <2>2, AnswersWith
<1>5. ASSUME NEW r \in Requests, logsServerError(r)  PROVE  RequestInv'
  <2> DEFINE e == Enriched(Raw(FALSE))
  <2>1. ~Apollo /\ Answered(r, e) /\ MayFail(1) /\ done' = [done EXCEPT ![r] = 1]
    BY <1>5 DEF logsServerError
  <2>2. e \in Errors /\ Safe(e, FALSE)
    BY ThrownErrors, SentIsSafe
  <2> HIDE DEF e
  <2>3. Safe(e, Apollo)
    BY <2>1, <2>2 DEF Safe
  <2> QED
    BY <2>1, <2>2, <2>3, AnswersWith
<1>6. ASSUME NEW r \in Requests, \/ ResolverHands(r) \/ ResolverLogs(r) \/ ResolverClears(r)
                                \/ ResolverPersisted(r)
      PROVE  RequestInv'
  BY <1>1, <1>6 DEF ResolverHands, ResolverLogs, ResolverClears, ResolverCalls,
     ResolverPersisted, settings, requestVars
<1>7. CASE Ticks \/ Closes \/ TransportEnds \/ \E f \in {"loop", "close"} : Flushes(f)
  BY <1>1, <1>7 DEF Ticks, Closes, TransportEnds, Flushes, settings, requestVars
<1>9. ASSUME NEW r \in Requests, ResolverHangs(r)  PROVE  RequestInv'
  <2>1. /\ phase[r] = "executing" /\ phase' = [phase EXCEPT ![r] = "stuck"]
        /\ UNCHANGED <<operation, errors, done, failures, plugin>>
        /\ operation' \in [Requests -> {"introspection", "other"}]
    BY <1>9 DEF ResolverHangs, Goes, settings
  <2>2. /\ Progress("stuck", errors[r], done[r], failures)
        /\ Shown("stuck", errors[r], done[r], Apollo) /\ "stuck" \in Phases
    BY <2>1 DEF Progress, Shown, Phases
  <2> QED
    BY <2>1, <2>2, PhaseMoves
<1>8. CASE UNCHANGED vars
  BY <1>1, <1>8 DEF vars, settings, requestVars
<1> QED
  BY <1>2, <1>3, <1>4, <1>5, <1>6, <1>7, <1>8, <1>9, HooksBeforeErrors, NextErrorShown
     DEF Next, Proceeds

(* What a step means to the queue.                                         *)
LEMMA QueueMoves ==
  ASSUME [Next]_vars
  PROVE  \/ UNCHANGED transportVars
         \/ Transport!Enqueue \/ Transport!IntervalEnds \/ Transport!Close
         \/ Transport!ThreadEnds
         \/ \E f \in {"loop", "close"} : Transport!InsertEnds(f)
<1>1. ASSUME NEW r \in Requests, requestDidStart(r) \/ logsServerError(r)
      PROVE  UNCHANGED transportVars \/ Transport!Enqueue
  BY <1>1 DEF requestDidStart, logsServerError, Writes, Silent
<1>2. ASSUME NEW r \in Requests, didEncounterErrors(r) \/ unexpectedErrorProcessingRequest(r)
      PROVE  UNCHANGED transportVars \/ Transport!Enqueue
  BY <1>2 DEF didEncounterErrors, unexpectedErrorProcessingRequest, LogsError, Writes, Silent
<1>3. ASSUME NEW r \in Requests,
             \/ parsingDidStart(r) \/ parsingDidEnd(r) \/ validationDidStart(r)
             \/ executionDidStart(r) \/ ExecutionEnds(r)
             \/ willSendResponse(r) \/ ResponsePersisted(r)
             \/ ResolverHands(r) \/ ResolverLogs(r) \/ ResolverClears(r)
             \/ ResolverPersisted(r) \/ ResolverHangs(r)
      PROVE  UNCHANGED transportVars
  BY <1>3 DEF parsingDidStart, parsingDidEnd, validationDidStart, executionDidStart, ExecutionEnds,
              willSendResponse, ResponsePersisted, ResolverHands, ResolverLogs, ResolverClears,
              ResolverCalls, ResolverPersisted, ResolverHangs
<1>4. CASE UNCHANGED vars
  BY <1>4 DEF vars
<1>5. CASE Ticks \/ Closes \/ TransportEnds \/ \E f \in {"loop", "close"} : Flushes(f)
  BY <1>5 DEF Ticks, Closes, TransportEnds, Flushes
<1> QED
  BY <1>1, <1>2, <1>3, <1>4, <1>5 DEF Next, Proceeds

LEMMA QueueStep == QueueInv /\ [Next]_vars => QueueInv'
<1> SUFFICES ASSUME QueueInv, [Next]_vars  PROVE  QueueInv'
  OBVIOUS
<1>1. CASE UNCHANGED transportVars
  BY <1>1 DEF transportVars, QueueInv, QueueTypeOK, FlushesInv, PlacesInv, LineInv
<1> QED
  BY <1>1, QueueMoves, EnqueueStep, IntervalStep, CloseStep, ThreadStep, InsertStep

----------------------------------------------------------------------------
(* The records of pino-apollo.                                             *)

LEMMA RecordAppended ==
  ASSUME records \in Seq(Records), NEW rec \in Records, records' = Append(records, rec)
  PROVE  /\ records' \in Seq(Records) /\ Len(records) \in Nat
         /\ DOMAIN records = 1 .. Len(records)
         /\ DOMAIN records' = DOMAIN records \cup {Len(records) + 1}
         /\ Len(records) + 1 \notin DOMAIN records
         /\ records'[Len(records) + 1] = rec
         /\ \A n \in DOMAIN records : records'[n] = records[n]
<1> HIDE DEF Records
<1>1. /\ records' \in Seq(Records) /\ Len(records') = Len(records) + 1
      /\ records'[Len(records) + 1] = rec
      /\ \A n \in 1 .. Len(records) : records'[n] = records[n]
  BY AppendProperties
<1>2. Len(records) \in Nat /\ DOMAIN records = 1 .. Len(records)
      /\ DOMAIN records' = 1 .. Len(records')
  BY <1>1, LenProperties
<1>3. 1 .. Len(records') = 1 .. Len(records) \cup {Len(records) + 1}
      /\ Len(records) + 1 \notin 1 .. Len(records)
  BY <1>1, <1>2
<1> QED
  BY <1>1, <1>2, <1>3

LEMMA RecordsAreOfRequests ==
  ASSUME RecordsInv
  PROVE  \A n \in DOMAIN records : records[n].of \in Requests
<1>1. \A n \in DOMAIN records : records[n] \in Records
  <2> HIDE DEF Records
  <2> QED
    BY LenProperties, ElementOfSeq DEF RecordsInv
<1> QED
  BY <1>1 DEF Records

SeesNothing(q) ==
  /\ done[q] \in Nat /\ done'[q] \in Nat /\ done[q] <= done'[q]
  /\ ~Apollo /\ closer = "open" /\ operation'[q] = "other" =>
       done'[q] = done[q] /\ (operation[q] = "other" \/ done[q] = 0)

(* A step that logs nothing, and sees no error that has to be logged.      *)
LEMMA NothingLogged ==
  ASSUME RecordsInv, RequestInv, UNCHANGED <<plugin, records>>,
         closer' = "open" => closer = "open",
         \A q \in Requests : SeesNothing(q)
  PROVE  RecordsInv'
<1>1. \A n \in DOMAIN records : records[n].of \in Requests
  BY RecordsAreOfRequests
<1>2. \A n \in DOMAIN records :
        records[n].error \in 0 .. done'[records[n].of] \cup {MaxErrors + 1}
  <2> SUFFICES ASSUME NEW n \in DOMAIN records, NEW d, NEW e, d = done[records[n].of],
                      e = done'[records[n].of]
               PROVE  records[n].error \in 0 .. e \cup {MaxErrors + 1}
    OBVIOUS
  <2>1. records[n].error \in 0 .. d \cup {MaxErrors + 1}
    BY DEF RecordsInv
  <2>2. d \in Nat /\ e \in Nat /\ d <= e
    BY <1>1 DEF SeesNothing
  <2>3. 0 .. d \subseteq 0 .. e
    BY <2>2
  <2> QED
    BY <2>1, <2>3
<1>3. ASSUME ~Apollo, closer' = "open", NEW q \in Requests, operation'[q] = "other",
             NEW i \in 1 .. done'[q]
      PROVE  LoggedOnce(q, i)
  <2>1. done'[q] = done[q] /\ operation[q] = "other"
    <3>1. done'[q] = done[q] /\ (operation[q] = "other" \/ done[q] = 0)
      BY <1>3 DEF SeesNothing
    <3>2. done[q] # 0
      BY <1>3, <3>1
    <3> QED
      BY <3>1, <3>2
  <2>2. i \in 1 .. done[q] /\ closer = "open"
    BY <1>3, <2>1
  <2> QED
    BY <1>3, <2>1, <2>2 DEF RecordsInv
<1>4. \A q \in Requests : \A i : LoggedOnce(q, i) => LoggedOnce(q, i)'
  BY DEF LoggedOnce
<1> QED
  BY <1>2, <1>3, <1>4 DEF RecordsInv, Apollo

(* A step that logs something else than the next error.                    *)
LEMMA OtherLogged ==
  ASSUME RecordsInv, RequestInv, UNCHANGED <<plugin, closer, done>>,
         NEW r \in Requests, NEW i \in {0, MaxErrors + 1}, NEW m \in Messages,
         records' = Append(records, [of |-> r, error |-> i, message |-> m]),
         \A q \in Requests : operation'[q] = "other" => operation[q] = "other" \/ done[q] = 0
  PROVE  RecordsInv'
<1> DEFINE rec == [of |-> r, error |-> i, message |-> m]
           n == Len(records) + 1
<1>1. rec \in Records /\ rec.of = r /\ rec.error = i
  BY LoggingAssumption DEF Records
<1> HIDE DEF rec
<1>2. /\ records' \in Seq(Records) /\ DOMAIN records' = DOMAIN records \cup {n}
      /\ n \notin DOMAIN records /\ records'[n] = rec
      /\ \A k \in DOMAIN records : records'[k] = records[k]
  BY <1>1, RecordAppended DEF RecordsInv, rec
<1> HIDE DEF n
<1>3. \A q \in Requests : done[q] \in Nat /\ done[q] <= MaxErrors
  BY LoggingAssumption DEF RequestInv, RequestTypeOK, Progress
<1>4. \A k \in DOMAIN records' :
        records'[k].error \in 0 .. done'[records'[k].of] \cup {MaxErrors + 1}
  <2>1. rec.error \in 0 .. done'[rec.of] \cup {MaxErrors + 1}
    BY <1>1, <1>3
  <2> QED
    BY <1>2, <2>1 DEF RecordsInv
<1>5. ASSUME NEW q \in Requests, NEW j \in 1 .. done[q], LoggedOnce(q, j)  PROVE  LoggedOnce(q, j)'
  <2>1. rec.error # j
    BY <1>1, <1>3, LoggingAssumption
  <2> QED
    BY <1>2, <1>5, <2>1 DEF LoggedOnce
<1>6. ASSUME ~Apollo, closer = "open", NEW q \in Requests, operation'[q] = "other",
             NEW j \in 1 .. done[q]
      PROVE  LoggedOnce(q, j)'
  <2>1. operation[q] = "other"
    BY <1>3, <1>6
  <2> QED
    BY <1>5, <1>6, <2>1 DEF RecordsInv
<1> QED
  BY <1>2, <1>4, <1>6 DEF RecordsInv, Apollo

(* A step that logs the next error as it was thrown.                       *)
LEMMA ErrorLogged ==
  ASSUME RecordsInv, RequestInv, UNCHANGED <<plugin, closer, operation>>,
         NEW r \in Requests, NEW i, i = done[r] + 1, i <= MaxErrors,
         done' = [done EXCEPT ![r] = i],
         records' = Append(records, [of |-> r, error |-> i, message |-> "raw"])
  PROVE  RecordsInv'
<1> DEFINE rec == [of |-> r, error |-> i, message |-> "raw"]
           n == Len(records) + 1
<1>1. \A q \in Requests : done[q] \in Nat
  BY DEF RequestInv, RequestTypeOK
<1>2. done'[r] = i /\ i \in Nat /\ \A q \in Requests \ {r} : done'[q] = done[q]
  BY <1>1 DEF RequestInv, RequestTypeOK
<1>3. rec \in Records /\ rec.of = r /\ rec.error = i
  BY <1>2 DEF Records, Messages
<1>4. /\ records' \in Seq(Records) /\ DOMAIN records' = DOMAIN records \cup {n}
      /\ n \notin DOMAIN records /\ records'[n] = rec
      /\ \A k \in DOMAIN records : records'[k] = records[k]
  <2>1. records' = Append(records, rec)
    OBVIOUS
  <2> HIDE DEF rec
  <2> QED
    BY <1>3, <2>1, RecordAppended DEF RecordsInv
<1>5. \A k \in DOMAIN records : records[k].of \in Requests
  BY RecordsAreOfRequests
<1> HIDE DEF n, rec
<1>6. \A k \in DOMAIN records' :
        records'[k].error \in 0 .. done'[records'[k].of] \cup {MaxErrors + 1}
  <2>1. rec.error \in 0 .. done'[rec.of]
    BY <1>2, <1>3
  <2>2. ASSUME NEW k \in DOMAIN records
        PROVE  records[k].error \in 0 .. done'[records[k].of] \cup {MaxErrors + 1}
    <3>1. records[k].error \in 0 .. done[records[k].of] \cup {MaxErrors + 1}
      BY DEF RecordsInv
    <3>2. done[records[k].of] \in Nat /\ done'[records[k].of] \in Nat
          /\ done[records[k].of] <= done'[records[k].of]
      BY <1>1, <1>2, <1>5
    <3> QED
      BY <3>1, <3>2
  <2> QED
    BY <1>4, <2>1, <2>2
<1>7. ASSUME NEW k \in DOMAIN records, records[k].of = r  PROVE  records[k].error # i
  BY <1>1, <1>7, LoggingAssumption, SMTT(30) DEF RecordsInv
<1>8. LoggedOnce(r, i)'
  BY <1>3, <1>4, <1>7 DEF LoggedOnce, rec
<1>9. ASSUME NEW q \in Requests, NEW j, q # r \/ j # i, LoggedOnce(q, j)  PROVE  LoggedOnce(q, j)'
  BY <1>3, <1>4, <1>9 DEF LoggedOnce
<1>10. ASSUME ~Apollo, closer = "open", NEW q \in Requests, operation[q] = "other",
              NEW j \in 1 .. done'[q]
       PROVE  LoggedOnce(q, j)'
  <2>1. (q = r /\ j = i) \/ (j \in 1 .. done[q] /\ (q # r \/ j # i))
    BY <1>1, <1>2
  <2> QED
    BY <1>8, <1>9, <1>10, <2>1 DEF RecordsInv
<1> QED
  BY <1>4, <1>6, <1>10 DEF RecordsInv, Apollo

LEMMA RecordsInit == Init => RecordsInv
<1> SUFFICES ASSUME Init  PROVE  RecordsInv
  OBVIOUS
<1>1. records = << >> /\ \A r \in Requests : done[r] = 0
  BY DEF Init, Of
<1>2. << >> \in Seq(Records) /\ DOMAIN << >> = {}
  BY EmptySeq
<1>3. 1 .. 0 = {}
  OBVIOUS
<1> QED
  BY <1>1, <1>2, <1>3 DEF RecordsInv

(* The transport never opens again.                                        *)
LEMMA ClosedForGood ==
  ASSUME QueueInv, [Next]_vars, closer' = "open"
  PROVE  closer = "open"
<1>1. CASE UNCHANGED transportVars
  BY <1>1 DEF transportVars
<1>2. ASSUME NEW f \in {"loop", "close"}, Transport!InsertEnds(f)  PROVE  closer = "open"
  BY <1>2 DEF Transport!InsertEnds, Transport!CloserMoves
<1>3. CASE \/ Transport!Enqueue \/ Transport!IntervalEnds \/ Transport!Close
            \/ Transport!ThreadEnds
  BY <1>3 DEF Transport!Enqueue, Transport!IntervalEnds, Transport!Close, Transport!ThreadEnds
<1> QED
  BY <1>1, <1>2, <1>3, QueueMoves

LEMMA QuietForRecords ==
  ASSUME RecordsInv, RequestInv, UNCHANGED <<plugin, records, done>>,
         closer' = "open" => closer = "open",
         \A q \in Requests : operation'[q] = "other" => operation[q] = "other" \/ done[q] = 0
  PROVE  RecordsInv'
<1>1. \A q \in Requests : SeesNothing(q)
  BY DEF SeesNothing, RequestInv, RequestTypeOK
<1> QED
  BY <1>1, NothingLogged

LEMMA RecordsStep == QueueInv /\ RequestInv /\ RecordsInv /\ [Next]_vars => RecordsInv'
<1> SUFFICES ASSUME QueueInv, RequestInv, RecordsInv, [Next]_vars  PROVE  RecordsInv'
  OBVIOUS
<1>0. closer' = "open" => closer = "open"
  BY ClosedForGood
<1>1. ASSUME UNCHANGED <<plugin, records, done, operation>>  PROVE  RecordsInv'
  BY <1>0, <1>1, QuietForRecords
<1>2. ASSUME NEW r \in Requests, requestDidStart(r)  PROVE  RecordsInv'
  <2>1. /\ UNCHANGED <<plugin, done>> /\ phase[r] = "new" /\ done[r] = 0
        /\ \A q \in Requests : operation'[q] = "other" => operation[q] = "other" \/ done[q] = 0
    <3>1. phase[r] = "new" /\ done[r] = 0
      BY <1>2, Requests0 DEF requestDidStart, Progress
    <3>2. \A q \in Requests \ {r} : operation'[q] = operation[q]
      BY <1>2 DEF requestDidStart, RequestInv, RequestTypeOK
    <3> QED
      BY <1>2, <3>1, <3>2 DEF requestDidStart, settings
  <2>2. \/ UNCHANGED records
        \/ UNCHANGED closer /\ records' = Append(records, [of |-> r, error |-> 0, message |-> "started"])
    BY <1>2 DEF requestDidStart, Silent, Writes, Transport!Enqueue
  <2>3. "started" \in Messages
    BY DEF Messages
  <2> QED
    BY <1>0, <2>1, <2>2, <2>3, QuietForRecords, OtherLogged
<1>3. ASSUME NEW r \in Requests, logsServerError(r)  PROVE  RecordsInv'
  <2>1. /\ UNCHANGED <<plugin, operation>> /\ phase[r] = "new" /\ done' = [done EXCEPT ![r] = 1]
        /\ failures + 1 <= MaxErrors
    BY <1>3 DEF logsServerError, Answered, settings, MayFail
  <2>2. done[r] = 0 /\ failures \in Nat /\ 1 = done[r] + 1 /\ 1 <= MaxErrors
    BY <2>1, Requests0, LoggingAssumption DEF Progress
  <2>3. CASE closer = "open"
    <3>1. UNCHANGED closer /\ records' = Append(records, [of |-> r, error |-> 1, message |-> "raw"])
      BY <1>3, <2>3 DEF logsServerError, Writes, Transport!Enqueue
    <3> QED
      BY <2>1, <2>2, <3>1, ErrorLogged
  <2>4. CASE closer # "open"
    <3>1. UNCHANGED records
      BY <1>3, <2>4 DEF logsServerError, Writes
    <3>2. \A q \in Requests : SeesNothing(q)
      BY <2>1, <2>2, <2>4 DEF SeesNothing, RequestInv, RequestTypeOK
    <3> QED
      BY <1>0, <2>1, <3>1, <3>2, NothingLogged
  <2> QED
    BY <2>3, <2>4
<1>4. ASSUME NEW r \in Requests, unexpectedErrorProcessingRequest(r)  PROVE  RecordsInv'
  <2>1. /\ UNCHANGED <<plugin, operation, done>>
        /\ \/ UNCHANGED records
           \/ /\ UNCHANGED closer
              /\ records' = Append(records, [of |-> r, error |-> MaxErrors + 1, message |-> "raw"])
    <3>1. UNCHANGED <<plugin, operation, done>>
      BY <1>4 DEF unexpectedErrorProcessingRequest, Answered, settings
    <3>2. Silent \/ Writes(r, MaxErrors + 1, "raw")
      BY <1>4, ThrownErrors DEF unexpectedErrorProcessingRequest, LogsError
    <3> QED
      BY <3>1, <3>2 DEF Silent, Writes, Transport!Enqueue
  <2>2. "raw" \in Messages
    BY DEF Messages
  <2>3. MaxErrors + 1 \in {0, MaxErrors + 1}
    OBVIOUS
  <2> QED
    BY <1>1, <2>1, <2>2, <2>3, OtherLogged
<1>5. ASSUME NEW r \in Requests, didEncounterErrors(r)  PROVE  RecordsInv'
  <2> DEFINE i == done[r] + 1
  <2>1. /\ phase[r] = "failing" /\ done' = [done EXCEPT ![r] = i]
        /\ UNCHANGED <<plugin, operation>>
    BY <1>5 DEF didEncounterErrors, settings
  <2>2. i \in 1 .. Len(errors[r]) /\ i > done[r] /\ i <= MaxErrors /\ errors[r][i].message = "raw"
        /\ done[r] \in Nat /\ i \in Nat
    <3>1. /\ done[r] < Len(errors[r]) /\ Len(errors[r]) <= failures /\ failures <= MaxErrors
          /\ done[r] \in Nat /\ Len(errors[r]) \in Nat /\ failures \in Nat
      BY <2>1, Requests0 DEF Progress, RequestInv, RequestTypeOK
    <3>2. i \in 1 .. Len(errors[r]) /\ i > done[r] /\ i <= MaxErrors
      BY <3>1, LoggingAssumption
    <3> QED
      BY <2>1, <3>1, <3>2, Requests0 DEF Shown
  <2>3. CASE Apollo \/ operation[r] = "introspection" \/ closer # "open"
    <3>1. UNCHANGED records
      BY <1>5, <2>3 DEF didEncounterErrors, Silent, LogsError, Writes
    <3>2. operation'[r] = operation[r]
      BY <2>1
    <3>3. \A q \in Requests : SeesNothing(q)
      BY <2>1, <2>2, <2>3, <3>2 DEF SeesNothing, RequestInv, RequestTypeOK
    <3> QED
      BY <1>0, <2>1, <3>1, <3>3, NothingLogged
  <2>4. CASE ~Apollo /\ operation[r] # "introspection" /\ closer = "open"
    <3>1. UNCHANGED closer /\ records' = Append(records, [of |-> r, error |-> i, message |-> "raw"])
      BY <1>5, <2>2, <2>4 DEF didEncounterErrors, LogsError, Writes, Transport!Enqueue
    <3> HIDE DEF i
    <3> QED
      BY <2>1, <2>2, <3>1, ErrorLogged DEF i
  <2> QED
    BY <2>3, <2>4
<1>6. ASSUME NEW r \in Requests, ExecutionEnds(r)  PROVE  RecordsInv'
  <2>1. UNCHANGED <<plugin, records, done>> /\ phase[r] \in {"executing", "parsing"}
    BY <1>6 DEF ExecutionEnds, settings
  <2>2. done[r] = 0 /\ \A q \in Requests \ {r} : operation'[q] = operation[q]
    BY <1>6, <2>1, Requests0 DEF ExecutionEnds, Progress, RequestInv, RequestTypeOK
  <2> QED
    BY <1>0, <2>1, <2>2, QuietForRecords
<1>7. ASSUME NEW r \in Requests,
             \/ parsingDidStart(r) \/ parsingDidEnd(r) \/ validationDidStart(r)
             \/ executionDidStart(r) \/ willSendResponse(r) \/ ResponsePersisted(r)
             \/ ResolverHands(r) \/ ResolverLogs(r) \/ ResolverClears(r)
             \/ ResolverPersisted(r) \/ ResolverHangs(r)
      PROVE  RecordsInv'
  BY <1>1, <1>7 DEF parsingDidStart, parsingDidEnd, validationDidStart, executionDidStart,
     willSendResponse, ResponsePersisted, ResolverHands, ResolverLogs, ResolverClears,
     ResolverCalls, ResolverPersisted, ResolverHangs, settings, requestVars
<1>8. CASE UNCHANGED vars
  BY <1>1, <1>8 DEF vars, settings, requestVars
<1>9. CASE Ticks \/ Closes \/ TransportEnds \/ \E f \in {"loop", "close"} : Flushes(f)
  BY <1>1, <1>9 DEF Ticks, Closes, TransportEnds, Flushes, settings, requestVars
<1> QED
  BY <1>2, <1>3, <1>4, <1>5, <1>6, <1>7, <1>8, <1>9 DEF Next, Proceeds

----------------------------------------------------------------------------
(* The logs of apollo-logger.                                              *)

LEMMA ContextInit == Init => ContextInv
<1> SUFFICES ASSUME Init  PROVE  ContextInv
  OBVIOUS
<1>1. (persists => Apollo) /\ ContextTypeOK
  BY DEF Init, Of, Apollo, ContextTypeOK
<1>2. \A r \in Requests : phase[r] = "new" /\ due[r] = {} /\ persisting[r] = 0
  BY DEF Init, Of
<1> QED
  BY <1>1, <1>2 DEF ContextInv, Handed

(* A step in the context of one request.                                   *)
LEMMA OneContext ==
  ASSUME ContextInv, NEW r \in Requests, ContextTypeOK', UNCHANGED <<plugin, persists>>,
         \A q \in Requests \ {r} :
           /\ phase'[q] = phase[q] /\ errors'[q] = errors[q]
           /\ logs'[q] = logs[q] /\ due'[q] = due[q] /\ persisting'[q] = persisting[q],
         persists => Handed(phase'[r], errors'[r], logs'[r], due'[r], persisting'[r])
  PROVE  ContextInv'
<1>1. ASSUME persists, NEW q \in Requests
      PROVE  Handed(phase'[q], errors'[q], logs'[q], due'[q], persisting'[q])
  BY <1>1 DEF ContextInv
<1> QED
  BY <1>1 DEF ContextInv, Apollo

(* What becomes of a context when a log is appended to it, when its logs   *)
(* are handed over too, and when they are cleared by a logError.           *)
LEMMA AppendedLogs ==
  ASSUME ContextInv, NEW r \in Requests, Appends(r)
  PROVE  /\ appended' \in [Requests -> Nat] /\ logs' \in [Requests -> SUBSET Nat]
         /\ appended'[r] \in Nat /\ logs'[r] = logs[r] \cup {appended'[r]}
         /\ \A q \in Requests \ {r} : logs'[q] = logs[q]
<1>1. /\ appended' = [appended EXCEPT ![r] = @ + 1] /\ appended \in [Requests -> Nat]
      /\ logs' = [logs EXCEPT ![r] = @ \cup {appended'[r]}] /\ logs \in [Requests -> SUBSET Nat]
  BY DEF Appends, ContextInv, ContextTypeOK
<1>2. appended' \in [Requests -> Nat] /\ appended'[r] \in Nat
  BY <1>1
<1> QED
  BY <1>1, <1>2

LEMMA AppendedDue ==
  ASSUME ContextInv, NEW r \in Requests, AppendsDue(r), UNCHANGED persisting
  PROVE  /\ ContextTypeOK'
         /\ \A q \in Requests \ {r} : logs'[q] = logs[q] /\ due'[q] = due[q]
         /\ due[r] \subseteq logs[r] => due'[r] \subseteq logs'[r]
<1>1. /\ appended' \in [Requests -> Nat] /\ logs' \in [Requests -> SUBSET Nat]
      /\ appended'[r] \in Nat /\ logs'[r] = logs[r] \cup {appended'[r]}
      /\ \A q \in Requests \ {r} : logs'[q] = logs[q]
  BY AppendedLogs DEF AppendsDue
<1>2. /\ due' = [due EXCEPT ![r] = @ \cup {appended'[r]}] /\ due \in [Requests -> SUBSET Nat]
      /\ persisting' \in [Requests -> Nat]
  BY DEF AppendsDue, ContextInv, ContextTypeOK
<1> QED
  BY <1>1, <1>2 DEF ContextTypeOK

LEMMA HandedLogs ==
  ASSUME ContextInv, NEW r \in Requests, Hands(r)
  PROVE  /\ appended' \in [Requests -> Nat] /\ logs' \in [Requests -> SUBSET Nat]
         /\ due' \in [Requests -> SUBSET Nat]
         /\ \A q \in Requests \ {r} : logs'[q] = logs[q] /\ due'[q] = due[q]
         /\ due[r] \subseteq logs[r] => due'[r] = {}
<1>1. /\ appended' \in [Requests -> Nat] /\ logs' \in [Requests -> SUBSET Nat]
      /\ logs'[r] = logs[r] \cup {appended'[r]}
      /\ \A q \in Requests \ {r} : logs'[q] = logs[q]
  BY AppendedLogs DEF Hands
<1>2. due' = [due EXCEPT ![r] = @ \ logs'[r]] /\ due \in [Requests -> SUBSET Nat]
  BY DEF Hands, ContextInv, ContextTypeOK
<1> QED
  BY <1>1, <1>2

LEMMA ClearedLogs ==
  ASSUME ContextInv, NEW r \in Requests, logDbError(r)
  PROVE  /\ ContextTypeOK' /\ UNCHANGED persisting
         /\ \A q \in Requests \ {r} : logs'[q] = logs[q] /\ due'[q] = due[q]
         /\ due'[r] = due[r] \ logs[r]
BY DEF logDbError, ContextInv, ContextTypeOK

(* What a hook's own log does to its context.                              *)
LEMMA PluginLogged ==
  ASSUME ContextInv, NEW r \in Requests, NEW name, NEW level, PluginLogs(r, name, level)
  PROVE  /\ ContextTypeOK' /\ UNCHANGED persisting
         /\ \A q \in Requests \ {r} : logs'[q] = logs[q] /\ due'[q] = due[q]
         /\ due[r] \subseteq logs[r] => due'[r] \subseteq logs'[r]
<1>1. UNCHANGED persisting /\ (AppendsDue(r) \/ UNCHANGED <<appended, logs, due>>)
  BY DEF PluginLogs
<1>2. CASE UNCHANGED <<appended, logs, due>>
  BY <1>1, <1>2 DEF ContextInv, ContextTypeOK
<1> QED
  BY <1>1, <1>2, AppendedDue

(* Of a request with errors nothing is claimed.                            *)
LEMMA WithErrors ==
  ASSUME ContextInv, NEW r \in Requests, errors'[r] # << >>, ContextTypeOK',
         UNCHANGED <<plugin, persists>>,
         \A q \in Requests \ {r} :
           /\ phase'[q] = phase[q] /\ errors'[q] = errors[q]
           /\ logs'[q] = logs[q] /\ due'[q] = due[q] /\ persisting'[q] = persisting[q]
  PROVE  ContextInv'
BY OneContext DEF Handed

LEMMA EarlyHookLogged ==
  ASSUME ContextInv, RequestInv, NEW r \in Requests, NEW name, NEW level,
         PluginLogs(r, name, level), UNCHANGED <<plugin, persists>>,
         phase[r] \in {"new", "parsing", "validating", "resolved"},
         NEW p \in {"parsing", "validating", "resolved", "executing", "unparsable", "failing"},
         Goes(r, p),
         UNCHANGED errors \/ \E es \in Seq(Errors) : Len(es) > 0 /\ FailsWith(r, es)
  PROVE  ContextInv'
<1>1. /\ ContextTypeOK' /\ UNCHANGED persisting
      /\ \A q \in Requests \ {r} : logs'[q] = logs[q] /\ due'[q] = due[q]
      /\ due[r] \subseteq logs[r] => due'[r] \subseteq logs'[r]
  BY PluginLogged
<1>2. phase'[r] = p /\ \A q \in Requests \ {r} : phase'[q] = phase[q]
  BY DEF Goes, RequestInv, RequestTypeOK
<1>3. errors[r] = << >>
  BY Requests0 DEF Progress
<1>4. CASE UNCHANGED errors
  <2>1. persists => Handed(phase[r], errors[r], logs[r], due[r], persisting[r])
    BY DEF ContextInv
  <2>2. persists => due[r] \subseteq logs[r] /\ persisting[r] = 0
    BY <1>3, <2>1 DEF Handed
  <2>3. persists => Handed(p, errors'[r], logs'[r], due'[r], persisting'[r])
    BY <1>1, <2>2 DEF Handed
  <2> QED
    BY <1>1, <1>2, <1>4, <2>3, OneContext
<1>5. ASSUME NEW es \in Seq(Errors), Len(es) > 0, FailsWith(r, es)  PROVE  ContextInv'
  <2>1. errors'[r] = es /\ \A q \in Requests \ {r} : errors'[q] = errors[q]
    BY <1>5 DEF FailsWith, RequestInv, RequestTypeOK
  <2>2. es # << >>
    BY <1>5, EmptySeq
  <2> QED
    BY <1>1, <1>2, <2>1, <2>2, WithErrors
<1> QED
  BY <1>4, <1>5

(* A log of a resolver: while a call that knows nothing of it awaits       *)
(* persistLogsFn it is not due; else it stays in the context until it is   *)
(* handed over.                                                            *)
LEMMA ResolverLogged ==
  ASSUME ContextInv, NEW r \in Requests,
         ResolverHands(r) \/ ResolverLogs(r) \/ ResolverClears(r)
  PROVE  ContextInv'
<1>1. /\ UNCHANGED <<plugin, persists, phase, errors>>
      /\ phase[r] \in {"executing", "responding", "persisting"}
  BY DEF ResolverHands, ResolverLogs, ResolverClears, ResolverCalls, settings, requestVars
<1> DEFINE Held(l, d, w) == Handed(phase[r], errors[r], l, d, w)
<1>2. persists => Held(logs[r], due[r], persisting[r])
  BY DEF ContextInv
<1>3. CASE ResolverHands(r)
  <2>1. Hands(r) /\ persisting' = [persisting EXCEPT ![r] = @ + 1]
    BY <1>3 DEF ResolverHands
  <2>2. /\ ContextTypeOK' /\ persisting'[r] = persisting[r] + 1 /\ persisting[r] \in Nat
        /\ \A q \in Requests \ {r} :
             logs'[q] = logs[q] /\ due'[q] = due[q] /\ persisting'[q] = persisting[q]
        /\ due[r] \subseteq logs[r] => due'[r] = {}
    BY <2>1, HandedLogs DEF ContextInv, ContextTypeOK
  <2>3. persists => Held(logs'[r], due'[r], persisting'[r])
    BY <1>1, <1>2, <2>2 DEF Handed
  <2> QED
    BY <1>1, <2>2, <2>3, OneContext
<1>4. CASE ResolverLogs(r)
  <2>1. UNCHANGED persisting /\ IF persisting[r] > 0 \/ phase[r] = "persisting"
                                THEN Appends(r) /\ UNCHANGED due ELSE AppendsDue(r)
    BY <1>4 DEF ResolverLogs
  <2>2. CASE persisting[r] > 0 \/ phase[r] = "persisting"
    <3>1. /\ ContextTypeOK' /\ UNCHANGED due /\ logs[r] \subseteq logs'[r]
          /\ \A q \in Requests \ {r} : logs'[q] = logs[q]
      BY <2>1, <2>2, AppendedLogs DEF ContextInv, ContextTypeOK
    <3>2. persists => Held(logs'[r], due'[r], persisting'[r])
      BY <1>2, <2>1, <3>1 DEF Handed
    <3> QED
      BY <1>1, <2>1, <3>1, <3>2, OneContext
  <2>3. CASE ~(persisting[r] > 0 \/ phase[r] = "persisting")
    <3>1. /\ ContextTypeOK'
          /\ due[r] \subseteq logs[r] => due'[r] \subseteq logs'[r]
          /\ \A q \in Requests \ {r} : logs'[q] = logs[q] /\ due'[q] = due[q]
      BY <2>1, <2>3, AppendedDue
    <3>2. persists => Held(logs'[r], due'[r], persisting'[r])
      BY <1>1, <1>2, <2>1, <2>3, <3>1 DEF Handed
    <3> QED
      BY <1>1, <2>1, <3>1, <3>2, OneContext
  <2> QED
    BY <2>2, <2>3
<1>5. CASE ResolverClears(r)
  <2>1. /\ ContextTypeOK' /\ UNCHANGED persisting /\ due'[r] = due[r] \ logs[r]
        /\ \A q \in Requests \ {r} : logs'[q] = logs[q] /\ due'[q] = due[q]
    BY <1>5, ClearedLogs DEF ResolverClears
  <2>2. persists => Held(logs'[r], due'[r], persisting'[r])
    BY <1>2, <2>1 DEF Handed
  <2> QED
    BY <1>1, <2>1, <2>2, OneContext
<1> QED
  BY <1>3, <1>4, <1>5

LEMMA ContextStep == RequestInv /\ ContextInv /\ [Next]_vars => ContextInv'
<1> SUFFICES ASSUME RequestInv, ContextInv, [Next]_vars  PROVE  ContextInv'
  OBVIOUS
<1>0. ASSUME UNCHANGED <<plugin, persists, phase, errors, appended, logs, due, persisting>>
      PROVE  ContextInv'
  BY <1>0 DEF ContextInv, ContextTypeOK, Apollo
<1>1. ASSUME NEW r \in Requests, NEW p, Goes(r, p)
      PROVE  phase'[r] = p /\ \A q \in Requests \ {r} : phase'[q] = phase[q]
  BY <1>1 DEF Goes, RequestInv, RequestTypeOK
<1>2. ASSUME NEW r \in Requests, persists
      PROVE  Handed(phase[r], errors[r], logs[r], due[r], persisting[r])
  BY <1>2 DEF ContextInv
<1>3. ASSUME NEW r \in Requests, requestDidStart(r)  PROVE  ContextInv'
  <2>1. PICK name \in {"introspection", "other"} : PluginLogs(r, name, "INFO")
    BY <1>3 DEF requestDidStart
  <2>2. phase[r] = "new" /\ Goes(r, "parsing") /\ UNCHANGED <<plugin, persists>> /\ UNCHANGED errors
    BY <1>3 DEF requestDidStart, settings
  <2> QED
    BY <2>1, <2>2, EarlyHookLogged
<1>4. ASSUME NEW r \in Requests, parsingDidStart(r)  PROVE  ContextInv'
  <2>1. /\ phase[r] = "parsing" /\ PluginLogs(r, operation[r], "DEBUG")
        /\ UNCHANGED <<plugin, persists>>
        /\ \/ Goes(r, "validating") /\ UNCHANGED errors
           \/ Goes(r, "unparsable") /\ FailsWith(r, <<Raw(FALSE)>>)
    BY <1>4 DEF parsingDidStart, settings
  <2>2. \E es \in Seq(Errors) : Len(es) > 0 /\ es = <<Raw(FALSE)>>
    <3> DEFINE es == <<Raw(FALSE)>>
    <3>1. es \in Seq(Errors) /\ Len(es) = 1
      BY ThrownErrors
    <3> HIDE DEF es
    <3>2. Len(es) > 0
      BY <3>1
    <3> QED
      BY <3>1, <3>2 DEF es
  <2>3. \E p \in {"validating", "unparsable"} : Goes(r, p)
    BY <2>1
  <2>4. UNCHANGED errors \/ \E es \in Seq(Errors) : Len(es) > 0 /\ FailsWith(r, es)
    BY <2>1, <2>2
  <2> QED
    BY <2>1, <2>3, <2>4, EarlyHookLogged
<1>5. ASSUME NEW r \in Requests, validationDidStart(r)  PROVE  ContextInv'
  <2>1. /\ phase[r] = "validating" /\ PluginLogs(r, operation[r], "DEBUG")
        /\ UNCHANGED <<plugin, persists>>
        /\ \/ Goes(r, "resolved") /\ UNCHANGED errors
           \/ Goes(r, "failing") /\ FailsWith(r, <<Raw(FALSE)>>)
    BY <1>5 DEF validationDidStart, settings
  <2>2. \E es \in Seq(Errors) : Len(es) > 0 /\ es = <<Raw(FALSE)>>
    <3> DEFINE es == <<Raw(FALSE)>>
    <3>1. es \in Seq(Errors) /\ Len(es) = 1
      BY ThrownErrors
    <3> HIDE DEF es
    <3>2. Len(es) > 0
      BY <3>1
    <3> QED
      BY <3>1, <3>2 DEF es
  <2>3. \E p \in {"resolved", "failing"} : Goes(r, p)
    BY <2>1
  <2>4. UNCHANGED errors \/ \E es \in Seq(Errors) : Len(es) > 0 /\ FailsWith(r, es)
    BY <2>1, <2>2
  <2> QED
    BY <2>1, <2>3, <2>4, EarlyHookLogged
<1>6. ASSUME NEW r \in Requests, executionDidStart(r)  PROVE  ContextInv'
  <2>1. /\ phase[r] = "resolved" /\ PluginLogs(r, operation[r], "DEBUG")
        /\ UNCHANGED <<plugin, persists>> /\ Goes(r, "executing") /\ UNCHANGED errors
    BY <1>6 DEF executionDidStart, settings
  <2> QED
    BY <2>1, EarlyHookLogged
<1>7. ASSUME NEW r \in Requests, ExecutionEnds(r)  PROVE  ContextInv'
  <2>1. UNCHANGED <<plugin, persists>> /\ UNCHANGED <<appended, logs, due, persisting>>
        /\ ContextTypeOK'
    BY <1>7 DEF ExecutionEnds, settings, contextVars, ContextInv, ContextTypeOK
  <2>4. Apollo => phase[r] = "executing"
    BY <1>7 DEF ExecutionEnds
  <2>5. persists => Apollo
    BY DEF ContextInv
  <2>2. CASE Goes(r, "responding") /\ UNCHANGED errors
    <3>1. persists => Handed(phase'[r], errors'[r], logs'[r], due'[r], persisting'[r])
      BY <1>1, <1>2, <2>1, <2>2, <2>4, <2>5 DEF Handed
    <3> QED
      BY <1>1, <2>1, <2>2, <3>1, OneContext
  <2>3. ASSUME NEW b \in BOOLEAN, NEW n \in 1 .. 2, Goes(r, "failing"),
               FailsWith(r, SubSeq(<<Raw(b), Raw(FALSE)>>, 1, n))
        PROVE  ContextInv'
    <3> DEFINE es == SubSeq(<<Raw(b), Raw(FALSE)>>, 1, n)
    <3>1. es \in Seq(Errors) /\ Len(es) = n
      BY ThrownErrors
    <3>2. FailsWith(r, es)
      BY <2>3
    <3> HIDE DEF es
    <3>3. errors'[r] = es /\ \A q \in Requests \ {r} : errors'[q] = errors[q]
      BY <3>2 DEF FailsWith, RequestInv, RequestTypeOK
    <3>4. es # << >>
      BY <3>1, EmptySeq
    <3> QED
      BY <1>1, <2>1, <2>3, <3>3, <3>4, WithErrors
  <2> QED
    BY <1>7, <2>2, <2>3 DEF ExecutionEnds
<1>8. ASSUME NEW r \in Requests, parsingDidEnd(r) \/ didEncounterErrors(r)  PROVE  ContextInv'
  <2>1. phase[r] \in {"unparsable", "failing"} /\ UNCHANGED <<plugin, persists>>
        /\ (UNCHANGED contextVars \/ logDbError(r)) /\ \E p : Goes(r, p)
    BY <1>8 DEF parsingDidEnd, didEncounterErrors, logError, settings
  <2>2. errors[r] # << >> /\ errors'[r] # << >> /\ \A q \in Requests \ {r} : errors'[q] = errors[q]
    <3>1. Len(errors[r]) > 0 /\ errors[r] \in Seq(Errors) /\ DOMAIN errors[r] = 1 .. Len(errors[r])
          /\ 1 \in DOMAIN errors[r]
      BY <2>1, Requests0 DEF Progress
    <3>2. errors' = errors \/ \E i, e : errors' = [errors EXCEPT ![r] = [@ EXCEPT ![i] = e]]
      BY <1>8 DEF parsingDidEnd, didEncounterErrors
    <3>3. errors \in [Requests -> Seq(Errors)] /\ \A q \in Requests \ {r} : errors'[q] = errors[q]
      BY <3>2 DEF RequestInv, RequestTypeOK
    <3>4. DOMAIN errors'[r] = DOMAIN errors[r]
      BY <3>2, <3>3
    <3>5. DOMAIN << >> = {}
      OBVIOUS
    <3> QED
      BY <3>1, <3>3, <3>4, <3>5
  <2>3. /\ ContextTypeOK'
        /\ \A q \in Requests \ {r} :
             logs'[q] = logs[q] /\ due'[q] = due[q] /\ persisting'[q] = persisting[q]
    <3>1. CASE UNCHANGED contextVars
      BY <3>1 DEF contextVars, ContextInv, ContextTypeOK
    <3>2. CASE logDbError(r)
      BY <3>2, ClearedLogs
    <3> QED
      BY <2>1, <3>1, <3>2
  <2> QED
    BY <1>1, <2>1, <2>2, <2>3, WithErrors
<1>9. ASSUME NEW r \in Requests, willSendResponse(r)  PROVE  ContextInv'
  <2>1. UNCHANGED <<plugin, persists, errors>> /\ phase[r] = "responding" /\ \E p : Goes(r, p)
    BY <1>9 DEF willSendResponse, settings
  <2>2. CASE ~persists
    <3>1. PluginLogs(r, operation[r], "DEBUG")
      BY <1>9, <2>2 DEF willSendResponse
    <3>2. /\ ContextTypeOK' /\ UNCHANGED persisting
          /\ \A q \in Requests \ {r} : logs'[q] = logs[q] /\ due'[q] = due[q]
      BY <3>1, PluginLogged
    <3> QED
      BY <1>1, <2>1, <2>2, <3>2, OneContext
  <2>3. CASE persists
    <3>1. /\ Goes(r, "persisting") /\ UNCHANGED persisting
          /\ \/ due' = [due EXCEPT ![r] = @ \ logs[r]] /\ UNCHANGED <<appended, logs>>
             \/ Hands(r)
      BY <1>9, <2>3 DEF willSendResponse
    <3>2. /\ ContextTypeOK'
          /\ due[r] \subseteq logs[r] => due'[r] = {}
          /\ \A q \in Requests \ {r} : logs'[q] = logs[q] /\ due'[q] = due[q]
      BY <3>1, HandedLogs DEF ContextInv, ContextTypeOK
    <3>3. Handed(phase'[r], errors'[r], logs'[r], due'[r], persisting'[r])
      BY <1>1, <1>2, <2>1, <2>3, <3>1, <3>2 DEF Handed
    <3> QED
      BY <1>1, <2>1, <3>1, <3>2, <3>3, OneContext
  <2> QED
    BY <2>2, <2>3
<1>10. ASSUME NEW r \in Requests, ResponsePersisted(r)  PROVE  ContextInv'
  <2>1. /\ UNCHANGED <<plugin, persists>> /\ UNCHANGED <<errors, appended, due, persisting>>
        /\ phase[r] = "persisting" /\ Goes(r, "answered") /\ logs' = [logs EXCEPT ![r] = {}]
    BY <1>10 DEF ResponsePersisted, settings
  <2>2. ContextTypeOK' /\ \A q \in Requests \ {r} : logs'[q] = logs[q]
    BY <2>1 DEF ContextInv, ContextTypeOK
  <2>3. persists => Handed(phase'[r], errors'[r], logs'[r], due'[r], persisting'[r])
    BY <1>1, <1>2, <2>1 DEF Handed
  <2> QED
    BY <1>1, <2>1, <2>2, <2>3, OneContext
<1>11. ASSUME NEW r \in Requests, unexpectedErrorProcessingRequest(r) \/ logsServerError(r)
       PROVE  ContextInv'
  <2>1. PICK e : Answered(r, e)
    BY <1>11 DEF unexpectedErrorProcessingRequest, logsServerError
  <2>2. /\ UNCHANGED <<plugin, persists>> /\ UNCHANGED <<appended, logs, due, persisting>>
        /\ Goes(r, "answered") /\ errors' = [errors EXCEPT ![r] = <<e>>]
    BY <2>1 DEF Answered, settings, contextVars
  <2>3. errors'[r] # << >> /\ \A q \in Requests \ {r} : errors'[q] = errors[q]
    BY <2>2 DEF RequestInv, RequestTypeOK
  <2>4. ContextTypeOK'
    BY <2>2 DEF ContextInv, ContextTypeOK
  <2> QED
    BY <1>1, <2>2, <2>3, <2>4, WithErrors
<1>12. ASSUME NEW r \in Requests, ResolverHangs(r)  PROVE  ContextInv'
  <2>1. /\ UNCHANGED <<plugin, persists, errors, appended, logs, due, persisting>>
        /\ phase[r] = "executing" /\ Goes(r, "stuck")
    BY <1>12 DEF ResolverHangs, settings, contextVars
  <2>2. ContextTypeOK'
    BY <2>1 DEF ContextInv, ContextTypeOK
  <2>3. persists => Handed(phase'[r], errors'[r], logs'[r], due'[r], persisting'[r])
    BY <1>1, <1>2, <2>1 DEF Handed
  <2> QED
    BY <1>1, <2>1, <2>2, <2>3, OneContext
<1>13. ASSUME NEW r \in Requests, ResolverPersisted(r)  PROVE  ContextInv'
  <2>1. /\ UNCHANGED <<plugin, persists>> /\ UNCHANGED <<errors, phase, appended, due>>
        /\ persisting[r] > 0 /\ persisting' = [persisting EXCEPT ![r] = @ - 1]
        /\ logs' = logs \/ logs' = [logs EXCEPT ![r] = {}]
    BY <1>13 DEF ResolverPersisted, settings, requestVars
  <2>2. /\ persisting[r] \in Nat /\ persisting'[r] = persisting[r] - 1 /\ ContextTypeOK'
        /\ \A q \in Requests \ {r} : persisting'[q] = persisting[q] /\ logs'[q] = logs[q]
    BY <2>1 DEF ContextInv, ContextTypeOK
  <2>3. persists => Handed(phase'[r], errors'[r], logs'[r], due'[r], persisting'[r])
    BY <1>2, <2>1, <2>2 DEF Handed
  <2> QED
    BY <2>1, <2>2, <2>3, OneContext
<1>14. CASE UNCHANGED vars
  BY <1>0, <1>14 DEF vars, settings, requestVars, contextVars
<1>15. CASE Ticks \/ Closes \/ TransportEnds \/ \E f \in {"loop", "close"} : Flushes(f)
  BY <1>0, <1>15 DEF Ticks, Closes, TransportEnds, Flushes, settings, requestVars, contextVars
<1> QED
  BY <1>3, <1>4, <1>5, <1>6, <1>7, <1>8, <1>9, <1>10, <1>11, <1>12, <1>13, <1>14, <1>15,
     ResolverLogged DEF Next, Proceeds

----------------------------------------------------------------------------
(* What follows.                                                           *)

(* The invariant of both plugins and of the queue: it holds through every  *)
(* hook, resolver, flush and close, however they interleave.               *)
THEOREM LoggingInvariant == Spec => []LoggingInv
<1>1. Init => LoggingInv
  BY QueueInit, RequestInit, RecordsInit, ContextInit DEF LoggingInv, Init
<1>2. LoggingInv /\ [Next]_vars => LoggingInv'
  BY QueueStep, RequestStep, RecordsStep, ContextStep DEF LoggingInv
<1> QED
  BY <1>1, <1>2, PTL DEF Spec

(* A secured server sends no message of an error, and pino-apollo no stack,*)
(* for any errors of any requests, however they fail (_enrichError).       *)
THEOREM SecuredServersTellNothing == Spec => []SecuredAnswers
<1>1. LoggingInv => SecuredAnswers
  <2> SUFFICES ASSUME LoggingInv, NEW r \in Requests, securedMessages, phase[r] = "answered",
                      NEW i \in DOMAIN errors[r]
               PROVE  LET e == errors[r][i]
                      IN  /\ e.message \in {"secured", "internal"} \/ (~Apollo /\ e.business)
                          /\ e.stack => Apollo
    BY DEF SecuredAnswers
  <2>1. i \in 1 .. Len(errors[r]) /\ Shown(phase[r], errors[r], done[r], Apollo)
    BY Requests0 DEF LoggingInv
  <2>2. Safe(errors[r][i], Apollo)
    BY <2>1 DEF Shown
  <2> QED
    BY <2>2 DEF Safe
<1> QED
  BY <1>1, LoggingInvariant, PTL

(* What the client is not told, the log says: once for every error, as it  *)
(* was thrown, though several requests' errors interleave (_logError).     *)
THEOREM EveryErrorLogged == Spec => []ErrorsLoggedRaw
<1>1. LoggingInv => ErrorsLoggedRaw
  <2> SUFFICES ASSUME LoggingInv, ~Apollo, closer = "open", NEW r \in Requests,
                      operation[r] = "other", NEW i \in 1 .. done[r]
               PROVE  /\ Cardinality({n \in DOMAIN records :
                                        records[n].of = r /\ records[n].error = i}) = 1
                      /\ \E n \in DOMAIN records :
                           records[n] = [of |-> r, error |-> i, message |-> "raw"]
    BY DEF ErrorsLoggedRaw
  <2>1. LoggedOnce(r, i)
    BY DEF LoggingInv, RecordsInv
  <2>2. PICK n \in DOMAIN records :
          /\ records[n] = [of |-> r, error |-> i, message |-> "raw"]
          /\ \A k \in DOMAIN records : records[k].of = r /\ records[k].error = i => k = n
    BY <2>1 DEF LoggedOnce
  <2>3. {k \in DOMAIN records : records[k].of = r /\ records[k].error = i} = {n}
    BY <2>2
  <2>4. Cardinality({n}) = 1
    BY FS_Singleton
  <2> QED
    BY <2>2, <2>3, <2>4
<1> QED
  BY <1>1, LoggingInvariant, PTL

(* No log of a request without errors is cleared before it was handed over,*)
(* also when resolvers' logs are persisted while others are appended, but  *)
(* for the two kinds that LogsHandedOver names (logEvent, logDbError).     *)
THEOREM NoLogCleared == Spec => []LogsHandedOver
<1>1. LoggingInv => LogsHandedOver
  BY DEF LoggingInv, ContextInv, Handed, LogsHandedOver
<1> QED
  BY <1>1, LoggingInvariant, PTL

(* No log is lost or written twice: two flushes that empty the queue at    *)
(* once never take the same one (flush, splice).                           *)
THEOREM LogsHaveOnePlace == Spec => []EveryLogOnce
<1>1. LoggingInv => EveryLogOnce
  <2> SUFFICES ASSUME QueueInv  PROVE  EveryLogOnce
    BY DEF LoggingInv
  <2> DEFINE ql == queue \o batch["loop"]
             qlc == ql \o batch["close"]
             places == qlc \o table
  <2>1. /\ queue \in Seq(Nat) /\ batch["loop"] \in Seq(Nat) /\ batch["close"] \in Seq(Nat)
        /\ table \in Seq(Nat)
        /\ IsInjective(queue) /\ IsInjective(batch["loop"]) /\ IsInjective(batch["close"])
        /\ IsInjective(table)
    BY InOrderIsInjective DEF QueueInv, QueueTypeOK, PlacesInv
  <2>2. /\ ql \in Seq(Nat) /\ Range(ql) = Range(queue) \cup Range(batch["loop"])
        /\ IsInjective(ql)
    BY <2>1, ConcatPieces DEF QueueInv, PlacesInv
  <2> HIDE DEF ql
  <2>3. Disjoint(ql, batch["close"])
    BY <2>2 DEF QueueInv, PlacesInv, Disjoint
  <2>4. /\ qlc \in Seq(Nat) /\ Range(qlc) = Range(ql) \cup Range(batch["close"])
        /\ IsInjective(qlc)
    BY <2>1, <2>2, <2>3, ConcatPieces
  <2> HIDE DEF qlc
  <2>5. Disjoint(qlc, table)
    BY <2>2, <2>4 DEF QueueInv, PlacesInv, Disjoint
  <2>6. Range(places) = Range(qlc) \cup Range(table) /\ IsInjective(places)
    BY <2>1, <2>4, <2>5, ConcatPieces
  <2>7. Range(places) \cap dropped = {} /\ Range(places) \cup dropped = 1 .. enqueued
    BY <2>2, <2>4, <2>6 DEF QueueInv, PlacesInv
  <2>8. places = queue \o batch["loop"] \o batch["close"] \o table
    BY DEF ql, qlc
  <2> HIDE DEF places
  <2>9. /\ Transport!IsInjective(places)
        /\ Transport!Range(places) \cap dropped = {}
        /\ Transport!Range(places) \cup dropped = 1 .. enqueued
    BY <2>6, <2>7 DEF Transport!IsInjective, Transport!Range, IsInjective, Range
  <2> QED
    BY <2>8, <2>9, Zenon DEF EveryLogOnce, Transport!EveryLogOnce
<1> QED
  BY <1>1, LoggingInvariant, PTL

(* Until close, one flush at a time moves the logs in the order they came. *)
THEOREM LogsStayInOrder == Spec => []WrittenInOrder
<1>1. LoggingInv => WrittenInOrder
  BY DEF LoggingInv, QueueInv, LineInv, InOrder, WrittenInOrder, Transport!WrittenInOrder
<1> QED
  BY <1>1, LoggingInvariant, PTL

(* When close calls back, all that may be missing in the table is the one  *)
(* batch the loop was inserting.                                           *)
THEOREM CloseLeavesOneBatch == Spec => []CloseEmptiesQueue
<1>1. LoggingInv => CloseEmptiesQueue
  <2> SUFFICES ASSUME QueueInv, closer = "closed"
               PROVE  /\ queue = << >>
                      /\ Cardinality((1 .. enqueued) \ (Range(table) \cup dropped)) <= batchLimit
                      /\ loop # "waiting"
    BY Zenon DEF LoggingInv, CloseEmptiesQueue, Transport!CloseEmptiesQueue, Transport!Range,
       Range, Transport!Cardinality, Cardinality
  <2>1. /\ queue = << >> /\ batch["close"] = << >> /\ loop # "waiting"
        /\ batch["loop"] \in Seq(Nat) /\ Len(batch["loop"]) <= batchLimit
    BY DEF QueueInv, FlushesInv, QueueTypeOK
  <2>2. Range(<< >>) = {}
    BY DEF Range
  <2>3. (1 .. enqueued) \ (Range(table) \cup dropped) \subseteq Range(batch["loop"])
    BY <2>1, <2>2 DEF QueueInv, PlacesInv
  <2>4. IsFiniteSet(Range(batch["loop"])) /\ Cardinality(Range(batch["loop"])) <= Len(batch["loop"])
    <3> DEFINE b == batch["loop"]
    <3>1. Len(b) \in Nat /\ b \in [1 .. Len(b) -> Range(b)] /\ b \in Seq(Nat)
          /\ DOMAIN b = 1 .. Len(b)
      BY <2>1, LenProperties DEF Range
    <3>2. b \in Surjection(1 .. Len(b), Range(b))
      BY <3>1 DEF Surjection, Range
    <3>3. IsFiniteSet(1 .. Len(b)) /\ Cardinality(1 .. Len(b)) = Len(b)
      BY <3>1, FS_Interval
    <3> QED
      BY <3>2, <3>3, FS_Surjection
  <2>5. Cardinality((1 .. enqueued) \ (Range(table) \cup dropped)) <= Cardinality(Range(batch["loop"]))
    BY <2>3, <2>4, FS_Subset
  <2>6. /\ Cardinality((1 .. enqueued) \ (Range(table) \cup dropped)) \in Nat
        /\ Cardinality(Range(batch["loop"])) \in Nat
        /\ Len(batch["loop"]) \in Nat /\ batchLimit \in Nat
    BY <2>1, <2>3, <2>4, FS_Subset, FS_CardinalityType, LenProperties, LoggingAssumption
  <2> QED
    BY <2>1, <2>4, <2>5, <2>6
<1> QED
  BY <1>1, LoggingInvariant, PTL
=============================================================================
