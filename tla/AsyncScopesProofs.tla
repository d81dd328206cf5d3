------------------------- MODULE AsyncScopesProofs -------------------------
(***************************************************************************)
(* Theorems about AsyncScopes, for any number of tasks, spans and nested   *)
(* scopes: the array of a root span has a span for each open scope, and a  *)
(* task that shares its root span with nobody sees its own.                *)
(***************************************************************************)
EXTENDS AsyncScopes, SequenceTheorems, FiniteSetTheorems,
        WellFoundedInduction, TLAPS

Frames == [kind : {"id"}, value : Ids] \cup [kind : {"root", "span"}, value : Spans]

ScopesTypeOK ==
  /\ started \in SUBSET Tasks
  /\ frames \in [Tasks -> Seq(Frames)]
  /\ inherited \in [Tasks -> Nat]
  /\ arrays \in [Spans -> Seq(Spans)]
  /\ \A t \in Tasks : inherited[t] <= Len(frames[t]) /\ Len(frames[t]) <= MaxDepth
  /\ \A t \in Tasks \ started : frames[t] = << >>

Root(r) == [kind |-> "root", value |-> r]

(* The root span under which the frame at position j of some frames is.    *)
RootAt(scopes, j) == Innermost(SubSeq(scopes, 1, j), {"root"})

(* A root span is that of a frame there is ...                             *)
FoundIn(scopes) ==
  \A j \in 0 .. Len(scopes) :
    RootAt(scopes, j) # Nothing => \E k \in 1 .. j : scopes[k] = Root(RootAt(scopes, j))

(* ... and no task has it twice ...                                        *)
OnceIn(scopes) ==
  \A r \in Spans : \A i, j \in DOMAIN scopes :
    scopes[i] = Root(r) /\ scopes[j] = Root(r) => i = j

(* ... and one task has opened it, others inherit it ...                   *)
OwnedIn(scopes, outer) ==
  \A r \in Spans, t, u \in Tasks : \A i \in DOMAIN scopes[t], j \in DOMAIN scopes[u] :
    scopes[t][i] = Root(r) /\ scopes[u][j] = Root(r) /\ i > outer[t] /\ t # u =>
      j <= outer[u]

(* ... and it has an array.                                                *)
ArrayIn(scopes, lists) ==
  \A r \in Spans, t \in Tasks : \A i \in DOMAIN scopes[t] :
    scopes[t][i] = Root(r) => lists[r] # << >>

RootsIn(scopes, outer, lists) ==
  /\ \A t \in Tasks : FoundIn(scopes[t]) /\ OnceIn(scopes[t])
  /\ OwnedIn(scopes, outer)
  /\ ArrayIn(scopes, lists)

(* The scopes of withScope that are open under r.                          *)
OpenIn(scopes, outer, r) ==
  {scope \in Tasks \X (1 .. MaxDepth) :
     /\ scope[2] \in DOMAIN scopes[scope[1]] /\ scope[2] > outer[scope[1]]
     /\ scopes[scope[1]][scope[2]].kind = "span"
     /\ RootAt(scopes[scope[1]], scope[2]) = r}

(* t has opened r, and no other task has it.                               *)
OnlyHere(scopes, outer, t, r) ==
  /\ \E i \in DOMAIN scopes[t] : i > outer[t] /\ scopes[t][i] = Root(r)
  /\ \A u \in Tasks \ {t} : \A i \in DOMAIN scopes[u] : scopes[u][i] # Root(r)

(* The spans of some frames that are under r, r itself the first of them.  *)
Under(scopes, r) ==
  {i \in DOMAIN scopes : scopes[i].kind \in {"root", "span"} /\ RootAt(scopes, i) = r}

(* array has the values of the frames under r, in their order: place gives *)
(* the frame of each.                                                      *)
Lists(scopes, r, array, place) ==
  /\ place \in [DOMAIN array -> DOMAIN scopes]
  /\ {place[k] : k \in DOMAIN array} = Under(scopes, r)
  /\ \A k, l \in DOMAIN array : k < l => place[k] < place[l]
  /\ \A k \in DOMAIN array : array[k] = scopes[place[k]].value

Listed(scopes, r, array) ==
  \E place \in [DOMAIN array -> DOMAIN scopes] : Lists(scopes, r, array, place)

(* The array of a root span has the root and the scopes that are open ...  *)
Balanced(open, array) ==
  /\ IsFiniteSet(open)
  /\ array # << >> => Len(array) = 1 + Cardinality(open)
  /\ array = << >> => open = {}

(* ... and if one task has them all, it has them in its order.             *)
ArrayOf(scopes, outer, r, array) ==
  /\ Balanced(OpenIn(scopes, outer, r), array)
  /\ \A t \in Tasks : OnlyHere(scopes, outer, t, r) => Listed(scopes[t], r, array)

ScopesInv ==
  /\ ScopesTypeOK
  /\ RootsIn(frames, inherited, arrays)
  /\ \A r \in Spans : ArrayOf(frames, inherited, r, arrays[r])

-----------------------------------------------------------------------------
(* Some frames, and the same with one more, the innermost.                 *)

(* Of some positions, one is the last.                                     *)
LEMMA MaxOfPositions ==
  ASSUME NEW n \in Nat, NEW S \in SUBSET (1 .. n), S # {}
  PROVE  Max(S) \in S /\ \A i \in S : i <= Max(S)
<1> DEFINE later(m) == {i \in S : i > m}
           T == {later(m) : m \in S}
<1>1. IsFiniteSet(S)
  <2>1. IsFiniteSet(1 .. n)
    BY FS_Interval
  <2> QED
    BY <2>1, FS_Subset
<1>2. T \subseteq FiniteSubsetsOf(S) /\ T # {}
  <2>1. \A m \in S : later(m) \in SUBSET S
    OBVIOUS
  <2>2. \A m \in S : IsFiniteSet(later(m))
    <3> HIDE DEF later
    <3> QED
      BY <1>1, <2>1, FS_Subset
  <2> HIDE DEF later
  <2> QED
    BY <2>1, <2>2 DEF FiniteSubsetsOf
<1> HIDE DEF T
<1>3. PICK X \in T : \A Y \in T : <<Y, X>> \notin StrictSubsetOrdering(S)
  BY <1>2, FS_StrictSubsetOrderingWellFounded, WFMin
<1>4. PICK m \in S : X = later(m)
  BY <1>3 DEF T
<1>5. \A j \in S : j <= m
  <2> SUFFICES ASSUME NEW j \in S, j > m  PROVE  FALSE
    OBVIOUS
  <2>1. later(j) \in T /\ later(j) \in SUBSET S /\ later(m) \in SUBSET S
    BY DEF T
  <2>2. j \in later(m) /\ j \notin later(j) /\ \A i \in later(j) : i \in later(m)
    OBVIOUS
  <2>3. <<later(j), later(m)>> \in StrictSubsetOrdering(S)
    <3> HIDE DEF later
    <3> QED
      BY <2>1, <2>2 DEF StrictSubsetOrdering
  <2> QED
    BY <1>3, <1>4, <2>1, <2>3
<1>6. \E x \in S : \A y \in S : x >= y
  BY <1>5
<1> QED
  BY <1>6 DEF Max

(* The innermost of some frames, when there is one more.                   *)
LEMMA InnermostOfAppend ==
  ASSUME NEW scopes \in Seq(Frames), NEW f \in Frames, NEW kinds
  PROVE  Innermost(Append(scopes, f), kinds) =
           IF f.kind \in kinds THEN f.value ELSE Innermost(scopes, kinds)
<1> DEFINE n == Len(scopes)
           long == Append(scopes, f)
           at == {i \in DOMAIN scopes : scopes[i].kind \in kinds}
           longAt == {i \in DOMAIN long : long[i].kind \in kinds}
<1>1. /\ n \in Nat /\ DOMAIN scopes = 1 .. n /\ DOMAIN long = 1 .. n + 1
      /\ \A i \in 1 .. n : long[i] = scopes[i]
      /\ long[n + 1] = f
  BY AppendProperties, LenProperties
<1>2. Innermost(long, kinds) = IF longAt = {} THEN Nothing ELSE long[Max(longAt)].value
  BY DEF Innermost
<1>3. Innermost(scopes, kinds) = IF at = {} THEN Nothing ELSE scopes[Max(at)].value
  BY DEF Innermost
<1> HIDE DEF long, n
<1>4. CASE f.kind \in kinds
  <2>1. n + 1 \in longAt /\ \A i \in longAt : i \in Int /\ n + 1 >= i
    BY <1>1, <1>4
  <2> HIDE DEF longAt
  <2>2. Max(longAt) = n + 1
    BY <1>1, <2>1 DEF Max
  <2> QED
    BY <1>1, <1>2, <1>4, <2>1, <2>2 DEF long
<1>5. CASE f.kind \notin kinds
  <2>1. longAt = at
    BY <1>1, <1>5
  <2>2. at \in SUBSET (1 .. n)
    BY <1>1
  <2> HIDE DEF at
  <2>3. at # {} => Max(at) \in 1 .. n
    BY <1>1, <2>2, MaxOfPositions
  <2> QED
    BY <1>1, <1>2, <1>3, <1>5, <2>1, <2>3 DEF long
<1> QED
  BY <1>4, <1>5

OneMore(short, f, n, long) ==
  /\ short \in Seq(Frames) /\ f \in Frames
  /\ n = Len(short) /\ long = Append(short, f)

(* The frames below the new one are the same, and under the same roots.    *)
LEMMA MoreFrames ==
  ASSUME NEW short, NEW f, NEW n, NEW long, OneMore(short, f, n, long)
  PROVE  /\ short \in Seq(Frames) /\ f \in Frames
         /\ n \in Nat /\ long \in Seq(Frames) /\ Len(long) = n + 1
         /\ DOMAIN short = 1 .. n /\ DOMAIN long = 1 .. n + 1
         /\ \A i \in 1 .. n : long[i] = short[i]
         /\ long[n + 1] = f
         /\ \A j \in 0 .. n : RootAt(long, j) = RootAt(short, j)
         /\ RootAt(long, n + 1) = IF f.kind = "root" THEN f.value ELSE RootAt(short, n)
         /\ RootAt(short, n) = Innermost(short, {"root"})
         /\ RootAt(long, n + 1) = Innermost(long, {"root"})
<1> USE DEF OneMore
<1>1. /\ n \in Nat /\ long \in Seq(Frames) /\ Len(long) = n + 1
      /\ DOMAIN short = 1 .. n /\ DOMAIN long = 1 .. n + 1
      /\ \A i \in 1 .. n : long[i] = short[i]
      /\ long[n + 1] = f
  BY AppendProperties, LenProperties
<1>2. ASSUME NEW j \in 0 .. n
      PROVE  SubSeq(long, 1, j) = SubSeq(short, 1, j)
  <2>1. /\ SubSeq(long, 1, j) \in Seq(Frames) /\ Len(SubSeq(long, 1, j)) = j
        /\ \A i \in 1 .. j : SubSeq(long, 1, j)[i] = long[i]
    <3>1. \A i \in 1 .. j : long[i] \in Frames
      BY <1>1, <1>2, ElementOfSeq
    <3> QED
      BY <1>1, <1>2, <3>1, SubSeqProperties
  <2>2. /\ SubSeq(short, 1, j) \in Seq(Frames) /\ Len(SubSeq(short, 1, j)) = j
        /\ \A i \in 1 .. j : SubSeq(short, 1, j)[i] = short[i]
    <3>1. \A i \in 1 .. j : short[i] \in Frames
      BY <1>1, <1>2, ElementOfSeq
    <3> QED
      BY <1>1, <1>2, <3>1, SubSeqProperties
  <2> DEFINE a == SubSeq(long, 1, j)
             b == SubSeq(short, 1, j)
  <2>3. \A i \in 1 .. j : a[i] = b[i]
    BY <1>1, <1>2, <2>1, <2>2
  <2> HIDE DEF a, b
  <2>4. a \in Seq(Frames) /\ b \in Seq(Frames) /\ Len(a) = Len(b) /\ Len(a) = j
    BY <2>1, <2>2 DEF a, b
  <2>5. a = b
    BY <2>3, <2>4, SeqEqual
  <2> QED
    BY <2>5 DEF a, b
<1>3. SubSeq(short, 1, n) = short /\ SubSeq(long, 1, n + 1) = long
  BY <1>1, SubSeqFull
<1>4. RootAt(short, n) = Innermost(short, {"root"})
      /\ RootAt(long, n + 1) = Innermost(long, {"root"})
  BY <1>3 DEF RootAt
<1>5. Innermost(long, {"root"}) =
        IF f.kind = "root" THEN f.value ELSE Innermost(short, {"root"})
  <2>1. Innermost(Append(short, f), {"root"}) =
          IF f.kind \in {"root"} THEN f.value ELSE Innermost(short, {"root"})
    BY InnermostOfAppend
  <2> QED
    BY <2>1
<1> QED
  BY <1>1, <1>2, <1>4, <1>5 DEF RootAt

(* Whether the new frame is under a root or not.                           *)
LEMMA UnderMore ==
  ASSUME NEW short, NEW f, NEW n, NEW long, OneMore(short, f, n, long), NEW r
  PROVE  /\ \A i \in 1 .. n : i \in Under(long, r) <=> i \in Under(short, r)
         /\ Under(short, r) \subseteq 1 .. n
         /\ Under(long, r) \subseteq 1 .. n + 1
         /\ n + 1 \in Under(long, r) <=>
              f.kind \in {"root", "span"} /\ RootAt(long, n + 1) = r
<1>1. /\ n \in Nat /\ DOMAIN short = 1 .. n /\ DOMAIN long = 1 .. n + 1
      /\ \A i \in 1 .. n : long[i] = short[i]
      /\ long[n + 1] = f
      /\ \A j \in 0 .. n : RootAt(long, j) = RootAt(short, j)
  BY MoreFrames
<1>2. \A i \in 1 .. n : i \in 1 .. n + 1 /\ i \in 0 .. n
  BY <1>1
<1>3. \A i \in 1 .. n : i \in Under(long, r) <=> i \in Under(short, r)
  BY <1>1, <1>2 DEF Under
<1>4. Under(short, r) \subseteq 1 .. n /\ Under(long, r) \subseteq 1 .. n + 1
  BY <1>1 DEF Under
<1>5. n + 1 \in DOMAIN long
  BY <1>1
<1>6. n + 1 \in Under(long, r) <=> f.kind \in {"root", "span"} /\ RootAt(long, n + 1) = r
  BY <1>1, <1>5 DEF Under
<1> QED
  BY <1>3, <1>4, <1>6

(* The frames under a root are listed as before if the new one is not      *)
(* under it ...                                                            *)
LEMMA ListsSame ==
  ASSUME NEW short, NEW f, NEW n, NEW long, OneMore(short, f, n, long), NEW r,
         n + 1 \notin Under(long, r), NEW array, NEW place
  PROVE  Lists(long, r, array, place) <=> Lists(short, r, array, place)
<1>1. /\ n \in Nat /\ DOMAIN short = 1 .. n /\ DOMAIN long = 1 .. n + 1
      /\ \A i \in 1 .. n : long[i] = short[i]
  BY MoreFrames
<1>2. Under(long, r) = Under(short, r) /\ Under(short, r) \subseteq 1 .. n
  <2>1. /\ \A i \in 1 .. n : i \in Under(long, r) <=> i \in Under(short, r)
        /\ Under(short, r) \subseteq 1 .. n
        /\ Under(long, r) \subseteq 1 .. n + 1
    BY UnderMore
  <2>2. \A i \in 1 .. n + 1 : i \in 1 .. n \/ i = n + 1
    BY <1>1
  <2> QED
    BY <2>1, <2>2
<1>3. ASSUME Lists(long, r, array, place)
      PROVE  Lists(short, r, array, place)
  <2>1. \A k \in DOMAIN array : place[k] \in 1 .. n
    BY <1>2, <1>3 DEF Lists
  <2> QED
    BY <1>1, <1>2, <1>3, <2>1 DEF Lists
<1>4. ASSUME Lists(short, r, array, place)
      PROVE  Lists(long, r, array, place)
  BY <1>1, <1>2, <1>4 DEF Lists
<1> QED
  BY <1>3, <1>4

(* ... and with the new one last if it is.                                 *)
LEMMA ListsMore ==
  ASSUME NEW short, NEW f, NEW n, NEW long, OneMore(short, f, n, long), NEW r,
         n + 1 \in Under(long, r), NEW array \in Seq(Spans), NEW place,
         Lists(short, r, array, place), f.value \in Spans
  PROVE  \E longer \in [DOMAIN Append(array, f.value) -> DOMAIN long] :
           Lists(long, r, Append(array, f.value), longer)
<1> DEFINE m == Len(array)
           new == Append(array, f.value)
           longer == [k \in 1 .. m + 1 |-> IF k \in 1 .. m THEN place[k] ELSE n + 1]
<1>1. /\ n \in Nat /\ DOMAIN short = 1 .. n /\ DOMAIN long = 1 .. n + 1
      /\ \A i \in 1 .. n : long[i] = short[i]
      /\ long[n + 1] = f
  BY MoreFrames
<1>2. /\ \A i \in 1 .. n : i \in Under(long, r) <=> i \in Under(short, r)
      /\ Under(short, r) \subseteq 1 .. n
      /\ Under(long, r) \subseteq 1 .. n + 1
  BY UnderMore
<1>3. /\ m \in Nat /\ DOMAIN array = 1 .. m /\ DOMAIN new = 1 .. m + 1
      /\ \A k \in 1 .. m : new[k] = array[k]
      /\ new[m + 1] = f.value
  BY AppendProperties, LenProperties
<1> HIDE DEF m, new
<1>4. /\ place \in [1 .. m -> 1 .. n]
      /\ {place[k] : k \in 1 .. m} = Under(short, r)
      /\ \A k, l \in 1 .. m : k < l => place[k] < place[l]
      /\ \A k \in 1 .. m : array[k] = short[place[k]].value
  BY <1>1, <1>3 DEF Lists
<1>5. /\ longer \in [1 .. m + 1 -> 1 .. n + 1]
      /\ \A k \in 1 .. m : longer[k] = place[k]
      /\ longer[m + 1] = n + 1
  BY <1>1, <1>3, <1>4
<1> HIDE DEF longer
<1>6. \A k \in 1 .. m + 1 : k \in 1 .. m \/ k = m + 1
  BY <1>3
<1>7. {longer[k] : k \in 1 .. m + 1} = Under(long, r)
  <2>1. ASSUME NEW k \in 1 .. m + 1
        PROVE  longer[k] \in Under(long, r)
    BY <1>2, <1>4, <1>5, <1>6
  <2>2. ASSUME NEW i \in Under(long, r)
        PROVE  \E k \in 1 .. m + 1 : longer[k] = i
    <3>1. CASE i = n + 1
      BY <1>3, <1>5, <3>1
    <3>2. CASE i # n + 1
      <4>1. i \in Under(short, r)
        BY <1>1, <1>2, <3>2
      <4>2. PICK k \in 1 .. m : place[k] = i
        BY <1>4, <4>1
      <4> QED
        BY <1>3, <1>5, <4>2
    <3> QED
      BY <3>1, <3>2
  <2> QED
    BY <2>1, <2>2
<1>8. \A k, l \in 1 .. m + 1 : k < l => longer[k] < longer[l]
  <2> SUFFICES ASSUME NEW k \in 1 .. m + 1, NEW l \in 1 .. m + 1, k < l
               PROVE  longer[k] < longer[l]
    OBVIOUS
  <2>1. k \in 1 .. m /\ place[k] \in 1 .. n
    BY <1>3, <1>4
  <2>2. CASE l \in 1 .. m
    BY <1>4, <1>5, <2>1, <2>2
  <2>3. CASE l = m + 1
    BY <1>1, <1>5, <2>1, <2>3
  <2> QED
    BY <1>6, <2>2, <2>3
<1>9. \A k \in 1 .. m + 1 : new[k] = long[longer[k]].value
  BY <1>1, <1>3, <1>4, <1>5, <1>6
<1>10. Lists(long, r, new, longer) /\ longer \in [DOMAIN new -> DOMAIN long]
  BY <1>1, <1>3, <1>5, <1>7, <1>8, <1>9 DEF Lists
<1> QED
  BY <1>10 DEF new

(* When the new frame goes, so does the last of the list.                  *)
LEMMA ListsFewer ==
  ASSUME NEW short, NEW f, NEW n, NEW long, OneMore(short, f, n, long), NEW r,
         n + 1 \in Under(long, r), NEW array \in Seq(Spans), NEW place,
         Lists(long, r, array, place)
  PROVE  /\ array # << >>
         /\ \E fewer \in [DOMAIN Front(array) -> DOMAIN short] :
              Lists(short, r, Front(array), fewer)
<1> DEFINE m == Len(array)
           front == Front(array)
           fewer == [k \in 1 .. m - 1 |-> place[k]]
<1>1. /\ n \in Nat /\ DOMAIN short = 1 .. n /\ DOMAIN long = 1 .. n + 1
      /\ \A i \in 1 .. n : long[i] = short[i]
      /\ long[n + 1] = f
  BY MoreFrames
<1>2. /\ \A i \in 1 .. n : i \in Under(long, r) <=> i \in Under(short, r)
      /\ Under(short, r) \subseteq 1 .. n
      /\ Under(long, r) \subseteq 1 .. n + 1
  BY UnderMore
<1>3. m \in Nat /\ DOMAIN array = 1 .. m
  BY LenProperties
<1>4. /\ place \in [1 .. m -> 1 .. n + 1]
      /\ {place[k] : k \in 1 .. m} = Under(long, r)
      /\ \A k, l \in 1 .. m : k < l => place[k] < place[l]
      /\ \A k \in 1 .. m : array[k] = long[place[k]].value
  BY <1>1, <1>3 DEF Lists
<1>5. PICK last \in 1 .. m : place[last] = n + 1
  BY <1>4
<1>6. m > 0 /\ last = m
  <2>1. m > 0 /\ m \in 1 .. m
    BY <1>3
  <2>2. ~ (last < m)
    <3> SUFFICES ASSUME last < m  PROVE  FALSE
      OBVIOUS
    <3>1. place[last] < place[m] /\ place[m] \in 1 .. n + 1
      BY <1>4, <2>1
    <3> QED
      BY <1>1, <1>5, <3>1
  <2>3. last \in 1 .. m
    BY <1>5
  <2> HIDE DEF m
  <2> QED
    BY <1>3, <2>1, <2>2, <2>3
<1>7. /\ array # << >>
      /\ front \in Seq(Spans) /\ DOMAIN front = 1 .. m - 1
      /\ \A k \in 1 .. m - 1 : front[k] = array[k]
  <2>1. \A k \in 1 .. m - 1 : array[k] \in Spans
    BY <1>3, ElementOfSeq
  <2>2. /\ SubSeq(array, 1, m - 1) \in Seq(Spans)
        /\ Len(SubSeq(array, 1, m - 1)) = m - 1
        /\ \A k \in 1 .. m - 1 : SubSeq(array, 1, m - 1)[k] = array[k]
    BY <1>3, <1>6, <2>1, SubSeqProperties
  <2>3. front = SubSeq(array, 1, m - 1)
    BY DEF Front
  <2> HIDE DEF front
  <2> QED
    BY <1>6, <2>2, <2>3, LenProperties, EmptySeq
<1> HIDE DEF m, front
<1>8. \A k \in 1 .. m - 1 : k \in 1 .. m /\ place[k] \in 1 .. n
  <2> SUFFICES ASSUME NEW k \in 1 .. m - 1  PROVE  k \in 1 .. m /\ place[k] \in 1 .. n
    OBVIOUS
  <2>1. k \in 1 .. m /\ m \in 1 .. m /\ k < m
    BY <1>3, <1>6
  <2>2. place[k] < place[m] /\ place[k] \in 1 .. n + 1
    BY <1>4, <2>1
  <2> QED
    BY <1>1, <1>5, <1>6, <2>1, <2>2
<1>9. /\ fewer \in [1 .. m - 1 -> 1 .. n]
      /\ \A k \in 1 .. m - 1 : fewer[k] = place[k]
  BY <1>8
<1> HIDE DEF fewer
<1>10. {fewer[k] : k \in 1 .. m - 1} = Under(short, r)
  <2>1. ASSUME NEW k \in 1 .. m - 1
        PROVE  fewer[k] \in Under(short, r)
    BY <1>2, <1>4, <1>8, <1>9
  <2>2. ASSUME NEW i \in Under(short, r)
        PROVE  \E k \in 1 .. m - 1 : fewer[k] = i
    <3>1. i \in Under(long, r) /\ i \in 1 .. n
      BY <1>2
    <3>2. PICK k \in 1 .. m : place[k] = i
      BY <1>4, <3>1
    <3>3. k # m
      BY <1>1, <1>5, <1>6, <3>1, <3>2
    <3>4. k \in 1 .. m - 1
      BY <1>3, <3>3
    <3> QED
      BY <1>9, <3>2, <3>4
  <2> QED
    BY <2>1, <2>2
<1>11. \A k, l \in 1 .. m - 1 : k < l => fewer[k] < fewer[l]
  BY <1>4, <1>8, <1>9
<1>12. \A k \in 1 .. m - 1 : front[k] = short[fewer[k]].value
  BY <1>1, <1>4, <1>7, <1>8, <1>9
<1>13. Lists(short, r, front, fewer) /\ fewer \in [DOMAIN front -> DOMAIN short]
  BY <1>1, <1>7, <1>9, <1>10, <1>11, <1>12 DEF Lists
<1> QED
  BY <1>7, <1>13 DEF front

(* The last of the list is the innermost span there is.                    *)
LEMMA LastIsInnermost ==
  ASSUME NEW scopes \in Seq(Frames), NEW r, r # Nothing,
         Innermost(scopes, {"root"}) = r,
         NEW array \in Seq(Spans), NEW place, Lists(scopes, r, array, place)
  PROVE  array # << >> /\ Last(array) = Innermost(scopes, {"root", "span"})
<1> DEFINE n == Len(scopes)
           m == Len(array)
           spans == {i \in DOMAIN scopes : scopes[i].kind \in {"root", "span"}}
           roots == {i \in DOMAIN scopes : scopes[i].kind \in {"root"}}
           top == Max(spans)
           prefix == SubSeq(scopes, 1, top)
           under == {i \in DOMAIN prefix : prefix[i].kind \in {"root"}}
<1>1. n \in Nat /\ DOMAIN scopes = 1 .. n /\ m \in Nat /\ DOMAIN array = 1 .. m
  BY LenProperties
<1>2. roots # {} /\ r = scopes[Max(roots)].value
  BY DEF Innermost
<1>3. spans # {} /\ roots \subseteq spans /\ spans \in SUBSET (1 .. n)
  BY <1>1, <1>2
<1>4. Innermost(scopes, {"root", "span"}) = scopes[top].value
  BY <1>3 DEF Innermost
<1> HIDE DEF n, m, spans
<1>5. top \in spans /\ \A i \in spans : i <= top
  BY <1>1, <1>3, MaxOfPositions
<1> HIDE DEF top
<1>6. top \in 1 .. n
  BY <1>3, <1>5
<1>7. DOMAIN prefix = 1 .. top /\ \A i \in 1 .. top : prefix[i] = scopes[i]
  <2>1. \A i \in 1 .. top : scopes[i] \in Frames
    BY <1>1, <1>6, ElementOfSeq
  <2>2. /\ SubSeq(scopes, 1, top) \in Seq(Frames) /\ Len(SubSeq(scopes, 1, top)) = top
        /\ \A i \in 1 .. top : SubSeq(scopes, 1, top)[i] = scopes[i]
    BY <1>1, <1>6, <2>1, SubSeqProperties
  <2> QED
    BY <2>2, LenProperties
<1> HIDE DEF prefix
<1>8. under = roots
  <2>1. \A i \in roots : i \in 1 .. top
    BY <1>1, <1>3, <1>5, <1>6
  <2> QED
    BY <1>1, <1>6, <1>7, <2>1
<1>9. RootAt(scopes, top) = r
  <2>1. roots \in SUBSET (1 .. top)
    BY <1>7, <1>8
  <2> HIDE DEF roots
  <2>2. Max(roots) \in 1 .. top
    <3>1. top \in Nat /\ roots # {}
      BY <1>1, <1>2, <1>6
    <3>2. Max(roots) \in roots
      BY <2>1, <3>1, MaxOfPositions
    <3> QED
      BY <2>1, <3>2
  <2>3. Innermost(prefix, {"root"}) = prefix[Max(roots)].value
    BY <1>2, <1>8 DEF Innermost
  <2> QED
    BY <1>2, <1>7, <2>2, <2>3 DEF RootAt, prefix
<1>10. top \in Under(scopes, r)
  BY <1>5, <1>9 DEF Under, spans
<1>11. PICK k \in 1 .. m : place[k] = top
  BY <1>1, <1>10 DEF Lists
<1>12. m > 0 /\ m \in 1 .. m
  BY <1>1, <1>11
<1>13. place[m] \in Under(scopes, r) /\ place[m] \in 1 .. n
  BY <1>1, <1>12 DEF Lists
<1>14. place[m] \in spans
  BY <1>13 DEF Under, spans
<1>15. place[m] = top
  <2>1. CASE k = m
    BY <1>11, <2>1
  <2>2. CASE k # m
    <3>1. place[k] < place[m]
      BY <1>1, <1>12, <2>2 DEF Lists
    <3> QED
      BY <1>5, <1>6, <1>11, <1>13, <1>14, <3>1
  <2> QED
    BY <2>1, <2>2
<1>16. array[m] = scopes[top].value
  BY <1>1, <1>12, <1>15 DEF Lists
<1> QED
  BY <1>4, <1>12, <1>16, EmptySeq DEF Last, m

(* The frames under a root are the same if the new one is not under it,    *)
(* and can be listed as they could.                                        *)
LEMMA ListedSame ==
  ASSUME NEW short, NEW f, NEW n, NEW long, OneMore(short, f, n, long), NEW r,
         ~ (f.kind \in {"root", "span"} /\ RootAt(long, n + 1) = r), NEW array
  PROVE  Listed(long, r, array) <=> Listed(short, r, array)
<1>1. n + 1 \notin Under(long, r)
  BY UnderMore
<1>2. \A place : Lists(long, r, array, place) <=> Lists(short, r, array, place)
  BY <1>1, ListsSame
<1> QED
  BY <1>2 DEF Listed, Lists

(* A new frame has a root that is found, if the others have.               *)
LEMMA FoundMore ==
  ASSUME NEW short, NEW f, NEW n, NEW long, OneMore(short, f, n, long)
  PROVE  FoundIn(long) <=> FoundIn(short)
<1>1. /\ short \in Seq(Frames) /\ f \in Frames
      /\ n \in Nat /\ Len(short) = n /\ Len(long) = n + 1
      /\ \A i \in 1 .. n : long[i] = short[i]
      /\ long[n + 1] = f
      /\ \A j \in 0 .. n : RootAt(long, j) = RootAt(short, j)
      /\ RootAt(long, n + 1) = IF f.kind = "root" THEN f.value ELSE RootAt(short, n)
  <2>1. n = Len(short)
    BY DEF OneMore
  <2> QED
    BY <2>1, MoreFrames
<1>2. \A j \in 0 .. n : j \in 0 .. n + 1 /\ \A k \in 1 .. j : k \in 1 .. n
  BY <1>1
<1>3. ASSUME FoundIn(long)
      PROVE  FoundIn(short)
  BY <1>1, <1>2, <1>3 DEF FoundIn
<1>4. ASSUME FoundIn(short), NEW j \in 0 .. n + 1, RootAt(long, j) # Nothing
      PROVE  \E k \in 1 .. j : long[k] = Root(RootAt(long, j))
  <2>1. CASE j \in 0 .. n
    BY <1>1, <1>2, <1>4, <2>1 DEF FoundIn
  <2>2. CASE j = n + 1 /\ f.kind = "root"
    <3>1. f = Root(f.value)
      BY <1>1, <2>2 DEF Frames, Root
    <3>2. n + 1 \in 1 .. n + 1
      BY <1>1
    <3> QED
      BY <1>1, <2>2, <3>1, <3>2
  <2>3. CASE j = n + 1 /\ f.kind # "root"
    <3>1. n \in 0 .. n /\ RootAt(long, j) = RootAt(short, n)
      BY <1>1, <2>3
    <3>2. PICK k \in 1 .. n : short[k] = Root(RootAt(short, n))
      BY <1>1, <1>4, <3>1 DEF FoundIn
    <3>3. k \in 1 .. j /\ long[k] = short[k]
      BY <1>1, <2>3, <3>2
    <3> QED
      BY <3>1, <3>2, <3>3
  <2> QED
    BY <1>1, <2>1, <2>2, <2>3
<1> QED
  BY <1>1, <1>3, <1>4 DEF FoundIn

(* No root is there twice, if the new frame is not another one of it.      *)
LEMMA OnceMore ==
  ASSUME NEW short, NEW f, NEW n, NEW long, OneMore(short, f, n, long)
  PROVE  /\ OnceIn(long) => OnceIn(short)
         /\ OnceIn(short) /\ (\A i \in DOMAIN short : f.kind = "root" => short[i] # f)
              => OnceIn(long)
<1>1. /\ n \in Nat /\ DOMAIN short = 1 .. n /\ DOMAIN long = 1 .. n + 1
      /\ \A i \in 1 .. n : long[i] = short[i]
      /\ long[n + 1] = f
  BY MoreFrames
<1>2. \A i \in 1 .. n + 1 : i \in 1 .. n \/ i = n + 1
  BY <1>1
<1>3. \A i \in 1 .. n : i \in 1 .. n + 1
  BY <1>1
<1>4. \A r : f = Root(r) => f.kind = "root"
  BY DEF Root
<1>5. OnceIn(long) => OnceIn(short)
  BY <1>1, <1>3 DEF OnceIn
<1>6. ASSUME OnceIn(short), \A i \in DOMAIN short : f.kind = "root" => short[i] # f
      PROVE  OnceIn(long)
  BY <1>1, <1>2, <1>4, <1>6 DEF OnceIn
<1> QED
  BY <1>5, <1>6

-----------------------------------------------------------------------------
(* The frames of all the tasks, and the same when t has one more.          *)

Grows(t, f, n, scopes, more) ==
  /\ t \in Tasks
  /\ scopes \in [Tasks -> Seq(Frames)] /\ more \in [Tasks -> Seq(Frames)]
  /\ OneMore(scopes[t], f, n, more[t])
  /\ \A u \in Tasks \ {t} : more[u] = scopes[u]

(* The new frame is not one of those t was started in.                     *)
HasRoom(t, n, outer) ==
  outer[t] \in Nat /\ outer[t] <= n /\ MaxDepth \in Nat /\ n < MaxDepth

(* A frame is the new one or one there was.                                *)
LEMMA MoreScopes ==
  ASSUME NEW t, NEW f, NEW n, NEW scopes, NEW more, Grows(t, f, n, scopes, more)
  PROVE  /\ t \in Tasks /\ f \in Frames /\ n \in Nat
         /\ n + 1 \in DOMAIN more[t] /\ n + 1 \notin DOMAIN scopes[t] /\ more[t][n + 1] = f
         /\ \A u \in Tasks : \A i \in DOMAIN scopes[u] :
              i \in DOMAIN more[u] /\ more[u][i] = scopes[u][i]
         /\ \A u \in Tasks : \A i \in DOMAIN more[u] :
              \/ u = t /\ i = n + 1
              \/ i \in DOMAIN scopes[u] /\ more[u][i] = scopes[u][i]
<1>1. t \in Tasks /\ OneMore(scopes[t], f, n, more[t])
  BY DEF Grows
<1>2. /\ n \in Nat /\ f \in Frames
      /\ DOMAIN scopes[t] = 1 .. n /\ DOMAIN more[t] = 1 .. n + 1
      /\ \A i \in 1 .. n : more[t][i] = scopes[t][i]
      /\ more[t][n + 1] = f
  BY <1>1, MoreFrames
<1>3. \A u \in Tasks : u # t => more[u] = scopes[u]
  BY DEF Grows
<1>4. \A i \in 1 .. n + 1 : i \in 1 .. n \/ i = n + 1
  BY <1>2
<1>5. n + 1 \in 1 .. n + 1 /\ n + 1 \notin 1 .. n /\ \A i \in 1 .. n : i \in 1 .. n + 1
  BY <1>2
<1> QED
  BY <1>1, <1>2, <1>3, <1>4, <1>5

(* after has what before has, and the new frame if it is a scope under r.  *)
Opened(t, f, n, root, r, before, after) ==
  /\ <<t, n + 1>> \notin before
  /\ f.kind = "span" /\ root = r => after = before \cup {<<t, n + 1>>}
  /\ ~ (f.kind = "span" /\ root = r) => after = before

(* The new frame, and no other, may be a new open scope.                   *)
LEMMA OpenMore ==
  ASSUME NEW t, NEW f, NEW n, NEW scopes, NEW more, Grows(t, f, n, scopes, more),
         NEW outer, HasRoom(t, n, outer), NEW r
  PROVE  Opened(t, f, n, RootAt(more[t], n + 1), r,
                OpenIn(scopes, outer, r), OpenIn(more, outer, r))
<1>1. /\ t \in Tasks /\ n \in Nat
      /\ n + 1 \in DOMAIN more[t] /\ n + 1 \notin DOMAIN scopes[t] /\ more[t][n + 1] = f
      /\ \A u \in Tasks : \A i \in DOMAIN scopes[u] :
           i \in DOMAIN more[u] /\ more[u][i] = scopes[u][i]
      /\ \A u \in Tasks : \A i \in DOMAIN more[u] :
           \/ u = t /\ i = n + 1
           \/ i \in DOMAIN scopes[u] /\ more[u][i] = scopes[u][i]
  BY MoreScopes
<1>2. \A u \in Tasks : \A i \in DOMAIN scopes[u] : RootAt(more[u], i) = RootAt(scopes[u], i)
  <2>1. OneMore(scopes[t], f, n, more[t]) /\ \A u \in Tasks : u # t => more[u] = scopes[u]
    BY DEF Grows
  <2>2. /\ DOMAIN scopes[t] = 1 .. n
        /\ \A j \in 0 .. n : RootAt(more[t], j) = RootAt(scopes[t], j)
    BY <2>1, MoreFrames
  <2>3. \A i \in 1 .. n : i \in 0 .. n
    BY <1>1
  <2> QED
    BY <2>1, <2>2, <2>3
<1>3. n + 1 \in 1 .. MaxDepth /\ n + 1 > outer[t]
  BY <1>1 DEF HasRoom
<1>4. <<t, n + 1>> \notin OpenIn(scopes, outer, r)
  BY <1>1 DEF OpenIn
<1>5. <<t, n + 1>> \in OpenIn(more, outer, r) <=>
        f.kind = "span" /\ RootAt(more[t], n + 1) = r
  BY <1>1, <1>3 DEF OpenIn
<1>6. ASSUME NEW u \in Tasks, NEW i \in 1 .. MaxDepth, ~ (u = t /\ i = n + 1)
      PROVE  <<u, i>> \in OpenIn(more, outer, r) <=> <<u, i>> \in OpenIn(scopes, outer, r)
  BY <1>1, <1>2, <1>6 DEF OpenIn
<1>7. /\ \A x \in OpenIn(more, outer, r) : \E u \in Tasks, i \in 1 .. MaxDepth : x = <<u, i>>
      /\ \A x \in OpenIn(scopes, outer, r) : \E u \in Tasks, i \in 1 .. MaxDepth : x = <<u, i>>
  BY DEF OpenIn
<1> DEFINE A == OpenIn(more, outer, r)
           B == OpenIn(scopes, outer, r)
<1> HIDE DEF A, B
<1>8. \A x : x # <<t, n + 1>> => (x \in A <=> x \in B)
  BY <1>6, <1>7 DEF A, B
<1>9. Opened(t, f, n, RootAt(more[t], n + 1), r, B, A)
  BY <1>4, <1>5, <1>8 DEF Opened, A, B
<1> QED
  BY <1>9 DEF A, B

(* The new frame is an array's affair only if it is under its root.        *)
LEMMA OtherArrays ==
  ASSUME NEW t, NEW f, NEW n, NEW scopes, NEW more, Grows(t, f, n, scopes, more),
         NEW outer, HasRoom(t, n, outer),
         NEW r, ~ (f.kind \in {"root", "span"} /\ RootAt(more[t], n + 1) = r),
         NEW array
  PROVE  ArrayOf(more, outer, r, array) <=> ArrayOf(scopes, outer, r, array)
<1>1. /\ t \in Tasks /\ f \in Frames /\ n \in Nat
      /\ n + 1 \in DOMAIN more[t] /\ n + 1 \notin DOMAIN scopes[t] /\ more[t][n + 1] = f
      /\ \A u \in Tasks : \A i \in DOMAIN scopes[u] :
           i \in DOMAIN more[u] /\ more[u][i] = scopes[u][i]
      /\ \A u \in Tasks : \A i \in DOMAIN more[u] :
           \/ u = t /\ i = n + 1
           \/ i \in DOMAIN scopes[u] /\ more[u][i] = scopes[u][i]
  BY MoreScopes
<1>2. OneMore(scopes[t], f, n, more[t]) /\ \A u \in Tasks : u # t => more[u] = scopes[u]
  BY DEF Grows
<1>3. f # Root(r)
  <2>1. RootAt(more[t], n + 1) = IF f.kind = "root" THEN f.value ELSE RootAt(scopes[t], n)
    BY <1>2, MoreFrames
  <2>2. f = Root(r) => f.kind = "root" /\ f.value = r
    BY DEF Root
  <2> QED
    BY <2>1, <2>2
<1>4. OpenIn(more, outer, r) = OpenIn(scopes, outer, r)
  <2>1. ~ (f.kind = "span" /\ RootAt(more[t], n + 1) = r)
    OBVIOUS
  <2>2. Opened(t, f, n, RootAt(more[t], n + 1), r,
               OpenIn(scopes, outer, r), OpenIn(more, outer, r))
    BY OpenMore
  <2> QED
    BY <2>1, <2>2 DEF Opened
<1>5. \A u \in Tasks : OnlyHere(more, outer, u, r) <=> OnlyHere(scopes, outer, u, r)
  <2>1. \A u \in Tasks : \A i \in DOMAIN more[u] :
          more[u][i] = Root(r) => i \in DOMAIN scopes[u] /\ scopes[u][i] = Root(r)
    BY <1>1, <1>3
  <2> QED
    BY <1>1, <2>1 DEF OnlyHere
<1>6. \A u \in Tasks : Listed(more[u], r, array) <=> Listed(scopes[u], r, array)
  <2>1. Listed(more[t], r, array) <=> Listed(scopes[t], r, array)
    BY <1>2, ListedSame
  <2> QED
    BY <1>2, <2>1
<1> QED
  BY <1>4, <1>5, <1>6 DEF ArrayOf

(* While the new frame is under a root but not a root, whose root it is    *)
(* does not change, and t has it.                                          *)
LEMMA SpanUnderRoot ==
  ASSUME NEW t, NEW f, NEW n, NEW scopes, NEW more, Grows(t, f, n, scopes, more),
         NEW outer, f.kind = "span",
         NEW r, RootAt(more[t], n + 1) = r, r # Nothing, FoundIn(scopes[t])
  PROVE  /\ \E i \in DOMAIN scopes[t] : scopes[t][i] = Root(r)
         /\ \A u \in Tasks : OnlyHere(more, outer, u, r) <=> OnlyHere(scopes, outer, u, r)
         /\ \A u \in Tasks : OnlyHere(scopes, outer, u, r) => u = t
<1>1. /\ t \in Tasks /\ f \in Frames /\ n \in Nat
      /\ n + 1 \in DOMAIN more[t] /\ n + 1 \notin DOMAIN scopes[t] /\ more[t][n + 1] = f
      /\ \A u \in Tasks : \A i \in DOMAIN scopes[u] :
           i \in DOMAIN more[u] /\ more[u][i] = scopes[u][i]
      /\ \A u \in Tasks : \A i \in DOMAIN more[u] :
           \/ u = t /\ i = n + 1
           \/ i \in DOMAIN scopes[u] /\ more[u][i] = scopes[u][i]
  BY MoreScopes
<1>2. f # Root(r)
  BY DEF Root
<1>3. \E i \in DOMAIN scopes[t] : scopes[t][i] = Root(r)
  <2>1. OneMore(scopes[t], f, n, more[t])
    BY DEF Grows
  <2>2. DOMAIN scopes[t] = 1 .. n /\ RootAt(scopes[t], n) = r
    BY <2>1, MoreFrames
  <2>3. n = Len(scopes[t]) /\ n \in 0 .. n
    BY <1>1, <2>1 DEF OneMore
  <2> QED
    BY <2>2, <2>3 DEF FoundIn
<1>4. \A u \in Tasks : \A i \in DOMAIN more[u] :
        more[u][i] = Root(r) => i \in DOMAIN scopes[u] /\ scopes[u][i] = Root(r)
  BY <1>1, <1>2
<1>5. \A u \in Tasks : OnlyHere(more, outer, u, r) <=> OnlyHere(scopes, outer, u, r)
  BY <1>1, <1>4 DEF OnlyHere
<1>6. \A u \in Tasks : OnlyHere(scopes, outer, u, r) => u = t
  BY <1>1, <1>3 DEF OnlyHere
<1> QED
  BY <1>3, <1>5, <1>6

(* withScope: the span is the last of the array.                           *)
LEMMA SpanEnters ==
  ASSUME NEW t, NEW f, NEW n, NEW scopes, NEW more, Grows(t, f, n, scopes, more),
         NEW outer, HasRoom(t, n, outer), f.kind = "span",
         NEW r, RootAt(more[t], n + 1) = r, r # Nothing, FoundIn(scopes[t]),
         NEW array \in Seq(Spans), array # << >>, ArrayOf(scopes, outer, r, array)
  PROVE  ArrayOf(more, outer, r, Append(array, f.value))
<1> DEFINE longer == Append(array, f.value)
           A == OpenIn(more, outer, r)
           B == OpenIn(scopes, outer, r)
<1>1. /\ \A u \in Tasks : OnlyHere(more, outer, u, r) <=> OnlyHere(scopes, outer, u, r)
      /\ \A u \in Tasks : OnlyHere(scopes, outer, u, r) => u = t
  BY SpanUnderRoot, SMTT(30)
<1>2. Opened(t, f, n, RootAt(more[t], n + 1), r, B, A)
  BY OpenMore
<1>3. f \in Frames /\ f.value \in Spans
  <2>1. f \in Frames
    BY MoreScopes
  <2> QED
    BY <2>1 DEF Frames
<1>4. OneMore(scopes[t], f, n, more[t])
  BY DEF Grows
<1>5. longer \in Seq(Spans) /\ longer # << >> /\ Len(longer) = Len(array) + 1 /\ Len(array) \in Nat
  BY <1>3, AppendProperties, LenProperties
<1>6. Listed(scopes[t], r, array) => Listed(more[t], r, longer)
  <2> SUFFICES ASSUME Listed(scopes[t], r, array)  PROVE  Listed(more[t], r, longer)
    OBVIOUS
  <2>1. PICK place \in [DOMAIN array -> DOMAIN scopes[t]] : Lists(scopes[t], r, array, place)
    BY DEF Listed
  <2>2. n + 1 \in Under(more[t], r)
    BY <1>4, UnderMore
  <2> QED
    BY <1>3, <1>4, <2>1, <2>2, ListsMore DEF Listed
<1> HIDE DEF longer, A, B
<1>7. Balanced(A, longer)
  <2>1. Balanced(B, array)
    BY DEF ArrayOf, B
  <2>2. A = B \cup {<<t, n + 1>>} /\ <<t, n + 1>> \notin B
    BY <1>2 DEF Opened
  <2>3. IsFiniteSet(A) /\ Cardinality(A) = Cardinality(B) + 1 /\ Cardinality(B) \in Nat
    BY <2>1, <2>2, FS_AddElement, FS_CardinalityType DEF Balanced
  <2> QED
    BY <1>5, <2>1, <2>3 DEF Balanced
<1>8. \A u \in Tasks : OnlyHere(more, outer, u, r) => Listed(more[u], r, longer)
  BY <1>1, <1>6 DEF ArrayOf
<1> QED
  BY <1>7, <1>8 DEF ArrayOf, longer, A

(* Leave: the span that goes is the last of the array.                     *)
LEMMA SpanLeaves ==
  ASSUME NEW t, NEW f, NEW n, NEW scopes, NEW more, Grows(t, f, n, scopes, more),
         NEW outer, HasRoom(t, n, outer), f.kind = "span",
         NEW r, RootAt(more[t], n + 1) = r, r # Nothing, FoundIn(scopes[t]),
         NEW array \in Seq(Spans), array # << >>, ArrayOf(more, outer, r, array)
  PROVE  /\ Front(array) \in Seq(Spans) /\ Front(array) # << >>
         /\ ArrayOf(scopes, outer, r, Front(array))
<1> DEFINE fewer == Front(array)
           A == OpenIn(more, outer, r)
           B == OpenIn(scopes, outer, r)
<1>1. /\ \A u \in Tasks : OnlyHere(more, outer, u, r) <=> OnlyHere(scopes, outer, u, r)
      /\ \A u \in Tasks : OnlyHere(scopes, outer, u, r) => u = t
  BY SpanUnderRoot
<1>2. Opened(t, f, n, RootAt(more[t], n + 1), r, B, A)
  BY OpenMore
<1>3. OneMore(scopes[t], f, n, more[t])
  BY DEF Grows
<1>4. Listed(more[t], r, array) => Listed(scopes[t], r, fewer)
  <2> SUFFICES ASSUME Listed(more[t], r, array)  PROVE  Listed(scopes[t], r, fewer)
    OBVIOUS
  <2>1. PICK place \in [DOMAIN array -> DOMAIN more[t]] : Lists(more[t], r, array, place)
    BY DEF Listed
  <2>2. n + 1 \in Under(more[t], r)
    BY <1>3, UnderMore
  <2> QED
    BY <1>3, <2>1, <2>2, ListsFewer DEF Listed
<1>5. fewer \in Seq(Spans) /\ Len(fewer) = Len(array) - 1 /\ Len(array) \in Nat
  <2> DEFINE m == Len(array)
  <2>1. m \in Nat /\ m # 0 /\ DOMAIN array = 1 .. m
    BY LenProperties, EmptySeq
  <2>2. \A k \in 1 .. m - 1 : array[k] \in Spans
    BY <2>1, ElementOfSeq
  <2>3. 1 \in Int /\ m - 1 \in Int /\ (IF 1 <= m - 1 THEN (m - 1) - 1 + 1 ELSE 0) = m - 1
    BY <2>1
  <2>4. /\ SubSeq(array, 1, m - 1) \in Seq(Spans)
        /\ Len(SubSeq(array, 1, m - 1)) = m - 1
    BY <2>1, <2>2, <2>3, SubSeqProperties
  <2> QED
    BY <2>1, <2>4 DEF Front
<1> HIDE DEF fewer, A, B
<1>6. Len(array) = 1 + Cardinality(A) /\ IsFiniteSet(A)
  BY DEF ArrayOf, Balanced, A
<1>7. A = B \cup {<<t, n + 1>>} /\ <<t, n + 1>> \notin B
  BY <1>2 DEF Opened
<1>8. IsFiniteSet(B) /\ Cardinality(A) = Cardinality(B) + 1 /\ Cardinality(B) \in Nat
  <2>1. IsFiniteSet(B)
    BY <1>6, <1>7, FS_Subset
  <2> QED
    BY <1>7, <2>1, FS_AddElement, FS_CardinalityType
<1>9. fewer # << >> /\ Balanced(B, fewer)
  <2>1. Len(fewer) = 1 + Cardinality(B) /\ Len(fewer) # 0
    BY <1>5, <1>6, <1>8
  <2>2. fewer # << >>
    BY <1>5, <2>1, EmptySeq
  <2> QED
    BY <1>8, <2>1, <2>2 DEF Balanced
<1>10. \A u \in Tasks : OnlyHere(scopes, outer, u, r) => Listed(scopes[u], r, fewer)
  BY <1>1, <1>4 DEF ArrayOf
<1> QED
  BY <1>5, <1>9, <1>10 DEF ArrayOf, fewer, B

(* No frame has a span.                                                    *)
NotIn(scopes, s) == \A u \in Tasks : \A i \in DOMAIN scopes[u] : scopes[u][i].value # s

(* useSpanManager: the array has the root alone.                           *)
LEMMA RootEnters ==
  ASSUME NEW t, NEW n, NEW scopes, NEW more, NEW r \in Spans,
         Grows(t, Root(r), n, scopes, more),
         NEW outer, HasRoom(t, n, outer), r # Nothing, FoundIn(scopes[t]), NotIn(scopes, r),
         ArrayOf(scopes, outer, r, << >>)
  PROVE  ArrayOf(more, outer, r, <<r>>)
<1> DEFINE f == Root(r)
           A == OpenIn(more, outer, r)
           B == OpenIn(scopes, outer, r)
           place == [k \in {1} |-> n + 1]
<1>1. /\ t \in Tasks /\ n \in Nat
      /\ n + 1 \in DOMAIN more[t] /\ more[t][n + 1] = Root(r)
      /\ \A u \in Tasks : \A i \in DOMAIN scopes[u] :
           i \in DOMAIN more[u] /\ more[u][i] = scopes[u][i]
      /\ \A u \in Tasks : \A i \in DOMAIN more[u] :
           \/ u = t /\ i = n + 1
           \/ i \in DOMAIN scopes[u] /\ more[u][i] = scopes[u][i]
  BY MoreScopes
<1>2. Root(r).kind = "root" /\ Root(r).value = r
  BY DEF Root
<1>3. OneMore(scopes[t], Root(r), n, more[t])
  BY DEF Grows
<1>4. RootAt(more[t], n + 1) = r /\ n = Len(scopes[t])
      /\ \A j \in 0 .. n : RootAt(more[t], j) = RootAt(scopes[t], j)
  <2>1. n = Len(scopes[t])
    BY <1>3 DEF OneMore
  <2> QED
    BY <1>2, <1>3, <2>1, MoreFrames
<1>5. Opened(t, Root(r), n, RootAt(more[t], n + 1), r, B, A)
  BY OpenMore
<1>6. A = {}
  <2>1. B = {}
    BY DEF ArrayOf, Balanced
  <2> HIDE DEF A, B
  <2> QED
    BY <1>2, <1>5, <2>1 DEF Opened
<1>7. Balanced(A, <<r>>)
  <2>1. <<r>> # << >> /\ Len(<<r>>) = 1
    OBVIOUS
  <2> HIDE DEF A
  <2> QED
    BY <1>6, <2>1, FS_EmptySet DEF Balanced
<1>8. \A u \in Tasks : OnlyHere(more, outer, u, r) => u = t
  BY <1>1 DEF OnlyHere
<1>9. Under(more[t], r) = {n + 1}
  <2>1. /\ \A i \in 1 .. n : i \in Under(more[t], r) <=> i \in Under(scopes[t], r)
        /\ Under(more[t], r) \subseteq 1 .. n + 1
        /\ n + 1 \in Under(more[t], r) <=>
              Root(r).kind \in {"root", "span"} /\ RootAt(more[t], n + 1) = r
    BY <1>3, UnderMore
  <2>2. ASSUME NEW i \in 1 .. n
        PROVE  i \notin Under(scopes[t], r)
    <3> SUFFICES ASSUME RootAt(scopes[t], i) = r  PROVE  FALSE
      BY DEF Under
    <3>1. i \in 0 .. Len(scopes[t]) /\ DOMAIN scopes[t] = 1 .. n
      BY <1>1, <1>3, <1>4, MoreFrames
    <3>2. PICK k \in 1 .. i : scopes[t][k] = Root(r)
      BY <3>1 DEF FoundIn
    <3>3. k \in DOMAIN scopes[t]
      BY <1>1, <3>1, <3>2
    <3> QED
      BY <1>1, <1>2, <3>2, <3>3 DEF NotIn
  <2>3. \A i \in 1 .. n + 1 : i \in 1 .. n \/ i = n + 1
    BY <1>1
  <2>4. n + 1 \in Under(more[t], r)
    BY <1>2, <1>4, <2>1
  <2>5. \A i \in Under(more[t], r) : i = n + 1
    BY <2>1, <2>2, <2>3
  <2> QED
    BY <2>4, <2>5
<1>10. Lists(more[t], r, <<r>>, place) /\ place \in [DOMAIN <<r>> -> DOMAIN more[t]]
  <2>1. DOMAIN <<r>> = {1} /\ <<r>>[1] = r
    OBVIOUS
  <2>2. place \in [{1} -> DOMAIN more[t]] /\ place[1] = n + 1
    BY <1>1
  <2>3. {place[k] : k \in {1}} = {n + 1}
    BY <2>2
  <2> HIDE DEF place
  <2>4. \A k, l \in {1} : ~ k < l
    OBVIOUS
  <2>5. \A k \in {1} : <<r>>[k] = more[t][place[k]].value
    BY <1>1, <1>2, <2>1, <2>2
  <2> QED
    BY <1>9, <2>1, <2>2, <2>3, <2>4, <2>5 DEF Lists
<1>11. Listed(more[t], r, <<r>>)
  BY <1>10 DEF Listed
<1> QED
  BY <1>7, <1>8, <1>11 DEF ArrayOf

(* Leave: with its root the array is nobody's own any more.                *)
LEMMA RootLeaves ==
  ASSUME NEW t, NEW n, NEW scopes, NEW more, NEW r \in Spans,
         Grows(t, Root(r), n, scopes, more),
         NEW outer, HasRoom(t, n, outer), OnceIn(more[t]), OwnedIn(more, outer),
         NEW array, ArrayOf(more, outer, r, array)
  PROVE  ArrayOf(scopes, outer, r, array)
<1> DEFINE A == OpenIn(more, outer, r)
           B == OpenIn(scopes, outer, r)
<1>1. /\ t \in Tasks /\ n \in Nat
      /\ n + 1 \in DOMAIN more[t] /\ n + 1 \notin DOMAIN scopes[t] /\ more[t][n + 1] = Root(r)
      /\ \A u \in Tasks : \A i \in DOMAIN scopes[u] :
           i \in DOMAIN more[u] /\ more[u][i] = scopes[u][i]
  BY MoreScopes
<1>2. Root(r).kind = "root"
  BY DEF Root
<1>3. Opened(t, Root(r), n, RootAt(more[t], n + 1), r, B, A)
  BY OpenMore
<1>4. Balanced(B, array)
  <2>1. Balanced(A, array)
    BY DEF ArrayOf
  <2> HIDE DEF A, B
  <2> QED
    BY <1>2, <1>3, <2>1 DEF Opened
<1>5. \A u \in Tasks : ~ OnlyHere(scopes, outer, u, r)
  <2> SUFFICES ASSUME NEW u \in Tasks, OnlyHere(scopes, outer, u, r)  PROVE  FALSE
    OBVIOUS
  <2>1. PICK i \in DOMAIN scopes[u] : i > outer[u] /\ scopes[u][i] = Root(r)
    BY DEF OnlyHere
  <2>2. i \in DOMAIN more[u] /\ more[u][i] = Root(r)
    BY <1>1, <2>1
  <2>3. CASE u = t
    BY <1>1, <2>1, <2>2, <2>3 DEF OnceIn
  <2>4. CASE u # t
    <3>1. n + 1 <= outer[t]
      BY <1>1, <2>1, <2>2, <2>4 DEF OwnedIn
    <3> QED
      BY <1>1, <3>1 DEF HasRoom
  <2> QED
    BY <2>3, <2>4
<1> QED
  BY <1>4, <1>5 DEF ArrayOf

(* The roots stay as they should with a new frame ...                      *)
LEMMA RootsMore ==
  ASSUME NEW t, NEW f, NEW n, NEW scopes, NEW more, Grows(t, f, n, scopes, more),
         NEW outer, NEW lists, NEW newLists, RootsIn(scopes, outer, lists),
         f.kind = "root" => NotIn(scopes, f.value),
         f.kind = "root" => newLists[f.value] # << >>,
         \A r \in Spans : lists[r] # << >> => newLists[r] # << >>
  PROVE  RootsIn(more, outer, newLists)
<1>1. /\ t \in Tasks /\ f \in Frames /\ n \in Nat
      /\ n + 1 \in DOMAIN more[t] /\ n + 1 \notin DOMAIN scopes[t] /\ more[t][n + 1] = f
      /\ \A u \in Tasks : \A i \in DOMAIN more[u] :
           \/ u = t /\ i = n + 1
           \/ i \in DOMAIN scopes[u] /\ more[u][i] = scopes[u][i]
  BY MoreScopes
<1>2. OneMore(scopes[t], f, n, more[t]) /\ \A u \in Tasks : u # t => more[u] = scopes[u]
  BY DEF Grows
<1>3. \A r : f = Root(r) => f.kind = "root" /\ f.value = r
  BY DEF Root
<1>4. ASSUME NEW u \in Tasks
      PROVE  FoundIn(more[u]) /\ OnceIn(more[u])
  <2>1. FoundIn(scopes[u]) /\ OnceIn(scopes[u])
    BY DEF RootsIn
  <2>2. CASE u = t
    <3>1. FoundIn(more[t])
      BY <1>2, <2>1, <2>2, FoundMore
    <3>2. \A i \in DOMAIN scopes[t] : f.kind = "root" => scopes[t][i] # f
      BY <1>1 DEF NotIn
    <3>3. OnceIn(more[t])
      BY <1>2, <2>1, <2>2, <3>2, OnceMore
    <3> QED
      BY <2>2, <3>1, <3>3
  <2> QED
    BY <1>2, <2>1, <2>2
<1>5. OwnedIn(more, outer)
  <2> SUFFICES ASSUME NEW r \in Spans, NEW u \in Tasks, NEW v \in Tasks,
                      NEW i \in DOMAIN more[u], NEW j \in DOMAIN more[v],
                      more[u][i] = Root(r), more[v][j] = Root(r), i > outer[u], u # v
               PROVE  j <= outer[v]
    BY DEF OwnedIn
  <2>1. CASE f = Root(r)
    <3>1. \A w \in Tasks : \A k \in DOMAIN scopes[w] : scopes[w][k] # Root(r)
      BY <1>3, <2>1 DEF NotIn
    <3> QED
      BY <1>1, <3>1
  <2>2. CASE f # Root(r)
    <3>1. /\ i \in DOMAIN scopes[u] /\ scopes[u][i] = Root(r)
          /\ j \in DOMAIN scopes[v] /\ scopes[v][j] = Root(r)
      BY <1>1, <2>2
    <3> QED
      BY <3>1 DEF RootsIn, OwnedIn
  <2> QED
    BY <2>1, <2>2
<1>6. ArrayIn(more, newLists)
  BY <1>1, <1>3 DEF RootsIn, ArrayIn
<1> QED
  BY <1>4, <1>5, <1>6 DEF RootsIn

(* ... and without it.                                                     *)
LEMMA RootsFewer ==
  ASSUME NEW t, NEW f, NEW n, NEW scopes, NEW more, Grows(t, f, n, scopes, more),
         NEW outer, NEW lists, NEW newLists, RootsIn(more, outer, lists),
         \A r \in Spans : lists[r] # << >> => newLists[r] # << >>
  PROVE  RootsIn(scopes, outer, newLists)
<1>1. \A u \in Tasks : \A i \in DOMAIN scopes[u] :
        i \in DOMAIN more[u] /\ more[u][i] = scopes[u][i]
  BY MoreScopes
<1>2. OneMore(scopes[t], f, n, more[t]) /\ \A u \in Tasks : u # t => more[u] = scopes[u]
  BY DEF Grows
<1>3. ASSUME NEW u \in Tasks
      PROVE  FoundIn(scopes[u]) /\ OnceIn(scopes[u])
  <2>1. FoundIn(more[u]) /\ OnceIn(more[u])
    BY DEF RootsIn
  <2>2. CASE u = t
    <3>1. FoundIn(scopes[t])
      BY <1>2, <2>1, <2>2, FoundMore
    <3>2. OnceIn(scopes[t])
      BY <1>2, <2>1, <2>2, OnceMore
    <3> QED
      BY <2>2, <3>1, <3>2
  <2> QED
    BY <1>2, <2>1, <2>2
<1>4. OwnedIn(scopes, outer) /\ ArrayIn(scopes, newLists)
  BY <1>1 DEF RootsIn, OwnedIn, ArrayIn
<1> QED
  BY <1>3, <1>4 DEF RootsIn

-----------------------------------------------------------------------------
(* The steps.                                                              *)

LEMMA EnterGrows ==
  ASSUME ScopesTypeOK, NEW t \in Tasks, NEW f \in Frames, Enter(t, f),
         UNCHANGED <<started, inherited>>, arrays' \in [Spans -> Seq(Spans)]
  PROVE  /\ Grows(t, f, Len(frames[t]), frames, frames')
         /\ HasRoom(t, Len(frames[t]), inherited)
         /\ ScopesTypeOK'
<1> USE DEF ScopesTypeOK
<1>1. frames[t] \in Seq(Frames) /\ Len(frames[t]) \in Nat /\ MaxDepth \in Nat
  BY ScopeAssumption
<1>2. /\ Append(frames[t], f) \in Seq(Frames)
      /\ Len(Append(frames[t], f)) = Len(frames[t]) + 1
  BY <1>1, AppendProperties
<1>3. frames'[t] = Append(frames[t], f) /\ \A u \in Tasks \ {t} : frames'[u] = frames[u]
  BY DEF Enter
<1>4. frames' \in [Tasks -> Seq(Frames)]
  BY <1>2 DEF Enter
<1>5. Grows(t, f, Len(frames[t]), frames, frames')
  BY <1>1, <1>3, <1>4 DEF Grows, OneMore
<1>6. HasRoom(t, Len(frames[t]), inherited)
  BY <1>1 DEF HasRoom, Enter
<1>7. t \in started /\ Len(frames[t]) < MaxDepth
  BY DEF Enter
<1>8. ASSUME NEW u \in Tasks
      PROVE  inherited[u] <= Len(frames'[u]) /\ Len(frames'[u]) <= MaxDepth
  <2>1. CASE u = t
    <3>1. inherited[t] \in Nat /\ inherited[t] <= Len(frames[t])
      OBVIOUS
    <3> QED
      BY <1>1, <1>2, <1>3, <1>7, <2>1, <3>1
  <2>2. CASE u # t
    BY <1>3, <2>2
  <2> QED
    BY <2>1, <2>2
<1>9. \A u \in Tasks \ started : frames'[u] = << >>
  BY <1>3, <1>7
<1> QED
  BY <1>4, <1>5, <1>6, <1>8, <1>9

LEMMA LeaveShrinks ==
  ASSUME ScopesTypeOK, NEW t \in Tasks, Leave(t), arrays' \in [Spans -> Seq(Spans)]
  PROVE  /\ Grows(t, Last(frames[t]), Len(frames[t]) - 1, frames', frames)
         /\ HasRoom(t, Len(frames[t]) - 1, inherited)
         /\ ScopesTypeOK'
<1> USE DEF ScopesTypeOK
<1> DEFINE long == frames[t]
           n == Len(long) - 1
<1>1. /\ long \in Seq(Frames) /\ Len(long) \in Nat /\ MaxDepth \in Nat
      /\ inherited[t] \in Nat /\ inherited[t] < Len(long) /\ Len(long) <= MaxDepth
  BY ScopeAssumption DEF Leave
<1>2. long # << >>
  BY <1>1, EmptySeq
<1>3. PICK short \in Seq(Frames), f \in Frames : long = Append(short, f)
  BY <1>1, <1>2, SequenceEmptyOrAppend
<1>4. /\ Len(long) = Len(short) + 1 /\ long[Len(long)] = f
      /\ \A i \in 1 .. Len(short) : long[i] = short[i]
      /\ Len(short) \in Nat
  BY <1>3, AppendProperties
<1>5. n \in Nat /\ n = Len(short)
  BY <1>1, <1>4
<1>6. Last(long) = f
  BY <1>4 DEF Last
<1>7. Front(long) = short
  <2> DEFINE front == SubSeq(long, 1, n)
  <2>1. \A i \in 1 .. n : long[i] \in Frames
    BY <1>4, <1>5, ElementOfSeq
  <2>2. front \in Seq(Frames) /\ Len(front) = n /\ \A i \in 1 .. n : front[i] = long[i]
    BY <1>5, <2>1, SubSeqProperties
  <2>3. \A i \in 1 .. Len(front) : front[i] = short[i]
    BY <1>4, <1>5, <2>2
  <2>4. Len(front) = Len(short)
    BY <1>5, <2>2
  <2>5. Front(long) = front
    BY DEF Front
  <2> HIDE DEF front, long
  <2> QED
    BY <2>2, <2>3, <2>4, <2>5, SeqEqual
<1>8. frames'[t] = short /\ \A u \in Tasks \ {t} : frames'[u] = frames[u]
  BY <1>7 DEF Leave
<1>9. frames' \in [Tasks -> Seq(Frames)]
  BY <1>7 DEF Leave
<1>10. Grows(t, f, n, frames', frames)
  BY <1>3, <1>5, <1>8, <1>9 DEF Grows, OneMore
<1>11. HasRoom(t, n, inherited)
  BY <1>1, <1>5 DEF HasRoom
<1>12. started' = started /\ inherited' = inherited
  BY DEF Leave
<1>13. ASSUME NEW u \in Tasks
       PROVE  inherited[u] <= Len(frames'[u]) /\ Len(frames'[u]) <= MaxDepth
  <2>1. CASE u = t
    BY <1>1, <1>5, <1>8, <2>1
  <2>2. CASE u # t
    BY <1>8, <2>2
  <2> QED
    BY <2>1, <2>2
<1>14. \A u \in Tasks \ started : frames'[u] = << >>
  BY <1>2, <1>8
<1> QED
  BY <1>6, <1>9, <1>10, <1>11, <1>12, <1>13, <1>14

(* A root span that is found is one, and has an array.                     *)
LEMMA FoundRoot ==
  ASSUME NEW scopes \in [Tasks -> Seq(Frames)], NEW outer, NEW lists,
         RootsIn(scopes, outer, lists), NEW t \in Tasks,
         RootAt(scopes[t], Len(scopes[t])) # Nothing
  PROVE  /\ RootAt(scopes[t], Len(scopes[t])) \in Spans
         /\ lists[RootAt(scopes[t], Len(scopes[t]))] # << >>
<1> DEFINE n == Len(scopes[t])
           r == RootAt(scopes[t], n)
<1>1. scopes[t] \in Seq(Frames) /\ n \in Nat /\ DOMAIN scopes[t] = 1 .. n
  BY LenProperties
<1> HIDE DEF r
<1>2. PICK k \in 1 .. n : scopes[t][k] = Root(r)
  <2>1. n \in 0 .. Len(scopes[t]) /\ FoundIn(scopes[t])
    BY <1>1 DEF RootsIn
  <2> QED
    BY <2>1 DEF FoundIn, r
<1>3. scopes[t][k] \in Frames /\ k \in DOMAIN scopes[t]
  BY <1>1, <1>2, ElementOfSeq
<1>4. r \in Spans
  BY <1>2, <1>3 DEF Frames, Root
<1>5. lists[r] # << >>
  BY <1>2, <1>3, <1>4 DEF RootsIn, ArrayIn
<1> QED
  BY <1>4, <1>5 DEF r

LEMMA ContextIsRoot ==
  ASSUME ScopesTypeOK, NEW t \in Tasks
  PROVE  Context(t) = RootAt(frames[t], Len(frames[t]))
<1>1. SubSeq(frames[t], 1, Len(frames[t])) = frames[t]
  BY SubSeqFull DEF ScopesTypeOK
<1> QED
  BY <1>1 DEF Context, RootAt

LEMMA ContextFound ==
  ASSUME ScopesInv, NEW t \in Tasks, Context(t) # Nothing
  PROVE  Context(t) \in Spans /\ arrays[Context(t)] # << >>
<1>1. Context(t) = RootAt(frames[t], Len(frames[t]))
  BY ContextIsRoot DEF ScopesInv
<1>2. frames \in [Tasks -> Seq(Frames)] /\ RootsIn(frames, inherited, arrays)
  BY DEF ScopesInv, ScopesTypeOK
<1> QED
  BY <1>1, <1>2, FoundRoot

(* A step in which no array changes, and the new frame is of no root.      *)
LEMMA CorrelationKeepsScopes ==
  ASSUME ScopesInv, NEW t \in Tasks, NEW id \in Ids, useCorrelationId(t, id)
  PROVE  ScopesInv'
<1> DEFINE f == [kind |-> "id", value |-> id]
           n == Len(frames[t])
<1>1. f \in Frames /\ f.kind = "id"
  BY DEF Frames
<1>2. arrays' = arrays /\ inherited' = inherited /\ arrays \in [Spans -> Seq(Spans)]
  BY DEF useCorrelationId, ScopesInv, ScopesTypeOK
<1>3. Enter(t, f)
  BY DEF useCorrelationId
<1> HIDE DEF f
<1>4. Grows(t, f, n, frames, frames') /\ HasRoom(t, n, inherited) /\ ScopesTypeOK'
  BY <1>1, <1>2, <1>3, EnterGrows DEF ScopesInv, useCorrelationId
<1> HIDE DEF n
<1>5. RootsIn(frames', inherited, arrays)
  BY <1>1, <1>4, RootsMore DEF ScopesInv
<1>6. ASSUME NEW r \in Spans
      PROVE  ArrayOf(frames', inherited, r, arrays[r])
  <2>1. ~ (f.kind \in {"root", "span"} /\ RootAt(frames'[t], n + 1) = r)
    BY <1>1
  <2> QED
    BY <1>4, <2>1, OtherArrays DEF ScopesInv
<1> QED
  BY <1>2, <1>4, <1>5, <1>6 DEF ScopesInv

LEMMA SpanManagerKeepsScopes ==
  ASSUME ScopesInv, NEW t \in Tasks, NEW root \in Spans, useSpanManager(t, root)
  PROVE  ScopesInv'
<1> DEFINE n == Len(frames[t])
<1>1. Root(root) \in Frames /\ Root(root).kind = "root" /\ Root(root).value = root
  BY DEF Frames, Root
<1>2. /\ arrays' = [arrays EXCEPT ![root] = <<root>>]
      /\ inherited' = inherited /\ arrays \in [Spans -> Seq(Spans)]
      /\ arrays[root] = << >> /\ NotIn(frames, root)
  BY DEF useSpanManager, ScopesInv, ScopesTypeOK, Unused, NotIn
<1>3. /\ arrays' \in [Spans -> Seq(Spans)]
      /\ arrays'[root] = <<root>> /\ arrays'[root] # << >>
      /\ \A r \in Spans : r # root => arrays'[r] = arrays[r]
  BY <1>2
<1>4. Enter(t, Root(root)) /\ UNCHANGED <<started, inherited>>
  BY DEF useSpanManager, Root
<1>5. Grows(t, Root(root), n, frames, frames') /\ HasRoom(t, n, inherited) /\ ScopesTypeOK'
  BY <1>1, <1>3, <1>4, EnterGrows DEF ScopesInv
<1> HIDE DEF n
<1>6. RootsIn(frames', inherited, arrays')
  <2>1. \A r \in Spans : arrays[r] # << >> => arrays'[r] # << >>
    BY <1>3
  <2>2. NotIn(frames, Root(root).value) /\ arrays'[Root(root).value] # << >>
    BY <1>1, <1>2, <1>3
  <2>3. RootsIn(frames, inherited, arrays)
    BY DEF ScopesInv
  <2> QED
    BY <1>5, <2>1, <2>2, <2>3, RootsMore
<1>7. ASSUME NEW r \in Spans
      PROVE  ArrayOf(frames', inherited, r, arrays'[r])
  <2>1. ArrayOf(frames, inherited, r, arrays[r]) /\ FoundIn(frames[t])
    BY DEF ScopesInv, RootsIn
  <2>2. CASE r = root
    <3>1. root # Nothing
      BY ScopeAssumption
    <3> QED
      BY <1>2, <1>3, <1>5, <2>1, <2>2, <3>1, RootEnters
  <2>3. CASE r # root
    <3>1. OneMore(frames[t], Root(root), n, frames'[t])
      BY <1>5 DEF Grows
    <3>2. RootAt(frames'[t], n + 1) = root
      BY <1>1, <3>1, MoreFrames
    <3>3. ~ (Root(root).kind \in {"root", "span"} /\ RootAt(frames'[t], n + 1) = r)
      BY <2>3, <3>2
    <3>4. ArrayOf(frames', inherited, r, arrays[r])
      BY <1>5, <2>1, <3>3, OtherArrays
    <3> QED
      BY <1>3, <2>3, <3>4
  <2> QED
    BY <2>2, <2>3
<1> QED
  BY <1>2, <1>5, <1>6, <1>7 DEF ScopesInv

LEMMA WithScopeKeepsScopes ==
  ASSUME ScopesInv, NEW t \in Tasks, NEW span \in Spans, withScope(t, span)
  PROVE  ScopesInv'
<1> DEFINE f == [kind |-> "span", value |-> span]
           n == Len(frames[t])
           c == Context(t)
<1>1. f \in Frames /\ f.kind = "span" /\ f.value = span
  BY DEF Frames
<1>2. /\ inherited' = inherited /\ started' = started /\ arrays \in [Spans -> Seq(Spans)]
      /\ arrays' = IF c = Nothing THEN arrays ELSE [arrays EXCEPT ![c] = Append(@, span)]
  BY DEF withScope, ScopesInv, ScopesTypeOK
<1>3. c = RootAt(frames[t], n)
  BY ContextIsRoot DEF ScopesInv
<1>4. RootsIn(frames, inherited, arrays)
  BY DEF ScopesInv
<1>5. c # Nothing => c \in Spans /\ arrays[c] # << >>
  BY ContextFound
<1>6. Enter(t, f)
  BY DEF withScope
<1> HIDE DEF f, c
<1>7. c # Nothing => /\ arrays[c] \in Seq(Spans)
                     /\ Append(arrays[c], span) \in Seq(Spans)
                     /\ Append(arrays[c], span) # << >>
  <2> SUFFICES ASSUME c # Nothing
               PROVE  /\ arrays[c] \in Seq(Spans)
                      /\ Append(arrays[c], span) \in Seq(Spans)
                      /\ Append(arrays[c], span) # << >>
    OBVIOUS
  <2> DEFINE array == arrays[c]
  <2>1. array \in Seq(Spans)
    BY <1>2, <1>5
  <2> HIDE DEF array
  <2>2. Append(array, span) \in Seq(Spans) /\ Append(array, span) # << >>
    BY <2>1, AppendProperties
  <2> QED
    BY <2>1, <2>2 DEF array
<1>8. /\ arrays' \in [Spans -> Seq(Spans)]
      /\ \A r \in Spans : r # c => arrays'[r] = arrays[r]
      /\ c # Nothing => arrays'[c] = Append(arrays[c], span)
  <2>1. CASE c = Nothing
    BY <1>2, <2>1
  <2>2. CASE c # Nothing
    <3> DEFINE longer == Append(arrays[c], span)
    <3>1. longer \in Seq(Spans) /\ c \in Spans
      BY <1>5, <1>7, <2>2
    <3>2. arrays' = [arrays EXCEPT ![c] = longer]
      BY <1>2, <2>2
    <3> HIDE DEF longer
    <3>3. arrays' \in [Spans -> Seq(Spans)] /\ arrays'[c] = longer
          /\ \A r \in Spans : r # c => arrays'[r] = arrays[r]
      BY <1>2, <3>1, <3>2
    <3> QED
      BY <3>3 DEF longer
  <2> QED
    BY <2>1, <2>2
<1>9. Grows(t, f, n, frames, frames') /\ HasRoom(t, n, inherited) /\ ScopesTypeOK'
  BY <1>1, <1>2, <1>6, <1>8, EnterGrows DEF ScopesInv
<1>10. RootAt(frames'[t], n + 1) = c
  <2>1. OneMore(frames[t], f, n, frames'[t])
    BY <1>9 DEF Grows
  <2> HIDE DEF n
  <2>2. RootAt(frames'[t], n + 1) = RootAt(frames[t], n)
    BY <1>1, <2>1, MoreFrames
  <2> QED
    BY <1>3, <2>2 DEF n
<1> HIDE DEF n
<1>11. RootsIn(frames', inherited, arrays')
  <2>1. \A r \in Spans : arrays[r] # << >> => arrays'[r] # << >>
    BY <1>7, <1>8, ScopeAssumption
  <2> QED
    BY <1>1, <1>4, <1>9, <2>1, RootsMore
<1>12. ASSUME NEW r \in Spans
       PROVE  ArrayOf(frames', inherited, r, arrays'[r])
  <2>1. ArrayOf(frames, inherited, r, arrays[r]) /\ FoundIn(frames[t]) /\ r # Nothing
    BY ScopeAssumption DEF ScopesInv, RootsIn
  <2>2. CASE r = c
    <3>1. arrays[r] \in Seq(Spans) /\ arrays[r] # << >>
      BY <1>5, <1>7, <2>1, <2>2
    <3>2. ArrayOf(frames', inherited, r, Append(arrays[r], f.value))
      BY <1>1, <1>9, <1>10, <2>1, <2>2, <3>1, SpanEnters
    <3>3. arrays'[r] = Append(arrays[r], f.value)
      BY <1>1, <1>8, <2>1, <2>2
    <3> QED
      BY <3>2, <3>3
  <2>3. CASE r # c
    <3>1. ~ (f.kind \in {"root", "span"} /\ RootAt(frames'[t], n + 1) = r)
      BY <1>10, <2>3
    <3>2. ArrayOf(frames', inherited, r, arrays[r])
      BY <1>9, <2>1, <3>1, OtherArrays
    <3> QED
      BY <1>8, <2>3, <3>2
  <2> QED
    BY <2>2, <2>3
<1> QED
  BY <1>2, <1>9, <1>11, <1>12 DEF ScopesInv

LEMMA LeaveKeepsScopes ==
  ASSUME ScopesInv, NEW t \in Tasks, Leave(t)
  PROVE  ScopesInv'
<1> DEFINE f == Last(frames[t])
           n == Len(frames[t]) - 1
           c == Context(t)
           pops == f.kind = "span" /\ c # Nothing
<1>1. /\ inherited' = inherited /\ arrays \in [Spans -> Seq(Spans)]
      /\ frames \in [Tasks -> Seq(Frames)] /\ RootsIn(frames, inherited, arrays)
  BY DEF Leave, ScopesInv, ScopesTypeOK
<1>2. c = RootAt(frames[t], n + 1)
  <2>1. Len(frames[t]) \in Nat
    BY <1>1
  <2>2. n + 1 = Len(frames[t])
    BY <2>1
  <2> QED
    BY <2>2, ContextIsRoot DEF ScopesInv
<1>3. c # Nothing => c \in Spans /\ arrays[c] # << >>
  BY ContextFound
<1>4. arrays' = IF pops THEN [arrays EXCEPT ![c] = Front(@)] ELSE arrays
  BY <1>3 DEF Leave
<1> HIDE DEF c
<1>5. arrays' \in [Spans -> Seq(Spans)]
  <2>1. CASE pops
    <3>1. c \in Spans /\ arrays[c] \in Seq(Spans) /\ arrays[c] # << >>
      BY <1>1, <1>3, <2>1
    <3>2. PICK short \in Seq(Spans), s \in Spans : arrays[c] = Append(short, s)
      BY <3>1, SequenceEmptyOrAppend
    <3>3. Front(arrays[c]) \in Seq(Spans)
      <4> DEFINE array == arrays[c]
                 m == Len(array)
      <4>1. array \in Seq(Spans) /\ m \in Nat /\ m # 0
        BY <3>1, EmptySeq
      <4> HIDE DEF array
      <4>2. \A i \in 1 .. m - 1 : array[i] \in Spans
        BY <4>1, ElementOfSeq
      <4>3. SubSeq(array, 1, m - 1) \in Seq(Spans)
        BY <4>1, <4>2, SubSeqProperties
      <4> QED
        BY <4>3 DEF Front, array
    <3> DEFINE fewer == Front(arrays[c])
    <3>4. arrays' = [arrays EXCEPT ![c] = fewer]
      BY <1>4, <2>1
    <3> HIDE DEF fewer
    <3> QED
      BY <1>1, <3>1, <3>3, <3>4 DEF fewer
  <2>2. CASE ~ pops
    BY <1>1, <1>4, <2>2
  <2> QED
    BY <2>1, <2>2
<1>6. Grows(t, f, n, frames', frames) /\ HasRoom(t, n, inherited) /\ ScopesTypeOK'
  BY <1>5, LeaveShrinks DEF ScopesInv
<1>7. FoundIn(frames'[t]) /\ FoundIn(frames[t])
  <2>1. OneMore(frames'[t], f, n, frames[t])
    BY <1>6 DEF Grows
  <2>2. FoundIn(frames[t])
    BY <1>1 DEF RootsIn
  <2> QED
    BY <2>1, <2>2, FoundMore
<1> HIDE DEF f, n
<1>8. ASSUME NEW r \in Spans
      PROVE  /\ ArrayOf(frames', inherited, r, arrays'[r])
             /\ arrays[r] # << >> => arrays'[r] # << >>
  <2>1. ArrayOf(frames, inherited, r, arrays[r]) /\ r # Nothing /\ arrays[r] \in Seq(Spans)
    BY <1>1, ScopeAssumption DEF ScopesInv
  <2>2. CASE f.kind = "span" /\ r = c
    <3>1. arrays[r] # << >> /\ RootAt(frames[t], n + 1) = r
      BY <1>2, <1>3, <2>1, <2>2
    <3>2. /\ Front(arrays[r]) \in Seq(Spans) /\ Front(arrays[r]) # << >>
          /\ ArrayOf(frames', inherited, r, Front(arrays[r]))
      BY <1>6, <1>7, <2>1, <2>2, <3>1, SpanLeaves
    <3> DEFINE fewer == Front(arrays[r])
    <3>3. arrays' = [arrays EXCEPT ![r] = fewer]
      BY <1>4, <2>1, <2>2
    <3> HIDE DEF fewer
    <3>4. arrays'[r] = fewer
      BY <1>1, <3>3
    <3> QED
      BY <3>2, <3>4 DEF fewer
  <2>3. CASE ~ (f.kind = "span" /\ r = c)
    <3>1. arrays'[r] = arrays[r]
      <4>1. CASE pops
        <5> DEFINE fewer == Front(arrays[c])
        <5>1. arrays' = [arrays EXCEPT ![c] = fewer] /\ r # c
          BY <1>4, <2>3, <4>1
        <5> HIDE DEF fewer
        <5> QED
          BY <1>1, <5>1
      <4>2. CASE ~ pops
        BY <1>4, <4>2
      <4> QED
        BY <4>1, <4>2
    <3>2. CASE f.kind = "root" /\ RootAt(frames[t], n + 1) = r
      <4>1. f = Root(r)
        <5>1. OneMore(frames'[t], f, n, frames[t])
          BY <1>6 DEF Grows
        <5>2. f \in Frames /\ RootAt(frames[t], n + 1) = f.value
          BY <3>2, <5>1, MoreFrames
        <5> QED
          BY <3>2, <5>2 DEF Frames, Root
      <4>2. OnceIn(frames[t]) /\ OwnedIn(frames, inherited)
        BY <1>1 DEF RootsIn
      <4>3. Grows(t, Root(r), n, frames', frames)
        BY <1>6, <4>1
      <4> QED
        BY <1>6, <2>1, <3>1, <4>2, <4>3, RootLeaves
    <3>3. CASE ~ (f.kind = "root" /\ RootAt(frames[t], n + 1) = r)
      <4>1. ~ (f.kind \in {"root", "span"} /\ RootAt(frames[t], n + 1) = r)
        BY <1>2, <2>3, <3>3
      <4> QED
        BY <1>6, <2>1, <3>1, <4>1, OtherArrays
    <3> QED
      BY <3>1, <3>2, <3>3
  <2> QED
    BY <2>2, <2>3
<1>9. RootsIn(frames', inherited, arrays')
  <2>1. \A r \in Spans : arrays[r] # << >> => arrays'[r] # << >>
    BY <1>8
  <2> QED
    BY <1>1, <1>6, <2>1, RootsFewer
<1> QED
  BY <1>1, <1>6, <1>8, <1>9 DEF ScopesInv

(* What new is started in is not its own: it has no scope open and no root *)
(* of its own, and neither has t, with which it shares them.               *)
LEMMA StartKeepsScopes ==
  ASSUME ScopesInv, NEW t \in Tasks, NEW new \in Tasks, Start(t, new)
  PROVE  ScopesInv'
<1> USE DEF ScopesTypeOK
<1> DEFINE n == Len(frames[t])
<1>1. /\ frames \in [Tasks -> Seq(Frames)] /\ inherited \in [Tasks -> Nat]
      /\ started \in SUBSET Tasks
      /\ \A u \in Tasks : inherited[u] <= Len(frames[u]) /\ Len(frames[u]) <= MaxDepth
      /\ \A u \in Tasks \ started : frames[u] = << >>
      /\ RootsIn(frames, inherited, arrays)
  BY DEF ScopesInv
<1>2. frames[new] = << >> /\ new # t
  BY <1>1 DEF Start
<1>3. n \in Nat /\ n <= MaxDepth /\ frames[t] \in Seq(Frames) /\ DOMAIN frames[t] = 1 .. n
  BY <1>1, LenProperties
<1>4. /\ started' = started \cup {new} /\ arrays' = arrays
      /\ frames' \in [Tasks -> Seq(Frames)] /\ inherited' \in [Tasks -> Nat]
      /\ frames'[new] = frames[t] /\ inherited'[new] = n
      /\ \A u \in Tasks : u # new => frames'[u] = frames[u] /\ inherited'[u] = inherited[u]
  BY <1>1, <1>3 DEF Start
<1>5. ScopesTypeOK'
  <2>1. started' \in SUBSET Tasks
    BY <1>1, <1>4
  <2>2. \A u \in Tasks : inherited'[u] <= Len(frames'[u]) /\ Len(frames'[u]) <= MaxDepth
    <3> SUFFICES ASSUME NEW u \in Tasks
                 PROVE  inherited'[u] <= Len(frames'[u]) /\ Len(frames'[u]) <= MaxDepth
      OBVIOUS
    <3>1. CASE u = new
      BY <1>3, <1>4, <3>1
    <3>2. CASE u # new
      BY <1>1, <1>4, <3>2
    <3> QED
      BY <3>1, <3>2
  <2>3. \A u \in Tasks \ started' : frames'[u] = << >>
    BY <1>1, <1>4
  <2> QED
    BY <1>4, <2>1, <2>2, <2>3 DEF ScopesInv
<1>6. RootsIn(frames', inherited', arrays')
  <2>1. \A u \in Tasks : FoundIn(frames'[u]) /\ OnceIn(frames'[u])
    BY <1>1, <1>4 DEF RootsIn
  <2>2. OwnedIn(frames', inherited')
    <3> SUFFICES ASSUME NEW r \in Spans, NEW u \in Tasks, NEW v \in Tasks,
                        NEW i \in DOMAIN frames'[u], NEW j \in DOMAIN frames'[v],
                        frames'[u][i] = Root(r), frames'[v][j] = Root(r),
                        i > inherited'[u], u # v
                 PROVE  j <= inherited'[v]
      BY DEF OwnedIn
    <3>1. u # new
      BY <1>3, <1>4
    <3>2. CASE v = new
      BY <1>3, <1>4, <3>2
    <3>3. CASE v # new
      BY <1>1, <1>4, <3>1, <3>3 DEF RootsIn, OwnedIn
    <3> QED
      BY <3>2, <3>3
  <2>3. ArrayIn(frames', arrays')
    BY <1>1, <1>4 DEF RootsIn, ArrayIn
  <2> QED
    BY <2>1, <2>2, <2>3 DEF RootsIn
<1>7. ASSUME NEW r \in Spans
      PROVE  ArrayOf(frames', inherited', r, arrays[r])
  <2> DEFINE A == OpenIn(frames', inherited', r)
             B == OpenIn(frames, inherited, r)
  <2>1. ArrayOf(frames, inherited, r, arrays[r])
    BY DEF ScopesInv
  <2>2. A = B
    <3>1. ASSUME NEW u \in Tasks, NEW i \in 1 .. MaxDepth
          PROVE  <<u, i>> \in A <=> <<u, i>> \in B
      <4>1. CASE u = new
        <5>1. <<u, i>> \notin B
          <6>1. DOMAIN frames[u] = {}
            BY <1>2, <4>1
          <6> QED
            BY <6>1 DEF OpenIn
        <5>2. <<u, i>> \notin A
          BY <1>3, <1>4, <4>1 DEF OpenIn
        <5> QED
          BY <5>1, <5>2
      <4>2. CASE u # new
        BY <1>4, <4>2 DEF OpenIn
      <4> QED
        BY <4>1, <4>2
    <3>2. /\ \A x \in A : \E u \in Tasks, i \in 1 .. MaxDepth : x = <<u, i>>
          /\ \A x \in B : \E u \in Tasks, i \in 1 .. MaxDepth : x = <<u, i>>
      BY DEF OpenIn
    <3> HIDE DEF A, B
    <3> QED
      BY <3>1, <3>2
  <2>3. ASSUME NEW u \in Tasks, OnlyHere(frames', inherited', u, r)
        PROVE  Listed(frames'[u], r, arrays[r])
    <3>1. u # new
      BY <1>3, <1>4, <2>3 DEF OnlyHere
    <3>2. u # t
      BY <1>2, <1>4, <2>3 DEF OnlyHere
    <3>3. OnlyHere(frames, inherited, u, r)
      <4>1. \E i \in DOMAIN frames[u] : i > inherited[u] /\ frames[u][i] = Root(r)
        BY <1>4, <2>3, <3>1 DEF OnlyHere
      <4>2. \A v \in Tasks \ {u} : \A i \in DOMAIN frames[v] : frames[v][i] # Root(r)
        <5> SUFFICES ASSUME NEW v \in Tasks \ {u}, NEW i \in DOMAIN frames[v]
                     PROVE  frames[v][i] # Root(r)
          OBVIOUS
        <5>1. v # new
          BY <1>2
        <5> QED
          BY <1>4, <2>3, <5>1 DEF OnlyHere
      <4> QED
        BY <4>1, <4>2 DEF OnlyHere
    <3> QED
      BY <1>4, <2>1, <3>1, <3>3 DEF ArrayOf
  <2> HIDE DEF A, B
  <2>4. Balanced(A, arrays[r])
    BY <2>1, <2>2 DEF ArrayOf, B
  <2> QED
    BY <2>3, <2>4 DEF ArrayOf, A
<1> QED
  BY <1>4, <1>5, <1>6, <1>7 DEF ScopesInv

LEMMA InitScopes == Init => ScopesInv
<1> SUFFICES ASSUME Init  PROVE  ScopesInv
  OBVIOUS
<1> USE DEF Init
<1>1. << >> \in Seq(Frames) /\ << >> \in Seq(Spans) /\ Len(<< >>) = 0 /\ DOMAIN << >> = {}
  OBVIOUS
<1>2. \A t \in Tasks : frames[t] = << >> /\ DOMAIN frames[t] = {}
  BY <1>1
<1>3. ScopesTypeOK
  BY <1>1, ScopeAssumption DEF ScopesTypeOK
<1>4. RootsIn(frames, inherited, arrays)
  <2>1. ASSUME NEW t \in Tasks
        PROVE  FoundIn(frames[t]) /\ OnceIn(frames[t])
    <3>1. OnceIn(frames[t])
      BY <1>2 DEF OnceIn
    <3>2. RootAt(<< >>, 0) = Nothing
      <4>1. SubSeq(<< >>, 1, 0) = << >>
        BY <1>1, SubSeqFull
      <4>2. {i \in DOMAIN << >> : << >>[i].kind \in {"root"}} = {}
        BY <1>1
      <4> QED
        BY <4>1, <4>2 DEF RootAt, Innermost
    <3>3. \A j \in 0 .. Len(frames[t]) : j = 0
      BY <1>1, <1>2
    <3> QED
      BY <1>2, <3>1, <3>2, <3>3 DEF FoundIn
  <2>2. OwnedIn(frames, inherited) /\ ArrayIn(frames, arrays)
    BY <1>2 DEF OwnedIn, ArrayIn
  <2> QED
    BY <2>1, <2>2 DEF RootsIn
<1>5. ASSUME NEW r \in Spans
      PROVE  ArrayOf(frames, inherited, r, arrays[r])
  <2>1. OpenIn(frames, inherited, r) = {}
    BY <1>2 DEF OpenIn
  <2>2. arrays[r] = << >>
    OBVIOUS
  <2>3. Balanced(OpenIn(frames, inherited, r), arrays[r])
    BY <2>1, <2>2, FS_EmptySet DEF Balanced
  <2>4. \A u \in Tasks : ~ OnlyHere(frames, inherited, u, r)
    BY <1>2 DEF OnlyHere
  <2> QED
    BY <2>3, <2>4 DEF ArrayOf
<1> QED
  BY <1>3, <1>4, <1>5 DEF ScopesInv

(* The invariant the two theorems below rest on.                           *)
THEOREM ScopesInvariant == Spec => []ScopesInv
<1>1. ScopesInv /\ [Next]_vars => ScopesInv'
  <2> SUFFICES ASSUME ScopesInv, [Next]_vars  PROVE  ScopesInv'
    OBVIOUS
  <2>1. CASE UNCHANGED vars
    BY <2>1 DEF vars, ScopesInv, ScopesTypeOK
  <2>2. ASSUME NEW t \in Tasks, NEW id \in Ids, useCorrelationId(t, id)
        PROVE  ScopesInv'
    BY <2>2, CorrelationKeepsScopes
  <2>3. ASSUME NEW t \in Tasks, NEW s \in Spans, useSpanManager(t, s)
        PROVE  ScopesInv'
    BY <2>3, SpanManagerKeepsScopes
  <2>4. ASSUME NEW t \in Tasks, NEW s \in Spans, withScope(t, s)
        PROVE  ScopesInv'
    BY <2>4, WithScopeKeepsScopes
  <2>5. ASSUME NEW t \in Tasks, Leave(t)
        PROVE  ScopesInv'
    BY <2>5, LeaveKeepsScopes
  <2>6. ASSUME NEW t \in Tasks, NEW new \in Tasks, Start(t, new)
        PROVE  ScopesInv'
    BY <2>6, StartKeepsScopes
  <2> QED
    BY <2>1, <2>2, <2>3, <2>4, <2>5, <2>6 DEF Next
<1> QED
  BY <1>1, InitScopes, PTL DEF Spec

(* withScope and Leave: the array of a root span has the root and one span *)
(* for each scope that is open under it, in whatever order the tasks that  *)
(* share it enter and leave theirs.                                        *)
THEOREM ScopesPoppedOneForOne == Spec => []SpansBalanced
<1>1. ScopesInv => SpansBalanced
  <2> SUFFICES ASSUME ScopesInv, NEW t \in Tasks, Context(t) # Nothing
               PROVE  Len(arrays[Context(t)]) = 1 + Cardinality(OpenUnder(Context(t)))
    BY DEF SpansBalanced
  <2> DEFINE r == Context(t)
  <2>1. r \in Spans /\ arrays[r] # << >>
    BY ContextFound
  <2> HIDE DEF r
  <2>2. OpenUnder(r) = OpenIn(frames, inherited, r)
    BY DEF OpenUnder, OpenIn, Own, RootAt
  <2> QED
    BY <2>1, <2>2 DEF ScopesInv, ArrayOf, Balanced, r
<1> QED
  BY <1>1, ScopesInvariant, PTL

(* useSpanManager: a task that shares its root span with nobody has the    *)
(* span of its own innermost scope, whatever the others do.                *)
THEOREM SpansOfOneTask == Spec => []SpansIsolated
<1>1. ScopesInv => SpansIsolated
  <2> SUFFICES ASSUME ScopesInv, NEW t \in Tasks, Context(t) # Nothing, Alone(t)
               PROVE  getActiveSpan(t) = Innermost(frames[t], {"root", "span"})
    BY DEF SpansIsolated
  <2> DEFINE r == Context(t)
  <2>1. r \in Spans /\ arrays[r] # << >>
    BY ContextFound
  <2>2. OnlyHere(frames, inherited, t, r)
    BY DEF Alone, OnlyHere, Own, Root
  <2>3. Innermost(frames[t], {"root"}) = r
    BY DEF Context
  <2>4. getActiveSpan(t) = Last(arrays[r])
    BY <2>1 DEF getActiveSpan
  <2> HIDE DEF r
  <2>5. PICK place \in [DOMAIN arrays[r] -> DOMAIN frames[t]] :
          Lists(frames[t], r, arrays[r], place)
    BY <2>1, <2>2 DEF ScopesInv, ArrayOf, Listed
  <2>6. frames[t] \in Seq(Frames) /\ arrays[r] \in Seq(Spans) /\ r # Nothing
    BY <2>1 DEF ScopesInv, ScopesTypeOK, r
  <2> QED
    BY <2>3, <2>4, <2>5, <2>6, LastIsInnermost
<1> QED
  BY <1>1, ScopesInvariant, PTL
=============================================================================
