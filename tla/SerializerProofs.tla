--------------------------- MODULE SerializerProofs ---------------------------
(***************************************************************************)
(* Proofs about Serializer, for blocks, offsets and nesting of any size    *)
(* and any number of failed allocations.  The packed objects descend from  *)
(* the end of the block and the objects under construction ascend from its *)
(* start; between two levels of the stack lie the objects that were packed *)
(* since the upper one was begun, and only those go when it is discarded.  *)
(***************************************************************************)
EXTENDS Serializer, FiniteSetTheorems, SequenceTheorems, WellFoundedInduction, TLAPS

(* Types.  U is what trees the client builds are made of.                   *)

Link == [position : Nat, bias : Nat, objidx : Nat]
ObjectsOf(U) == [head : Nat, tail : Nat, links : Seq(Link), cut : BOOLEAN, kids : U]
EntriesOf(U) == [object : ObjectsOf(U), objidx : Nat]
ContextsOf(U) ==
  [head : Nat, tail : Nat, current : Seq(ObjectsOf(U)), packed : Seq(ObjectsOf(U)),
   map : SUBSET EntriesOf(U), successful : BOOLEAN, roomless : BOOLEAN,
   bad : SUBSET {"packed", "packed_map"}, lost : Nat]
HeldOf(U) == [objidx : Nat, tree : U]
FramesOf(U) == [at : Nat, held : SUBSET HeldOf(U), snap : [head : Nat, tail : Nat \cup {-1}]]

BlockType(m, n) == n \in Nat /\ m \in [0 .. n - 1 -> Nat]

-----------------------------------------------------------------------------
(* What holds of any context x over a block m of n bytes, whatever failed.  *)

\* The packed objects, each below the ones before it.
Descending(n, x) ==
  /\ x.head <= x.tail /\ x.tail <= n
  /\ \A k \in 1 .. Len(x.packed) :
       /\ x.tail <= x.packed[k].head
       /\ x.packed[k].head < x.packed[k].tail /\ x.packed[k].tail <= n
       /\ \A j \in 1 .. k - 1 : x.packed[k].tail <= x.packed[j].head

\* The objects under construction, each above the ones it is in; none is cut if
\* no link was lost.
Ascending(n, x) ==
  \A d \in 1 .. Len(x.current) :
    /\ x.current[d].head <= x.head /\ x.current[d].tail <= n
    /\ x.lost = 0 => ~x.current[d].cut
    /\ \A c \in 1 .. d : x.current[c].head <= x.current[d].head

\* The map has the packed objects and no two are equal.
Shared(m, x) ==
  x.bad = {} =>
    /\ x.map = {[object |-> x.packed[k], objidx |-> k] : k \in DOMAIN x.packed}
    /\ \A j, k \in DOMAIN x.packed : Equal(m, x.packed[j], x.packed[k]) => j = k

Sound(m, n, x) == Descending(n, x) /\ Ascending(n, x) /\ Shared(m, x)

\* Where the level above object d starts: at hd if there is none.
HeadAbove(x, d, hd) == IF d < Len(x.current) THEN x.current[d + 1].head ELSE hd
TailAbove(x, d, tl) == IF d < Len(x.current) THEN x.current[d + 1].tail ELSE tl

\* Frames f match the stack, and a snapshot was taken above its object.
Matched(n, x, f, hd) ==
  /\ Len(f) = Len(x.current)
  /\ \A d \in 1 .. Len(f) :
       /\ f[d].at = x.current[d].head
       /\ f[d].snap # NoSnapshot =>
            /\ x.current[d].head <= f[d].snap.head /\ f[d].snap.head <= HeadAbove(x, d, hd)
            /\ f[d].snap.tail \in 0 .. n

-----------------------------------------------------------------------------
(* What holds of a context that lost nothing.                               *)

\* The end of the block, or the head of the packed object k.
Floor(n, x, k) == IF k = 0 THEN n ELSE x.packed[k].head

Boundary(n, x, t) == \E k \in 0 .. Len(x.packed) : t = Floor(n, x, k)

\* No gaps between packed objects.
Tight(n, x) ==
  /\ x.tail = Floor(n, x, Len(x.packed))
  /\ \A k \in 1 .. Len(x.packed) : x.packed[k].tail = Floor(n, x, k - 1)

\* Objects with index i are packed, and stay so if those below t are discarded.
Stays(x, i, t) == i \in 1 .. Len(x.packed) /\ t <= x.packed[i].head

\* The links of object o, whose fields end at top, to objects that stay.
LinksOK(m, x, o, top, t) ==
  \A j \in 1 .. Len(o.links) :
    /\ o.links[j].bias <= o.links[j].position
    /\ o.head + o.links[j].position < top
    /\ m[o.head + o.links[j].position] = 0
    /\ Stays(x, o.links[j].objidx, t)
    /\ \A i \in 1 .. j - 1 : o.links[i].position # o.links[j].position

KeepsOK(x, f, t) == \A h \in f.held : Stays(x, h.objidx, t)

PackedOK(m, x) ==
  \A k \in 1 .. Len(x.packed) : LinksOK(m, x, x.packed[k], x.packed[k].tail, x.packed[k].tail)

Whole(m, n, x) == Tight(n, x) /\ PackedOK(m, x)

\* Object o of the stack with its frame f, below a level that starts at hd, tl.
LevelOK(m, n, x, o, f, hd, tl) ==
  /\ tl <= o.tail /\ Boundary(n, x, o.tail)
  /\ LinksOK(m, x, o, hd, tl) /\ KeepsOK(x, f, tl)
  /\ f.snap # NoSnapshot =>
       /\ tl <= f.snap.tail /\ f.snap.tail <= o.tail /\ Boundary(n, x, f.snap.tail)
       /\ LinksOK(m, x, o, f.snap.head, f.snap.tail) /\ KeepsOK(x, f, f.snap.tail)

\* The stack, whose innermost object ends at hd, tl.
LevelsOK(m, n, x, f, hd, tl) ==
  /\ HeadAbove(x, 0, hd) = 0
  /\ \A d \in 1 .. Len(x.current) :
       /\ LevelOK(m, n, x, x.current[d], f[d], HeadAbove(x, d, hd), TailAbove(x, d, tl))
       /\ \A c \in 1 .. d : x.current[d].tail <= x.current[c].tail

\* The trees kept beside an object are those its links lead to.
KidAt(m, x, l) == [position |-> l.position, bias |-> l.bias, tree |-> Tree(m, x.packed[l.objidx])]
KidsOK(m, x, o) == o.kids = {KidAt(m, x, o.links[j]) : j \in 1 .. Len(o.links)}

PackedFaithful(m, x) == \A k \in 1 .. Len(x.packed) : KidsOK(m, x, x.packed[k])

StackFaithful(m, x, f) ==
  \A d \in 1 .. Len(x.current) :
    /\ KidsOK(m, x, x.current[d])
    /\ \A h \in f[d].held : h.tree = Tree(m, x.packed[h.objidx])

Good(m, n, x, f) ==
  /\ Whole(m, n, x)
  /\ LevelsOK(m, n, x, f, x.head, x.tail)
  /\ x.successful => PackedFaithful(m, x) /\ StackFaithful(m, x, f)

\* The inductive invariant of writing into block m of n bytes, with context x,
\* frames f and fl failed allocations.
Healthy(x, f) == x.bad = {} /\ x.lost = 0 /\ Len(x.current) = Len(f)

WInv(m, n, x, f, fl) ==
  /\ Sound(m, n, x)
  /\ Len(x.current) <= Len(f)
  /\ x.successful \/ fl = 0 => Len(x.current) = Len(f)
  /\ Cardinality(x.bad) <= fl /\ x.lost <= fl
  /\ Len(x.current) = Len(f) => Matched(n, x, f, x.head)
  /\ Healthy(x, f) => Good(m, n, x, f)

Typed(U, m, n, x, f) == BlockType(m, n) /\ x \in ContextsOf(U) /\ f \in Seq(FramesOf(U))

-----------------------------------------------------------------------------
(* Numbers and sequences.                                                   *)

\* A set of numbers that is not empty has a least one.
LEMMA LeastExists ==
  ASSUME NEW S, S \subseteq Nat, S # {}
  PROVE  \E n \in S : \A i \in S : n <= i
<1> DEFINE R == {ss \in Nat \X Nat : ss[1] < ss[2]}
<1>1. IsWellFoundedOn(R, Nat)
  BY NatLessThanWellFounded DEF OpToRel
<1>2. \E x \in S : \A y \in S : <<y, x>> \notin R
  <2> HIDE DEF R
  <2> QED BY <1>1, WFMin
<1>3. \A x, y \in S : <<y, x>> \notin R => x <= y
  OBVIOUS
<1> QED BY <1>2, <1>3

LEMMA FrontFacts ==
  ASSUME NEW S, NEW s \in Seq(S), s # <<>>
  PROVE  /\ Len(s) \in Nat \ {0}
         /\ Front(s) \in Seq(S) /\ Len(Front(s)) = Len(s) - 1
         /\ \A i \in 1 .. Len(s) - 1 : Front(s)[i] = s[i]
         /\ Last(s) = s[Len(s)] /\ Last(s) \in S
<1>1. Len(s) \in Nat \ {0} /\ \A i \in 1 .. Len(s) : s[i] \in S
  BY EmptySeq, LenProperties
<1>2. PICK n : n = Len(s)
  OBVIOUS
<1>3. \A i \in 1 .. n - 1 : s[i] \in S
  BY <1>1, <1>2
<1>4. /\ SubSeq(s, 1, n - 1) \in Seq(S)
      /\ Len(SubSeq(s, 1, n - 1)) = IF 1 <= n - 1 THEN (n - 1) - 1 + 1 ELSE 0
      /\ \A i \in 1 .. (n - 1) - 1 + 1 : SubSeq(s, 1, n - 1)[i] = s[1 + i - 1]
  BY <1>1, <1>2, <1>3, SubSeqProperties
<1> QED BY <1>1, <1>2, <1>4 DEF Front, Last

LEMMA SetLastFacts ==
  ASSUME NEW S, NEW s \in Seq(S), s # <<>>, NEW e \in S
  PROVE  /\ SetLast(s, e) \in Seq(S) /\ Len(SetLast(s, e)) = Len(s)
         /\ \A i \in 1 .. Len(s) - 1 : SetLast(s, e)[i] = s[i]
         /\ SetLast(s, e)[Len(s)] = e
<1>1. Len(s) \in Nat \ {0}
  BY EmptySeq
<1>2. PICK n \in Nat : n = Len(s) /\ n \in 1 .. Len(s)
  BY <1>1
<1> QED BY <1>1, <1>2, ExceptSeq DEF SetLast

\* The first n elements of a sequence.
LEMMA PrefixFacts ==
  ASSUME NEW S, NEW s \in Seq(S), NEW n \in 0 .. Len(s)
  PROVE  /\ SubSeq(s, 1, n) \in Seq(S) /\ Len(SubSeq(s, 1, n)) = n
         /\ \A i \in 1 .. n : SubSeq(s, 1, n)[i] = s[i]
<1>1. Len(s) \in Nat /\ n \in Nat /\ \A i \in 1 .. n : s[i] \in S
  BY EmptySeq, LenProperties
<1>2. /\ SubSeq(s, 1, n) \in Seq(S)
      /\ Len(SubSeq(s, 1, n)) = IF 1 <= n THEN n - 1 + 1 ELSE 0
      /\ \A i \in 1 .. n - 1 + 1 : SubSeq(s, 1, n)[i] = s[1 + i - 1]
  BY <1>1, SubSeqProperties
<1> QED BY <1>1, <1>2

-----------------------------------------------------------------------------
(* Objects.                                                                 *)

LEMMA ObjectFacts ==
  ASSUME NEW U, NEW o \in ObjectsOf(U)
  PROVE  /\ o.head \in Nat /\ o.tail \in Nat /\ o.links \in Seq(Link) /\ o.kids \in U
         /\ Len(o.links) \in Nat
         /\ \A j \in 1 .. Len(o.links) :
              /\ o.links[j] \in Link /\ o.links[j].position \in Nat
              /\ o.links[j].bias \in Nat /\ o.links[j].objidx \in Nat
<1>1. /\ o.head \in Nat /\ o.tail \in Nat /\ o.links \in Seq(Link) /\ o.kids \in U
  BY DEF ObjectsOf
<1>2. Len(o.links) \in Nat /\ \A j \in 1 .. Len(o.links) : o.links[j] \in Link
  BY <1>1
<1> QED BY <1>1, <1>2 DEF Link

LEMMA ContextFacts ==
  ASSUME NEW U, NEW x \in ContextsOf(U)
  PROVE  /\ x.head \in Nat /\ x.tail \in Nat
         /\ x.current \in Seq(ObjectsOf(U)) /\ x.packed \in Seq(ObjectsOf(U))
         /\ x.map \subseteq EntriesOf(U) /\ x.successful \in BOOLEAN
         /\ x.roomless \in BOOLEAN /\ x.bad \subseteq {"packed", "packed_map"} /\ x.lost \in Nat
         /\ Len(x.current) \in Nat /\ DOMAIN x.current = 1 .. Len(x.current)
         /\ Len(x.packed) \in Nat /\ DOMAIN x.packed = 1 .. Len(x.packed)
         /\ \A d \in 1 .. Len(x.current) : x.current[d] \in ObjectsOf(U)
         /\ \A d \in 1 .. Len(x.current) : x.current[d].head \in Nat /\ x.current[d].tail \in Nat
         /\ \A k \in 1 .. Len(x.packed) : x.packed[k] \in ObjectsOf(U)
         /\ \A k \in 1 .. Len(x.packed) : x.packed[k].head \in Nat /\ x.packed[k].tail \in Nat
<1>1. /\ x.head \in Nat /\ x.tail \in Nat
      /\ x.current \in Seq(ObjectsOf(U)) /\ x.packed \in Seq(ObjectsOf(U))
      /\ x.map \subseteq EntriesOf(U) /\ x.successful \in BOOLEAN
      /\ x.roomless \in BOOLEAN /\ x.bad \subseteq {"packed", "packed_map"} /\ x.lost \in Nat
  BY DEF ContextsOf
<1>2. /\ Len(x.current) \in Nat /\ DOMAIN x.current = 1 .. Len(x.current)
      /\ Len(x.packed) \in Nat /\ DOMAIN x.packed = 1 .. Len(x.packed)
      /\ \A d \in 1 .. Len(x.current) : x.current[d] \in ObjectsOf(U)
      /\ \A k \in 1 .. Len(x.packed) : x.packed[k] \in ObjectsOf(U)
  BY <1>1
<1> QED BY <1>1, <1>2, ObjectFacts

\* An object's bytes depend on its own part of the block only.
LEMMA SameBytes ==
  ASSUME NEW m, NEW m2, NEW o, o.head \in Nat, o.tail \in Nat,
         \A a \in o.head .. o.tail - 1 : m2[a] = m[a]
  PROVE  Bytes(m2, o) = Bytes(m, o) /\ Tree(m2, o) = Tree(m, o)
<1>1. \A k \in 1 .. o.tail - o.head : m2[o.head + k - 1] = m[o.head + k - 1]
  OBVIOUS
<1>2. Bytes(m2, o) = Bytes(m, o)
  BY <1>1 DEF Bytes
<1> QED BY <1>2 DEF Tree

LEMMA EqualIs ==
  ASSUME NEW m, NEW o, NEW p, NEW q
  PROVE  /\ Equal(m, o, o)
         /\ Equal(m, o, p) => Equal(m, p, o)
         /\ Equal(m, o, p) /\ Equal(m, p, q) => Equal(m, o, q)
BY DEF Equal

\* Packed objects descend strictly.
LEMMA Descends ==
  ASSUME NEW U, NEW n \in Nat, NEW x \in ContextsOf(U), Descending(n, x),
         NEW j \in 1 .. Len(x.packed), NEW k \in 1 .. Len(x.packed), j < k
  PROVE  x.packed[k].head < x.packed[j].head
<1>1. x.packed[j].head \in Nat /\ x.packed[k].head \in Nat /\ x.packed[k].tail \in Nat
      /\ j \in 1 .. k - 1
  BY ContextFacts
<1> QED BY <1>1 DEF Descending

\* discard_stale_objects keeps exactly the objects above the tail.
LEMMA KeptFacts ==
  ASSUME NEW U, NEW n \in Nat, NEW x \in ContextsOf(U), Descending(n, x), NEW t \in Nat
  PROVE  /\ Kept(x, t) \in 0 .. Len(x.packed)
         /\ \A k \in 1 .. Len(x.packed) : k <= Kept(x, t) <=> t <= x.packed[k].head
<1>1. PICK N \in Nat : N = Len(x.packed)
  BY ContextFacts
<1>2. \A k \in 1 .. N : x.packed[k].head \in Nat
  BY <1>1, ContextFacts
<1> DEFINE S == {k \in 1 .. N + 1 : k \in 1 .. N => x.packed[k].head < t}
<1>3. PICK c \in S : \A i \in S : c <= i
  <2>1. N + 1 \in S /\ S \subseteq Nat
    BY <1>1
  <2> QED BY <2>1, LeastExists
<1> DEFINE P(q) == /\ q > 0 => x.packed[q].head >= t
                   /\ \A k \in q + 1 .. N : x.packed[k].head < t
<1>4. c - 1 \in 0 .. N /\ P(c - 1)
  <2>1. c \in 1 .. N + 1
    OBVIOUS
  <2>2. ASSUME c - 1 > 0 PROVE x.packed[c - 1].head >= t
    <3>1. c - 1 \in 1 .. N /\ c - 1 \notin S
      BY <1>3, <2>1, <2>2
    <3> QED BY <1>2, <3>1
  <2>3. ASSUME NEW k \in c .. N PROVE x.packed[k].head < t
    <3>1. c \in 1 .. N /\ k \in 1 .. N /\ x.packed[c].head < t
      BY <2>1
    <3>2. CASE c = k
      BY <3>1, <3>2
    <3>3. CASE c < k
      <4>1. x.packed[k].head < x.packed[c].head
        BY <1>1, <3>1, <3>3, Descends
      <4> QED BY <1>2, <3>1, <4>1
    <3> QED BY <3>1, <3>2, <3>3
  <2> QED BY <2>1, <2>2, <2>3
<1>5. Kept(x, t) = CHOOSE q \in 0 .. N : P(q)
  BY <1>1 DEF Kept
<1>6. PICK q : q = Kept(x, t)
  OBVIOUS
<1>7. q \in 0 .. N /\ P(q)
  <2> HIDE DEF P, S
  <2> QED BY <1>4, <1>5, <1>6
<1>8. ASSUME NEW k \in 1 .. N PROVE k <= q <=> t <= x.packed[k].head
  <2>1. CASE k > q
    BY <1>2, <1>7, <2>1
  <2>2. CASE k <= q
    <3>1. q > 0 /\ q \in 1 .. N /\ x.packed[q].head >= t
      BY <1>7, <2>2
    <3>2. CASE k = q
      BY <3>1, <3>2, <2>2
    <3>3. CASE k < q
      <4>1. x.packed[q].head < x.packed[k].head
        BY <1>1, <3>1, <3>3, Descends
      <4> QED BY <1>2, <2>2, <3>1, <4>1
    <3> QED BY <1>7, <2>2, <3>2, <3>3
  <2> QED BY <1>7, <2>1, <2>2
<1> QED BY <1>1, <1>6, <1>7, <1>8

-----------------------------------------------------------------------------
(* revert.                                                                  *)

\* What revert leaves of the context, if its asserts hold.
LEMMA RevertIs ==
  ASSUME NEW U, NEW n \in Nat, NEW m, NEW x \in ContextsOf(U), Descending(n, x),
         NEW at \in Nat, NEW t \in Nat,
         NEW r, r = Revert(m, x, at, t)
  PROVE  /\ r.mem = m /\ r.objidx = 0
         /\ r.context \in ContextsOf(U)
         /\ r.context.head = at /\ r.context.tail = t
         /\ r.context.current = x.current /\ r.context.bad = x.bad /\ r.context.lost = x.lost
         /\ r.context.successful = x.successful /\ r.context.roomless = x.roomless
         /\ Len(r.context.packed) = Kept(x, t)
         /\ \A k \in 1 .. Kept(x, t) : r.context.packed[k] = x.packed[k]
<1>1. PICK q : q = Kept(x, t)
  OBVIOUS
<1>2. q \in 0 .. Len(x.packed)
  BY <1>1, KeptFacts
<1>3. PICK M : M = IF "packed_map" \in x.bad THEN x.map
                   ELSE {e \in x.map : ~ \E k \in q + 1 .. Len(x.packed) : Equal(m, e.object, x.packed[k])}
  OBVIOUS
<1>4. PICK y : y = [x EXCEPT !.head = at, !.tail = t, !.packed = SubSeq(x.packed, 1, q), !.map = M]
  OBVIOUS
<1>5. r = [mem |-> m, context |-> y, objidx |-> 0,
           asserts |-> /\ at <= x.head /\ x.tail <= t
                       /\ q > 0 => x.packed[q].head = t]
  BY <1>1, <1>3, <1>4 DEF Revert, Result
<1>6. /\ SubSeq(x.packed, 1, q) \in Seq(ObjectsOf(U)) /\ Len(SubSeq(x.packed, 1, q)) = q
      /\ \A k \in 1 .. q : SubSeq(x.packed, 1, q)[k] = x.packed[k]
  BY <1>2, ContextFacts, PrefixFacts
<1>7. M \subseteq EntriesOf(U)
  BY <1>3, ContextFacts
<1>8. y \in ContextsOf(U)
  BY <1>4, <1>6, <1>7 DEF ContextsOf
<1>9. /\ y.head = at /\ y.tail = t /\ y.packed = SubSeq(x.packed, 1, q) /\ y.map = M
      /\ y.current = x.current /\ y.bad = x.bad /\ y.lost = x.lost /\ y.successful = x.successful
      /\ y.roomless = x.roomless
  BY <1>4 DEF ContextsOf
<1>10. r.context = y /\ r.mem = m /\ r.objidx = 0
  BY <1>5
<1> QED BY <1>1, <1>6, <1>8, <1>9, <1>10

\* What is left of the map if only q packed objects stay.
MapLeft(m, x, q) == {e \in x.map : ~ \E k \in q + 1 .. Len(x.packed) : Equal(m, e.object, x.packed[k])}

LEMMA RevertMap ==
  ASSUME NEW U, NEW m, NEW x \in ContextsOf(U), x.bad = {}, NEW at, NEW t,
         NEW r, r = Revert(m, x, at, t)
  PROVE  r.context.map = MapLeft(m, x, Kept(x, t))
<1>1. PICK M : M = {d \in x.map : ~ \E k \in Kept(x, t) + 1 .. Len(x.packed) : Equal(m, d.object, x.packed[k])}
  OBVIOUS
<1>2. PICK P : P = SubSeq(x.packed, 1, Kept(x, t))
  OBVIOUS
<1>3. r.context = [x EXCEPT !.head = at, !.tail = t, !.packed = P, !.map = M]
  BY <1>1, <1>2 DEF Revert, Result
<1>4. r.context.map = M
  BY <1>3 DEF ContextsOf
<1> QED BY <1>1, <1>4 DEF MapLeft

LEMMA RevertAsserts ==
  ASSUME NEW m, NEW x, NEW at, NEW t, NEW r, r = Revert(m, x, at, t)
  PROVE  r.asserts <=> (/\ at <= x.head /\ x.tail <= t
                        /\ Kept(x, t) > 0 => x.packed[Kept(x, t)].head = t)
BY DEF Revert, Result

LEMMA RevertSound ==
  ASSUME NEW U, NEW n \in Nat, NEW m, NEW x \in ContextsOf(U), Sound(m, n, x),
         NEW at \in Nat, NEW t \in 0 .. n,
         \A d \in 1 .. Len(x.current) : x.current[d].head <= at,
         NEW r, r = Revert(m, x, at, t), r.asserts
  PROVE  Sound(m, n, r.context)
<1>0. t \in Nat /\ Descending(n, x) /\ Ascending(n, x) /\ Shared(m, x)
  BY DEF Sound
<1>1. PICK y : y = r.context
  OBVIOUS
<1>2. PICK q : q = Kept(x, t)
  OBVIOUS
<1>3. PICK N \in Nat : N = Len(x.packed) /\ q \in 0 .. N
  BY <1>0, <1>2, KeptFacts, ContextFacts
<1>11. at <= x.head /\ x.tail <= t /\ (q > 0 => x.packed[q].head = t)
  BY <1>2, RevertAsserts
<1>4. /\ y \in ContextsOf(U) /\ y.head = at /\ y.tail = t
      /\ y.current = x.current /\ y.bad = x.bad /\ y.lost = x.lost
      /\ Len(y.packed) = q /\ \A k \in 1 .. q : y.packed[k] = x.packed[k]
  BY <1>0, <1>1, <1>2, RevertIs
<1>5. x.bad = {} => \A e : e \in y.map <=>
        e \in x.map /\ ~ \E k \in q + 1 .. N : Equal(m, e.object, x.packed[k])
  <2>1. ASSUME x.bad = {} PROVE y.map = MapLeft(m, x, q)
    BY <1>1, <1>2, <2>1, RevertMap
  <2> QED BY <1>3, <2>1 DEF MapLeft
<1>6. \A k \in 1 .. N : k <= q <=> t <= x.packed[k].head
  BY <1>0, <1>2, <1>3, KeptFacts
<1>7. /\ x.head \in Nat /\ x.tail \in Nat
      /\ \A k \in 1 .. N : x.packed[k].head \in Nat /\ x.packed[k].tail \in Nat
  BY <1>3, ContextFacts
<1>8. Descending(n, y)
  <2>1. at <= t /\ t <= n
    BY <1>0, <1>4, <1>7, <1>11 DEF Descending
  <2>2. \A k \in 1 .. q : /\ t <= x.packed[k].head /\ x.packed[k].head < x.packed[k].tail
                          /\ x.packed[k].tail <= n
                          /\ \A j \in 1 .. k - 1 : x.packed[k].tail <= x.packed[j].head
    BY <1>0, <1>3, <1>6 DEF Descending
  <2>3. \A k \in 1 .. q : \A j \in 1 .. k - 1 : y.packed[j] = x.packed[j]
    BY <1>3, <1>4
  <2> QED BY <1>4, <2>1, <2>2, <2>3 DEF Descending
<1>9. Ascending(n, y)
  BY <1>0, <1>4 DEF Ascending
<1>10. Shared(m, y)
  <2>1. SUFFICES ASSUME x.bad = {}
        PROVE  /\ y.map = {[object |-> y.packed[k], objidx |-> k] : k \in 1 .. q}
               /\ \A j, k \in 1 .. q : Equal(m, y.packed[j], y.packed[k]) => j = k
    <3>1. DOMAIN y.packed = 1 .. q
      BY <1>4, ContextFacts
    <3> QED BY <1>4, <3>1 DEF Shared
  <2>2. /\ x.map = {[object |-> x.packed[k], objidx |-> k] : k \in 1 .. N}
        /\ \A j, k \in 1 .. N : Equal(m, x.packed[j], x.packed[k]) => j = k
    <3>1. DOMAIN x.packed = 1 .. N
      BY <1>3, ContextFacts
    <3> QED BY <1>0, <2>1, <3>1 DEF Shared
  <2>3. \A j, k \in 1 .. q : j \in 1 .. N /\ k \in 1 .. N
    BY <1>3
  <2>4. ASSUME NEW e \in y.map
        PROVE  e \in {[object |-> y.packed[k], objidx |-> k] : k \in 1 .. q}
    <3>1. PICK i \in 1 .. N : e = [object |-> x.packed[i], objidx |-> i]
      BY <1>5, <2>1, <2>2, <2>4
    <3>2. e.object = x.packed[i]
      BY <3>1
    <3>3. i <= q
      <4>1. SUFFICES ASSUME i \in q + 1 .. N PROVE FALSE
        BY <1>3, <3>1
      <4>2. Equal(m, e.object, x.packed[i])
        BY <3>2, EqualIs
      <4> QED BY <1>5, <2>1, <2>4, <4>1, <4>2
    <3>4. i \in 1 .. q
      BY <1>3, <3>3
    <3> QED BY <1>4, <3>1, <3>4
  <2>5. ASSUME NEW i \in 1 .. q PROVE [object |-> y.packed[i], objidx |-> i] \in y.map
    <3>1. PICK e : e = [object |-> x.packed[i], objidx |-> i]
      OBVIOUS
    <3>2. e \in x.map /\ e.object = x.packed[i]
      BY <2>2, <2>3, <3>1
    <3>3. ASSUME NEW k \in q + 1 .. N, Equal(m, e.object, x.packed[k]) PROVE FALSE
      <4>1. k \in 1 .. N /\ i # k
        BY <1>3
      <4> QED BY <2>2, <2>3, <3>2, <3>3, <4>1
    <3>4. e \in y.map
      BY <1>5, <2>1, <3>2, <3>3
    <3> QED BY <1>4, <3>1, <3>4
  <2>6. \A j, k \in 1 .. q : Equal(m, y.packed[j], y.packed[k]) => j = k
    BY <1>4, <2>2, <2>3
  <2> QED BY <2>4, <2>5, <2>6
<1> QED BY <1>1, <1>8, <1>9, <1>10 DEF Sound

-----------------------------------------------------------------------------
(* pop_pack.                                                                *)

\* The object a pop finds on top of the stack, its size, and where it goes.
Top(x) == [Last(x.current) EXCEPT !.tail = x.head]
Size(x) == x.head - Last(x.current).head
Target(x) == x.tail - Size(x)
PackedTop(x) == [Top(x) EXCEPT !.head = Target(x), !.tail = Target(x) + Size(x)]

\* The context without it, with the object moved away, with it packed, and in
\* the map as well.
Popped(x) == [x EXCEPT !.current = Front(x.current), !.head = Last(x.current).head]
MovedOff(x) == [Popped(x) EXCEPT !.tail = Target(x)]
Pushed(x) == [MovedOff(x) EXCEPT !.packed = Append(x.packed, PackedTop(x))]
Mapped(x) ==
  [Pushed(x) EXCEPT !.map = x.map \cup {[object |-> PackedTop(x), objidx |-> Len(x.packed) + 1]}]
Without(x, v) == [x EXCEPT !.bad = @ \cup {v}]

PopsEmpty(m, x, r) ==
  /\ Size(x) = 0
  /\ r.mem = m /\ r.context = Popped(x) /\ r.objidx = 0
  /\ r.asserts <=> Last(x.current).links = <<>>

FindsEqual(m, x, r) ==
  /\ Size(x) # 0
  /\ r.mem = m /\ r.context = Popped(x) /\ r.asserts
  /\ \E e \in x.map : Equal(m, e.object, Top(x)) /\ r.objidx = e.objidx

Packs(m, x, r) ==
  /\ Size(x) # 0
  /\ \A e \in x.map : ~Equal(m, e.object, Top(x))
  /\ r.mem = Moved(m, Top(x), Target(x)) /\ r.asserts
  /\ \/ r.objidx = 0 /\ r.context = Without(MovedOff(x), "packed")
     \/ r.objidx = Len(x.packed) + 1 /\ r.context = Without(Pushed(x), "packed_map")
     \/ r.objidx = Len(x.packed) + 1 /\ r.context = Mapped(x) /\ x.bad \cap {"packed", "packed_map"} = {}

LEMMA TopFacts ==
  ASSUME NEW U, NEW x \in ContextsOf(U), x.current # <<>>
  PROVE  /\ Len(x.current) \in Nat \ {0}
         /\ Last(x.current) \in ObjectsOf(U) /\ Last(x.current) = x.current[Len(x.current)]
         /\ Top(x).head = Last(x.current).head /\ Top(x).tail = x.head
         /\ Top(x).links = Last(x.current).links /\ Top(x).kids = Last(x.current).kids
         /\ Top(x) \in ObjectsOf(U)
         /\ Size(x) \in Int /\ Target(x) \in Int
         /\ PackedTop(x).head = Target(x) /\ PackedTop(x).tail = x.tail
         /\ PackedTop(x).links = Last(x.current).links /\ PackedTop(x).kids = Last(x.current).kids
         /\ Target(x) \in Nat => PackedTop(x) \in ObjectsOf(U)
<1>1. PICK o \in ObjectsOf(U) : o = Last(x.current)
  BY ContextFacts, FrontFacts
<1>2. x.head \in Nat /\ x.tail \in Nat /\ o.head \in Nat
  BY ContextFacts, ObjectFacts
<1>3. Len(x.current) \in Nat \ {0} /\ Last(x.current) = x.current[Len(x.current)]
  BY ContextFacts, FrontFacts
<1>4. PICK T : T = [o EXCEPT !.tail = x.head]
  OBVIOUS
<1>5. /\ T \in ObjectsOf(U) /\ T.head = o.head /\ T.tail = x.head
      /\ T.links = o.links /\ T.kids = o.kids
  BY <1>2, <1>4 DEF ObjectsOf
<1>6. T = Top(x)
  BY <1>1, <1>4 DEF Top
<1>7. PICK s \in Int : s = x.head - o.head
  BY <1>2
<1>8. PICK to \in Int : to = x.tail - s
  BY <1>2
<1>9. s = Size(x) /\ to = Target(x)
  BY <1>1, <1>7, <1>8 DEF Size, Target
<1>10. PICK P : P = [T EXCEPT !.head = to, !.tail = to + s]
  OBVIOUS
<1>11. P = PackedTop(x)
  BY <1>6, <1>9, <1>10 DEF PackedTop
<1>12. to + s = x.tail
  BY <1>2, <1>8
<1>13. /\ P.head = to /\ P.tail = x.tail /\ P.links = o.links /\ P.kids = o.kids
       /\ to \in Nat => P \in ObjectsOf(U)
  BY <1>2, <1>5, <1>10, <1>12 DEF ObjectsOf
<1> QED BY <1>1, <1>3, <1>5, <1>6, <1>9, <1>11, <1>13

LEMMA PoppedFacts ==
  ASSUME NEW U, NEW x \in ContextsOf(U), x.current # <<>>
  PROVE  /\ Popped(x) \in ContextsOf(U)
         /\ Popped(x).head = Last(x.current).head /\ Popped(x).tail = x.tail
         /\ Popped(x).current = Front(x.current) /\ Popped(x).packed = x.packed
         /\ Popped(x).map = x.map /\ Popped(x).bad = x.bad /\ Popped(x).lost = x.lost
         /\ Popped(x).successful = x.successful /\ Popped(x).roomless = x.roomless
<1>1. Front(x.current) \in Seq(ObjectsOf(U)) /\ Last(x.current).head \in Nat
  BY ContextFacts, FrontFacts, ObjectFacts
<1> QED BY <1>1 DEF Popped, ContextsOf

LEMMA MovedOffFacts ==
  ASSUME NEW U, NEW x \in ContextsOf(U), x.current # <<>>, Target(x) \in Nat
  PROVE  /\ MovedOff(x) \in ContextsOf(U)
         /\ MovedOff(x).head = Last(x.current).head /\ MovedOff(x).tail = Target(x)
         /\ MovedOff(x).current = Front(x.current) /\ MovedOff(x).packed = x.packed
         /\ MovedOff(x).map = x.map /\ MovedOff(x).bad = x.bad /\ MovedOff(x).lost = x.lost
         /\ MovedOff(x).successful = x.successful /\ MovedOff(x).roomless = x.roomless
<1>1. PICK y \in ContextsOf(U) : y = Popped(x)
  BY PoppedFacts
<1>2. PICK z : z = [y EXCEPT !.tail = Target(x)]
  OBVIOUS
<1>3. /\ z \in ContextsOf(U) /\ z.head = y.head /\ z.tail = Target(x)
      /\ z.current = y.current /\ z.packed = y.packed
      /\ z.map = y.map /\ z.bad = y.bad /\ z.lost = y.lost
      /\ z.successful = y.successful /\ z.roomless = y.roomless
  BY <1>2 DEF ContextsOf
<1>4. z = MovedOff(x)
  BY <1>1, <1>2 DEF MovedOff
<1> QED BY <1>1, <1>3, <1>4, PoppedFacts

LEMMA PushedFacts ==
  ASSUME NEW U, NEW x \in ContextsOf(U), x.current # <<>>, Target(x) \in Nat
  PROVE  /\ Pushed(x) \in ContextsOf(U)
         /\ Pushed(x).head = Last(x.current).head /\ Pushed(x).tail = Target(x)
         /\ Pushed(x).current = Front(x.current)
         /\ Pushed(x).packed = Append(x.packed, PackedTop(x))
         /\ Pushed(x).map = x.map /\ Pushed(x).bad = x.bad /\ Pushed(x).lost = x.lost
         /\ Pushed(x).successful = x.successful /\ Pushed(x).roomless = x.roomless
<1>1. PICK y \in ContextsOf(U) : y = MovedOff(x)
  BY MovedOffFacts
<1>2. PICK v : v = Append(x.packed, PackedTop(x))
  OBVIOUS
<1>3. v \in Seq(ObjectsOf(U))
  BY <1>2, ContextFacts, TopFacts
<1>4. PICK z : z = [y EXCEPT !.packed = v]
  OBVIOUS
<1>5. /\ z \in ContextsOf(U) /\ z.head = y.head /\ z.tail = y.tail
      /\ z.current = y.current /\ z.packed = v
      /\ z.map = y.map /\ z.bad = y.bad /\ z.lost = y.lost
      /\ z.successful = y.successful /\ z.roomless = y.roomless
  BY <1>3, <1>4 DEF ContextsOf
<1>6. z = Pushed(x)
  BY <1>1, <1>2, <1>4 DEF Pushed
<1> QED BY <1>1, <1>2, <1>5, <1>6, MovedOffFacts

LEMMA MappedFacts ==
  ASSUME NEW U, NEW x \in ContextsOf(U), x.current # <<>>, Target(x) \in Nat
  PROVE  /\ Mapped(x) \in ContextsOf(U)
         /\ Mapped(x).head = Last(x.current).head /\ Mapped(x).tail = Target(x)
         /\ Mapped(x).current = Front(x.current)
         /\ Mapped(x).packed = Append(x.packed, PackedTop(x))
         /\ Mapped(x).map = x.map \cup {[object |-> PackedTop(x), objidx |-> Len(x.packed) + 1]}
         /\ Mapped(x).bad = x.bad /\ Mapped(x).lost = x.lost
         /\ Mapped(x).successful = x.successful /\ Mapped(x).roomless = x.roomless
<1>1. PICK y \in ContextsOf(U) : y = Pushed(x)
  BY PushedFacts
<1>2. PICK M : M = x.map \cup {[object |-> PackedTop(x), objidx |-> Len(x.packed) + 1]}
  OBVIOUS
<1>3. M \subseteq EntriesOf(U)
  <2>1. PackedTop(x) \in ObjectsOf(U) /\ Len(x.packed) + 1 \in Nat
    BY ContextFacts, TopFacts
  <2> QED BY <1>2, <2>1, ContextFacts DEF EntriesOf
<1>4. PICK z : z = [y EXCEPT !.map = M]
  OBVIOUS
<1>5. /\ z \in ContextsOf(U) /\ z.head = y.head /\ z.tail = y.tail
      /\ z.current = y.current /\ z.packed = y.packed
      /\ z.map = M /\ z.bad = y.bad /\ z.lost = y.lost
      /\ z.successful = y.successful /\ z.roomless = y.roomless
  BY <1>3, <1>4 DEF ContextsOf
<1>6. z = Mapped(x)
  BY <1>1, <1>2, <1>4 DEF Mapped
<1> QED BY <1>1, <1>2, <1>5, <1>6, PushedFacts

LEMMA WithoutFacts ==
  ASSUME NEW U, NEW x \in ContextsOf(U), NEW v \in {"packed", "packed_map"}
  PROVE  /\ Without(x, v) \in ContextsOf(U)
         /\ Without(x, v).head = x.head /\ Without(x, v).tail = x.tail
         /\ Without(x, v).current = x.current /\ Without(x, v).packed = x.packed
         /\ Without(x, v).map = x.map /\ Without(x, v).bad = x.bad \cup {v}
         /\ Without(x, v).lost = x.lost
         /\ Without(x, v).successful = x.successful /\ Without(x, v).roomless = x.roomless
BY DEF Without, ContextsOf

\* The outcomes of pop_pack.
LEMMA PopPackIs ==
  ASSUME NEW U, NEW m, NEW x \in ContextsOf(U), x.current # <<>>, NEW r \in PopPack(m, x)
  PROVE  PopsEmpty(m, x, r) \/ FindsEqual(m, x, r) \/ Packs(m, x, r)
<1> DEFINE o == [Last(x.current) EXCEPT !.tail = x.head]
           size == o.tail - o.head
           popped == [x EXCEPT !.current = Front(@), !.head = o.head]
           equal == {e \in x.map : Equal(m, e.object, o)}
           to == x.tail - size
           p == [o EXCEPT !.head = to, !.tail = to + size]
           moved == [popped EXCEPT !.tail = to]
           pushed == [moved EXCEPT !.packed = Append(@, p)]
           idx == Len(pushed.packed)
           mapped == [pushed EXCEPT !.map = @ \cup {[object |-> p, objidx |-> idx]}]
           new == Moved(m, o, to)
<1>1. PopPack(m, x) =
        IF size = 0 THEN {Result(m, popped, 0, o.links = <<>>)}
        ELSE IF equal # {} THEN {Result(m, popped, e.objidx, TRUE) : e \in equal}
        ELSE IF "packed" \in x.bad THEN {Result(new, moved, 0, TRUE)}
        ELSE {Result(new, Without(moved, "packed"), 0, TRUE),
              Result(new, Without(pushed, "packed_map"), idx, TRUE)}
             \cup (IF "packed_map" \in x.bad THEN {} ELSE {Result(new, mapped, idx, TRUE)})
  BY Zenon DEF PopPack, Without
<1>2. /\ o = Top(x) /\ size = Size(x) /\ to = Target(x) /\ p = PackedTop(x)
  <2>1. o = Top(x)
    BY DEF Top
  <2>2. size = Size(x)
    BY <2>1, TopFacts DEF Size
  <2>3. to = Target(x)
    BY <2>2 DEF Target
  <2> HIDE DEF o, size, to
  <2> QED BY <2>1, <2>2, <2>3 DEF PackedTop
<1>3. popped = Popped(x)
  <2>1. o.head = Last(x.current).head
    BY <1>2, TopFacts
  <2> HIDE DEF o
  <2> QED BY <2>1 DEF Popped, ContextsOf
<1>4. moved = MovedOff(x)
  <2> HIDE DEF popped, to
  <2> QED BY <1>2, <1>3 DEF MovedOff
<1>5. pushed = Pushed(x)
  <2>1. "packed" \in DOMAIN MovedOff(x) /\ MovedOff(x).packed = x.packed
    BY DEF MovedOff, Popped, ContextsOf
  <2> HIDE DEF moved, p
  <2> QED BY <1>2, <1>4, <2>1 DEF Pushed
<1>6. idx = Len(x.packed) + 1
  <2>1. Pushed(x).packed = Append(x.packed, PackedTop(x))
    BY DEF Pushed, MovedOff, Popped, ContextsOf
  <2> HIDE DEF pushed
  <2> QED BY <1>5, <2>1, ContextFacts
<1>7. mapped = Mapped(x)
  <2>1. "map" \in DOMAIN Pushed(x) /\ Pushed(x).map = x.map
    BY DEF Pushed, MovedOff, Popped, ContextsOf
  <2> HIDE DEF pushed, p, idx
  <2> QED BY <1>2, <1>5, <1>6, <2>1 DEF Mapped
<1> HIDE DEF o, size, popped, to, p, moved, pushed, idx, mapped, new
<1>8. o.links = Last(x.current).links
  BY <1>2, TopFacts
<1>9. CASE size = 0
  <2>1. r = Result(m, popped, 0, o.links = <<>>)
    BY <1>1, <1>9
  <2>2. r.mem = m /\ r.context = popped /\ r.objidx = 0 /\ (r.asserts <=> o.links = <<>>)
    BY <2>1 DEF Result
  <2> QED BY <1>2, <1>3, <1>8, <1>9, <2>2 DEF PopsEmpty
<1>10. CASE size # 0 /\ equal # {}
  <2>1. PICK e \in equal : r = Result(m, popped, e.objidx, TRUE)
    BY <1>1, <1>10
  <2>2. r.mem = m /\ r.context = popped /\ r.objidx = e.objidx /\ r.asserts
    BY <2>1 DEF Result
  <2>3. e \in x.map /\ Equal(m, e.object, Top(x))
    BY <1>2
  <2> QED BY <1>2, <1>3, <1>10, <2>2, <2>3 DEF FindsEqual
<1>11. CASE size # 0 /\ equal = {}
  <2>0. \A e \in x.map : ~Equal(m, e.object, Top(x))
    BY <1>2, <1>11
  <2>1. \/ "packed" \in x.bad /\ r = Result(new, moved, 0, TRUE)
        \/ r = Result(new, Without(moved, "packed"), 0, TRUE)
        \/ r = Result(new, Without(pushed, "packed_map"), idx, TRUE)
        \/ x.bad \cap {"packed", "packed_map"} = {} /\ r = Result(new, mapped, idx, TRUE)
    BY <1>1, <1>11
  <2>2. ASSUME "packed" \in x.bad PROVE Without(MovedOff(x), "packed") = MovedOff(x)
    <3>1. PICK y : y = MovedOff(x)
      OBVIOUS
    <3>2. y.bad \cup {"packed"} = y.bad
      BY <2>2, <3>1 DEF MovedOff, Popped, ContextsOf
    <3>3. [y EXCEPT !.bad = y.bad] = y
      <4>1. y = [MovedOff(x) EXCEPT !.bad = MovedOff(x).bad]
        BY <3>1 DEF MovedOff, Popped, ContextsOf
      <4> QED BY <3>1, <4>1
    <3> QED BY <3>1, <3>2, <3>3 DEF Without
  <2>3. r.mem = new /\ r.asserts
    BY <2>1 DEF Result
  <2>4. new = Moved(m, Top(x), Target(x))
    BY <1>2 DEF new
  <2>5. \/ r.objidx = 0 /\ r.context = Without(MovedOff(x), "packed")
        \/ r.objidx = idx /\ r.context = Without(Pushed(x), "packed_map")
        \/ r.objidx = idx /\ r.context = Mapped(x) /\ x.bad \cap {"packed", "packed_map"} = {}
    BY <1>4, <1>5, <1>7, <2>1, <2>2 DEF Result
  <2> QED BY <1>2, <1>6, <1>11, <2>0, <2>3, <2>4, <2>5 DEF Packs
<1> QED BY <1>9, <1>10, <1>11

\* Where the object on top lies and goes: into free bytes, which its own may be
\* part of.
LEMMA PopPlace ==
  ASSUME NEW U, NEW n \in Nat, NEW x \in ContextsOf(U), x.current # <<>>,
         Descending(n, x), Ascending(n, x)
  PROVE  /\ Size(x) \in Nat /\ Target(x) \in Nat
         /\ Last(x.current).head + Size(x) = x.head /\ Target(x) + Size(x) = x.tail
         /\ Last(x.current).head <= Target(x) /\ Target(x) <= x.tail
         /\ Last(x.current).head \in Nat /\ Last(x.current).head <= x.head
<1>1. PICK h : h = Last(x.current).head
  OBVIOUS
<1>2. h \in Nat /\ x.head \in Nat /\ x.tail \in Nat
  BY <1>1, ContextFacts, TopFacts, ObjectFacts
<1>3. h <= x.head
  <2>1. Len(x.current) \in 1 .. Len(x.current) /\ Last(x.current) = x.current[Len(x.current)]
    BY TopFacts
  <2> QED BY <1>1, <2>1 DEF Ascending
<1>4. x.head <= x.tail
  BY DEF Descending
<1>5. Size(x) = x.head - h /\ Target(x) = x.tail - Size(x)
  BY <1>1 DEF Size, Target
<1>6. PICK s \in Int, to \in Int : s = Size(x) /\ to = Target(x)
  BY TopFacts
<1>7. s = x.head - h /\ to = x.tail - s
  BY <1>5, <1>6
<1>8. s \in Nat /\ to \in Nat /\ h + s = x.head /\ to + s = x.tail /\ h <= to /\ to <= x.tail
  <2>1. PICK hd \in Nat, tl \in Nat : hd = x.head /\ tl = x.tail
    BY <1>2
  <2>2. h \in Nat /\ h <= hd /\ hd <= tl /\ s = hd - h /\ to = tl - s
    BY <1>2, <1>3, <1>4, <1>7, <2>1
  <2>3. s \in Nat /\ h + s = hd
    BY <2>2
  <2>4. to \in Nat /\ to + s = tl /\ h <= to /\ to <= tl
    BY <2>2, <2>3
  <2> QED BY <2>1, <2>3, <2>4
<1> QED BY <1>1, <1>2, <1>3, <1>6, <1>8

SameBelow(m, m2, n, t) == \A a \in 0 .. n - 1 : a < t => m2[a] = m[a]
SameFrom(m, m2, n, t)  == \A a \in 0 .. n - 1 : a >= t => m2[a] = m[a]

LEMMA PopMemory ==
  ASSUME NEW U, NEW n \in Nat, NEW m, BlockType(m, n),
         NEW x \in ContextsOf(U), x.current # <<>>, Descending(n, x), Ascending(n, x),
         NEW new, new = Moved(m, Top(x), Target(x))
  PROVE  /\ BlockType(new, n)
         /\ SameBelow(m, new, n, Target(x)) /\ SameFrom(m, new, n, x.tail)
         /\ Bytes(new, PackedTop(x)) = Bytes(m, Top(x))
<1>0. DOMAIN m = 0 .. n - 1 /\ \A a \in 0 .. n - 1 : m[a] \in Nat
  BY DEF BlockType
<1>1. PICK h \in Nat, s \in Nat, to \in Nat, tl \in Nat :
        /\ h = Last(x.current).head /\ s = Size(x) /\ to = Target(x) /\ tl = x.tail
        /\ h + s = x.head /\ to + s = tl /\ h <= to /\ tl <= n
  BY PopPlace, ContextFacts DEF Descending
<1>2. Top(x).head = h /\ Top(x).tail - Top(x).head = s
  BY <1>1, TopFacts
<1>3. new = [a \in 0 .. n - 1 |-> IF to <= a /\ a < to + s THEN m[h + a - to] ELSE m[a]]
  <2>1. new = [a \in DOMAIN m |-> IF to <= a /\ a < to + s THEN m[h + a - to] ELSE m[a]]
    BY <1>1, <1>2 DEF Moved
  <2> QED BY <1>0, <2>1
<1>4. \A a \in 0 .. n - 1 : to <= a /\ a < to + s => h + a - to \in 0 .. n - 1
  BY SMTT(30), <1>1
<1>5. new \in [0 .. n - 1 -> Nat]
  BY <1>0, <1>3, <1>4
<1>6. ASSUME NEW a \in 0 .. n - 1, a < to \/ a >= tl PROVE new[a] = m[a]
  BY <1>1, <1>3, <1>6
<1>7. Bytes(new, PackedTop(x)) = Bytes(m, Top(x))
  <2>1. PackedTop(x).head = to /\ PackedTop(x).tail - PackedTop(x).head = s
    BY <1>1, TopFacts
  <2>2. ASSUME NEW k \in 1 .. s PROVE new[to + k - 1] = m[h + k - 1]
    <3>0. PICK a : a = to + (k - 1)
      OBVIOUS
    <3>1. a \in Nat /\ a = to + k - 1 /\ a \in 0 .. n - 1 /\ to <= a /\ a < to + s
      <4>1. to + s <= n
        BY <1>1
      <4>2. k \in Nat /\ 1 <= k /\ k <= s
        OBVIOUS
      <4> QED BY <3>0, <4>1, <4>2
    <3>2. new[a] = m[h + a - to]
      BY <1>3, <3>1
    <3>3. h + a - to = h + k - 1
      BY <1>1, <3>1
    <3> QED BY <3>1, <3>2, <3>3
  <2>3. Bytes(new, PackedTop(x)) = [k \in 1 .. s |-> new[to + k - 1]]
    BY <2>1 DEF Bytes
  <2>4. Bytes(m, Top(x)) = [k \in 1 .. s |-> m[h + k - 1]]
    BY <1>2 DEF Bytes
  <2> QED BY <2>2, <2>3, <2>4
<1>8. SameBelow(m, new, n, to) /\ SameFrom(m, new, n, tl)
  BY <1>6 DEF SameBelow, SameFrom
<1>9. BlockType(new, n)
  BY <1>5 DEF BlockType
<1> QED BY <1>1, <1>7, <1>8, <1>9

PackedSame(m, m2, x) ==
  \A k \in 1 .. Len(x.packed) : /\ Bytes(m2, x.packed[k]) = Bytes(m, x.packed[k])
                                /\ Tree(m2, x.packed[k]) = Tree(m, x.packed[k])

\* What lies above the tail is not touched by writes below it.
LEMMA PackedKept ==
  ASSUME NEW U, NEW n \in Nat, NEW m, NEW m2, NEW x \in ContextsOf(U), Descending(n, x),
         SameFrom(m, m2, n, x.tail)
  PROVE  PackedSame(m, m2, x)
<1>0. SUFFICES ASSUME NEW k \in 1 .. Len(x.packed)
               PROVE  /\ Bytes(m2, x.packed[k]) = Bytes(m, x.packed[k])
                      /\ Tree(m2, x.packed[k]) = Tree(m, x.packed[k])
  BY DEF PackedSame
<1>1. PICK o \in ObjectsOf(U) : o = x.packed[k]
  BY ContextFacts
<1>2. o.head \in Nat /\ o.tail \in Nat /\ x.tail \in Nat
  BY ObjectFacts, ContextFacts
<1>3. x.tail <= o.head /\ o.tail <= n
  BY <1>1 DEF Descending
<1>4. \A a \in o.head .. o.tail - 1 : a \in 0 .. n - 1 /\ a >= x.tail
  BY <1>2, <1>3
<1>5. \A a \in o.head .. o.tail - 1 : m2[a] = m[a]
  BY <1>4 DEF SameFrom
<1> QED BY <1>1, <1>2, <1>5, SameBytes

LEMMA SharedKept ==
  ASSUME NEW U, NEW n \in Nat, NEW m, NEW m2, NEW x \in ContextsOf(U), Descending(n, x),
         SameFrom(m, m2, n, x.tail),
         Shared(m, x)
  PROVE  Shared(m2, x)
<1>1. DOMAIN x.packed = 1 .. Len(x.packed)
  BY ContextFacts
<1>2. \A k \in 1 .. Len(x.packed) : Bytes(m2, x.packed[k]) = Bytes(m, x.packed[k])
  <2>1. PackedSame(m, m2, x)
    BY PackedKept
  <2> QED BY <2>1 DEF PackedSame
<1>3. \A j, k \in 1 .. Len(x.packed) :
        Equal(m2, x.packed[j], x.packed[k]) <=> Equal(m, x.packed[j], x.packed[k])
  BY <1>2 DEF Equal
<1> QED BY <1>1, <1>3 DEF Shared

\* The stack without its top.
LEMMA FrontAscends ==
  ASSUME NEW U, NEW n \in Nat, NEW x \in ContextsOf(U), x.current # <<>>, Ascending(n, x),
         NEW y, y.current = Front(x.current), y.head = Last(x.current).head, y.lost = x.lost
  PROVE  /\ Ascending(n, y)
         /\ \A d \in 1 .. Len(y.current) : y.current[d].head <= Last(x.current).head
<1>1. PICK L \in Nat \ {0} : L = Len(x.current) /\ Last(x.current) = x.current[L]
  BY TopFacts
<1>2. Len(y.current) = L - 1 /\ \A i \in 1 .. L - 1 : y.current[i] = x.current[i]
  BY <1>1, ContextFacts, FrontFacts
<1>3. \A i \in 1 .. L - 1 : i \in 1 .. L /\ L \in 1 .. L
  BY <1>1
<1>4. \A i \in 1 .. L - 1 : x.current[i].head <= x.current[L].head
  BY <1>1, <1>3 DEF Ascending
<1>5. \A d \in 1 .. L - 1 : /\ x.current[d].tail <= n /\ (x.lost = 0 => ~x.current[d].cut)
                            /\ \A c \in 1 .. d : x.current[c].head <= x.current[d].head
  BY <1>1, <1>3 DEF Ascending
<1>6. \A d \in 1 .. L - 1 : \A c \in 1 .. d : c \in 1 .. L - 1
  BY <1>1
<1>7. ASSUME NEW d \in 1 .. L - 1
      PROVE  /\ y.current[d].head <= y.head /\ y.current[d].tail <= n
             /\ y.lost = 0 => ~y.current[d].cut
             /\ \A c \in 1 .. d : y.current[c].head <= y.current[d].head
  BY <1>1, <1>2, <1>4, <1>5, <1>6
<1> QED BY <1>1, <1>2, <1>4, <1>7 DEF Ascending

LEMMA PoppedSound ==
  ASSUME NEW U, NEW n \in Nat, NEW m, NEW x \in ContextsOf(U), x.current # <<>>, Sound(m, n, x)
  PROVE  Sound(m, n, Popped(x))
<1>1. Descending(n, x) /\ Ascending(n, x) /\ Shared(m, x)
  BY DEF Sound
<1>2. PICK y \in ContextsOf(U) : y = Popped(x)
  BY PoppedFacts
<1>3. /\ y.head = Last(x.current).head /\ y.tail = x.tail
      /\ y.current = Front(x.current) /\ y.packed = x.packed /\ y.map = x.map /\ y.bad = x.bad /\ y.lost = x.lost
  BY <1>2, PoppedFacts
<1>4. Descending(n, y)
  <2>1. Last(x.current).head <= x.tail
    <3>1. PICK h \in Nat, to \in Nat, tl \in Nat :
            h = Last(x.current).head /\ to = Target(x) /\ tl = x.tail /\ h <= to /\ to <= tl
      BY <1>1, PopPlace, ContextFacts
    <3> QED BY <3>1
  <2> QED BY <1>1, <1>3, <2>1 DEF Descending
<1>5. Ascending(n, y)
  BY <1>1, <1>3, FrontAscends
<1>6. Shared(m, y)
  BY <1>1, <1>3 DEF Shared
<1> QED BY <1>2, <1>4, <1>5, <1>6 DEF Sound

\* The packed objects with a new one below them.
LEMMA AppendDescends ==
  ASSUME NEW U, NEW n \in Nat, NEW x \in ContextsOf(U), x.current # <<>>,
         Descending(n, x), Ascending(n, x), Size(x) # 0,
         NEW y \in ContextsOf(U), y.head = Last(x.current).head, y.tail = Target(x),
         y.packed \in {x.packed, Append(x.packed, PackedTop(x))}
  PROVE  Descending(n, y)
<1>1. PICK h \in Nat, s \in Nat, to \in Nat, tl \in Nat, N \in Nat :
        /\ h = Last(x.current).head /\ s = Size(x) /\ to = Target(x) /\ tl = x.tail
        /\ N = Len(x.packed)
        /\ to + s = tl /\ h <= to /\ to <= tl /\ tl <= n
  BY PopPlace, ContextFacts DEF Descending
<1>2. to < tl
  BY <1>1
<1>3. \A k \in 1 .. N : x.packed[k].head \in Nat /\ x.packed[k].tail \in Nat
  BY <1>1, ContextFacts
<1>4. \A k \in 1 .. N : /\ tl <= x.packed[k].head /\ x.packed[k].head < x.packed[k].tail
                        /\ x.packed[k].tail <= n
                        /\ \A j \in 1 .. k - 1 : x.packed[k].tail <= x.packed[j].head
  BY <1>1 DEF Descending
<1>5. ASSUME NEW k \in 1 .. N PROVE to <= x.packed[k].head
  <2>1. x.packed[k].head \in Nat /\ tl <= x.packed[k].head
    BY <1>3, <1>4
  <2> QED BY <1>1, <2>1
<1>8. y.head = h /\ y.tail = to /\ h <= to /\ to <= n
  <2>1. to <= n
    BY <1>1
  <2> QED BY <1>1, <2>1
<1>6. CASE y.packed = x.packed
  <2>1. Len(y.packed) = N
    BY <1>1, <1>6
  <2> QED BY <1>4, <1>5, <1>6, <1>8, <2>1 DEF Descending
<1>7. CASE y.packed = Append(x.packed, PackedTop(x))
  <2>1. PICK p \in ObjectsOf(U) : p = PackedTop(x) /\ p.head = to /\ p.tail = tl
    BY <1>1, TopFacts
  <2>2. /\ Len(y.packed) = N + 1 /\ y.packed[N + 1] = p
        /\ \A k \in 1 .. N : y.packed[k] = x.packed[k]
    BY <1>1, <1>7, <2>1, ContextFacts, AppendProperties
  <2>3. ASSUME NEW k \in 1 .. N + 1
        PROVE  /\ to <= y.packed[k].head
               /\ y.packed[k].head < y.packed[k].tail /\ y.packed[k].tail <= n
               /\ \A j \in 1 .. k - 1 : y.packed[k].tail <= y.packed[j].head
    <3>1. CASE k \in 1 .. N
      <4>1. \A j \in 1 .. k - 1 : j \in 1 .. N
        BY <1>1, <3>1
      <4> QED BY <1>4, <1>5, <2>2, <3>1, <4>1
    <3>2. CASE k = N + 1
      <4>1. \A j \in 1 .. k - 1 : j \in 1 .. N
        BY <3>2
      <4>2. \A j \in 1 .. N : tl <= x.packed[j].head
        BY <1>4
      <4>3. \A j \in 1 .. k - 1 : tl <= y.packed[j].head
        BY <2>2, <4>1, <4>2
      <4>4. y.packed[k] = p /\ to < tl /\ tl <= n
        BY <1>1, <1>2, <2>2, <3>2
      <4> QED BY <2>1, <4>3, <4>4
    <3> QED BY <1>1, <3>1, <3>2
  <2> QED BY <1>8, <2>2, <2>3 DEF Descending
<1> QED BY <1>6, <1>7

LEMMA PacksSound ==
  ASSUME NEW U, NEW n \in Nat, NEW m, BlockType(m, n), NEW x \in ContextsOf(U),
         x.current # <<>>, Sound(m, n, x), NEW r, Packs(m, x, r)
  PROVE  /\ BlockType(r.mem, n) /\ r.context \in ContextsOf(U) /\ r.objidx \in Nat
         /\ Sound(r.mem, n, r.context)
<1>1. Descending(n, x) /\ Ascending(n, x) /\ Shared(m, x)
  BY DEF Sound
<1>2. Target(x) \in Nat /\ Size(x) # 0 /\ Len(x.packed) \in Nat
  BY <1>1, PopPlace, ContextFacts DEF Packs
<1>3. PICK new : new = r.mem /\ new = Moved(m, Top(x), Target(x))
  BY DEF Packs
<1>4. BlockType(new, n)
  BY <1>1, <1>3, PopMemory
<1>5. PICK y : y = r.context
  OBVIOUS
<1>6. /\ y \in ContextsOf(U) /\ y.head = Last(x.current).head /\ y.tail = Target(x)
      /\ y.current = Front(x.current) /\ y.lost = x.lost
      /\ y.packed \in {x.packed, Append(x.packed, PackedTop(x))}
      /\ \/ y.bad # {}
         \/ y = Mapped(x) /\ y.bad = x.bad /\ y.lost = x.lost
  <2>1. CASE y = Without(MovedOff(x), "packed")
    BY SMTT(30), <1>2, <2>1, MovedOffFacts, WithoutFacts
  <2>2. CASE y = Without(Pushed(x), "packed_map")
    BY SMTT(30), <1>2, <2>2, PushedFacts, WithoutFacts
  <2>3. CASE y = Mapped(x)
    BY <1>2, <2>3, MappedFacts
  <2> QED BY <1>5, <2>1, <2>2, <2>3 DEF Packs
<1>7. r.objidx \in Nat
  BY <1>2 DEF Packs
<1>8. Descending(n, y)
  BY <1>1, <1>2, <1>6, AppendDescends
<1>9. Ascending(n, y)
  BY <1>1, <1>6, FrontAscends
<1>10. Shared(new, y)
  <2>1. SUFFICES ASSUME y = Mapped(x), x.bad = {}
                 PROVE  /\ y.map = {[object |-> y.packed[k], objidx |-> k] : k \in DOMAIN y.packed}
                        /\ \A j, k \in DOMAIN y.packed : Equal(new, y.packed[j], y.packed[k]) => j = k
    BY <1>6 DEF Shared
  <2>2. PICK N \in Nat, p \in ObjectsOf(U) : N = Len(x.packed) /\ p = PackedTop(x)
    BY <1>2, TopFacts
  <2>3. /\ Len(y.packed) = N + 1 /\ y.packed[N + 1] = p
        /\ \A k \in 1 .. N : y.packed[k] = x.packed[k]
        /\ y.map = x.map \cup {[object |-> p, objidx |-> N + 1]}
        /\ DOMAIN y.packed = 1 .. N + 1
    <3>1. /\ y.packed = Append(x.packed, p) /\ p \in ObjectsOf(U)
          /\ y.map = x.map \cup {[object |-> p, objidx |-> N + 1]}
      BY <1>2, <2>1, <2>2, MappedFacts
    <3>2. x.packed \in Seq(ObjectsOf(U)) /\ DOMAIN y.packed = 1 .. Len(y.packed)
      BY <1>6, ContextFacts
    <3>3. /\ Len(y.packed) = N + 1 /\ y.packed[N + 1] = p
          /\ \A k \in 1 .. N : y.packed[k] = x.packed[k]
      BY <2>2, <3>1, <3>2, AppendProperties
    <3> QED BY <3>1, <3>2, <3>3
  <2>4. /\ x.map = {[object |-> x.packed[k], objidx |-> k] : k \in 1 .. N}
        /\ \A j, k \in 1 .. N : Equal(m, x.packed[j], x.packed[k]) => j = k
    BY <1>1, <2>1, <2>2, ContextFacts DEF Shared
  <2>5. \A k \in 1 .. N : Bytes(new, x.packed[k]) = Bytes(m, x.packed[k])
    <3>1. SameFrom(m, new, n, x.tail)
      BY <1>1, <1>3, PopMemory
    <3>2. PackedSame(m, new, x)
      BY <1>1, <3>1, PackedKept
    <3> QED BY <2>2, <3>2 DEF PackedSame
  <2>6. Bytes(new, p) = Bytes(m, Top(x)) /\ p.links = Top(x).links
    BY <1>1, <1>3, <2>2, PopMemory, TopFacts
  <2>7. \A k \in 1 .. N : ~Equal(m, x.packed[k], Top(x))
    <3>1. \A e \in x.map : ~Equal(m, e.object, Top(x))
      BY DEF Packs
    <3>2. ASSUME NEW k \in 1 .. N PROVE ~Equal(m, x.packed[k], Top(x))
      <4>1. PICK e : e = [object |-> x.packed[k], objidx |-> k]
        OBVIOUS
      <4>2. e \in x.map /\ e.object = x.packed[k]
        BY <2>4, <4>1
      <4> QED BY <3>1, <4>2
    <3> QED BY <3>2
  <2>8. \A k \in 1 .. N : ~Equal(new, x.packed[k], p) /\ ~Equal(new, p, x.packed[k])
    BY <2>5, <2>6, <2>7 DEF Equal
  <2>9. \A j, k \in 1 .. N : Equal(new, x.packed[j], x.packed[k]) => j = k
    BY <2>4, <2>5 DEF Equal
  <2>10. ASSUME NEW j \in 1 .. N + 1, NEW k \in 1 .. N + 1, Equal(new, y.packed[j], y.packed[k])
         PROVE  j = k
    <3>1. CASE j \in 1 .. N /\ k \in 1 .. N
      BY <2>3, <2>9, <2>10, <3>1
    <3>2. CASE j = N + 1 /\ k \in 1 .. N
      BY <2>3, <2>8, <2>10, <3>2
    <3>3. CASE j \in 1 .. N /\ k = N + 1
      BY <2>3, <2>8, <2>10, <3>3
    <3> QED BY <2>2, <3>1, <3>2, <3>3
  <2>11. y.map = {[object |-> y.packed[k], objidx |-> k] : k \in 1 .. N + 1}
    <3>1. 1 .. N + 1 = 1 .. N \cup {N + 1}
      BY <2>2
    <3> QED BY <2>3, <2>4, <3>1
  <2> QED BY <2>3, <2>10, <2>11
<1> QED BY <1>3, <1>4, <1>5, <1>6, <1>7, <1>8, <1>9, <1>10 DEF Sound

\* Whatever the outcome, pop_pack leaves a sound context.
LEMMA PopPackSound ==
  ASSUME NEW U, NEW n \in Nat, NEW m, BlockType(m, n), NEW x \in ContextsOf(U),
         x.current # <<>>, Sound(m, n, x), NEW r \in PopPack(m, x)
  PROVE  /\ BlockType(r.mem, n) /\ r.context \in ContextsOf(U) /\ r.objidx \in Nat
         /\ Sound(r.mem, n, r.context)
         /\ r.context.current = Front(x.current) /\ r.context.head = Last(x.current).head
         /\ x.bad \subseteq r.context.bad /\ r.context.lost = x.lost
         /\ r.context.successful = x.successful /\ r.context.roomless = x.roomless
<1>0. Descending(n, x) /\ Ascending(n, x)
  BY DEF Sound
<1>1. CASE PopsEmpty(m, x, r)
  BY <1>1, PoppedFacts, PoppedSound DEF PopsEmpty
<1>2. CASE FindsEqual(m, x, r)
  <2>1. r.objidx \in Nat
    <3>1. PICK e \in x.map : r.objidx = e.objidx
      BY <1>2 DEF FindsEqual
    <3>2. e \in EntriesOf(U)
      BY ContextFacts
    <3> QED BY <3>1, <3>2 DEF EntriesOf
  <2> QED BY <1>2, <2>1, PoppedFacts, PoppedSound DEF FindsEqual
<1>3. CASE Packs(m, x, r)
  <2>1. Target(x) \in Nat
    BY <1>0, PopPlace
  <2>2. /\ r.context.current = Front(x.current) /\ r.context.head = Last(x.current).head
        /\ x.bad \subseteq r.context.bad /\ r.context.lost = x.lost
        /\ r.context.successful = x.successful /\ r.context.roomless = x.roomless
    <3>1. CASE r.context = Without(MovedOff(x), "packed")
      BY <2>1, <3>1, MovedOffFacts, WithoutFacts
    <3>2. CASE r.context = Without(Pushed(x), "packed_map")
      BY <2>1, <3>2, PushedFacts, WithoutFacts
    <3>3. CASE r.context = Mapped(x)
      BY <2>1, <3>3, MappedFacts
    <3> QED BY <1>3, <3>1, <3>2, <3>3 DEF Packs
  <2> QED BY <1>3, <2>2, PacksSound
<1> QED BY <1>1, <1>2, <1>3, PopPackIs

-----------------------------------------------------------------------------
(* What goes on to hold when packed objects come and go.                    *)

\* Context c still has the packed objects of x that lie at t and above.
Carries(x, c, t) ==
  \A i \in 1 .. Len(x.packed) :
    t <= x.packed[i].head => i \in 1 .. Len(c.packed) /\ c.packed[i] = x.packed[i]

SameIn(m, m2, lo, hi) == \A a \in lo .. hi - 1 : m2[a] = m[a]

LEMMA StaysCarried ==
  ASSUME NEW x, NEW c, NEW t \in Nat, NEW tl \in Nat, NEW tl2 \in Nat,
         Carries(x, c, t), t <= tl, tl2 <= tl,
         NEW i, Stays(x, i, tl), x.packed[i].head \in Nat
  PROVE  Stays(c, i, tl2) /\ c.packed[i] = x.packed[i]
<1>1. i \in 1 .. Len(x.packed) /\ tl <= x.packed[i].head
  BY DEF Stays
<1>2. PICK h \in Nat : h = x.packed[i].head
  OBVIOUS
<1>3. t <= h /\ tl2 <= h
  BY <1>1, <1>2
<1>4. i \in 1 .. Len(c.packed) /\ c.packed[i] = x.packed[i]
  BY <1>1, <1>2, <1>3 DEF Carries
<1> QED BY <1>2, <1>3, <1>4 DEF Stays

LEMMA BoundaryCarried ==
  ASSUME NEW x, NEW c, NEW n, NEW t, NEW u, Len(c.packed) \in Nat, Len(x.packed) \in Nat,
         Carries(x, c, t), t <= u, Boundary(n, x, u)
  PROVE  Boundary(n, c, u)
<1>1. PICK k \in 0 .. Len(x.packed) : u = Floor(n, x, k)
  BY DEF Boundary
<1>2. CASE k = 0
  BY <1>1, <1>2 DEF Boundary, Floor
<1>3. CASE k # 0
  <2>1. k \in 1 .. Len(x.packed) /\ u = x.packed[k].head
    BY <1>1, <1>3 DEF Floor
  <2>2. k \in 1 .. Len(c.packed) /\ c.packed[k] = x.packed[k]
    BY <2>1 DEF Carries
  <2>3. k \in 0 .. Len(c.packed) /\ u = Floor(n, c, k)
    BY <1>3, <2>1, <2>2 DEF Floor
  <2> QED BY <2>3 DEF Boundary
<1> QED BY <1>2, <1>3

LEMMA LinksCarried ==
  ASSUME NEW U, NEW m, NEW m2, NEW x \in ContextsOf(U), NEW c, NEW o \in ObjectsOf(U),
         NEW t \in Nat, NEW tl \in Nat, NEW tl2 \in Nat, NEW top \in Nat,
         Carries(x, c, t), t <= tl, tl2 <= tl, SameIn(m, m2, o.head, top),
         LinksOK(m, x, o, top, tl)
  PROVE  LinksOK(m2, c, o, top, tl2)
<1>1. SUFFICES ASSUME NEW j \in 1 .. Len(o.links)
               PROVE  /\ o.links[j].bias <= o.links[j].position
                      /\ o.head + o.links[j].position < top
                      /\ m2[o.head + o.links[j].position] = 0
                      /\ Stays(c, o.links[j].objidx, tl2)
                      /\ \A i \in 1 .. j - 1 : o.links[i].position # o.links[j].position
  BY DEF LinksOK
<1>2. /\ o.links[j].bias <= o.links[j].position
      /\ o.head + o.links[j].position < top
      /\ m[o.head + o.links[j].position] = 0
      /\ Stays(x, o.links[j].objidx, tl)
      /\ \A i \in 1 .. j - 1 : o.links[i].position # o.links[j].position
  BY <1>1 DEF LinksOK
<1>3. o.head \in Nat /\ o.links[j].position \in Nat
  BY ObjectFacts
<1>4. m2[o.head + o.links[j].position] = 0
  <2>1. o.head + o.links[j].position \in o.head .. top - 1
    BY <1>2, <1>3
  <2> QED BY <1>2, <2>1 DEF SameIn
<1>5. x.packed[o.links[j].objidx].head \in Nat
  BY <1>2, ContextFacts DEF Stays
<1>6. Stays(c, o.links[j].objidx, tl2)
  BY <1>2, <1>5, StaysCarried
<1> QED BY <1>2, <1>4, <1>6

LEMMA FrameFacts ==
  ASSUME NEW U, NEW f \in FramesOf(U)
  PROVE  /\ f.at \in Nat /\ f.held \subseteq HeldOf(U)
         /\ \A h \in f.held : h \in HeldOf(U) /\ h.objidx \in Nat /\ h.tree \in U
         /\ f.snap.head \in Nat /\ f.snap.tail \in Nat \cup {-1}
         /\ f.snap = [head |-> f.snap.head, tail |-> f.snap.tail]
<1>1. f.at \in Nat /\ f.held \subseteq HeldOf(U) /\ f.snap \in [head : Nat, tail : Nat \cup {-1}]
  BY DEF FramesOf
<1>2. \A h \in f.held : h \in HeldOf(U) /\ h.objidx \in Nat /\ h.tree \in U
  BY <1>1 DEF HeldOf
<1> QED BY <1>1, <1>2

LEMMA KeepsCarried ==
  ASSUME NEW U, NEW x \in ContextsOf(U), NEW c, NEW f,
         NEW t \in Nat, NEW tl \in Nat, NEW tl2 \in Nat,
         Carries(x, c, t), t <= tl, tl2 <= tl, KeepsOK(x, f, tl)
  PROVE  KeepsOK(c, f, tl2)
<1>1. SUFFICES ASSUME NEW h \in f.held PROVE Stays(c, h.objidx, tl2)
  BY DEF KeepsOK
<1>2. Stays(x, h.objidx, tl)
  BY DEF KeepsOK
<1>3. x.packed[h.objidx].head \in Nat
  BY <1>2, ContextFacts DEF Stays
<1> QED BY <1>2, <1>3, StaysCarried

LEMMA LevelCarried ==
  ASSUME NEW U, NEW n \in Nat, NEW m, NEW m2, NEW x \in ContextsOf(U), NEW c \in ContextsOf(U),
         NEW o \in ObjectsOf(U), NEW f \in FramesOf(U),
         NEW hd \in Nat, NEW tl \in Nat, NEW tl2 \in Nat, NEW t \in Nat,
         LevelOK(m, n, x, o, f, hd, tl), f.snap # NoSnapshot => f.snap.head <= hd,
         Carries(x, c, t), t <= tl, tl2 <= tl, SameIn(m, m2, o.head, hd)
  PROVE  LevelOK(m2, n, c, o, f, hd, tl2)
<1>0. o.tail \in Nat /\ o.head \in Nat /\ Len(c.packed) \in Nat /\ Len(x.packed) \in Nat
  BY ObjectFacts, ContextFacts
<1>1. /\ tl <= o.tail /\ Boundary(n, x, o.tail)
      /\ LinksOK(m, x, o, hd, tl) /\ KeepsOK(x, f, tl)
  BY DEF LevelOK
<1>2. tl2 <= o.tail /\ t <= o.tail
  BY <1>0, <1>1
<1>3. Boundary(n, c, o.tail)
  BY <1>0, <1>1, <1>2, BoundaryCarried
<1>4. LinksOK(m2, c, o, hd, tl2)
  BY <1>1, LinksCarried
<1>5. KeepsOK(c, f, tl2)
  BY <1>1, KeepsCarried
<1>6. ASSUME f.snap # NoSnapshot
      PROVE  /\ tl2 <= f.snap.tail /\ f.snap.tail <= o.tail /\ Boundary(n, c, f.snap.tail)
             /\ LinksOK(m2, c, o, f.snap.head, f.snap.tail) /\ KeepsOK(c, f, f.snap.tail)
  <2>1. /\ tl <= f.snap.tail /\ f.snap.tail <= o.tail /\ Boundary(n, x, f.snap.tail)
        /\ LinksOK(m, x, o, f.snap.head, f.snap.tail) /\ KeepsOK(x, f, f.snap.tail)
    BY <1>6 DEF LevelOK
  <2>2. PICK sh, st : sh = f.snap.head /\ st = f.snap.tail
    OBVIOUS
  <2>3. sh \in Nat /\ st \in Nat \cup {-1}
    BY <2>2, FrameFacts
  <2>4. st \in Nat /\ tl2 <= st /\ t <= st
    BY <2>1, <2>2, <2>3
  <2>5. Boundary(n, c, st)
    BY <1>0, <2>1, <2>2, <2>4, BoundaryCarried
  <2>6. SameIn(m, m2, o.head, sh)
    <3>1. sh <= hd
      BY <1>6, <2>2
    <3>2. \A a \in o.head .. sh - 1 : a \in o.head .. hd - 1
      BY <1>0, <2>3, <3>1
    <3> QED BY <3>2 DEF SameIn
  <2>7. LinksOK(m2, c, o, sh, st)
    <3>1. LinksOK(m, x, o, sh, st) /\ st <= st
      BY <2>1, <2>2, <2>4
    <3> QED BY <2>3, <2>4, <2>6, <3>1, LinksCarried
  <2>8. KeepsOK(c, f, st)
    <3>1. KeepsOK(x, f, st) /\ st <= st
      BY <2>1, <2>2, <2>4
    <3> QED BY <2>3, <2>4, <3>1, KeepsCarried
  <2> QED BY <2>1, <2>2, <2>4, <2>5, <2>7, <2>8
<1> QED BY <1>1, <1>2, <1>3, <1>4, <1>5, <1>6 DEF LevelOK

\* The heads of the stack ascend to hd.
Stacked(x, hd) ==
  \A d \in 1 .. Len(x.current) :
    /\ x.current[d].head <= hd
    /\ \A c \in 1 .. d : x.current[c].head <= x.current[d].head

\* Context c with frames g has the lower levels of x with frames f.
LowerLevels(x, f, c, g) ==
  /\ Len(c.current) \in 0 .. Len(x.current)
  /\ \A d \in 1 .. Len(c.current) : c.current[d] = x.current[d] /\ g[d] = f[d]

LEMMA AboveFacts ==
  ASSUME NEW U, NEW x \in ContextsOf(U), NEW hd \in Nat, NEW tl \in Nat,
         NEW d \in 0 .. Len(x.current)
  PROVE  /\ HeadAbove(x, d, hd) \in Nat /\ TailAbove(x, d, tl) \in Nat
         /\ Stacked(x, hd) => HeadAbove(x, d, hd) <= hd
<1>1. CASE d < Len(x.current)
  <2>1. d + 1 \in 1 .. Len(x.current)
    BY <1>1, ContextFacts
  <2>2. PICK o \in ObjectsOf(U) : o = x.current[d + 1]
    BY <2>1, ContextFacts
  <2> QED BY <1>1, <2>1, <2>2, ObjectFacts DEF HeadAbove, TailAbove, Stacked
<1>2. CASE ~(d < Len(x.current))
  BY <1>2 DEF HeadAbove, TailAbove
<1> QED BY <1>1, <1>2

LEMMA LevelsCarried ==
  ASSUME NEW U, NEW n \in Nat, NEW m, NEW m2, NEW x \in ContextsOf(U), NEW c \in ContextsOf(U),
         NEW f \in Seq(FramesOf(U)), NEW g, LowerLevels(x, f, c, g), Len(f) = Len(x.current),
         NEW hd \in Nat, NEW tl \in Nat, NEW hd2 \in Nat, NEW tl2 \in Nat, NEW t \in Nat,
         Stacked(x, hd), Matched(n, x, f, hd), LevelsOK(m, n, x, f, hd, tl),
         hd2 = HeadAbove(x, Len(c.current), hd), tl2 <= TailAbove(x, Len(c.current), tl),
         t <= TailAbove(x, Len(c.current), tl),
         Carries(x, c, t), SameIn(m, m2, 0, hd2)
  PROVE  LevelsOK(m2, n, c, g, hd2, tl2)
<1>1. PICK L \in Nat, L2 \in Nat : L = Len(x.current) /\ L2 = Len(c.current) /\ L2 <= L
  BY ContextFacts DEF LowerLevels
<1>2. \A d \in 1 .. L2 : d \in 1 .. L /\ c.current[d] = x.current[d] /\ g[d] = f[d]
  BY <1>1 DEF LowerLevels
<1>3. \A d \in 1 .. L : /\ x.current[d] \in ObjectsOf(U) /\ f[d] \in FramesOf(U)
                        /\ x.current[d].head \in Nat /\ x.current[d].tail \in Nat
  BY <1>1, ContextFacts
<1>4. HeadAbove(x, 0, hd) = 0
  BY DEF LevelsOK
<1>5. \A d \in 1 .. L :
        /\ LevelOK(m, n, x, x.current[d], f[d], HeadAbove(x, d, hd), TailAbove(x, d, tl))
        /\ \A e \in 1 .. d : x.current[d].tail <= x.current[e].tail
  BY <1>1 DEF LevelsOK
<1>6. HeadAbove(c, 0, hd2) = 0
  <2>1. CASE L2 = 0
    BY <1>1, <1>4, <2>1 DEF HeadAbove
  <2>2. CASE L2 > 0
    <3>1. 1 \in 1 .. L2 /\ 0 < L
      BY <1>1, <2>2
    <3>2. c.current[1] = x.current[1]
      BY <1>2, <3>1
    <3> QED BY <1>1, <1>4, <2>2, <3>1, <3>2 DEF HeadAbove
  <2> QED BY <1>1, <2>1, <2>2
<1>7. ASSUME NEW d \in 1 .. L2
      PROVE  LevelOK(m2, n, c, c.current[d], g[d], HeadAbove(c, d, hd2), TailAbove(c, d, tl2))
  <2>1. d \in 1 .. L /\ d \in 0 .. L /\ L2 \in 0 .. L
    BY <1>1
  <2>2. PICK ah \in Nat, al \in Nat : ah = HeadAbove(x, d, hd) /\ al = TailAbove(x, d, tl)
    BY <1>1, <2>1, AboveFacts
  <2>3. PICK o \in ObjectsOf(U), e \in FramesOf(U) :
          /\ o = x.current[d] /\ e = f[d] /\ o = c.current[d] /\ e = g[d]
          /\ o.head \in Nat
    BY <1>2, <1>3, <2>1
  <2>4. LevelOK(m, n, x, o, e, ah, al)
    BY <1>5, <2>1, <2>2, <2>3
  <2>5. e.snap # NoSnapshot => e.snap.head <= ah
    BY <1>1, <2>1, <2>2, <2>3 DEF Matched
  <2>6. /\ HeadAbove(c, d, hd2) = ah /\ ah <= hd2 /\ t <= al
        /\ TailAbove(c, d, tl2) \in Nat /\ TailAbove(c, d, tl2) <= al
    <3>1. CASE d = L2
      <4>1. HeadAbove(c, d, hd2) = hd2 /\ TailAbove(c, d, tl2) = tl2
        BY <1>1, <3>1 DEF HeadAbove, TailAbove
      <4> QED BY <1>1, <2>2, <3>1, <4>1
    <3>2. CASE d < L2
      <4>1. d + 1 \in 1 .. L2 /\ d < L /\ d + 1 \in 1 .. L /\ L2 \in 1 .. L
        BY <1>1, <3>2
      <4>2. PICK ph \in Nat, pt \in Nat :
              /\ ph = x.current[d + 1].head /\ pt = x.current[d + 1].tail
              /\ ph = c.current[d + 1].head /\ pt = c.current[d + 1].tail
        BY <1>2, <1>3, <4>1
      <4>3. ph = ah /\ pt = al
        BY <1>1, <2>2, <4>1, <4>2 DEF HeadAbove, TailAbove
      <4>4. HeadAbove(c, d, hd2) = ph /\ TailAbove(c, d, tl2) = pt
        BY <1>1, <3>2, <4>2 DEF HeadAbove, TailAbove
      <4>5. ph <= hd2
        <5>1. CASE L2 = L
          <6>1. hd2 = hd
            BY <1>1, <5>1 DEF HeadAbove
          <6> QED BY <1>1, <4>1, <4>2, <6>1 DEF Stacked
        <5>2. CASE L2 < L
          <6>1. hd2 = x.current[L2 + 1].head /\ L2 + 1 \in 1 .. L /\ d + 1 \in 1 .. L2 + 1
            BY SMTT(30), <1>1, <4>1, <5>2 DEF HeadAbove
          <6> QED BY <1>1, <4>2, <6>1 DEF Stacked
        <5> QED BY <1>1, <5>1, <5>2
      <4>6. t <= pt
        <5>1. TailAbove(x, L2, tl) <= x.current[L2].tail
          BY <1>5, <4>1 DEF LevelOK
        <5>2. x.current[L2].tail <= x.current[d + 1].tail
          BY <1>5, <4>1
        <5>3. PICK a \in Nat, b \in Nat : a = TailAbove(x, L2, tl) /\ b = x.current[L2].tail
          BY <1>1, <1>3, <2>1, <4>1, AboveFacts
        <5>4. t <= a /\ a <= b /\ b <= pt
          BY <1>1, <4>2, <5>1, <5>2, <5>3
        <5> QED BY <5>3, <5>4
      <4> QED BY <4>2, <4>3, <4>4, <4>5, <4>6
    <3> QED BY <1>1, <3>1, <3>2
  <2>7. SameIn(m, m2, o.head, ah)
    <3>1. \A a \in o.head .. ah - 1 : a \in 0 .. hd2 - 1
      BY SMTT(30), <2>2, <2>3, <2>6
    <3> QED BY <3>1 DEF SameIn
  <2>8. PICK b \in Nat : b = TailAbove(c, d, tl2) /\ b <= al /\ t <= al
    BY <2>6
  <2>9. LevelOK(m2, n, c, o, e, ah, b)
    BY <2>2, <2>3, <2>4, <2>5, <2>7, <2>8, LevelCarried
  <2> QED BY <2>3, <2>6, <2>8, <2>9
<1>8. ASSUME NEW d \in 1 .. L2, NEW e \in 1 .. d PROVE c.current[d].tail <= c.current[e].tail
  <2>1. e \in 1 .. L2
    BY <1>1
  <2> QED BY <1>2, <1>5, <2>1
<1> QED BY <1>1, <1>6, <1>7, <1>8 DEF LevelsOK

-----------------------------------------------------------------------------
(* The trees.                                                               *)

TreesKept(m, m2, x, t) ==
  \A i \in 1 .. Len(x.packed) : t <= x.packed[i].head => Tree(m2, x.packed[i]) = Tree(m, x.packed[i])

LEMMA KidsCarried ==
  ASSUME NEW U, NEW m, NEW m2, NEW x \in ContextsOf(U), NEW c,
         NEW o, NEW top, NEW t \in Nat, NEW tl \in Nat,
         LinksOK(m, x, o, top, tl), t <= tl, Carries(x, c, t), TreesKept(m, m2, x, t),
         KidsOK(m, x, o)
  PROVE  KidsOK(m2, c, o)
<1>1. ASSUME NEW j \in 1 .. Len(o.links)
      PROVE  KidAt(m2, c, o.links[j]) = KidAt(m, x, o.links[j])
  <2>1. PICK i : i = o.links[j].objidx
    OBVIOUS
  <2>2. Stays(x, i, tl)
    BY <2>1 DEF LinksOK
  <2>3. i \in 1 .. Len(x.packed) /\ tl <= x.packed[i].head /\ x.packed[i].head \in Nat
    BY <2>2, ContextFacts DEF Stays
  <2>4. t <= x.packed[i].head
    BY <2>3
  <2>5. c.packed[i] = x.packed[i] /\ Tree(m2, x.packed[i]) = Tree(m, x.packed[i])
    BY <2>3, <2>4 DEF Carries, TreesKept
  <2> QED BY <2>1, <2>5 DEF KidAt
<1> QED BY <1>1 DEF KidsOK

LEMMA FaithfulCarried ==
  ASSUME NEW U, NEW n \in Nat, NEW m, NEW m2, NEW x \in ContextsOf(U), NEW c \in ContextsOf(U),
         NEW f \in Seq(FramesOf(U)), NEW g, LowerLevels(x, f, c, g), Len(f) = Len(x.current),
         NEW hd \in Nat, NEW tl \in Nat, NEW t \in Nat,
         LevelsOK(m, n, x, f, hd, tl), t <= TailAbove(x, Len(c.current), tl),
         Carries(x, c, t), TreesKept(m, m2, x, t), StackFaithful(m, x, f)
  PROVE  StackFaithful(m2, c, g)
<1>1. PICK L \in Nat, L2 \in Nat : L = Len(x.current) /\ L2 = Len(c.current) /\ L2 <= L
  BY ContextFacts DEF LowerLevels
<1>2. SUFFICES ASSUME NEW d \in 1 .. L2
               PROVE  /\ KidsOK(m2, c, c.current[d])
                      /\ \A h \in g[d].held : h.tree = Tree(m2, c.packed[h.objidx])
  BY <1>1 DEF StackFaithful
<1>3. d \in 1 .. L /\ c.current[d] = x.current[d] /\ g[d] = f[d] /\ d \in 0 .. L /\ L2 \in 1 .. L
  BY <1>1, <1>2 DEF LowerLevels
<1>4. PICK al \in Nat : al = TailAbove(x, d, tl)
  BY <1>1, <1>3, AboveFacts
<1>5. LevelOK(m, n, x, x.current[d], f[d], HeadAbove(x, d, hd), al)
  BY <1>1, <1>3, <1>4 DEF LevelsOK
<1>6. t <= al
  <2>1. CASE d = L2
    BY <1>1, <1>4, <2>1
  <2>2. CASE d < L2
    <3>1. d + 1 \in 1 .. L2 /\ d < L /\ L2 \in 0 .. L
      BY <1>1, <2>2
    <3>2. al = x.current[d + 1].tail
      BY <1>1, <1>4, <3>1 DEF TailAbove
    <3>3. TailAbove(x, L2, tl) <= x.current[L2].tail
      BY <1>1, <1>3 DEF LevelOK, LevelsOK
    <3>4. x.current[L2].tail <= x.current[d + 1].tail
      BY <1>1, <1>3, <3>1 DEF LevelsOK
    <3>5. PICK a \in Nat, b \in Nat : a = TailAbove(x, L2, tl) /\ b = x.current[L2].tail
      BY <1>1, <1>3, <3>1, AboveFacts, ContextFacts
    <3>6. t <= a /\ a <= b /\ b <= al
      BY <1>1, <3>2, <3>3, <3>4, <3>5
    <3> QED BY <3>5, <3>6
  <2> QED BY <1>1, <2>1, <2>2
<1>7. KidsOK(m2, c, x.current[d])
  <2>1. LinksOK(m, x, x.current[d], HeadAbove(x, d, hd), al)
    BY <1>5 DEF LevelOK
  <2>2. KidsOK(m, x, x.current[d])
    BY <1>1, <1>3 DEF StackFaithful
  <2> QED BY <1>6, <2>1, <2>2, KidsCarried
<1>8. ASSUME NEW h \in f[d].held PROVE h.tree = Tree(m2, c.packed[h.objidx])
  <2>1. PICK i : i = h.objidx
    OBVIOUS
  <2>2. Stays(x, i, al)
    BY <1>5, <2>1 DEF LevelOK, KeepsOK
  <2>3. i \in 1 .. Len(x.packed) /\ al <= x.packed[i].head /\ x.packed[i].head \in Nat
    BY <2>2, ContextFacts DEF Stays
  <2>4. t <= x.packed[i].head
    BY <1>6, <2>3
  <2>5. c.packed[i] = x.packed[i] /\ Tree(m2, x.packed[i]) = Tree(m, x.packed[i])
    BY <2>3, <2>4 DEF Carries, TreesKept
  <2>6. h.tree = Tree(m, x.packed[i])
    BY <1>1, <1>3, <2>1 DEF StackFaithful
  <2> QED BY <2>1, <2>5, <2>6
<1> QED BY <1>3, <1>7, <1>8

-----------------------------------------------------------------------------
(* revert, of a context that lost nothing.                                  *)

LEMMA KeptBoundary ==
  ASSUME NEW U, NEW n \in Nat, NEW x \in ContextsOf(U), Descending(n, x),
         NEW t \in Nat, Boundary(n, x, t)
  PROVE  t = Floor(n, x, Kept(x, t))
<1>1. PICK N \in Nat, q \in Nat : N = Len(x.packed) /\ q = Kept(x, t) /\ q <= N
  BY KeptFacts, ContextFacts
<1>2. \A k \in 1 .. N : k <= q <=> t <= x.packed[k].head
  BY <1>1, KeptFacts
<1>3. PICK k \in 0 .. N : t = Floor(n, x, k)
  BY <1>1 DEF Boundary
<1>4. CASE k = 0
  <2>1. t = n
    BY <1>3, <1>4 DEF Floor
  <2>2. ASSUME q # 0 PROVE FALSE
    <3>1. q \in 1 .. N /\ t <= x.packed[q].head
      BY <1>1, <1>2, <2>2
    <3>2. PICK h \in Nat, e \in Nat : h = x.packed[q].head /\ e = x.packed[q].tail
      BY <1>1, <3>1, ContextFacts
    <3>3. h < e /\ e <= n
      BY <1>1, <3>1, <3>2 DEF Descending
    <3> QED BY <2>1, <3>1, <3>2, <3>3
  <2> QED BY <1>1, <2>1, <2>2 DEF Floor
<1>5. CASE k # 0
  <2>1. k \in 1 .. N /\ t = x.packed[k].head
    BY <1>3, <1>5 DEF Floor
  <2>2. k <= q /\ q \in 1 .. N
    BY <1>1, <1>2, <2>1
  <2>3. ASSUME k < q PROVE FALSE
    <3>1. x.packed[q].head < x.packed[k].head
      BY <1>1, <2>1, <2>2, <2>3, Descends
    <3>2. t <= x.packed[q].head /\ x.packed[q].head \in Nat
      BY <1>1, <1>2, <2>2, ContextFacts
    <3> QED BY <2>1, <3>1, <3>2
  <2>4. k = q
    BY <1>1, <2>2, <2>3
  <2> QED BY <1>1, <1>3, <2>4
<1> QED BY <1>4, <1>5

\* Context c has the packed objects of x at t and above, and no others.
CutAt(x, c, t) ==
  /\ Len(c.packed) \in 0 .. Len(x.packed)
  /\ \A k \in 1 .. Len(x.packed) : k <= Len(c.packed) <=> t <= x.packed[k].head
  /\ \A k \in 1 .. Len(c.packed) : c.packed[k] = x.packed[k]

LEMMA RevertCuts ==
  ASSUME NEW U, NEW n \in Nat, NEW m, NEW x \in ContextsOf(U), Descending(n, x),
         NEW at \in Nat, NEW t \in Nat,
         NEW r, r = Revert(m, x, at, t)
  PROVE  CutAt(x, r.context, t)
<1>1. PICK q : q = Kept(x, t)
  OBVIOUS
<1>2. q \in 0 .. Len(x.packed) /\ \A k \in 1 .. Len(x.packed) : k <= q <=> t <= x.packed[k].head
  BY <1>1, KeptFacts
<1>3. Len(r.context.packed) = q /\ \A k \in 1 .. q : r.context.packed[k] = x.packed[k]
  BY <1>1, RevertIs
<1> QED BY <1>2, <1>3 DEF CutAt

LEMMA CutCarries ==
  ASSUME NEW U, NEW x \in ContextsOf(U), NEW c, NEW t, CutAt(x, c, t)
  PROVE  Carries(x, c, t)
<1>1. PICK N \in Nat, q \in Nat : N = Len(x.packed) /\ q = Len(c.packed)
  BY ContextFacts DEF CutAt
<1>2. SUFFICES ASSUME NEW i \in 1 .. N, t <= x.packed[i].head
               PROVE  i \in 1 .. q /\ c.packed[i] = x.packed[i]
  BY <1>1 DEF Carries
<1>3. i <= q
  BY <1>1, <1>2 DEF CutAt
<1>4. i \in 1 .. q
  BY <1>3
<1> QED BY <1>1, <1>4 DEF CutAt

LEMMA RevertAssertsHold ==
  ASSUME NEW U, NEW n \in Nat, NEW m, NEW x \in ContextsOf(U), Descending(n, x),
         NEW at \in Nat, NEW t \in Nat, Boundary(n, x, t), at <= x.head, x.tail <= t,
         NEW r, r = Revert(m, x, at, t)
  PROVE  r.asserts
<1>1. t = Floor(n, x, Kept(x, t))
  BY KeptBoundary
<1>2. PICK q \in Nat : q = Kept(x, t)
  BY KeptFacts, ContextFacts
<1>3. q > 0 => x.packed[q].head = t
  BY <1>1, <1>2 DEF Floor
<1> QED BY <1>2, <1>3, RevertAsserts

LEMMA CutWhole ==
  ASSUME NEW U, NEW n \in Nat, NEW m, NEW x \in ContextsOf(U), NEW c \in ContextsOf(U),
         NEW t \in Nat, CutAt(x, c, t), c.tail = t, Descending(n, x), Boundary(n, x, t),
         Whole(m, n, x)
  PROVE  /\ Whole(m, n, c)
         /\ PackedFaithful(m, x) => PackedFaithful(m, c)
<1>1. PICK N \in Nat, q \in Nat : N = Len(x.packed) /\ q = Len(c.packed) /\ q <= N
  BY ContextFacts DEF CutAt
<1>2. /\ \A k \in 1 .. N : k <= q <=> t <= x.packed[k].head
      /\ \A k \in 1 .. q : k \in 1 .. N /\ c.packed[k] = x.packed[k]
  BY <1>1 DEF CutAt
<1>3. Carries(x, c, t)
  BY CutCarries
<1>4. \A k \in 0 .. q : Floor(n, c, k) = Floor(n, x, k)
  BY <1>1, <1>2 DEF Floor
<1>5. Tight(n, c)
  <2>1. t = Floor(n, c, q)
    <3>1. Boundary(n, c, t)
      BY <1>1, <1>3, BoundaryCarried
    <3>2. PICK k \in 0 .. q : t = Floor(n, c, k)
      BY <1>1, <3>1 DEF Boundary
    <3>3. ASSUME k < q PROVE FALSE
      <4>1. q \in 1 .. N /\ k + 1 \in 1 .. N /\ t <= x.packed[q].head
        BY <1>1, <1>2, <3>3
      <4>2. PICK h \in Nat, e \in Nat : h = x.packed[q].head /\ e = x.packed[q].tail
        BY <1>1, <4>1, ContextFacts
      <4>3. h < e /\ e <= n
        BY <1>1, <4>1, <4>2 DEF Descending
      <4>4. CASE k = 0
        <5>1. t = n
          BY <3>2, <4>4 DEF Floor
        <5> QED BY <4>1, <4>2, <4>3, <5>1
      <4>5. CASE k # 0
        <5>1. k \in 1 .. N /\ k \in 1 .. q
          BY <1>1, <3>3, <4>5
        <5>2. t = x.packed[k].head
          BY <1>2, <3>2, <4>5, <5>1 DEF Floor
        <5>3. h < x.packed[k].head
          BY <1>1, <3>3, <4>1, <4>2, <5>1, Descends
        <5> QED BY <4>1, <4>2, <5>2, <5>3
      <4> QED BY <4>4, <4>5
    <3>4. k = q
      BY <1>1, <3>3
    <3> QED BY <3>2, <3>4
  <2>2. ASSUME NEW k \in 1 .. q PROVE c.packed[k].tail = Floor(n, c, k - 1)
    <3>1. k \in 1 .. N /\ k - 1 \in 0 .. q
      BY <1>1
    <3>2. x.packed[k].tail = Floor(n, x, k - 1)
      BY <1>1, <3>1 DEF Whole, Tight
    <3> QED BY <1>2, <1>4, <3>1, <3>2
  <2> QED BY <1>1, <2>1, <2>2 DEF Tight
<1>6. ASSUME NEW k \in 1 .. q
      PROVE  /\ LinksOK(m, c, c.packed[k], c.packed[k].tail, c.packed[k].tail)
             /\ KidsOK(m, x, x.packed[k]) => KidsOK(m, c, c.packed[k])
  <2>1. PICK o \in ObjectsOf(U) : o = x.packed[k] /\ o = c.packed[k]
    BY <1>1, <1>2, ContextFacts
  <2>2. k \in 1 .. N /\ k <= q
    BY <1>1
  <2>3. PICK h \in Nat, e \in Nat : h = o.head /\ e = o.tail
    BY <2>1, ObjectFacts
  <2>4. t <= h /\ h < e
    BY <1>1, <1>2, <2>1, <2>2, <2>3 DEF Descending
  <2>5. LinksOK(m, x, o, e, e)
    BY <1>1, <2>1, <2>2, <2>3 DEF Whole, PackedOK
  <2>6. SameIn(m, m, o.head, e) /\ t <= e /\ e <= e
    BY <2>3, <2>4 DEF SameIn
  <2>7. LinksOK(m, c, o, e, e)
    BY <1>3, <2>3, <2>5, <2>6, LinksCarried
  <2>8. TreesKept(m, m, x, t)
    BY DEF TreesKept
  <2>9. ASSUME KidsOK(m, x, o) PROVE KidsOK(m, c, o)
    BY <1>3, <2>3, <2>5, <2>6, <2>8, <2>9, KidsCarried
  <2> QED BY <2>1, <2>3, <2>7, <2>9
<1>7. PackedOK(m, c)
  BY <1>1, <1>6 DEF PackedOK
<1>8. ASSUME PackedFaithful(m, x) PROVE PackedFaithful(m, c)
  <2>1. \A k \in 1 .. q : KidsOK(m, x, x.packed[k])
    BY <1>1, <1>2, <1>8 DEF PackedFaithful
  <2> QED BY <1>1, <1>6, <2>1 DEF PackedFaithful
<1> QED BY <1>5, <1>7, <1>8 DEF Whole

\* revert to where the level above some objects began leaves them as they were.
LEMMA RevertGood ==
  ASSUME NEW U, NEW n \in Nat, NEW m, NEW x \in ContextsOf(U), Sound(m, n, x), Whole(m, n, x),
         NEW f \in Seq(FramesOf(U)), Len(f) = Len(x.current),
         NEW at \in Nat, NEW t \in Nat, at <= x.head, x.tail <= t, Boundary(n, x, t),
         Stacked(x, at), Matched(n, x, f, at), LevelsOK(m, n, x, f, at, t),
         x.successful => PackedFaithful(m, x) /\ StackFaithful(m, x, f),
         NEW r, r = Revert(m, x, at, t)
  PROVE  r.asserts /\ Good(m, n, r.context, f)
<1>0. Descending(n, x)
  BY DEF Sound
<1>1. r.asserts
  BY <1>0, RevertAssertsHold
<1>2. PICK c \in ContextsOf(U) :
        /\ c = r.context /\ c.head = at /\ c.tail = t /\ c.current = x.current
        /\ c.successful = x.successful
  BY <1>0, RevertIs
<1>3. CutAt(x, c, t)
  BY <1>0, <1>2, RevertCuts
<1>4. Carries(x, c, t)
  BY <1>3, CutCarries
<1>5. LowerLevels(x, f, c, f)
  BY <1>2, ContextFacts DEF LowerLevels
<1>6. PICK L \in Nat : L = Len(c.current) /\ L = Len(x.current)
  BY <1>2, ContextFacts
<1>7. /\ HeadAbove(x, Len(c.current), at) = at /\ TailAbove(x, Len(c.current), t) = t
      /\ t <= t
  BY <1>6 DEF HeadAbove, TailAbove
<1>8. SameIn(m, m, 0, at) /\ TreesKept(m, m, x, t)
  BY DEF SameIn, TreesKept
<1>9. LevelsOK(m, n, c, f, at, t)
  BY <1>4, <1>5, <1>7, <1>8, LevelsCarried
<1>10. Whole(m, n, c) /\ (PackedFaithful(m, x) => PackedFaithful(m, c))
  BY <1>0, <1>2, <1>3, CutWhole
<1>11. ASSUME StackFaithful(m, x, f) PROVE StackFaithful(m, c, f)
  BY <1>4, <1>5, <1>7, <1>8, <1>11, FaithfulCarried
<1> QED BY <1>1, <1>2, <1>9, <1>10, <1>11 DEF Good

-----------------------------------------------------------------------------
(* pop_pack, of a context that lost nothing.                                *)

LEMMA StackedIs ==
  ASSUME NEW n, NEW x, Ascending(n, x)
  PROVE  Stacked(x, x.head)
BY DEF Ascending, Stacked

LEMMA LowerFront ==
  ASSUME NEW U, NEW x \in ContextsOf(U), x.current # <<>>,
         NEW f \in Seq(FramesOf(U)), Len(f) = Len(x.current),
         NEW c, c.current = Front(x.current)
  PROVE  /\ LowerLevels(x, f, c, Front(f))
         /\ Front(f) \in Seq(FramesOf(U)) /\ Len(Front(f)) = Len(c.current)
         /\ Len(c.current) = Len(x.current) - 1
<1>1. PICK L \in Nat \ {0} : L = Len(x.current) /\ Last(x.current) = x.current[L]
  BY TopFacts
<1>2. Len(c.current) = L - 1 /\ \A i \in 1 .. L - 1 : c.current[i] = x.current[i]
  BY <1>1, ContextFacts, FrontFacts
<1>3. f # <<>>
  BY <1>1, EmptySeq
<1>4. /\ Front(f) \in Seq(FramesOf(U)) /\ Len(Front(f)) = L - 1
      /\ \A i \in 1 .. L - 1 : Front(f)[i] = f[i]
  BY <1>1, <1>3, FrontFacts
<1>5. LowerLevels(x, f, c, Front(f))
  BY <1>1, <1>2, <1>4 DEF LowerLevels
<1> QED BY <1>1, <1>2, <1>4, <1>5

\* Where the innermost object starts.
LEMMA AboveFront ==
  ASSUME NEW U, NEW x \in ContextsOf(U), x.current # <<>>,
         NEW c, c.current = Front(x.current), NEW hd, NEW tl
  PROVE  /\ HeadAbove(x, Len(c.current), hd) = Last(x.current).head
         /\ TailAbove(x, Len(c.current), tl) = Last(x.current).tail
<1>1. PICK L \in Nat \ {0} : L = Len(x.current) /\ Last(x.current) = x.current[L]
  BY TopFacts
<1>2. Len(c.current) = L - 1
  BY <1>1, ContextFacts, FrontFacts
<1>3. L - 1 < L /\ L - 1 + 1 = L
  BY <1>1
<1> QED BY <1>1, <1>2, <1>3 DEF HeadAbove, TailAbove

LEMMA MatchedFront ==
  ASSUME NEW U, NEW n \in Nat, NEW x \in ContextsOf(U), x.current # <<>>,
         NEW f \in Seq(FramesOf(U)), NEW hd, Matched(n, x, f, hd),
         NEW c, c.current = Front(x.current), NEW hd2, hd2 = Last(x.current).head
  PROVE  Matched(n, c, Front(f), hd2)
<1>1. Len(f) = Len(x.current)
  BY DEF Matched
<1>2. PICK L \in Nat \ {0} : L = Len(x.current) /\ Last(x.current) = x.current[L]
  BY TopFacts
<1>3. /\ LowerLevels(x, f, c, Front(f)) /\ Len(Front(f)) = L - 1 /\ Len(c.current) = L - 1
  BY <1>1, <1>2, LowerFront
<1>4. ASSUME NEW d \in 1 .. L - 1
      PROVE  /\ d \in 1 .. L /\ c.current[d] = x.current[d] /\ Front(f)[d] = f[d]
             /\ HeadAbove(c, d, hd2) = HeadAbove(x, d, hd)
  <2>1. d \in 1 .. L /\ d < L /\ d + 1 \in 1 .. L
    BY <1>2
  <2>2. c.current[d] = x.current[d] /\ Front(f)[d] = f[d]
    BY <1>3 DEF LowerLevels
  <2>3. CASE d = L - 1
    <3>1. d + 1 = L /\ ~(d < Len(c.current))
      BY <1>3, <2>3
    <3> QED BY <1>2, <2>1, <2>2, <3>1 DEF HeadAbove
  <2>4. CASE d < L - 1
    <3>1. d + 1 \in 1 .. L - 1
      BY <1>2, <2>4
    <3>2. c.current[d + 1] = x.current[d + 1]
      BY <1>3, <3>1 DEF LowerLevels
    <3> QED BY <1>2, <1>3, <2>1, <2>2, <2>4, <3>2 DEF HeadAbove
  <2> QED BY <1>2, <2>3, <2>4
<1>5. \A d \in 1 .. L :
        /\ f[d].at = x.current[d].head
        /\ f[d].snap # NoSnapshot =>
             /\ x.current[d].head <= f[d].snap.head /\ f[d].snap.head <= HeadAbove(x, d, hd)
             /\ f[d].snap.tail \in 0 .. n
  BY <1>1, <1>2 DEF Matched
<1> QED BY <1>3, <1>4, <1>5 DEF Matched

\* The innermost level.
LEMMA LevelTop ==
  ASSUME NEW U, NEW n, NEW m, NEW x \in ContextsOf(U), x.current # <<>>,
         NEW f, NEW hd, NEW tl, LevelsOK(m, n, x, f, hd, tl)
  PROVE  LevelOK(m, n, x, Last(x.current), f[Len(x.current)], hd, tl)
<1>1. PICK L \in Nat \ {0} : L = Len(x.current) /\ Last(x.current) = x.current[L]
  BY TopFacts
<1>2. L \in 1 .. L /\ ~(L < L)
  BY <1>1
<1> QED BY <1>1, <1>2 DEF LevelsOK, HeadAbove, TailAbove

LEMMA PoppedGood ==
  ASSUME NEW U, NEW n \in Nat, NEW m, NEW x \in ContextsOf(U), x.current # <<>>, Sound(m, n, x),
         NEW f \in Seq(FramesOf(U)), Matched(n, x, f, x.head), Good(m, n, x, f)
  PROVE  Good(m, n, Popped(x), Front(f))
<1>1. PICK y \in ContextsOf(U) :
        /\ y = Popped(x) /\ y.head = Last(x.current).head /\ y.tail = x.tail
        /\ y.current = Front(x.current) /\ y.packed = x.packed /\ y.successful = x.successful
  BY PoppedFacts
<1>2. Whole(m, n, x) /\ LevelsOK(m, n, x, f, x.head, x.tail) /\ Len(f) = Len(x.current)
  BY DEF Good, Matched
<1>3. Whole(m, n, y)
  BY <1>1, <1>2 DEF Whole, Tight, PackedOK, LinksOK, Stays, Floor
<1>4. Carries(x, y, 0) /\ TreesKept(m, m, x, 0) /\ SameIn(m, m, 0, y.head)
  BY <1>1 DEF Carries, TreesKept, SameIn
<1>5. /\ LowerLevels(x, f, y, Front(f))
      /\ y.head = HeadAbove(x, Len(y.current), x.head)
      /\ TailAbove(x, Len(y.current), x.tail) = Last(x.current).tail
  <2>1. LowerLevels(x, f, y, Front(f))
    BY <1>1, <1>2, LowerFront
  <2> QED BY <1>1, <2>1, AboveFront
<1>6. x.tail <= Last(x.current).tail /\ 0 <= Last(x.current).tail
  <2>1. x.tail <= Last(x.current).tail
    BY <1>2, LevelTop DEF LevelOK
  <2>2. Last(x.current).tail \in Nat
    BY TopFacts, ObjectFacts
  <2> QED BY <2>1, <2>2
<1>7. Stacked(x, x.head) /\ x.head \in Nat /\ x.tail \in Nat /\ y.head \in Nat
  BY <1>1, StackedIs, ContextFacts DEF Sound
<1>8. LevelsOK(m, n, y, Front(f), y.head, y.tail)
  BY <1>1, <1>2, <1>4, <1>5, <1>6, <1>7, LevelsCarried
<1>9. ASSUME StackFaithful(m, x, f) PROVE StackFaithful(m, y, Front(f))
  BY <1>2, <1>4, <1>5, <1>6, <1>7, <1>9, FaithfulCarried
<1>10. ASSUME PackedFaithful(m, x) PROVE PackedFaithful(m, y)
  BY <1>1, <1>10 DEF PackedFaithful, KidsOK, KidAt
<1> QED BY <1>1, <1>3, <1>8, <1>9, <1>10 DEF Good

LEMMA BytesAt ==
  ASSUME NEW m, NEW o, o.head \in Nat, o.tail \in Nat, NEW b \in 0 .. o.tail - o.head - 1
  PROVE  Bytes(m, o)[b + 1] = m[o.head + b]
<1>1. PICK h \in Nat, e \in Nat : h = o.head /\ e = o.tail
  OBVIOUS
<1>2. b + 1 \in 1 .. e - h /\ h + (b + 1) - 1 = h + b
  BY <1>1
<1> QED BY <1>1, <1>2 DEF Bytes

\* Context c has one packed object more than x.
Grown(x, c, p) ==
  /\ Len(c.packed) = Len(x.packed) + 1 /\ c.packed[Len(x.packed) + 1] = p
  /\ \A k \in 1 .. Len(x.packed) : c.packed[k] = x.packed[k]

LEMMA MappedGrows ==
  ASSUME NEW U, NEW x \in ContextsOf(U), x.current # <<>>, Target(x) \in Nat
  PROVE  Grown(x, Mapped(x), PackedTop(x)) /\ Carries(x, Mapped(x), 0)
<1>1. Mapped(x).packed = Append(x.packed, PackedTop(x)) /\ PackedTop(x) \in ObjectsOf(U)
  BY MappedFacts, TopFacts
<1>2. x.packed \in Seq(ObjectsOf(U)) /\ Len(x.packed) \in Nat
  BY ContextFacts
<1>3. Grown(x, Mapped(x), PackedTop(x))
  BY <1>1, <1>2, AppendProperties DEF Grown
<1>4. \A i \in 1 .. Len(x.packed) : i \in 1 .. Len(x.packed) + 1
  BY <1>2
<1> QED BY <1>3, <1>4 DEF Grown, Carries

\* The links of the object that was moved.
LEMMA PackedTopLinks ==
  ASSUME NEW U, NEW n \in Nat, NEW m, BlockType(m, n),
         NEW x \in ContextsOf(U), x.current # <<>>, Descending(n, x), Ascending(n, x),
         NEW new, new = Moved(m, Top(x), Target(x)),
         LinksOK(m, x, Last(x.current), x.head, x.tail),
         NEW c, Carries(x, c, 0)
  PROVE  LinksOK(new, c, PackedTop(x), x.tail, x.tail)
<1>1. PICK o \in ObjectsOf(U) : o = Last(x.current)
  BY TopFacts
<1>2. PICK h \in Nat, s \in Nat, to \in Nat, hd \in Nat, tl \in Nat :
        /\ h = o.head /\ s = Size(x) /\ to = Target(x) /\ hd = x.head /\ tl = x.tail
        /\ h + s = hd /\ to + s = tl
  BY <1>1, PopPlace, ContextFacts
<1>3. Target(x) \in Nat
  BY <1>2
<1>4. PICK p \in ObjectsOf(U) : p = PackedTop(x) /\ p.head = to /\ p.tail = tl /\ p.links = o.links
  BY <1>1, <1>2, <1>3, TopFacts
<1>5. PICK q \in ObjectsOf(U) : q = Top(x) /\ q.head = h /\ q.tail = hd
  BY <1>1, <1>2, TopFacts
<1>6. Bytes(new, p) = Bytes(m, q)
  BY <1>4, <1>5, PopMemory
<1>7. SUFFICES ASSUME NEW j \in 1 .. Len(o.links)
               PROVE  /\ o.links[j].bias <= o.links[j].position
                      /\ to + o.links[j].position < tl
                      /\ new[to + o.links[j].position] = 0
                      /\ Stays(c, o.links[j].objidx, tl)
                      /\ \A i \in 1 .. j - 1 : o.links[i].position # o.links[j].position
  BY <1>2, <1>4 DEF LinksOK
<1>8. /\ o.links[j].bias <= o.links[j].position
      /\ h + o.links[j].position < hd
      /\ m[h + o.links[j].position] = 0
      /\ Stays(x, o.links[j].objidx, tl)
      /\ \A i \in 1 .. j - 1 : o.links[i].position # o.links[j].position
  BY <1>1, <1>2, <1>7 DEF LinksOK
<1>9. PICK b \in Nat : b = o.links[j].position
  BY ObjectFacts
<1>10. b \in 0 .. tl - to - 1 /\ b \in 0 .. hd - h - 1
  <2>1. b < s
    BY SMTT(30), <1>2, <1>8, <1>9
  <2> QED BY SMTT(30), <1>2, <2>1
<1>11. new[to + b] = 0
  <2>1. Bytes(new, p)[b + 1] = new[to + b]
    <3>1. p.head \in Nat /\ p.tail \in Nat /\ b \in 0 .. p.tail - p.head - 1
      BY <1>4, <1>10
    <3>2. Bytes(new, p)[b + 1] = new[p.head + b]
      BY <3>1, BytesAt
    <3> QED BY <1>4, <3>2
  <2>2. Bytes(m, q)[b + 1] = m[h + b]
    <3>1. q.head \in Nat /\ q.tail \in Nat /\ b \in 0 .. q.tail - q.head - 1
      BY <1>5, <1>10
    <3> QED BY ZenonT(60), <1>5, <3>1, BytesAt
  <2> QED BY <1>6, <1>8, <1>9, <2>1, <2>2
<1>12. Stays(c, o.links[j].objidx, tl)
  <2>1. x.packed[o.links[j].objidx].head \in Nat
    BY <1>8, ContextFacts DEF Stays
  <2>2. 0 <= tl /\ tl <= tl
    BY <1>2
  <2> QED BY <1>8, <2>1, <2>2, StaysCarried
<1>13. to + b < tl
  BY <1>10
<1> QED BY <1>8, <1>9, <1>11, <1>12, <1>13

LEMMA MappedWhole ==
  ASSUME NEW U, NEW n \in Nat, NEW m, BlockType(m, n),
         NEW x \in ContextsOf(U), x.current # <<>>, Descending(n, x), Ascending(n, x),
         Whole(m, n, x), LinksOK(m, x, Last(x.current), x.head, x.tail),
         NEW new, new = Moved(m, Top(x), Target(x))
  PROVE  Whole(new, n, Mapped(x))
<1>1. PICK to \in Nat, tl \in Nat, N \in Nat :
        to = Target(x) /\ tl = x.tail /\ N = Len(x.packed)
  BY PopPlace, ContextFacts
<1>2. Target(x) \in Nat
  BY <1>1
<1>3. PICK p \in ObjectsOf(U) : p = PackedTop(x) /\ p.head = to /\ p.tail = tl
  BY <1>1, <1>2, TopFacts
<1>4. PICK c \in ContextsOf(U) : c = Mapped(x) /\ c.tail = to
  BY <1>1, <1>2, MappedFacts
<1>5. Grown(x, c, p) /\ Carries(x, c, 0)
  BY <1>2, <1>3, <1>4, MappedGrows
<1>6. /\ Len(c.packed) = N + 1 /\ c.packed[N + 1] = p
      /\ \A k \in 1 .. N : c.packed[k] = x.packed[k]
  BY <1>1, <1>5 DEF Grown
<1>7. tl = Floor(n, x, N) /\ \A k \in 1 .. N : x.packed[k].tail = Floor(n, x, k - 1)
  BY <1>1 DEF Whole, Tight
<1>8. ASSUME NEW k \in 0 .. N PROVE Floor(n, c, k) = Floor(n, x, k)
  <2>1. k = 0 \/ k \in 1 .. N
    BY <1>1
  <2> QED BY <1>6, <2>1 DEF Floor
<1>9. Tight(n, c)
  <2>1. to = Floor(n, c, N + 1)
    BY <1>1, <1>3, <1>6 DEF Floor
  <2>2. ASSUME NEW k \in 1 .. N + 1 PROVE c.packed[k].tail = Floor(n, c, k - 1)
    <3>1. CASE k = N + 1
      <4>1. N \in 0 .. N /\ k - 1 = N
        BY <1>1, <3>1
      <4> QED BY <1>3, <1>6, <1>7, <1>8, <3>1, <4>1
    <3>2. CASE k # N + 1
      <4>1. k \in 1 .. N /\ k - 1 \in 0 .. N
        BY <1>1, <3>2
      <4> QED BY <1>6, <1>7, <1>8, <4>1
    <3> QED BY <3>1, <3>2
  <2> QED BY <1>4, <1>6, <2>1, <2>2 DEF Tight
<1>10. ASSUME NEW k \in 1 .. N + 1
       PROVE  LinksOK(new, c, c.packed[k], c.packed[k].tail, c.packed[k].tail)
  <2>1. CASE k = N + 1
    <3>1. LinksOK(new, c, PackedTop(x), x.tail, x.tail)
      BY <1>5, PackedTopLinks
    <3> QED BY <1>1, <1>3, <1>6, <2>1, <3>1
  <2>2. CASE k # N + 1
    <3>1. k \in 1 .. N
      BY <1>1, <2>2
    <3>2. PICK o \in ObjectsOf(U) : o = x.packed[k] /\ o = c.packed[k]
      BY <1>1, <1>6, <3>1, ContextFacts
    <3>3. PICK h \in Nat, e \in Nat : h = o.head /\ e = o.tail
      BY ObjectFacts
    <3>4. LinksOK(m, x, o, e, e)
      BY <1>1, <3>1, <3>2, <3>3 DEF Whole, PackedOK
    <3>5. SameIn(m, new, h, e)
      <4>1. tl <= h /\ e <= n
        BY <1>1, <3>1, <3>2, <3>3 DEF Descending
      <4>2. \A a \in h .. e - 1 : a \in 0 .. n - 1 /\ a >= tl
        BY <1>1, <3>3, <4>1
      <4>3. SameFrom(m, new, n, tl)
        BY <1>1, PopMemory
      <4> QED BY <4>2, <4>3 DEF SameIn, SameFrom
    <3>6. 0 <= e /\ e <= e
      BY <3>3
    <3>7. LinksOK(new, c, o, e, e)
      BY <1>5, <3>3, <3>4, <3>5, <3>6, LinksCarried
    <3> QED BY <3>2, <3>3, <3>7
  <2> QED BY <2>1, <2>2
<1>11. PackedOK(new, c)
  BY <1>6, <1>10 DEF PackedOK
<1> QED BY <1>4, <1>9, <1>11 DEF Whole

LEMMA PopTreesKept ==
  ASSUME NEW U, NEW n \in Nat, NEW m, BlockType(m, n),
         NEW x \in ContextsOf(U), x.current # <<>>, Descending(n, x), Ascending(n, x),
         NEW new, new = Moved(m, Top(x), Target(x))
  PROVE  /\ TreesKept(m, new, x, 0) /\ SameIn(m, new, 0, Last(x.current).head)
<1>1. SameFrom(m, new, n, x.tail) /\ SameBelow(m, new, n, Target(x))
  BY PopMemory
<1>2. PackedSame(m, new, x)
  BY <1>1, PackedKept
<1>3. TreesKept(m, new, x, 0)
  BY <1>2 DEF PackedSame, TreesKept
<1>4. PICK h \in Nat, to \in Nat : h = Last(x.current).head /\ to = Target(x) /\ h <= to /\ to <= n
  <2>1. PICK h \in Nat, to \in Nat, tl \in Nat :
          h = Last(x.current).head /\ to = Target(x) /\ tl = x.tail /\ h <= to /\ to <= tl /\ tl <= n
    BY PopPlace, ContextFacts DEF Descending
  <2> QED BY <2>1
<1>5. \A a \in 0 .. h - 1 : a \in 0 .. n - 1 /\ a < to
  BY <1>4
<1>6. SameIn(m, new, 0, h)
  BY <1>1, <1>4, <1>5 DEF SameBelow, SameIn
<1> QED BY <1>3, <1>4, <1>6

LEMMA MappedGood ==
  ASSUME NEW U, NEW n \in Nat, NEW m, BlockType(m, n),
         NEW x \in ContextsOf(U), x.current # <<>>, Sound(m, n, x),
         NEW f \in Seq(FramesOf(U)), Matched(n, x, f, x.head), Good(m, n, x, f),
         NEW new, new = Moved(m, Top(x), Target(x))
  PROVE  Good(new, n, Mapped(x), Front(f))
<1>0. Descending(n, x) /\ Ascending(n, x) /\ Target(x) \in Nat
  BY PopPlace DEF Sound
<1>1. PICK c \in ContextsOf(U) :
        /\ c = Mapped(x) /\ c.head = Last(x.current).head /\ c.tail = Target(x)
        /\ c.current = Front(x.current) /\ c.successful = x.successful
  BY <1>0, MappedFacts
<1>2. /\ Whole(m, n, x) /\ LevelsOK(m, n, x, f, x.head, x.tail) /\ Len(f) = Len(x.current)
      /\ LinksOK(m, x, Last(x.current), x.head, x.tail)
  <2>1. LevelsOK(m, n, x, f, x.head, x.tail)
    BY DEF Good
  <2>2. LinksOK(m, x, Last(x.current), x.head, x.tail)
    BY <2>1, LevelTop DEF LevelOK
  <2> QED BY <2>1, <2>2 DEF Good, Matched
<1>3. Whole(new, n, c)
  BY <1>0, <1>1, <1>2, MappedWhole
<1>4. Grown(x, c, PackedTop(x)) /\ Carries(x, c, 0)
  BY <1>0, <1>1, MappedGrows
<1>5. TreesKept(m, new, x, 0) /\ SameIn(m, new, 0, c.head)
  BY <1>0, <1>1, PopTreesKept
<1>6. /\ LowerLevels(x, f, c, Front(f))
      /\ c.head = HeadAbove(x, Len(c.current), x.head)
      /\ TailAbove(x, Len(c.current), x.tail) = Last(x.current).tail
  <2>1. LowerLevels(x, f, c, Front(f))
    BY <1>1, <1>2, LowerFront
  <2> QED BY <1>1, <2>1, AboveFront
<1>7. c.tail <= Last(x.current).tail /\ 0 <= Last(x.current).tail
  <2>1. x.tail <= Last(x.current).tail
    BY <1>2, LevelTop DEF LevelOK
  <2>2. PICK a \in Nat, b \in Nat, e \in Nat : a = Last(x.current).tail /\ b = x.tail /\ e = c.tail
    BY TopFacts, ObjectFacts, ContextFacts
  <2>3. c.tail <= x.tail
    BY <1>0, <1>1, PopPlace
  <2> QED BY <2>1, <2>2, <2>3
<1>8. Stacked(x, x.head) /\ x.head \in Nat /\ x.tail \in Nat /\ c.head \in Nat /\ c.tail \in Nat
  BY <1>0, <1>1, StackedIs, ContextFacts
<1>9. LevelsOK(new, n, c, Front(f), c.head, c.tail)
  BY <1>2, <1>4, <1>5, <1>6, <1>7, <1>8, LevelsCarried
<1>10. ASSUME StackFaithful(m, x, f) PROVE StackFaithful(new, c, Front(f))
  BY <1>2, <1>4, <1>5, <1>6, <1>7, <1>8, <1>10, FaithfulCarried
<1>11. ASSUME PackedFaithful(m, x), StackFaithful(m, x, f) PROVE PackedFaithful(new, c)
  <2>1. PICK N \in Nat : N = Len(x.packed)
    BY ContextFacts
  <2>2. /\ Len(c.packed) = N + 1 /\ c.packed[N + 1] = PackedTop(x)
        /\ \A k \in 1 .. N : c.packed[k] = x.packed[k]
    BY <1>4, <2>1 DEF Grown
  <2>3. SUFFICES ASSUME NEW k \in 1 .. N + 1 PROVE KidsOK(new, c, c.packed[k])
    BY <2>2 DEF PackedFaithful
  <2>4. CASE k = N + 1
    <3>1. KidsOK(m, x, Last(x.current))
      <4>1. Len(x.current) \in 1 .. Len(x.current) /\ Last(x.current) = x.current[Len(x.current)]
        BY TopFacts
      <4> QED BY <1>11, <4>1 DEF StackFaithful
    <3>2. 0 <= x.tail
      BY <1>8
    <3>3. KidsOK(new, c, Last(x.current))
      BY <1>2, <1>4, <1>5, <1>8, <3>1, <3>2, KidsCarried
    <3>4. PackedTop(x).links = Last(x.current).links /\ PackedTop(x).kids = Last(x.current).kids
      BY TopFacts
    <3>5. KidsOK(new, c, PackedTop(x))
      BY <3>3, <3>4 DEF KidsOK
    <3> QED BY <2>2, <2>4, <3>5
  <2>5. CASE k # N + 1
    <3>1. k \in 1 .. N
      BY <2>1, <2>5
    <3>2. PICK o \in ObjectsOf(U) : o = x.packed[k] /\ o = c.packed[k]
      BY <2>1, <2>2, <3>1, ContextFacts
    <3>3. PICK e \in Nat : e = o.tail /\ 0 <= e
      BY ObjectFacts
    <3>4. LinksOK(m, x, o, e, e) /\ KidsOK(m, x, o)
      BY <1>2, <1>11, <2>1, <3>1, <3>2, <3>3 DEF Whole, PackedOK, PackedFaithful
    <3>5. KidsOK(new, c, o)
      BY <1>4, <1>5, <3>3, <3>4, KidsCarried
    <3> QED BY <3>2, <3>5
  <2> QED BY <2>4, <2>5
<1> QED BY <1>1, <1>3, <1>9, <1>10, <1>11 DEF Good

\* The object that result r of a pop of context x leads to is the one that was
\* popped.
Indexes(m, x, r) ==
  r.objidx # 0 =>
    /\ Stays(r.context, r.objidx, r.context.tail)
    /\ x.successful => Tree(r.mem, r.context.packed[r.objidx]) = Tree(m, Top(x))

\* What pop_pack leaves of a context that lost nothing, and what its index is of.
LEMMA PopPackGood ==
  ASSUME NEW U, NEW n \in Nat, NEW m, BlockType(m, n),
         NEW x \in ContextsOf(U), x.current # <<>>, Sound(m, n, x),
         NEW f \in Seq(FramesOf(U)), Matched(n, x, f, x.head), Good(m, n, x, f),
         NEW r \in PopPack(m, x), r.context.bad = {}
  PROVE  r.asserts /\ Good(r.mem, n, r.context, Front(f)) /\ Indexes(m, x, r)
<1>0. /\ Descending(n, x) /\ Ascending(n, x) /\ Shared(m, x) /\ Target(x) \in Nat
      /\ x.head \in Nat /\ x.tail \in Nat
  BY PopPlace, ContextFacts DEF Sound
<1>1. PICK o \in ObjectsOf(U) : o = Last(x.current) /\ o.head \in Nat
  BY TopFacts, ObjectFacts
<1>2. LinksOK(m, x, o, x.head, x.tail)
  BY <1>1, LevelTop DEF Good, LevelOK
<1>3. x.bad = {}
  BY PopPackSound
<1>4. CASE PopsEmpty(m, x, r)
  <2>1. r.asserts
    <3>1. Len(o.links) = 0
      <4>1. SUFFICES ASSUME 1 \in 1 .. Len(o.links) PROVE FALSE
        BY ObjectFacts
      <4>2. PICK h \in Nat, b \in Nat, hd \in Nat : h = o.head /\ b = o.links[1].position /\ hd = x.head
        BY <1>0, <1>1, <4>1, ObjectFacts
      <4>3. h + b < hd
        BY <1>2, <4>1, <4>2 DEF LinksOK
      <4>4. hd - h = 0
        BY <1>1, <1>4, <4>2 DEF PopsEmpty, Size
      <4> QED BY <4>2, <4>3, <4>4
    <3>2. o.links = <<>>
      BY <3>1, ObjectFacts, EmptySeq
    <3> QED BY <1>1, <1>4, <3>2 DEF PopsEmpty
  <2> QED BY <1>4, <2>1, PoppedGood DEF PopsEmpty, Indexes
<1>5. CASE FindsEqual(m, x, r)
  <2>1. PICK e \in x.map : Equal(m, e.object, Top(x)) /\ r.objidx = e.objidx
    BY <1>5 DEF FindsEqual
  <2>2. PICK k \in 1 .. Len(x.packed) : e = [object |-> x.packed[k], objidx |-> k]
    <3>1. DOMAIN x.packed = 1 .. Len(x.packed)
      BY ContextFacts
    <3> QED BY <1>0, <1>3, <3>1 DEF Shared
  <2>3. PICK q \in ObjectsOf(U) : q = x.packed[k] /\ e.object = q /\ r.objidx = k
    BY <2>1, <2>2, ContextFacts
  <2>4. /\ r.mem = m /\ r.context.packed = x.packed /\ r.context.tail = x.tail
    BY <1>5, PoppedFacts DEF FindsEqual
  <2>5. Stays(r.context, k, r.context.tail)
    BY <1>0, <2>2, <2>4 DEF Descending, Stays
  <2>6. ASSUME x.successful PROVE Tree(m, q) = Tree(m, Top(x))
    <3>1. KidsOK(m, x, q)
      BY <2>2, <2>3, <2>6 DEF Good, PackedFaithful
    <3>2. KidsOK(m, x, o)
      <4>1. Len(x.current) \in 1 .. Len(x.current) /\ o = x.current[Len(x.current)]
        BY <1>1, TopFacts
      <4> QED BY <2>6, <4>1 DEF Good, StackFaithful
    <3>3. Bytes(m, q) = Bytes(m, Top(x)) /\ q.links = o.links
      BY <1>1, <2>1, <2>3, TopFacts DEF Equal
    <3>4. q.kids = o.kids
      BY <3>1, <3>2, <3>3 DEF KidsOK
    <3> QED BY <1>1, <3>3, <3>4, TopFacts DEF Tree
  <2>7. Good(r.mem, n, r.context, Front(f)) /\ r.asserts
    BY <1>5, PoppedGood DEF FindsEqual
  <2> QED BY <2>3, <2>4, <2>5, <2>6, <2>7 DEF Indexes
<1>6. CASE Packs(m, x, r)
  <2>1. r.objidx = Len(x.packed) + 1 /\ r.context = Mapped(x)
    <3>1. CASE r.context = Without(MovedOff(x), "packed")
      <4>1. PICK y \in ContextsOf(U) : y = MovedOff(x)
        BY <1>0, MovedOffFacts
      <4>2. Without(y, "packed").bad = y.bad \cup {"packed"}
        BY WithoutFacts
      <4> QED BY <3>1, <4>1, <4>2
    <3>2. CASE r.context = Without(Pushed(x), "packed_map")
      <4>1. PICK y \in ContextsOf(U) : y = Pushed(x)
        BY <1>0, PushedFacts
      <4>2. Without(y, "packed_map").bad = y.bad \cup {"packed_map"}
        BY WithoutFacts
      <4> QED BY <3>2, <4>1, <4>2
    <3> QED BY <1>6, <3>1, <3>2 DEF Packs
  <2>2. r.mem = Moved(m, Top(x), Target(x)) /\ r.asserts
    BY <1>6 DEF Packs
  <2>3. Good(r.mem, n, r.context, Front(f))
    BY <2>1, <2>2, MappedGood
  <2>4. PICK N \in Nat : N = Len(x.packed)
    BY ContextFacts
  <2>5. Len(r.context.packed) = N + 1 /\ r.context.packed[N + 1] = PackedTop(x)
    BY <1>0, <2>1, <2>4, MappedGrows DEF Grown
  <2>6. PackedTop(x).head = r.context.tail /\ r.context.tail \in Nat
    BY <1>0, <2>1, TopFacts, MappedFacts
  <2>7. Stays(r.context, N + 1, r.context.tail)
    BY <2>4, <2>5, <2>6 DEF Stays
  <2>8. Tree(r.mem, PackedTop(x)) = Tree(m, Top(x))
    <3>1. Bytes(r.mem, PackedTop(x)) = Bytes(m, Top(x))
      BY <1>0, <2>2, PopMemory
    <3>2. PackedTop(x).kids = Top(x).kids
      BY TopFacts
    <3> QED BY <3>1, <3>2 DEF Tree
  <2> QED BY <2>1, <2>2, <2>3, <2>4, <2>5, <2>7, <2>8 DEF Indexes
<1> QED BY <1>4, <1>5, <1>6, PopPackIs

\* A result is what it was made of.
LEMMA PopPackResult ==
  ASSUME NEW m, NEW x, NEW r \in PopPack(m, x)
  PROVE  r = Result(r.mem, r.context, r.objidx, r.asserts) /\ r.asserts \in BOOLEAN
<1> DEFINE o == [Last(x.current) EXCEPT !.tail = x.head]
           size == o.tail - o.head
           popped == [x EXCEPT !.current = Front(@), !.head = o.head]
           equal == {e \in x.map : Equal(m, e.object, o)}
           to == x.tail - size
           p == [o EXCEPT !.head = to, !.tail = to + size]
           moved == [popped EXCEPT !.tail = to]
           pushed == [moved EXCEPT !.packed = Append(@, p)]
           idx == Len(pushed.packed)
           mapped == [pushed EXCEPT !.map = @ \cup {[object |-> p, objidx |-> idx]}]
           new == Moved(m, o, to)
<1>1. PopPack(m, x) =
        IF x.current = <<>> THEN {Result(m, x, 0, TRUE)}
        ELSE IF size = 0 THEN {Result(m, popped, 0, o.links = <<>>)}
        ELSE IF equal # {} THEN {Result(m, popped, e.objidx, TRUE) : e \in equal}
        ELSE IF "packed" \in x.bad THEN {Result(new, moved, 0, TRUE)}
        ELSE {Result(new, Without(moved, "packed"), 0, TRUE),
              Result(new, Without(pushed, "packed_map"), idx, TRUE)}
             \cup (IF "packed_map" \in x.bad THEN {} ELSE {Result(new, mapped, idx, TRUE)})
  BY Zenon DEF PopPack, Without
<1> HIDE DEF o, size, popped, equal, to, p, moved, pushed, idx, mapped, new
<1>2. \/ r = Result(m, x, 0, TRUE)
      \/ r = Result(m, popped, 0, o.links = <<>>)
      \/ \E e \in equal : r = Result(m, popped, e.objidx, TRUE)
      \/ r = Result(new, moved, 0, TRUE)
      \/ r = Result(new, Without(moved, "packed"), 0, TRUE)
      \/ r = Result(new, Without(pushed, "packed_map"), idx, TRUE)
      \/ r = Result(new, mapped, idx, TRUE)
  BY <1>1
<1>3. r = Result(r.mem, r.context, r.objidx, r.asserts)
  BY <1>2 DEF Result
<1>4. PICK ok \in BOOLEAN : ok = (o.links = <<>>)
  OBVIOUS
<1>5. \E m2, y, i : r = Result(m2, y, i, TRUE) \/ r = Result(m2, y, i, ok)
  BY <1>2, <1>4
<1>6. PICK m2, y, i : r = Result(m2, y, i, TRUE) \/ r = Result(m2, y, i, ok)
  BY <1>5
<1>7. r.asserts = TRUE \/ r.asserts = ok
  BY <1>6 DEF Result
<1> QED BY <1>3, <1>4, <1>7

-----------------------------------------------------------------------------
(* Another object, or frame, on top of the stack.                           *)

\* The object on top is replaced by o, which lies where it did.
ReplacesTop(x, c, o) ==
  /\ c.head = x.head /\ c.tail = x.tail /\ c.packed = x.packed /\ c.map = x.map
  /\ c.bad = x.bad /\ c.successful = x.successful
  /\ c.lost = 0 => x.lost = 0 /\ ~o.cut
  /\ c.current = SetLast(x.current, o)
  /\ o.head = Last(x.current).head /\ o.tail = Last(x.current).tail

LEMMA ReplacesSelf ==
  ASSUME NEW U, NEW x \in ContextsOf(U), x.current # <<>>, NEW n, Ascending(n, x)
  PROVE  ReplacesTop(x, x, Last(x.current))
<1>1. PICK s \in Seq(ObjectsOf(U)) : s = x.current /\ s # <<>>
  BY ContextFacts
<1>2. SetLast(s, Last(s)) = s
  <2>1. [s EXCEPT ![Len(s)] = s[Len(s)]] = s
    OBVIOUS
  <2> QED BY <2>1 DEF SetLast, Last
<1>3. x.lost = 0 => ~Last(x.current).cut
  <2>1. PICK L \in Nat \ {0} : L = Len(x.current) /\ Last(x.current) = x.current[L] /\ L \in 1 .. L
    BY TopFacts
  <2> QED BY <2>1 DEF Ascending
<1> QED BY <1>1, <1>2, <1>3 DEF ReplacesTop

\* The stack below.
LEMMA ReplacedBelow ==
  ASSUME NEW U, NEW x \in ContextsOf(U), x.current # <<>>, NEW o, o \in ObjectsOf(U),
         NEW c, ReplacesTop(x, c, o), NEW L, L = Len(x.current)
  PROVE  /\ L \in Nat \ {0} /\ Len(c.current) = L /\ c.current[L] = o
         /\ \A d \in 1 .. L - 1 : c.current[d] = x.current[d]
         /\ \A d \in 1 .. L : /\ c.current[d].head = x.current[d].head
                              /\ c.current[d].tail = x.current[d].tail
<1>1. L \in Nat \ {0} /\ Last(x.current) = x.current[L]
  BY TopFacts
<1>2. Len(c.current) = L /\ c.current[L] = o /\ \A d \in 1 .. L - 1 : c.current[d] = x.current[d]
  <2>1. PICK s \in Seq(ObjectsOf(U)) : s = x.current /\ s # <<>>
    BY ContextFacts
  <2>2. /\ Len(SetLast(s, o)) = Len(s) /\ SetLast(s, o)[Len(s)] = o
        /\ \A d \in 1 .. Len(s) - 1 : SetLast(s, o)[d] = s[d]
    <3>1. s \in Seq(ObjectsOf(U)) /\ s # <<>>
      BY <2>1
    <3>2. SetLast(s, o) \in Seq(ObjectsOf(U))
      BY <3>1, SetLastFacts
    <3> QED BY <3>1, <3>2, SetLastFacts
  <2> QED BY <2>1, <2>2 DEF ReplacesTop
<1>3. \A d \in 1 .. L : d = L \/ d \in 1 .. L - 1
  BY <1>1
<1> QED BY <1>1, <1>2, <1>3 DEF ReplacesTop

AboveSame(x, c) ==
  \A d \in 0 .. Len(x.current) :
    /\ \A hd : HeadAbove(c, d, hd) = HeadAbove(x, d, hd)
    /\ \A tl : TailAbove(c, d, tl) = TailAbove(x, d, tl)

LEMMA ReplacedAbove ==
  ASSUME NEW U, NEW x \in ContextsOf(U), x.current # <<>>, NEW o, o \in ObjectsOf(U),
         NEW c, ReplacesTop(x, c, o)
  PROVE  AboveSame(x, c)
<1>1. PICK L \in Nat \ {0} : L = Len(x.current)
  BY TopFacts
<1>2. /\ Len(c.current) = L
      /\ \A e \in 1 .. L : /\ c.current[e].head = x.current[e].head
                           /\ c.current[e].tail = x.current[e].tail
  BY <1>1, ReplacedBelow
<1>3. \A d \in 0 .. L : d < L => d + 1 \in 1 .. L
  BY <1>1
<1> QED BY <1>1, <1>2, <1>3 DEF HeadAbove, TailAbove, AboveSame

LEMMA ReplacedSound ==
  ASSUME NEW U, NEW n, NEW m, NEW x \in ContextsOf(U), x.current # <<>>, NEW o, o \in ObjectsOf(U),
         NEW c, ReplacesTop(x, c, o), Sound(m, n, x)
  PROVE  Sound(m, n, c)
<1>1. PICK L \in Nat \ {0} : L = Len(x.current)
  BY TopFacts
<1>2. /\ Len(c.current) = L
      /\ \A e \in 1 .. L : /\ c.current[e].head = x.current[e].head
                           /\ c.current[e].tail = x.current[e].tail
  BY <1>1, ReplacedBelow
<1>3. Descending(n, c)
  BY DEF Sound, Descending, ReplacesTop
<1>4. Shared(m, c)
  BY DEF Sound, Shared, ReplacesTop
<1>5. Ascending(n, c)
  <2>1. \A d \in 1 .. L : \A e \in 1 .. d : e \in 1 .. L
    BY <1>1
  <2>2. c.head = x.head
    BY DEF ReplacesTop
  <2>3. ASSUME NEW d \in 1 .. L, c.lost = 0 PROVE ~c.current[d].cut
    <3>1. x.lost = 0 /\ ~o.cut
      BY <2>3 DEF ReplacesTop
    <3>2. c.current[L] = o /\ \A e \in 1 .. L - 1 : c.current[e] = x.current[e]
      BY <1>1, ReplacedBelow
    <3>3. d = L \/ d \in 1 .. L - 1
      BY <1>1
    <3> QED BY <1>1, <3>1, <3>2, <3>3 DEF Sound, Ascending
  <2> QED BY <1>1, <1>2, <2>1, <2>2, <2>3 DEF Sound, Ascending
<1> QED BY <1>3, <1>4, <1>5 DEF Sound

LEMMA ReplacedMatched ==
  ASSUME NEW U, NEW n, NEW x \in ContextsOf(U), x.current # <<>>, NEW o, o \in ObjectsOf(U),
         NEW c, ReplacesTop(x, c, o),
         NEW f \in Seq(FramesOf(U)), NEW hd, Matched(n, x, f, hd),
         NEW V, NEW g, g \in FramesOf(V), NEW e, Len(e) = Len(x.current), e[Len(x.current)] = g,
         \A d \in 1 .. Len(x.current) - 1 : e[d] = f[d],
         g.at = f[Len(x.current)].at,
         NEW hd2,
         \A d \in 1 .. Len(x.current) - 1 : HeadAbove(x, d, hd2) = HeadAbove(x, d, hd),
         g.snap # NoSnapshot =>
           /\ Last(x.current).head <= g.snap.head /\ g.snap.head <= hd2
           /\ g.snap.tail \in 0 .. n
  PROVE  Matched(n, c, e, hd2)
<1>1. PICK L \in Nat \ {0} : L = Len(x.current) /\ Last(x.current) = x.current[L]
  BY TopFacts
<1>2. /\ Len(c.current) = L
      /\ \A d \in 1 .. L : c.current[d].head = x.current[d].head
  BY <1>1, ReplacedBelow
<1>3. \A d \in 1 .. L : HeadAbove(c, d, hd2) = HeadAbove(x, d, hd2)
  <2>1. AboveSame(x, c)
    BY ReplacedAbove
  <2>2. \A d \in 1 .. L : d \in 0 .. L
    BY <1>1
  <2> QED BY <1>1, <2>1, <2>2 DEF AboveSame
<1>4. \A d \in 1 .. L :
       /\ f[d].at = x.current[d].head
       /\ f[d].snap # NoSnapshot =>
            /\ x.current[d].head <= f[d].snap.head /\ f[d].snap.head <= HeadAbove(x, d, hd)
            /\ f[d].snap.tail \in 0 .. n
  BY <1>1 DEF Matched
<1>5. ASSUME NEW d \in 1 .. L
      PROVE  /\ e[d].at = c.current[d].head
             /\ e[d].snap # NoSnapshot =>
                  /\ c.current[d].head <= e[d].snap.head /\ e[d].snap.head <= HeadAbove(c, d, hd2)
                  /\ e[d].snap.tail \in 0 .. n
  <2>1. CASE d = L
    <3>1. HeadAbove(x, L, hd2) = hd2 /\ L \in 1 .. L
      BY <1>1 DEF HeadAbove
    <3> QED BY <1>1, <1>2, <1>3, <1>4, <2>1, <3>1
  <2>2. CASE d # L
    <3>1. d \in 1 .. L - 1
      BY <1>1, <2>2
    <3> QED BY <1>1, <1>2, <1>3, <1>4, <3>1
  <2> QED BY <2>1, <2>2
<1> QED BY <1>1, <1>2, <1>5 DEF Matched

LEMMA ReplacedLevels ==
  ASSUME NEW U, NEW n, NEW m, NEW x \in ContextsOf(U), x.current # <<>>, NEW o, o \in ObjectsOf(U),
         NEW c, ReplacesTop(x, c, o),
         NEW f, NEW hd, NEW tl, LevelsOK(m, n, x, f, hd, tl),
         NEW hd2, NEW tl2,
         \A d \in 0 .. Len(x.current) - 1 : HeadAbove(x, d, hd2) = HeadAbove(x, d, hd),
         \A d \in 1 .. Len(x.current) - 1 : TailAbove(x, d, tl2) = TailAbove(x, d, tl),
         NEW g, NEW e, e[Len(x.current)] = g, \A d \in 1 .. Len(x.current) - 1 : e[d] = f[d],
         LevelOK(m, n, x, o, g, hd2, tl2)
  PROVE  LevelsOK(m, n, c, e, hd2, tl2)
<1>1. PICK L \in Nat \ {0} : L = Len(x.current) /\ Last(x.current) = x.current[L]
  BY TopFacts
<1>2. /\ Len(c.current) = L /\ c.current[L] = o /\ \A d \in 1 .. L - 1 : c.current[d] = x.current[d]
      /\ \A d \in 1 .. L : c.current[d].tail = x.current[d].tail
  BY <1>1, ReplacedBelow
<1>3. \A d \in 0 .. L : /\ HeadAbove(c, d, hd2) = HeadAbove(x, d, hd2)
                        /\ TailAbove(c, d, tl2) = TailAbove(x, d, tl2)
  <2>1. AboveSame(x, c)
    BY ReplacedAbove
  <2> QED BY <1>1, <2>1 DEF AboveSame
<1>4. ASSUME NEW ob, NEW fr, NEW h, NEW t, LevelOK(m, n, x, ob, fr, h, t)
      PROVE  LevelOK(m, n, c, ob, fr, h, t)
  <2>1. c.packed = x.packed
    BY DEF ReplacesTop
  <2>2. LinksOK(m, c, ob, h, t) <=> LinksOK(m, x, ob, h, t)
    BY <2>1 DEF LinksOK, Stays
  <2>3. LinksOK(m, c, ob, fr.snap.head, fr.snap.tail) <=> LinksOK(m, x, ob, fr.snap.head, fr.snap.tail)
    BY <2>1 DEF LinksOK, Stays
  <2>4. KeepsOK(c, fr, t) <=> KeepsOK(x, fr, t)
    BY <2>1 DEF KeepsOK, Stays
  <2>5. KeepsOK(c, fr, fr.snap.tail) <=> KeepsOK(x, fr, fr.snap.tail)
    BY <2>1 DEF KeepsOK, Stays
  <2>6. /\ Boundary(n, c, ob.tail) <=> Boundary(n, x, ob.tail)
        /\ Boundary(n, c, fr.snap.tail) <=> Boundary(n, x, fr.snap.tail)
    BY <2>1 DEF Boundary, Floor
  <2> QED BY <1>4, <2>2, <2>3, <2>4, <2>5, <2>6 DEF LevelOK
<1>5. HeadAbove(c, 0, hd2) = 0
  <2>1. 0 \in 0 .. L - 1 /\ 0 \in 0 .. L
    BY <1>1
  <2> QED BY <1>1, <1>3, <2>1 DEF LevelsOK
<1>6. ASSUME NEW d \in 1 .. L
      PROVE  LevelOK(m, n, c, c.current[d], e[d], HeadAbove(c, d, hd2), TailAbove(c, d, tl2))
  <2>0. d \in 0 .. L
    OBVIOUS
  <2>1. CASE d = L
    <3>1. HeadAbove(x, L, hd2) = hd2 /\ TailAbove(x, L, tl2) = tl2
      BY <1>1 DEF HeadAbove, TailAbove
    <3> QED BY <1>1, <1>2, <1>3, <1>4, <2>0, <2>1, <3>1
  <2>2. CASE d # L
    <3>1. d \in 1 .. L - 1 /\ d \in 0 .. L - 1
      BY <1>1, <2>2
    <3>2. LevelOK(m, n, x, x.current[d], f[d], HeadAbove(x, d, hd), TailAbove(x, d, tl))
      BY <1>1 DEF LevelsOK
    <3>3. LevelOK(m, n, c, x.current[d], f[d], HeadAbove(x, d, hd), TailAbove(x, d, tl))
      BY <1>4, <3>2
    <3> QED BY <1>1, <1>2, <1>3, <2>0, <3>1, <3>3
  <2> QED BY <2>1, <2>2
<1>7. \A d \in 1 .. L : \A b \in 1 .. d : c.current[d].tail <= c.current[b].tail
  <2>1. \A d \in 1 .. L : \A b \in 1 .. d : b \in 1 .. L /\ x.current[d].tail <= x.current[b].tail
    BY <1>1 DEF LevelsOK
  <2> QED BY <1>2, <2>1
<1> QED BY <1>2, <1>5, <1>6, <1>7 DEF LevelsOK

LEMMA ReplacedFaithful ==
  ASSUME NEW U, NEW m, NEW x \in ContextsOf(U), x.current # <<>>, NEW o, o \in ObjectsOf(U),
         NEW c, ReplacesTop(x, c, o), NEW f, StackFaithful(m, x, f),
         NEW g, NEW e, e[Len(x.current)] = g, \A d \in 1 .. Len(x.current) - 1 : e[d] = f[d],
         KidsOK(m, x, o), \A h \in g.held : h.tree = Tree(m, x.packed[h.objidx])
  PROVE  StackFaithful(m, c, e)
<1>1. PICK L \in Nat \ {0} : L = Len(x.current)
  BY TopFacts
<1>2. Len(c.current) = L /\ c.current[L] = o /\ \A d \in 1 .. L - 1 : c.current[d] = x.current[d]
  BY <1>1, ReplacedBelow
<1>3. c.packed = x.packed
  BY DEF ReplacesTop
<1>4. \A ob : KidsOK(m, c, ob) <=> KidsOK(m, x, ob)
  BY <1>3 DEF KidsOK, KidAt
<1>5. ASSUME NEW d \in 1 .. L
      PROVE  /\ KidsOK(m, x, c.current[d])
             /\ \A h \in e[d].held : h.tree = Tree(m, x.packed[h.objidx])
  <2>1. CASE d = L
    BY <1>1, <1>2, <2>1
  <2>2. CASE d # L
    <3>1. d \in 1 .. L - 1
      BY <1>1, <2>2
    <3> QED BY <1>1, <1>2, <3>1 DEF StackFaithful
  <2> QED BY <2>1, <2>2
<1> QED BY <1>2, <1>3, <1>4, <1>5 DEF StackFaithful

\* Sequence e ends in g and is f otherwise.
EndsIn(e, f, g) == /\ Len(e) = Len(f) /\ e[Len(f)] = g
                   /\ \A d \in 1 .. Len(f) - 1 : e[d] = f[d]

LEMMA FramesLast ==
  ASSUME NEW U, NEW f \in Seq(FramesOf(U)), f # <<>>, NEW g, g \in FramesOf(U)
  PROVE  SetLast(f, g) \in Seq(FramesOf(U)) /\ EndsIn(SetLast(f, g), f, g)
<1>1. /\ SetLast(f, g) \in Seq(FramesOf(U))
      /\ Len(SetLast(f, g)) = Len(f) /\ SetLast(f, g)[Len(f)] = g
      /\ \A d \in 1 .. Len(f) - 1 : SetLast(f, g)[d] = f[d]
  BY SetLastFacts
<1> QED BY <1>1 DEF EndsIn

\* A context with another object and frame on top.
LEMMA TopMatched ==
  ASSUME NEW U, NEW n \in Nat, NEW m, NEW x \in ContextsOf(U), x.current # <<>>, Sound(m, n, x),
         NEW f \in Seq(FramesOf(U)), Matched(n, x, f, x.head),
         NEW o, o \in ObjectsOf(U), NEW c, ReplacesTop(x, c, o),
         NEW g, g \in FramesOf(U), g.at = f[Len(x.current)].at,
         g.snap = NoSnapshot \/ g.snap = [head |-> x.head, tail |-> x.tail],
         NEW e, EndsIn(e, f, g)
  PROVE  Matched(n, c, e, c.head)
<1>1. PICK L \in Nat \ {0} : L = Len(x.current) /\ Last(x.current) = x.current[L]
  BY TopFacts
<1>2. Len(e) = L /\ e[L] = g /\ \A d \in 1 .. L - 1 : e[d] = f[d]
  BY <1>1 DEF Matched, EndsIn
<1>3. PICK hd \in Nat, tl \in Nat : hd = x.head /\ tl = x.tail /\ tl <= n /\ c.head = hd
  BY ContextFacts DEF Sound, Descending, ReplacesTop
<1>4. ASSUME g.snap # NoSnapshot
      PROVE  /\ Last(x.current).head <= g.snap.head /\ g.snap.head <= hd
             /\ g.snap.tail \in 0 .. n
  <2>1. g.snap.head = hd /\ g.snap.tail = tl
    BY <1>3, <1>4
  <2>2. Last(x.current).head <= hd
    <3>1. L \in 1 .. L
      BY <1>1
    <3> QED BY <1>1, <1>3, <3>1 DEF Sound, Ascending
  <2> QED BY <1>3, <2>1, <2>2
<1>5. /\ Len(e) = Len(x.current) /\ e[Len(x.current)] = g
      /\ \A d \in 1 .. Len(x.current) - 1 : e[d] = f[d]
      /\ g.at = f[Len(x.current)].at /\ Matched(n, x, f, hd)
  BY <1>1, <1>2, <1>3
<1> QED BY <1>3, <1>4, <1>5, ReplacedMatched

LEMMA TopGood ==
  ASSUME NEW U, NEW n \in Nat, NEW m, NEW x \in ContextsOf(U), x.current # <<>>, Sound(m, n, x),
         NEW f \in Seq(FramesOf(U)), Len(f) = Len(x.current), Good(m, n, x, f),
         NEW o, o \in ObjectsOf(U), NEW c, ReplacesTop(x, c, o),
         LinksOK(m, x, o, x.head, x.tail), x.successful => KidsOK(m, x, o),
         NEW g, KeepsOK(x, g, x.tail),
         x.successful => \A h \in g.held : h.tree = Tree(m, x.packed[h.objidx]),
         g.snap = NoSnapshot \/ g.snap = [head |-> x.head, tail |-> x.tail],
         NEW e, EndsIn(e, f, g)
  PROVE  Good(m, n, c, e)
<1>1. PICK L \in Nat \ {0} : L = Len(x.current) /\ Last(x.current) = x.current[L]
  BY TopFacts
<1>3. e[L] = g /\ \A d \in 1 .. L - 1 : e[d] = f[d]
  BY <1>1 DEF EndsIn
<1>4. PICK hd \in Nat, tl \in Nat, ot \in Nat :
        hd = x.head /\ tl = x.tail /\ ot = Last(x.current).tail /\ tl <= n
  <2>1. x.head \in Nat /\ x.tail \in Nat /\ Last(x.current).tail \in Nat
    BY ContextFacts, TopFacts, ObjectFacts
  <2> QED BY <2>1 DEF Sound, Descending
<1>5. LevelOK(m, n, x, Last(x.current), f[L], hd, tl) /\ LevelsOK(m, n, x, f, hd, tl)
  <2>1. LevelsOK(m, n, x, f, hd, tl)
    BY <1>4 DEF Good
  <2> QED BY <1>1, <2>1, LevelTop
<1>6. Boundary(n, x, tl)
  <2>1. Len(x.packed) \in 0 .. Len(x.packed)
    BY ContextFacts
  <2> QED BY <1>4, <2>1 DEF Good, Whole, Tight, Boundary
<1>7. ASSUME g.snap = [head |-> hd, tail |-> tl]
      PROVE  g.snap.head = hd /\ g.snap.tail = tl
  BY <1>7
<1>8. LevelOK(m, n, x, o, g, hd, tl)
  <2>1. o.tail = ot /\ tl <= ot /\ Boundary(n, x, ot)
    BY <1>4, <1>5 DEF LevelOK, ReplacesTop
  <2>2. LinksOK(m, x, o, hd, tl) /\ KeepsOK(x, g, tl) /\ tl <= tl
    BY <1>4
  <2>3. g.snap = NoSnapshot \/ (g.snap.head = hd /\ g.snap.tail = tl)
    BY <1>4, <1>7
  <2> QED BY <1>6, <2>1, <2>2, <2>3 DEF LevelOK
<1>9. LevelsOK(m, n, c, e, hd, tl)
  <2>1. e[Len(x.current)] = g /\ \A d \in 1 .. Len(x.current) - 1 : e[d] = f[d]
    BY <1>1, <1>3
  <2> QED BY <1>5, <1>8, <2>1, ReplacedLevels
<1>10. c.head = hd /\ c.tail = tl /\ c.packed = x.packed /\ c.successful = x.successful
  BY <1>4 DEF ReplacesTop
<1>11. Whole(m, n, c)
  <2>1. \A ob, h, t : LinksOK(m, x, ob, h, t) => LinksOK(m, c, ob, h, t)
    BY <1>10 DEF LinksOK, Stays
  <2>2. PackedOK(m, c)
    BY <1>10, <2>1 DEF Good, Whole, PackedOK
  <2>3. Tight(n, c)
    BY <1>4, <1>10 DEF Good, Whole, Tight, Floor
  <2> QED BY <2>2, <2>3 DEF Whole
<1>12. ASSUME x.successful PROVE PackedFaithful(m, c)
  <2>1. \A ob : KidsOK(m, c, ob) <=> KidsOK(m, x, ob)
    BY <1>10 DEF KidsOK, KidAt
  <2> QED BY <1>10, <1>12, <2>1 DEF Good, PackedFaithful
<1>13. ASSUME x.successful PROVE StackFaithful(m, c, e)
  <2>1. StackFaithful(m, x, f)
    BY <1>13 DEF Good
  <2>2. e[Len(x.current)] = g /\ \A d \in 1 .. Len(x.current) - 1 : e[d] = f[d]
    BY <1>1, <1>3
  <2> QED BY <1>13, <2>1, <2>2, ReplacedFaithful
<1> QED BY <1>9, <1>10, <1>11, <1>12, <1>13 DEF Good

-----------------------------------------------------------------------------
(* add_link.                                                                *)

LinkFor(o, a, base, i)   == [position |-> a - o.head, bias |-> base - o.head, objidx |-> i]
KidFor(o, a, base, tree) == [position |-> a - o.head, bias |-> base - o.head, tree |-> tree]
KidsWith(o, a, base, tree) == o.kids \cup {KidFor(o, a, base, tree)}
WithKid(x, a, base, tree) ==
  [Last(x.current) EXCEPT !.kids = @ \cup {KidFor(Last(x.current), a, base, tree)}]
LinkedTop(x, a, base, i, tree) ==
  [WithKid(x, a, base, tree) EXCEPT !.links = Append(@, LinkFor(Last(x.current), a, base, i))]
CutTop(x, a, base, tree) == [WithKid(x, a, base, tree) EXCEPT !.cut = TRUE]
WithTop(x, q, k) == [x EXCEPT !.current = SetLast(@, q), !.lost = @ + k]

\* Object q and k, the failures of its links, are what add_link may leave.
Links(x, a, base, i, tree, q, k) ==
  \/ q = LinkedTop(x, a, base, i, tree) /\ k = 0 /\ ~Last(x.current).cut
  \/ q = CutTop(x, a, base, tree) /\ k = IF Last(x.current).cut THEN 0 ELSE 1

\* Result y of add_link on a context x.
AddsLink(m, x, as, a, base, q, k, y) ==
  /\ y.mem = m /\ y.context = WithTop(x, q, k)
  /\ y.asserts <=> as /\ Last(x.current).head <= a /\ Last(x.current).head <= base

LEMMA AddLinkIs ==
  ASSUME NEW m, NEW U, NEW x \in ContextsOf(U), x.current # <<>>, NEW i0, NEW as,
         NEW r, r = Result(m, x, i0, as), NEW a, NEW base, NEW i, i # 0, NEW tree,
         NEW y, y \in AddLink(r, a, base, i, tree)
  PROVE  \E q, k : Links(x, a, base, i, tree, q, k) /\ AddsLink(m, x, as, a, base, q, k, y)
<1>2. r.context = x /\ r.asserts = as /\ r = [mem |-> m, context |-> x, objidx |-> i0, asserts |-> as]
  BY DEF Result
<1>3. PICK o : o = Last(x.current)
  OBVIOUS
<1>4. PICK ok : ok = (as /\ o.head <= a /\ o.head <= base)
  OBVIOUS
<1> DEFINE with(q, n) == [r EXCEPT !.asserts = @ /\ o.head <= a /\ o.head <= base,
                                   !.context.current = SetLast(@, q),
                                   !.context.lost = @ + n]
<1>5. \E q, k : Links(x, a, base, i, tree, q, k) /\ y = with(q, k)
  <2>1. PICK l, d, p : /\ l = LinkFor(o, a, base, i) /\ d = KidFor(o, a, base, tree)
                       /\ p = WithKid(x, a, base, tree)
    OBVIOUS
  <2>2. p = [o EXCEPT !.kids = @ \cup {d}]
    BY <1>3, <2>1 DEF WithKid
  <2>3. y \in {with([p EXCEPT !.cut = TRUE], IF o.cut THEN 0 ELSE 1)}
                \cup (IF o.cut THEN {} ELSE {with([p EXCEPT !.links = Append(@, l)], 0)})
    BY <1>2, <1>3, <2>1, <2>2, Zenon DEF AddLink, LinkFor, KidFor
  <2>4. CASE y = with([p EXCEPT !.cut = TRUE], IF o.cut THEN 0 ELSE 1)
    <3>1. PICK q, k : q = [p EXCEPT !.cut = TRUE] /\ k = IF o.cut THEN 0 ELSE 1
      OBVIOUS
    <3>2. Links(x, a, base, i, tree, q, k)
      BY <1>3, <2>1, <3>1 DEF Links, CutTop
    <3> QED BY <2>4, <3>1, <3>2
  <2>5. CASE ~o.cut /\ y = with([p EXCEPT !.links = Append(@, l)], 0)
    <3>1. PICK q : q = [p EXCEPT !.links = Append(@, l)]
      OBVIOUS
    <3>2. Links(x, a, base, i, tree, q, 0)
      BY <1>3, <2>1, <2>5, <3>1 DEF Links, LinkedTop
    <3> QED BY <2>5, <3>1, <3>2
  <2> QED BY <2>3, <2>4, <2>5, Zenon
<1>6. PICK q, k : Links(x, a, base, i, tree, q, k) /\ y = with(q, k)
  BY <1>5
<1>7. PICK s, n : s = SetLast(x.current, q) /\ n = x.lost + k
  OBVIOUS
<1>8. PICK c : c = [x EXCEPT !.current = s, !.lost = n]
  OBVIOUS
<1>9. c = WithTop(x, q, k)
  BY <1>7, <1>8 DEF WithTop
<1>10. y = [r EXCEPT !.asserts = (as /\ o.head <= a /\ o.head <= base),
                     !.context.current = s, !.context.lost = n]
  BY <1>2, <1>6, <1>7, Zenon
<1>11. y = [mem |-> m, context |-> c, objidx |-> i0, asserts |-> ok]
  <2>1. PICK r1 : r1 = [r EXCEPT !.asserts = ok]
    OBVIOUS
  <2>2. r1 = [mem |-> m, context |-> x, objidx |-> i0, asserts |-> ok]
    BY <1>2, <2>1
  <2>3. PICK r2 : r2 = [r1 EXCEPT !.context.current = s]
    OBVIOUS
  <2>4. r2 = [mem |-> m, context |-> [x EXCEPT !.current = s], objidx |-> i0, asserts |-> ok]
    BY <2>2, <2>3
  <2>5. PICK r3 : r3 = [r2 EXCEPT !.context.lost = n]
    OBVIOUS
  <2>6. r3 = [mem |-> m, context |-> [[x EXCEPT !.current = s] EXCEPT !.lost = n],
              objidx |-> i0, asserts |-> ok]
    BY <2>4, <2>5
  <2>7. [[x EXCEPT !.current = s] EXCEPT !.lost = n] = c
    BY <1>8
  <2>8. y = r3
    BY <1>4, <1>10, <2>1, <2>3, <2>5
  <2> QED BY <2>6, <2>7, <2>8
<1>12. y.mem = m /\ y.context = c /\ y.asserts = ok
  BY <1>11
<1>13. y.asserts <=> as /\ o.head <= a /\ o.head <= base
  BY <1>4, <1>12
<1>14. AddsLink(m, x, as, a, base, q, k, y)
  BY <1>3, <1>9, <1>12, <1>13 DEF AddsLink
<1> QED BY <1>6, <1>14

\* Trees of more kinds.
LEMMA Widen ==
  ASSUME NEW U, NEW V, U \subseteq V
  PROVE  /\ ObjectsOf(U) \subseteq ObjectsOf(V) /\ ContextsOf(U) \subseteq ContextsOf(V)
         /\ FramesOf(U) \subseteq FramesOf(V) /\ Seq(FramesOf(U)) \subseteq Seq(FramesOf(V))
<1>1. ObjectsOf(U) \subseteq ObjectsOf(V)
  BY DEF ObjectsOf
<1>2. HeldOf(U) \subseteq HeldOf(V)
  BY DEF HeldOf
<1>3. FramesOf(U) \subseteq FramesOf(V)
  BY <1>2 DEF FramesOf
<1>4. EntriesOf(U) \subseteq EntriesOf(V)
  BY <1>1 DEF EntriesOf
<1>5. Seq(ObjectsOf(U)) \subseteq Seq(ObjectsOf(V))
  BY <1>1
<1>6. SUBSET EntriesOf(U) \subseteq SUBSET EntriesOf(V)
  BY <1>4
<1>7. ContextsOf(U) \subseteq ContextsOf(V)
  BY <1>5, <1>6 DEF ContextsOf
<1>8. Seq(FramesOf(U)) \subseteq Seq(FramesOf(V))
  BY <1>3
<1> QED BY <1>1, <1>3, <1>7, <1>8

\* Object o2 is o with a link.
Extends(o, o2, a, base, i, tree) ==
  /\ o2.head = o.head /\ o2.tail = o.tail /\ o2.cut = o.cut
  /\ o2.links = Append(o.links, LinkFor(o, a, base, i)) /\ LinkFor(o, a, base, i) \in Link
  /\ o2.kids = KidsWith(o, a, base, tree)

LEMMA WithKidFacts ==
  ASSUME NEW U, NEW x \in ContextsOf(U), x.current # <<>>, NEW a, NEW base, NEW tree,
         NEW V, U \subseteq V, NEW o, o = Last(x.current), KidsWith(o, a, base, tree) \in V,
         NEW p, p = WithKid(x, a, base, tree)
  PROVE  /\ p \in ObjectsOf(V) /\ p.head = o.head /\ p.tail = o.tail
         /\ p.links = o.links /\ p.cut = o.cut /\ p.kids = KidsWith(o, a, base, tree)
<1>1. o \in ObjectsOf(V)
  BY TopFacts, Widen
<1>2. PICK k \in V : k = KidsWith(o, a, base, tree)
  OBVIOUS
<1>3. p = [o EXCEPT !.kids = k]
  BY <1>2 DEF WithKid, KidsWith
<1> QED BY <1>1, <1>2, <1>3 DEF ObjectsOf

LEMMA LinkedTopFacts ==
  ASSUME NEW U, NEW x \in ContextsOf(U), x.current # <<>>,
         NEW a \in Nat, NEW base \in Nat, NEW i \in Nat, NEW tree,
         Last(x.current).head <= a, Last(x.current).head <= base,
         NEW V, U \subseteq V,
         NEW o, o = Last(x.current),
         KidsWith(o, a, base, tree) \in V,
         NEW o2, o2 = LinkedTop(x, a, base, i, tree)
  PROVE  o2 \in ObjectsOf(V) /\ Extends(o, o2, a, base, i, tree)
<1>1. o \in ObjectsOf(U)
  BY TopFacts
<1>2. o.head \in Nat /\ o.links \in Seq(Link)
  BY <1>1, ObjectFacts
<1>3. PICK l : l = LinkFor(o, a, base, i)
  OBVIOUS
<1>4. l \in Link
  <2>1. a - o.head \in Nat /\ base - o.head \in Nat
    BY <1>2
  <2> QED BY <1>3, <2>1 DEF Link, LinkFor
<1>5. PICK s : s = Append(o.links, l)
  OBVIOUS
<1>6. s \in Seq(Link)
  BY <1>2, <1>4, <1>5
<1>7. PICK p : p = WithKid(x, a, base, tree)
  OBVIOUS
<1>8. /\ p \in ObjectsOf(V) /\ p.head = o.head /\ p.tail = o.tail
      /\ p.links = o.links /\ p.cut = o.cut /\ p.kids = KidsWith(o, a, base, tree)
  BY <1>7, WithKidFacts
<1>9. o2 = [p EXCEPT !.links = s]
  BY <1>3, <1>5, <1>7, <1>8 DEF LinkedTop
<1>10. /\ o2 \in ObjectsOf(V) /\ o2.head = p.head /\ o2.tail = p.tail /\ o2.cut = p.cut
       /\ o2.links = s /\ o2.kids = p.kids
  BY <1>6, <1>8, <1>9 DEF ObjectsOf
<1> QED BY <1>3, <1>4, <1>5, <1>8, <1>10 DEF Extends

LEMMA WithTopFacts ==
  ASSUME NEW U, NEW x \in ContextsOf(U), x.current # <<>>, NEW V, U \subseteq V,
         NEW o2, o2 \in ObjectsOf(V),
         o2.head = Last(x.current).head, o2.tail = Last(x.current).tail,
         NEW k \in Nat, x.lost + k = 0 => ~o2.cut,
         NEW c, c = WithTop(x, o2, k)
  PROVE  /\ c \in ContextsOf(V) /\ ReplacesTop(x, c, o2)
         /\ c.bad = x.bad /\ c.lost = x.lost + k
<1>1. x \in ContextsOf(V) /\ x.lost \in Nat
  BY Widen, ContextFacts
<1>2. PICK s \in Seq(ObjectsOf(V)) : s = x.current /\ s # <<>>
  BY <1>1, ContextFacts
<1>3. SetLast(s, o2) \in Seq(ObjectsOf(V))
  BY <1>2, SetLastFacts
<1>4. PICK s2 \in Seq(ObjectsOf(V)) : s2 = SetLast(x.current, o2)
  BY <1>2, <1>3
<1>5. PICK l \in Nat : l = x.lost + k
  BY <1>1
<1>6. c = [x EXCEPT !.current = s2, !.lost = l]
  BY <1>4, <1>5 DEF WithTop
<1>7. /\ c \in ContextsOf(V)
      /\ c.head = x.head /\ c.tail = x.tail /\ c.packed = x.packed /\ c.map = x.map
      /\ c.bad = x.bad /\ c.lost = l /\ c.successful = x.successful
      /\ c.current = s2
  BY <1>1, <1>6 DEF ContextsOf
<1>8. l = 0 => x.lost = 0
  BY <1>1, <1>5
<1> QED BY <1>4, <1>5, <1>7, <1>8 DEF ReplacesTop

\* A link from a field that has none yet.
LEMMA LinkedLinks ==
  ASSUME NEW U, NEW m, NEW x \in ContextsOf(U), NEW o \in ObjectsOf(U), NEW o2, NEW top \in Nat, NEW tl,
         LinksOK(m, x, o, top, tl), o2.head = o.head,
         NEW a \in Nat, NEW base \in Nat, NEW i,
         o2.links = Append(o.links, LinkFor(o, a, base, i)), LinkFor(o, a, base, i) \in Link,
         a < top, m[a] = 0, o.head <= a, o.head <= base, base <= a,
         \A j \in 1 .. Len(o.links) : o.head + o.links[j].position # a,
         Stays(x, i, tl)
  PROVE  LinksOK(m, x, o2, top, tl)
<1>1. PICK h \in Nat, K \in Nat : h = o.head /\ K = Len(o.links)
  BY ObjectFacts
<1>2. PICK l \in Link : l = LinkFor(o, a, base, i)
  OBVIOUS
<1>3. l.position = a - h /\ l.bias = base - h /\ l.objidx = i /\ h + l.position = a /\ l.bias <= l.position
  <2>1. l.position = a - h /\ l.bias = base - h /\ l.objidx = i
    BY <1>1, <1>2 DEF LinkFor
  <2>2. h <= a /\ base <= a
    BY <1>1
  <2> QED BY <2>1, <2>2
<1>4. /\ Len(o2.links) = K + 1 /\ o2.links[K + 1] = l
      /\ \A j \in 1 .. K : o2.links[j] = o.links[j]
  BY <1>1, <1>2, ObjectFacts, AppendProperties
<1>5. ASSUME NEW j \in 1 .. K + 1
      PROVE  /\ o2.links[j].bias <= o2.links[j].position
             /\ h + o2.links[j].position < top
             /\ m[h + o2.links[j].position] = 0
             /\ Stays(x, o2.links[j].objidx, tl)
             /\ \A b \in 1 .. j - 1 : o2.links[b].position # o2.links[j].position
  <2>1. CASE j = K + 1
    <3>1. ASSUME NEW b \in 1 .. K PROVE o2.links[b].position # l.position
      <4>1. o2.links[b] = o.links[b] /\ h + o.links[b].position # a
        BY <1>1, <1>4
      <4> QED BY <1>3, <4>1
    <3>2. o2.links[j] = l /\ j - 1 = K
      BY <1>4, <2>1
    <3> QED BY <1>3, <3>1, <3>2
  <2>2. CASE j # K + 1
    <3>1. j \in 1 .. K /\ \A b \in 1 .. j - 1 : b \in 1 .. K
      BY <1>1, <2>2
    <3> QED BY <1>1, <1>4, <3>1 DEF LinksOK
  <2> QED BY <2>1, <2>2
<1> QED BY <1>1, <1>4, <1>5 DEF LinksOK

LEMMA LinkedKids ==
  ASSUME NEW U, NEW m, NEW x, NEW o \in ObjectsOf(U), NEW o2, KidsOK(m, x, o),
         NEW a, NEW base, NEW i, NEW tree,
         o2.links = Append(o.links, LinkFor(o, a, base, i)), LinkFor(o, a, base, i) \in Link,
         o2.kids = o.kids \cup {KidFor(o, a, base, tree)},
         tree = Tree(m, x.packed[i])
  PROVE  KidsOK(m, x, o2)
<1>1. PICK K \in Nat, l \in Link : K = Len(o.links) /\ l = LinkFor(o, a, base, i)
  BY ObjectFacts
<1>2. /\ Len(o2.links) = K + 1 /\ o2.links[K + 1] = l
      /\ \A j \in 1 .. K : o2.links[j] = o.links[j]
  BY <1>1, ObjectFacts, AppendProperties
<1>3. KidAt(m, x, l) = KidFor(o, a, base, tree)
  BY <1>1 DEF KidAt, KidFor, LinkFor
<1>4. o2.kids = {KidAt(m, x, o.links[j]) : j \in 1 .. K} \cup {KidAt(m, x, l)}
  BY <1>1, <1>3 DEF KidsOK
<1>5. 1 .. K + 1 = 1 .. K \cup {K + 1}
  BY <1>1
<1>6. {KidAt(m, x, o2.links[j]) : j \in 1 .. K + 1} =
        {KidAt(m, x, o.links[j]) : j \in 1 .. K} \cup {KidAt(m, x, l)}
  BY <1>2, <1>5
<1> QED BY <1>2, <1>4, <1>6 DEF KidsOK

-----------------------------------------------------------------------------
(* Steps of the client, whatever has failed before.                         *)

LEMMA BadFacts ==
  ASSUME NEW b, NEW c, c \subseteq {"packed", "packed_map"}, b \subseteq c
  PROVE  /\ Cardinality(b) \in Nat /\ Cardinality(c) \in Nat /\ Cardinality(b) <= Cardinality(c)
         /\ Cardinality(c) = 0 <=> c = {}
<1>1. IsFiniteSet({"packed", "packed_map"})
  <2>1. {"packed", "packed_map"} = {"packed"} \cup {"packed_map"}
    OBVIOUS
  <2>2. IsFiniteSet({"packed"}) /\ IsFiniteSet({"packed_map"})
    BY FS_Singleton
  <2>3. IsFiniteSet({"packed"} \cup {"packed_map"})
    BY <2>2, FS_Union
  <2> QED BY <2>1, <2>3
<1>2. IsFiniteSet(c)
  BY <1>1, FS_Subset
<1>3. IsFiniteSet(b) /\ Cardinality(b) <= Cardinality(c)
  BY <1>2, FS_Subset
<1> QED BY <1>2, <1>3, FS_CardinalityType, FS_EmptySet

\* A call with frames f finishes its object: result r, fl2 failed allocations.
PopOutcome(U, n, m, x, f, r, fl2) ==
  /\ fl2 \in Nat /\ Typed(U, r.mem, n, r.context, Front(f))
  /\ r.objidx \in Nat /\ r.context.successful = x.successful /\ r.context.lost = x.lost
  /\ WInv(r.mem, n, r.context, Front(f), fl2)
  /\ fl2 = 0 => r.asserts
  /\ Healthy(r.context, Front(f)) =>
       /\ r.asserts /\ Healthy(x, f) /\ Indexes(m, x, r)
       /\ x.current # <<>> /\ r.context.head = Last(f).at

LEMMA PopStep ==
  ASSUME NEW U, NEW n, n \in Nat, NEW m, NEW x, NEW f, Typed(U, m, n, x, f),
         f # <<>>, x.current = <<>> => Len(f) >= 2,
         NEW fl, fl \in Nat, WInv(m, n, x, f, fl),
         NEW r \in PopPack(m, x),
         NEW fl2, fl2 = fl + (Cardinality(r.context.bad) - Cardinality(x.bad))
  PROVE  PopOutcome(U, n, m, x, f, r, fl2)
<1>0. /\ n \in Nat /\ BlockType(m, n) /\ x \in ContextsOf(U) /\ f \in Seq(FramesOf(U))
      /\ Sound(m, n, x) /\ Len(x.current) <= Len(f)
      /\ x.successful \/ fl = 0 => Len(x.current) = Len(f)
      /\ Cardinality(x.bad) <= fl /\ x.lost <= fl
      /\ Len(x.current) = Len(f) => Matched(n, x, f, x.head)
      /\ Healthy(x, f) => Good(m, n, x, f)
  BY DEF Typed, WInv
<1>1. PICK F \in Nat : F = Len(f) /\ F # 0 /\ (x.current = <<>> => F >= 2)
  BY <1>0, FrontFacts
<1>2. /\ Front(f) \in Seq(FramesOf(U)) /\ Len(Front(f)) = F - 1
  BY <1>0, <1>1, FrontFacts, EmptySeq
<1>3. x.bad \subseteq {"packed", "packed_map"} /\ Len(x.current) \in Nat
  BY <1>0, ContextFacts
<1>4. CASE x.current = <<>>
  <2>1. r = Result(m, x, 0, TRUE)
    BY <1>4 DEF PopPack
  <2>2. r.mem = m /\ r.context = x /\ r.objidx = 0
    BY <2>1 DEF Result
  <2>3. Len(x.current) = 0
    BY <1>4
  <2>4. fl2 = fl
    <3>1. Cardinality(x.bad) \in Nat
      BY <1>3, BadFacts
    <3> QED BY <2>2, <3>1
  <2>5. Len(x.current) # F /\ Len(x.current) # F - 1 /\ fl # 0 /\ ~x.successful
    BY <1>0, <1>1, <2>3
  <2>6. WInv(m, n, x, Front(f), fl)
    <3>1. Len(x.current) <= Len(Front(f)) /\ Len(x.current) # Len(Front(f))
      BY <1>1, <1>2, <2>3
    <3> QED BY <1>0, <2>5, <3>1 DEF WInv, Healthy
  <2>7. ~Healthy(x, Front(f))
    BY <1>1, <1>2, <2>5 DEF Healthy
  <2>8. Typed(U, m, n, x, Front(f))
    BY <1>0, <1>2 DEF Typed
  <2> QED BY <2>2, <2>4, <2>5, <2>6, <2>7, <2>8 DEF PopOutcome
<1>5. CASE x.current # <<>>
  <2>1. PICK c, bx, bc :
          /\ c = r.context /\ c \in ContextsOf(U) /\ bx = x.bad /\ bc = c.bad
          /\ BlockType(r.mem, n) /\ r.objidx \in Nat /\ Sound(r.mem, n, c)
          /\ c.current = Front(x.current) /\ c.head = Last(x.current).head
          /\ bx \subseteq bc /\ c.successful = x.successful /\ c.lost = x.lost
    BY <1>0, <1>5, PopPackSound
  <2>2. bc \subseteq {"packed", "packed_map"}
    BY <2>1, ContextFacts
  <2>3. PICK cx \in Nat, cc \in Nat :
          /\ cx = Cardinality(bx) /\ cc = Cardinality(bc) /\ cx <= cc
          /\ cc = 0 <=> bc = {}
    BY <2>1, <2>2, BadFacts
  <2>4. fl2 = fl + (cc - cx) /\ cx <= fl
    BY <1>0, <2>1, <2>3
  <2>5. fl2 \in Nat /\ fl <= fl2 /\ cc <= fl2 /\ (fl2 = 0 => fl = 0 /\ cc = 0)
    BY <2>3, <2>4
  <2>17. x.lost \in Nat /\ x.lost <= fl2 /\ (fl2 = 0 => x.lost = 0)
    BY <1>0, <2>5, ContextFacts
  <2>6. PICK X \in Nat : X = Len(x.current) /\ X # 0 /\ Len(c.current) = X - 1
    BY <1>0, <1>5, <2>1, TopFacts, ContextFacts, FrontFacts
  <2>7. Len(c.current) = Len(Front(f)) <=> Len(x.current) = Len(f)
    BY <1>1, <1>2, <2>6
  <2>8. Len(c.current) <= Len(Front(f))
    BY <1>0, <1>1, <1>2, <2>6
  <2>9. ASSUME Len(x.current) = Len(f) PROVE Matched(n, c, Front(f), c.head)
    BY <1>0, <1>5, <2>1, <2>9, MatchedFront
  <2>10. ASSUME bc = {}, x.lost = 0, Len(x.current) = Len(f)
         PROVE  r.asserts /\ Good(r.mem, n, c, Front(f)) /\ Indexes(m, x, r) /\ c.head = Last(f).at
    <3>1. Healthy(x, f) /\ r.context.bad = {}
      BY <2>1, <2>10 DEF Healthy
    <3>2. Good(m, n, x, f) /\ Matched(n, x, f, x.head)
      BY <1>0, <2>10, <3>1
    <3>3. r.asserts /\ Good(r.mem, n, c, Front(f)) /\ Indexes(m, x, r)
      BY <1>0, <1>5, <2>1, <3>1, <3>2, PopPackGood
    <3>4. Last(f) = f[F] /\ F \in 1 .. F
      BY <1>1 DEF Last
    <3>5. x.current[F].head = Last(f).at
      BY <1>1, <3>2, <3>4 DEF Matched
    <3>6. Last(x.current) = x.current[F]
      BY <1>1, <2>10 DEF Last
    <3> QED BY <2>1, <3>3, <3>5, <3>6
  <2>11. WInv(r.mem, n, c, Front(f), fl2)
    <3>1. c.successful \/ fl2 = 0 => Len(c.current) = Len(Front(f))
      BY <1>0, <2>1, <2>5, <2>7
    <3>2. Cardinality(c.bad) <= fl2 /\ c.lost <= fl2
      BY <2>1, <2>3, <2>5, <2>17
    <3>3. Healthy(c, Front(f)) => Good(r.mem, n, c, Front(f))
      BY <2>1, <2>7, <2>10 DEF Healthy
    <3> QED BY <2>1, <2>7, <2>8, <2>9, <3>1, <3>2, <3>3 DEF WInv
  <2>12. fl2 = 0 => r.asserts /\ bc = {} /\ Len(x.current) = Len(f)
    BY <1>0, <2>3, <2>5, <2>10, <2>17
  <2>13. Typed(U, r.mem, n, c, Front(f))
    BY <1>2, <2>1 DEF Typed
  <2>14. ASSUME Healthy(c, Front(f))
         PROVE  /\ r.asserts /\ Healthy(x, f) /\ Indexes(m, x, r)
                /\ x.current # <<>> /\ c.head = Last(f).at
    <3>1. bc = {} /\ x.lost = 0 /\ Len(x.current) = Len(f)
      BY <2>1, <2>7, <2>14 DEF Healthy
    <3>2. Healthy(x, f)
      BY <2>1, <3>1 DEF Healthy
    <3> QED BY <1>5, <2>10, <3>1, <3>2
  <2>15. /\ fl2 \in Nat /\ Typed(U, r.mem, n, r.context, Front(f))
         /\ r.objidx \in Nat /\ r.context.successful = x.successful /\ r.context.lost = x.lost
         /\ WInv(r.mem, n, r.context, Front(f), fl2)
         /\ fl2 = 0 => r.asserts
    BY <2>1, <2>5, <2>11, <2>12, <2>13
  <2>16. Healthy(r.context, Front(f)) =>
           /\ r.asserts /\ Healthy(x, f) /\ Indexes(m, x, r)
           /\ x.current # <<>> /\ r.context.head = Last(f).at
    BY <2>1, <2>14
  <2> QED BY <2>15, <2>16 DEF PopOutcome
<1> QED BY <1>4, <1>5

\* What a call may make of its object and its frame, in a context that lost
\* nothing.
TopHolds(m, x, o, g) ==
  /\ LinksOK(m, x, o, x.head, x.tail) /\ KeepsOK(x, g, x.tail)
  /\ x.successful => KidsOK(m, x, o) /\ \A h \in g.held : h.tree = Tree(m, x.packed[h.objidx])

\* Context c has o for the innermost object of x, if there is one.
Replaced(U, x, c, o) ==
  /\ x.current = <<>> => c = x
  /\ x.current # <<>> => ReplacesTop(x, c, o) /\ o \in ObjectsOf(U)

\* A call that changes its object or its frame.
LEMMA TopStep ==
  ASSUME NEW U, NEW n, n \in Nat, NEW m, NEW x, NEW f, Typed(U, m, n, x, f), f # <<>>,
         NEW fl, fl \in Nat, WInv(m, n, x, f, fl),
         NEW o, NEW c, Replaced(U, x, c, o),
         NEW g, g \in FramesOf(U), g.at = Last(f).at,
         Healthy(x, f) /\ c.lost = 0 => TopHolds(m, x, o, g),
         g.snap = NoSnapshot \/ g.snap = [head |-> x.head, tail |-> x.tail],
         NEW fl2, fl2 \in Nat, fl <= fl2, c.lost <= fl2
  PROVE  WInv(m, n, c, SetLast(f, g), fl2) /\ SetLast(f, g) \in Seq(FramesOf(U))
<1>0. /\ x \in ContextsOf(U) /\ f \in Seq(FramesOf(U))
      /\ Sound(m, n, x) /\ Len(x.current) <= Len(f)
      /\ x.successful \/ fl = 0 => Len(x.current) = Len(f)
      /\ Cardinality(x.bad) <= fl /\ x.lost <= fl
      /\ Len(x.current) = Len(f) => Matched(n, x, f, x.head)
      /\ Healthy(x, f) => Good(m, n, x, f)
      /\ x.current = <<>> => c = x
      /\ x.current # <<>> => ReplacesTop(x, c, o) /\ o \in ObjectsOf(U)
  BY DEF Typed, WInv, Replaced
<1>1. PICK e : e = SetLast(f, g)
  OBVIOUS
<1>2. e \in Seq(FramesOf(U)) /\ EndsIn(e, f, g)
  BY <1>0, <1>1, FramesLast
<1>3. Len(e) = Len(f)
  BY <1>2 DEF EndsIn
<1>4. PICK F \in Nat \ {0} : F = Len(f) /\ Last(f) = f[F]
  BY <1>0, FrontFacts
<1>7. Cardinality(x.bad) <= fl2 /\ (fl2 = 0 => fl = 0)
  <2>1. Cardinality(x.bad) \in Nat
    BY <1>0, ContextFacts, BadFacts
  <2> QED BY <1>0, <2>1
<1>5. CASE x.current = <<>>
  <2>1. Len(x.current) # Len(f)
    BY <1>4, <1>5
  <2> QED BY <1>0, <1>1, <1>2, <1>3, <1>5, <1>7, <2>1 DEF WInv, Healthy
<1>6. CASE x.current # <<>>
  <2>1. /\ Len(c.current) = Len(x.current) /\ c.successful = x.successful /\ c.bad = x.bad
        /\ c.lost = 0 => x.lost = 0
    <3>1. Len(c.current) = Len(x.current)
      BY <1>0, <1>6, ReplacedBelow
    <3> QED BY <1>0, <1>6, <3>1 DEF ReplacesTop
  <2>2. Sound(m, n, c)
    BY <1>0, <1>6, ReplacedSound
  <2>3. ASSUME Len(x.current) = Len(f) PROVE Matched(n, c, e, c.head)
    <3>1. g.at = f[Len(x.current)].at /\ Matched(n, x, f, x.head)
      BY <1>0, <1>4, <2>3
    <3> QED BY <1>0, <1>2, <1>6, <3>1, TopMatched
  <2>4. ASSUME Healthy(x, f), c.lost = 0 PROVE Good(m, n, c, e)
    <3>1. Good(m, n, x, f) /\ Len(f) = Len(x.current)
      BY <1>0, <2>4 DEF Healthy
    <3>2. TopHolds(m, x, o, g)
      BY <2>4
    <3>3. /\ LinksOK(m, x, o, x.head, x.tail) /\ (x.successful => KidsOK(m, x, o))
          /\ KeepsOK(x, g, x.tail)
          /\ x.successful => \A h \in g.held : h.tree = Tree(m, x.packed[h.objidx])
      BY <3>2 DEF TopHolds
    <3>4. ReplacesTop(x, c, o) /\ o \in ObjectsOf(U)
      BY <1>0, <1>6
    <3> QED BY <1>0, <1>2, <1>6, <3>1, <3>3, <3>4, TopGood
  <2>5. Healthy(c, e) => Healthy(x, f) /\ c.lost = 0
    BY <1>3, <2>1 DEF Healthy
  <2> QED BY <1>0, <1>1, <1>2, <1>3, <1>7, <2>1, <2>2, <2>3, <2>4, <2>5 DEF WInv
<1> QED BY <1>5, <1>6

LEMMA ZeroHealthy ==
  ASSUME NEW U, NEW n, NEW m, NEW x, NEW f, Typed(U, m, n, x, f),
         NEW fl, fl = 0, WInv(m, n, x, f, fl)
  PROVE  Healthy(x, f)
<1>1. x.bad \subseteq {"packed", "packed_map"}
  BY ContextFacts DEF Typed
<1>2. Cardinality(x.bad) \in Nat /\ (Cardinality(x.bad) = 0 <=> x.bad = {})
  BY <1>1, BadFacts
<1>3. Cardinality(x.bad) <= 0 /\ x.lost <= 0 /\ Len(x.current) = Len(f)
  BY DEF WInv
<1>4. x.lost \in Nat
  BY ContextFacts DEF Typed
<1> QED BY <1>2, <1>3, <1>4 DEF Healthy

\* The innermost object and its frame.
LEMMA HealthyTop ==
  ASSUME NEW U, NEW n, n \in Nat, NEW m, NEW x, NEW f, Typed(U, m, n, x, f), f # <<>>,
         NEW fl, WInv(m, n, x, f, fl), Healthy(x, f)
  PROVE  /\ x.current # <<>> /\ Len(x.current) = Len(f) /\ Last(x.current).head = Last(f).at
         /\ LevelOK(m, n, x, Last(x.current), Last(f), x.head, x.tail)
         /\ TopHolds(m, x, Last(x.current), Last(f))
<1>1. /\ x \in ContextsOf(U) /\ f \in Seq(FramesOf(U)) /\ Len(x.current) = Len(f)
      /\ Matched(n, x, f, x.head) /\ Good(m, n, x, f)
  BY DEF Typed, WInv, Healthy
<1>2. PICK L \in Nat \ {0} : L = Len(f) /\ L = Len(x.current) /\ Last(f) = f[L] /\ L \in 1 .. L
  <2>1. Len(f) \in Nat \ {0} /\ Last(f) = f[Len(f)]
    BY <1>1, FrontFacts
  <2>2. Len(f) \in 1 .. Len(f)
    BY <2>1
  <2> QED BY <1>1, <2>1, <2>2
<1>3. x.current # <<>>
  BY <1>2
<1>4. Last(x.current) = x.current[L]
  BY <1>1, <1>2, <1>3, TopFacts
<1>5. LevelOK(m, n, x, Last(x.current), Last(f), x.head, x.tail)
  BY <1>1, <1>2, <1>3, LevelTop DEF Good
<1>6. LinksOK(m, x, Last(x.current), x.head, x.tail) /\ KeepsOK(x, Last(f), x.tail)
  BY <1>5 DEF LevelOK
<1>7. ASSUME x.successful
      PROVE  KidsOK(m, x, Last(x.current)) /\ \A h \in Last(f).held : h.tree = Tree(m, x.packed[h.objidx])
  BY <1>1, <1>2, <1>4, <1>7 DEF Good, StackFaithful
<1>8. Last(x.current).head = Last(f).at
  BY <1>1, <1>2, <1>4 DEF Matched
<1>9. TopHolds(m, x, Last(x.current), Last(f))
  BY <1>6, <1>7 DEF TopHolds
<1> QED BY <1>1, <1>3, <1>5, <1>8, <1>9

LEMMA ResetFrame ==
  ASSUME NEW U, NEW f, f \in FramesOf(U), NEW g, g = [f EXCEPT !.snap = NoSnapshot]
  PROVE  g \in FramesOf(U) /\ g.at = f.at /\ g.held = f.held /\ g.snap = NoSnapshot
<1>1. NoSnapshot \in [head : Nat, tail : Nat \cup {-1}]
  BY DEF NoSnapshot
<1> QED BY <1>1 DEF FramesOf

\* What is held of a context being written.
Written(m, n, x, f, fl) ==
  fl \in Nat /\ (\E U : Typed(U, m, n, x, f)) /\ WInv(m, n, x, f, fl)

\* A call that may change its frame only.
LEMMA FrameStep ==
  ASSUME NEW U, NEW n, n \in Nat, NEW m, NEW x, NEW f, Typed(U, m, n, x, f), f # <<>>,
         NEW fl, fl \in Nat, WInv(m, n, x, f, fl),
         NEW V, U \subseteq V, NEW g, g \in FramesOf(V), g.at = Last(f).at,
         Healthy(x, f) => TopHolds(m, x, Last(x.current), g),
         g.snap = NoSnapshot \/ g.snap = [head |-> x.head, tail |-> x.tail]
  PROVE  Written(m, n, x, SetLast(f, g), fl)
<1>1. PICK o : o = Last(x.current)
  OBVIOUS
<1>2. Typed(V, m, n, x, f)
  BY Widen DEF Typed
<1>3. Replaced(V, x, x, o)
  <2>1. x \in ContextsOf(V)
    BY <1>2 DEF Typed
  <2>2. Ascending(n, x)
    BY DEF WInv, Sound
  <2> QED BY <1>1, <2>1, <2>2, ReplacesSelf, TopFacts DEF Replaced
<1>4. Healthy(x, f) => TopHolds(m, x, o, g)
  BY <1>1
<1>5. WInv(m, n, x, SetLast(f, g), fl) /\ SetLast(f, g) \in Seq(FramesOf(V))
  <2>1. x.lost <= fl
    BY DEF WInv
  <2>2. Healthy(x, f) /\ x.lost = 0 => TopHolds(m, x, o, g)
    BY <1>4
  <2>3. fl <= fl
    OBVIOUS
  <2> QED BY <1>2, <1>3, <2>1, <2>2, <2>3, TopStep
<1>6. Typed(V, m, n, x, SetLast(f, g))
  BY <1>2, <1>5 DEF Typed
<1> QED BY <1>5, <1>6 DEF Written

\* What a link needs of the field at a and of the object with index i.
CanLink(m, x, a, i, tree) ==
  /\ a < x.head /\ m[a] = 0
  /\ \A j \in 1 .. Len(Last(x.current).links) :
       Last(x.current).head + Last(x.current).links[j].position # a
  /\ Stays(x, i, x.tail)
  /\ x.successful => tree = Tree(m, x.packed[i])

LEMMA LinkedHolds ==
  ASSUME NEW U, NEW m, NEW x \in ContextsOf(U), x.current # <<>>,
         NEW o, o = Last(x.current), NEW g, TopHolds(m, x, o, g),
         NEW a \in Nat, NEW base \in Nat, base <= a, o.head <= a, o.head <= base,
         NEW i, NEW tree, CanLink(m, x, a, i, tree),
         NEW o2, o2.head = o.head, LinkFor(o, a, base, i) \in Link,
         o2.links = Append(o.links, LinkFor(o, a, base, i)),
         o2.kids = KidsWith(o, a, base, tree)
  PROVE  TopHolds(m, x, o2, g)
<1>1. o \in ObjectsOf(U) /\ x.head \in Nat
  BY TopFacts, ContextFacts
<1>2. /\ a < x.head /\ m[a] = 0 /\ Stays(x, i, x.tail)
      /\ \A j \in 1 .. Len(o.links) : o.head + o.links[j].position # a
  BY DEF CanLink
<1>3. LinksOK(m, x, o, x.head, x.tail) /\ KeepsOK(x, g, x.tail)
  BY DEF TopHolds
<1>4. LinksOK(m, x, o2, x.head, x.tail)
  BY <1>1, <1>2, <1>3, LinkedLinks
<1>5. ASSUME x.successful
      PROVE  KidsOK(m, x, o2) /\ \A h \in g.held : h.tree = Tree(m, x.packed[h.objidx])
  <2>1. KidsOK(m, x, o) /\ \A h \in g.held : h.tree = Tree(m, x.packed[h.objidx])
    BY <1>5 DEF TopHolds
  <2>2. tree = Tree(m, x.packed[i])
    BY <1>5 DEF CanLink
  <2>3. KidsOK(m, x, o2)
    BY <1>1, <2>1, <2>2, LinkedKids DEF KidsWith
  <2> QED BY <2>1, <2>3
<1> QED BY <1>3, <1>4, <1>5 DEF TopHolds

LEMMA LinkedStep ==
  ASSUME NEW U, NEW n, n \in Nat, NEW m, NEW x, NEW f, Typed(U, m, n, x, f), f # <<>>,
         x.current # <<>>, NEW fl, fl \in Nat, WInv(m, n, x, f, fl),
         NEW a \in Nat, NEW base \in Nat, base <= a,
         Last(x.current).head <= a, Last(x.current).head <= base,
         NEW i \in Nat, NEW tree, Healthy(x, f) => CanLink(m, x, a, i, tree),
         NEW g, g = [Last(f) EXCEPT !.snap = NoSnapshot],
         NEW o2, NEW k, Links(x, a, base, i, tree, o2, k),
         NEW c, c = WithTop(x, o2, k)
  PROVE  /\ k \in Nat /\ c.bad = x.bad /\ c.lost = x.lost + k
         /\ Written(m, n, c, SetLast(f, g), fl + k)
<1>0. x \in ContextsOf(U) /\ f \in Seq(FramesOf(U)) /\ BlockType(m, n)
  BY DEF Typed
<1>1. Last(f) \in FramesOf(U)
  BY <1>0, FrontFacts
<1>2. g \in FramesOf(U) /\ g.at = Last(f).at /\ g.held = Last(f).held /\ g.snap = NoSnapshot
  BY <1>1, ResetFrame
<1>3. PICK o \in ObjectsOf(U) : o = Last(x.current)
  BY <1>0, TopFacts
<1>4. PICK V : V = U \cup {KidsWith(o, a, base, tree)}
  OBVIOUS
<1>5. U \subseteq V /\ KidsWith(o, a, base, tree) \in V
  BY <1>4
<1>6. x.lost \in Nat /\ x.lost <= fl /\ (x.lost = 0 => ~o.cut)
  <2>1. PICK L \in Nat \ {0} : L = Len(x.current) /\ o = x.current[L] /\ L \in 1 .. L
    BY <1>0, <1>3, TopFacts
  <2> QED BY <1>0, <2>1, ContextFacts DEF WInv, Sound, Ascending
<1>7. /\ k \in Nat /\ o2 \in ObjectsOf(V) /\ o2.head = o.head /\ o2.tail = o.tail
      /\ x.lost + k = 0 => ~o2.cut /\ Extends(o, o2, a, base, i, tree)
  <2>1. CASE o2 = LinkedTop(x, a, base, i, tree) /\ k = 0 /\ ~o.cut
    <3>1. o2 \in ObjectsOf(V) /\ Extends(o, o2, a, base, i, tree)
      BY <1>0, <1>3, <1>5, <2>1, LinkedTopFacts
    <3> QED BY <2>1, <3>1 DEF Extends
  <2>2. CASE o2 = CutTop(x, a, base, tree) /\ k = IF o.cut THEN 0 ELSE 1
    <3>1. o2 \in ObjectsOf(V) /\ o2.head = o.head /\ o2.tail = o.tail
      <4>1. PICK kids \in V : kids = KidsWith(o, a, base, tree)
        BY <1>5
      <4>2. o2 = [o EXCEPT !.kids = kids, !.cut = TRUE]
        BY <1>3, <2>2, <4>1 DEF CutTop, WithKid, KidsWith
      <4>3. o \in ObjectsOf(V)
        BY <1>3, <1>5, Widen
      <4> QED BY <4>1, <4>2, <4>3 DEF ObjectsOf
    <3>2. CASE o.cut
      <4>1. k = 0 /\ x.lost \in Nat /\ x.lost # 0
        BY <1>6, <2>2, <3>2
      <4> QED BY <3>1, <4>1
    <3>3. CASE ~o.cut
      <4>1. k = 1 /\ x.lost \in Nat
        BY <1>6, <2>2, <3>3
      <4> QED BY <3>1, <4>1
    <3> QED BY <3>2, <3>3
  <2> QED BY <1>3, <2>1, <2>2 DEF Links
<1>8. c \in ContextsOf(V) /\ ReplacesTop(x, c, o2) /\ c.bad = x.bad /\ c.lost = x.lost + k
  BY <1>0, <1>3, <1>5, <1>7, WithTopFacts
<1>9. Replaced(V, x, c, o2)
  BY <1>7, <1>8 DEF Replaced
<1>10. ASSUME Healthy(x, f), c.lost = 0 PROVE TopHolds(m, x, o2, g)
  <2>1. TopHolds(m, x, o, Last(f))
    BY <1>3, <1>10, HealthyTop
  <2>2. TopHolds(m, x, o, g)
    BY <1>2, <2>1 DEF TopHolds, KeepsOK
  <2>3. CanLink(m, x, a, i, tree)
    BY <1>10
  <2>4. /\ o2.head = o.head /\ o2.links = Append(o.links, LinkFor(o, a, base, i))
        /\ LinkFor(o, a, base, i) \in Link /\ o2.kids = KidsWith(o, a, base, tree)
    BY <1>7, <1>8, <1>10 DEF Extends
  <2> QED BY <1>0, <1>3, <2>2, <2>3, <2>4, LinkedHolds
<1>11. Typed(V, m, n, x, f) /\ g \in FramesOf(V)
  <2>1. /\ ContextsOf(U) \subseteq ContextsOf(V) /\ FramesOf(U) \subseteq FramesOf(V)
        /\ Seq(FramesOf(U)) \subseteq Seq(FramesOf(V))
    BY <1>5, Widen
  <2>2. x \in ContextsOf(V) /\ f \in Seq(FramesOf(V)) /\ g \in FramesOf(V)
    BY <1>0, <1>2, <2>1
  <2> QED BY <1>0, <2>2 DEF Typed
<1>12. PICK fl2 \in Nat : fl2 = fl + k /\ fl <= fl2 /\ c.lost <= fl2
  BY <1>6, <1>7, <1>8
<1>13. WInv(m, n, c, SetLast(f, g), fl2) /\ SetLast(f, g) \in Seq(FramesOf(V))
  BY <1>2, <1>9, <1>10, <1>11, <1>12, TopStep
<1>14. Typed(V, m, n, c, SetLast(f, g))
  BY <1>0, <1>8, <1>13 DEF Typed
<1> QED BY <1>7, <1>8, <1>12, <1>13, <1>14 DEF Written

\* What is to be shown of result r of a method, called on context x of n bytes
\* when fl allocations had failed, if e are the frames afterwards.
Outcome(n, x, fl, r, e) ==
  LET fl2 == fl + (Cardinality(r.context.bad) - Cardinality(x.bad)) + (r.context.lost - x.lost)
  IN  /\ fl2 \in Nat
      /\ fl2 = 0 => r.asserts
      /\ r.asserts => Written(r.mem, n, r.context, e, fl2)

LEMMA SameBadOutcome ==
  ASSUME NEW U, NEW n, NEW x \in ContextsOf(U), NEW fl \in Nat, NEW r, NEW e,
         r.context.bad = x.bad /\ r.context.lost = x.lost, fl = 0 => r.asserts,
         r.asserts => Written(r.mem, n, r.context, e, fl)
  PROVE  Outcome(n, x, fl, r, e)
<1>1. Cardinality(x.bad) \in Nat
  BY ContextFacts, BadFacts
<1>2. PICK c \in Nat : c = Cardinality(x.bad) /\ c = Cardinality(r.context.bad)
  BY <1>1
<1>3. x.lost \in Nat
  BY ContextFacts
<1>4. fl + (Cardinality(r.context.bad) - Cardinality(x.bad)) + (r.context.lost - x.lost) = fl
  BY <1>2, <1>3
<1> QED BY <1>4 DEF Outcome

\* Result y of add_link on context x, fl failed allocations: k more have failed.
LinkOutcome(n, x, fl, y, e, k) ==
  /\ k \in Nat /\ y.context.bad = x.bad /\ y.context.lost = x.lost + k
  /\ fl = 0 => y.asserts
  /\ y.asserts => Written(y.mem, n, y.context, e, fl + k)

\* The frames after a link: there is no snapshot any more.
Settled(f) == SetLast(f, [Last(f) EXCEPT !.snap = NoSnapshot])

\* What a call to add_link needs of result r with context x.
LinkReady(m, x, f, i0, as, r, a, base, i, tree) ==
  /\ r = Result(m, x, i0, as) /\ as \in BOOLEAN /\ i \in Nat
  /\ a \in Nat /\ base \in Nat /\ base <= a /\ Last(f).at <= base
  /\ Healthy(x, f) => as
  /\ Healthy(x, f) /\ i # 0 => CanLink(m, x, a, i, tree)

\* A call that links an object, or none.
LEMMA LinkStep ==
  ASSUME NEW U, NEW n, n \in Nat, NEW m, NEW x, NEW f, Typed(U, m, n, x, f), f # <<>>,
         NEW fl, fl \in Nat, WInv(m, n, x, f, fl),
         NEW i0, NEW as, NEW r, NEW a, NEW base, NEW i, NEW tree,
         LinkReady(m, x, f, i0, as, r, a, base, i, tree),
         NEW y, y \in AddLink(r, a, base, i, tree)
  PROVE  \E k : LinkOutcome(n, x, fl, y, Settled(f), k)
<1>8. PICK g : g = [Last(f) EXCEPT !.snap = NoSnapshot] /\ Settled(f) = SetLast(f, g)
  BY DEF Settled
<1>9. /\ r = Result(m, x, i0, as) /\ as \in BOOLEAN /\ i \in Nat
      /\ a \in Nat /\ base \in Nat /\ base <= a /\ Last(f).at <= base
      /\ Healthy(x, f) => as
      /\ Healthy(x, f) /\ i # 0 => CanLink(m, x, a, i, tree)
  BY DEF LinkReady
<1>0. x \in ContextsOf(U) /\ f \in Seq(FramesOf(U)) /\ BlockType(m, n)
  BY DEF Typed
<1>1. Last(f) \in FramesOf(U)
  BY <1>0, FrontFacts
<1>2. g \in FramesOf(U) /\ g.at = Last(f).at /\ g.held = Last(f).held /\ g.snap = NoSnapshot
  BY <1>1, <1>8, ResetFrame
<1>3. r.context = x /\ r = [mem |-> m, context |-> x, objidx |-> i0, asserts |-> as]
  BY <1>9 DEF Result
<1>4. fl = 0 => Healthy(x, f)
  BY ZeroHealthy
<1>5. CASE i = 0
  <2>1. y = r
    BY <1>5, Zenon DEF AddLink
  <2>2. PICK b \in BOOLEAN : b = as /\ (fl = 0 => b)
    <3>1. fl = 0 => as
      BY <1>4, <1>9
    <3> QED BY <1>9, <3>1
  <2>3. y = [mem |-> m, context |-> x, objidx |-> i0, asserts |-> b]
    BY <1>3, <2>1, <2>2
  <2>4. y.mem = m /\ y.context = x /\ y.asserts = b
    BY <2>3
  <2>8. fl = 0 => y.asserts
    BY <2>2, <2>4
  <2>5. ASSUME Healthy(x, f) PROVE TopHolds(m, x, Last(x.current), g)
    <3>1. TopHolds(m, x, Last(x.current), Last(f))
      BY <2>5, HealthyTop
    <3> QED BY <1>2, <3>1 DEF TopHolds, KeepsOK
  <2>6. U \subseteq U
    OBVIOUS
  <2>7. Written(m, n, x, SetLast(f, g), fl)
    BY <1>2, <2>5, <2>6, FrameStep
  <2>9. fl + 0 = fl /\ x.lost + 0 = x.lost
    BY <1>0, ContextFacts
  <2>10. LinkOutcome(n, x, fl, y, Settled(f), 0)
    BY <1>8, <2>4, <2>7, <2>8, <2>9 DEF LinkOutcome
  <2> QED BY <2>10
<1>6. CASE i # 0 /\ x.current = <<>>
  <2>1. y = [r EXCEPT !.asserts = FALSE]
    BY <1>3, <1>6, Zenon DEF AddLink
  <2>2. y.context = x /\ ~y.asserts
    BY <1>3, <2>1
  <2>3. ~Healthy(x, f)
    <3>1. ASSUME Healthy(x, f) PROVE x.current # <<>>
      BY <3>1, HealthyTop
    <3> QED BY <1>6, <3>1
  <2>4. x.lost + 0 = x.lost
    BY <1>0, ContextFacts
  <2>5. LinkOutcome(n, x, fl, y, Settled(f), 0)
    BY <1>4, <2>2, <2>3, <2>4 DEF LinkOutcome
  <2> QED BY <2>5
<1>7. CASE i # 0 /\ x.current # <<>>
  <2>1. PICK q, k : Links(x, a, base, i, tree, q, k) /\ AddsLink(m, x, as, a, base, q, k, y)
    BY <1>0, <1>7, <1>9, AddLinkIs
  <2>2. PICK o, c : o \in ObjectsOf(U) /\ o = Last(x.current) /\ c = WithTop(x, q, k)
    BY <1>0, <1>7, TopFacts
  <2>4. PICK ok \in BOOLEAN : ok = (as /\ o.head <= a /\ o.head <= base)
    BY <1>9
  <2>5. y.mem = m /\ y.context = c /\ (y.asserts <=> ok)
    BY <2>1, <2>2, <2>4 DEF AddsLink
  <2>6. ASSUME fl = 0 PROVE ok
    <3>1. Last(x.current).head = Last(f).at /\ as
      BY <1>4, <1>9, <2>6, HealthyTop
    <3>2. PICK h \in Nat : h = o.head /\ h = Last(f).at
      BY <1>1, <2>2, <3>1, FrameFacts
    <3>3. h <= base /\ h <= a
      BY <1>9, <3>2
    <3> QED BY <2>4, <3>1, <3>2, <3>3
  <2>7. k \in Nat /\ c.bad = x.bad /\ c.lost = x.lost + k
    <3>1. o.cut \in BOOLEAN /\ k \in Nat
      BY <2>1, <2>2 DEF Links, ObjectsOf
    <3>2. PICK s, l : s = SetLast(x.current, q) /\ l = x.lost + k
      OBVIOUS
    <3>3. c = [x EXCEPT !.current = s, !.lost = l]
      BY <2>2, <3>2 DEF WithTop
    <3> QED BY <1>0, <3>1, <3>2, <3>3 DEF ContextsOf
  <2>8. ASSUME ok PROVE Written(m, n, c, SetLast(f, g), fl + k)
    <3>1. Last(x.current).head <= a /\ Last(x.current).head <= base
      BY <2>2, <2>4, <2>8
    <3>2. Healthy(x, f) => CanLink(m, x, a, i, tree)
      BY <1>7, <1>9
    <3> QED BY <1>7, <1>8, <1>9, <2>1, <2>2, <3>1, <3>2, LinkedStep
  <2>9. LinkOutcome(n, x, fl, y, Settled(f), k)
    BY <1>8, <2>5, <2>6, <2>7, <2>8 DEF LinkOutcome
  <2> QED BY <2>9
<1> QED BY <1>5, <1>6, <1>7

\* What a call takes down of the object it pops.
BuiltOf(m, x) == IF ~x.successful \/ x.bad # {} THEN Tree(m, Object(0, 0)) ELSE Tree(m, Top(x))

\* In a context x that was popped to r, the field at a of the outer object can
\* take the link.
FreeField(r, a) ==
  /\ r.mem[a] = 0
  /\ r.context.current # <<>> =>
       \A j \in DOMAIN Last(r.context.current).links :
         Last(r.context.current).head + Last(r.context.current).links[j].position # a

LEMMA FreeFieldLinks ==
  ASSUME NEW U, NEW n, n \in Nat, NEW m, NEW x, NEW f, Typed(U, m, n, x, f), f # <<>>,
         NEW fl, WInv(m, n, x, f, fl), Healthy(x, f),
         NEW r, r.mem = m, r.context = x, NEW a, FreeField(r, a), a < x.head,
         NEW i, Stays(x, i, x.tail), NEW tree, x.successful => tree = Tree(m, x.packed[i])
  PROVE  CanLink(m, x, a, i, tree)
<1>1. x.current # <<>> /\ x \in ContextsOf(U)
  <2>1. x.current # <<>>
    BY HealthyTop
  <2> QED BY <2>1 DEF Typed
<1>2. PICK o \in ObjectsOf(U) : o = Last(x.current)
  BY <1>1, TopFacts
<1>3. DOMAIN o.links = 1 .. Len(o.links)
  BY <1>2, ObjectFacts
<1>4. m[a] = 0 /\ \A j \in 1 .. Len(o.links) : o.head + o.links[j].position # a
  BY <1>1, <1>2, <1>3 DEF FreeField
<1> QED BY <1>2, <1>4 DEF CanLink

\* Outcome of a method whose failures are those of packing, fl2, and k others.
LEMMA CountedOutcome ==
  ASSUME NEW U, NEW n, NEW m, NEW x, NEW f, Typed(U, m, n, x, f), NEW fl \in Nat, NEW y, NEW e,
         NEW bad, y.context.bad = bad,
         NEW fl2 \in Nat, fl2 = fl + (Cardinality(bad) - Cardinality(x.bad)),
         NEW k \in Nat, y.context.lost = x.lost + k,
         fl2 = 0 => y.asserts,
         y.asserts => Written(y.mem, n, y.context, e, fl2 + k)
  PROVE  Outcome(n, x, fl, y, e)
<1>1. x.lost \in Nat
  BY ContextFacts DEF Typed
<1>2. y.context.lost - x.lost = k
  BY <1>1
<1>3. fl + (Cardinality(y.context.bad) - Cardinality(x.bad)) + (y.context.lost - x.lost) = fl2 + k
  BY <1>2
<1>4. fl2 + k \in Nat /\ (fl2 + k = 0 => fl2 = 0)
  OBVIOUS
<1> QED BY <1>3, <1>4 DEF Outcome

\* A call that links the object it finishes.
LEMMA PopLinkStep ==
  ASSUME NEW U, NEW n, n \in Nat, NEW m, NEW x, NEW f, Typed(U, m, n, x, f), Len(f) >= 2,
         NEW fl, fl \in Nat, WInv(m, n, x, f, fl),
         NEW r \in PopPack(m, x),
         NEW a, a \in Last(Front(f)).at .. Last(f).at - 1, FreeField(r, a),
         NEW base, base \in Last(Front(f)).at .. a,
         NEW y, y \in AddLink(r, a, base, r.objidx, BuiltOf(m, x))
  PROVE  Outcome(n, x, fl, y, Settled(Front(f)))
<1>1. PICK fl2 : fl2 = fl + (Cardinality(r.context.bad) - Cardinality(x.bad))
  OBVIOUS
<1>2. PopOutcome(U, n, m, x, f, r, fl2)
  <2>1. f # <<>>
    BY DEF Typed
  <2> QED BY <1>1, <2>1, PopStep
<1>3. PICK e : e = Front(f)
  OBVIOUS
<1>4. /\ fl2 \in Nat /\ Typed(U, r.mem, n, r.context, e) /\ r.objidx \in Nat
      /\ WInv(r.mem, n, r.context, e, fl2) /\ r.context.lost = x.lost
  BY <1>2, <1>3 DEF PopOutcome
<1>5. f \in Seq(FramesOf(U)) /\ f # <<>>
  BY DEF Typed
<1>6. e \in Seq(FramesOf(U)) /\ e # <<>> /\ Last(f) \in FramesOf(U)
  <2>1. Len(e) >= 1
    BY <1>3, <1>5, FrontFacts
  <2> QED BY <1>3, <1>5, <2>1, FrontFacts
<1>7. Last(e) \in FramesOf(U)
  BY <1>6, FrontFacts
<1>8. PICK h \in Nat, top \in Nat : h = Last(e).at /\ top = Last(f).at
  BY <1>6, <1>7, FrameFacts
<1>9. a \in Nat /\ base \in Nat /\ base <= a /\ h <= base /\ a < top
  BY <1>3, <1>8
<1>10. r = Result(r.mem, r.context, r.objidx, r.asserts) /\ r.asserts \in BOOLEAN
  BY PopPackResult
<1>11. ASSUME Healthy(r.context, e), r.objidx # 0
       PROVE  CanLink(r.mem, r.context, a, r.objidx, BuiltOf(m, x))
  <2>1. /\ Healthy(x, f) /\ Indexes(m, x, r) /\ r.context.head = Last(f).at
        /\ r.context.successful = x.successful
    BY <1>2, <1>3, <1>11 DEF PopOutcome
  <2>2. Stays(r.context, r.objidx, r.context.tail)
    BY <1>11, <2>1 DEF Indexes
  <2>3. r.context.successful => BuiltOf(m, x) = Tree(r.mem, r.context.packed[r.objidx])
    BY <1>11, <2>1 DEF Indexes, BuiltOf, Healthy
  <2>4. a < r.context.head
    BY <1>8, <1>9, <2>1
  <2> QED BY <1>4, <1>6, <1>11, <2>2, <2>3, <2>4, FreeFieldLinks
<1>12. Healthy(r.context, e) => r.asserts
  BY <1>2, <1>3 DEF PopOutcome
<1>14. \E k : LinkOutcome(n, r.context, fl2, y, Settled(e), k)
  <2>1. Last(e).at <= base
    BY <1>8, <1>9
  <2>2. PICK m2, c, i, as, t :
          m2 = r.mem /\ c = r.context /\ i = r.objidx /\ as = r.asserts /\ t = BuiltOf(m, x)
    OBVIOUS
  <2>3. Typed(U, m2, n, c, e) /\ WInv(m2, n, c, e, fl2) /\ i \in Nat
    BY <1>4, <2>2
  <2>4. r = Result(m2, c, i, as) /\ as \in BOOLEAN
    BY <1>10, <2>2
  <2>5. Healthy(c, e) => as
    BY <1>12, <2>2
  <2>6. Healthy(c, e) /\ i # 0 => CanLink(m2, c, a, i, t)
    BY <1>11, <2>2
  <2>7. y \in AddLink(r, a, base, i, t)
    BY <2>2
  <2>8. LinkReady(m2, c, e, i, as, r, a, base, i, t)
    BY <1>9, <2>1, <2>3, <2>4, <2>5, <2>6 DEF LinkReady
  <2>9. \E k : LinkOutcome(n, c, fl2, y, Settled(e), k)
    BY <1>4, <1>6, <2>3, <2>7, <2>8, LinkStep
  <2> QED BY <2>2, <2>9
<1>15. PICK k \in Nat :
         /\ y.context.bad = r.context.bad /\ y.context.lost = x.lost + k
         /\ fl2 = 0 => y.asserts
         /\ y.asserts => Written(y.mem, n, y.context, Settled(e), fl2 + k)
  BY <1>4, <1>14 DEF LinkOutcome
<1> QED BY <1>1, <1>3, <1>4, <1>15, CountedOutcome

\* What a frame keeps is still packed, and as it was.
LEMMA KeptStays ==
  ASSUME NEW U, NEW n, n \in Nat, NEW m, NEW x, NEW f, Typed(U, m, n, x, f), f # <<>>,
         NEW fl, WInv(m, n, x, f, fl), Healthy(x, f),
         NEW d, d \in 1 .. Len(f), NEW h, h \in f[d].held
  PROVE  Stays(x, h.objidx, x.tail) /\ (x.successful => h.tree = Tree(m, x.packed[h.objidx]))
<1>1. /\ x \in ContextsOf(U) /\ f \in Seq(FramesOf(U)) /\ Len(x.current) = Len(f)
      /\ Good(m, n, x, f)
  BY DEF Typed, WInv, Healthy
<1>2. PICK L \in Nat, tl \in Nat : L # 0 /\ L = Len(x.current) /\ L = Len(f) /\ tl = x.tail
  <2>1. Len(f) \in Nat \ {0}
    BY <1>1, FrontFacts
  <2> QED BY <1>1, <2>1, ContextFacts
<1>3. /\ \A e \in 1 .. L : /\ LevelOK(m, n, x, x.current[e], f[e], HeadAbove(x, e, x.head), TailAbove(x, e, tl))
                          /\ \A c \in 1 .. e : x.current[e].tail <= x.current[c].tail
      /\ \A e \in 1 .. L : x.current[e].tail \in Nat
  BY <1>1, <1>2, ContextFacts DEF Good, LevelsOK
<1>4. PICK t \in Nat : t = TailAbove(x, d, tl) /\ d \in 1 .. L
  <2>1. d \in 1 .. L
    BY <1>2
  <2>2. d \in 0 .. Len(x.current)
    BY <1>2, <2>1
  <2> QED BY <1>1, <1>2, <2>1, <2>2, AboveFacts
<1>5. tl <= t
  <2>0. TailAbove(x, d, tl) = IF d < L THEN x.current[d + 1].tail ELSE tl
    BY <1>2 DEF TailAbove
  <2>1. CASE d = L
    BY <1>2, <1>4, <2>0, <2>1
  <2>2. CASE d < L
    <3>1. d + 1 \in 1 .. L /\ t = x.current[d + 1].tail
      BY <1>2, <1>4, <2>0, <2>2
    <3>2. L \in 1 .. L /\ TailAbove(x, L, tl) = tl
      BY <1>2 DEF TailAbove
    <3>3. tl <= x.current[L].tail
      BY <1>3, <3>2 DEF LevelOK
    <3>4. x.current[L].tail <= x.current[d + 1].tail
      BY <1>3, <3>1, <3>2
    <3>5. x.current[L].tail \in Nat
      BY <1>3, <3>2
    <3> QED BY <3>1, <3>3, <3>4, <3>5
  <2> QED BY <1>4, <2>1, <2>2
<1>6. Stays(x, h.objidx, t)
  <2>1. KeepsOK(x, f[d], t)
    BY <1>2, <1>3, <1>4 DEF LevelOK
  <2> QED BY <2>1 DEF KeepsOK
<1>7. Stays(x, h.objidx, x.tail)
  <2>1. PICK i : i = h.objidx
    OBVIOUS
  <2>2. i \in 1 .. Len(x.packed) /\ t <= x.packed[i].head /\ x.packed[i].head \in Nat
    BY <1>1, <1>6, <2>1, ContextFacts DEF Stays
  <2> QED BY <1>2, <1>5, <2>1, <2>2 DEF Stays
<1>8. x.successful => h.tree = Tree(m, x.packed[h.objidx])
  BY <1>1, <1>2 DEF Good, StackFaithful
<1> QED BY <1>7, <1>8

\* A call that links an object whose index was kept.
LEMMA LinkKeptStep ==
  ASSUME NEW U, NEW n, n \in Nat, NEW m, NEW x, NEW f, Typed(U, m, n, x, f), f # <<>>,
         NEW fl, fl \in Nat, WInv(m, n, x, f, fl),
         NEW d, d \in 1 .. Len(f), NEW h, h \in f[d].held,
         NEW r, r = Result(m, x, h.objidx, TRUE),
         NEW a, a \in Last(f).at .. x.head - 1, FreeField(r, a),
         NEW base, base \in Last(f).at .. a,
         NEW y, y \in AddLink(r, a, base, h.objidx, h.tree)
  PROVE  Outcome(n, x, fl, y, Settled(f))
<1>1. x \in ContextsOf(U) /\ f \in Seq(FramesOf(U))
  BY DEF Typed
<1>2. PICK i, t : i \in Nat /\ i = h.objidx /\ t = h.tree
  <2>1. f[d] \in FramesOf(U)
    BY <1>1
  <2> QED BY <2>1, FrameFacts
<1>3. PICK k \in Nat, hd \in Nat : k = Last(f).at /\ hd = x.head
  BY <1>1, FrontFacts, FrameFacts, ContextFacts
<1>4. a \in Nat /\ base \in Nat /\ base <= a /\ k <= base /\ a < hd
  BY <1>3
<1>5. r.mem = m /\ r.context = x
  BY DEF Result
<1>6. ASSUME Healthy(x, f) PROVE CanLink(m, x, a, i, t)
  <2>1. Stays(x, h.objidx, x.tail) /\ (x.successful => h.tree = Tree(m, x.packed[h.objidx]))
    BY <1>6, KeptStays
  <2>2. a < x.head /\ Stays(x, i, x.tail) /\ (x.successful => t = Tree(m, x.packed[i]))
    BY <1>2, <1>3, <1>4, <2>1
  <2> QED BY <1>5, <1>6, <2>2, FreeFieldLinks
<1>7. LinkReady(m, x, f, i, TRUE, r, a, base, i, t)
  <2>1. Last(f).at <= base
    BY <1>3, <1>4
  <2> QED BY <1>2, <1>4, <1>6, <2>1 DEF LinkReady
<1>8. y \in AddLink(r, a, base, i, t)
  BY <1>2
<1>9. \E j : LinkOutcome(n, x, fl, y, Settled(f), j)
  BY <1>7, <1>8, LinkStep
<1>10. PICK j \in Nat :
         /\ y.context.bad = x.bad /\ y.context.lost = x.lost + j
         /\ fl = 0 => y.asserts
         /\ y.asserts => Written(y.mem, n, y.context, Settled(f), fl + j)
  BY <1>9 DEF LinkOutcome
<1>11. fl = fl + (Cardinality(x.bad) - Cardinality(x.bad))
  <2>1. Cardinality(x.bad) \in Nat
    BY <1>1, ContextFacts, BadFacts
  <2> QED BY <2>1
<1> QED BY <1>10, <1>11, CountedOutcome

\* The frame that keeps index i of an object built as the tree.
Keeping(e, i, tree) ==
  [e EXCEPT !.snap = NoSnapshot,
            !.held = IF i = 0 THEN @ ELSE @ \cup {[objidx |-> i, tree |-> tree]}]

Keeps(e, g, i, tree) ==
  /\ g.at = e.at /\ g.snap = NoSnapshot
  /\ \A h \in g.held : h \in e.held \/ (i # 0 /\ h.objidx = i /\ h.tree = tree)

LEMMA KeepingFacts ==
  ASSUME NEW U, NEW e, e \in FramesOf(U), NEW i, i \in Nat, NEW tree,
         NEW V, U \subseteq V, tree \in V, NEW g, g = Keeping(e, i, tree)
  PROVE  g \in FramesOf(V) /\ Keeps(e, g, i, tree)
<1>1. PICK hs : hs = IF i = 0 THEN e.held ELSE e.held \cup {[objidx |-> i, tree |-> tree]}
  OBVIOUS
<1>2. g = [e EXCEPT !.snap = NoSnapshot, !.held = hs]
  BY <1>1 DEF Keeping
<1>3. NoSnapshot \in [head : Nat, tail : Nat \cup {-1}]
  BY DEF NoSnapshot
<1>4. e.held \subseteq HeldOf(U) /\ HeldOf(U) \subseteq HeldOf(V)
  BY FrameFacts DEF HeldOf
<1>5. [objidx |-> i, tree |-> tree] \in HeldOf(V)
  BY DEF HeldOf
<1>6. hs \subseteq HeldOf(V)
  BY <1>1, <1>4, <1>5
<1>7. PICK k : k = [e EXCEPT !.snap = NoSnapshot]
  OBVIOUS
<1>8. k \in FramesOf(U) /\ k.at = e.at /\ k.snap = NoSnapshot
  BY <1>7, ResetFrame
<1>9. g = [k EXCEPT !.held = hs]
  BY <1>2, <1>7
<1>10. g \in FramesOf(V) /\ g.at = k.at /\ g.snap = k.snap /\ g.held = hs
  BY <1>6, <1>8, <1>9 DEF FramesOf
<1>11. \A h \in hs : h \in e.held \/ (i # 0 /\ h.objidx = i /\ h.tree = tree)
  BY <1>1
<1> QED BY <1>8, <1>10, <1>11 DEF Keeps

\* A call that keeps the index of the object it finishes.
LEMMA PopKeepStep ==
  ASSUME NEW U, NEW n, n \in Nat, NEW m, NEW x, NEW f, Typed(U, m, n, x, f), Len(f) >= 2,
         NEW fl, fl \in Nat, WInv(m, n, x, f, fl),
         NEW r \in PopPack(m, x),
         NEW g, g = Keeping(Last(Front(f)), r.objidx, BuiltOf(m, x))
  PROVE  Outcome(n, x, fl, r, SetLast(Front(f), g))
<1>1. PICK fl2 : fl2 = fl + (Cardinality(r.context.bad) - Cardinality(x.bad))
  OBVIOUS
<1>2. PopOutcome(U, n, m, x, f, r, fl2)
  <2>1. f # <<>>
    BY DEF Typed
  <2> QED BY <1>1, <2>1, PopStep
<1>3. PICK e, m2, c, i, t :
        e = Front(f) /\ m2 = r.mem /\ c = r.context /\ i = r.objidx /\ t = BuiltOf(m, x)
  OBVIOUS
<1>4. /\ fl2 \in Nat /\ Typed(U, m2, n, c, e) /\ i \in Nat /\ WInv(m2, n, c, e, fl2)
      /\ c.lost = x.lost /\ (fl2 = 0 => r.asserts)
  BY <1>2, <1>3 DEF PopOutcome
<1>5. f \in Seq(FramesOf(U)) /\ f # <<>>
  BY DEF Typed
<1>6. e \in Seq(FramesOf(U)) /\ e # <<>>
  <2>1. Len(e) >= 1
    BY <1>3, <1>5, FrontFacts
  <2> QED BY <1>3, <1>5, <2>1, FrontFacts
<1>7. Last(e) \in FramesOf(U)
  BY <1>6, FrontFacts
<1>8. PICK V : V = U \cup {t}
  OBVIOUS
<1>9. U \subseteq V /\ t \in V /\ g = Keeping(Last(e), i, t)
  BY <1>3, <1>8
<1>10. /\ g \in FramesOf(V) /\ g.at = Last(e).at /\ g.snap = NoSnapshot
       /\ \A h \in g.held : h \in Last(e).held \/ (i # 0 /\ h.objidx = i /\ h.tree = t)
  <2>1. g \in FramesOf(V) /\ Keeps(Last(e), g, i, t)
    BY <1>4, <1>7, <1>9, KeepingFacts
  <2> QED BY <2>1 DEF Keeps
<1>11. ASSUME Healthy(c, e) PROVE TopHolds(m2, c, Last(c.current), g)
  <2>1. TopHolds(m2, c, Last(c.current), Last(e))
    BY <1>4, <1>6, <1>11, HealthyTop
  <2>2. /\ LinksOK(m2, c, Last(c.current), c.head, c.tail) /\ KeepsOK(c, Last(e), c.tail)
        /\ c.successful =>
             /\ KidsOK(m2, c, Last(c.current))
             /\ \A h \in Last(e).held : h.tree = Tree(m2, c.packed[h.objidx])
    BY <2>1 DEF TopHolds
  <2>3. Healthy(x, f) /\ Indexes(m, x, r) /\ c.successful = x.successful
    BY <1>2, <1>3, <1>11 DEF PopOutcome
  <2>4. i # 0 => /\ Stays(c, i, c.tail)
                 /\ c.successful => t = Tree(m2, c.packed[i])
    BY <1>3, <2>3 DEF Indexes, BuiltOf, Healthy
  <2>5. KeepsOK(c, g, c.tail)
    BY <1>10, <2>2, <2>4 DEF KeepsOK
  <2>6. ASSUME c.successful, NEW h \in g.held PROVE h.tree = Tree(m2, c.packed[h.objidx])
    BY <1>10, <2>2, <2>4, <2>6
  <2> QED BY <2>2, <2>5, <2>6 DEF TopHolds
<1>12. Written(m2, n, c, SetLast(e, g), fl2)
  BY <1>4, <1>6, <1>9, <1>10, <1>11, FrameStep
<1>13. x.lost + 0 = x.lost /\ fl2 + 0 = fl2
  BY <1>4, ContextFacts DEF Typed
<1> QED BY <1>1, <1>3, <1>4, <1>12, <1>13, CountedOutcome

\* A snapshot.
LEMMA SnapshotStep ==
  ASSUME NEW U, NEW n, n \in Nat, NEW m, NEW x, NEW f, Typed(U, m, n, x, f), f # <<>>,
         NEW fl, fl \in Nat, WInv(m, n, x, f, fl),
         NEW g, g = [Last(f) EXCEPT !.snap = [head |-> x.head, tail |-> x.tail]]
  PROVE  Written(m, n, x, SetLast(f, g), fl)
<1>1. x \in ContextsOf(U) /\ f \in Seq(FramesOf(U))
  BY DEF Typed
<1>2. PICK e \in FramesOf(U) : e = Last(f)
  BY <1>1, FrontFacts
<1>3. PICK s \in [head : Nat, tail : Nat \cup {-1}] : s = [head |-> x.head, tail |-> x.tail]
  BY <1>1, ContextFacts
<1>4. g = [e EXCEPT !.snap = s]
  BY <1>2, <1>3
<1>5. g \in FramesOf(U) /\ g.at = e.at /\ g.held = e.held /\ g.snap = s
  BY <1>4 DEF FramesOf
<1>6. ASSUME Healthy(x, f) PROVE TopHolds(m, x, Last(x.current), g)
  <2>1. TopHolds(m, x, Last(x.current), e)
    BY <1>2, <1>6, HealthyTop
  <2> QED BY <1>5, <2>1 DEF TopHolds, KeepsOK
<1>7. U \subseteq U /\ g.at = Last(f).at /\ g.snap = [head |-> x.head, tail |-> x.tail]
  BY <1>2, <1>3, <1>5
<1> QED BY <1>5, <1>6, <1>7, FrameStep

\* The packed objects are untouched by a write below them.
LEMMA WholeKept ==
  ASSUME NEW U, NEW n, n \in Nat, NEW m, NEW m2, NEW x \in ContextsOf(U), NEW c \in ContextsOf(U),
         c.packed = x.packed, c.tail = x.tail, Descending(n, x), SameFrom(m, m2, n, x.tail),
         Whole(m, n, x)
  PROVE  Whole(m2, n, c) /\ (PackedFaithful(m, x) => PackedFaithful(m2, c))
<1>1. PICK N \in Nat, tl \in Nat : N = Len(x.packed) /\ N = Len(c.packed) /\ tl = x.tail /\ tl = c.tail
  BY ContextFacts
<1>2. Tight(n, c)
  BY DEF Whole, Tight, Floor
<1>3. Carries(x, c, 0)
  BY <1>1 DEF Carries
<1>4. TreesKept(m, m2, x, 0)
  <2>1. PackedSame(m, m2, x)
    BY PackedKept
  <2> QED BY <2>1 DEF PackedSame, TreesKept
<1>5. ASSUME NEW k \in 1 .. N
      PROVE  /\ LinksOK(m2, c, c.packed[k], c.packed[k].tail, c.packed[k].tail)
             /\ KidsOK(m, x, x.packed[k]) => KidsOK(m2, c, c.packed[k])
  <2>1. PICK p \in ObjectsOf(U), h \in Nat, e \in Nat :
          p = x.packed[k] /\ p = c.packed[k] /\ h = p.head /\ e = p.tail
    <3>1. x.packed[k] \in ObjectsOf(U) /\ x.packed[k] = c.packed[k]
      BY <1>1, ContextFacts
    <3> QED BY <3>1, ObjectFacts
  <2>2. tl <= h /\ e <= n
    BY <1>1, <2>1 DEF Descending
  <2>3. SameIn(m, m2, p.head, e)
    BY <1>1, <2>1, <2>2 DEF SameIn, SameFrom
  <2>4. LinksOK(m, x, p, e, e)
    BY <1>1, <2>1 DEF Whole, PackedOK
  <2>5. LinksOK(m2, c, p, e, e)
    <3>1. 0 <= e /\ e <= e /\ 0 \in Nat
      BY <2>1
    <3> QED BY <1>3, <2>1, <2>3, <2>4, <3>1, LinksCarried
  <2>6. KidsOK(m, x, p) => KidsOK(m2, c, p)
    <3>1. 0 <= e /\ 0 \in Nat
      BY <2>1
    <3> QED BY <1>3, <1>4, <2>1, <2>4, <3>1, KidsCarried
  <2> QED BY <2>1, <2>5, <2>6
<1> QED BY <1>1, <1>2, <1>5 DEF Whole, PackedOK, PackedFaithful

\* Nor is the stack by a write above it.
LEMMA StackKept ==
  ASSUME NEW U, NEW n, n \in Nat, NEW m, NEW m2, NEW x \in ContextsOf(U), NEW c \in ContextsOf(U),
         c.packed = x.packed, c.current = x.current, Sound(m, n, x),
         SameFrom(m, m2, n, x.tail), SameIn(m, m2, 0, x.head),
         NEW f \in Seq(FramesOf(U)), Len(f) = Len(x.current), Matched(n, x, f, x.head),
         LevelsOK(m, n, x, f, x.head, x.tail)
  PROVE  /\ LevelsOK(m2, n, c, f, x.head, x.tail)
         /\ StackFaithful(m, x, f) => StackFaithful(m2, c, f)
<1>1. PICK L \in Nat, hd \in Nat, tl \in Nat :
        L = Len(x.current) /\ L = Len(c.current) /\ hd = x.head /\ tl = x.tail
  BY ContextFacts
<1>2. LowerLevels(x, f, c, f)
  BY <1>1 DEF LowerLevels
<1>3. HeadAbove(x, L, hd) = hd /\ TailAbove(x, L, tl) = tl
  BY <1>1 DEF HeadAbove, TailAbove
<1>4. Carries(x, c, 0)
  <2>1. Len(x.packed) \in Nat
    BY ContextFacts
  <2> QED BY <2>1 DEF Carries
<1>5. TreesKept(m, m2, x, 0)
  <2>1. PackedSame(m, m2, x)
    BY PackedKept DEF Sound
  <2> QED BY <2>1 DEF PackedSame, TreesKept
<1>6. Stacked(x, hd)
  BY <1>1, StackedIs DEF Sound
<1>7. LevelsOK(m2, n, c, f, hd, tl)
  <2>1. /\ hd = HeadAbove(x, Len(c.current), hd) /\ tl <= TailAbove(x, Len(c.current), tl)
        /\ 0 <= TailAbove(x, Len(c.current), tl) /\ 0 \in Nat
    BY <1>1, <1>3
  <2> QED BY <1>1, <1>2, <1>4, <1>6, <2>1, LevelsCarried
<1>8. ASSUME StackFaithful(m, x, f) PROVE StackFaithful(m2, c, f)
  <2>1. 0 <= TailAbove(x, Len(c.current), tl) /\ 0 \in Nat
    BY <1>1, <1>3
  <2> QED BY <1>1, <1>2, <1>4, <1>5, <1>8, <2>1, FaithfulCarried
<1> QED BY <1>1, <1>7, <1>8

\* A field more for the innermost object.
LEMMA LevelsRaised ==
  ASSUME NEW U, NEW n, NEW m, NEW x \in ContextsOf(U), x.current # <<>>, NEW f,
         NEW hd, hd \in Nat, NEW tl, LevelsOK(m, n, x, f, hd, tl)
  PROVE  LevelsOK(m, n, x, f, hd + 1, tl)
<1>1. PICK L \in Nat : L # 0 /\ L = Len(x.current)
  BY TopFacts
<1>2. \A d \in 0 .. L : HeadAbove(x, d, hd + 1) = IF d < L THEN HeadAbove(x, d, hd) ELSE hd + 1
  BY <1>1 DEF HeadAbove
<1>3. HeadAbove(x, L, hd) = hd
  BY <1>1 DEF HeadAbove
<1>4. ASSUME NEW o \in ObjectsOf(U), NEW t, LinksOK(m, x, o, hd, t)
      PROVE  LinksOK(m, x, o, hd + 1, t)
  <2>1. ASSUME NEW j \in 1 .. Len(o.links) PROVE o.head + o.links[j].position < hd + 1
    <3>1. PICK h \in Nat, p \in Nat : h = o.head /\ p = o.links[j].position
      BY ObjectFacts
    <3>2. h + p < hd
      BY <1>4, <3>1 DEF LinksOK
    <3> QED BY <3>1, <3>2
  <2> QED BY <1>4, <2>1 DEF LinksOK
<1>5. ASSUME NEW d \in 1 .. L
      PROVE  /\ LevelOK(m, n, x, x.current[d], f[d], HeadAbove(x, d, hd + 1), TailAbove(x, d, tl))
             /\ \A c \in 1 .. d : x.current[d].tail <= x.current[c].tail
  <2>1. /\ LevelOK(m, n, x, x.current[d], f[d], HeadAbove(x, d, hd), TailAbove(x, d, tl))
        /\ \A c \in 1 .. d : x.current[d].tail <= x.current[c].tail
    BY <1>1 DEF LevelsOK
  <2>2. CASE d < L
    BY <1>2, <2>1, <2>2
  <2>3. CASE d = L
    <3>1. PICK o \in ObjectsOf(U) : o = x.current[d]
      BY <1>1, ContextFacts
    <3>2. LevelOK(m, n, x, o, f[d], hd, TailAbove(x, d, tl))
      BY <1>3, <2>1, <2>3, <3>1
    <3>3. LinksOK(m, x, o, hd + 1, TailAbove(x, d, tl))
      BY <1>4, <3>2 DEF LevelOK
    <3>4. LevelOK(m, n, x, o, f[d], hd + 1, TailAbove(x, d, tl))
      BY <3>2, <3>3 DEF LevelOK
    <3> QED BY <1>2, <2>1, <2>3, <3>1, <3>4
  <2> QED BY <2>2, <2>3
<1>6. HeadAbove(x, 0, hd + 1) = 0
  <2>1. HeadAbove(x, 0, hd) = 0
    BY DEF LevelsOK
  <2> QED BY <1>1, <1>2, <2>1
<1> QED BY <1>1, <1>5, <1>6 DEF LevelsOK

\* Context c is x, no longer successful.
Failing(x, c) ==
  /\ c.head = x.head /\ c.tail = x.tail /\ c.current = x.current /\ c.packed = x.packed
  /\ c.map = x.map /\ c.bad = x.bad /\ c.lost = x.lost /\ ~c.successful

LEMMA FailStep ==
  ASSUME NEW U, NEW n, n \in Nat, NEW m, NEW x, NEW f, Typed(U, m, n, x, f),
         NEW fl, fl \in Nat, WInv(m, n, x, f, fl),
         NEW c \in ContextsOf(U), Failing(x, c)
  PROVE  WInv(m, n, c, f, fl)
<1>1. x \in ContextsOf(U) /\ f \in Seq(FramesOf(U)) /\ Sound(m, n, x)
  BY DEF Typed, WInv
<1>2. Sound(m, n, c)
  BY <1>1 DEF Failing, Sound, Descending, Ascending, Shared
<1>3. ASSUME Matched(n, x, f, x.head) PROVE Matched(n, c, f, c.head)
  BY <1>3 DEF Failing, Matched, HeadAbove
<1>4. ASSUME Healthy(x, f) PROVE Good(m, n, c, f)
  <2>1. Good(m, n, x, f) /\ Len(x.current) = Len(f) /\ Matched(n, x, f, x.head)
    BY <1>4 DEF WInv, Healthy
  <2>2. SameFrom(m, m, n, x.tail) /\ SameIn(m, m, 0, x.head)
    BY DEF SameFrom, SameIn
  <2>3. Descending(n, x) /\ Whole(m, n, x) /\ LevelsOK(m, n, x, f, x.head, x.tail)
    BY <1>1, <2>1 DEF Sound, Good
  <2>4. c.packed = x.packed /\ c.tail = x.tail /\ c.current = x.current /\ c.head = x.head
    BY DEF Failing
  <2>5. Whole(m, n, c)
    BY <1>1, <2>2, <2>3, <2>4, WholeKept
  <2>6. LevelsOK(m, n, c, f, x.head, x.tail)
    BY <1>1, <2>1, <2>2, <2>3, <2>4, StackKept
  <2>7. ~c.successful
    BY DEF Failing
  <2> QED BY <2>4, <2>5, <2>6, <2>7 DEF Good
<1>5. Len(c.current) = Len(x.current) /\ c.bad = x.bad /\ c.lost = x.lost /\ ~c.successful
  BY DEF Failing
<1> QED BY <1>2, <1>3, <1>4, <1>5 DEF WInv, Healthy

\* Context c is x with a field more, m2 is the block with that written.
Raised(x, c) ==
  /\ c.head = x.head + 1 /\ c.tail = x.tail /\ c.current = x.current /\ c.packed = x.packed
  /\ c.map = x.map /\ c.bad = x.bad /\ c.lost = x.lost /\ c.successful = x.successful

LEMMA RaisedStep ==
  ASSUME NEW U, NEW n, n \in Nat, NEW m, NEW x, NEW f, Typed(U, m, n, x, f), f # <<>>,
         NEW fl, fl \in Nat, WInv(m, n, x, f, fl), x.head < x.tail,
         NEW m2, SameFrom(m, m2, n, x.tail), SameIn(m, m2, 0, x.head),
         NEW c, c \in ContextsOf(U), Raised(x, c)
  PROVE  WInv(m2, n, c, f, fl)
<1>1. /\ x \in ContextsOf(U) /\ f \in Seq(FramesOf(U)) /\ Sound(m, n, x)
  BY DEF Typed, WInv
<1>2. PICK hd \in Nat, tl \in Nat : hd = x.head /\ tl = x.tail /\ hd < tl /\ tl <= n
  BY <1>1, ContextFacts DEF Sound, Descending
<1>3. /\ c.head = hd + 1 /\ c.tail = tl /\ c.current = x.current
      /\ c.packed = x.packed /\ c.map = x.map /\ c.bad = x.bad /\ c.lost = x.lost /\ c.successful = x.successful
  BY <1>2 DEF Raised
<1>8. Sound(m2, n, c)
  <2>1. Descending(n, c)
    BY <1>1, <1>2, <1>3 DEF Sound, Descending
  <2>2. Ascending(n, c)
    <3>1. \A d \in 1 .. Len(x.current) :
             /\ x.current[d].head <= hd /\ x.current[d].tail <= n /\ x.current[d].head \in Nat
             /\ x.lost = 0 => ~x.current[d].cut
             /\ \A e \in 1 .. d : x.current[e].head <= x.current[d].head
      BY <1>1, <1>2, ContextFacts DEF Sound, Ascending
    <3>2. \A d \in 1 .. Len(x.current) : x.current[d].head <= hd + 1
      BY <1>2, <3>1
    <3> QED BY <1>3, <3>1, <3>2 DEF Ascending
  <2>3. Shared(m2, x)
    BY <1>1, SharedKept DEF Sound
  <2>4. Shared(m2, c)
    BY <1>3, <2>3 DEF Shared
  <2> QED BY <2>1, <2>2, <2>4 DEF Sound
<1>9. ASSUME Matched(n, x, f, x.head) PROVE Matched(n, c, f, c.head)
  <2>1. PICK L \in Nat : L = Len(x.current) /\ L = Len(f)
    BY <1>1, <1>9, ContextFacts DEF Matched
  <2>2. ASSUME NEW d \in 1 .. L, f[d].snap # NoSnapshot
        PROVE  f[d].snap.head <= HeadAbove(c, d, hd + 1)
    <3>1. f[d].snap.head <= HeadAbove(x, d, hd)
      BY <1>2, <1>9, <2>1, <2>2 DEF Matched
    <3>0. /\ HeadAbove(c, d, hd + 1) = IF d < L THEN x.current[d + 1].head ELSE hd + 1
          /\ HeadAbove(x, d, hd) = IF d < L THEN x.current[d + 1].head ELSE hd
      <4>1. \A z : HeadAbove(c, d, z) = IF d < L THEN x.current[d + 1].head ELSE z
        BY <1>3, <2>1 DEF HeadAbove
      <4>2. \A z : HeadAbove(x, d, z) = IF d < L THEN x.current[d + 1].head ELSE z
        BY <2>1 DEF HeadAbove
      <4> QED BY <4>1, <4>2
    <3>2. CASE d < L
      <4>1. HeadAbove(c, d, hd + 1) = HeadAbove(x, d, hd)
        BY <3>0, <3>2
      <4> QED BY <3>1, <4>1
    <3>3. CASE d = L
      <4>1. HeadAbove(x, d, hd) = hd /\ HeadAbove(c, d, hd + 1) = hd + 1
        BY <2>1, <3>0, <3>3
      <4>2. f[d] \in FramesOf(U)
        BY <1>1, <2>1
      <4>3. f[d].snap.head \in Nat
        BY <4>2, FrameFacts
      <4> QED BY <1>2, <3>1, <4>1, <4>3
    <3> QED BY <2>1, <3>2, <3>3
  <2> QED BY <1>3, <1>9, <2>1, <2>2 DEF Matched
<1>10. ASSUME Healthy(x, f) PROVE Good(m2, n, c, f)
  <2>1. Good(m, n, x, f) /\ Len(x.current) = Len(f) /\ Matched(n, x, f, x.head)
    BY <1>10 DEF WInv, Healthy
  <2>2. /\ Descending(n, x) /\ Whole(m, n, x) /\ LevelsOK(m, n, x, f, x.head, x.tail)
        /\ x.successful => PackedFaithful(m, x) /\ StackFaithful(m, x, f)
    BY <1>1, <2>1 DEF Sound, Good
  <2>3. c.packed = x.packed /\ c.tail = x.tail /\ c.current = x.current
    BY <1>2, <1>3
  <2>4. Whole(m2, n, c)
    BY <1>1, <1>3, <2>2, <2>3, WholeKept
  <2>5. LevelsOK(m2, n, c, f, x.head, x.tail)
    BY <1>1, <1>3, <2>1, <2>2, <2>3, StackKept
  <2>8. PackedFaithful(m, x) => PackedFaithful(m2, c)
    BY <1>1, <1>3, <2>2, <2>3, WholeKept
  <2>9. StackFaithful(m, x, f) => StackFaithful(m2, c, f)
    BY <1>1, <1>3, <2>1, <2>2, <2>3, StackKept
  <2>6. c.current # <<>>
    BY <1>1, <1>3, <2>1, FrontFacts
  <2>7. LevelsOK(m2, n, c, f, hd + 1, tl)
    BY <1>2, <1>3, <2>5, <2>6, LevelsRaised
  <2> QED BY <1>3, <2>2, <2>4, <2>7, <2>8, <2>9 DEF Good
<1>11. Len(c.current) = Len(x.current)
  BY <1>3
<1> QED BY <1>3, <1>8, <1>9, <1>10, <1>11 DEF WInv, Healthy

LEMMA EmbedStep ==
  ASSUME NEW U, NEW n, n \in Nat, NEW m, NEW x, NEW f, Typed(U, m, n, x, f), f # <<>>,
         NEW fl, fl \in Nat, WInv(m, n, x, f, fl), x.head < x.tail, NEW v \in Nat,
         NEW m2, m2 = [m EXCEPT ![x.head] = v], NEW c, c = [x EXCEPT !.head = @ + 1]
  PROVE  Written(m2, n, c, f, fl)
<1>1. x \in ContextsOf(U) /\ f \in Seq(FramesOf(U)) /\ m \in [0 .. n - 1 -> Nat]
  BY DEF Typed, BlockType
<1>2. PICK hd \in Nat, tl \in Nat : hd = x.head /\ tl = x.tail /\ hd < tl /\ tl <= n
  BY <1>1, ContextFacts DEF WInv, Sound, Descending
<1>3. PICK k \in Nat : k = hd + 1
  BY <1>2
<1>4. c = [x EXCEPT !.head = k]
  BY <1>2, <1>3
<1>5. c \in ContextsOf(U) /\ Raised(x, c)
  BY <1>1, <1>2, <1>3, <1>4 DEF ContextsOf, Raised
<1>6. m2 \in [0 .. n - 1 -> Nat] /\ \A a \in 0 .. n - 1 : a # hd => m2[a] = m[a]
  BY <1>1, <1>2
<1>7. SameFrom(m, m2, n, x.tail)
  BY <1>2, <1>6 DEF SameFrom
<1>8. SameIn(m, m2, 0, x.head)
  BY <1>2, <1>6 DEF SameIn
<1>9. Typed(U, m2, n, c, f)
  BY <1>1, <1>5, <1>6 DEF Typed, BlockType
<1>10. WInv(m2, n, c, f, fl)
  BY <1>5, <1>7, <1>8, RaisedStep
<1> QED BY <1>9, <1>10 DEF Written

\* Context c with frames g is x with frames f and an object o begun, with frame e.
Beginning(x, f, c, g, o, e) ==
  /\ c.head = x.head /\ c.tail = x.tail /\ c.packed = x.packed
  /\ c.map = x.map /\ c.bad = x.bad /\ c.lost = x.lost /\ c.successful = x.successful
  /\ Len(c.current) = Len(x.current) + 1 /\ Len(g) = Len(f) + 1
  /\ \A d \in 1 .. Len(x.current) : c.current[d] = x.current[d]
  /\ \A d \in 1 .. Len(f) : g[d] = f[d]
  /\ c.current[Len(x.current) + 1] = o /\ g[Len(f) + 1] = e
  /\ o.head = x.head /\ o.tail = x.tail /\ o.links = <<>> /\ ~o.cut /\ o.kids = {}
  /\ e.at = x.head /\ e.held = {} /\ e.snap = NoSnapshot

LEMMA BeginLevels ==
  ASSUME NEW U, NEW n, n \in Nat, NEW m, NEW x \in ContextsOf(U), NEW f, Len(f) = Len(x.current),
         Whole(m, n, x), LevelsOK(m, n, x, f, x.head, x.tail),
         NEW c \in ContextsOf(U), NEW g, NEW o \in ObjectsOf(U), NEW e, Beginning(x, f, c, g, o, e)
  PROVE  LevelsOK(m, n, c, g, c.head, c.tail)
<1>1. PICK L \in Nat, hd \in Nat, tl \in Nat :
        /\ L = Len(x.current) /\ L = Len(f) /\ Len(c.current) = L + 1
        /\ hd = x.head /\ tl = x.tail /\ hd = c.head /\ tl = c.tail
  BY ContextFacts DEF Beginning
<1>2. /\ c.packed = x.packed /\ c.current[L + 1] = o /\ g[L + 1] = e
      /\ \A d \in 1 .. L : c.current[d] = x.current[d] /\ g[d] = f[d]
      /\ o.head = hd /\ o.tail = tl /\ o.links = <<>> /\ e.held = {} /\ e.snap = NoSnapshot
  BY <1>1 DEF Beginning
<1>3. \A d \in 0 .. L : /\ HeadAbove(x, d, hd) = IF d < L THEN x.current[d + 1].head ELSE hd
                        /\ TailAbove(x, d, tl) = IF d < L THEN x.current[d + 1].tail ELSE tl
  BY <1>1 DEF HeadAbove, TailAbove
<1>4. \A d \in 0 .. L : /\ HeadAbove(c, d, hd) = c.current[d + 1].head
                        /\ TailAbove(c, d, tl) = c.current[d + 1].tail
  BY <1>1 DEF HeadAbove, TailAbove
<1>5. \A d \in 0 .. L : /\ HeadAbove(c, d, hd) = HeadAbove(x, d, hd)
                        /\ TailAbove(c, d, tl) = TailAbove(x, d, tl)
  <2>1. ASSUME NEW d \in 0 .. L
        PROVE  /\ HeadAbove(c, d, hd) = HeadAbove(x, d, hd)
               /\ TailAbove(c, d, tl) = TailAbove(x, d, tl)
    <3>1. CASE d < L
      <4>1. d + 1 \in 1 .. L
        BY <3>1
      <4> QED BY <1>2, <1>3, <1>4, <3>1, <4>1
    <3>2. CASE d = L
      BY <1>2, <1>3, <1>4, <3>2
    <3> QED BY <1>1, <3>1, <3>2
  <2> QED BY <2>1
<1>6. HeadAbove(x, L + 1, hd) = hd /\ HeadAbove(c, L + 1, hd) = hd /\ TailAbove(c, L + 1, tl) = tl
  BY <1>1 DEF HeadAbove, TailAbove
<1>7. /\ HeadAbove(x, 0, hd) = 0
      /\ \A d \in 1 .. L :
           /\ LevelOK(m, n, x, x.current[d], f[d], HeadAbove(x, d, hd), TailAbove(x, d, tl))
           /\ \A b \in 1 .. d : x.current[d].tail <= x.current[b].tail
  BY <1>1 DEF LevelsOK
<1>8. HeadAbove(c, 0, hd) = 0
  BY <1>1, <1>5, <1>7
<1>9. LevelOK(m, n, c, o, e, hd, tl)
  <2>1. Boundary(n, c, tl)
    <3>1. Len(x.packed) \in 0 .. Len(x.packed)
      BY ContextFacts
    <3>2. tl = Floor(n, c, Len(x.packed))
      BY <1>1, <1>2 DEF Whole, Tight, Floor
    <3> QED BY <1>2, <3>1, <3>2 DEF Boundary
  <2>2. LinksOK(m, c, o, hd, tl)
    <3>1. 1 .. Len(o.links) = {}
      BY <1>2
    <3> QED BY <3>1 DEF LinksOK
  <2>3. KeepsOK(c, e, tl)
    BY <1>2 DEF KeepsOK
  <2>4. tl <= o.tail
    BY <1>1, <1>2
  <2> QED BY <1>2, <2>1, <2>2, <2>3, <2>4 DEF LevelOK
<1>10. ASSUME NEW d \in 1 .. L
       PROVE  LevelOK(m, n, c, c.current[d], g[d], HeadAbove(c, d, hd), TailAbove(c, d, tl))
  <2>1. LevelOK(m, n, x, x.current[d], f[d], HeadAbove(x, d, hd), TailAbove(x, d, tl))
    BY <1>7
  <2>2. PICK o2, e2, h2, t2 :
          o2 = x.current[d] /\ e2 = f[d] /\ h2 = HeadAbove(x, d, hd) /\ t2 = TailAbove(x, d, tl)
    OBVIOUS
  <2>3. LevelOK(m, n, x, o2, e2, h2, t2)
    BY <2>1, <2>2
  <2>4. LevelOK(m, n, c, o2, e2, h2, t2)
    BY <1>2, <2>3 DEF LevelOK, LinksOK, KeepsOK, Stays, Boundary, Floor
  <2>5. d \in 0 .. L
    OBVIOUS
  <2> QED BY <1>2, <1>5, <2>2, <2>4, <2>5
<1>11. \A d \in 1 .. L : tl <= x.current[d].tail
  <2>1. ASSUME NEW d \in 1 .. L PROVE tl <= x.current[d].tail
    <3>1. L \in 1 .. L /\ TailAbove(x, L, tl) = tl
      BY <1>1, <1>3
    <3>2. tl <= x.current[L].tail
      BY <1>7, <3>1 DEF LevelOK
    <3>3. x.current[L].tail <= x.current[d].tail
      <4>1. d \in 1 .. L /\ L \in 1 .. L
        BY <3>1
      <4> QED BY <1>7, <4>1
    <3>4. x.current[L].tail \in Nat /\ x.current[d].tail \in Nat
      BY <1>1, <3>1, ContextFacts
    <3> QED BY <3>2, <3>3, <3>4
  <2> QED BY <2>1
<1>12. ASSUME NEW d \in 1 .. L + 1
       PROVE  /\ LevelOK(m, n, c, c.current[d], g[d], HeadAbove(c, d, hd), TailAbove(c, d, tl))
              /\ \A b \in 1 .. d : c.current[d].tail <= c.current[b].tail
  <2>1. CASE d \in 1 .. L
    <3>1. \A b \in 1 .. d : b \in 1 .. L
      BY <2>1
    <3> QED BY <1>2, <1>7, <1>10, <2>1, <3>1
  <2>2. CASE d = L + 1
    <3>1. \A b \in 1 .. d : b \in 1 .. L \/ b = L + 1
      BY <2>2
    <3>2. LevelOK(m, n, c, c.current[d], g[d], HeadAbove(c, d, hd), TailAbove(c, d, tl))
      BY <1>2, <1>6, <1>9, <2>2
    <3>3. \A b \in 1 .. d : tl <= c.current[b].tail
      BY SMTT(30), <1>1, <1>2, <1>11, <3>1
    <3> QED BY <1>2, <2>2, <3>2, <3>3
  <2> QED BY <2>1, <2>2
<1> QED BY <1>1, <1>8, <1>12 DEF LevelsOK

LEMMA BeginSound ==
  ASSUME NEW U, NEW n, n \in Nat, NEW m, NEW x \in ContextsOf(U), NEW f,
         Sound(m, n, x),
         NEW c \in ContextsOf(U), NEW g, NEW o \in ObjectsOf(U), NEW e, Beginning(x, f, c, g, o, e)
  PROVE  Sound(m, n, c)
<1>1. PICK L \in Nat, hd \in Nat, tl \in Nat :
        /\ L = Len(x.current) /\ Len(c.current) = L + 1
        /\ hd = x.head /\ tl = x.tail /\ hd = c.head /\ tl <= n
  BY ContextFacts DEF Beginning, Sound, Descending
<1>2. /\ c.current[L + 1] = o /\ \A d \in 1 .. L : c.current[d] = x.current[d]
      /\ o.head = hd /\ o.tail = tl /\ ~o.cut /\ c.lost = x.lost
  BY <1>1 DEF Beginning
<1>3. \A d \in 1 .. L : /\ x.current[d].head <= hd /\ x.current[d].tail <= n
                        /\ x.lost = 0 => ~x.current[d].cut
                        /\ \A b \in 1 .. d : x.current[b].head <= x.current[d].head
  BY <1>1 DEF Sound, Ascending
<1>4. ASSUME NEW d \in 1 .. L + 1
      PROVE  /\ c.current[d].head <= hd /\ c.current[d].tail <= n
             /\ c.lost = 0 => ~c.current[d].cut
             /\ \A b \in 1 .. d : c.current[b].head <= c.current[d].head
  <2>1. CASE d \in 1 .. L
    <3>1. \A b \in 1 .. d : b \in 1 .. L
      BY <2>1
    <3> QED BY <1>2, <1>3, <2>1, <3>1
  <2>2. CASE d = L + 1
    <3>1. \A b \in 1 .. d : b \in 1 .. L \/ b = L + 1
      BY <2>2
    <3>2. \A b \in 1 .. d : c.current[b].head <= hd
      BY SMTT(30), <1>1, <1>2, <1>3, <3>1
    <3> QED BY <1>1, <1>2, <2>2, <3>2
  <2> QED BY <2>1, <2>2
<1>5. Ascending(n, c)
  BY <1>1, <1>4 DEF Ascending
<1>6. Descending(n, c) /\ Shared(m, c)
  BY DEF Sound, Descending, Shared, Beginning
<1> QED BY <1>5, <1>6 DEF Sound

LEMMA BeginMatched ==
  ASSUME NEW U, NEW n, n \in Nat, NEW x \in ContextsOf(U), NEW f, Matched(n, x, f, x.head),
         NEW c \in ContextsOf(U), NEW g, NEW o, NEW e, Beginning(x, f, c, g, o, e)
  PROVE  Matched(n, c, g, c.head)
<1>1. PICK L \in Nat, hd \in Nat :
        /\ L = Len(x.current) /\ L = Len(f) /\ Len(c.current) = L + 1 /\ Len(g) = L + 1
        /\ hd = x.head /\ hd = c.head
  BY ContextFacts DEF Beginning, Matched
<1>2. /\ c.current[L + 1] = o /\ g[L + 1] = e
      /\ \A d \in 1 .. L : c.current[d] = x.current[d] /\ g[d] = f[d]
      /\ o.head = hd /\ e.at = hd /\ e.snap = NoSnapshot
  BY <1>1 DEF Beginning
<1>3. \A d \in 0 .. L : HeadAbove(x, d, hd) = IF d < L THEN x.current[d + 1].head ELSE hd
  BY <1>1 DEF HeadAbove
<1>4. \A d \in 0 .. L : HeadAbove(c, d, hd) = c.current[d + 1].head
  BY <1>1 DEF HeadAbove
<1>5. ASSUME NEW d \in 1 .. L PROVE HeadAbove(c, d, hd) = HeadAbove(x, d, hd)
  <2>1. CASE d < L
    <3>1. d + 1 \in 1 .. L
      BY <2>1
    <3> QED BY <1>2, <1>3, <1>4, <2>1, <3>1
  <2>2. CASE d = L
    BY <1>2, <1>3, <1>4, <2>2
  <2> QED BY <2>1, <2>2
<1>6. ASSUME NEW d \in 1 .. L + 1
      PROVE  /\ g[d].at = c.current[d].head
             /\ g[d].snap # NoSnapshot =>
                  /\ c.current[d].head <= g[d].snap.head /\ g[d].snap.head <= HeadAbove(c, d, hd)
                  /\ g[d].snap.tail \in 0 .. n
  <2>1. CASE d \in 1 .. L
    BY <1>1, <1>2, <1>5, <2>1 DEF Matched
  <2>2. CASE d = L + 1
    BY <1>2, <2>2
  <2> QED BY <2>1, <2>2
<1> QED BY <1>1, <1>6 DEF Matched

LEMMA BeginFaithful ==
  ASSUME NEW U, NEW m, NEW x \in ContextsOf(U), NEW f, Len(f) = Len(x.current),
         StackFaithful(m, x, f),
         NEW c \in ContextsOf(U), NEW g, NEW o, NEW e, Beginning(x, f, c, g, o, e)
  PROVE  StackFaithful(m, c, g)
<1>1. PICK L \in Nat : L = Len(x.current) /\ L = Len(f) /\ Len(c.current) = L + 1
  BY ContextFacts DEF Beginning
<1>2. /\ c.packed = x.packed /\ c.current[L + 1] = o /\ g[L + 1] = e
      /\ \A d \in 1 .. L : c.current[d] = x.current[d] /\ g[d] = f[d]
      /\ o.links = <<>> /\ o.kids = {} /\ e.held = {}
  BY <1>1 DEF Beginning
<1>3. KidsOK(m, c, o)
  <2>1. 1 .. Len(o.links) = {}
    BY <1>2
  <2> QED BY <1>2, <2>1 DEF KidsOK
<1>4. ASSUME NEW d \in 1 .. L + 1
      PROVE  /\ KidsOK(m, c, c.current[d])
             /\ \A h \in g[d].held : h.tree = Tree(m, c.packed[h.objidx])
  <2>1. CASE d \in 1 .. L
    <3>1. /\ KidsOK(m, x, x.current[d])
          /\ \A h \in f[d].held : h.tree = Tree(m, x.packed[h.objidx])
      BY <1>1, <2>1 DEF StackFaithful
    <3>2. KidsOK(m, c, x.current[d])
      BY <1>2, <3>1 DEF KidsOK, KidAt
    <3> QED BY <1>2, <2>1, <3>1, <3>2
  <2>2. CASE d = L + 1
    BY <1>2, <1>3, <2>2
  <2> QED BY <2>1, <2>2
<1> QED BY <1>1, <1>4 DEF StackFaithful

LEMMA BeginStep ==
  ASSUME NEW V, NEW n, n \in Nat, NEW m, NEW x, NEW f, Typed(V, m, n, x, f),
         NEW fl, fl \in Nat, WInv(m, n, x, f, fl), x.successful,
         NEW c \in ContextsOf(V), NEW g \in Seq(FramesOf(V)),
         NEW o \in ObjectsOf(V), NEW e, Beginning(x, f, c, g, o, e)
  PROVE  WInv(m, n, c, g, fl)
<1>1. x \in ContextsOf(V) /\ f \in Seq(FramesOf(V))
  BY DEF Typed
<1>2. /\ Sound(m, n, x) /\ Len(x.current) = Len(f) /\ Cardinality(x.bad) <= fl /\ x.lost <= fl
      /\ Matched(n, x, f, x.head) /\ (Healthy(x, f) => Good(m, n, x, f))
  BY DEF WInv
<1>3. PICK L \in Nat : L = Len(x.current) /\ L = Len(f)
  BY <1>1, <1>2, ContextFacts
<1>4. Len(c.current) = L + 1 /\ Len(g) = L + 1 /\ c.bad = x.bad /\ c.lost = x.lost /\ c.packed = x.packed /\ c.tail = x.tail
  BY <1>3 DEF Beginning
<1>5. Sound(m, n, c)
  BY <1>1, <1>2, BeginSound
<1>6. Matched(n, c, g, c.head)
  BY <1>1, <1>2, BeginMatched
<1>7. ASSUME Healthy(c, g) PROVE Good(m, n, c, g)
  <2>1. Good(m, n, x, f)
    BY <1>2, <1>4, <1>7 DEF Healthy
  <2>2. /\ Whole(m, n, x) /\ LevelsOK(m, n, x, f, x.head, x.tail)
        /\ PackedFaithful(m, x) /\ StackFaithful(m, x, f)
    BY <2>1 DEF Good
  <2>3. LevelsOK(m, n, c, g, c.head, c.tail)
    BY <1>1, <1>2, <2>2, BeginLevels
  <2>4. StackFaithful(m, c, g)
    BY <1>1, <1>2, <2>2, BeginFaithful
  <2>5. Whole(m, n, c)
    <3>1. c.packed = x.packed /\ c.tail = x.tail /\ Tight(n, x) /\ PackedOK(m, x)
      BY <1>4, <2>2 DEF Whole
    <3>2. Tight(n, c)
      BY <3>1, Zenon DEF Tight, Floor
    <3>3. PackedOK(m, c)
      BY <3>1, SMT DEF PackedOK, LinksOK, Stays
    <3> QED BY <3>2, <3>3 DEF Whole
  <2>6. PackedFaithful(m, c)
    BY <1>4, <2>2 DEF PackedFaithful, KidsOK, KidAt
  <2> QED BY <2>3, <2>4, <2>5, <2>6 DEF Good
<1>8. Len(c.current) = Len(g) /\ Len(c.current) <= Len(g)
  BY <1>3, <1>4
<1> QED BY <1>2, <1>4, <1>5, <1>6, <1>7, <1>8 DEF WInv

\* A call that begins an object.
LEMMA PushStep ==
  ASSUME NEW U, NEW n, n \in Nat, NEW m, NEW x, NEW f, Typed(U, m, n, x, f),
         NEW fl, fl \in Nat, WInv(m, n, x, f, fl), x.successful,
         NEW c, c = [x EXCEPT !.current = Append(@, Object(x.head, x.tail))],
         NEW g, g = Append(f, Frame(x.head))
  PROVE  Written(m, n, c, g, fl)
<1>1. PICK V : V = U \cup {{}}
  OBVIOUS
<1>2. U \subseteq V /\ {} \in V
  BY <1>1
<1>3. Typed(V, m, n, x, f)
  BY <1>2, Widen DEF Typed
<1>4. x \in ContextsOf(V) /\ f \in Seq(FramesOf(V)) /\ BlockType(m, n)
  BY <1>3 DEF Typed
<1>5. PICK hd \in Nat, tl \in Nat, s \in Seq(ObjectsOf(V)) : hd = x.head /\ tl = x.tail /\ s = x.current
  BY <1>4, ContextFacts
<1>6. PICK o : o = Object(hd, tl)
  OBVIOUS
<1>7. o \in ObjectsOf(V) /\ o.head = hd /\ o.tail = tl /\ o.links = <<>> /\ ~o.cut /\ o.kids = {}
  BY <1>2, <1>6 DEF Object, ObjectsOf
<1>8. PICK e : e = Frame(hd)
  OBVIOUS
<1>9. e \in FramesOf(V) /\ e.at = hd /\ e.held = {} /\ e.snap = NoSnapshot
  BY <1>8 DEF Frame, FramesOf, NoSnapshot
<1>10. PICK s2 \in Seq(ObjectsOf(V)) : s2 = Append(s, o)
  <2>1. Append(s, o) \in Seq(ObjectsOf(V))
    BY <1>5, <1>7, AppendProperties
  <2> QED BY <2>1
<1>11. Len(s2) = Len(s) + 1 /\ s2[Len(s) + 1] = o /\ \A d \in 1 .. Len(s) : s2[d] = s[d]
  BY <1>5, <1>7, <1>10, AppendProperties
<1>12. g \in Seq(FramesOf(V)) /\ Len(g) = Len(f) + 1 /\ g[Len(f) + 1] = e
       /\ \A d \in 1 .. Len(f) : g[d] = f[d]
  BY <1>4, <1>5, <1>8, <1>9, AppendProperties
<1>13. c = [x EXCEPT !.current = s2]
  BY <1>5, <1>6, <1>10
<1>14. /\ c \in ContextsOf(V) /\ c.current = s2
       /\ c.head = x.head /\ c.tail = x.tail /\ c.packed = x.packed
       /\ c.map = x.map /\ c.bad = x.bad /\ c.lost = x.lost /\ c.successful = x.successful
  BY <1>4, <1>10, <1>13 DEF ContextsOf
<1>15. Beginning(x, f, c, g, o, e)
  BY ZenonT(30), <1>5, <1>7, <1>9, <1>11, <1>12, <1>14 DEF Beginning
<1>16. Typed(V, m, n, c, g)
  BY <1>4, <1>12, <1>14 DEF Typed
<1>22. WInv(m, n, c, g, fl)
  BY <1>3, <1>4, <1>7, <1>12, <1>14, <1>15, BeginStep
<1> QED BY <1>16, <1>22 DEF Written

\* A push without memory: the context has no such object.
LEMMA PushRefusedStep ==
  ASSUME NEW U, NEW n, n \in Nat, NEW m, NEW x, NEW f, Typed(U, m, n, x, f),
         NEW fl, fl \in Nat, WInv(m, n, x, f, fl),
         NEW c, c = [x EXCEPT !.successful = FALSE],
         NEW g, g = Append(f, Frame(x.head))
  PROVE  Written(m, n, c, g, fl + 1)
<1>1. x \in ContextsOf(U) /\ f \in Seq(FramesOf(U)) /\ BlockType(m, n)
  BY DEF Typed
<1>2. c \in ContextsOf(U) /\ Failing(x, c)
  BY <1>1 DEF ContextsOf, Failing
<1>3. WInv(m, n, c, f, fl)
  BY <1>2, FailStep
<1>4. Frame(x.head) \in FramesOf(U)
  BY <1>1, ContextFacts DEF Frame, FramesOf, NoSnapshot
<1>5. g \in Seq(FramesOf(U)) /\ Len(g) = Len(f) + 1
  BY <1>1, <1>4, AppendProperties
<1>6. Typed(U, m, n, c, g)
  BY <1>1, <1>2, <1>5 DEF Typed
<1>7. /\ Sound(m, n, c) /\ Len(c.current) <= Len(f) /\ Cardinality(c.bad) <= fl /\ c.lost <= fl
  BY <1>3 DEF WInv
<1>8. PICK L \in Nat, F \in Nat : L = Len(c.current) /\ F = Len(f) /\ L <= F
  <2>1. Len(c.current) \in Nat
    BY <1>2, ContextFacts
  <2>2. Len(f) \in Nat
    BY <1>1, LenProperties
  <2> QED BY <1>7, <2>1, <2>2
<1>9. Len(c.current) # Len(g) /\ Len(c.current) <= Len(g)
  BY <1>5, <1>8
<1>10. Cardinality(c.bad) <= fl + 1 /\ c.lost <= fl + 1
  <2>1. Cardinality(c.bad) \in Nat /\ c.lost \in Nat
    BY <1>2, ContextFacts, BadFacts
  <2> QED BY <1>7, <2>1
<1>11. ~c.successful /\ fl + 1 # 0 /\ fl + 1 \in Nat
  BY <1>2 DEF Failing
<1>12. WInv(m, n, c, g, fl + 1)
  BY <1>7, <1>9, <1>10, <1>11 DEF WInv, Healthy
<1> QED BY <1>6, <1>11, <1>12 DEF Written

\* A field that does not fit any more.
LEMMA RoomlessStep ==
  ASSUME NEW U, NEW n, n \in Nat, NEW m, NEW x, NEW f, Typed(U, m, n, x, f),
         NEW fl, fl \in Nat, WInv(m, n, x, f, fl),
         NEW c, c = [x EXCEPT !.successful = FALSE, !.roomless = TRUE]
  PROVE  Written(m, n, c, f, fl)
<1>1. x \in ContextsOf(U) /\ f \in Seq(FramesOf(U)) /\ BlockType(m, n)
  BY DEF Typed
<1>2. PICK y : y = [x EXCEPT !.successful = FALSE]
  OBVIOUS
<1>3. y \in ContextsOf(U) /\ Failing(x, y)
  BY <1>1, <1>2 DEF ContextsOf, Failing
<1>4. c = [y EXCEPT !.roomless = TRUE]
  BY <1>2
<1>5. c \in ContextsOf(U) /\ Failing(x, c)
  BY <1>3, <1>4 DEF ContextsOf, Failing
<1>6. WInv(m, n, c, f, fl)
  BY <1>5, FailStep
<1>7. Typed(U, m, n, c, f)
  BY <1>1, <1>5 DEF Typed
<1> QED BY <1>6, <1>7 DEF Written

\* Context y is x without its innermost object.
Dropped(U, x, y) ==
  /\ y \in ContextsOf(U) /\ y.current = Front(x.current)
  /\ y.head = x.head /\ y.tail = x.tail /\ y.packed = x.packed /\ y.map = x.map
  /\ y.bad = x.bad /\ y.lost = x.lost /\ y.successful = x.successful

LEMMA DroppedSound ==
  ASSUME NEW U, NEW n, n \in Nat, NEW m, NEW x \in ContextsOf(U), x.current # <<>>, Sound(m, n, x),
         NEW y, Dropped(U, x, y), NEW at, at = Last(x.current).head
  PROVE  Sound(m, n, y) /\ Stacked(y, at) /\ at \in Nat /\ at <= x.head
<1>1. Descending(n, x) /\ Ascending(n, x) /\ Shared(m, x)
  BY DEF Sound
<1>2. PICK L \in Nat : L # 0 /\ L = Len(x.current) /\ Last(x.current) = x.current[L] /\ L \in 1 .. L
  BY TopFacts
<1>3. PICK hd \in Nat : hd = x.head /\ hd = y.head
  BY ContextFacts DEF Dropped
<1>4. at \in Nat /\ at <= hd
  BY <1>1, <1>2, <1>3, ContextFacts DEF Ascending
<1>5. PICK z \in ContextsOf(U) : z.current = y.current /\ z.head = at /\ z.lost = x.lost
  <2>1. /\ Popped(x) \in ContextsOf(U) /\ Popped(x).current = Front(x.current)
        /\ Popped(x).lost = x.lost
        /\ Popped(x).head = Last(x.current).head
    BY PoppedFacts
  <2> QED BY <2>1 DEF Dropped
<1>6. Ascending(n, z)
  <2>1. z.current = Front(x.current) /\ z.lost = x.lost
    BY <1>5 DEF Dropped
  <2> QED BY <1>1, <1>5, <2>1, FrontAscends
<1>7. \A d \in 1 .. Len(y.current) :
        /\ y.current[d].head <= at /\ y.current[d].tail <= n /\ y.current[d].head \in Nat
        /\ y.lost = 0 => ~y.current[d].cut
        /\ \A c \in 1 .. d : y.current[c].head <= y.current[d].head
  <2>1. y \in ContextsOf(U) /\ y.lost = x.lost
    BY DEF Dropped
  <2> QED BY <1>5, <1>6, <2>1, ContextFacts DEF Ascending
<1>8. Ascending(n, y)
  <2>1. \A d \in 1 .. Len(y.current) : y.current[d].head <= hd
    BY <1>4, <1>7
  <2> QED BY <1>3, <1>7, <2>1 DEF Ascending
<1>9. Descending(n, y) /\ Shared(m, y)
  BY <1>1 DEF Descending, Shared, Dropped
<1>10. Stacked(y, at)
  BY <1>7 DEF Stacked
<1> QED BY <1>3, <1>4, <1>8, <1>9, <1>10 DEF Sound

LEMMA DroppedGood ==
  ASSUME NEW U, NEW n, n \in Nat, NEW m, NEW x \in ContextsOf(U), x.current # <<>>, Sound(m, n, x),
         NEW f \in Seq(FramesOf(U)), Matched(n, x, f, x.head), Good(m, n, x, f),
         NEW y, Dropped(U, x, y),
         NEW at, at = Last(x.current).head, NEW t, t = Last(x.current).tail,
         NEW r, r = Revert(m, y, at, t)
  PROVE  r.asserts /\ Good(m, n, r.context, Front(f))
<1>1. /\ Sound(m, n, y) /\ Stacked(y, at) /\ at \in Nat /\ at <= x.head
  BY DroppedSound
<1>2. /\ Whole(m, n, x) /\ LevelsOK(m, n, x, f, x.head, x.tail) /\ Len(f) = Len(x.current)
      /\ (x.successful => PackedFaithful(m, x) /\ StackFaithful(m, x, f))
  BY DEF Good, Matched
<1>3. /\ y \in ContextsOf(U) /\ y.current = Front(x.current) /\ y.packed = x.packed
      /\ y.head = x.head /\ y.tail = x.tail /\ y.successful = x.successful
  BY DEF Dropped
<1>4. Whole(m, n, y)
  BY <1>2, <1>3 DEF Whole, Tight, PackedOK, LinksOK, Stays, Floor
<1>5. Carries(x, y, 0) /\ TreesKept(m, m, x, 0) /\ SameIn(m, m, 0, at)
  BY <1>3 DEF Carries, TreesKept, SameIn
<1>6. /\ LowerLevels(x, f, y, Front(f)) /\ Front(f) \in Seq(FramesOf(U)) /\ Len(Front(f)) = Len(y.current)
      /\ at = HeadAbove(x, Len(y.current), x.head)
      /\ TailAbove(x, Len(y.current), x.tail) = t
  <2>1. LowerLevels(x, f, y, Front(f)) /\ Front(f) \in Seq(FramesOf(U)) /\ Len(Front(f)) = Len(y.current)
    BY <1>2, <1>3, LowerFront
  <2>2. /\ HeadAbove(x, Len(y.current), x.head) = Last(x.current).head
        /\ TailAbove(x, Len(y.current), x.tail) = Last(x.current).tail
    BY <1>3, AboveFront
  <2> QED BY <2>1, <2>2
<1>7. x.tail <= t /\ t \in Nat /\ 0 <= t /\ Boundary(n, y, t)
  <2>1. x.tail <= t /\ Boundary(n, x, t)
    BY <1>2, LevelTop DEF LevelOK
  <2>2. t \in Nat
    BY TopFacts, ObjectFacts
  <2>3. Boundary(n, y, t)
    BY <1>3, <2>1 DEF Boundary, Floor
  <2> QED BY <2>1, <2>2, <2>3
<1>8. Stacked(x, x.head) /\ x.head \in Nat /\ x.tail \in Nat
  BY StackedIs, ContextFacts DEF Sound
<1>9. LevelsOK(m, n, y, Front(f), at, t)
  <2>1. t <= TailAbove(x, Len(y.current), x.tail)
    BY <1>6, <1>7
  <2>2. 0 <= TailAbove(x, Len(y.current), x.tail)
    BY <1>6, <1>7
  <2> QED BY <1>1, <1>2, <1>3, <1>5, <1>6, <1>7, <1>8, <2>1, <2>2, LevelsCarried
<1>10. ASSUME StackFaithful(m, x, f) PROVE StackFaithful(m, y, Front(f))
  <2>1. 0 <= TailAbove(x, Len(y.current), x.tail)
    BY <1>6, <1>7
  <2> QED BY <1>2, <1>3, <1>5, <1>6, <1>8, <1>10, <2>1, FaithfulCarried
<1>11. ASSUME PackedFaithful(m, x) PROVE PackedFaithful(m, y)
  BY <1>3, <1>11 DEF PackedFaithful, KidsOK, KidAt
<1>12. Matched(n, y, Front(f), at)
  BY <1>3, MatchedFront
<1>13. at <= y.head /\ y.tail <= t
  BY <1>1, <1>3, <1>7
<1>14. y.successful => PackedFaithful(m, y) /\ StackFaithful(m, y, Front(f))
  BY <1>2, <1>3, <1>10, <1>11
<1> QED BY <1>1, <1>3, <1>4, <1>6, <1>7, <1>9, <1>12, <1>13, <1>14, RevertGood

\* What revert does to a context, as far as its asserts hold.
Reverted(U, m, y, r, at, t) ==
  /\ r.mem = m /\ r.context \in ContextsOf(U) /\ r.context.head = at
  /\ r.context.current = y.current /\ r.context.bad = y.bad /\ r.context.lost = y.lost
  /\ r.context.successful = y.successful

LEMMA RevertedIs ==
  ASSUME NEW U, NEW n \in Nat, NEW m, NEW y \in ContextsOf(U), Sound(m, n, y),
         NEW at \in Nat, NEW t \in Nat, NEW r, r = Revert(m, y, at, t)
  PROVE  Reverted(U, m, y, r, at, t)
<1>1. Descending(n, y)
  BY DEF Sound
<1> QED BY <1>1, RevertIs DEF Reverted

\* A context with as many frames as objects, after its innermost one is given up.
LEMMA DiscardedWritten ==
  ASSUME NEW U, NEW n, n \in Nat, NEW m, NEW x, NEW f, Typed(U, m, n, x, f), Len(f) >= 2,
         NEW fl, fl \in Nat, WInv(m, n, x, f, fl), x.current # <<>>,
         NEW y, Dropped(U, x, y),
         NEW at, at = Last(x.current).head, NEW t, t = Last(x.current).tail,
         NEW r, r = Revert(m, y, at, t)
  PROVE  Outcome(n, x, fl, r, Front(f))
<1>1. x \in ContextsOf(U) /\ f \in Seq(FramesOf(U)) /\ BlockType(m, n) /\ f # <<>>
  BY DEF Typed
<1>2. /\ Sound(m, n, x) /\ Len(x.current) <= Len(f)
      /\ x.successful \/ fl = 0 => Len(x.current) = Len(f)
      /\ Cardinality(x.bad) <= fl /\ x.lost <= fl
      /\ Len(x.current) = Len(f) => Matched(n, x, f, x.head)
      /\ Healthy(x, f) => Good(m, n, x, f)
  BY DEF WInv
<1>3. Sound(m, n, y) /\ Stacked(y, at) /\ at \in Nat
  <2>1. PICK z \in ContextsOf(U) : z = x /\ z.current # <<>> /\ Sound(m, n, z) /\ Dropped(U, z, y)
    BY <1>1, <1>2
  <2>2. PICK h : h = Last(z.current).head /\ h = at
    BY <2>1
  <2>3. Sound(m, n, y) /\ Stacked(y, h) /\ h \in Nat
    BY <2>1, <2>2, DroppedSound
  <2> QED BY <2>2, <2>3
<1>4. PICK L \in Nat : /\ L # 0 /\ L = Len(x.current) /\ Last(x.current) = x.current[L] /\ L \in 1 .. L
  BY <1>1, TopFacts
<1>5. t \in 0 .. n
  <2>1. t \in Nat
    BY <1>1, TopFacts, ObjectFacts
  <2>2. t <= n
    BY <1>2, <1>4 DEF Sound, Ascending
  <2> QED BY <2>1, <2>2
<1>6. /\ y \in ContextsOf(U) /\ y.current = Front(x.current) /\ y.bad = x.bad /\ y.lost = x.lost
      /\ y.successful = x.successful
  BY DEF Dropped
<1>7. Reverted(U, m, y, r, at, t)
  <2>1. t \in Nat
    BY <1>5
  <2> QED BY <1>3, <1>6, <2>1, RevertedIs
<1>8. PICK c \in ContextsOf(U) :
        /\ c = r.context /\ c.head = at /\ c.current = Front(x.current) /\ c.bad = x.bad /\ c.lost = x.lost
        /\ c.successful = x.successful /\ r.mem = m
  BY <1>6, <1>7 DEF Reverted
<1>9. PICK e \in Seq(FramesOf(U)) : e = Front(f) /\ Len(e) = Len(f) - 1
  BY <1>1, FrontFacts
<1>10. PICK F \in Nat : F = Len(f) /\ Len(e) = F - 1 /\ Len(c.current) = L - 1 /\ L <= F
  <2>1. Len(f) \in Nat
    BY <1>1, LenProperties
  <2>2. Len(c.current) = L - 1
    BY <1>1, <1>4, <1>8, ContextFacts, FrontFacts
  <2> QED BY <1>2, <1>4, <1>9, <2>1, <2>2
<1>11. ASSUME Healthy(c, e) PROVE Healthy(x, f)
  <2>1. L - 1 = F - 1 /\ c.bad = {} /\ c.lost = 0
    BY <1>9, <1>10, <1>11 DEF Healthy
  <2> QED BY <1>4, <1>8, <1>10, <2>1 DEF Healthy
<1>12. ASSUME Healthy(x, f) PROVE r.asserts /\ Good(m, n, c, e)
  <2>1. Good(m, n, x, f) /\ Matched(n, x, f, x.head)
    BY <1>2, <1>12 DEF Healthy
  <2> QED BY <1>1, <1>2, <1>8, <1>9, <2>1, DroppedGood
<1>13. fl = 0 => Healthy(x, f)
  BY ZeroHealthy
<1>14. ASSUME r.asserts PROVE Written(m, n, c, e, fl)
  <2>1. Sound(m, n, c)
    <3>1. \A d \in 1 .. Len(y.current) : y.current[d].head <= at
      BY <1>3 DEF Stacked
    <3> QED BY <1>3, <1>5, <1>6, <1>8, <1>14, <3>1, RevertSound
  <2>2. Len(c.current) <= Len(e) /\ (x.successful \/ fl = 0 => Len(c.current) = Len(e))
    BY <1>2, <1>4, <1>9, <1>10
  <2>3. ASSUME Len(c.current) = Len(e) PROVE Matched(n, c, e, c.head)
    <3>1. Len(x.current) = Len(f)
      BY <1>4, <1>9, <1>10, <2>3
    <3>2. Matched(n, x, f, x.head)
      BY <1>2, <3>1
    <3> QED BY <1>1, <1>8, <1>9, <3>2, MatchedFront
  <2>4. WInv(m, n, c, e, fl)
    BY <1>2, <1>8, <1>11, <1>12, <2>1, <2>2, <2>3 DEF WInv
  <2>5. Typed(U, m, n, c, e)
    BY <1>1 DEF Typed
  <2> QED BY <2>4, <2>5 DEF Written
<1>15. fl = 0 => r.asserts
  BY <1>12, <1>13
<1> QED BY <1>1, <1>8, <1>9, <1>14, <1>15, SameBadOutcome

\* A call that gives up its object.
LEMMA DiscardStep ==
  ASSUME NEW U, NEW n, n \in Nat, NEW m, NEW x, NEW f, Typed(U, m, n, x, f), Len(f) >= 2,
         NEW fl, fl \in Nat, WInv(m, n, x, f, fl),
         NEW r, r = PopDiscard(m, x)
  PROVE  Outcome(n, x, fl, r, Front(f))
<1>1. x \in ContextsOf(U) /\ f \in Seq(FramesOf(U)) /\ BlockType(m, n) /\ f # <<>>
  BY DEF Typed
<1>2. CASE x.current = <<>>
  <2>1. r = Result(m, x, 0, TRUE)
    BY <1>2 DEF PopDiscard
  <2>2. r.mem = m /\ r.context = x /\ r.asserts
    BY <2>1 DEF Result
  <2>3. PICK F \in Nat : F = Len(f) /\ F >= 2
    BY <1>1, LenProperties
  <2>4. PICK e \in Seq(FramesOf(U)) : e = Front(f) /\ Len(e) = F - 1
    BY <1>1, <2>3, FrontFacts
  <2>5. Len(x.current) = 0
    BY <1>2
  <2>6. /\ Len(x.current) <= Len(e) /\ Len(x.current) # Len(e) /\ Len(x.current) # Len(f)
    BY <2>3, <2>4, <2>5
  <2>7. WInv(m, n, x, e, fl)
    BY <2>6 DEF WInv, Healthy
  <2>8. Typed(U, m, n, x, e)
    BY <1>1, <2>4 DEF Typed
  <2>9. Written(m, n, x, e, fl)
    BY <2>7, <2>8 DEF Written
  <2> QED BY <1>1, <2>2, <2>4, <2>9, SameBadOutcome
<1>3. CASE x.current # <<>>
  <2>1. PICK s \in Seq(ObjectsOf(U)) : s = Front(x.current)
    BY <1>1, <1>3, ContextFacts, FrontFacts
  <2>2. PICK y : y = [x EXCEPT !.current = s]
    OBVIOUS
  <2>3. Dropped(U, x, y)
    BY <1>1, <2>1, <2>2 DEF Dropped, ContextsOf
  <2>4. r = Revert(m, y, Last(x.current).head, Last(x.current).tail)
    BY <1>3, <2>1, <2>2 DEF PopDiscard
  <2> QED BY <1>3, <2>3, <2>4, DiscardedWritten
<1> QED BY <1>2, <1>3

\* What lies between the objects below the innermost one does not depend on its end.
SameBelowTop(x, L) ==
  /\ \A d \in 0 .. L - 1 : \A h, h2 : HeadAbove(x, d, h2) = HeadAbove(x, d, h)
  /\ \A d \in 1 .. L - 1 : \A h, h2 : HeadAbove(x, d, h2) = HeadAbove(x, d, h)
  /\ \A d \in 1 .. L - 1 : \A h, h2 : TailAbove(x, d, h2) = TailAbove(x, d, h)

LEMMA BelowTop ==
  ASSUME NEW x, NEW L, L \in Nat, L = Len(x.current)
  PROVE  SameBelowTop(x, L)
<1>1. \A d \in 0 .. L - 1 : d < L
  OBVIOUS
<1>2. \A d \in 1 .. L - 1 : d < L
  OBVIOUS
<1> QED BY <1>1, <1>2 DEF HeadAbove, TailAbove, SameBelowTop

\* Where a snapshot s of the innermost frame lies.
SnapAt(n, x, s) ==
  /\ s.head \in Nat /\ s.tail \in 0 .. n /\ s.head <= x.head
  /\ \A d \in 1 .. Len(x.current) : x.current[d].head <= s.head
  /\ Last(x.current).head <= s.head /\ Stacked(x, s.head)

LEMMA SnapPlace ==
  ASSUME NEW U, NEW n, n \in Nat, NEW m, NEW x \in ContextsOf(U), x.current # <<>>, Sound(m, n, x),
         NEW f \in Seq(FramesOf(U)), Matched(n, x, f, x.head),
         NEW s, s = Last(f).snap, s # NoSnapshot
  PROVE  SnapAt(n, x, s)
<1>1. PICK L \in Nat : L # 0 /\ L = Len(x.current) /\ Last(x.current) = x.current[L] /\ L \in 1 .. L
  BY TopFacts
<1>2. Len(f) = L /\ Last(f) = f[L] /\ f[L] \in FramesOf(U)
  <2>1. Len(f) = L
    BY <1>1 DEF Matched
  <2> QED BY <1>1, <2>1 DEF Last
<1>3. PICK hd \in Nat : hd = x.head /\ HeadAbove(x, L, hd) = hd
  BY <1>1, ContextFacts DEF HeadAbove
<1>4. s.head \in Nat
  BY <1>2 DEF FramesOf
<1>5. x.current[L].head <= s.head /\ s.head <= hd /\ s.tail \in 0 .. n
  BY <1>1, <1>2, <1>3 DEF Matched
<1>6. \A d \in 1 .. L : /\ x.current[d].head \in Nat
                        /\ \A c \in 1 .. d : x.current[c].head <= x.current[d].head
  BY <1>1, ContextFacts DEF Sound, Ascending
<1>7. \A d \in 1 .. L : d \in 1 .. L /\ L \in 1 .. L
  BY <1>1
<1>8. \A d \in 1 .. L : x.current[d].head <= s.head
  BY <1>4, <1>5, <1>6, <1>7
<1>9. Stacked(x, s.head)
  BY <1>1, <1>6, <1>8 DEF Stacked
<1> QED BY <1>1, <1>3, <1>4, <1>5, <1>8, <1>9 DEF SnapAt

\* Frames e are f without the innermost one's snapshot.
Settles(U, f, e, g) ==
  /\ e \in Seq(FramesOf(U)) /\ g \in FramesOf(U) /\ EndsIn(e, f, g)
  /\ g.at = Last(f).at /\ g.held = Last(f).held /\ g.snap = NoSnapshot

LEMMA SettledIs ==
  ASSUME NEW U, NEW f \in Seq(FramesOf(U)), f # <<>>
  PROVE  \E g : Settles(U, f, Settled(f), g)
<1>1. PICK g : g = [Last(f) EXCEPT !.snap = NoSnapshot] /\ Settled(f) = SetLast(f, g)
  BY DEF Settled
<1>2. Last(f) \in FramesOf(U)
  BY FrontFacts
<1>3. g \in FramesOf(U) /\ g.at = Last(f).at /\ g.held = Last(f).held /\ g.snap = NoSnapshot
  BY <1>1, <1>2, ResetFrame
<1>4. SetLast(f, g) \in Seq(FramesOf(U)) /\ EndsIn(SetLast(f, g), f, g)
  BY <1>3, FramesLast
<1> QED BY <1>1, <1>3, <1>4 DEF Settles

LEMMA SettledMatched ==
  ASSUME NEW U, NEW n, n \in Nat, NEW m, NEW x \in ContextsOf(U), x.current # <<>>, Sound(m, n, x),
         NEW f \in Seq(FramesOf(U)), Matched(n, x, f, x.head),
         NEW e, NEW g, Settles(U, f, e, g), NEW hd
  PROVE  Matched(n, x, e, hd)
<1>1. PICK L \in Nat : L # 0 /\ L = Len(x.current)
  BY TopFacts
<1>2. Len(f) = L /\ Last(f) = f[L]
  BY <1>1 DEF Matched, Last
<1>3. /\ Len(e) = L /\ e[L] = g /\ \A d \in 1 .. L - 1 : e[d] = f[d]
      /\ g \in FramesOf(U) /\ g.at = f[L].at /\ g.snap = NoSnapshot
  BY <1>2 DEF Settles, EndsIn
<1>4. \A d \in 1 .. L - 1 : HeadAbove(x, d, hd) = HeadAbove(x, d, x.head)
  <2>1. SameBelowTop(x, L)
    BY <1>1, BelowTop
  <2> QED BY <2>1 DEF SameBelowTop
<1>5. ReplacesTop(x, x, Last(x.current)) /\ Last(x.current) \in ObjectsOf(U)
  BY ReplacesSelf, TopFacts DEF Sound
<1> QED BY <1>1, <1>3, <1>4, <1>5, ReplacedMatched

\* The levels and the trees as far as the snapshot.
LEMMA SettledGood ==
  ASSUME NEW U, NEW n, n \in Nat, NEW m, NEW x \in ContextsOf(U), x.current # <<>>, Sound(m, n, x),
         NEW f \in Seq(FramesOf(U)), Matched(n, x, f, x.head), Good(m, n, x, f),
         NEW e, NEW g, Settles(U, f, e, g),
         NEW at, NEW t, Last(f).snap # NoSnapshot, at = Last(f).snap.head, t = Last(f).snap.tail
  PROVE  /\ LevelsOK(m, n, x, e, at, t) /\ Boundary(n, x, t) /\ x.tail <= t
         /\ x.successful => StackFaithful(m, x, e)
<1>1. PICK L \in Nat : L # 0 /\ L = Len(x.current) /\ Last(x.current) = x.current[L] /\ L \in 1 .. L
  BY TopFacts
<1>2. Len(f) = L /\ Last(f) = f[L]
  BY <1>1 DEF Matched, Last
<1>3. /\ e[L] = g /\ \A d \in 1 .. L - 1 : e[d] = f[d]
      /\ g.held = f[L].held /\ g.snap = NoSnapshot
  BY <1>2 DEF Settles, EndsIn
<1>4. LevelsOK(m, n, x, f, x.head, x.tail)
  BY DEF Good
<1>5. LevelOK(m, n, x, Last(x.current), Last(f), x.head, x.tail)
  BY <1>1, <1>2, <1>4, LevelTop
<1>6. PICK o \in ObjectsOf(U) : o = Last(x.current) /\ ReplacesTop(x, x, o)
  BY ReplacesSelf, TopFacts DEF Sound
<1>7. /\ x.tail <= t /\ t <= o.tail /\ Boundary(n, x, t) /\ Boundary(n, x, o.tail)
      /\ LinksOK(m, x, o, at, t) /\ KeepsOK(x, Last(f), t)
  BY <1>5, <1>6 DEF LevelOK
<1>8. LevelOK(m, n, x, o, g, at, t)
  BY <1>2, <1>3, <1>7 DEF LevelOK, KeepsOK
<1>9. LevelsOK(m, n, x, e, at, t)
  <2>1. /\ \A d \in 0 .. L - 1 : HeadAbove(x, d, at) = HeadAbove(x, d, x.head)
        /\ \A d \in 1 .. L - 1 : TailAbove(x, d, t) = TailAbove(x, d, x.tail)
    <3>1. SameBelowTop(x, L)
      BY <1>1, BelowTop
    <3> QED BY <3>1 DEF SameBelowTop
  <2> QED BY <1>1, <1>3, <1>4, <1>6, <1>8, <2>1, ReplacedLevels
<1>10. ASSUME x.successful PROVE StackFaithful(m, x, e)
  <2>1. StackFaithful(m, x, f)
    BY <1>10 DEF Good
  <2>2. KidsOK(m, x, o) /\ \A h \in g.held : h.tree = Tree(m, x.packed[h.objidx])
    BY <1>1, <1>3, <1>6, <2>1 DEF StackFaithful
  <2> QED BY <1>1, <1>3, <1>6, <2>1, <2>2, ReplacedFaithful
<1> QED BY <1>7, <1>9, <1>10

\* A call that reverts to its snapshot.
LEMMA RevertStep ==
  ASSUME NEW U, NEW n, n \in Nat, NEW m, NEW x, NEW f, Typed(U, m, n, x, f), f # <<>>,
         NEW fl, fl \in Nat, WInv(m, n, x, f, fl), x.successful, Last(f).snap # NoSnapshot,
         NEW r, r = Revert(m, x, Last(f).snap.head, Last(f).snap.tail)
  PROVE  Outcome(n, x, fl, r, Settled(f))
<1>1. x \in ContextsOf(U) /\ f \in Seq(FramesOf(U)) /\ BlockType(m, n)
  BY DEF Typed
<1>2. /\ Sound(m, n, x) /\ Len(x.current) = Len(f) /\ Cardinality(x.bad) <= fl /\ x.lost <= fl
      /\ Matched(n, x, f, x.head) /\ (Healthy(x, f) => Good(m, n, x, f))
  BY DEF WInv
<1>3. x.current # <<>>
  <2>1. Len(f) # 0
    BY <1>1, FrontFacts
  <2> QED BY <1>2, <2>1
<1>4. PICK s, at, t : s = Last(f).snap /\ at = s.head /\ t = s.tail
  OBVIOUS
<1>5. SnapAt(n, x, s)
  BY <1>1, <1>2, <1>3, <1>4, SnapPlace
<1>6. /\ at \in Nat /\ t \in 0 .. n /\ t \in Nat /\ at <= x.head /\ Stacked(x, at)
      /\ \A d \in 1 .. Len(x.current) : x.current[d].head <= at
  BY <1>4, <1>5 DEF SnapAt
<1>7. PICK e, g : e = Settled(f) /\ Settles(U, f, e, g)
  BY <1>1, SettledIs
<1>8. e \in Seq(FramesOf(U)) /\ Len(e) = Len(f)
  BY <1>7 DEF Settles, EndsIn
<1>9. r = Revert(m, x, at, t)
  BY <1>4
<1>10. PICK c \in ContextsOf(U) :
         /\ c = r.context /\ c.head = at /\ c.current = x.current /\ c.bad = x.bad /\ c.lost = x.lost
         /\ c.successful = x.successful /\ r.mem = m
  <2>1. Reverted(U, m, x, r, at, t)
    BY <1>1, <1>2, <1>6, <1>9, RevertedIs
  <2> QED BY <2>1 DEF Reverted
<1>11. Matched(n, x, e, at)
  BY <1>1, <1>2, <1>3, <1>7, SettledMatched
<1>12. Matched(n, c, e, c.head)
  BY <1>10, <1>11 DEF Matched, HeadAbove
<1>13. ASSUME Healthy(x, f) PROVE r.asserts /\ Good(m, n, c, e)
  <2>1. Good(m, n, x, f)
    BY <1>2, <1>13
  <2>2. /\ LevelsOK(m, n, x, e, at, t) /\ Boundary(n, x, t) /\ x.tail <= t
        /\ (x.successful => StackFaithful(m, x, e))
    BY <1>1, <1>2, <1>3, <1>4, <1>7, <2>1, SettledGood
  <2>3. Whole(m, n, x) /\ (x.successful => PackedFaithful(m, x))
    BY <2>1 DEF Good
  <2>4. Len(e) = Len(x.current)
    BY <1>2, <1>8
  <2>5. x.successful => PackedFaithful(m, x) /\ StackFaithful(m, x, e)
    BY <2>2, <2>3
  <2> QED BY <1>1, <1>2, <1>6, <1>8, <1>9, <1>10, <1>11, <2>2, <2>3, <2>4, <2>5, RevertGood
<1>14. fl = 0 => Healthy(x, f)
  BY ZeroHealthy
<1>15. ASSUME r.asserts PROVE Written(m, n, c, e, fl)
  <2>1. Sound(m, n, c)
    BY <1>1, <1>2, <1>6, <1>9, <1>10, <1>15, RevertSound
  <2>2. Len(c.current) = Len(e) /\ Len(c.current) <= Len(e)
    <3>1. Len(e) \in Nat
      BY <1>8, LenProperties
    <3> QED BY <1>2, <1>8, <1>10, <3>1
  <2>3. Healthy(c, e) => Healthy(x, f)
    BY <1>8, <1>10 DEF Healthy
  <2>4. WInv(m, n, c, e, fl)
    BY <1>2, <1>10, <1>12, <1>13, <2>1, <2>2, <2>3 DEF WInv
  <2>5. Typed(U, m, n, c, e)
    BY <1>1, <1>8 DEF Typed
  <2> QED BY <2>4, <2>5 DEF Written
<1>16. fl = 0 => r.asserts
  BY <1>13, <1>14
<1> QED BY <1>1, <1>7, <1>10, <1>15, <1>16, SameBadOutcome

\* A context that nothing has been written with.
LEMMA FreshWritten ==
  ASSUME NEW n, n \in Nat, NEW fl, fl \in Nat
  PROVE  Written(Zeroes(n), n, Fresh(n), <<>>, fl)
<1>1. PICK m : m = Zeroes(n)
  OBVIOUS
<1>2. PICK x : x = Fresh(n)
  OBVIOUS
<1>3. /\ x.head = 0 /\ x.tail = n /\ x.current = <<>> /\ x.packed = <<>> /\ x.map = {}
      /\ x.bad = {} /\ x.lost = 0 /\ x \in ContextsOf({})
  BY <1>2 DEF Fresh, ContextsOf
<1>4. BlockType(m, n)
  BY <1>1 DEF Zeroes, BlockType
<1>5. Typed({}, m, n, x, <<>>)
  BY <1>3, <1>4 DEF Typed
<1>6. Len(x.current) = 0 /\ Len(x.packed) = 0 /\ 1 .. 0 = {} /\ DOMAIN x.packed = {}
  BY <1>3
<1>7. Sound(m, n, x)
  <2>1. Descending(n, x)
    BY <1>3, <1>6 DEF Descending
  <2>2. Ascending(n, x)
    BY <1>6 DEF Ascending
  <2>3. Shared(m, x)
    BY <1>3, <1>6 DEF Shared
  <2> QED BY <2>1, <2>2, <2>3 DEF Sound
<1>8. Matched(n, x, <<>>, x.head)
  <2>1. Len(<<>>) = 0
    OBVIOUS
  <2> QED BY <1>6, <2>1 DEF Matched
<1>9. Good(m, n, x, <<>>)
  <2>1. Whole(m, n, x)
    BY <1>3, <1>6 DEF Whole, Tight, Floor, PackedOK
  <2>2. LevelsOK(m, n, x, <<>>, x.head, x.tail)
    BY <1>3, <1>6 DEF LevelsOK, HeadAbove
  <2>3. PackedFaithful(m, x) /\ StackFaithful(m, x, <<>>)
    BY <1>6 DEF PackedFaithful, StackFaithful
  <2> QED BY <2>1, <2>2, <2>3 DEF Good
<1>10. Len(x.current) = Len(<<>>) /\ Len(x.current) <= Len(<<>>) /\ Cardinality(x.bad) <= fl /\ x.lost <= fl
  <2>1. Cardinality(x.bad) = 0
    BY <1>3, FS_EmptySet
  <2> QED BY <1>3, <1>6, <2>1
<1>11. WInv(m, n, x, <<>>, fl)
  BY <1>7, <1>8, <1>9, <1>10 DEF WInv
<1> QED BY <1>1, <1>2, <1>5, <1>11 DEF Written

-----------------------------------------------------------------------------
(* What the properties say of a context x and a block m of n bytes.         *)

\* The packed objects lie end to end.
EndToEnd(n, x) ==
  /\ x.head <= x.tail
  /\ IF x.packed = <<>> THEN x.tail = n
     ELSE Last(x.packed).head = x.tail /\ x.packed[1].tail = n
  /\ \A k \in 2 .. Len(x.packed) : x.packed[k].tail = x.packed[k - 1].head

\* The links of packed objects.
PackedLinks(x) ==
  \A k \in DOMAIN x.packed : \A j \in DOMAIN x.packed[k].links :
    LET l == x.packed[k].links[j]
    IN  l.objidx \in 1 .. k - 1 /\ l.position < x.packed[k].tail - x.packed[k].head

\* The links of objects under construction.
CurrentLinks(x) ==
  \A d \in DOMAIN x.current : \A j \in DOMAIN x.current[d].links :
    LET l == x.current[d].links[j]
    IN  l.objidx \in DOMAIN x.packed /\ x.current[d].head + l.position < x.head

LEMMA TightEnds ==
  ASSUME NEW U, NEW n, n \in Nat, NEW m, NEW x \in ContextsOf(U), Descending(n, x), Whole(m, n, x)
  PROVE  EndToEnd(n, x)
<1>1. PICK N \in Nat : N = Len(x.packed) /\ x.packed \in Seq(ObjectsOf(U))
  BY ContextFacts
<1>2. /\ x.tail = Floor(n, x, N) /\ \A k \in 1 .. N : x.packed[k].tail = Floor(n, x, k - 1)
  BY <1>1 DEF Whole, Tight
<1>3. \A k \in 2 .. N : x.packed[k].tail = x.packed[k - 1].head
  <2>1. \A k \in 2 .. N : k \in 1 .. N /\ k - 1 # 0
    OBVIOUS
  <2> QED BY <1>2, <2>1 DEF Floor
<1>4. CASE x.packed = <<>>
  <2>1. N = 0
    BY <1>1, <1>4
  <2>2. x.tail = n
    BY <1>2, <2>1 DEF Floor
  <2> QED BY <1>1, <1>3, <1>4, <2>2 DEF EndToEnd, Descending
<1>5. CASE x.packed # <<>>
  <2>1. N # 0 /\ 1 \in 1 .. N /\ Last(x.packed) = x.packed[N]
    <3>1. Len(x.packed) \in Nat \ {0}
      BY <1>1, <1>5, FrontFacts
    <3>2. N # 0 /\ 1 \in 1 .. N
      BY <1>1, <3>1
    <3> QED BY <1>1, <3>2 DEF Last
  <2>2. Last(x.packed).head = x.tail
    BY <1>2, <2>1 DEF Floor
  <2>3. x.packed[1].tail = n
    BY <1>2, <2>1 DEF Floor
  <2> QED BY <1>1, <1>3, <1>5, <2>2, <2>3 DEF EndToEnd, Descending
<1> QED BY <1>4, <1>5

\* A link of a packed object stays below it.
LEMMA StaysBelow ==
  ASSUME NEW U, NEW n, n \in Nat, NEW x \in ContextsOf(U), Descending(n, x),
         NEW k, k \in 1 .. Len(x.packed), NEW i, Stays(x, i, x.packed[k].tail)
  PROVE  i \in 1 .. k - 1
<1>1. PICK N \in Nat : N = Len(x.packed)
  BY ContextFacts
<1>2. i \in 1 .. N /\ k \in 1 .. N /\ x.packed[k].tail <= x.packed[i].head
  BY <1>1 DEF Stays
<1>3. /\ x.packed[k].head \in Nat /\ x.packed[k].tail \in Nat
      /\ x.packed[i].head \in Nat /\ x.packed[i].tail \in Nat
  BY <1>1, <1>2, ContextFacts
<1>4. /\ x.packed[k].head < x.packed[k].tail /\ x.packed[i].head < x.packed[i].tail
      /\ \A j \in 1 .. i - 1 : x.packed[i].tail <= x.packed[j].head
  BY <1>1, <1>2 DEF Descending
<1>5. i # k
  BY <1>2, <1>3, <1>4
<1>6. ~(k < i)
  <2>1. SUFFICES ASSUME k < i PROVE FALSE
    OBVIOUS
  <2>2. k \in 1 .. i - 1
    BY <1>2, <2>1
  <2> QED BY <1>2, <1>3, <1>4, <2>2
<1> QED BY <1>2, <1>5, <1>6

LEMMA WholeLinks ==
  ASSUME NEW U, NEW n, n \in Nat, NEW m, NEW x \in ContextsOf(U), Descending(n, x), Whole(m, n, x)
  PROVE  PackedLinks(x)
<1>1. ASSUME NEW k \in 1 .. Len(x.packed), NEW j \in 1 .. Len(x.packed[k].links)
      PROVE  /\ x.packed[k].links[j].objidx \in 1 .. k - 1
             /\ x.packed[k].links[j].position < x.packed[k].tail - x.packed[k].head
  <2>1. PICK o \in ObjectsOf(U) : o = x.packed[k]
    BY ContextFacts
  <2>2. LinksOK(m, x, o, o.tail, o.tail)
    BY <2>1 DEF Whole, PackedOK
  <2>3. Stays(x, o.links[j].objidx, o.tail) /\ o.head + o.links[j].position < o.tail
    BY <2>1, <2>2 DEF LinksOK
  <2>4. PICK i : i = o.links[j].objidx
    OBVIOUS
  <2>5. i \in 1 .. k - 1
    BY <2>1, <2>3, <2>4, StaysBelow
  <2>6. PICK h \in Nat, t \in Nat, p \in Nat : h = o.head /\ t = o.tail /\ p = o.links[j].position
    BY <2>1, ObjectFacts
  <2>7. p < t - h
    BY <2>3, <2>6
  <2> QED BY <2>1, <2>4, <2>5, <2>6, <2>7
<1>2. DOMAIN x.packed = 1 .. Len(x.packed)
  BY ContextFacts
<1>3. \A k \in 1 .. Len(x.packed) : DOMAIN x.packed[k].links = 1 .. Len(x.packed[k].links)
  BY ContextFacts, ObjectFacts
<1> QED BY <1>1, <1>2, <1>3 DEF PackedLinks

LEMMA LevelLinks ==
  ASSUME NEW U, NEW n, n \in Nat, NEW m, NEW x \in ContextsOf(U), Ascending(n, x),
         NEW f, LevelsOK(m, n, x, f, x.head, x.tail)
  PROVE  CurrentLinks(x)
<1>1. PICK L \in Nat, hd \in Nat, tl \in Nat : L = Len(x.current) /\ hd = x.head /\ tl = x.tail
  BY ContextFacts
<1>2. ASSUME NEW d \in 1 .. L, NEW j \in 1 .. Len(x.current[d].links)
      PROVE  /\ x.current[d].links[j].objidx \in 1 .. Len(x.packed)
             /\ x.current[d].head + x.current[d].links[j].position < hd
  <2>1. PICK o \in ObjectsOf(U) : o = x.current[d]
    BY <1>1, ContextFacts
  <2>2. PICK a, t : a \in Nat /\ a = HeadAbove(x, d, hd) /\ t = TailAbove(x, d, tl) /\ a <= hd
    <3>1. d \in 0 .. Len(x.current)
      BY <1>1
    <3>2. Stacked(x, hd)
      BY <1>1, StackedIs
    <3> QED BY <3>1, <3>2, AboveFacts
  <2>3. LevelOK(m, n, x, o, f[d], a, t)
    BY <1>1, <2>1, <2>2 DEF LevelsOK
  <2>4. LinksOK(m, x, o, a, t)
    BY <2>3 DEF LevelOK
  <2>5. o.head + o.links[j].position < a /\ o.links[j].objidx \in 1 .. Len(x.packed)
    BY <2>1, <2>4 DEF LinksOK, Stays
  <2>6. PICK h \in Nat, p \in Nat : h = o.head /\ p = o.links[j].position
    BY <2>1, ObjectFacts
  <2>7. h + p < hd
    BY <2>2, <2>5, <2>6
  <2> QED BY <2>1, <2>5, <2>6, <2>7
<1>3. DOMAIN x.current = 1 .. L /\ DOMAIN x.packed = 1 .. Len(x.packed)
  BY <1>1, ContextFacts
<1>4. \A d \in 1 .. L : DOMAIN x.current[d].links = 1 .. Len(x.current[d].links)
  BY <1>1, ContextFacts, ObjectFacts
<1> QED BY <1>1, <1>2, <1>3, <1>4 DEF CurrentLinks

\* What a context that lost nothing is like.
Fine(n, x) == EndToEnd(n, x) /\ PackedLinks(x) /\ CurrentLinks(x)

LEMMA HealthyFine ==
  ASSUME NEW U, NEW n, n \in Nat, NEW m, NEW x, NEW f, Typed(U, m, n, x, f),
         NEW fl, WInv(m, n, x, f, fl), Healthy(x, f)
  PROVE  Fine(n, x)
<1>1. /\ x \in ContextsOf(U) /\ Descending(n, x) /\ Ascending(n, x)
      /\ Whole(m, n, x) /\ LevelsOK(m, n, x, f, x.head, x.tail)
  BY DEF Typed, WInv, Sound, Good
<1> QED BY <1>1, TightEnds, WholeLinks, LevelLinks DEF Fine

-----------------------------------------------------------------------------
(* Reading the finished table.                                              *)

\* Read, of objects p in block m, by way of function g.
FieldAt(m, o, l) == o.head + l.bias + m[o.head + l.position]
IsField(o, b) == \E j \in DOMAIN o.links : o.links[j].position = b - 1
ReadBody(m, p, g, k) ==
  IF \E j \in DOMAIN p[k].links : \A c \in 1 .. k - 1 : p[c].head # FieldAt(m, p[k], p[k].links[j])
  THEN <<>>
  ELSE [bytes |-> [b \in DOMAIN Bytes(m, p[k]) |-> IF IsField(p[k], b) THEN 0 ELSE Bytes(m, p[k])[b]],
        kids  |-> {[position |-> p[k].links[j].position, bias |-> p[k].links[j].bias,
                    tree |-> g[CHOOSE c \in 1 .. k - 1 : p[c].head = FieldAt(m, p[k], p[k].links[j])]] :
                      j \in DOMAIN p[k].links}]
Reads(m, p, g) == g = [k \in DOMAIN p |-> ReadBody(m, p, g, k)]

LEMMA ReadIs == Read = CHOOSE g : Reads(mem, Packed, g)
BY Zenon DEF Read, Reads, ReadBody, FieldAt, IsField

\* A context whose objects are all packed, as its client built them.
Finished(U, m, n, x) ==
  /\ BlockType(m, n) /\ x \in ContextsOf(U)
  /\ Descending(n, x) /\ Whole(m, n, x) /\ PackedFaithful(m, x)

Fits(x) == \A pl \in LinksIn(x) : OffsetOf(x, pl) \in 0 .. MaxOffset

LEMMA LinksInIs ==
  ASSUME NEW U, NEW x \in ContextsOf(U)
  PROVE  /\ \A k \in 1 .. Len(x.packed) : \A j \in 1 .. Len(x.packed[k].links) :
              <<x.packed[k], x.packed[k].links[j]>> \in LinksIn(x)
         /\ \A pl \in LinksIn(x) :
              \E k \in 1 .. Len(x.packed) : \E j \in 1 .. Len(x.packed[k].links) :
                pl = <<x.packed[k], x.packed[k].links[j]>>
<1>1. DOMAIN x.packed = 1 .. Len(x.packed)
  BY ContextFacts
<1>2. \A k \in 1 .. Len(x.packed) : DOMAIN x.packed[k].links = 1 .. Len(x.packed[k].links)
  BY ContextFacts, ObjectFacts
<1>3. ASSUME NEW k \in 1 .. Len(x.packed), NEW j \in 1 .. Len(x.packed[k].links)
      PROVE  <<x.packed[k], x.packed[k].links[j]>> \in LinksIn(x)
  <2>1. PICK o : o = x.packed[k] /\ o \in {x.packed[i] : i \in DOMAIN x.packed} /\ j \in DOMAIN o.links
    BY <1>1, <1>2
  <2>2. <<o, o.links[j]>> \in {<<o, o.links[i]>> : i \in DOMAIN o.links}
    BY <2>1
  <2> QED BY <2>1, <2>2 DEF LinksIn
<1>4. ASSUME NEW pl \in LinksIn(x)
      PROVE  \E k \in 1 .. Len(x.packed) : \E j \in 1 .. Len(x.packed[k].links) :
               pl = <<x.packed[k], x.packed[k].links[j]>>
  <2>1. PICK o \in {x.packed[i] : i \in DOMAIN x.packed} : pl \in {<<o, o.links[i]>> : i \in DOMAIN o.links}
    BY DEF LinksIn
  <2>2. PICK k \in 1 .. Len(x.packed) : o = x.packed[k]
    BY <1>1, <2>1
  <2>3. PICK j \in 1 .. Len(x.packed[k].links) : pl = <<o, o.links[j]>>
    BY <1>2, <2>1, <2>2
  <2> QED BY <2>2, <2>3
<1> QED BY <1>3, <1>4

\* Packed objects have no address in common.
LEMMA PlaceApart ==
  ASSUME NEW U, NEW n, n \in Nat, NEW x \in ContextsOf(U), Descending(n, x),
         NEW k \in 1 .. Len(x.packed), NEW i \in 1 .. Len(x.packed), NEW a \in Nat,
         x.packed[k].head <= a, a < x.packed[k].tail,
         x.packed[i].head <= a, a < x.packed[i].tail
  PROVE  k = i
<1>1. PICK N \in Nat : N = Len(x.packed) /\ k \in 1 .. N /\ i \in 1 .. N
  BY ContextFacts
<1>2. /\ x.packed[k].head \in Nat /\ x.packed[k].tail \in Nat
      /\ x.packed[i].head \in Nat /\ x.packed[i].tail \in Nat
  BY ContextFacts
<1>3. /\ \A j \in 1 .. i - 1 : x.packed[i].tail <= x.packed[j].head
      /\ \A j \in 1 .. k - 1 : x.packed[k].tail <= x.packed[j].head
  BY DEF Descending
<1>4. CASE k < i
  <2>1. k \in 1 .. i - 1
    BY <1>1, <1>4
  <2> QED BY <1>2, <1>3, <2>1
<1>5. CASE i < k
  <2>1. i \in 1 .. k - 1
    BY <1>1, <1>5
  <2> QED BY SMTT(30), <1>2, <1>3, <2>1
<1> QED BY <1>1, <1>4, <1>5

\* What a finished context says of one link: l of object o.
LinkPlace(m, n, x, k, j, o, l, a) ==
  /\ o = x.packed[k] /\ l = o.links[j] /\ a = o.head + l.position
  /\ o.head \in Nat /\ o.tail \in Nat /\ o.head <= a /\ a < o.tail /\ a \in 0 .. n - 1
  /\ l.position \in Nat /\ l.bias \in Nat /\ l.bias <= l.position /\ m[a] = 0
  /\ l.objidx \in 1 .. k - 1 /\ x.packed[l.objidx].head \in Nat
  /\ \A i \in 1 .. Len(o.links) : o.links[i].position = l.position => i = j

LEMMA LinkPlaced ==
  ASSUME NEW U, NEW n, n \in Nat, NEW m, NEW x, Finished(U, m, n, x),
         NEW k, k \in 1 .. Len(x.packed), NEW o, o = x.packed[k],
         NEW j, j \in 1 .. Len(o.links), NEW l, l = o.links[j],
         NEW a, a = o.head + l.position
  PROVE  LinkPlace(m, n, x, k, j, o, l, a)
<1>1. x \in ContextsOf(U) /\ Descending(n, x) /\ PackedOK(m, x)
  BY DEF Finished, Whole
<1>2. PICK N \in Nat : N = Len(x.packed) /\ k \in 1 .. N
  BY <1>1, ContextFacts
<1>3. o \in ObjectsOf(U)
  BY <1>1, <1>2, ContextFacts
<1>4. PICK h \in Nat, t \in Nat, p \in Nat, b \in Nat, M \in Nat :
        h = o.head /\ t = o.tail /\ p = l.position /\ b = l.bias /\ M = Len(o.links)
  BY <1>3, ObjectFacts
<1>5. LinksOK(m, x, o, t, t)
  BY <1>1, <1>2, <1>4 DEF PackedOK
<1>6. /\ b <= p /\ h + p < t /\ m[h + p] = 0 /\ Stays(x, l.objidx, t)
  BY <1>4, <1>5 DEF LinksOK
<1>7. t <= n
  BY <1>1, <1>2, <1>4 DEF Descending
<1>8. a \in Nat /\ h <= a /\ a < t /\ a \in 0 .. n - 1
  <2>1. PICK q \in Nat : q = h + p
    OBVIOUS
  <2>2. q < t
    BY <1>6, <2>1
  <2>3. h <= q /\ q \in 0 .. n - 1
    BY <1>7, <2>1, <2>2
  <2>4. q = a
    BY <1>4, <2>1
  <2> QED BY <2>2, <2>3, <2>4
<1>9. PICK i : i = l.objidx
  OBVIOUS
<1>10. i \in 1 .. k - 1
  BY <1>1, <1>2, <1>4, <1>6, <1>9, StaysBelow
<1>11. x.packed[i].head \in Nat
  <2>1. i \in 1 .. N
    BY <1>2, <1>10
  <2> QED BY <1>1, <1>2, <2>1, ContextFacts
<1>12. ASSUME NEW i2 \in 1 .. M, o.links[i2].position = l.position PROVE i2 = j
  <2>1. j \in 1 .. M /\ \A q \in 1 .. M : \A r \in 1 .. q - 1 : o.links[r].position # o.links[q].position
    BY <1>4, <1>5 DEF LinksOK
  <2>2. CASE i2 < j
    <3>1. i2 \in 1 .. j - 1
      BY <2>1, <2>2
    <3> QED BY <1>12, <2>1, <3>1
  <2>3. CASE j < i2
    <3>1. j \in 1 .. i2 - 1
      BY <2>1, <2>3
    <3> QED BY <1>12, <2>1, <3>1
  <2> QED BY <2>1, <2>2, <2>3
<1> QED BY <1>4, <1>6, <1>8, <1>9, <1>10, <1>11, <1>12 DEF LinkPlace

LEMMA SmallMod ==
  ASSUME NEW M, M \in Nat, NEW v, v \in 0 .. M
  PROVE  v % (M + 1) = v
OBVIOUS

\* What is stored at address a.
Stores(m, a, v) == m[a] = v

\* A field gets the offset of its own link.
LEMMA FieldGets ==
  ASSUME NEW U, NEW n, n \in Nat, NEW m, NEW x, Finished(U, m, n, x), Fits(x),
         NEW k, k \in 1 .. Len(x.packed), NEW o, o = x.packed[k],
         NEW j, j \in 1 .. Len(o.links), NEW l, l = o.links[j],
         NEW a, a = o.head + l.position, NEW m2, m2 = WithOffsets(m, x)
  PROVE  Stores(m2, a, x.packed[l.objidx].head - o.head - l.bias)
<1>1. x \in ContextsOf(U) /\ Descending(n, x) /\ BlockType(m, n)
  BY DEF Finished
<1>2. LinkPlace(m, n, x, k, j, o, l, a)
  BY LinkPlaced
<1>3. <<o, l>> \in LinksIn(x)
  BY <1>1, LinksInIs
<1>4. FieldOf(<<o, l>>) = a
  BY DEF FieldOf
<1>5. ASSUME NEW pl \in LinksIn(x), FieldOf(pl) = a PROVE pl = <<o, l>>
  <2>1. PICK k2 \in 1 .. Len(x.packed) : \E i \in 1 .. Len(x.packed[k2].links) :
               pl = <<x.packed[k2], x.packed[k2].links[i]>>
    BY <1>1, LinksInIs
  <2>2. PICK o2, j2, l2, a2 :
          /\ o2 = x.packed[k2] /\ j2 \in 1 .. Len(o2.links) /\ l2 = o2.links[j2]
          /\ a2 = o2.head + l2.position /\ pl = <<o2, l2>>
    BY <2>1
  <2>3. LinkPlace(m, n, x, k2, j2, o2, l2, a2)
    BY <2>2, LinkPlaced
  <2>4. a2 = a
    BY <1>5, <2>2 DEF FieldOf
  <2>5. k2 = k
    <3>1. a \in Nat /\ x.packed[k].head <= a /\ a < x.packed[k].tail
      BY <1>2 DEF LinkPlace
    <3>2. x.packed[k2].head <= a /\ a < x.packed[k2].tail
      BY <2>3, <2>4 DEF LinkPlace
    <3> QED BY <1>1, <3>1, <3>2, PlaceApart
  <2>6. o2 = o
    BY <2>2, <2>5
  <2>7. l2.position = l.position
    <3>1. PICK h \in Nat, p \in Nat, p2 \in Nat : h = o.head /\ p = l.position /\ p2 = l2.position
      BY <1>2, <2>3 DEF LinkPlace
    <3>2. a = h + p
      BY <3>1
    <3>3. a = h + p2
      BY <2>2, <2>4, <2>6, <3>1
    <3>4. p = p2
      BY <3>2, <3>3
    <3> QED BY <3>1, <3>4
  <2>8. j2 = j
    BY <1>2, <2>2, <2>6, <2>7 DEF LinkPlace
  <2> QED BY <2>2, <2>6, <2>8
<1>6. PICK v : v = OffsetOf(x, <<o, l>>)
  OBVIOUS
<1>7. Stored(x, a) = {v}
  <2>1. {pl \in LinksIn(x) : FieldOf(pl) = a} = {<<o, l>>}
    BY <1>3, <1>4, <1>5
  <2> QED BY <1>6, <2>1 DEF Stored
<1>8. (CHOOSE q \in Stored(x, a) : TRUE) = v
  BY <1>7
<1>9. v \in 0 .. MaxOffset
  BY <1>3, <1>6 DEF Fits
<1>10. v % (MaxOffset + 1) = v
  <2>1. MaxOffset \in Nat
    BY SerializerAssumption
  <2>2. PICK M : M = MaxOffset
    OBVIOUS
  <2>3. v % (M + 1) = v
    BY <1>9, <2>1, <2>2, SmallMod
  <2> QED BY <2>2, <2>3
<1>11. a \in DOMAIN m
  BY <1>1, <1>2 DEF BlockType, LinkPlace
<1>12. m2[a] = v
  BY <1>7, <1>8, <1>10, <1>11 DEF WithOffsets
<1>13. v = x.packed[l.objidx].head - o.head - l.bias
  BY <1>6 DEF OffsetOf
<1> QED BY <1>12, <1>13 DEF Stores

\* What is no field of an object stays.
LEMMA PlainStays ==
  ASSUME NEW U, NEW n, n \in Nat, NEW m, NEW x, Finished(U, m, n, x),
         NEW k, k \in 1 .. Len(x.packed), NEW o, o = x.packed[k],
         NEW a, a \in Nat, o.head <= a, a < o.tail,
         \A j \in 1 .. Len(o.links) : o.head + o.links[j].position # a,
         NEW m2, m2 = WithOffsets(m, x)
  PROVE  Stores(m2, a, m[a])
<1>1. x \in ContextsOf(U) /\ Descending(n, x) /\ BlockType(m, n)
  BY DEF Finished
<1>2. ASSUME NEW pl \in LinksIn(x), FieldOf(pl) = a PROVE FALSE
  <2>1. PICK k2 \in 1 .. Len(x.packed) : \E i \in 1 .. Len(x.packed[k2].links) :
               pl = <<x.packed[k2], x.packed[k2].links[i]>>
    BY <1>1, LinksInIs
  <2>2. PICK o2, j2, l2, a2 :
          /\ o2 = x.packed[k2] /\ j2 \in 1 .. Len(o2.links) /\ l2 = o2.links[j2]
          /\ a2 = o2.head + l2.position /\ pl = <<o2, l2>>
    BY <2>1
  <2>3. LinkPlace(m, n, x, k2, j2, o2, l2, a2)
    BY <2>2, LinkPlaced
  <2>4. a2 = a
    BY <1>2, <2>2 DEF FieldOf
  <2>5. k2 = k
    <3>1. /\ x.packed[k].head <= a /\ a < x.packed[k].tail
          /\ x.packed[k2].head <= a /\ a < x.packed[k2].tail
      BY <2>3, <2>4 DEF LinkPlace
    <3> QED BY <1>1, <3>1, PlaceApart
  <2> QED BY <2>2, <2>4, <2>5
<1>3. Stored(x, a) = {}
  <2>1. {pl \in LinksIn(x) : FieldOf(pl) = a} = {}
    BY <1>2
  <2> QED BY <2>1 DEF Stored
<1>4. a \in DOMAIN m
  <2>1. o.tail <= n /\ o.tail \in Nat
    BY SMTT(30), <1>1, ContextFacts DEF Descending
  <2> QED BY <1>1, <2>1 DEF BlockType
<1> QED BY <1>3, <1>4 DEF WithOffsets, Stores

\* A reader comes from the field to the object that was linked.
Leads(m, x, k, o, l) ==
  /\ l.objidx \in 1 .. k - 1 /\ x.packed[l.objidx].head = FieldAt(m, o, l)
  /\ (CHOOSE c \in 1 .. k - 1 : x.packed[c].head = FieldAt(m, o, l)) = l.objidx

LEMMA FieldLeads ==
  ASSUME NEW U, NEW n, n \in Nat, NEW m, NEW x, Finished(U, m, n, x), Fits(x),
         NEW m2, m2 = WithOffsets(m, x),
         NEW k, k \in 1 .. Len(x.packed), NEW o, o = x.packed[k],
         NEW j, j \in 1 .. Len(o.links), NEW l, l = o.links[j]
  PROVE  Leads(m2, x, k, o, l)
<1>1. x \in ContextsOf(U) /\ Descending(n, x)
  BY DEF Finished
<1>2. PICK a : a = o.head + l.position
  OBVIOUS
<1>3. LinkPlace(m, n, x, k, j, o, l, a)
  BY <1>2, LinkPlaced
<1>4. PICK i, N \in Nat : i = l.objidx /\ i \in 1 .. k - 1 /\ N = Len(x.packed) /\ k \in 1 .. N
  BY <1>1, <1>3, ContextFacts DEF LinkPlace
<1>5. PICK H \in Nat, h \in Nat, b \in Nat : H = x.packed[i].head /\ h = o.head /\ b = l.bias
  BY <1>3, <1>4 DEF LinkPlace
<1>6. m2[a] = x.packed[l.objidx].head - o.head - l.bias
  <2>1. Stores(m2, a, x.packed[l.objidx].head - o.head - l.bias)
    BY <1>2, FieldGets
  <2> QED BY <2>1 DEF Stores
<1>7. m2[a] = H - h - b
  BY <1>4, <1>5, <1>6
<1>8. FieldAt(m2, o, l) = h + b + m2[a]
  BY <1>2, <1>5 DEF FieldAt
<1>9. FieldAt(m2, o, l) = H
  BY <1>7, <1>8
<1>10. ASSUME NEW c \in 1 .. k - 1, x.packed[c].head = H PROVE c = i
  <2>1. c \in 1 .. N /\ i \in 1 .. N
    BY <1>4
  <2>2. ~(c < i)
    <3>1. SUFFICES ASSUME c < i PROVE FALSE
      OBVIOUS
    <3>2. x.packed[i].head < x.packed[c].head
      BY <1>1, <1>4, <2>1, <3>1, Descends
    <3> QED BY <1>5, <1>10, <3>2
  <2>3. ~(i < c)
    <3>1. SUFFICES ASSUME i < c PROVE FALSE
      OBVIOUS
    <3>2. x.packed[c].head < x.packed[i].head
      BY <1>1, <1>4, <2>1, <3>1, Descends
    <3> QED BY <1>5, <1>10, <3>2
  <2> QED BY <1>4, <2>1, <2>2, <2>3
<1>11. (CHOOSE c \in 1 .. k - 1 : x.packed[c].head = H) = i
  BY <1>4, <1>5, <1>10
<1> QED BY Zenon, <1>4, <1>5, <1>9, <1>11 DEF Leads

\* The bytes, but for the offsets.
PlainBytes(m, o) == [b \in DOMAIN Bytes(m, o) |-> IF IsField(o, b) THEN 0 ELSE Bytes(m, o)[b]]
BytesBack(m, m2, o) == PlainBytes(m2, o) = Bytes(m, o)

LEMMA BytesRead ==
  ASSUME NEW U, NEW n, n \in Nat, NEW m, NEW x, Finished(U, m, n, x), Fits(x),
         NEW m2, m2 = WithOffsets(m, x),
         NEW k, k \in 1 .. Len(x.packed), NEW o, o = x.packed[k]
  PROVE  BytesBack(m, m2, o)
<1>1. x \in ContextsOf(U)
  BY DEF Finished
<1>2. o \in ObjectsOf(U) /\ DOMAIN o.links = 1 .. Len(o.links)
  BY <1>1, ContextFacts, ObjectFacts
<1>3. PICK h \in Nat, t \in Nat : h = o.head /\ t = o.tail
  BY <1>2, ObjectFacts
<1>4. /\ Bytes(m, o) = [b \in 1 .. t - h |-> m[h + b - 1]]
      /\ Bytes(m2, o) = [b \in 1 .. t - h |-> m2[h + b - 1]]
  BY <1>3 DEF Bytes
<1>5. ASSUME NEW b \in 1 .. t - h
      PROVE  (IF IsField(o, b) THEN 0 ELSE m2[h + b - 1]) = m[h + b - 1]
  <2>1. PICK a \in Nat : a = h + b - 1 /\ h <= a /\ a < t
    <3>1. h + b - 1 \in Nat /\ h <= h + b - 1 /\ h + b - 1 < t
      BY <1>3
    <3> QED BY <3>1
  <2>2. CASE IsField(o, b)
    <3>1. PICK j \in 1 .. Len(o.links) : o.links[j].position = b - 1
      BY <1>2, <2>2 DEF IsField
    <3>2. PICK l, a2 : l = o.links[j] /\ a2 = o.head + l.position
      OBVIOUS
    <3>3. LinkPlace(m, n, x, k, j, o, l, a2)
      BY <3>2, LinkPlaced
    <3>4. m[a2] = 0
      BY <3>3 DEF LinkPlace
    <3>5. a2 = h + (b - 1)
      BY <1>3, <3>1, <3>2
    <3>6. a2 = a
      BY <2>1, <3>5
    <3> QED BY <2>1, <2>2, <3>4, <3>6
  <2>3. CASE ~IsField(o, b)
    <3>1. ASSUME NEW j \in 1 .. Len(o.links) PROVE o.head + o.links[j].position # a
      <4>1. o.links[j].position # b - 1
        BY <1>2, <2>3 DEF IsField
      <4>2. PICK p \in Nat : p = o.links[j].position
        BY <1>2, ObjectFacts
      <4>3. h + p # a
        BY SMTT(30), <2>1, <4>1, <4>2
      <4> QED BY <1>3, <4>2, <4>3
    <3>2. o.head <= a /\ a < o.tail
      BY <1>3, <2>1
    <3>3. m2[a] = m[a]
      <4>1. Stores(m2, a, m[a])
        BY <2>1, <3>1, <3>2, PlainStays
      <4> QED BY <4>1 DEF Stores
    <3> QED BY <2>1, <2>3, <3>3
  <2> QED BY <2>2, <2>3
<1>6. DOMAIN Bytes(m2, o) = 1 .. t - h
  BY <1>4
<1>7. \A b \in 1 .. t - h : Bytes(m2, o)[b] = m2[h + b - 1]
  BY <1>4
<1> QED BY <1>4, <1>5, <1>6, <1>7 DEF PlainBytes, BytesBack

\* Below object k, function g is what was built.
ReadBelow(m, x, g, k) == \A c \in 1 .. k - 1 : g[c] = Tree(m, x.packed[c])

\* One step of reading.
LEMMA ReadStep ==
  ASSUME NEW U, NEW n, n \in Nat, NEW m, NEW x, Finished(U, m, n, x), Fits(x),
         NEW m2, m2 = WithOffsets(m, x),
         NEW k, k \in 1 .. Len(x.packed),
         NEW g, ReadBelow(m, x, g, k)
  PROVE  ReadBody(m2, x.packed, g, k) = Tree(m, x.packed[k])
<1>1. x \in ContextsOf(U) /\ PackedFaithful(m, x)
  BY DEF Finished
<1>2. PICK o : o = x.packed[k] /\ DOMAIN o.links = 1 .. Len(o.links)
  BY <1>1, ContextFacts, ObjectFacts
<1>3. \A j \in DOMAIN o.links :
        /\ o.links[j].objidx \in 1 .. k - 1
        /\ x.packed[o.links[j].objidx].head = FieldAt(m2, o, o.links[j])
        /\ (CHOOSE c \in 1 .. k - 1 : x.packed[c].head = FieldAt(m2, o, o.links[j])) = o.links[j].objidx
  <2>1. ASSUME NEW j \in 1 .. Len(o.links) PROVE Leads(m2, x, k, o, o.links[j])
    BY <1>2, FieldLeads
  <2> QED BY <1>2, <2>1 DEF Leads
<1>4. ~ \E j \in DOMAIN o.links : \A c \in 1 .. k - 1 : x.packed[c].head # FieldAt(m2, o, o.links[j])
  BY <1>3
<1>5. PICK B : B = PlainBytes(m2, o)
  OBVIOUS
<1>6. B = Bytes(m, o)
  <2>1. BytesBack(m, m2, o)
    BY <1>2, BytesRead
  <2> QED BY <1>5, <2>1 DEF BytesBack
<1>7. PICK K : K = {[position |-> o.links[j].position, bias |-> o.links[j].bias,
                     tree |-> g[CHOOSE c \in 1 .. k - 1 : x.packed[c].head = FieldAt(m2, o, o.links[j])]] :
                       j \in DOMAIN o.links}
  OBVIOUS
<1>8. \A j \in DOMAIN o.links :
        KidAt(m, x, o.links[j]) =
          [position |-> o.links[j].position, bias |-> o.links[j].bias,
           tree |-> g[CHOOSE c \in 1 .. k - 1 : x.packed[c].head = FieldAt(m2, o, o.links[j])]]
  BY <1>3 DEF KidAt, ReadBelow
<1>9. K = {KidAt(m, x, o.links[j]) : j \in DOMAIN o.links}
  BY <1>7, <1>8
<1>10. o.kids = {KidAt(m, x, o.links[j]) : j \in DOMAIN o.links}
  BY <1>1, <1>2 DEF PackedFaithful, KidsOK
<1>11. ReadBody(m2, x.packed, g, k) = [bytes |-> B, kids |-> K]
  BY <1>2, <1>4, <1>5, <1>7 DEF ReadBody, PlainBytes
<1> QED BY <1>2, <1>6, <1>9, <1>10, <1>11 DEF Tree

\* The table reads back as it was built.
LEMMA ReadBack ==
  ASSUME NEW U, NEW n, n \in Nat, NEW m, NEW x, Finished(U, m, n, x), Fits(x),
         NEW m2, m2 = WithOffsets(m, x),
         NEW R, R = CHOOSE g : Reads(m2, x.packed, g)
  PROVE  \A k \in 1 .. Len(x.packed) : R[k] = Tree(m, x.packed[k])
<1>1. DOMAIN x.packed = 1 .. Len(x.packed) /\ Len(x.packed) \in Nat
  BY ContextFacts DEF Finished
<1>2. PICK T : T = [k \in 1 .. Len(x.packed) |-> Tree(m, x.packed[k])]
  OBVIOUS
<1>3. ASSUME NEW k \in 1 .. Len(x.packed)
      PROVE  ReadBody(m2, x.packed, T, k) = Tree(m, x.packed[k])
  <2>1. \A c \in 1 .. k - 1 : c \in 1 .. Len(x.packed)
    BY <1>1
  <2>2. \A c \in 1 .. k - 1 : T[c] = Tree(m, x.packed[c])
    BY <1>2, <2>1
  <2>3. ReadBelow(m, x, T, k)
    BY <2>2 DEF ReadBelow
  <2> QED BY <2>3, ReadStep
<1>4. Reads(m2, x.packed, T)
  BY <1>1, <1>2, <1>3 DEF Reads
<1>5. Reads(m2, x.packed, R)
  BY <1>4
<1>6. \A k \in 1 .. Len(x.packed) : R[k] = ReadBody(m2, x.packed, R, k)
  BY <1>1, <1>5 DEF Reads
<1> DEFINE S == {k \in 1 .. Len(x.packed) : R[k] # Tree(m, x.packed[k])}
<1>7. S = {}
  <2>1. SUFFICES ASSUME S # {} PROVE FALSE
    OBVIOUS
  <2>2. S \subseteq Nat
    BY <1>1
  <2>3. PICK k \in S : \A i \in S : k <= i
    BY <2>1, <2>2, LeastExists
  <2>4. k \in 1 .. Len(x.packed) /\ R[k] # Tree(m, x.packed[k])
    BY <2>3
  <2>5. \A c \in 1 .. k - 1 : R[c] = Tree(m, x.packed[c])
    <3>1. ASSUME NEW c \in 1 .. k - 1 PROVE R[c] = Tree(m, x.packed[c])
      <4>1. c \in 1 .. Len(x.packed) /\ ~(k <= c)
        BY <1>1, <2>4
      <4>2. c \notin S
        BY <2>3, <4>1
      <4> QED BY <4>1, <4>2
    <3> QED BY <3>1
  <2>6. ReadBody(m2, x.packed, R, k) = Tree(m, x.packed[k])
    <3>1. ReadBelow(m, x, R, k)
      BY <2>5 DEF ReadBelow
    <3> QED BY <2>4, <3>1, ReadStep
  <2> QED BY <1>6, <2>4, <2>6
<1> QED BY <1>7

-----------------------------------------------------------------------------
(* end_serialize.                                                           *)

\* Context c, whose errors are accounted for.
Closed(x, c) == c = [x EXCEPT !.successful = @ /\ x.bad = {}]

LEMMA ClosedStep ==
  ASSUME NEW U, NEW n, n \in Nat, NEW m, NEW x, NEW f, Typed(U, m, n, x, f),
         NEW fl, fl \in Nat, WInv(m, n, x, f, fl), NEW c, Closed(x, c)
  PROVE  Typed(U, m, n, c, f) /\ WInv(m, n, c, f, fl) /\ c.bad = x.bad /\ c.lost = x.lost /\ c.current = x.current
         /\ c.packed = x.packed /\ c.head = x.head /\ c.tail = x.tail /\ (c.successful => c.bad = {})
<1>1. x \in ContextsOf(U) /\ f \in Seq(FramesOf(U)) /\ BlockType(m, n)
  BY DEF Typed
<1>2. PICK b \in BOOLEAN : b = (x.successful /\ x.bad = {})
  OBVIOUS
<1>3. c = [x EXCEPT !.successful = b]
  BY <1>2 DEF Closed
<1>4. /\ c \in ContextsOf(U) /\ c.successful = b
      /\ c.head = x.head /\ c.tail = x.tail /\ c.current = x.current /\ c.packed = x.packed
      /\ c.map = x.map /\ c.bad = x.bad /\ c.lost = x.lost
  BY <1>1, <1>3 DEF ContextsOf
<1>5. CASE ~b
  <2>1. Failing(x, c)
    BY <1>4, <1>5 DEF Failing
  <2>2. WInv(m, n, c, f, fl)
    BY <1>4, <2>1, FailStep
  <2> QED BY <1>1, <1>4, <1>5, <2>2 DEF Typed
<1>6. CASE b
  <2>1. x.successful = b /\ x.bad = {}
    BY <1>1, <1>2, <1>6 DEF ContextsOf
  <2>2. c = x
    BY <1>1, <1>3, <2>1 DEF ContextsOf
  <2> QED BY <1>1, <2>1, <2>2
<1> QED BY <1>5, <1>6

\* The last object, the table itself, is packed: what it left as it was built.
LEMMA RootPacked ==
  ASSUME NEW U, NEW n, n \in Nat, NEW m, NEW x, NEW f, Typed(U, m, n, x, f), Len(f) = 1,
         NEW fl, WInv(m, n, x, f, fl), Healthy(x, f), x.successful,
         NEW r \in PopPack(m, x), "packed" \notin r.context.bad
  PROVE  Finished(U, r.mem, n, r.context) /\ r.context.head = 0
<1>1. /\ x \in ContextsOf(U) /\ f \in Seq(FramesOf(U)) /\ BlockType(m, n)
      /\ Sound(m, n, x) /\ Len(x.current) = 1 /\ x.bad = {}
      /\ Matched(n, x, f, x.head) /\ Good(m, n, x, f)
  BY DEF Typed, WInv, Healthy
<1>2. x.current # <<>>
  <2>1. Len(<<>>) = 0
    OBVIOUS
  <2>2. Len(x.current) = 1
    BY <1>1
  <2>3. PICK s : s = x.current /\ Len(s) = 1
    BY <2>2
  <2>4. s # <<>>
    BY <2>1, <2>3
  <2> QED BY <2>3, <2>4
<1>3. PICK c, m2 :
        /\ c = r.context /\ c \in ContextsOf(U) /\ m2 = r.mem
        /\ BlockType(r.mem, n) /\ Sound(r.mem, n, c)
        /\ c.head = Last(x.current).head /\ c.successful
  <2>1. /\ r.context \in ContextsOf(U) /\ BlockType(r.mem, n) /\ Sound(r.mem, n, r.context)
        /\ r.context.head = Last(x.current).head
    BY <1>1, <1>2, PopPackSound
  <2>2. r.context.successful
    BY <1>1, <1>2, PopPackSound
  <2> QED BY <2>1, <2>2
<1>4. c.head = 0
  <2>1. HeadAbove(x, 0, x.head) = 0
    BY <1>1 DEF Good, LevelsOK
  <2>2. HeadAbove(x, 0, x.head) = x.current[1].head
    BY <1>1 DEF HeadAbove
  <2>3. Last(x.current) = x.current[1]
    BY <1>1 DEF Last
  <2> QED BY <1>3, <2>1, <2>2, <2>3
<1>5. CASE c.bad = {}
  <2>1. Good(m2, n, c, Front(f))
    BY <1>1, <1>2, <1>3, <1>5, PopPackGood
  <2> QED BY <1>3, <1>4, <2>1 DEF Good, Sound, Finished
<1>6. CASE c.bad # {}
  <2>0. /\ Descending(n, x) /\ Ascending(n, x) /\ Target(x) \in Nat
    BY <1>1, <1>2, PopPlace DEF Sound
  <2>1. Popped(x).bad = {} /\ Mapped(x).bad = {}
    BY <1>1, <1>2, <2>0, PoppedFacts, MappedFacts
  <2>2. ~PopsEmpty(m, x, r) /\ ~FindsEqual(m, x, r) /\ c # Mapped(x)
    BY <1>3, <1>6, <2>1 DEF PopsEmpty, FindsEqual
  <2>3. Packs(m, x, r)
    BY <1>1, <1>2, <2>2, PopPackIs
  <2>4. c # Without(MovedOff(x), "packed")
    <3>1. MovedOff(x) \in ContextsOf(U)
      BY <1>1, <1>2, <2>0, MovedOffFacts
    <3>2. "packed" \in Without(MovedOff(x), "packed").bad
      BY <3>1, WithoutFacts
    <3> QED BY <1>3, <3>2
  <2>5. c = Without(Pushed(x), "packed_map") /\ m2 = Moved(m, Top(x), Target(x))
    BY <1>3, <2>2, <2>3, <2>4 DEF Packs
  <2>6. PICK z \in ContextsOf(U) :
          /\ z = Mapped(x) /\ z.packed = c.packed /\ z.tail = c.tail /\ z.successful = x.successful
    <3>1. Pushed(x) \in ContextsOf(U)
      BY <1>1, <1>2, <2>0, PushedFacts
    <3>2. c.packed = Pushed(x).packed /\ c.tail = Pushed(x).tail
      BY <2>5, <3>1, WithoutFacts
    <3>3. Pushed(x).packed = Append(x.packed, PackedTop(x)) /\ Pushed(x).tail = Target(x)
      BY <1>1, <1>2, <2>0, PushedFacts
    <3>4. /\ Mapped(x) \in ContextsOf(U) /\ Mapped(x).packed = Append(x.packed, PackedTop(x))
          /\ Mapped(x).tail = Target(x) /\ Mapped(x).successful = x.successful
      BY <1>1, <1>2, <2>0, MappedFacts
    <3> QED BY <3>2, <3>3, <3>4
  <2>7. Good(m2, n, z, Front(f))
    BY <1>1, <1>2, <2>5, <2>6, MappedGood
  <2>8. Whole(m2, n, z) /\ PackedFaithful(m2, z)
    BY <2>6, <2>7 DEF Good
  <2>9. Whole(m2, n, c)
    BY <2>6, <2>8 DEF Whole, Tight, Floor, PackedOK, LinksOK, Stays
  <2>10. PackedFaithful(m2, c)
    BY <2>6, <2>8 DEF PackedFaithful, KidsOK, KidAt
  <2> QED BY <1>3, <1>4, <2>9, <2>10 DEF Sound, Finished
<1> QED BY <1>5, <1>6

\* What resolve_links looks at before it writes.
Unwritten(m, x) == \A pl \in LinksIn(x) : m[FieldOf(pl)] = 0 /\ pl[2].bias <= pl[1].tail - pl[1].head

LEMMA FinishedUnwritten ==
  ASSUME NEW U, NEW n, n \in Nat, NEW m, NEW x, Finished(U, m, n, x)
  PROVE  Unwritten(m, x)
<1>1. ASSUME NEW pl \in LinksIn(x)
      PROVE  m[FieldOf(pl)] = 0 /\ pl[2].bias <= pl[1].tail - pl[1].head
  <2>1. PICK k \in 1 .. Len(x.packed) : \E j \in 1 .. Len(x.packed[k].links) :
               pl = <<x.packed[k], x.packed[k].links[j]>>
    BY LinksInIs DEF Finished
  <2>2. PICK o, j, l, a :
          /\ o = x.packed[k] /\ j \in 1 .. Len(o.links) /\ l = o.links[j]
          /\ a = o.head + l.position /\ pl = <<o, l>>
    BY <2>1
  <2>3. LinkPlace(m, n, x, k, j, o, l, a)
    BY <2>2, LinkPlaced
  <2>4. PICK h \in Nat, t \in Nat, p \in Nat, b \in Nat :
          h = o.head /\ t = o.tail /\ p = l.position /\ b = l.bias /\ b <= p
    BY <2>3 DEF LinkPlace
  <2>5. h + p < t
    <3>1. a = h + p /\ a < t
      BY <2>2, <2>3, <2>4 DEF LinkPlace
    <3> QED BY <3>1
  <2>6. b <= t - h
    BY <2>4, <2>5
  <2>7. m[a] = 0 /\ FieldOf(pl) = a
    BY <2>2, <2>3 DEF LinkPlace, FieldOf
  <2> QED BY <2>2, <2>4, <2>6, <2>7
<1> QED BY <1>1 DEF Unwritten

\* What resolve_links returns for result r with memory m and context c.
Resolves(m, c, as, y) ==
  /\ y.context.head = c.head /\ y.context.tail = c.tail /\ y.context.current = c.current
  /\ y.context.packed = c.packed /\ y.context.map = c.map /\ y.context.bad = c.bad /\ y.context.lost = c.lost
  /\ y.context.successful => c.successful /\ Fits(c) /\ y.mem = WithOffsets(m, c)
  /\ c.successful => (y.asserts <=> Unwritten(m, c))
  /\ ~c.successful => (y.asserts <=> as)

LEMMA ResolvesIs ==
  ASSUME NEW U, NEW m, NEW c \in ContextsOf(U), NEW i, NEW as \in BOOLEAN,
         NEW r, r = Result(m, c, i, as), NEW y, y = ResolveLinks(r)
  PROVE  Resolves(m, c, as, y)
<1>1. r = [mem |-> m, context |-> c, objidx |-> i, asserts |-> as]
  BY DEF Result
<1>2. CASE ~c.successful
  <2>0. r.mem = m /\ r.context = c /\ r.asserts = as
    BY <1>1
  <2>1. y = r
    BY <1>2, <2>0 DEF ResolveLinks
  <2> QED BY <1>2, <2>0, <2>1 DEF Resolves
<1>3. CASE c.successful
  <2>1. PICK fits, zero, m2 :
          /\ fits \in BOOLEAN /\ zero \in BOOLEAN
          /\ fits = (\A pl \in LinksIn(c) : OffsetOf(c, pl) \in 0 .. MaxOffset)
          /\ zero = (\A pl \in LinksIn(c) : /\ m[FieldOf(pl)] = 0
                                            /\ pl[2].bias <= pl[1].tail - pl[1].head)
          /\ m2 = WithOffsets(m, c)
    OBVIOUS
  <2>2. PICK c2 : c2 = [c EXCEPT !.successful = fits]
    OBVIOUS
  <2>3. y = [mem |-> m2, context |-> c2, objidx |-> i, asserts |-> zero]
    <3>1. r.mem = m /\ r.context = c
      BY <1>1
    <3>2. y = [r EXCEPT !.mem = m2, !.context.successful = fits, !.asserts = zero]
      BY <1>3, <2>1, <3>1, Zenon DEF ResolveLinks
    <3>3. PICK r1 : r1 = [r EXCEPT !.mem = m2]
      OBVIOUS
    <3>4. r1 = [mem |-> m2, context |-> c, objidx |-> i, asserts |-> as]
      <4>1. r1 = [[mem |-> m, context |-> c, objidx |-> i, asserts |-> as] EXCEPT !.mem = m2]
        BY <1>1, <3>3
      <4> QED BY <4>1
    <3>5. PICK r2 : r2 = [r1 EXCEPT !.context.successful = fits]
      OBVIOUS
    <3>6. r2 = [mem |-> m2, context |-> c2, objidx |-> i, asserts |-> as]
      BY <2>2, <3>4, <3>5
    <3>7. y = [r2 EXCEPT !.asserts = zero]
      BY <3>2, <3>3, <3>5
    <3> QED BY <3>6, <3>7
  <2>4. y.mem = m2 /\ y.context = c2 /\ y.asserts = zero
    BY <2>3
  <2>5. /\ c2.head = c.head /\ c2.tail = c.tail /\ c2.current = c.current
        /\ c2.packed = c.packed /\ c2.map = c.map /\ c2.bad = c.bad /\ c2.lost = c.lost /\ c2.successful = fits
    BY <2>2 DEF ContextsOf
  <2>6. (fits => Fits(c)) /\ (zero <=> Unwritten(m, c))
    BY <2>1 DEF Fits, Unwritten
  <2> QED BY <1>3, <2>1, <2>4, <2>5, <2>6 DEF Resolves
<1> QED BY <1>2, <1>3

\* A finished table reads back.
ReadsBack(m, x) ==
  /\ x.head = 0
  /\ x.packed # <<>> =>
       \A R : R = (CHOOSE g : Reads(m, x.packed, g)) =>
         R[Len(x.packed)] # <<>> /\ R[Len(x.packed)].kids = Last(x.packed).kids

LEMMA FinishedReadsBack ==
  ASSUME NEW U, NEW n, n \in Nat, NEW m, NEW x, Finished(U, m, n, x), Fits(x), x.head = 0,
         NEW m2, m2 = WithOffsets(m, x)
  PROVE  ReadsBack(m2, x)
<1>1. ASSUME x.packed # <<>>, NEW R, R = (CHOOSE g : Reads(m2, x.packed, g))
      PROVE  R[Len(x.packed)] # <<>> /\ R[Len(x.packed)].kids = Last(x.packed).kids
  <2>1. PICK N \in Nat : N = Len(x.packed) /\ N \in 1 .. N /\ Last(x.packed) = x.packed[N]
    <3>1. x.packed \in Seq(ObjectsOf(U))
      BY ContextFacts DEF Finished
    <3>2. Len(x.packed) \in Nat \ {0} /\ Last(x.packed) = x.packed[Len(x.packed)]
      BY <1>1, <3>1, FrontFacts
    <3> QED BY <3>2
  <2>2. \A k \in 1 .. Len(x.packed) : R[k] = Tree(m, x.packed[k])
    BY <1>1, ReadBack
  <2>3. R[N] = Tree(m, x.packed[N])
    BY <2>1, <2>2
  <2>4. PICK t : t = R[N] /\ t = [bytes |-> Bytes(m, x.packed[N]), kids |-> x.packed[N].kids]
    BY <2>3 DEF Tree
  <2>5. t # <<>>
    BY <2>4
  <2>6. t.kids = x.packed[N].kids
    BY <2>4
  <2> QED BY <2>1, <2>4, <2>5, <2>6
<1> QED BY <1>1 DEF ReadsBack

\* The table is packed, result r, and the offsets are written, result y.
EndOutcome(n, x, r, y, fl2) ==
  /\ fl2 \in Nat
  /\ fl2 = 0 => r.asserts /\ y.asserts /\ Len(x.current) = 1 /\ Fine(n, y.context)
  /\ y.context.successful /\ y.context.lost = 0 /\ "packed" \notin y.context.bad
       => ReadsBack(y.mem, y.context)

LEMMA EndStep ==
  ASSUME NEW U, NEW n, n \in Nat, NEW m, NEW x, NEW f, Typed(U, m, n, x, f), Len(f) = 1,
         NEW fl, fl \in Nat, WInv(m, n, x, f, fl), x.successful => x.bad = {}, x.current # <<>>,
         NEW r \in PopPack(m, x), NEW y, y = ResolveLinks(r),
         NEW fl2, fl2 = fl + (Cardinality(y.context.bad) - Cardinality(x.bad))
  PROVE  EndOutcome(n, x, r, y, fl2)
<1>1. x \in ContextsOf(U) /\ f \in Seq(FramesOf(U)) /\ BlockType(m, n) /\ f # <<>>
  <2>1. Len(<<>>) = 0
    OBVIOUS
  <2>2. f # <<>>
    BY <2>1
  <2>3. x \in ContextsOf(U) /\ f \in Seq(FramesOf(U)) /\ BlockType(m, n)
    BY DEF Typed
  <2> QED BY <2>2, <2>3
<1>2. PICK m2, c, i, as, e :
        m2 = r.mem /\ c = r.context /\ i = r.objidx /\ as = r.asserts /\ e = Front(f)
  OBVIOUS
<1>3. r = Result(m2, c, i, as) /\ as \in BOOLEAN
  BY <1>2, PopPackResult
<1>4. c \in ContextsOf(U)
  <2>1. Sound(m, n, x)
    BY DEF WInv
  <2>2. r.context \in ContextsOf(U)
    BY <1>1, <2>1, PopPackSound
  <2> QED BY <1>2, <2>2
<1>5. Resolves(m2, c, as, y)
  BY <1>3, <1>4, ResolvesIs
<1>6. /\ y.context.head = c.head /\ y.context.tail = c.tail /\ y.context.current = c.current
      /\ y.context.packed = c.packed /\ y.context.bad = c.bad /\ y.context.lost = c.lost
      /\ y.context.successful => c.successful /\ Fits(c) /\ y.mem = WithOffsets(m2, c)
      /\ c.successful => (y.asserts <=> Unwritten(m2, c))
      /\ ~c.successful => (y.asserts <=> as)
  BY <1>5 DEF Resolves
<1>7. PopOutcome(U, n, m, x, f, r, fl2)
  <2>1. fl2 = fl + (Cardinality(r.context.bad) - Cardinality(x.bad))
    BY <1>2, <1>6
  <2> QED BY <1>1, <2>1, PopStep
<1>8. /\ fl2 \in Nat /\ Typed(U, m2, n, c, e) /\ WInv(m2, n, c, e, fl2)
      /\ fl2 = 0 => as
      /\ Healthy(c, e) => Healthy(x, f)
  BY <1>2, <1>7 DEF PopOutcome
<1>9. (c.successful => x.successful) /\ c.lost = x.lost
  BY <1>2, <1>7 DEF PopOutcome
<1>10. ASSUME Healthy(x, f), c.successful, "packed" \notin c.bad
       PROVE  Finished(U, m2, n, c) /\ c.head = 0
  <2>1. x.successful
    BY <1>9, <1>10
  <2> QED BY <1>2, <1>10, <2>1, RootPacked
<1>11. ASSUME fl2 = 0 PROVE as /\ y.asserts /\ Len(x.current) = 1 /\ Fine(n, y.context)
  <2>1. Healthy(c, e)
    BY <1>8, <1>11, ZeroHealthy
  <2>2. Healthy(x, f) /\ as
    BY <1>8, <1>11, <2>1
  <2>3. Len(x.current) = 1
    BY <2>2 DEF Healthy
  <2>4. Fine(n, c)
    BY <1>8, <2>1, HealthyFine
  <2>5. Fine(n, y.context)
    BY <1>6, <2>4 DEF Fine, EndToEnd, PackedLinks, CurrentLinks
  <2>6. CASE c.successful
    <3>1. "packed" \notin c.bad
      BY <2>1 DEF Healthy
    <3>2. Finished(U, m2, n, c)
      BY <1>10, <2>2, <2>6, <3>1
    <3>3. Unwritten(m2, c)
      BY <3>2, FinishedUnwritten
    <3> QED BY <1>6, <2>2, <2>3, <2>5, <2>6, <3>3
  <2>7. CASE ~c.successful
    BY <1>6, <2>2, <2>3, <2>5, <2>7
  <2> QED BY <2>6, <2>7
<1>12. ASSUME y.context.successful, y.context.lost = 0, "packed" \notin y.context.bad
       PROVE  ReadsBack(y.mem, y.context)
  <2>1. /\ c.successful /\ Fits(c) /\ y.mem = WithOffsets(m2, c) /\ "packed" \notin c.bad
        /\ c.lost = 0
    BY <1>6, <1>12
  <2>2. x.bad = {} /\ x.lost = 0 /\ Len(x.current) = Len(f)
    <3>1. x.successful
      BY <1>9, <2>1
    <3> QED BY <1>9, <2>1, <3>1 DEF WInv
  <2>3. Finished(U, m2, n, c) /\ c.head = 0
    BY <1>10, <2>1, <2>2 DEF Healthy
  <2>4. ReadsBack(y.mem, c)
    BY <2>1, <2>3, FinishedReadsBack
  <2> QED BY <1>6, <2>4 DEF ReadsBack
<1> QED BY <1>2, <1>8, <1>11, <1>12 DEF EndOutcome

----------------------------------------------------------------------------
(* The states of the specification.                                        *)

Inv ==
  /\ failed \in Nat /\ end \in Nat
  /\ phase \in {"writing", "done", "refused", "aborted"}
  /\ phase = "writing" => Written(mem, end, context, frames, failed)
  /\ phase # "writing" => AssertsHold /\ LinksToPacked /\ TableReadsBack

LEMMA WrittenFine ==
  ASSUME NEW m, NEW n, n \in Nat, NEW x, NEW f, NEW fl, fl = 0, Written(m, n, x, f, fl)
  PROVE  Fine(n, x)
<1>1. PICK U : Typed(U, m, n, x, f)
  BY DEF Written
<1>2. WInv(m, n, x, f, fl)
  BY DEF Written
<1>3. Healthy(x, f)
  BY <1>1, <1>2, ZeroHealthy
<1> QED BY <1>1, <1>2, <1>3, HealthyFine

LEMMA FineHolds ==
  ASSUME failed = 0 => phase # "aborted" /\ Fine(end, context)
  PROVE  AssertsHold /\ LinksToPacked
BY DEF AssertsHold, LinksToPacked, Packed, Fine, EndToEnd, PackedLinks, CurrentLinks

LEMMA FineHoldsNext ==
  ASSUME failed' = 0 => phase' # "aborted" /\ Fine(end', context')
  PROVE  AssertsHold' /\ LinksToPacked'
BY DEF AssertsHold, LinksToPacked, Packed, Fine, EndToEnd, PackedLinks, CurrentLinks

\* What the invariant says of a state.
LEMMA InvHolds ==
  ASSUME Inv
  PROVE  AssertsHold /\ SharingExact /\ LinksToPacked /\ TableReadsBack
<1>1. SharingExact
  <2>1. CASE phase = "writing"
    <3>1. Shared(mem, context)
      BY <2>1 DEF Inv, Written, WInv, Sound
    <3> QED BY <3>1 DEF Shared, SharingExact, Packed
  <2>2. CASE phase # "writing"
    BY <2>2 DEF SharingExact
  <2> QED BY <2>1, <2>2
<1>2. CASE phase = "writing"
  <2>1. ASSUME failed = 0 PROVE phase # "aborted" /\ Fine(end, context)
    <3>1. Written(mem, end, context, frames, failed) /\ end \in Nat
      BY <1>2 DEF Inv
    <3>2. Fine(end, context)
      BY <2>1, <3>1, WrittenFine
    <3> QED BY <1>2, <3>2
  <2>2. AssertsHold /\ LinksToPacked
    BY <2>1, FineHolds
  <2>3. TableReadsBack
    BY <1>2 DEF TableReadsBack
  <2> QED BY <1>1, <2>2, <2>3
<1>3. CASE phase # "writing"
  BY <1>1, <1>3 DEF Inv
<1> QED BY <1>2, <1>3

\* Steps that go on writing.
LEMMA WritesOn ==
  ASSUME failed' \in Nat, end' \in Nat, phase' = "writing",
         Written(mem', end', context', frames', failed')
  PROVE  Inv'
BY DEF Inv

\* The steps that take the result of a method.
LEMMA BecomesInv ==
  ASSUME Inv, Writing, NEW r, Becomes(r), Outcome(end, context, failed, r, frames')
  PROVE  Inv'
<1>1. PICK fl2 : fl2 = failed + (Cardinality(r.context.bad) - Cardinality(context.bad))
                          + (r.context.lost - context.lost)
  OBVIOUS
<1>2. /\ fl2 \in Nat
      /\ fl2 = 0 => r.asserts
      /\ r.asserts => Written(r.mem, end, r.context, frames', fl2)
  BY <1>1, Zenon DEF Outcome
<1>3. /\ failed' = fl2 /\ end' = end /\ end \in Nat
      /\ IF r.asserts THEN mem' = r.mem /\ context' = r.context /\ phase' = phase
         ELSE phase' = "aborted"
  BY <1>1 DEF Becomes, Inv
<1>4. CASE r.asserts
  <2>1. Written(mem', end', context', frames', failed')
    BY <1>2, <1>3, <1>4
  <2>2. phase' = "writing"
    BY <1>3, <1>4 DEF Writing
  <2> QED BY <1>2, <1>3, <2>1, <2>2, WritesOn
<1>5. CASE ~r.asserts
  <2>1. phase' = "aborted" /\ failed' # 0
    BY <1>2, <1>3, <1>5
  <2>2. AssertsHold' /\ LinksToPacked'
    BY <2>1, FineHoldsNext
  <2>3. TableReadsBack'
    BY <2>1 DEF TableReadsBack
  <2> QED BY <1>2, <1>3, <2>1, <2>2, <2>3 DEF Inv
<1> QED BY <1>4, <1>5

\* What the invariant gives a step that writes.
LEMMA InvWriting ==
  ASSUME Inv, Writing
  PROVE  /\ end \in Nat /\ failed \in Nat
         /\ \E U : Typed(U, mem, end, context, frames)
         /\ WInv(mem, end, context, frames, failed)
BY DEF Inv, Writing, Written

LEMMA InvInit == Init => Inv
<1> SUFFICES ASSUME Init PROVE Inv
  OBVIOUS
<1>1. FirstSize \in Nat
  BY SerializerAssumption
<1>2. Written(Zeroes(FirstSize), FirstSize, Fresh(FirstSize), <<>>, 0)
  BY <1>1, FreshWritten
<1>3. Written(mem, end, context, frames, failed)
  BY <1>2 DEF Init
<1> QED BY <1>1, <1>3 DEF Inv, Init

LEMMA EmbedInv == ASSUME Inv, NEW v \in Values, Embed(v) PROVE Inv'
<1>1. Writing /\ frames # <<>>
  BY DEF Embed
<1>2. PICK U : Typed(U, mem, end, context, frames)
  BY <1>1, InvWriting
<1>3. end \in Nat /\ failed \in Nat /\ WInv(mem, end, context, frames, failed)
  BY <1>1, InvWriting
<1>4. PICK h, t \in Nat : h = context.head /\ t = context.tail
  BY <1>2 DEF Typed, ContextsOf
<1>5. CASE t - h < 1
  <2>1. PICK c : c = [context EXCEPT !.successful = FALSE, !.roomless = TRUE]
    OBVIOUS
  <2>2. Written(mem, end, c, frames, failed)
    BY <1>2, <1>3, <2>1, RoomlessStep
  <2>3. context' = c /\ mem' = mem /\ end' = end /\ frames' = frames /\ failed' = failed /\ phase' = phase
    BY <1>4, <1>5, <2>1 DEF Embed
  <2> QED BY <1>1, <1>3, <2>2, <2>3, WritesOn DEF Writing
<1>6. CASE ~(t - h < 1)
  <2>1. PICK c, m2 : c = [context EXCEPT !.head = @ + 1] /\ m2 = [mem EXCEPT ![context.head] = v]
    OBVIOUS
  <2>2. context.head < context.tail /\ v \in Nat
    BY <1>4, <1>6, SerializerAssumption
  <2>3. Written(m2, end, c, frames, failed)
    BY <1>1, <1>2, <1>3, <2>1, <2>2, EmbedStep
  <2>4. context' = c /\ mem' = m2 /\ end' = end /\ frames' = frames /\ failed' = failed /\ phase' = phase
    BY <1>4, <1>6, <2>1 DEF Embed
  <2> QED BY <1>1, <1>3, <2>3, <2>4, WritesOn DEF Writing
<1> QED BY <1>5, <1>6

LEMMA PushInv == ASSUME Inv, Push PROVE Inv'
<1>1. Writing /\ context.successful
  BY DEF Push
<1>2. PICK U : Typed(U, mem, end, context, frames)
  BY <1>1, InvWriting
<1>3. end \in Nat /\ failed \in Nat /\ WInv(mem, end, context, frames, failed)
  BY <1>1, InvWriting
<1>4. PICK c, g : /\ c = [context EXCEPT !.current = Append(@, Object(context.head, context.tail))]
                  /\ g = Append(frames, Frame(context.head))
  OBVIOUS
<1>5. Written(mem, end, c, g, failed)
  BY <1>1, <1>2, <1>3, <1>4, PushStep
<1>6. context' = c /\ mem' = mem /\ end' = end /\ frames' = g /\ failed' = failed /\ phase' = phase
  BY <1>4 DEF Push
<1> QED BY <1>1, <1>3, <1>5, <1>6, WritesOn DEF Writing

LEMMA PushRefusedInv == ASSUME Inv, PushRefused PROVE Inv'
<1>1. Writing
  BY DEF PushRefused
<1>2. PICK U : Typed(U, mem, end, context, frames)
  BY <1>1, InvWriting
<1>3. end \in Nat /\ failed \in Nat /\ WInv(mem, end, context, frames, failed)
  BY <1>1, InvWriting
<1>4. PICK c, g : /\ c = [context EXCEPT !.successful = FALSE]
                  /\ g = Append(frames, Frame(context.head))
  OBVIOUS
<1>5. Written(mem, end, c, g, failed + 1)
  BY <1>2, <1>3, <1>4, PushRefusedStep
<1>6. context' = c /\ mem' = mem /\ end' = end /\ frames' = g /\ failed' = failed + 1 /\ phase' = phase
  BY <1>4 DEF PushRefused
<1>7. failed' \in Nat
  BY <1>3, <1>6
<1>8. Written(mem', end', context', frames', failed')
  BY <1>5, <1>6
<1> QED BY <1>1, <1>3, <1>6, <1>7, <1>8, WritesOn DEF Writing

LEMMA SnapshotInv == ASSUME Inv, Snapshot PROVE Inv'
<1>1. Writing /\ frames # <<>>
  BY DEF Snapshot
<1>2. PICK U : Typed(U, mem, end, context, frames)
  BY <1>1, InvWriting
<1>3. end \in Nat /\ failed \in Nat /\ WInv(mem, end, context, frames, failed)
  BY <1>1, InvWriting
<1>4. PICK g : g = [Last(frames) EXCEPT !.snap = [head |-> context.head, tail |-> context.tail]]
  OBVIOUS
<1>5. Written(mem, end, context, SetLast(frames, g), failed)
  BY <1>1, <1>2, <1>3, <1>4, SnapshotStep
<1>6. /\ context' = context /\ mem' = mem /\ end' = end /\ failed' = failed /\ phase' = phase
      /\ frames' = SetLast(frames, g)
  BY <1>4 DEF Snapshot, Inner, Depth, Last
<1> QED BY <1>1, <1>3, <1>5, <1>6, WritesOn DEF Writing

\* The frames of the calls.
LEMMA CallFrames ==
  ASSUME NEW U, frames \in Seq(FramesOf(U))
  PROVE  /\ Inner = Last(frames)
         /\ Depth >= 2 => /\ frames # <<>> /\ Front(frames) # <<>>
                          /\ Outer = Last(Front(frames))
         /\ Depth = Len(frames)
<1>1. Inner = Last(frames) /\ Depth = Len(frames)
  BY DEF Inner, Depth, Last
<1>2. Len(<<>>) = 0
  OBVIOUS
<1>3. ASSUME Depth >= 2
      PROVE  frames # <<>> /\ Front(frames) # <<>> /\ Outer = Last(Front(frames))
  <2>1. PICK L \in Nat : L = Len(frames) /\ L >= 2
    BY <1>1, <1>3
  <2>2. frames # <<>>
    BY <1>2, <2>1
  <2>3. /\ Front(frames) \in Seq(FramesOf(U)) /\ Len(Front(frames)) = L - 1
        /\ \A i \in 1 .. L - 1 : Front(frames)[i] = frames[i]
    BY <2>1, <2>2, FrontFacts
  <2>4. Front(frames) # <<>>
    <3>1. L - 1 # 0
      BY <2>1
    <3> QED BY <1>2, <2>3, <3>1
  <2>5. Last(Front(frames)) = Front(frames)[L - 1]
    BY <2>3 DEF Last
  <2>6. L - 1 \in 1 .. L - 1
    BY <2>1
  <2>7. Outer = frames[L - 1]
    BY <1>1, <2>1 DEF Outer
  <2> QED BY <2>2, <2>3, <2>4, <2>5, <2>6, <2>7
<1> QED BY <1>1, <1>3

\* A field the client may link.
LEMMA OffsetFree ==
  ASSUME NEW r, NEW from, NEW to, NEW a \in Offsets(r, from, to)
  PROVE  a \in from .. to /\ FreeField(r, a)
BY DEF Offsets, FreeField

LEMMA BuiltIs == Built = BuiltOf(mem, context)
BY DEF Built, BuiltOf, Top

LEMMA DiscardInv == ASSUME Inv, Discard PROVE Inv'
<1>1. Writing /\ Depth >= 2 /\ frames' = Front(frames)
  BY DEF Discard
<1>2. PICK U : Typed(U, mem, end, context, frames)
  BY <1>1, InvWriting
<1>3. end \in Nat /\ failed \in Nat /\ WInv(mem, end, context, frames, failed)
  BY <1>1, InvWriting
<1>4. PICK r : r = PopDiscard(mem, context)
  OBVIOUS
<1>5. Len(frames) >= 2
  BY <1>1 DEF Depth
<1>6. Outcome(end, context, failed, r, Front(frames))
  BY <1>2, <1>3, <1>4, <1>5, DiscardStep
<1>7. Becomes(r)
  BY <1>4 DEF Discard
<1> QED BY <1>1, <1>6, <1>7, BecomesInv

LEMMA RevertInv == ASSUME Inv, RevertToSnapshot PROVE Inv'
<1>1. Writing /\ context.successful /\ frames # <<>>
  BY DEF RevertToSnapshot
<1>2. PICK U : Typed(U, mem, end, context, frames)
  BY <1>1, InvWriting
<1>3. end \in Nat /\ failed \in Nat /\ WInv(mem, end, context, frames, failed)
  BY <1>1, InvWriting
<1>4. Inner = Last(frames) /\ Last(frames).snap # NoSnapshot
  BY DEF RevertToSnapshot, Inner, Depth, Last
<1>5. PICK r : r = Revert(mem, context, Last(frames).snap.head, Last(frames).snap.tail)
  OBVIOUS
<1>6. Outcome(end, context, failed, r, Settled(frames))
  BY <1>1, <1>2, <1>3, <1>4, <1>5, RevertStep
<1>7. Becomes(r) /\ frames' = Settled(frames)
  BY <1>4, <1>5 DEF RevertToSnapshot, Settled
<1> QED BY <1>1, <1>6, <1>7, BecomesInv

LEMMA PopLinkInv == ASSUME Inv, PopLink PROVE Inv'
<1>1. Writing /\ Depth >= 2
  BY DEF PopLink
<1>2. PICK U : Typed(U, mem, end, context, frames)
  BY <1>1, InvWriting
<1>3. end \in Nat /\ failed \in Nat /\ WInv(mem, end, context, frames, failed)
  BY <1>1, InvWriting
<1>4. Inner = Last(frames) /\ Outer = Last(Front(frames)) /\ Len(frames) >= 2
  BY <1>1, <1>2, CallFrames DEF Typed
<1>5. PICK r \in PopPack(mem, context) :
         \E a \in Offsets(r, Outer.at, Inner.at - 1) : \E base \in Outer.at .. a :
            \E y \in AddLink(r, a, base, r.objidx, Built) : Becomes(y)
  BY DEF PopLink
<1>6. PICK a \in Offsets(r, Outer.at, Inner.at - 1) : \E base \in Outer.at .. a :
            \E y \in AddLink(r, a, base, r.objidx, Built) : Becomes(y)
  BY <1>5
<1>7. PICK base \in Outer.at .. a : \E y \in AddLink(r, a, base, r.objidx, Built) : Becomes(y)
  BY <1>6
<1>8. PICK y : y \in AddLink(r, a, base, r.objidx, BuiltOf(mem, context)) /\ Becomes(y)
  BY <1>7, BuiltIs
<1>9. a \in Last(Front(frames)).at .. Last(frames).at - 1 /\ FreeField(r, a)
  BY <1>4, OffsetFree
<1>10. base \in Last(Front(frames)).at .. a
  BY <1>4, <1>7
<1>11. Outcome(end, context, failed, y, Settled(Front(frames)))
  BY <1>2, <1>3, <1>4, <1>8, <1>9, <1>10, PopLinkStep
<1>12. Becomes(y)
  BY <1>8
<1>13. frames' = Settled(Front(frames))
  BY <1>4 DEF PopLink, Settled
<1> QED BY <1>1, <1>11, <1>12, <1>13, BecomesInv

LEMMA PopKeepInv == ASSUME Inv, PopKeep PROVE Inv'
<1>1. Writing /\ Depth >= 2
  BY DEF PopKeep
<1>2. PICK U : Typed(U, mem, end, context, frames)
  BY <1>1, InvWriting
<1>3. end \in Nat /\ failed \in Nat /\ WInv(mem, end, context, frames, failed)
  BY <1>1, InvWriting
<1>4. Outer = Last(Front(frames)) /\ Len(frames) >= 2
  BY <1>1, <1>2, CallFrames DEF Typed
<1>5. PICK r \in PopPack(mem, context) :
          /\ Becomes(r)
          /\ frames' = SetLast(Front(frames),
                          [Outer EXCEPT !.snap = NoSnapshot,
                                        !.held = IF r.objidx = 0 THEN @
                                                 ELSE @ \cup {[objidx |-> r.objidx, tree |-> Built]}])
  BY DEF PopKeep
<1>6. PICK g : g = Keeping(Last(Front(frames)), r.objidx, BuiltOf(mem, context))
  OBVIOUS
<1>7. Outcome(end, context, failed, r, SetLast(Front(frames), g))
  BY <1>2, <1>3, <1>4, <1>6, PopKeepStep
<1>8. frames' = SetLast(Front(frames), g)
  BY <1>4, <1>5, <1>6, BuiltIs DEF Keeping
<1> QED BY <1>1, <1>5, <1>7, <1>8, BecomesInv

LEMMA LinkKeptInv == ASSUME Inv, LinkKept PROVE Inv'
<1>1. Writing /\ frames # <<>>
  BY DEF LinkKept
<1>2. PICK U : Typed(U, mem, end, context, frames)
  BY <1>1, InvWriting
<1>3. end \in Nat /\ failed \in Nat /\ WInv(mem, end, context, frames, failed)
  BY <1>1, InvWriting
<1>4. Inner = Last(frames)
  BY DEF Inner, Depth, Last
<1>5. PICK h \in Held :
          LET r == Result(mem, context, h.objidx, TRUE)
          IN  \E a \in Offsets(r, Inner.at, context.head - 1) : \E base \in Inner.at .. a :
                 \E y \in AddLink(r, a, base, h.objidx, h.tree) : Becomes(y)
  BY DEF LinkKept
<1>6. PICK r : r = Result(mem, context, h.objidx, TRUE)
  OBVIOUS
<1>7. PICK a \in Offsets(r, Inner.at, context.head - 1) : \E base \in Inner.at .. a :
                 \E y \in AddLink(r, a, base, h.objidx, h.tree) : Becomes(y)
  BY <1>5, <1>6
<1>8. PICK base \in Inner.at .. a : \E y \in AddLink(r, a, base, h.objidx, h.tree) : Becomes(y)
  BY <1>7
<1>9. PICK d \in 1 .. Len(frames) : h \in frames[d].held
  <2>1. DOMAIN frames = 1 .. Len(frames)
    BY <1>2 DEF Typed
  <2> QED BY <2>1 DEF Held
<1>10. a \in Last(frames).at .. context.head - 1 /\ FreeField(r, a)
  BY <1>4, OffsetFree
<1>11. base \in Last(frames).at .. a
  BY <1>4, <1>8
<1>12. PICK y : y \in AddLink(r, a, base, h.objidx, h.tree) /\ Becomes(y)
  BY <1>8
<1>13. Outcome(end, context, failed, y, Settled(frames))
  BY <1>1, <1>2, <1>3, <1>6, <1>9, <1>10, <1>11, <1>12, LinkKeptStep
<1>14. Becomes(y) /\ frames' = Settled(frames)
  BY <1>4, <1>12 DEF LinkKept, Settled
<1> QED BY <1>1, <1>13, <1>14, BecomesInv

\* The caller starts again, or the memory for that is refused.
LEMMA RetryInv == ASSUME Inv, Retry PROVE Inv'
<1>1. Writing
  BY DEF Retry
<1>2. end \in Nat /\ failed \in Nat /\ Written(mem, end, context, frames, failed)
  BY <1>1 DEF Inv, Writing
<1>3. PICK size : size = end + end \div 2 + Extra
  OBVIOUS
<1>4. CASE /\ end' = size /\ mem' = Zeroes(size) /\ context' = Fresh(size)
           /\ frames' = <<>> /\ failed' = failed /\ phase' = phase
  <2>1. size \in Nat
    BY <1>2, <1>3, SerializerAssumption
  <2>2. Written(Zeroes(size), size, Fresh(size), <<>>, failed)
    BY <1>2, <2>1, FreshWritten
  <2>3. Written(mem', end', context', frames', failed')
    BY <1>4, <2>2
  <2> QED BY <1>1, <1>2, <1>4, <2>1, <2>3, WritesOn DEF Writing
<1>5. CASE phase' = "refused" /\ UNCHANGED <<mem, end, context, frames, failed>>
  <2>1. ASSUME failed' = 0 PROVE phase' # "aborted" /\ Fine(end', context')
    <3>1. Fine(end, context)
      BY <1>2, <1>5, <2>1, WrittenFine
    <3> QED BY <1>5, <3>1
  <2>2. AssertsHold' /\ LinksToPacked'
    BY <2>1, FineHoldsNext
  <2>3. TableReadsBack'
    BY <1>5 DEF TableReadsBack
  <2> QED BY <1>2, <1>5, <2>2, <2>3 DEF Inv
<1> QED BY <1>3, <1>4, <1>5 DEF Retry

\* Read of the next state.
LEMMA ReadIsNext == Read' = CHOOSE g : Reads(mem', context'.packed, g)
BY Zenon DEF Read, Reads, ReadBody, FieldAt, IsField, Packed

LEMMA ReadsBackNext ==
  ASSUME phase' = "done" /\ context'.successful /\ context'.lost = 0 /\ "packed" \notin context'.bad
           => ReadsBack(mem', context')
  PROVE  TableReadsBack'
<1>1. PICK R : R = Read' /\ R = CHOOSE g : Reads(mem', context'.packed, g)
  BY ReadIsNext
<1>2. ASSUME phase' = "done", context'.successful, context'.lost = 0,
             "packed" \notin context'.bad, context'.packed # <<>>
      PROVE  /\ R[Len(context'.packed)] # <<>>
             /\ R[Len(context'.packed)].kids = Last(context'.packed).kids
             /\ context'.head = 0
  <2>1. ReadsBack(mem', context')
    BY <1>2
  <2> QED BY <1>1, <1>2, <2>1 DEF ReadsBack
<1> QED BY <1>1, <1>2 DEF TableReadsBack, Packed

LEMMA EndInv == ASSUME Inv, EndSerialize PROVE Inv'
<1>1. Writing /\ Depth = 1
  BY DEF EndSerialize
<1>2. PICK U : Typed(U, mem, end, context, frames)
  BY <1>1, InvWriting
<1>3. end \in Nat /\ failed \in Nat /\ WInv(mem, end, context, frames, failed)
  BY <1>1, InvWriting
<1>4. Len(frames) = 1
  BY <1>1 DEF Depth
<1>5. PICK x : x = [context EXCEPT !.successful = @ /\ context.bad = {}]
  OBVIOUS
<1>6. Closed(context, x)
  BY <1>5 DEF Closed
<1>7. /\ Typed(U, mem, end, x, frames) /\ WInv(mem, end, x, frames, failed)
      /\ x.successful => x.bad = {}
  BY <1>2, <1>3, <1>6, ClosedStep
<1>8. CASE (x.current = <<>> \/ x.packed = <<>>) /\ context' = x /\ phase' = "done"
           /\ UNCHANGED <<mem, end, failed>>
  <2>1. ASSUME failed' = 0 PROVE phase' # "aborted" /\ Fine(end', context')
    <3>1. Healthy(x, frames)
      BY <1>7, <1>8, <2>1, ZeroHealthy
    <3>2. Fine(end, x)
      BY <1>3, <1>7, <3>1, HealthyFine
    <3> QED BY <1>8, <3>2
  <2>2. AssertsHold' /\ LinksToPacked'
    BY <2>1, FineHoldsNext
  <2>3. TableReadsBack'
    <3>1. ASSUME context'.successful, context'.packed # <<>> PROVE FALSE
      <4>1. x.successful /\ x.current = <<>>
        BY <1>8, <3>1
      <4>2. Len(x.current) = Len(frames)
        BY <1>7, <4>1 DEF WInv
      <4>3. Len(<<>>) = 0
        OBVIOUS
      <4> QED BY <1>4, <4>1, <4>2, <4>3
    <3> QED BY <3>1 DEF TableReadsBack, Packed
  <2> QED BY <1>3, <1>8, <2>2, <2>3 DEF Inv
<1>9. CASE /\ ~(x.current = <<>> \/ x.packed = <<>>)
           /\ \E r \in PopPack(mem, x) :
                LET y == ResolveLinks(r)
                IN  /\ IF r.asserts /\ y.asserts /\ Len(x.current) = 1
                       THEN phase' = "done" /\ mem' = y.mem /\ context' = y.context
                       ELSE phase' = "aborted" /\ UNCHANGED <<mem, context>>
                    /\ failed' = failed + (Cardinality(y.context.bad) - Cardinality(x.bad))
                    /\ UNCHANGED end
  <2>1. PICK r \in PopPack(mem, x) :
              LET y == ResolveLinks(r)
              IN  /\ IF r.asserts /\ y.asserts /\ Len(x.current) = 1
                     THEN phase' = "done" /\ mem' = y.mem /\ context' = y.context
                     ELSE phase' = "aborted" /\ UNCHANGED <<mem, context>>
                  /\ failed' = failed + (Cardinality(y.context.bad) - Cardinality(x.bad))
                  /\ UNCHANGED end
    BY <1>9
  <2>2. PICK y : y = ResolveLinks(r)
    OBVIOUS
  <2>3. /\ IF r.asserts /\ y.asserts /\ Len(x.current) = 1
           THEN phase' = "done" /\ mem' = y.mem /\ context' = y.context
           ELSE phase' = "aborted" /\ UNCHANGED <<mem, context>>
        /\ failed' = failed + (Cardinality(y.context.bad) - Cardinality(x.bad))
        /\ end' = end
    BY <2>1, <2>2
  <2>4. PICK fl2 : fl2 = failed + (Cardinality(y.context.bad) - Cardinality(x.bad)) /\ failed' = fl2
    BY <2>3
  <2>5. EndOutcome(end, x, r, y, fl2)
    BY <1>3, <1>4, <1>7, <1>9, <2>1, <2>2, <2>4, EndStep
  <2>6. /\ fl2 \in Nat
        /\ fl2 = 0 => r.asserts /\ y.asserts /\ Len(x.current) = 1 /\ Fine(end, y.context)
        /\ y.context.successful /\ y.context.lost = 0 /\ "packed" \notin y.context.bad
             => ReadsBack(y.mem, y.context)
    BY <2>5 DEF EndOutcome
  <2>7. phase' = "done" \/ phase' = "aborted"
    BY <2>3
  <2>8. ASSUME failed' = 0 PROVE phase' # "aborted" /\ Fine(end', context')
    BY <2>3, <2>4, <2>6, <2>8
  <2>9. AssertsHold' /\ LinksToPacked'
    BY <2>8, FineHoldsNext
  <2>10. ASSUME phase' = "done", context'.successful, context'.lost = 0, "packed" \notin context'.bad
         PROVE  ReadsBack(mem', context')
    <3>1. mem' = y.mem /\ context' = y.context
      BY <2>3, <2>10
    <3> QED BY <2>6, <2>10, <3>1
  <2>11. TableReadsBack'
    BY <2>10, ReadsBackNext
  <2> QED BY <1>3, <2>3, <2>4, <2>6, <2>7, <2>9, <2>11 DEF Inv
<1> QED BY <1>5, <1>8, <1>9 DEF EndSerialize

\* Nothing happens any more.
LEMMA StutterInv == ASSUME Inv, UNCHANGED vars PROVE Inv'
<1>1. /\ mem' = mem /\ end' = end /\ context' = context
      /\ frames' = frames /\ failed' = failed /\ phase' = phase
  BY DEF vars
<1>2. (AssertsHold <=> AssertsHold') /\ (LinksToPacked <=> LinksToPacked')
  BY <1>1 DEF AssertsHold, LinksToPacked, Packed
<1>3. ASSUME TableReadsBack PROVE TableReadsBack'
  <2>1. Read' = Read
    BY <1>1, ReadIs, ReadIsNext DEF Packed
  <2> QED BY <1>1, <1>3, <2>1 DEF TableReadsBack, Packed
<1> QED BY <1>1, <1>2, <1>3 DEF Inv

LEMMA InvNext == Inv /\ [Next]_vars => Inv'
<1> SUFFICES ASSUME Inv, [Next]_vars PROVE Inv'
  OBVIOUS
<1>1. ASSUME NEW v \in Values, Embed(v) PROVE Inv'
  BY <1>1, EmbedInv
<1>2. CASE Push
  BY <1>2, PushInv
<1>3. CASE PushRefused
  BY <1>3, PushRefusedInv
<1>4. CASE PopLink
  BY <1>4, PopLinkInv
<1>5. CASE PopKeep
  BY <1>5, PopKeepInv
<1>6. CASE LinkKept
  BY <1>6, LinkKeptInv
<1>7. CASE Discard
  BY <1>7, DiscardInv
<1>8. CASE Snapshot
  BY <1>8, SnapshotInv
<1>9. CASE RevertToSnapshot
  BY <1>9, RevertInv
<1>10. CASE EndSerialize
  BY <1>10, EndInv
<1>11. CASE Retry
  BY <1>11, RetryInv
<1>12. CASE UNCHANGED vars
  BY <1>12, StutterInv
<1> QED
  BY <1>1, <1>2, <1>3, <1>4, <1>5, <1>6, <1>7, <1>8, <1>9, <1>10, <1>11, <1>12 DEF Next

LEMMA InvAlways == Spec => []Inv
<1>1. Init => Inv
  BY InvInit
<1>2. Inv /\ [Next]_vars => Inv'
  BY InvNext
<1> QED BY <1>1, <1>2, PTL DEF Spec

----------------------------------------------------------------------------
(* The properties of the specification, for every value of the constants.  *)

\* While no allocation of the context has failed, none of its asserts fails,
\* whatever is pushed, packed, shared, discarded and reverted, and the packed
\* objects lie end to end from the tail to the end of the block.
THEOREM SerializerAsserts == Spec => []AssertsHold
<1>1. Inv => AssertsHold
  BY InvHolds
<1> QED BY <1>1, InvAlways, PTL

\* While a table is written, the map that objects are shared through holds
\* every packed object, nothing that was given up, and no content twice.
THEOREM SerializerSharing == Spec => []SharingExact
<1>1. Inv => SharingExact
  BY InvHolds
<1> QED BY <1>1, InvAlways, PTL

\* While no allocation has failed, a link, of a packed object or of one under
\* construction, leads to an object that is still packed and was so before.
THEOREM SerializerLinks == Spec => []LinksToPacked
<1>1. Inv => LinksToPacked
  BY InvHolds
<1> QED BY <1>1, InvAlways, PTL

\* A table that is finished without error, and none of whose links was lost for
\* lack of memory, reads back along its offsets as the client built it.
THEOREM SerializerReadsBack == Spec => []TableReadsBack
<1>1. Inv => TableReadsBack
  BY InvHolds
<1> QED BY <1>1, InvAlways, PTL
=============================================================================
