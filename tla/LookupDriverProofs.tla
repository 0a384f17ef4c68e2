------------------------- MODULE LookupDriverProofs -------------------------
(***************************************************************************)
(* Proofs about LookupDriver and MatchPositions, for texts, contexts and   *)
(* nesting of any size.                                                    *)
(***************************************************************************)
EXTENDS LookupDriver, FiniteSetTheorems, SequenceTheorems, TLAPS

Glyphs == 1 .. N

IsText(x) == x.done \in Seq(Glyphs) /\ x.todo \in Seq(Glyphs)

\* The first m positions increase.
InOrder(pos, m) == \A j, k \in 1 .. m : j < k => pos[j] < pos[k]

\* What PositionsInText says of one frame, and that its labels are in step.
FrameFits(f) ==
  /\ Len(f.pos) \in 1 .. MaxContext
  /\ f.pos[1] <= f.end
  /\ f.stop \/ Ordered(f.pos, f.end)
  /\ f.stop \/ f.of = <<>> \/ Len(f.of) = Len(f.pos)

-----------------------------------------------------------------------------
(* Positions.                                                               *)

\* A function on 1 .. n is a sequence of that length.
LEMMA FunctionIsSeq ==
  ASSUME NEW S, NEW n \in Nat, NEW w \in [1 .. n -> S]
  PROVE  w \in Seq(S) /\ Len(w) = n /\ DOMAIN w = 1 .. n
<1>1. w \in Seq(S) /\ DOMAIN w = 1 .. n
  BY SeqDef
<1>2. Len(w) \in Nat /\ 1 .. Len(w) = 1 .. n
  BY <1>1, LenProperties
<1>3. Len(w) = n
  BY <1>2
<1> QED BY <1>1, <1>3

\* How many numbers lie between two.
LEMMA IntervalCardinality ==
  \A a, b \in Nat : a <= b => IsFiniteSet(a .. b) /\ Cardinality(a .. b) = b - a + 1
BY FS_Interval

\* Increasing positions are as far apart as their indices, at least.
LEMMA Gap ==
  ASSUME NEW m \in Nat, NEW pos \in [1 .. m -> Nat], InOrder(pos, m),
         NEW j \in 1 .. m, NEW k \in 1 .. m, j <= k
  PROVE  pos[j] + (k - j) <= pos[k]
<1> DEFINE f == [i \in j .. k |-> pos[i]]
<1>0. j \in Nat /\ k \in Nat /\ pos[j] \in Nat /\ pos[k] \in Nat /\ \A i \in j .. k : i \in 1 .. m /\ pos[i] \in Nat
  OBVIOUS
<1>1. \A a, b \in 1 .. m : a <= b => pos[a] <= pos[b]
  <2> TAKE a, b \in 1 .. m
  <2>1. pos[a] \in Nat /\ pos[b] \in Nat /\ (a <= b => a = b \/ a < b)
    OBVIOUS
  <2>2. a < b => pos[a] < pos[b]
    BY DEF InOrder
  <2> QED BY <2>1, <2>2
<1>2. pos[j] <= pos[k]
  BY <1>1
<1>3. \A i \in j .. k : pos[j] <= pos[i] /\ pos[i] <= pos[k]
  BY <1>0, <1>1
<1>4. f \in [j .. k -> pos[j] .. pos[k]]
  BY <1>0, <1>3
<1>5. \A a, b \in j .. k : f[a] = f[b] => a = b
  <2> SUFFICES ASSUME NEW a \in j .. k, NEW b \in j .. k, pos[a] = pos[b] PROVE a = b
    OBVIOUS
  <2> QED BY <1>0 DEF InOrder
<1>6. f \in Injection(j .. k, pos[j] .. pos[k])
  BY <1>4, <1>5 DEF Injection, IsInjective
<1>7. IsFiniteSet(pos[j] .. pos[k]) /\ Cardinality(pos[j] .. pos[k]) = pos[k] - pos[j] + 1
  BY IntervalCardinality, <1>0, <1>2, Zenon
<1>8. Cardinality(j .. k) = k - j + 1
  BY FS_Interval, <1>0
<1>9. Cardinality(j .. k) <= Cardinality(pos[j] .. pos[k])
  BY FS_Injection, <1>6, <1>7
<1> QED BY <1>0, <1>2, <1>7, <1>8, <1>9

\* What becomes of a match of which the first position was at first.
Shifted(w, size, limit, first) ==
  w \in [1 .. size -> Nat] /\ Ordered(w, limit) /\ w[1] = first

\* Room for n new glyphs keeps the positions in order.
LEMMA WidenedFits ==
  ASSUME NEW m \in Nat, NEW pos \in [1 .. m -> Nat], NEW end \in Nat, Ordered(pos, end),
         Len(pos) = m, NEW idx \in Nat, idx + 1 <= m, NEW n \in Nat, NEW limit \in Nat, limit = end + n,
         NEW size, size = m + n
  PROVE  Shifted(Widened(pos, idx, n), size, limit, pos[1])
<1> DEFINE w == Widened(pos, idx, n)
<1>z. InOrder(pos, m) /\ \A k \in 1 .. m : pos[k] < end
  BY DEF Ordered, InOrder
<1> DEFINE i == idx + 1
<1>0. i \in 1 .. m /\ i \in Nat /\ idx + 1 = i
  OBVIOUS
<1> HIDE DEF i
<1>2. ASSUME NEW k \in 1 .. i PROVE pos[k] \in Nat /\ pos[k] <= pos[i]
  <2>1. k \in 1 .. m /\ (k < i \/ k = i) /\ pos[k] \in Nat /\ pos[i] \in Nat
    BY <1>0
  <2> QED BY <1>z, <1>0, <2>1 DEF InOrder
<1>3. \A k \in i + n + 1 .. m + n : k - n \in 1 .. m /\ pos[k - n] \in Nat /\ pos[i] < pos[k - n]
  BY <1>z, <1>0 DEF InOrder
<1>a. w = [k \in 1 .. m + n |-> IF k <= i THEN pos[k]
                                ELSE IF k <= i + n THEN pos[i] + (k - i) ELSE pos[k - n] + n]
  BY <1>0 DEF Widened
<1> HIDE DEF w
<1>b. /\ \A k \in 1 .. i : w[k] = pos[k]
      /\ \A k \in i + 1 .. i + n : w[k] = pos[i] + (k - i)
      /\ \A k \in i + n + 1 .. m + n : w[k] = pos[k - n] + n
  BY <1>0, <1>a
<1>c. ASSUME NEW k \in 1 .. m + n PROVE w[k] \in Nat
  <2>1. CASE k <= i
    BY <1>0, <1>2, <1>b, <2>1
  <2>2. CASE k \in i + 1 .. i + n
    BY <1>0, <1>2, <1>b, <2>2
  <2>3. CASE k \in i + n + 1 .. m + n
    BY <1>0, <1>3, <1>b, <2>3
  <2> QED BY <2>1, <2>2, <2>3, <1>0
<1>1. w \in [1 .. m + n -> Nat]
  BY <1>a, <1>c
<1>4. ASSUME NEW k \in 1 .. m + n PROVE w[k] < end + n
  <2>0. pos[i] < end /\ pos[i] \in Nat
    BY <1>0, <1>z
  <2>1. CASE k <= i
    BY <1>0, <1>2, <1>b, <2>0, <2>1
  <2>2. CASE k \in i + 1 .. i + n
    BY <1>0, <1>b, <2>0, <2>2
  <2>3. CASE k \in i + n + 1 .. m + n
    <3>1. k - n \in 1 .. m /\ w[k] = pos[k - n] + n /\ pos[k - n] \in Nat
      BY <1>3, <1>b, <2>3
    <3>2. pos[k - n] < end
      BY <1>z, <3>1
    <3> QED BY <3>1, <3>2
  <2> QED BY <2>1, <2>2, <2>3, <1>0
<1>5. ASSUME NEW j \in 1 .. m + n, NEW k \in 1 .. m + n, j < k PROVE w[j] < w[k]
  <2>1. CASE k <= i
    BY <1>z, <1>0, <1>b, <1>5, <2>1 DEF InOrder
  <2>2. CASE k \in i + 1 .. i + n
    BY <1>0, <1>b, <1>2, <1>5, <2>2
  <2>3. CASE k > i + n /\ j <= i + n
    <3>1. w[k] = pos[k - n] + n /\ pos[i] < pos[k - n] /\ pos[k - n] \in Nat
      <4>1. k \in i + n + 1 .. m + n
        BY <1>0, <2>3
      <4> QED BY <4>1, <1>3, <1>b
    <3>2. w[j] \in Nat /\ w[j] <= pos[i] + n
      BY <1>0, <1>2, <1>b, <1>c, <2>3
    <3> QED BY <3>1, <3>2, <1>0
  <2>4. CASE j > i + n
    <3>1. w[k] = pos[k - n] + n /\ w[j] = pos[j - n] + n
      BY <1>0, <1>b, <1>5, <2>4
    <3>2. pos[j - n] < pos[k - n] /\ pos[j - n] \in Nat /\ pos[k - n] \in Nat
      BY <1>z, <1>0, <1>5, <2>4 DEF InOrder
    <3> QED BY <3>1, <3>2
  <2> QED BY <2>1, <2>2, <2>3, <2>4, <1>0
<1>6. Ordered(w, limit)
  BY <1>1, <1>4, <1>5 DEF Ordered
<1>7. w[1] = pos[1]
  BY <1>0, <1>b
<1> QED BY <1>1, <1>6, <1>7 DEF Shifted, w

\* So does taking n matched glyphs out, as long as the end stays behind the
\* glyph that was substituted.
LEMMA NarrowedFits ==
  ASSUME NEW m \in Nat, NEW pos \in [1 .. m -> Nat], NEW end \in Nat, Ordered(pos, end),
         Len(pos) = m, NEW idx \in Nat, idx + 1 <= m, NEW n \in 0 .. m - (idx + 1),
         NEW limit \in Nat, pos[idx + 1] < limit, limit >= end - n \/ n = m - (idx + 1),
         NEW size, size = m - n
  PROVE  Shifted(Narrowed(pos, idx, n), size, limit, pos[1])
<1> DEFINE w == Narrowed(pos, idx, n)
<1>z. InOrder(pos, m) /\ \A k \in 1 .. m : pos[k] < end
  BY DEF Ordered, InOrder
<1> DEFINE i == idx + 1
<1>0. i \in 1 .. m - n /\ i \in Nat /\ idx + 1 = i /\ n \in Nat
  OBVIOUS
<1> HIDE DEF i
<1>1. ASSUME NEW k \in i + 1 .. m - n
      PROVE  k + n \in 1 .. m /\ pos[k + n] \in Nat /\ pos[i] \in Nat /\ pos[i] + (k + n - i) <= pos[k + n]
  <2>1. k + n \in 1 .. m /\ i <= k + n /\ i \in 1 .. m
    BY <1>0
  <2>2. \A q \in 1 .. m : i <= q => pos[i] + (q - i) <= pos[q]
    BY <1>z, <2>1, Gap
  <2> QED BY <2>1, <2>2
<1>a. w = [k \in 1 .. m - n |-> IF k <= i THEN pos[k] ELSE pos[k + n] - n]
  BY <1>0 DEF Narrowed
<1> HIDE DEF w
<1>b. /\ \A k \in 1 .. i : w[k] = pos[k]
      /\ \A k \in i + 1 .. m - n : w[k] = pos[k + n] - n
  BY <1>0, <1>a
<1>c. ASSUME NEW k \in 1 .. m - n PROVE w[k] \in Nat
  <2>1. CASE k <= i
    BY <1>0, <1>b, <2>1
  <2>2. CASE k > i
    BY <1>0, <1>1, <1>b, <2>2
  <2> QED BY <2>1, <2>2, <1>0
<1>2. w \in [1 .. m - n -> Nat]
  BY <1>a, <1>c
<1>3. ASSUME NEW k \in 1 .. i PROVE pos[k] \in Nat /\ pos[k] <= pos[i]
  <2>1. k \in 1 .. m /\ (k < i \/ k = i) /\ pos[k] \in Nat /\ pos[i] \in Nat
    BY <1>0
  <2> QED BY <1>z, <1>0, <2>1 DEF InOrder
<1>4. ASSUME NEW k \in 1 .. m - n PROVE w[k] < limit
  <2>1. CASE k <= i
    BY <1>0, <1>3, <1>b, <2>1
  <2>2. CASE k > i
    <3>1. w[k] = pos[k + n] - n /\ pos[k + n] \in Nat /\ pos[k + n] < end /\ n # m - i
      BY <1>0, <1>1, <1>b, <1>z, <2>2
    <3> QED BY <1>0, <3>1
  <2> QED BY <2>1, <2>2, <1>0
<1>5. ASSUME NEW j \in 1 .. m - n, NEW k \in 1 .. m - n, j < k PROVE w[j] < w[k]
  <2>1. CASE k <= i
    BY <1>z, <1>0, <1>b, <1>5, <2>1 DEF InOrder
  <2>2. CASE k > i /\ j <= i
    <3>1. w[k] = pos[k + n] - n /\ pos[i] + (k + n - i) <= pos[k + n] /\ pos[k + n] \in Nat /\ pos[i] \in Nat
      BY <1>0, <1>1, <1>b, <2>2
    <3>2. w[j] \in Nat /\ w[j] <= pos[i]
      BY <1>0, <1>3, <1>b, <1>c, <2>2
    <3> QED BY <3>1, <3>2, <1>0, <2>2
  <2>3. CASE j > i
    <3>1. w[k] = pos[k + n] - n /\ w[j] = pos[j + n] - n
      BY <1>0, <1>b, <1>5, <2>3
    <3>2. pos[j + n] < pos[k + n] /\ pos[j + n] \in Nat /\ pos[k + n] \in Nat
      BY <1>z, <1>0, <1>5, <2>3 DEF InOrder
    <3> QED BY <3>1, <3>2, <1>0
  <2> QED BY <2>1, <2>2, <2>3, <1>0
<1>6. Ordered(w, limit)
  BY <1>2, <1>4, <1>5 DEF Ordered
<1>7. w[1] = pos[1]
  BY <1>0, <1>b
<1> QED BY <1>2, <1>6, <1>7 DEF Shifted, w

\* a is what a match f has become in a text of length glyphs: still in order,
\* in its array, in the text, and starting where it did.
Adjusts(f, a, delta, length) ==
  /\ a \in Frames
  /\ a.left = f.left /\ a.of = f.of
  /\ Len(a.pos) \in 1 .. MaxContext
  /\ a.stop \/ Ordered(a.pos, a.end)
  /\ a.stop \/ delta < 0 \/ Len(a.pos) = Len(f.pos) + delta
  /\ a.end <= length
  /\ a.pos[1] = f.pos[1]
  /\ a.pos[1] <= a.end

\* apply_lookup's adjustment does so, whichever of its branches is taken.
LEMMA AdjustedFits ==
  ASSUME NEW f \in Frames, FrameFits(f), ~f.stop,
         NEW idx \in Nat, idx + 1 \in DOMAIN f.pos, NEW delta \in Int,
         NEW length \in Nat, f.end + delta <= length, f.pos[idx + 1] <= length
  PROVE  Adjusts(f, Adjusted(f, idx, delta), delta, length)
<1> DEFINE a == Adjusted(f, idx, delta)
<1> SUFFICES Adjusts(f, a, delta, length)
  OBVIOUS
<1> USE DEF Adjusts
<1>0. /\ DOMAIN f = {"lookup", "pos", "end", "stop", "left", "at", "length", "ahead", "of"}
      /\ f.pos \in Seq(Nat) /\ f.end \in Nat /\ f.stop = FALSE
  BY DEF Frames
<1> DEFINE m == Len(f.pos)
           here == f.pos[idx + 1]
           n == AtMost(-delta, m - (idx + 1))
<1>a. m \in Nat /\ DOMAIN f.pos = 1 .. m /\ f.pos \in [1 .. m -> Nat]
  BY <1>0, LenProperties
<1>b. here \in Nat /\ idx + 1 <= m
  BY <1>a
<1>c. m \in 1 .. MaxContext /\ MaxContext \in Nat
  BY MaxContextAssumption DEF FrameFits
<1>1. /\ f.pos \in Seq(Nat) /\ f.end \in Nat /\ f.stop = FALSE
      /\ m \in 1 .. MaxContext /\ m \in Nat /\ DOMAIN f.pos = 1 .. m /\ f.pos \in [1 .. m -> Nat]
      /\ idx + 1 <= m /\ here \in Nat /\ MaxContext \in Nat
  BY <1>0, <1>a, <1>b, <1>c
<1>2. /\ Ordered(f.pos, f.end) /\ here < f.end
      /\ f.pos[1] \in Nat /\ f.pos[1] <= here /\ f.pos[1] <= f.end
  <2>1. 1 \in 1 .. m /\ idx + 1 \in 1 .. m /\ (idx = 0 \/ 1 < idx + 1)
    BY <1>1
  <2>2. Ordered(f.pos, f.end) /\ f.pos[1] <= f.end
    BY <1>1 DEF FrameFits
  <2>3. here < f.end /\ f.pos[1] \in Nat /\ (idx = 0 \/ f.pos[1] < here)
    BY <1>1, <2>1, <2>2 DEF Ordered, here
  <2>4. idx = 0 => f.pos[1] = here
    BY DEF here
  <2>5. f.pos[1] <= here
    BY <1>1, <2>3, <2>4
  <2> QED BY <2>2, <2>3, <2>5
<1> HIDE DEF m, here, n
<1>3. CASE delta = 0
  BY <1>1, <1>3 DEF Adjusted, FrameFits, m
<1>4. CASE delta # 0 /\ f.end + delta <= here
  <2>1. a = [f EXCEPT !.end = here, !.stop = TRUE]
    BY <1>4 DEF Adjusted, here
  <2> QED BY <2>1, <1>1, <1>2 DEF Frames, here, m
<1>5. CASE delta > 0 /\ delta + m > MaxContext
  <2>1. a = [f EXCEPT !.end = f.end + delta, !.stop = TRUE]
    BY <1>1, <1>2, <1>5 DEF Adjusted, here, m
  <2>2. f.end + delta \in Nat
    BY <1>1, <1>5
  <2>3. a.pos = f.pos /\ a.end = f.end + delta /\ a.stop /\ a.left = f.left /\ a.of = f.of
    BY <1>0, <2>1
  <2>4. a \in Frames
    BY <2>1, <2>2 DEF Frames
  <2> QED BY <1>1, <1>2, <1>5, <2>3, <2>4 DEF m
<1>6. CASE delta > 0 /\ delta + m <= MaxContext
  <2> DEFINE w == Widened(f.pos, idx, delta)
  <2>1. a = [f EXCEPT !.end = f.end + delta, !.pos = w]
    BY <1>1, <1>2, <1>6 DEF Adjusted, here, m
  <2>2. w \in [1 .. m + delta -> Nat] /\ Ordered(w, f.end + delta) /\ w[1] = f.pos[1]
    <3>1. /\ m \in Nat /\ f.pos \in [1 .. m -> Nat] /\ f.end \in Nat /\ Ordered(f.pos, f.end)
          /\ Len(f.pos) = m /\ idx \in Nat /\ idx + 1 <= m /\ delta \in Nat
      BY <1>1, <1>2, <1>6 DEF m
    <3>2. ASSUME NEW p, NEW e, NEW s, p = f.pos, e = f.end + delta, s = m + delta
          PROVE  Shifted(Widened(p, idx, delta), s, e, p[1])
      <4>1. /\ m \in Nat /\ p \in [1 .. m -> Nat] /\ f.end \in Nat /\ Ordered(p, f.end) /\ Len(p) = m
            /\ idx \in Nat /\ idx + 1 <= m /\ delta \in Nat /\ e \in Nat /\ e = f.end + delta /\ s = m + delta
        BY <3>1, <3>2
      <4> QED BY <4>1, WidenedFits
    <3> QED BY <3>2 DEF Shifted
  <2> HIDE DEF w
  <2>3. w \in Seq(Nat) /\ Len(w) = m + delta /\ DOMAIN w = 1 .. m + delta
    BY <1>1, <1>6, <2>2, FunctionIsSeq
  <2>5. a.pos = w /\ a.end = f.end + delta /\ a.left = f.left /\ a.of = f.of
    BY <1>0, <2>1
  <2>6. a \in Frames
    <3>1. f.end + delta \in Nat
      BY <1>1, <1>6
    <3> QED BY <2>1, <2>3, <3>1 DEF Frames
  <2>7. w[1] <= f.end + delta
    BY <1>1, <1>2, <1>6, <2>2
  <2> QED BY <1>1, <1>6, <2>2, <2>3, <2>5, <2>6, <2>7 DEF m
<1>7. CASE delta < 0 /\ f.end + delta > here
  <2> DEFINE w == Narrowed(f.pos, idx, n)
  <2>1. a = [f EXCEPT !.end = f.end + delta, !.pos = w]
    BY <1>1, <1>7 DEF Adjusted, here, m, n
  <2>2. n \in 0 .. m - (idx + 1) /\ n <= -delta
    BY <1>1, <1>7 DEF AtMost, n
  <2>4. f.end + delta >= f.end - n \/ n = m - (idx + 1)
    BY <1>1, <1>7, <2>2 DEF AtMost, n
  <2>8. f.end + delta \in Nat
    BY <1>1, <1>7
  <2>3. w \in [1 .. m - n -> Nat] /\ Ordered(w, f.end + delta) /\ w[1] = f.pos[1]
    <3>1. /\ m \in Nat /\ f.pos \in [1 .. m -> Nat] /\ f.end \in Nat /\ Ordered(f.pos, f.end)
          /\ Len(f.pos) = m /\ idx \in Nat /\ idx + 1 <= m
          /\ f.pos[idx + 1] < f.end + delta
      BY <1>1, <1>2, <1>7 DEF m, here
    <3>2. ASSUME NEW p, NEW e, NEW s, p = f.pos, e = f.end + delta, s = m - n
          PROVE  Shifted(Narrowed(p, idx, n), s, e, p[1])
      <4>1. /\ m \in Nat /\ p \in [1 .. m -> Nat] /\ f.end \in Nat /\ Ordered(p, f.end) /\ Len(p) = m
            /\ idx \in Nat /\ idx + 1 <= m /\ n \in 0 .. m - (idx + 1)
            /\ e \in Nat /\ p[idx + 1] < e
            /\ e >= f.end - n \/ n = m - (idx + 1)
            /\ s = m - n
        BY <2>2, <2>4, <2>8, <3>1, <3>2
      <4> QED BY <4>1, NarrowedFits
    <3> QED BY <3>2 DEF Shifted
  <2> HIDE DEF w
  <2>6. w \in Seq(Nat) /\ Len(w) = m - n /\ DOMAIN w = 1 .. m - n
    <3>1. m - n \in Nat
      BY <1>1, <2>2
    <3> QED BY <2>3, <3>1, FunctionIsSeq
  <2>9. a.pos = w /\ a.end = f.end + delta /\ a.left = f.left /\ a.of = f.of
    BY <1>0, <2>1
  <2>10. a \in Frames
    BY <2>1, <2>6, <2>8 DEF Frames
  <2>11. m - n \in 1 .. MaxContext
    <3>1. n \in Int /\ 0 <= n /\ n <= m - (idx + 1) /\ 1 <= m /\ m <= MaxContext
      BY <1>1, <2>2
    <3> QED BY <1>1, <3>1
  <2>12. w[1] <= f.end + delta
    BY <1>1, <1>2, <1>7, <2>3, <2>8
  <2> QED BY <1>7, <2>3, <2>6, <2>9, <2>10, <2>11, <2>12 DEF m
<1> QED BY <1>1, <1>3, <1>4, <1>5, <1>6, <1>7
-----------------------------------------------------------------------------
(* What a lookup does to the text.                                          *)

\* Moving the cursor leaves the text as long as it was.
LEMMA CutFits ==
  ASSUME NEW text \in Seq(Glyphs), NEW n \in Nat, n <= Len(text)
  PROVE  /\ IsText(Cut(text, n))
         /\ Len(Cut(text, n).done) = n
         /\ Size(Cut(text, n)) = Len(text)
<1>1. Len(text) \in Nat /\ \A k \in 1 .. Len(text) : text[k] \in Glyphs
  BY LenProperties, ElementOfSeq
<1>2. SubSeq(text, 1, n) \in Seq(Glyphs) /\ Len(SubSeq(text, 1, n)) = n
  <2>1. 1 \in Int /\ n \in Int /\ \A k \in 1 .. n : text[k] \in Glyphs
    BY <1>1
  <2>2. /\ SubSeq(text, 1, n) \in Seq(Glyphs)
        /\ Len(SubSeq(text, 1, n)) = IF 1 <= n THEN n - 1 + 1 ELSE 0
    BY <2>1, SubSeqProperties
  <2> QED BY <2>2
<1>3. /\ SubSeq(text, n + 1, Len(text)) \in Seq(Glyphs)
      /\ Len(SubSeq(text, n + 1, Len(text))) = Len(text) - n
  <2>1. n + 1 \in Int /\ Len(text) \in Int /\ \A k \in n + 1 .. Len(text) : text[k] \in Glyphs
    BY <1>1
  <2>2. /\ SubSeq(text, n + 1, Len(text)) \in Seq(Glyphs)
        /\ Len(SubSeq(text, n + 1, Len(text))) = IF n + 1 <= Len(text) THEN Len(text) - (n + 1) + 1 ELSE 0
    BY <2>1, SubSeqProperties
  <2> QED BY <1>1, <2>2
<1>4. /\ Cut(text, n).done = SubSeq(text, 1, n)
      /\ Cut(text, n).todo = SubSeq(text, n + 1, Len(text))
  BY DEF Cut
<1>5. n + (Len(text) - n) = Len(text)
  BY <1>1
<1> QED BY <1>2, <1>3, <1>4, <1>5 DEF IsText, Size

\* What is written stays: no leaf makes the text shorter than what was done.
LEMMA LeavesFit ==
  ASSUME NEW x, IsText(x), x.todo # <<>>, NEW y \in Leaves(x)
  PROVE  IsText(y) /\ Size(y) \in Nat /\ Size(y) >= Len(x.done)
<1>1. /\ Len(x.done) \in Nat /\ Len(x.todo) \in Nat /\ Len(x.todo) # 0
      /\ \A k \in 1 .. Len(x.todo) : x.todo[k] \in Glyphs
  BY LenProperties, ElementOfSeq, EmptySeq DEF IsText
<1>2. x.todo[1] \in Glyphs
  BY <1>1
<1>3. ASSUME NEW a \in Seq(Glyphs), NEW b \in Seq(Glyphs), y = [done |-> x.done \o a, todo |-> b]
      PROVE  IsText(y) /\ Size(y) \in Nat /\ Size(y) >= Len(x.done)
  <2>1. y.done = x.done \o a /\ y.todo = b
    BY <1>3
  <2>2. y.done \in Seq(Glyphs) /\ Len(y.done) = Len(x.done) + Len(a)
    BY <2>1, ConcatProperties DEF IsText
  <2>3. Len(a) \in Nat /\ Len(b) \in Nat
    BY LenProperties
  <2> QED BY <1>1, <2>1, <2>2, <2>3 DEF IsText, Size
<1>4. ASSUME NEW n \in 0 .. 2, y = Multiplied(x, n)
      PROVE  IsText(y) /\ Size(y) \in Nat /\ Size(y) >= Len(x.done)
  <2> DEFINE a == [k \in 1 .. n |-> x.todo[1]]
  <2>1. a \in Seq(Glyphs)
    <3>1. a \in [1 .. n -> Glyphs] /\ n \in Nat
      BY <1>2
    <3> QED BY <3>1, FunctionIsSeq
  <2>2. Tail(x.todo) \in Seq(Glyphs)
    BY HeadTailProperties DEF IsText
  <2>3. y = [done |-> x.done \o a, todo |-> Tail(x.todo)]
    BY <1>4 DEF Multiplied
  <2> HIDE DEF a
  <2> QED BY <1>3, <2>1, <2>2, <2>3
<1>5. ASSUME NEW last \in 2 .. Len(x.todo), NEW skipped \in Increasing(last - 2, 2 .. last - 1),
             y = Ligated(x, last, skipped)
      PROVE  IsText(y) /\ Size(y) \in Nat /\ Size(y) >= Len(x.done)
  <2> DEFINE s == [k \in DOMAIN skipped |-> x.todo[skipped[k]]]
  <2>1. PICK h \in 0 .. last - 2 : skipped \in [1 .. h -> 2 .. last - 1]
    BY <1>5 DEF Increasing
  <2>2. s \in Seq(Glyphs)
    <3>1. s \in [1 .. h -> Glyphs] /\ h \in Nat
      BY <1>1, <2>1
    <3> QED BY <3>1, FunctionIsSeq
  <2>3. SubSeq(x.todo, last + 1, Len(x.todo)) \in Seq(Glyphs)
    <3>1. last + 1 \in Int /\ Len(x.todo) \in Int /\ \A k \in last + 1 .. Len(x.todo) : x.todo[k] \in Glyphs
      BY <1>1
    <3> QED BY <3>1, SubSeqProperties
  <2> DEFINE one == <<x.todo[1]>>
  <2>4. one \in Seq(Glyphs)
    BY <1>2
  <2>7. y = [done |-> x.done \o one \o s, todo |-> SubSeq(x.todo, last + 1, Len(x.todo))]
    BY <1>5 DEF Ligated
  <2> HIDE DEF s, one
  <2>5. one \o s \in Seq(Glyphs)
    BY <2>2, <2>4, ConcatProperties
  <2>6. x.done \o one \o s = x.done \o (one \o s)
    <3>1. \A a, b, c \in Seq(Glyphs) : a \o b \o c = a \o (b \o c)
      BY ConcatAssociative
    <3>2. x.done \in Seq(Glyphs)
      BY DEF IsText
    <3> QED BY <2>2, <2>4, <3>1, <3>2
  <2> QED BY <1>3, <2>3, <2>5, <2>6, <2>7
<1>6. \/ \E n \in 0 .. 2 : y = Multiplied(x, n)
      \/ \E last \in 2 .. Len(x.todo) : \E skipped \in Increasing(last - 2, 2 .. last - 1) :
           y = Ligated(x, last, skipped)
  BY DEF Leaves
<1> QED BY <1>4, <1>5, <1>6

\* What a frame is when its context has just been matched at the cursor of x.
LEMMA MatchFits ==
  ASSUME NEW x, IsText(x), NEW l \in Contexts, NEW p \in Matches(x), NEW n \in 0 .. MaxRecords,
         NEW f, f = Match(l, x, p, n)
  PROVE  f \in Frames /\ FrameFits(f) /\ f.end <= Size(x) /\ f.pos[1] = Len(x.done)
<1> DEFINE d == Len(x.done)
           t == Len(x.todo)
<1>1. d \in Nat /\ t \in Nat /\ \A k \in 1 .. t : x.todo[k] \in Glyphs
  BY LenProperties, ElementOfSeq DEF IsText
<1>2. PICK m \in 0 .. MaxMatch : p \in [1 .. m -> d .. d + t - 1]
  BY DEF Matches, Increasing
<1>3. m \in Nat /\ m <= MaxContext /\ MaxContext \in Nat
  BY LookupDriverAssumption, MaxContextAssumption
<1> DEFINE of == [k \in DOMAIN p |-> x.todo[p[k] - d + 1]]
<1>8. f = [lookup |-> l, pos |-> p, end |-> p[Len(p)] + 1, stop |-> FALSE, left |-> n, at |-> 0,
           length |-> d + t, ahead |-> t, of |-> of]
  BY DEF Match
<1>13. p # <<>> /\ p[1] = d /\ \A i, j \in DOMAIN p : i < j => p[i] < p[j]
  BY DEF Matches, Increasing
<1>14. Size(x) = d + t
  BY DEF Size
<1> HIDE DEF d, t, of
<1>15. ASSUME NEW k \in 1 .. m PROVE p[k] \in Nat /\ d <= p[k] /\ p[k] < d + t
  <2>1. p[k] \in d .. d + t - 1
    BY <1>2
  <2> QED BY <1>1, <2>1
<1>4. p \in Seq(Nat) /\ Len(p) = m /\ DOMAIN p = 1 .. m /\ p \in [1 .. m -> Nat]
  <2>1. p \in [1 .. m -> Nat]
    BY <1>2, <1>15
  <2> QED BY <1>3, <2>1, FunctionIsSeq
<1>5. m # 0 /\ 1 \in 1 .. m /\ m \in 1 .. m
  <2>1. m # 0
    BY <1>4, <1>13, EmptySeq
  <2> QED BY <1>3, <2>1
<1>6. \A k \in 1 .. m : p[k] <= p[m]
  <2> TAKE k \in 1 .. m
  <2>1. k < m \/ k = m
    BY <1>3
  <2> QED BY <1>4, <1>5, <1>13, <1>15, <2>1
<1>7. of \in Seq(Glyphs) /\ Len(of) = m
  <2>1. ASSUME NEW k \in 1 .. m PROVE p[k] - d + 1 \in 1 .. t
    BY <1>1, <1>15
  <2>2. of \in [1 .. m -> Glyphs]
    BY <1>1, <1>4, <2>1 DEF of
  <2> QED BY <1>3, <2>2, FunctionIsSeq
<1>9. p[m] + 1 \in Nat /\ p[m] + 1 <= d + t /\ d + t \in Nat /\ p[1] <= p[m] + 1
  BY <1>1, <1>5, <1>6, <1>15
<1>10. f \in Frames
  <2>1. of \in Seq(1 .. N)
    BY <1>7 DEF Glyphs
  <2> QED BY <1>1, <1>4, <1>8, <1>9, <2>1 DEF Frames
<1>11. f.pos = p /\ f.end = p[m] + 1 /\ f.of = of
  BY <1>4, <1>8
<1>12. Ordered(p, p[m] + 1)
  <2>1. \A k \in 1 .. m : p[k] < p[m] + 1
    BY <1>5, <1>6, <1>15
  <2> QED BY <1>4, <1>13, <2>1 DEF Ordered
<1> QED BY <1>3, <1>4, <1>5, <1>7, <1>9, <1>10, <1>11, <1>12, <1>13, <1>14 DEF FrameFits, d
\* Labels stay in step with positions wherever the code does not guess.
LEMMA LabelsFit ==
  ASSUME NEW f \in Frames, FrameFits(f), ~f.stop,
         NEW idx \in Nat, idx + 1 \in DOMAIN f.pos, NEW delta \in Nat,
         NEW of, of = Labels(f, idx, delta, TRUE)
  PROVE  of \in Seq(1 .. N) /\ (of = <<>> \/ Len(of) = Len(f.pos) + delta)
<1>1. CASE f.of = <<>>
  <2>1. of = <<>>
    BY <1>1 DEF Labels
  <2> QED BY <2>1, EmptySeq
<1>2. CASE f.of # <<>>
  <2> DEFINE h == Len(f.of)
  <2>1. f.of \in Seq(1 .. N) /\ f.pos \in Seq(Nat)
    BY DEF Frames
  <2>2. h \in Nat /\ \A k \in 1 .. h : f.of[k] \in 1 .. N
    BY <2>1, LenProperties, ElementOfSeq
  <2>3. h = Len(f.pos) /\ idx + 1 \in 1 .. h
    BY <1>2, <2>1, LenProperties DEF FrameFits
  <2>4. of = [k \in 1 .. h + delta |->
                IF k <= idx + 1 THEN f.of[k]
                ELSE IF k <= idx + 1 + delta THEN f.of[idx + 1] ELSE f.of[k - delta]]
    BY <1>2 DEF Labels
  <2> HIDE DEF h
  <2>5. ASSUME NEW k \in 1 .. h + delta PROVE of[k] \in 1 .. N
    <3>1. CASE k <= idx + 1
      <4>1. k \in 1 .. h
        BY <2>2, <2>3, <3>1
      <4> QED BY <2>2, <2>4, <3>1, <4>1
    <3>2. CASE ~(k <= idx + 1) /\ k <= idx + 1 + delta
      BY <2>2, <2>3, <2>4, <3>2
    <3>3. CASE ~(k <= idx + 1) /\ ~(k <= idx + 1 + delta)
      <4>1. k - delta \in 1 .. h
        BY <2>2, <2>3, <3>3
      <4> QED BY <2>2, <2>4, <3>3, <4>1
    <3> QED BY <3>1, <3>2, <3>3
  <2>6. h + delta \in Nat
    BY <2>2
  <2>8. of \in [1 .. h + delta -> 1 .. N]
    BY <2>4, <2>5, Zenon
  <2>7. of \in Seq(1 .. N) /\ Len(of) = h + delta
    BY <2>6, <2>8, FunctionIsSeq
  <2> QED BY <2>3, <2>7
<1> QED BY <1>1, <1>2

\* g is a frame for a text of length glyphs, and starts where f does.
Follows(f, g, length) ==
  g \in Frames /\ FrameFits(g) /\ g.end <= length /\ g.pos[1] = f.pos[1]

\* What a frame is when a record of it is done.
LEMMA RelabelledFits ==
  ASSUME NEW f \in Frames, FrameFits(f), ~f.stop, f.left > 0,
         NEW idx \in Nat, idx + 1 \in DOMAIN f.pos, NEW delta \in Int,
         NEW length \in Nat, f.end + delta <= length, f.pos[idx + 1] <= length,
         NEW of \in Seq(1 .. N),
         of = <<>> \/ (delta >= 0 /\ Len(of) = Len(f.pos) + delta)
  PROVE  Follows(f, [Adjusted(f, idx, delta) EXCEPT !.left = f.left - 1, !.of = of], length)
<1> DEFINE a == Adjusted(f, idx, delta)
           g == [a EXCEPT !.left = f.left - 1, !.of = of]
<1>1. /\ a \in Frames /\ a.left = f.left
      /\ Len(a.pos) \in 1 .. MaxContext
      /\ a.stop \/ Ordered(a.pos, a.end)
      /\ a.stop \/ delta < 0 \/ Len(a.pos) = Len(f.pos) + delta
      /\ a.end <= length /\ a.pos[1] = f.pos[1] /\ a.pos[1] <= a.end
  BY AdjustedFits DEF Adjusts
<1> HIDE DEF a
<1>2. f.left - 1 \in 0 .. MaxRecords
  <2>1. f.left \in 0 .. MaxRecords
    BY DEF Frames
  <2> QED BY <2>1, LookupDriverAssumption
<1>3. g \in Frames /\ g.pos = a.pos /\ g.end = a.end /\ g.stop = a.stop /\ g.of = of
  BY <1>1, <1>2 DEF Frames
<1> HIDE DEF g
<1>4. g.stop \/ g.of = <<>> \/ Len(g.of) = Len(g.pos)
  <2>1. CASE of = <<>> \/ a.stop
    BY <1>3, <2>1
  <2>2. CASE delta >= 0 /\ Len(of) = Len(f.pos) + delta /\ ~a.stop
    <3>1. Len(a.pos) = Len(f.pos) + delta
      BY <1>1, <2>2
    <3> QED BY <1>3, <2>2, <3>1
  <2> QED BY <2>1, <2>2
<1>5. Follows(f, g, length)
  BY <1>1, <1>3, <1>4 DEF Follows, FrameFits
<1> QED BY <1>5 DEF g, a

\* Either way a frame is returned to: with its positions known, which needs that
\* the text did not become shorter, or not.
LEMMA ReturnedFits ==
  ASSUME NEW f \in Frames, FrameFits(f), ~f.stop, f.left > 0,
         NEW idx \in Nat, idx + 1 \in DOMAIN f.pos, NEW delta \in Int,
         NEW length \in Nat, f.end + delta <= length, f.pos[idx + 1] <= length
  PROVE  /\ delta >= 0 => Follows(f, Returned(f, idx, delta, TRUE), length)
         /\ Follows(f, Returned(f, idx, delta, FALSE), length)
<1>1. ASSUME delta >= 0 PROVE Follows(f, Returned(f, idx, delta, TRUE), length)
  <2> DEFINE of == Labels(f, idx, delta, TRUE)
  <2>1. of \in Seq(1 .. N) /\ (of = <<>> \/ Len(of) = Len(f.pos) + delta)
    <3>1. delta \in Nat
      BY <1>1
    <3> QED BY <3>1, LabelsFit
  <2> HIDE DEF of
  <2>2. Follows(f, [Adjusted(f, idx, delta) EXCEPT !.left = f.left - 1, !.of = of], length)
    BY <1>1, <2>1, RelabelledFits
  <2> QED BY <2>2 DEF Returned, of
<1>2. Follows(f, Returned(f, idx, delta, FALSE), length)
  <2> DEFINE of == Labels(f, idx, delta, FALSE)
  <2>1. of = <<>>
    BY DEF Labels
  <2> HIDE DEF of
  <2>2. of \in Seq(1 .. N)
    BY <2>1, EmptySeq
  <2>3. Follows(f, [Adjusted(f, idx, delta) EXCEPT !.left = f.left - 1, !.of = of], length)
    BY <2>1, <2>2, RelabelledFits
  <2> QED BY <2>3 DEF Returned, of
<1> QED BY <1>1, <1>2

-----------------------------------------------------------------------------
(* The stack of frames.                                                     *)

\* g was matched at the record that f is applying.
Nests(f, g) ==
  ~f.stop /\ f.left > 0 /\ f.at + 1 \in DOMAIN f.pos /\ f.pos[f.at + 1] = g.pos[1]

\* What holds of the frames fr over a text of length glyphs.
FramesFit(fr, length) ==
  /\ fr \in Seq(Frames)
  /\ \A d \in 1 .. Len(fr) :
       FrameFits(fr[d]) /\ fr[d].end <= IF d = Len(fr) THEN length ELSE fr[d].length
  /\ \A d \in 1 .. Len(fr) - 1 : Nests(fr[d], fr[d + 1])

\* The innermost frame may become any other that starts where it did.
LEMMA ReplacedFrames ==
  ASSUME NEW fr, NEW before, FramesFit(fr, before), fr # <<>>, NEW length,
         NEW g \in Frames, FrameFits(g), g.end <= length, g.pos[1] = fr[Len(fr)].pos[1],
         NEW new, new = [fr EXCEPT ![Len(fr)] = g]
  PROVE  FramesFit(new, length)
<1> DEFINE m == Len(fr)
<1>1. fr \in Seq(Frames) /\ m \in Nat /\ m \in 1 .. m /\ fr[m] \in Frames
  <2>1. fr \in Seq(Frames) /\ m \in Nat /\ m # 0
    BY LenProperties, EmptySeq DEF FramesFit
  <2> QED BY <2>1, ElementOfSeq
<1>2. new \in Seq(Frames) /\ Len(new) = m /\ \A j \in 1 .. m : new[j] = IF j = m THEN g ELSE fr[j]
  BY <1>1, ExceptSeq
<1>3. /\ \A d \in 1 .. m : FrameFits(fr[d]) /\ (d = m \/ fr[d].end <= fr[d].length)
      /\ \A d \in 1 .. m - 1 : Nests(fr[d], fr[d + 1])
      /\ g.pos[1] = fr[m].pos[1]
  BY DEF FramesFit
<1> HIDE DEF m
<1>4. ASSUME NEW d \in 1 .. m
      PROVE  FrameFits(new[d]) /\ new[d].end <= IF d = m THEN length ELSE new[d].length
  BY <1>1, <1>2, <1>3
<1>5. ASSUME NEW d \in 1 .. m - 1 PROVE Nests(new[d], new[d + 1])
  <2>1. d \in 1 .. m /\ d + 1 \in 1 .. m /\ d # m
    BY <1>1
  <2>2. new[d] = fr[d] /\ new[d + 1].pos[1] = fr[d + 1].pos[1] /\ Nests(fr[d], fr[d + 1])
    BY <1>2, <1>3, <2>1
  <2> QED BY <2>2 DEF Nests
<1> QED BY <1>2, <1>4, <1>5 DEF FramesFit

\* Without the innermost one, for the text as the next one saw it last.
LEMMA DroppedFrame ==
  ASSUME NEW fr, NEW length, FramesFit(fr, length), Len(fr) > 1,
         NEW new, new = SubSeq(fr, 1, Len(fr) - 1)
  PROVE  /\ FramesFit(new, fr[Len(fr) - 1].length)
         /\ Len(new) = Len(fr) - 1 /\ new # <<>>
         /\ new[Len(fr) - 1] = fr[Len(fr) - 1]
<1> DEFINE m == Len(fr) - 1
<1>1. fr \in Seq(Frames) /\ m \in Nat /\ m \in 1 .. m /\ Len(fr) = m + 1
  <2>1. fr \in Seq(Frames) /\ Len(fr) \in Nat
    BY LenProperties DEF FramesFit
  <2> QED BY <2>1
<1>2. new \in Seq(Frames) /\ Len(new) = m /\ \A j \in 1 .. m : new[j] = fr[j]
  <2>1. 1 \in Int /\ m \in Int /\ 1 <= m /\ \A j \in 1 .. m : fr[j] \in Frames
    BY <1>1, ElementOfSeq
  <2> HIDE DEF m
  <2>2. /\ SubSeq(fr, 1, m) \in Seq(Frames)
        /\ Len(SubSeq(fr, 1, m)) = m
        /\ \A j \in 1 .. m : SubSeq(fr, 1, m)[j] = fr[j]
    <3>1. /\ SubSeq(fr, 1, m) \in Seq(Frames)
          /\ Len(SubSeq(fr, 1, m)) = IF 1 <= m THEN m - 1 + 1 ELSE 0
          /\ \A i \in 1 .. m - 1 + 1 : SubSeq(fr, 1, m)[i] = fr[1 + i - 1]
      BY <2>1, SubSeqProperties
    <3> QED BY <1>1, <3>1
  <2> QED BY <2>2 DEF m
<1>3. /\ \A d \in 1 .. m + 1 : FrameFits(fr[d]) /\ (d = m + 1 \/ fr[d].end <= fr[d].length)
      /\ \A d \in 1 .. m : Nests(fr[d], fr[d + 1])
  BY <1>1 DEF FramesFit
<1> HIDE DEF m
<1>4. ASSUME NEW d \in 1 .. m
      PROVE  FrameFits(new[d]) /\ new[d].end <= IF d = m THEN fr[m].length ELSE new[d].length
  <2>1. d \in 1 .. m + 1 /\ d # m + 1
    BY <1>1
  <2> QED BY <1>2, <1>3, <2>1
<1>5. ASSUME NEW d \in 1 .. m - 1 PROVE Nests(new[d], new[d + 1])
  <2>1. d \in 1 .. m /\ d + 1 \in 1 .. m
    BY <1>1
  <2> QED BY <1>2, <1>3, <2>1
<1>6. new # <<>>
  BY <1>1, <1>2, EmptySeq
<1> QED BY <1>1, <1>2, <1>4, <1>5, <1>6 DEF FramesFit, m

\* With one more, matched at the record the innermost one is applying.
LEMMA PushedFrame ==
  ASSUME NEW fr, NEW before, FramesFit(fr, before), fr # <<>>, NEW length,
         fr[Len(fr)].end <= fr[Len(fr)].length,
         NEW g \in Frames, FrameFits(g), g.end <= length, Nests(fr[Len(fr)], g),
         NEW new, new = Append(fr, g)
  PROVE  FramesFit(new, length)
<1> DEFINE m == Len(fr)
<1>1. fr \in Seq(Frames) /\ m \in Nat /\ m # 0
  BY LenProperties, EmptySeq DEF FramesFit
<1>2. /\ new \in Seq(Frames) /\ Len(new) = m + 1
      /\ \A j \in 1 .. m : new[j] = fr[j]
      /\ new[m + 1] = g
  BY <1>1, AppendProperties
<1>3. /\ \A d \in 1 .. m : FrameFits(fr[d]) /\ fr[d].end <= fr[d].length
      /\ \A d \in 1 .. m - 1 : Nests(fr[d], fr[d + 1])
      /\ Nests(fr[m], g)
  BY DEF FramesFit
<1> HIDE DEF m
<1>4. ASSUME NEW d \in 1 .. m + 1
      PROVE  FrameFits(new[d]) /\ new[d].end <= IF d = m + 1 THEN length ELSE new[d].length
  <2>1. d = m + 1 \/ d \in 1 .. m
    BY <1>1
  <2> QED BY <1>1, <1>2, <1>3, <2>1
<1>5. ASSUME NEW d \in 1 .. m PROVE Nests(new[d], new[d + 1])
  <2>1. CASE d = m
    BY <1>1, <1>2, <1>3, <2>1
  <2>2. CASE d \in 1 .. m - 1
    <3>1. d + 1 \in 1 .. m
      BY <1>1, <2>2
    <3> QED BY <1>2, <1>3, <2>2, <3>1
  <2>3. d = m \/ d \in 1 .. m - 1
    BY <1>1
  <2> QED BY <2>1, <2>2, <2>3
<1> QED BY <1>1, <1>2, <1>4, <1>5 DEF FramesFit
-----------------------------------------------------------------------------
(* The invariant.                                                           *)

\* The type invariant, and what holds of the frames over the text as it is.
DriverInv ==
  /\ done \in Seq(Glyphs) /\ todo \in Seq(Glyphs)
  /\ ops \in 0 .. MaxOps /\ ok \in BOOLEAN
  /\ FramesFit(frames, Length)

\* The text's length is what its halves add up to.
LEMMA TextLength ==
  ASSUME done \in Seq(Glyphs), todo \in Seq(Glyphs)
  PROVE  Text \in Seq(Glyphs) /\ Length \in Nat /\ Len(Text) = Length
<1>1. Len(done) \in Nat /\ Len(todo) \in Nat
  BY LenProperties
<1> QED BY <1>1, ConcatProperties DEF Text, Length

\* What the invariant says of the innermost frame.
LEMMA InnerFits ==
  ASSUME DriverInv, frames # <<>>
  PROVE  /\ frames \in Seq(Frames) /\ Depth \in Nat \ {0} /\ Inner \in Frames
         /\ FrameFits(Inner) /\ Inner.end <= Length
         /\ Inner.pos \in Seq(Nat) /\ Len(Inner.pos) \in Nat /\ DOMAIN Inner.pos = 1 .. Len(Inner.pos)
         /\ Inner.end \in Nat /\ Length \in Nat
<1>1. frames \in Seq(Frames) /\ Depth \in Nat /\ Depth # 0
  BY LenProperties, EmptySeq DEF DriverInv, FramesFit, Depth
<1>2. Depth \in 1 .. Depth /\ Inner \in Frames
  BY <1>1, ElementOfSeq DEF Depth, Inner
<1>3. FrameFits(Inner) /\ Inner.end <= Length
  BY <1>2 DEF DriverInv, FramesFit, Depth, Inner
<1>4. Inner.pos \in Seq(Nat) /\ Inner.end \in Nat
  BY <1>2 DEF Frames
<1>5. Length \in Nat
  BY TextLength DEF DriverInv
<1> QED BY <1>1, <1>2, <1>3, <1>4, <1>5, LenProperties

\* The cursor can go to any glyph of the match: move_to's assertion holds.
LEMMA PlaceFits ==
  ASSUME DriverInv, NEW idx \in 0 .. MaxContext - 1, AtRecord(idx)
  PROVE  /\ idx \in Nat /\ Inner.pos[idx + 1] \in Nat /\ Inner.pos[idx + 1] < Inner.end
         /\ Inner.pos[idx + 1] <= Length
         /\ IsText(Place(idx)) /\ Len(Place(idx).done) = Inner.pos[idx + 1]
         /\ Size(Place(idx)) = Length /\ Place(idx).todo # <<>>
<1>1. idx + 1 \in DOMAIN Inner.pos /\ ~Inner.stop /\ frames # <<>> /\ idx \in Nat
  BY MaxContextAssumption DEF AtRecord, InRecords
<1>2. /\ Inner.pos \in Seq(Nat) /\ Inner.end \in Nat /\ Inner.end <= Length /\ Length \in Nat
      /\ FrameFits(Inner)
      /\ DOMAIN Inner.pos = 1 .. Len(Inner.pos) /\ Len(Inner.pos) \in Nat
  BY <1>1, InnerFits
<1>3. Inner.pos[idx + 1] \in Nat /\ Inner.pos[idx + 1] < Inner.end
  BY <1>1, <1>2, ElementOfSeq DEF FrameFits, Ordered
<1>4. Inner.pos[idx + 1] < Length
  BY <1>2, <1>3
<1>5. Text \in Seq(Glyphs) /\ Len(Text) = Length
  BY TextLength DEF DriverInv
<1>6. IsText(Place(idx)) /\ Len(Place(idx).done) = Inner.pos[idx + 1] /\ Size(Place(idx)) = Length
  BY <1>2, <1>3, <1>4, <1>5, CutFits DEF Place, MovedTo
<1>7. Place(idx).todo # <<>>
  <2> DEFINE x == Place(idx)
  <2> HIDE DEF x
  <2>1. x.todo # <<>>
    <3>1. /\ Len(x.done) + Len(x.todo) = Length /\ Len(x.done) < Length
          /\ Len(x.todo) \in Nat /\ Len(x.done) \in Nat
      <4>1. x.todo \in Seq(Glyphs) /\ Len(x.done) = Inner.pos[idx + 1] /\ Size(x) = Length
        BY <1>6 DEF IsText, x
      <4>2. Len(x.done) + Len(x.todo) = Length
        BY <4>1 DEF Size
      <4> QED BY <1>3, <1>4, <4>1, <4>2, LenProperties
    <3>2. Len(x.todo) # 0
      <4>1. \A a, b, c \in Nat : a + b = c /\ a < c => b # 0
        OBVIOUS
      <4> QED BY <1>2, <3>1, <4>1
    <3> QED BY <3>2, EmptySeq
  <2> QED BY <2>1 DEF x
<1> QED BY <1>1, <1>2, <1>3, <1>4, <1>6, <1>7

\* A record that is left alone changes nothing of its frame but their number.
LEMMA SkippedFits ==
  ASSUME NEW f \in Frames, FrameFits(f), f.left > 0, NEW g, g = [f EXCEPT !.left = @ - 1]
  PROVE  g \in Frames /\ FrameFits(g) /\ g.end = f.end /\ g.pos[1] = f.pos[1]
<1>1. f.left - 1 \in 0 .. MaxRecords
  BY LookupDriverAssumption DEF Frames
<1>2. g \in Frames /\ g.pos = f.pos /\ g.end = f.end /\ g.stop = f.stop /\ g.of = f.of
  BY <1>1 DEF Frames
<1> QED BY <1>2 DEF FrameFits

\* A step of the innermost context keeps the invariant if what the frame
\* becomes fits the text that the step leaves.
LEMMA InnerStep ==
  ASSUME DriverInv, frames # <<>>, NEW x, IsText(x), Becomes(x),
         NEW g \in Frames, FrameFits(g), g.end <= Size(x), g.pos[1] = Inner.pos[1], SetInner(g),
         ops' \in 0 .. MaxOps, ok' \in BOOLEAN
  PROVE  DriverInv'
<1>1. done' \in Seq(Glyphs) /\ todo' \in Seq(Glyphs) /\ Length' = Size(x)
  BY DEF Becomes, IsText, Length, Size
<1>2. FramesFit(frames, Length) /\ frames' = [frames EXCEPT ![Len(frames)] = g]
  BY DEF DriverInv, SetInner, Depth
<1>3. FramesFit(frames', Size(x))
  BY <1>2, ReplacedFrames DEF Inner, Depth
<1> QED BY <1>1, <1>3 DEF DriverInv

\* Without frames only the text matters.
LEMMA ScanningStep ==
  ASSUME DriverInv, frames = <<>>, NEW x, IsText(x), Becomes(x), UNCHANGED <<frames, ops, ok>>
  PROVE  DriverInv'
<1>1. done' \in Seq(Glyphs) /\ todo' \in Seq(Glyphs)
  BY DEF Becomes, IsText
<1>2. FramesFit(frames', Length')
  <2>1. Len(frames) = 0 /\ <<>> \in Seq(Frames)
    BY EmptySeq
  <2> QED BY <2>1 DEF FramesFit
<1> QED BY <1>1, <1>2 DEF DriverInv

\* The invariant holds before the first glyph.
LEMMA DriverInit == Init => DriverInv
<1> SUFFICES ASSUME Init PROVE DriverInv
  OBVIOUS
<1>1. todo \in Seq(Glyphs)
  <2>1. [g \in 1 .. N |-> g] \in [1 .. N -> Glyphs] /\ N \in Nat
    BY LookupDriverAssumption DEF Glyphs
  <2> QED BY <2>1, FunctionIsSeq DEF Init
<1>2. done \in Seq(Glyphs)
  BY EmptySeq DEF Init
<1>3. FramesFit(frames, Length)
  <2>1. frames = <<>> /\ Len(frames) = 0 /\ frames \in Seq(Frames)
    BY EmptySeq DEF Init
  <2> QED BY <2>1 DEF FramesFit
<1> QED BY <1>1, <1>2, <1>3, LookupDriverAssumption DEF Init, DriverInv

\* Every step keeps it.
LEMMA DriverNext == DriverInv /\ [Next]_vars => DriverInv'
<1> SUFFICES ASSUME DriverInv, [Next]_vars PROVE DriverInv'
  OBVIOUS
<1> USE DEF DriverInv
<1>0. /\ Text \in Seq(Glyphs) /\ Length \in Nat /\ Len(Text) = Length
      /\ Len(done) \in Nat /\ Len(todo) \in Nat /\ Length = Len(done) + Len(todo)
      /\ IsText(Here) /\ Len(Here.done) = Len(done) /\ Here.todo = todo /\ Size(Here) = Length
  BY TextLength, LenProperties DEF Here, IsText, Size, Length
<1>1. CASE NextGlyph
  <2>1. frames = <<>> /\ todo # <<>> /\ Becomes(Cut(Text, Len(done) + 1)) /\ UNCHANGED <<frames, ops, ok>>
    BY <1>1 DEF NextGlyph, Scanning
  <2>2. Len(todo) # 0
    BY <2>1, EmptySeq
  <2>3. IsText(Cut(Text, Len(done) + 1))
    <3>1. Len(done) + 1 \in Nat /\ Len(done) + 1 <= Len(Text)
      BY <1>0, <2>2
    <3> QED BY <1>0, <3>1, CutFits
  <2> QED BY <2>1, <2>3, ScanningStep
<1>2. CASE ApplyLeaf
  <2>1. PICK y \in Leaves(Here) : Becomes(y)
    BY <1>2 DEF ApplyLeaf
  <2>2. frames = <<>> /\ todo # <<>> /\ UNCHANGED <<frames, ops, ok>>
    BY <1>2 DEF ApplyLeaf, Scanning
  <2>3. IsText(y)
    BY <1>0, <2>1, <2>2, LeavesFit
  <2> QED BY <2>1, <2>2, <2>3, ScanningStep
<1>3. CASE ApplyContext
  <2>1. PICK l \in Contexts, p \in Matches(Here), n \in 0 .. MaxRecords : frames' = <<Match(l, Here, p, n)>>
    BY <1>3 DEF ApplyContext
  <2> DEFINE f == Match(l, Here, p, n)
  <2>2. f \in Frames /\ FrameFits(f) /\ f.end <= Length
    BY <1>0, MatchFits
  <2> HIDE DEF f
  <2>3. frames' \in Seq(Frames) /\ Len(frames') = 1 /\ frames'[1] = f
    BY <2>1, <2>2 DEF f
  <2>4. UNCHANGED <<done, todo, ops, ok>> /\ Length' = Length
    BY <1>3 DEF ApplyContext, Length
  <2>5. FramesFit(frames', Length')
    BY <2>2, <2>3, <2>4 DEF FramesFit
  <2> QED BY <2>4, <2>5
<1>4. CASE SkipRecord
  <2> DEFINE g == [Inner EXCEPT !.left = @ - 1]
  <2>1. frames # <<>> /\ Inner.left > 0 /\ SetInner(g) /\ UNCHANGED <<done, todo, ops, ok>>
    BY <1>4 DEF SkipRecord, InRecords
  <2>2. Inner \in Frames /\ FrameFits(Inner) /\ Inner.end <= Length
    BY <2>1, InnerFits
  <2>3. g \in Frames /\ FrameFits(g) /\ g.end = Inner.end /\ g.pos[1] = Inner.pos[1]
    BY <2>1, <2>2, SkippedFits
  <2>4. Becomes(Here)
    BY <2>1 DEF Becomes, Here
  <2> HIDE DEF g
  <2> QED BY <1>0, <2>1, <2>2, <2>3, <2>4, InnerStep
<1>5. CASE Finish
  <2> DEFINE x == MovedTo(Inner.end)
  <2>1. /\ frames # <<>> /\ Becomes(x) /\ UNCHANGED <<ops, ok>>
        /\ frames' = IF Depth = 1 THEN <<>>
                     ELSE [SubSeq(frames, 1, Depth - 1) EXCEPT
                             ![Depth - 1] = Outer(frames[Depth - 1].at)]
    BY <1>5 DEF Finish, EndOf
  <2>2. /\ Depth \in Nat \ {0} /\ Inner \in Frames /\ FrameFits(Inner)
        /\ Inner.end \in Nat /\ Inner.end <= Length /\ Inner.pos \in Seq(Nat)
    BY <2>1, InnerFits
  <2>3. IsText(x) /\ Size(x) = Length
    BY <1>0, <2>2, CutFits DEF MovedTo
  <2> HIDE DEF x
  <2>4. done' \in Seq(Glyphs) /\ todo' \in Seq(Glyphs) /\ Length' = Length
    BY <2>1, <2>3 DEF Becomes, IsText, Length, Size
  <2>5. CASE Depth = 1
    <3>1. frames' = <<>> /\ Len(frames') = 0 /\ frames' \in Seq(Frames)
      BY <2>1, <2>5, EmptySeq
    <3>2. FramesFit(frames', Length')
      BY <3>1 DEF FramesFit
    <3> QED BY <2>1, <2>4, <3>2
  <2>6. CASE Depth # 1
    <3> DEFINE e == Depth - 1
               f == frames[e]
               g == Outer(f.at)
               rest == SubSeq(frames, 1, e)
    <3>1. /\ FramesFit(frames, Length) /\ Len(frames) = Depth
          /\ Depth > 1 /\ e \in 1 .. Depth /\ e \in 1 .. Depth - 1
      <4>1. FramesFit(frames, Length) /\ Len(frames) = Depth
        BY DEF Depth
      <4>2. Depth > 1 /\ e \in 1 .. Depth /\ e \in 1 .. Depth - 1
        BY <2>2, <2>6
      <4> QED BY <4>1, <4>2
    <3>2. FramesFit(rest, f.length) /\ Len(rest) = e /\ rest # <<>> /\ rest[e] = f
      BY <3>1, DroppedFrame
    <3>3. /\ f \in Frames /\ FrameFits(f) /\ f.end <= f.length
          /\ Nests(f, Inner)
      <4>1. frames \in Seq(Frames) /\ f \in Frames
        BY <3>1, ElementOfSeq DEF FramesFit
      <4>2. FrameFits(f) /\ f.end <= f.length /\ Nests(f, frames[e + 1])
        BY <3>1 DEF FramesFit
      <4> QED BY <2>2, <4>1, <4>2 DEF Inner
    <3>4. g = Returned(f, f.at, Length - f.length, Length - f.length = 0 /\ Inner.of # <<>>)
      BY DEF Outer
    <3>5. frames' = [rest EXCEPT ![e] = g]
      BY <2>1, <2>6
    <3> HIDE DEF e, f, g, rest
    <3>6. f.at \in Nat /\ f.length \in Nat /\ f.end \in Nat /\ f.pos \in Seq(Nat)
      BY <3>3 DEF Frames
    <3>7. f.pos[f.at + 1] <= Length
      <4>1. Inner.pos[1] <= Inner.end /\ Len(Inner.pos) \in 1 .. MaxContext
        BY <2>2 DEF FrameFits
      <4>2. Inner.pos[1] \in Nat
        BY <2>2, <4>1, ElementOfSeq, MaxContextAssumption
      <4>3. f.pos[f.at + 1] = Inner.pos[1]
        BY <3>3 DEF Nests
      <4> QED BY <1>0, <2>2, <4>1, <4>2, <4>3
    <3>8. g \in Frames /\ FrameFits(g) /\ g.end <= Length /\ g.pos[1] = f.pos[1]
      <4>1. /\ ~f.stop /\ f.left > 0 /\ f.at + 1 \in DOMAIN f.pos
            /\ Length - f.length \in Int /\ f.end + (Length - f.length) <= Length
        BY <1>0, <3>3, <3>6 DEF Nests
      <4>2. \/ Length - f.length >= 0 /\ g = Returned(f, f.at, Length - f.length, TRUE)
            \/ g = Returned(f, f.at, Length - f.length, FALSE)
        <5>1. CASE Length - f.length = 0 /\ Inner.of # <<>>
          <6>1. (Length - f.length = 0 /\ Inner.of # <<>>) = TRUE
            BY <5>1
          <6>2. g = Returned(f, f.at, Length - f.length, TRUE)
            BY <3>4, <6>1
          <6>3. Length - f.length >= 0
            BY <1>0, <3>6, <5>1
          <6> QED BY <6>2, <6>3
        <5>2. CASE ~(Length - f.length = 0 /\ Inner.of # <<>>)
          <6>1. (Length - f.length = 0 /\ Inner.of # <<>>) = FALSE
            BY <5>2
          <6> QED BY <3>4, <6>1
        <5> QED BY <5>1, <5>2
      <4>3. Follows(f, g, Length)
        BY <1>0, <3>3, <3>6, <3>7, <4>1, <4>2, ReturnedFits
      <4> QED BY <4>3 DEF Follows
    <3>9. FramesFit(frames', Length)
      BY <3>2, <3>5, <3>8, ReplacedFrames
    <3> QED BY <2>1, <2>4, <3>9
  <2> QED BY <2>5, <2>6
<1>6. CASE RunOut
  <2>1. UNCHANGED <<done, todo, frames, ops>> /\ ok' = FALSE /\ Length' = Length
    BY <1>6 DEF RunOut, Length
  <2> QED BY <2>1
<1>7. ASSUME NEW idx \in 0 .. MaxContext - 1, OutOfOps(idx) PROVE DriverInv'
  <2> DEFINE g == [Inner EXCEPT !.stop = TRUE]
  <2>1. AtRecord(idx) /\ frames # <<>> /\ Becomes(Place(idx)) /\ SetInner(g) /\ UNCHANGED <<ops, ok>>
    BY <1>7 DEF OutOfOps, AtRecord, InRecords
  <2>2. Inner \in Frames /\ FrameFits(Inner) /\ Inner.end <= Length
    BY <2>1, InnerFits
  <2>3. IsText(Place(idx)) /\ Size(Place(idx)) = Length
    BY <2>1, PlaceFits
  <2>4. g \in Frames /\ FrameFits(g) /\ g.end = Inner.end /\ g.pos[1] = Inner.pos[1]
    <3>1. g \in Frames /\ g.pos = Inner.pos /\ g.end = Inner.end /\ g.stop
      BY <2>2 DEF Frames
    <3> QED BY <2>2, <3>1 DEF FrameFits
  <2> HIDE DEF g
  <2> QED BY <2>1, <2>2, <2>3, <2>4, InnerStep
<1>8. ASSUME NEW idx \in 0 .. MaxContext - 1, Missed(idx) PROVE DriverInv'
  <2> DEFINE g == [Inner EXCEPT !.left = @ - 1]
  <2>1. /\ AtRecord(idx) /\ frames # <<>> /\ Inner.left > 0 /\ Becomes(Place(idx)) /\ SetInner(g)
        /\ ops' \in 0 .. MaxOps /\ ok' \in BOOLEAN
    BY <1>8, LookupDriverAssumption DEF Missed, AtRecord, InRecords
  <2>2. Inner \in Frames /\ FrameFits(Inner) /\ Inner.end <= Length
    BY <2>1, InnerFits
  <2>3. IsText(Place(idx)) /\ Size(Place(idx)) = Length
    BY <2>1, PlaceFits
  <2>4. g \in Frames /\ FrameFits(g) /\ g.end = Inner.end /\ g.pos[1] = Inner.pos[1]
    BY <2>1, <2>2, SkippedFits
  <2> HIDE DEF g
  <2> QED BY <2>1, <2>2, <2>3, <2>4, InnerStep
<1>9. ASSUME NEW idx \in 0 .. MaxContext - 1, NestLeaf(idx) PROVE DriverInv'
  <2>1. /\ AtRecord(idx) /\ frames # <<>> /\ Inner.left > 0 /\ ~Inner.stop /\ idx + 1 \in DOMAIN Inner.pos
        /\ ops' \in 0 .. MaxOps /\ ok' \in BOOLEAN
    BY <1>9, LookupDriverAssumption DEF NestLeaf, AtRecord, InRecords
  <2>2. PICK y \in Leaves(Place(idx)) :
          Becomes(y) /\ SetInner(Returned(Inner, idx, Size(y) - Length, Size(y) >= Length))
    BY <1>9 DEF NestLeaf
  <2>3. Inner \in Frames /\ FrameFits(Inner) /\ Inner.end <= Length /\ Inner.end \in Nat
    BY <2>1, InnerFits
  <2>4. /\ idx \in Nat /\ Inner.pos[idx + 1] \in Nat
        /\ IsText(y) /\ Size(y) \in Nat /\ Inner.pos[idx + 1] <= Size(y)
    BY <2>1, PlaceFits, LeavesFit
  <2> DEFINE g == Returned(Inner, idx, Size(y) - Length, Size(y) >= Length)
  <2>5. SetInner(g)
    BY <2>2
  <2>6. g \in Frames /\ FrameFits(g) /\ g.end <= Size(y) /\ g.pos[1] = Inner.pos[1]
    <3>1. Size(y) - Length \in Int /\ Inner.end + (Size(y) - Length) <= Size(y)
      BY <1>0, <2>3, <2>4
    <3>2. \/ Size(y) - Length >= 0 /\ g = Returned(Inner, idx, Size(y) - Length, TRUE)
          \/ g = Returned(Inner, idx, Size(y) - Length, FALSE)
      <4>1. CASE Size(y) >= Length
        <5>1. (Size(y) >= Length) = TRUE /\ Size(y) - Length >= 0
          BY <1>0, <2>4, <4>1
        <5> QED BY <5>1
      <4>2. CASE ~(Size(y) >= Length)
        <5>1. (Size(y) >= Length) = FALSE
          BY <4>2
        <5> QED BY <5>1
      <4> QED BY <4>1, <4>2
    <3> HIDE DEF g
    <3>3. Follows(Inner, g, Size(y))
      BY <2>1, <2>3, <2>4, <3>1, <3>2, ReturnedFits
    <3> QED BY <3>3 DEF Follows
  <2> HIDE DEF g
  <2> QED BY <2>1, <2>2, <2>4, <2>5, <2>6, InnerStep
<1>10. ASSUME NEW idx \in 0 .. MaxContext - 1, NestContext(idx) PROVE DriverInv'
  <2>1. /\ AtRecord(idx) /\ frames # <<>> /\ Inner.left > 0 /\ ~Inner.stop /\ idx + 1 \in DOMAIN Inner.pos
        /\ Becomes(Place(idx)) /\ ops' \in 0 .. MaxOps /\ ok' \in BOOLEAN
    BY <1>10, LookupDriverAssumption DEF NestContext, AtRecord, InRecords
  <2>2. PICK l \in Contexts, p \in Matches(Place(idx)), n \in 0 .. MaxRecords :
          frames' = Append([frames EXCEPT ![Depth].at = idx, ![Depth].length = Length],
                           Match(l, Place(idx), p, n))
    BY <1>10 DEF NestContext
  <2> DEFINE g == Match(l, Place(idx), p, n)
             h == [Inner EXCEPT !.at = idx, !.length = Length]
             mid == [frames EXCEPT ![Depth] = h]
  <2>3. /\ frames \in Seq(Frames) /\ Depth \in Nat \ {0}
        /\ Inner \in Frames /\ FrameFits(Inner) /\ Inner.end <= Length
    BY <2>1, InnerFits
  <2>4. /\ idx \in Nat /\ IsText(Place(idx)) /\ Size(Place(idx)) = Length
        /\ Len(Place(idx).done) = Inner.pos[idx + 1]
    BY <2>1, PlaceFits
  <2>5. g \in Frames /\ FrameFits(g) /\ g.end <= Length /\ g.pos[1] = Inner.pos[idx + 1]
    BY <2>4, MatchFits
  <2>6. /\ h \in Frames /\ FrameFits(h) /\ h.end <= Length /\ h.pos[1] = Inner.pos[1]
        /\ h.length = Length
    <3>1. h \in Frames /\ h.pos = Inner.pos /\ h.end = Inner.end /\ h.stop = Inner.stop /\ h.of = Inner.of
          /\ h.length = Length
      BY <1>0, <2>3, <2>4 DEF Frames
    <3> QED BY <2>3, <3>1 DEF FrameFits
  <2>7. Nests(h, g)
    <3>1. h.at = idx /\ h.pos = Inner.pos /\ h.stop = Inner.stop /\ h.left = Inner.left
      BY <2>3 DEF Frames
    <3> QED BY <2>1, <2>5, <3>1 DEF Nests
  <2>8. frames' = Append(mid, g)
    BY <2>2, <2>3 DEF Inner
  <2> HIDE DEF g, h
  <2>9. FramesFit(mid, Length) /\ mid # <<>> /\ Len(mid) = Depth /\ mid[Depth] = h
    <3>1. FramesFit(mid, Length)
      BY <2>1, <2>6, ReplacedFrames DEF Inner, Depth
    <3>2. Len(mid) = Depth /\ mid[Depth] = h /\ mid \in Seq(Frames)
      BY <2>3, <2>6, ExceptSeq DEF Depth
    <3> QED BY <2>3, <3>1, <3>2, EmptySeq
  <2> HIDE DEF mid
  <2>10. FramesFit(frames', Length)
    BY <2>5, <2>6, <2>7, <2>8, <2>9, PushedFrame
  <2>11. done' \in Seq(Glyphs) /\ todo' \in Seq(Glyphs) /\ Length' = Length
    BY <2>1, <2>4 DEF Becomes, IsText, Length, Size
  <2> QED BY <2>1, <2>10, <2>11
<1>11. CASE UNCHANGED vars
  <2>1. UNCHANGED <<done, todo, frames, ops, ok>> /\ Length' = Length
    BY <1>11 DEF vars, Length
  <2> QED BY <2>1
<1> QED
  BY <1>1, <1>2, <1>3, <1>4, <1>5, <1>6, <1>7, <1>8, <1>9, <1>10, <1>11 DEF Next

\* Whatever lookups and contexts a font has, however deep they nest: the state
\* has its type.
THEOREM DriverTypeOK == Spec => []TypeOK
<1>1. DriverInv => TypeOK
  BY DEF DriverInv, FramesFit, TypeOK, Glyphs
<1> QED BY <1>1, DriverInit, DriverNext, PTL DEF Spec

\* Positions are distinct, in order, in their array and before an end that is
\* in the text: neither move_to's assertion nor the array of positions is in
\* danger (hb-ot-layout-gsubgpos.hh:1163, :1178).
THEOREM DriverPositionsInText == Spec => []PositionsInText
<1>1. DriverInv => PositionsInText
  <2> SUFFICES ASSUME DriverInv, NEW d \in DOMAIN frames
               PROVE  /\ frames[d].stop \/ Ordered(frames[d].pos, frames[d].end)
                      /\ Len(frames[d].pos) \in 1 .. MaxContext
                      /\ frames[d].end <= IF d = Depth THEN Length ELSE frames[d].length
    BY DEF PositionsInText
  <2>1. d \in 1 .. Len(frames)
    BY LenProperties DEF DriverInv, FramesFit
  <2> QED BY <2>1 DEF DriverInv, FramesFit, FrameFits, Depth
<1> QED BY <1>1, DriverInit, DriverNext, PTL DEF Spec
-----------------------------------------------------------------------------
(* Where positions and ends are, seen from the text.                        *)

LengthAt(fr, d, length) == IF d = Len(fr) THEN length ELSE fr[d].length

\* No doubt about the positions of the contexts nested in the d-th.
Clear(fr, d) == \A e \in d + 1 .. Len(fr) : fr[e].of # <<>>

\* The glyphs at the positions pos of the text are those of the sequence of.
Marks(pos, of, text) ==
  Len(of) = Len(pos) /\ \A k \in 1 .. Len(pos) : text[pos[k] + 1] = of[k]

Labelled(f, text) == Marks(f.pos, f.of, text)

\* The end of every context is behind the first glyph it matched, counted from
\* the end of the text; and as long as the code does not guess, the text has
\* not become shorter, and where it has kept its length it is what it was.
Tracks(fr, text) ==
  /\ \A d \in 1 .. Len(fr) : LengthAt(fr, d, Len(text)) < fr[d].end + fr[d].ahead
  /\ \A d \in 1 .. Len(fr) - 1 : Clear(fr, d) => fr[d].length <= Len(text)
  /\ \A d \in 1 .. Len(fr) :
        Clear(fr, d) /\ ~fr[d].stop /\ fr[d].of # <<>> /\ LengthAt(fr, d, Len(text)) = Len(text)
          => Labelled(fr[d], text)

\* g may become the innermost frame, those inside it being gone.
LEMMA TracksReplaced ==
  ASSUME NEW fr \in Seq(Frames), NEW text \in Seq(Glyphs), Tracks(fr, text),
         NEW k \in 1 .. Len(fr), NEW g, NEW new, Len(new) = k, new[k] = g,
         \A j \in 1 .. k - 1 : new[j] = fr[j],
         NEW after \in Seq(Glyphs), Len(after) < g.end + g.ahead,
         g.of # <<>> => Clear(fr, k - 1) /\ (after = text \/ Len(after) > Len(text)),
         ~g.stop /\ g.of # <<>> => Labelled(g, after)
  PROVE  Tracks(new, after)
<1> DEFINE m == Len(fr)
           t == Len(text)
           a == Len(after)
<1>1. /\ m \in Nat /\ k \in Nat /\ k <= m /\ t \in Nat /\ a \in Nat
      /\ \A j \in 1 .. m : fr[j].length \in Nat
  <2>1. m \in Nat /\ t \in Nat /\ a \in Nat
    BY LenProperties, Zenon
  <2>3. k \in Nat /\ k <= m
    BY <2>1
  <2>2. \A j \in 1 .. m : fr[j].length \in Nat
    <3>1. \A j \in 1 .. m : fr[j] \in Frames
      BY ElementOfSeq, Zenon
    <3> QED BY <3>1 DEF Frames
  <2> QED BY <2>1, <2>2, <2>3
<1>2. ASSUME NEW d \in 1 .. k - 1, Clear(new, d)
      PROVE  Clear(fr, d) /\ (after = text \/ a > t)
  <2>1. k \in d + 1 .. k /\ g.of # <<>>
    BY <1>1, <1>2 DEF Clear
  <2>2. Clear(fr, k - 1) /\ (after = text \/ a > t)
    BY <2>1
  <2>3. ASSUME NEW e \in d + 1 .. m PROVE fr[e].of # <<>>
    <3>1. CASE e \in k .. m
      <4>1. e \in (k - 1) + 1 .. Len(fr)
        BY <1>1, <3>1
      <4> QED BY <2>2, <4>1 DEF Clear
    <3>2. CASE e \in d + 1 .. k - 1
      <4>1. e \in d + 1 .. Len(new) /\ e \in 1 .. k - 1
        BY <1>1, <3>2
      <4> QED BY <1>2, <4>1 DEF Clear
    <3> QED BY <1>1, <3>1, <3>2
  <2> QED BY <2>2, <2>3 DEF Clear
<1>3. ASSUME NEW d \in 1 .. k - 1
      PROVE  new[d] = fr[d] /\ d \in 1 .. m - 1 /\ d \in 1 .. m /\ d # k /\ d # m
  BY <1>1
<1>4. ASSUME NEW d \in 1 .. k PROVE LengthAt(new, d, a) < new[d].end + new[d].ahead
  <2>1. CASE d = k
    BY <2>1 DEF LengthAt
  <2>2. CASE d \in 1 .. k - 1
    <3>1. LengthAt(fr, d, t) < fr[d].end + fr[d].ahead
      BY <1>3, <2>2 DEF Tracks
    <3> QED BY <1>3, <2>2, <3>1 DEF LengthAt
  <2> QED BY <1>1, <2>1, <2>2
<1>5. ASSUME NEW d \in 1 .. k - 1, Clear(new, d) PROVE new[d].length <= a
  <2>1. fr[d].length <= t
    BY <1>2, <1>3, <1>5 DEF Tracks
  <2>2. fr[d].length \in Nat
    BY <1>1, <1>3
  <2> QED BY <1>1, <1>2, <1>3, <1>5, <2>1, <2>2
<1>6. ASSUME NEW d \in 1 .. k, Clear(new, d), ~new[d].stop, new[d].of # <<>>,
             LengthAt(new, d, a) = a
      PROVE  Labelled(new[d], after)
  <2>1. CASE d = k
    BY <1>6, <2>1
  <2>2. CASE d \in 1 .. k - 1
    <3>1. new[d] = fr[d] /\ d \in 1 .. m /\ fr[d].length = a /\ Clear(fr, d)
      BY <1>2, <1>3, <1>6, <2>2 DEF LengthAt
    <3>2. a <= t
      BY <1>3, <2>2, <3>1 DEF Tracks
    <3>3. after = text
      BY <1>1, <1>2, <1>6, <2>2, <3>2
    <3>4. LengthAt(fr, d, t) = t
      BY <1>3, <2>2, <3>1, <3>3 DEF LengthAt
    <3>5. Labelled(fr[d], text)
      BY <1>6, <3>1, <3>4 DEF Tracks
    <3> QED BY <3>1, <3>3, <3>5
  <2> QED BY <1>1, <2>1, <2>2
<1> QED BY <1>4, <1>5, <1>6 DEF Tracks

\* g may be added when the innermost frame has taken note of the length.
LEMMA TracksPushed ==
  ASSUME NEW fr \in Seq(Frames), NEW text \in Seq(Glyphs), Tracks(fr, text), fr # <<>>,
         NEW h, NEW g, NEW new, Len(new) = Len(fr) + 1,
         new[Len(fr)] = h, new[Len(fr) + 1] = g,
         \A j \in 1 .. Len(fr) - 1 : new[j] = fr[j],
         h.pos = fr[Len(fr)].pos, h.end = fr[Len(fr)].end, h.stop = fr[Len(fr)].stop,
         h.ahead = fr[Len(fr)].ahead, h.of = fr[Len(fr)].of, h.length = Len(text),
         Len(text) < g.end + g.ahead, Labelled(g, text)
  PROVE  Tracks(new, text)
<1> DEFINE m == Len(fr)
           t == Len(text)
<1>1. m \in Nat /\ m # 0 /\ t \in Nat
  BY LenProperties, EmptySeq
<1>2. ASSUME NEW d \in 1 .. m, Clear(new, d) PROVE Clear(fr, d)
  <2>1. ASSUME NEW e \in d + 1 .. m PROVE fr[e].of # <<>>
    <3>1. e \in d + 1 .. Len(new) /\ e \in 1 .. m /\ (e = m \/ e \in 1 .. m - 1)
      BY <1>1
    <3> QED BY <1>2, <3>1 DEF Clear
  <2> QED BY <2>1 DEF Clear
<1>3. ASSUME NEW d \in 1 .. m
      PROVE  /\ d # m + 1
             /\ new[d].pos = fr[d].pos /\ new[d].end = fr[d].end /\ new[d].stop = fr[d].stop
             /\ new[d].ahead = fr[d].ahead /\ new[d].of = fr[d].of
             /\ new[d].length = LengthAt(fr, d, t)
  <2>1. d = m \/ d \in 1 .. m - 1
    BY <1>1
  <2> QED BY <1>1, <2>1 DEF LengthAt
<1>4. ASSUME NEW d \in 1 .. m + 1 PROVE LengthAt(new, d, t) < new[d].end + new[d].ahead
  <2>1. CASE d = m + 1
    BY <2>1 DEF LengthAt
  <2>2. CASE d \in 1 .. m
    <3>1. LengthAt(fr, d, t) < fr[d].end + fr[d].ahead
      BY <2>2 DEF Tracks
    <3>2. LengthAt(new, d, t) = LengthAt(fr, d, t)
      BY <1>3, <2>2 DEF LengthAt
    <3> QED BY <1>3, <2>2, <3>1, <3>2
  <2> QED BY <1>1, <2>1, <2>2
<1>5. ASSUME NEW d \in 1 .. m, Clear(new, d) PROVE new[d].length <= t
  <2>1. CASE d = m
    BY <1>1, <2>1
  <2>2. CASE d \in 1 .. m - 1
    <3>1. Clear(fr, d)
      BY <1>2, <1>5
    <3>2. fr[d].length <= t
      BY <2>2, <3>1 DEF Tracks
    <3> QED BY <2>2, <3>2
  <2> QED BY <1>1, <2>1, <2>2
<1>6. ASSUME NEW d \in 1 .. m + 1, Clear(new, d), ~new[d].stop, new[d].of # <<>>,
             LengthAt(new, d, t) = t
      PROVE  Labelled(new[d], text)
  <2>1. CASE d = m + 1
    BY <2>1
  <2>2. CASE d \in 1 .. m
    <3>1. Clear(fr, d)
      BY <1>2, <1>6, <2>2
    <3>2. ~fr[d].stop /\ fr[d].of # <<>> /\ LengthAt(fr, d, t) = t
      BY <1>3, <1>6, <2>2 DEF LengthAt
    <3>3. Labelled(fr[d], text)
      BY <2>2, <3>1, <3>2 DEF Tracks
    <3> QED BY <1>3, <2>2, <3>3 DEF Labelled, Marks
  <2> QED BY <1>1, <2>1, <2>2
<1>7. Len(new) = m + 1 /\ m + 1 - 1 = m
  BY <1>1
<1> QED BY <1>4, <1>5, <1>6, <1>7 DEF Tracks

\* A sequence followed by another.
LEMMA Joined ==
  \A a, b \in Seq(Glyphs) :
    /\ a \o b \in Seq(Glyphs) /\ Len(a \o b) = Len(a) + Len(b)
    /\ Len(a) \in Nat /\ Len(b) \in Nat
    /\ \A i \in 1 .. Len(a) + Len(b) : (a \o b)[i] = IF i <= Len(a) THEN a[i] ELSE b[i - Len(a)]
BY ConcatProperties, LenProperties, Zenon

\* Positions and lengths after a glyph has become n.
LEMMA Sums ==
  /\ \A a, b \in Nat : a + b \in Nat
  /\ \A a \in Nat, n \in Nat \ {0} : a + (n - 1) + 1 = a + n /\ a + (n - 1) + 2 = a + n + 1
  /\ \A a, j \in Nat, n \in Nat \ {0} : (a + n + j) - (n - 1) = a + (j + 1)
OBVIOUS

\* The text a split stands for.
Whole(x) == x.done \o x.todo

\* Moving the cursor leaves every glyph where it was.
LEMMA CutKeeps ==
  ASSUME NEW text \in Seq(Glyphs), NEW n \in Nat, n <= Len(text)
  PROVE  Whole(Cut(text, n)) = text
<1>1. Len(text) \in Nat
  BY LenProperties, Zenon
<1>2. 1 \in 1 .. Len(text) + 1 /\ n \in 1 - 1 .. Len(text) /\ Len(text) \in n .. Len(text)
  BY <1>1
<1>3. SubSeq(text, 1, n) \o SubSeq(text, n + 1, Len(text)) = SubSeq(text, 1, Len(text))
  BY <1>2, ConcatAdjacentSubSeq
<1>4. SubSeq(text, 1, Len(text)) = text
  BY SubSeqFull
<1> QED BY <1>3, <1>4 DEF Whole, Cut

\* The glyphs of a split: those written, then those to be read.
LEMMA WholeGlyphs ==
  ASSUME NEW x, IsText(x)
  PROVE  /\ Whole(x) \in Seq(Glyphs) /\ Len(Whole(x)) = Size(x)
         /\ Len(x.done) \in Nat /\ Len(x.todo) \in Nat /\ Size(x) = Len(x.done) + Len(x.todo)
         /\ \A i \in 1 .. Len(x.done) : Whole(x)[i] = x.done[i]
         /\ \A i \in 1 .. Len(x.todo) : Whole(x)[Len(x.done) + i] = x.todo[i]
<1> DEFINE d == x.done
           t == x.todo
<1>1. d \in Seq(Glyphs) /\ t \in Seq(Glyphs)
  BY DEF IsText
<1> HIDE DEF d, t
<1>2. Len(d) \in Nat /\ Len(t) \in Nat
  BY <1>1, LenProperties
<1>3. /\ d \o t \in Seq(Glyphs) /\ Len(d \o t) = Len(d) + Len(t)
      /\ \A i \in 1 .. Len(d) + Len(t) : (d \o t)[i] = IF i <= Len(d) THEN d[i] ELSE t[i - Len(d)]
  BY <1>1, ConcatProperties
<1>4. ASSUME NEW i \in 1 .. Len(d) PROVE (d \o t)[i] = d[i]
  BY <1>2, <1>3
<1>5. ASSUME NEW i \in 1 .. Len(t) PROVE (d \o t)[Len(d) + i] = t[i]
  <2>1. Len(d) + i \in 1 .. Len(d) + Len(t) /\ ~(Len(d) + i <= Len(d)) /\ Len(d) + i - Len(d) = i
    BY <1>2
  <2> QED BY <1>3, <2>1
<1> QED BY <1>2, <1>3, <1>4, <1>5 DEF Whole, Size, d, t

\* A leaf that does not make the text shorter turns one glyph into n.
LEMMA LeafMultiplies ==
  ASSUME NEW x, IsText(x), x.todo # <<>>, NEW y \in Leaves(x), Size(y) >= Size(x)
  PROVE  \E n \in Nat \ {0} : y = Multiplied(x, n) /\ Size(y) = Size(x) + (n - 1)
<1>1. /\ Len(x.done) \in Nat /\ Len(x.todo) \in Nat /\ Len(x.todo) # 0
      /\ x.done \in Seq(Glyphs) /\ x.todo \in Seq(Glyphs)
      /\ \A k \in 1 .. Len(x.todo) : x.todo[k] \in Glyphs
  BY LenProperties, ElementOfSeq, EmptySeq DEF IsText
<1>9. PICK cd \in Nat, ct \in Nat, sx \in Nat, sy \in Nat :
        cd = Len(x.done) /\ ct = Len(x.todo) /\ sx = Size(x) /\ sy = Size(y) /\ sx = cd + ct /\ sy >= sx
  <2>1. Size(y) \in Nat
    BY LeavesFit
  <2>2. Size(x) = Len(x.done) + Len(x.todo)
    BY DEF Size
  <2>3. PICK cd \in Nat, ct \in Nat : cd = Len(x.done) /\ ct = Len(x.todo)
    BY <1>1
  <2>4. Size(x) = cd + ct /\ cd + ct \in Nat
    BY <2>2, <2>3, Sums, Zenon
  <2>5. PICK sx \in Nat, sy \in Nat : sx = cd + ct /\ sx = Size(x) /\ sy = Size(y)
    BY <2>1, <2>4
  <2>6. sy >= sx
    BY <2>5
  <2> QED BY <2>3, <2>5, <2>6
<1>2. ASSUME NEW n \in 0 .. 2, y = Multiplied(x, n)
      PROVE  sy = sx + (n - 1)
  <2> DEFINE a == [k \in 1 .. n |-> x.todo[1]]
  <2>1. a \in Seq(Glyphs) /\ Len(a) = n
    <3>1. a \in [1 .. n -> Glyphs] /\ n \in Nat
      BY <1>1
    <3> QED BY <3>1, FunctionIsSeq
  <2>2. Len(Tail(x.todo)) = Len(x.todo) - 1
    BY <1>1, HeadTailProperties
  <2>3. y.done = x.done \o a /\ y.todo = Tail(x.todo)
    BY <1>2 DEF Multiplied
  <2> HIDE DEF a
  <2>4. Len(y.done) = Len(x.done) + n
    BY <1>1, <2>1, <2>3, Joined
  <2>5. Size(y) = Len(y.done) + Len(y.todo)
    BY DEF Size
  <2>6. sy = cd + n + (ct - 1)
    BY <1>9, <2>2, <2>3, <2>4, <2>5
  <2>7. sx = cd + ct
    BY <1>9
  <2> QED BY <2>6, <2>7
<1>3. ASSUME NEW last \in 2 .. Len(x.todo), NEW skipped \in Increasing(last - 2, 2 .. last - 1),
             y = Ligated(x, last, skipped)
      PROVE  FALSE
  <2> DEFINE s == [k \in DOMAIN skipped |-> x.todo[skipped[k]]]
             one == <<x.todo[1]>>
             rest == SubSeq(x.todo, last + 1, Len(x.todo))
  <2>1. PICK h \in 0 .. last - 2 : skipped \in [1 .. h -> 2 .. last - 1]
    BY <1>3 DEF Increasing
  <2>2. s \in Seq(Glyphs) /\ Len(s) = h /\ h \in Nat
    <3>1. s \in [1 .. h -> Glyphs] /\ h \in Nat
      BY <1>1, <2>1
    <3> QED BY <3>1, FunctionIsSeq
  <2>3. Len(rest) = Len(x.todo) - last
    <3>1. last + 1 \in Int /\ Len(x.todo) \in Int /\ \A k \in last + 1 .. Len(x.todo) : x.todo[k] \in Glyphs
      BY <1>1
    <3>2. Len(rest) = IF last + 1 <= Len(x.todo) THEN Len(x.todo) - (last + 1) + 1 ELSE 0
      BY <3>1, SubSeqProperties
    <3> QED BY <1>1, <3>2
  <2>4. one \in Seq(Glyphs) /\ Len(one) = 1
    BY <1>1
  <2>5. y.done = x.done \o one \o s /\ y.todo = rest
    BY <1>3 DEF Ligated
  <2> HIDE DEF s, one, rest
  <2>6. x.done \o one \in Seq(Glyphs) /\ Len(x.done \o one) = Len(x.done) + 1
    <3>1. x.done \o one \in Seq(Glyphs) /\ Len(x.done \o one) = Len(x.done) + Len(one)
      BY <1>1, <2>4, Joined
    <3> QED BY <2>4, <3>1
  <2>7. Len(y.done) = Len(x.done) + 1 + h
    <3>1. Len(x.done \o one \o s) = Len(x.done \o one) + Len(s)
      BY <2>2, <2>6, Joined
    <3> QED BY <2>2, <2>5, <2>6, <3>1
  <2>8. sy = cd + 1 + h + (ct - last)
    BY <1>9, <2>3, <2>5, <2>7 DEF Size
  <2>9. h <= last - 2 /\ last \in Nat
    BY <2>1
  <2>10. sx = cd + ct /\ sy >= sx
    BY <1>9
  <2> QED BY <2>8, <2>9, <2>10
<1>4. \/ \E n \in 0 .. 2 : y = Multiplied(x, n)
      \/ \E last \in 2 .. Len(x.todo) : \E skipped \in Increasing(last - 2, 2 .. last - 1) :
           y = Ligated(x, last, skipped)
  BY DEF Leaves
<1>5. PICK n \in 0 .. 2 : y = Multiplied(x, n)
  BY <1>3, <1>4
<1>6. sy = sx + (n - 1)
  BY <1>2, <1>5
<1>7. n \in Nat \ {0}
  <2>1. sy >= sx
    BY <1>9
  <2> QED BY <1>6, <2>1
<1>8. Size(y) = Size(x) + (n - 1)
  BY <1>6, <1>9
<1> QED BY <1>5, <1>7, <1>8

\* w is z with delta copies more of the glyph behind the first here.
Multiplies(z, w, here, delta) ==
  /\ w \in Seq(Glyphs) /\ Len(w) = Len(z) + delta
  /\ \A i \in 1 .. here : w[i] = z[i]
  /\ \A i \in here + 1 .. here + delta + 1 : w[i] = z[here + 1]
  /\ \A i \in here + delta + 2 .. Len(z) + delta : w[i] = z[i - delta]

\* Which glyphs the text has after a multiple substitution.
LEMMA MultipliedGlyphs ==
  ASSUME NEW x, IsText(x), x.todo # <<>>, NEW n \in Nat \ {0}, NEW y, y = Multiplied(x, n),
         NEW here, here = Len(x.done)
  PROVE  Multiplies(Whole(x), Whole(y), here, n - 1)
<1> DEFINE a == [k \in 1 .. n |-> x.todo[1]]
           d == x.done
           t == x.todo
           r == Tail(t)
           z == Whole(x)
<1>1. d \in Seq(Glyphs) /\ t \in Seq(Glyphs) /\ t # <<>>
  BY DEF IsText
<1>2. /\ z \in Seq(Glyphs) /\ here \in Nat /\ Len(t) \in Nat /\ Size(x) = here + Len(t)
      /\ \A i \in 1 .. here : z[i] = d[i]
      /\ \A i \in 1 .. Len(t) : z[here + i] = t[i]
  BY WholeGlyphs
<1>3. Len(t) # 0 /\ t[1] \in Glyphs
  <2>1. Len(t) # 0
    BY <1>1, EmptySeq
  <2>2. 1 \in 1 .. Len(t)
    BY <1>2, <2>1
  <2> QED BY <1>1, <2>1, <2>2, ElementOfSeq
<1>4. a \in Seq(Glyphs) /\ Len(a) = n
  <2>1. a \in [1 .. n -> Glyphs] /\ n \in Nat
    BY <1>3
  <2> QED BY <2>1, FunctionIsSeq
<1>5. \A k \in 1 .. n : a[k] = t[1]
  OBVIOUS
<1>6. r \in Seq(Glyphs) /\ Len(r) = Len(t) - 1 /\ \A i \in 1 .. Len(r) : r[i] = t[i + 1]
  BY <1>1, HeadTailProperties
<1>7. y.done = d \o a /\ y.todo = r
  BY DEF Multiplied
<1>8. Len(d) = here
  OBVIOUS
<1> HIDE DEF a, d, t, r, z
<1>9. /\ y.done \in Seq(Glyphs) /\ Len(y.done) = here + n
      /\ \A i \in 1 .. here + n : y.done[i] = IF i <= here THEN d[i] ELSE a[i - here]
  <2>1. /\ d \o a \in Seq(Glyphs) /\ Len(d \o a) = Len(d) + Len(a)
        /\ \A i \in 1 .. Len(d) + Len(a) : (d \o a)[i] = IF i <= Len(d) THEN d[i] ELSE a[i - Len(d)]
    BY <1>1, <1>4, Joined, Zenon
  <2> QED BY <1>4, <1>7, <1>8, <2>1, Zenon
<1>10. IsText(y)
  BY <1>6, <1>7, <1>9 DEF IsText
<1>11. /\ Whole(y) \in Seq(Glyphs) /\ Len(Whole(y)) = here + n + Len(r)
       /\ \A i \in 1 .. here + n : Whole(y)[i] = y.done[i]
       /\ \A i \in 1 .. Len(r) : Whole(y)[here + n + i] = r[i]
  <2>1. /\ Whole(y) \in Seq(Glyphs) /\ Len(Whole(y)) = Size(y)
        /\ Size(y) = Len(y.done) + Len(y.todo)
        /\ \A i \in 1 .. Len(y.done) : Whole(y)[i] = y.done[i]
        /\ \A i \in 1 .. Len(y.todo) : Whole(y)[Len(y.done) + i] = y.todo[i]
    BY <1>10, WholeGlyphs
  <2> QED BY <1>7, <1>9, <2>1
<1> DEFINE w == Whole(y)
<1>12. Len(w) = Size(x) + (n - 1)
  BY <1>2, <1>6, <1>11
<1>13. ASSUME NEW i \in 1 .. here PROVE w[i] = z[i]
  <2>1. i \in 1 .. here + n /\ i <= here
    BY <1>2
  <2> QED BY <1>2, <1>9, <1>11, <2>1
<1>14. ASSUME NEW i \in here + 1 .. here + n PROVE w[i] = z[here + 1]
  <2>1. i \in 1 .. here + n /\ ~(i <= here) /\ i - here \in 1 .. n /\ 1 \in 1 .. Len(t)
    BY <1>2, <1>3
  <2>2. w[i] = t[1]
    <3>1. w[i] = y.done[i]
      BY <1>11, <2>1, Zenon
    <3>2. y.done[i] = a[i - here]
      BY <1>9, <2>1, Zenon
    <3>3. a[i - here] = t[1]
      BY <1>5, <2>1, Zenon
    <3> QED BY <3>1, <3>2, <3>3, Zenon
  <2> QED BY <1>2, <2>1, <2>2
<1>15. ASSUME NEW i \in here + n + 1 .. Size(x) + (n - 1) PROVE w[i] = z[i - (n - 1)]
  <2>1. PICK j \in 1 .. Len(r) : i = here + n + j
    <3>1. here + n \in Nat /\ Len(r) \in Nat /\ Size(x) + (n - 1) = here + n + Len(r)
      <4>1. here \in Nat /\ Len(t) \in Nat /\ Size(x) = here + Len(t)
        BY <1>2, Zenon
      <4>2. Len(t) # 0 /\ Len(r) = Len(t) - 1
        BY <1>3, <1>6, Zenon
      <4>3. PICK l \in Nat, s \in Nat : l = Len(t) /\ s = Size(x)
        BY <4>1
      <4>4. l # 0 /\ s = here + l /\ Len(r) = l - 1
        BY <4>1, <4>2, <4>3
      <4>5. s + (n - 1) = here + n + (l - 1) /\ l - 1 \in Nat /\ here + n \in Nat
        BY <4>1, <4>4
      <4> QED BY <4>3, <4>4, <4>5
    <3>2. ASSUME NEW b \in Nat, NEW c \in Nat, NEW e \in b + 1 .. b + c
          PROVE  e - b \in 1 .. c /\ e = b + (e - b)
      OBVIOUS
    <3>3. i \in (here + n) + 1 .. (here + n) + Len(r)
      BY <3>1
    <3> DEFINE j == i - (here + n)
    <3>4. j \in 1 .. Len(r) /\ i = here + n + j
      BY <3>1, <3>2, <3>3
    <3> QED BY <3>4
  <2>2. w[i] = r[j] /\ r[j] = t[j + 1]
    BY <1>6, <1>11, <2>1
  <2>3. j + 1 \in 1 .. Len(t) /\ i - (n - 1) = here + (j + 1)
    <3>1. Len(r) = Len(t) - 1 /\ Len(t) \in Nat /\ j \in Nat /\ here \in Nat
      BY <1>2, <1>6
    <3>2. j + 1 \in 1 .. Len(t)
      BY <3>1
    <3>5. i = here + n + j
      BY <2>1
    <3>4. (here + n + j) - (n - 1) = here + (j + 1)
      BY <3>1, Sums, Zenon
    <3>3. i - (n - 1) = here + (j + 1)
      BY <3>4, <3>5, Zenon
    <3> QED BY <3>2, <3>3
  <2> QED BY <1>2, <2>2, <2>3
<1>16. Len(z) = Size(x)
  BY WholeGlyphs DEF z
<1>17. here + (n - 1) + 1 = here + n /\ here + (n - 1) + 2 = here + n + 1
  BY <1>2, Sums, Zenon
<1>18. Multiplies(z, w, here, n - 1)
  BY <1>11, <1>12, <1>13, <1>14, <1>15, <1>16, <1>17, Zenon DEF Multiplies
<1> QED BY <1>18 DEF z

\* A glyph that becomes itself leaves the text as it is.
LEMMA MultipliesNone ==
  ASSUME NEW z \in Seq(Glyphs), NEW w, NEW here \in Nat, Multiplies(z, w, here, 0)
  PROVE  w = z
<1>1. Len(z) \in Nat
  BY LenProperties
<1>2. w \in Seq(Glyphs) /\ Len(w) = Len(z)
  BY <1>1 DEF Multiplies
<1>3. ASSUME NEW i \in 1 .. Len(w) PROVE w[i] = z[i]
  <2>1. CASE i \in 1 .. here
    BY <2>1 DEF Multiplies
  <2>2. CASE i = here + 1
    BY <2>2 DEF Multiplies
  <2>3. CASE i \in here + 0 + 2 .. Len(z) + 0
    BY <1>1, <2>3 DEF Multiplies
  <2> QED BY <1>1, <1>2, <2>1, <2>2, <2>3
<1> QED BY <1>2, <1>3, SeqEqual

\* A context that has just been matched.
LEMMA MatchTracks ==
  ASSUME NEW x, IsText(x), NEW l \in Contexts, NEW p \in Matches(x), NEW n \in 0 .. MaxRecords,
         NEW f, f = Match(l, x, p, n)
  PROVE  Len(Whole(x)) < f.end + f.ahead /\ Labelled(f, Whole(x))
<1> DEFINE d == Len(x.done)
           t == Len(x.todo)
           z == Whole(x)
<1>1. /\ d \in Nat /\ t \in Nat /\ Len(z) = d + t
      /\ \A i \in 1 .. t : z[d + i] = x.todo[i]
  BY WholeGlyphs
<1>2. PICK m \in 0 .. MaxMatch : p \in [1 .. m -> d .. d + t - 1]
  BY DEF Matches, Increasing
<1> DEFINE of == [k \in DOMAIN p |-> x.todo[p[k] - d + 1]]
<1>3. f.pos = p /\ f.end = p[Len(p)] + 1 /\ f.ahead = t /\ f.of = of
  BY DEF Match
<1>4. p # <<>> /\ p[1] = d /\ \A i, j \in DOMAIN p : i < j => p[i] < p[j]
  BY DEF Matches, Increasing
<1> HIDE DEF d, t, z
<1>5. ASSUME NEW k \in 1 .. m PROVE p[k] \in Nat /\ p[k] - d + 1 \in 1 .. t /\ p[k] + 1 = d + (p[k] - d + 1)
  <2>1. p[k] \in d .. d + t - 1
    BY <1>2
  <2> QED BY <1>1, <2>1
<1>6. p \in [1 .. m -> Nat] /\ m \in Nat
  BY <1>2, <1>5
<1>7. p \in Seq(Nat) /\ Len(p) = m /\ DOMAIN p = 1 .. m
  BY <1>6, FunctionIsSeq
<1>8. m # 0 /\ m \in 1 .. m /\ 1 \in 1 .. m
  <2>1. m # 0
    BY <1>4, <1>7, EmptySeq
  <2> QED BY <1>6, <2>1
<1>9. p[m] >= d
  <2>1. m = 1 \/ 1 < m
    BY <1>6, <1>8
  <2>2. p[m] \in Nat /\ p[1] \in Nat
    BY <1>6, <1>8
  <2> QED BY <1>4, <1>7, <1>8, <2>1, <2>2
<1>10. Len(z) < f.end + f.ahead
  <2>1. p[m] \in Nat
    BY <1>6, <1>8
  <2> QED BY <1>1, <1>3, <1>7, <1>9, <2>1
<1>11. of \in [1 .. m -> {of[k] : k \in 1 .. m}] /\ \A k \in 1 .. m : of[k] = x.todo[p[k] - d + 1]
  BY <1>7 DEF d
<1>12. Len(of) = m
  BY <1>6, <1>11, FunctionIsSeq
<1>13. ASSUME NEW k \in 1 .. m PROVE z[p[k] + 1] = of[k]
  <2>1. z[d + (p[k] - d + 1)] = x.todo[p[k] - d + 1]
    BY <1>1, <1>5
  <2> QED BY <1>5, <1>11, <2>1
<1> HIDE DEF of
<1>14. Labelled(f, z)
  BY <1>3, <1>7, <1>12, <1>13 DEF Labelled, Marks
<1> QED BY <1>10, <1>14 DEF z

\* The end keeps its distance from the end of the text, or comes nearer.
LEMMA AdjustedAhead ==
  ASSUME NEW f \in Frames, NEW idx \in Nat, f.pos[idx + 1] \in Nat, NEW delta \in Int,
         NEW length \in Nat, length < f.end + f.ahead
  PROVE  /\ Adjusted(f, idx, delta).ahead = f.ahead
         /\ length + delta < Adjusted(f, idx, delta).end + f.ahead
<1> DEFINE a == Adjusted(f, idx, delta)
           here == f.pos[idx + 1]
           end == f.end + delta
<1>1. /\ DOMAIN f = {"lookup", "pos", "end", "stop", "left", "at", "length", "ahead", "of"}
      /\ f.end \in Nat /\ f.ahead \in Nat /\ here \in Nat
  BY DEF Frames
<1>2. \/ delta = 0 /\ a = f
      \/ end <= here /\ a = [f EXCEPT !.end = here, !.stop = TRUE]
      \/ a = [f EXCEPT !.end = end, !.stop = TRUE]
      \/ \E w : a = [f EXCEPT !.end = end, !.pos = w]
  BY DEF Adjusted
<1> HIDE DEF a
<1>3. a.ahead = f.ahead /\ (a.end = end \/ (a.end = here /\ end <= here))
  <2>1. CASE delta = 0 /\ a = f
    BY <1>1, <2>1
  <2>2. CASE end <= here /\ a = [f EXCEPT !.end = here, !.stop = TRUE]
    BY <1>1, <2>2
  <2>3. CASE a = [f EXCEPT !.end = end, !.stop = TRUE]
    BY <1>1, <2>3
  <2>4. ASSUME NEW w, a = [f EXCEPT !.end = end, !.pos = w] PROVE a.ahead = f.ahead /\ a.end = end
    BY <1>1, <2>4
  <2> QED BY <1>2, <2>1, <2>2, <2>3, <2>4
<1>4. length + delta < a.end + f.ahead
  <2>1. length + delta < end + f.ahead
    BY <1>1
  <2> QED BY <1>1, <1>3, <2>1
<1> QED BY <1>3, <1>4 DEF a

\* The labels of glyphs of which the one at idx was copied.
Spread(of, idx, delta) ==
  [k \in 1 .. Len(of) + delta |->
     IF k <= idx + 1 THEN of[k]
     ELSE IF k <= idx + 1 + delta THEN of[idx + 1] ELSE of[k - delta]]

\* Positions and labels that make room for the same glyphs stay together.
LEMMA WidenedLabels ==
  ASSUME NEW m \in Nat, NEW pos \in [1 .. m -> Nat], NEW end \in Nat, Ordered(pos, end),
         Len(pos) = m, NEW idx \in Nat, idx + 1 <= m, NEW delta \in Nat,
         NEW z \in Seq(Glyphs), end <= Len(z), NEW w, Multiplies(z, w, pos[idx + 1], delta),
         NEW of, Marks(pos, of, z),
         NEW p, p = Widened(pos, idx, delta), NEW lab, lab = Spread(of, idx, delta)
  PROVE  Marks(p, lab, w)
<1>1. Len(of) = m /\ \A k \in 1 .. m : z[pos[k] + 1] = of[k]
  BY DEF Marks
<1>2. PICK i \in 1 .. m : i = idx + 1
  OBVIOUS
<1>3. PICK here \in Nat : here = pos[i]
  OBVIOUS
<1>4. PICK L \in Nat : L = Len(z)
  BY LenProperties
<1>5. /\ \A a \in 1 .. here : w[a] = z[a]
      /\ \A a \in here + 1 .. here + delta + 1 : w[a] = z[here + 1]
      /\ \A a \in here + delta + 2 .. L + delta : w[a] = z[a - delta]
  BY <1>2, <1>3, <1>4 DEF Multiplies
<1>6. InOrder(pos, m) /\ \A j \in 1 .. m : pos[j] < end
  BY DEF Ordered, InOrder
<1>7. i \in Nat /\ end <= L
  BY <1>4
<1>8. p = [k \in 1 .. m + delta |->
             IF k <= i THEN pos[k] ELSE IF k <= i + delta THEN here + (k - i) ELSE pos[k - delta] + delta]
  BY <1>2, <1>3 DEF Widened
<1>12. lab = [k \in 1 .. m + delta |->
                IF k <= i THEN of[k] ELSE IF k <= i + delta THEN of[i] ELSE of[k - delta]]
  BY <1>1, <1>2 DEF Spread
<1>13. ASSUME NEW f, NEW S, f \in [1 .. m + delta -> S] PROVE Len(f) = m + delta
  <2>1. m + delta \in Nat
    OBVIOUS
  <2> QED BY <1>13, <2>1, FunctionIsSeq
<1>14. Len(p) = m + delta /\ Len(lab) = m + delta
  <2>1. p \in [1 .. m + delta -> {p[k] : k \in 1 .. m + delta}]
    BY <1>8, Zenon
  <2>2. lab \in [1 .. m + delta -> {lab[k] : k \in 1 .. m + delta}]
    BY <1>12, Zenon
  <2> QED BY <1>13, <2>1, <2>2
<1>15. ASSUME NEW k \in 1 .. m + delta PROVE w[p[k] + 1] = lab[k]
  <2>1. CASE k <= i
    <3>1. k \in 1 .. m /\ p[k] = pos[k] /\ lab[k] = of[k]
      BY <1>7, <1>8, <1>12, <2>1
    <3>2. PICK c \in Nat : c = pos[k] /\ z[c + 1] = of[k]
      BY <1>1, <3>1
    <3>3. c <= here
      <4>1. k = i \/ k < i
        BY <1>7, <2>1
      <4> QED BY <1>3, <1>6, <3>1, <3>2, <4>1 DEF InOrder
    <3>4. w[c + 1] = z[c + 1]
      <4>1. c + 1 \in 1 .. here \/ (c = here /\ here + 1 \in here + 1 .. here + delta + 1)
        BY <3>3
      <4> QED BY <1>5, <4>1
    <3> QED BY <3>1, <3>2, <3>4
  <2>2. CASE ~(k <= i) /\ k <= i + delta
    <3>1. p[k] = here + (k - i) /\ lab[k] = of[i]
      BY <1>7, <1>8, <1>12, <2>2
    <3>4. \A a, b, e \in Nat : ~(e <= b) /\ e <= b + delta
                             => a + (e - b) + 1 \in a + 1 .. a + delta + 1
      OBVIOUS
    <3>5. k \in Nat
      OBVIOUS
    <3>6. p[k] + 1 \in here + 1 .. here + delta + 1
      BY <1>7, <2>2, <3>1, <3>4, <3>5, Zenon
    <3>2. PICK c \in here + 1 .. here + delta + 1 : c = p[k] + 1
      BY <3>6
    <3>3. w[c] = z[here + 1] /\ z[here + 1] = of[i]
      BY <1>1, <1>3, <1>5
    <3> QED BY <3>1, <3>2, <3>3
  <2>3. CASE ~(k <= i) /\ ~(k <= i + delta)
    <3>1. PICK q \in 1 .. m : q = k - delta /\ i < q
      BY <1>7, <2>3
    <3>2. p[k] = pos[q] + delta /\ lab[k] = of[q]
      BY <1>7, <1>8, <1>12, <2>3, <3>1
    <3>3. PICK c \in Nat : c = pos[q] /\ here < c /\ c < end /\ z[c + 1] = of[q]
      BY <1>1, <1>3, <1>6, <3>1 DEF InOrder
    <3>7. c + delta + 1 \in here + delta + 2 .. L + delta /\ (c + delta + 1) - delta = c + 1
      <4>1. \A a, b, e \in Nat : a < b /\ b + 1 <= e =>
              b + delta + 1 \in a + delta + 2 .. e + delta /\ (b + delta + 1) - delta = b + 1
        OBVIOUS
      <4>2. c + 1 <= L
        BY <1>7, <3>3
      <4> QED BY <3>3, <4>1, <4>2, Zenon
    <3>4. PICK e \in here + delta + 2 .. L + delta : e = c + delta + 1 /\ e - delta = c + 1
      BY <3>7
    <3>5. w[e] = z[e - delta]
      BY <1>5
    <3>6. p[k] + 1 = e
      BY <3>2, <3>3, <3>4
    <3> QED BY <3>2, <3>3, <3>4, <3>5, <3>6
  <2> QED BY <1>7, <2>1, <2>2, <2>3
<1> QED BY <1>14, <1>15 DEF Marks

\* The positions known before a glyph was multiplied are known after it.
LEMMA ReturnedLabels ==
  ASSUME NEW f \in Frames, FrameFits(f), ~f.stop, f.of # <<>>,
         NEW idx \in Nat, idx + 1 \in DOMAIN f.pos,
         NEW z \in Seq(Glyphs), f.end <= Len(z), Labelled(f, z),
         NEW delta \in Nat, NEW w, Multiplies(z, w, f.pos[idx + 1], delta),
         NEW g, g = Returned(f, idx, delta, TRUE), ~g.stop
  PROVE  Labelled(g, w)
<1>1. /\ DOMAIN f = {"lookup", "pos", "end", "stop", "left", "at", "length", "ahead", "of"}
      /\ f.pos \in Seq(Nat) /\ f.end \in Nat
  BY DEF Frames
<1>14. PICK m \in Nat : m = Len(f.pos) /\ f.pos \in [1 .. m -> Nat] /\ DOMAIN f.pos = 1 .. m
  BY <1>1, LenProperties
<1>2. PICK pos \in [1 .. m -> Nat], end \in Nat :
        m = Len(f.pos) /\ pos = f.pos /\ end = f.end /\ DOMAIN f.pos = 1 .. m
  BY <1>1, <1>14
<1>3. PICK of : of = f.of
  OBVIOUS
<1>4. Len(pos) = m /\ Marks(pos, of, z) /\ Ordered(pos, end)
  BY <1>2, <1>3 DEF Labelled, FrameFits
<1>5. idx + 1 <= m /\ pos[idx + 1] \in Nat /\ pos[idx + 1] < end /\ end <= Len(z)
  <2>1. idx + 1 \in 1 .. m /\ idx + 1 \in DOMAIN pos
    BY <1>2
  <2>2. pos[idx + 1] \in Nat
    BY <2>1
  <2>3. pos[idx + 1] < end
    BY <1>4, <2>1 DEF Ordered
  <2>4. idx + 1 <= m
    BY <2>1
  <2>5. end <= Len(z)
    BY <1>2
  <2> QED BY <2>2, <2>3, <2>4, <2>5
<1>6. PICK p : p = Widened(pos, idx, delta)
  OBVIOUS
<1>7. PICK lab : lab = Spread(of, idx, delta)
  OBVIOUS
<1>8. Marks(p, lab, w)
  <2>1. Multiplies(z, w, pos[idx + 1], delta)
    BY <1>2
  <2> QED BY <1>4, <1>5, <1>6, <1>7, <2>1, WidenedLabels
<1> DEFINE a == Adjusted(f, idx, delta)
<1>9. g = [a EXCEPT !.left = f.left - 1, !.of = lab]
  <2>1. Labels(f, idx, delta, TRUE) = Spread(f.of, idx, delta)
    BY DEF Labels, Spread
  <2> QED BY <1>3, <1>7, <2>1 DEF Returned
<1>10. \/ a = f /\ delta = 0
       \/ a = [f EXCEPT !.end = f.end + delta, !.stop = TRUE]
       \/ a = [f EXCEPT !.end = f.end + delta, !.pos = p]
  <2>1. f.end + delta > f.pos[idx + 1] /\ (delta = 0 \/ delta > 0)
    BY <1>2, <1>5
  <2>2. p = Widened(f.pos, idx, delta) /\ ~(f.end + delta <= f.pos[idx + 1])
    BY <1>1, <1>2, <1>5, <1>6, <2>1
  <2> QED BY <2>1, <2>2 DEF Adjusted
<1> HIDE DEF a
<1>11. CASE a = f /\ delta = 0
  <2>1. g.pos = pos /\ g.of = lab
    BY <1>1, <1>2, <1>9, <1>11
  <2>2. p = [k \in 1 .. m |-> pos[k]]
    <3>1. ASSUME NEW k \in 1 .. m PROVE idx + 1 + delta = idx + 1 /\ k - delta = k /\ pos[k] + delta = pos[k]
      BY <1>11
    <3>2. m + delta = m
      BY <1>11
    <3> QED BY <1>4, <1>6, <3>1, <3>2 DEF Widened
  <2>3. p = pos
    BY <2>2
  <2> QED BY <1>8, <2>1, <2>3 DEF Labelled
<1>12. CASE a = [f EXCEPT !.end = f.end + delta, !.stop = TRUE]
  <2>1. g.stop
    BY <1>1, <1>9, <1>12
  <2> QED BY <2>1
<1>13. CASE a = [f EXCEPT !.end = f.end + delta, !.pos = p]
  <2>1. g.pos = p /\ g.of = lab
    BY <1>1, <1>9, <1>13
  <2> QED BY <1>8, <2>1 DEF Labelled
<1> QED BY <1>10, <1>11, <1>12, <1>13

\* What holds of the innermost frame.
LEMMA InnerTracked ==
  ASSUME DriverInv, Tracks(frames, Text), frames # <<>>
  PROVE  /\ Length < Inner.end + Inner.ahead
         /\ ~Inner.stop /\ Inner.of # <<>> => Labelled(Inner, Text)
<1>1. Depth \in 1 .. Len(frames) /\ Depth \in Nat /\ Depth = Len(frames)
  BY InnerFits DEF Depth
<1>2. Len(Text) = Length /\ LengthAt(frames, Depth, Length) = Length
  BY <1>1, TextLength DEF DriverInv, LengthAt
<1>3. Clear(frames, Depth)
  <2>1. Depth + 1 .. Len(frames) = {}
    BY <1>1
  <2> QED BY <2>1 DEF Clear
<1> QED BY <1>1, <1>2, <1>3 DEF Tracks, Inner

\* A step of the innermost context.
LEMMA TracksInner ==
  ASSUME DriverInv, Tracks(frames, Text), frames # <<>>, NEW x, IsText(x), Becomes(x),
         NEW g \in Frames, SetInner(g), Len(Whole(x)) < g.end + g.ahead,
         g.of # <<>> => Inner.of # <<>> /\ (Whole(x) = Text \/ Len(Whole(x)) > Len(Text)),
         ~g.stop /\ g.of # <<>> => Labelled(g, Whole(x))
  PROVE  Tracks(frames', Text')
<1>1. frames \in Seq(Frames) /\ Depth \in Nat \ {0} /\ Depth = Len(frames)
  BY InnerFits DEF Depth
<1>2. Text \in Seq(Glyphs) /\ Whole(x) \in Seq(Glyphs) /\ Text' = Whole(x)
  <2>1. Text \in Seq(Glyphs)
    BY TextLength DEF DriverInv
  <2>2. Text' = Whole(x)
    BY DEF Becomes, Text, Whole
  <2> QED BY <2>1, <2>2, WholeGlyphs
<1>3. PICK fr \in Seq(Frames), k \in 1 .. Len(frames) : fr = frames /\ k = Depth
  BY <1>1
<1>4. PICK new : new = frames'
  OBVIOUS
<1>5. Len(new) = k /\ new[k] = g /\ \A j \in 1 .. k - 1 : new[j] = fr[j]
  <2>1. new = [fr EXCEPT ![k] = g] /\ k \in 1 .. Len(fr)
    BY <1>3, <1>4 DEF SetInner
  <2>2. Len(new) = Len(fr) /\ \A j \in 1 .. Len(fr) : new[j] = IF j = k THEN g ELSE fr[j]
    BY <2>1, ExceptSeq
  <2>3. k = Len(fr) /\ k \in Nat
    BY <1>1, <1>3
  <2> QED BY <2>2, <2>3
<1>6. PICK after \in Seq(Glyphs), text \in Seq(Glyphs) : after = Whole(x) /\ text = Text
  BY <1>2
<1>7. g.of # <<>> => Clear(fr, k - 1) /\ (after = text \/ Len(after) > Len(text))
  <2>1. ASSUME Inner.of # <<>> PROVE Clear(fr, k - 1)
    <3>1. ASSUME NEW e \in (k - 1) + 1 .. Len(fr) PROVE fr[e].of # <<>>
      <4>1. e = k
        BY <1>1, <1>3
      <4> QED BY <1>3, <2>1, <4>1 DEF Inner
    <3> QED BY <3>1 DEF Clear
  <2> QED BY <1>6, <2>1
<1>8. Tracks(fr, text) /\ k \in 1 .. Len(fr)
  BY <1>3, <1>6
<1>9. Len(after) < g.end + g.ahead /\ (~g.stop /\ g.of # <<>> => Labelled(g, after))
  BY <1>6
<1>10. Tracks(new, after)
  BY <1>5, <1>7, <1>8, <1>9, TracksReplaced
<1> QED BY <1>2, <1>4, <1>6, <1>10

\* Going to a record leaves the text as it is.
LEMMA PlaceKeeps ==
  ASSUME DriverInv, NEW idx \in 0 .. MaxContext - 1, AtRecord(idx)
  PROVE  Whole(Place(idx)) = Text
<1>1. Inner.pos[idx + 1] \in Nat /\ Inner.pos[idx + 1] <= Length
  BY PlaceFits
<1>2. Text \in Seq(Glyphs) /\ Len(Text) = Length
  BY TextLength DEF DriverInv
<1> QED BY <1>1, <1>2, CutKeeps DEF Place, MovedTo

\* A leaf at a record.
LEMMA NestLeafTracks ==
  ASSUME DriverInv, Tracks(frames, Text), NEW idx \in 0 .. MaxContext - 1, NestLeaf(idx)
  PROVE  Tracks(frames', Text')
<1>1. /\ AtRecord(idx) /\ frames # <<>> /\ Inner.left > 0 /\ ~Inner.stop /\ idx + 1 \in DOMAIN Inner.pos
  BY DEF NestLeaf, AtRecord, InRecords
<1>2. PICK y \in Leaves(Place(idx)) :
        Becomes(y) /\ SetInner(Returned(Inner, idx, Size(y) - Length, Size(y) >= Length))
  BY DEF NestLeaf
<1>3. PICK f \in Frames : f = Inner /\ FrameFits(f) /\ f.end <= Length /\ f.end \in Nat
  BY <1>1, InnerFits
<1>4. PICK x : x = Place(idx)
  OBVIOUS
<1>5. /\ idx \in Nat /\ f.pos[idx + 1] \in Nat /\ f.pos[idx + 1] <= Length
      /\ IsText(x) /\ Size(x) = Length /\ x.todo # <<>> /\ Len(x.done) = f.pos[idx + 1]
      /\ Whole(x) = Text
  BY <1>1, <1>3, <1>4, PlaceFits, PlaceKeeps
<1>6. IsText(y) /\ Size(y) \in Nat /\ Size(y) >= f.pos[idx + 1] /\ Length \in Nat /\ y \in Leaves(x)
  BY <1>1, <1>2, <1>4, <1>5, LeavesFit, InnerFits
<1>7. PICK delta \in Int : delta = Size(y) - Length
  BY <1>6
<1>22. PICK clear : clear = (Size(y) >= Length)
  OBVIOUS
<1>23. (clear = TRUE /\ delta >= 0) \/ clear = FALSE
  <2>1. CASE Size(y) >= Length
    <3>1. (Size(y) >= Length) = TRUE
      BY <2>1
    <3>2. delta >= 0
      BY <1>6, <1>7, <2>1
    <3> QED BY <1>22, <3>1, <3>2, Zenon
  <2>2. CASE ~(Size(y) >= Length)
    <3>1. (Size(y) >= Length) = FALSE
      BY <2>2
    <3> QED BY <1>22, <3>1, Zenon
  <2> QED BY <2>1, <2>2
<1>8. PICK g : g = Returned(f, idx, delta, clear)
  OBVIOUS
<1>9. SetInner(g)
  BY <1>2, <1>3, <1>7, <1>8, <1>22, Zenon
<1>10. Text \in Seq(Glyphs) /\ Len(Text) = Length
  BY TextLength DEF DriverInv
<1>11. Length < f.end + f.ahead /\ (f.of # <<>> => Labelled(f, Text)) /\ ~f.stop /\ f.left > 0
  BY <1>1, <1>3, InnerTracked
<1>12. Len(Whole(y)) = Size(y)
  BY <1>6, WholeGlyphs
<1>13. f.end + delta <= Size(y) /\ Length + delta = Size(y)
  BY <1>3, <1>6, <1>7
<1>14. idx + 1 \in DOMAIN f.pos
  BY <1>1, <1>3
<1>15. g \in Frames
  <2>1. CASE clear = TRUE /\ delta >= 0
    <3>1. delta >= 0 /\ clear = TRUE
      BY <2>1
    <3>2. Follows(f, Returned(f, idx, delta, TRUE), Size(y))
      BY <1>3, <1>5, <1>6, <1>11, <1>13, <1>14, <3>1, ReturnedFits
    <3> QED BY <1>8, <3>1, <3>2 DEF Follows
  <2>2. CASE clear = FALSE
    <3>1. clear = FALSE
      BY <2>2
    <3>2. Follows(f, Returned(f, idx, delta, FALSE), Size(y))
      BY <1>3, <1>5, <1>6, <1>11, <1>13, <1>14, ReturnedFits
    <3> QED BY <1>8, <3>1, <3>2 DEF Follows
  <2> QED BY <1>23, <2>1, <2>2, Zenon
<1>16. PICK a \in Frames : a = Adjusted(f, idx, delta)
  <2>1. Adjusts(f, Adjusted(f, idx, delta), delta, Size(y))
    BY <1>3, <1>5, <1>6, <1>11, <1>13, <1>14, AdjustedFits
  <2> QED BY <2>1 DEF Adjusts
<1>17. g.end = a.end /\ g.ahead = a.ahead /\ g.stop = a.stop /\ g.of = Labels(f, idx, delta, clear)
  BY <1>8, <1>16 DEF Returned, Frames
<1>18. Len(Whole(y)) < g.end + g.ahead
  <2>1. a.ahead = f.ahead /\ Length + delta < a.end + f.ahead
    BY <1>5, <1>6, <1>11, <1>16, AdjustedAhead
  <2> QED BY <1>12, <1>13, <1>17, <2>1
<1>19. ASSUME g.of # <<>>
       PROVE  /\ f.of # <<>>
              /\ Whole(y) = Text \/ Len(Whole(y)) > Len(Text)
              /\ ~g.stop => Labelled(g, Whole(y))
  <2>1. f.of # <<>> /\ clear = TRUE /\ delta >= 0
    <3>1. clear = FALSE => g.of = <<>>
      BY <1>17 DEF Labels
    <3>2. f.of = <<>> => g.of = <<>>
      BY <1>17 DEF Labels
    <3> QED BY <1>19, <1>23, <3>1, <3>2, Zenon
  <2>2. Size(y) >= Size(x) /\ clear = TRUE
    BY <1>5, <1>6, <1>7, <2>1
  <2>3. PICK n \in Nat \ {0} : y = Multiplied(x, n) /\ Size(y) = Size(x) + (n - 1)
    BY <1>5, <1>6, <2>2, LeafMultiplies
  <2>4. delta = n - 1 /\ delta \in Nat
    BY <1>5, <1>6, <1>7, <2>1, <2>3
  <2>5. PICK here \in Nat : here = Len(x.done) /\ here = f.pos[idx + 1]
    BY <1>5
  <2>6. PICK z \in Seq(Glyphs) : z = Text
    BY <1>10
  <2>11. PICK w : w = Whole(y)
    OBVIOUS
  <2>7. Multiplies(z, w, here, delta)
    <3>1. Multiplies(Whole(x), Whole(y), here, n - 1)
      BY <1>5, <2>3, <2>5, MultipliedGlyphs
    <3> QED BY <1>5, <2>4, <2>6, <2>11, <3>1
  <2>8. ASSUME delta = 0 PROVE w = z
    BY <2>7, <2>8, MultipliesNone
  <2>9. Whole(y) = Text \/ Len(Whole(y)) > Len(Text)
    <3>1. delta = 0 \/ Size(y) > Length
      BY <1>6, <1>13, <2>4
    <3> QED BY <1>10, <1>12, <2>6, <2>11, <2>8, <3>1
  <2>10. ASSUME ~g.stop PROVE Labelled(g, Whole(y))
    <3>1. f.end <= Len(z) /\ Labelled(f, z) /\ Multiplies(z, w, f.pos[idx + 1], delta)
      BY <1>3, <1>10, <1>11, <2>1, <2>5, <2>6, <2>11, <2>7
    <3>2. g = Returned(f, idx, delta, TRUE)
      BY <1>8, <2>2
    <3>3. Labelled(g, w)
      BY <1>3, <1>5, <1>11, <1>14, <2>1, <2>4, <2>10, <3>1, <3>2, ReturnedLabels
    <3> QED BY <2>6, <2>11, <3>3
  <2> QED BY <2>1, <2>9, <2>10
<1>20. g.of # <<>> => Inner.of # <<>> /\ (Whole(y) = Text \/ Len(Whole(y)) > Len(Text))
  BY <1>3, <1>19
<1>21. ~g.stop /\ g.of # <<>> => Labelled(g, Whole(y))
  BY <1>19
<1> QED BY <1>1, <1>2, <1>6, <1>9, <1>15, <1>18, <1>20, <1>21, TracksInner

\* A context at a record: the outer frame takes note of the length.
LEMMA NestContextTracks ==
  ASSUME DriverInv, Tracks(frames, Text), NEW idx \in 0 .. MaxContext - 1, NestContext(idx)
  PROVE  Tracks(frames', Text')
<1>1. AtRecord(idx) /\ frames # <<>> /\ Becomes(Place(idx))
  BY DEF NestContext, AtRecord, InRecords
<1>2. PICK l \in Contexts, p \in Matches(Place(idx)), n \in 0 .. MaxRecords :
        frames' = Append([frames EXCEPT ![Depth].at = idx, ![Depth].length = Length],
                         Match(l, Place(idx), p, n))
  BY DEF NestContext
<1>3. PICK x : x = Place(idx) /\ IsText(x) /\ Whole(x) = Text /\ idx \in Nat
  BY <1>1, PlaceFits, PlaceKeeps
<1>4. PICK g : g = Match(l, x, p, n)
  OBVIOUS
<1>5. PICK text \in Seq(Glyphs) : text = Text /\ Len(text) = Length /\ Length \in Nat
  BY TextLength DEF DriverInv
<1>6. g \in Frames /\ Len(text) < g.end + g.ahead /\ Labelled(g, text)
  <2>1. p \in Matches(x)
    BY <1>3
  <2>2. Len(Whole(x)) < g.end + g.ahead /\ Labelled(g, Whole(x))
    BY <1>3, <1>4, <2>1, MatchTracks
  <2>3. g \in Frames
    BY <1>3, <1>4, <2>1, MatchFits
  <2> QED BY <1>3, <1>5, <2>2, <2>3
<1>7. PICK fr \in Seq(Frames), m \in Nat \ {0} : fr = frames /\ m = Depth /\ m = Len(fr)
  BY <1>1, InnerFits DEF Depth
<1>8. PICK f \in Frames : f = Inner /\ f = fr[m]
  BY <1>1, <1>7, InnerFits DEF Inner
<1>9. PICK h : h = [f EXCEPT !.at = idx, !.length = Length]
  OBVIOUS
<1>10. h \in Frames /\ h.pos = f.pos /\ h.end = f.end /\ h.stop = f.stop
       /\ h.ahead = f.ahead /\ h.of = f.of /\ h.length = Length
  BY <1>3, <1>5, <1>9 DEF Frames
<1>11. PICK mid : mid = [fr EXCEPT ![m] = h]
  OBVIOUS
<1>12. m \in 1 .. Len(fr)
  BY <1>7
<1>13. mid \in Seq(Frames) /\ Len(mid) = m /\ \A j \in 1 .. m : mid[j] = IF j = m THEN h ELSE fr[j]
  BY <1>7, <1>10, <1>11, <1>12, ExceptSeq
<1>14. PICK new : new = Append(mid, g)
  OBVIOUS
<1>15. frames' = new
  <2>1. [frames EXCEPT ![Depth].at = idx, ![Depth].length = Length] = mid
    BY <1>7, <1>8, <1>9, <1>11, <1>12
  <2> QED BY <1>2, <1>3, <1>4, <1>14, <2>1
<1>16. /\ new \in Seq(Frames) /\ Len(new) = m + 1
       /\ \A j \in 1 .. m : new[j] = mid[j]
       /\ new[m + 1] = g
  BY <1>6, <1>13, <1>14, AppendProperties
<1>17. new[m] = h /\ \A j \in 1 .. m - 1 : new[j] = fr[j]
  BY <1>12, <1>13, <1>16
<1>18. Tracks(fr, text) /\ fr # <<>>
  BY <1>1, <1>5, <1>7
<1>19. Tracks(new, text)
  <2>1. /\ Len(new) = Len(fr) + 1 /\ new[Len(fr)] = h /\ new[Len(fr) + 1] = g
        /\ \A j \in 1 .. Len(fr) - 1 : new[j] = fr[j]
        /\ h.pos = fr[Len(fr)].pos /\ h.end = fr[Len(fr)].end /\ h.stop = fr[Len(fr)].stop
        /\ h.ahead = fr[Len(fr)].ahead /\ h.of = fr[Len(fr)].of /\ h.length = Len(text)
    BY <1>5, <1>7, <1>8, <1>10, <1>16, <1>17
  <2> QED BY <1>6, <1>18, <2>1, TracksPushed
<1>20. Text' = Text
  BY <1>1, <1>3 DEF Becomes, Text, Whole
<1> QED BY <1>5, <1>15, <1>19, <1>20

\* A context that is done, inside another.
LEMMA FinishTracks ==
  ASSUME DriverInv, Tracks(frames, Text), Finish, Depth # 1
  PROVE  Tracks(frames', Text')
<1>1. /\ frames # <<>> /\ Becomes(MovedTo(Inner.end))
      /\ frames' = [SubSeq(frames, 1, Depth - 1) EXCEPT ![Depth - 1] = Outer(frames[Depth - 1].at)]
  BY DEF Finish, EndOf
<1>2. Depth \in Nat \ {0} /\ Inner.end \in Nat /\ Inner.end <= Length /\ Length \in Nat
  BY <1>1, InnerFits
<1>3. PICK text \in Seq(Glyphs) : text = Text /\ Len(text) = Length
  BY TextLength DEF DriverInv
<1>4. Text' = Text
  <2>1. Whole(MovedTo(Inner.end)) = Text
    BY <1>2, <1>3, CutKeeps DEF MovedTo
  <2> QED BY <1>1, <2>1 DEF Becomes, Text, Whole
<1>5. PICK fr \in Seq(Frames), m \in Nat, e \in Nat :
        fr = frames /\ m = Len(fr) /\ m = Depth /\ e = m - 1 /\ m = e + 1 /\ e \in 1 .. Len(fr)
  <2>1. Depth \in Nat /\ Depth - 1 \in 1 .. Depth
    BY <1>2
  <2> QED BY <2>1 DEF DriverInv, FramesFit, Depth
<1>6. PICK f \in Frames : f = fr[e]
  BY <1>5, ElementOfSeq
<1>7. FrameFits(f) /\ Nests(f, fr[m]) /\ f.end <= f.length
  <2>1. FramesFit(fr, Length) /\ e \in 1 .. m - 1 /\ e # m
    BY <1>5 DEF DriverInv
  <2> QED BY <1>5, <1>6, <2>1 DEF FramesFit
<1>8. PICK rest : rest = SubSeq(fr, 1, e)
  OBVIOUS
<1>9. rest \in Seq(Frames) /\ Len(rest) = e /\ \A j \in 1 .. e : rest[j] = fr[j]
  <2>1. 1 \in Int /\ e \in Int /\ 1 <= e /\ \A j \in 1 .. e : fr[j] \in Frames
    <3>1. \A j \in 1 .. e : j \in 1 .. Len(fr)
      BY <1>5
    <3>2. ASSUME NEW j \in 1 .. e PROVE fr[j] \in Frames
      <4>1. j \in 1 .. Len(fr)
        BY <3>1
      <4> QED BY <4>1, ElementOfSeq
    <3>3. 1 \in Int /\ e \in Int /\ 1 <= e
      BY <1>5
    <3> QED BY <3>2, <3>3
  <2>2. /\ rest \in Seq(Frames)
        /\ Len(rest) = IF 1 <= e THEN e - 1 + 1 ELSE 0
        /\ \A i \in 1 .. e - 1 + 1 : rest[i] = fr[1 + i - 1]
    BY <1>8, <2>1, SubSeqProperties
  <2> QED BY <2>1, <2>2
<1>10. PICK idx \in Nat, delta \in Int :
         idx = f.at /\ delta = Length - f.length /\ idx + 1 \in DOMAIN f.pos /\ f.length \in Nat
         /\ f.pos[idx + 1] \in Nat
  <2>1. f.at \in Nat /\ f.length \in Nat /\ f.pos \in Seq(Nat) /\ f.at + 1 \in DOMAIN f.pos
    BY <1>7 DEF Frames, Nests
  <2>2. f.pos[f.at + 1] \in Nat
    BY <2>1, LenProperties, ElementOfSeq
  <2> QED BY <1>2, <2>1, <2>2
<1>11. PICK clear : clear = (delta = 0 /\ Inner.of # <<>>)
  OBVIOUS
<1>12. (clear = TRUE /\ delta = 0 /\ Inner.of # <<>>) \/ clear = FALSE
  <2>1. CASE delta = 0 /\ Inner.of # <<>>
    <3>1. (delta = 0 /\ Inner.of # <<>>) = TRUE
      BY <2>1
    <3> QED BY <1>11, <2>1, <3>1, Zenon
  <2>2. CASE ~(delta = 0 /\ Inner.of # <<>>)
    <3>1. (delta = 0 /\ Inner.of # <<>>) = FALSE
      BY <2>2
    <3> QED BY <1>11, <3>1, Zenon
  <2> QED BY <2>1, <2>2
<1>13. PICK g : g = Returned(f, idx, delta, clear)
  OBVIOUS
<1>14. PICK new : new = [rest EXCEPT ![e] = g]
  OBVIOUS
<1>15. frames' = new
  <2>1. Outer(frames[Depth - 1].at) = g
    BY <1>5, <1>6, <1>10, <1>11, <1>13, Zenon DEF Outer
  <2> QED BY <1>1, <1>5, <1>8, <1>14, <2>1
<1>16. g \in Frames
  <2>1. FramesFit(frames', Length')
    BY DriverNext DEF DriverInv, Next
  <2>2. new \in Seq(Frames)
    BY <1>15, <2>1 DEF FramesFit
  <2>3. e \in DOMAIN rest /\ new[e] = g /\ DOMAIN new = DOMAIN rest
    BY <1>5, <1>9, <1>14, LenProperties
  <2>4. e \in 1 .. Len(new)
    BY <2>2, <2>3, LenProperties
  <2> QED BY <2>2, <2>3, <2>4, ElementOfSeq
<1>17. Len(new) = e /\ new[e] = g /\ \A j \in 1 .. e - 1 : new[j] = fr[j]
  <2>1. e \in 1 .. Len(rest)
    BY <1>5, <1>9
  <2>2. Len(new) = Len(rest) /\ \A j \in 1 .. Len(rest) : new[j] = IF j = e THEN g ELSE rest[j]
    BY <1>9, <1>14, <1>16, <2>1, ExceptSeq
  <2> QED BY <1>9, <2>1, <2>2
<1>18. PICK a \in Frames : a = Adjusted(f, idx, delta)
  <2>1. f.pos[idx + 1] <= Length
    <3>1. f.pos[idx + 1] = Inner.pos[1]
      BY <1>5, <1>7, <1>10 DEF Nests, Inner
    <3>2. Inner.pos[1] <= Inner.end
      BY <1>1, InnerFits DEF FrameFits
    <3> QED BY <1>2, <1>10, <3>1, <3>2
  <2>2. f.end + delta <= Length /\ ~f.stop
    BY <1>2, <1>7, <1>10 DEF Frames, Nests
  <2>3. Adjusts(f, Adjusted(f, idx, delta), delta, Length)
    BY <1>2, <1>7, <1>10, <2>1, <2>2, AdjustedFits
  <2> QED BY <2>3 DEF Adjusts
<1>19. g.end = a.end /\ g.ahead = a.ahead /\ g.stop = a.stop /\ g.pos = a.pos
       /\ g.of = Labels(f, idx, delta, clear)
  BY <1>13, <1>18 DEF Returned, Frames
<1>20. Tracks(fr, text)
  BY <1>3, <1>5
<1>21. Len(text) < g.end + g.ahead
  <2>1. f.length < f.end + f.ahead
    <3>1. LengthAt(fr, e, Len(text)) = f.length
      BY <1>5, <1>6 DEF LengthAt
    <3> QED BY <1>5, <1>6, <1>20, <3>1 DEF Tracks
  <2>2. a.ahead = f.ahead /\ f.length + delta < a.end + f.ahead
    BY <1>10, <1>18, <2>1, AdjustedAhead
  <2>3. f.length + delta = Length
    BY <1>2, <1>10
  <2> QED BY <1>3, <1>19, <2>2, <2>3
<1>22. ASSUME g.of # <<>> PROVE Clear(fr, e - 1) /\ (~g.stop => Labelled(g, text))
  <2>1. f.of # <<>> /\ clear = TRUE /\ delta = 0 /\ Inner.of # <<>>
    <3>1. clear = FALSE => g.of = <<>>
      BY <1>19 DEF Labels
    <3>2. f.of = <<>> => g.of = <<>>
      BY <1>19 DEF Labels
    <3> QED BY <1>12, <1>22, <3>1, <3>2, Zenon
  <2>2. Clear(fr, e)
    <3>1. ASSUME NEW d \in e + 1 .. Len(fr) PROVE fr[d].of # <<>>
      <4>1. d = m
        BY <1>5
      <4> QED BY <1>5, <2>1, <4>1 DEF Inner
    <3> QED BY <3>1 DEF Clear
  <2>3. Clear(fr, e - 1)
    <3>1. ASSUME NEW d \in (e - 1) + 1 .. Len(fr) PROVE fr[d].of # <<>>
      <4>1. d = e \/ d \in e + 1 .. Len(fr)
        OBVIOUS
      <4> QED BY <1>6, <2>1, <2>2, <4>1 DEF Clear
    <3> QED BY <3>1 DEF Clear
  <2>4. Labelled(f, text)
    <3>1. f.length = Len(text) /\ ~f.stop
      BY <1>2, <1>3, <1>7, <1>10, <2>1 DEF Nests
    <3>2. LengthAt(fr, e, Len(text)) = Len(text)
      BY <1>5, <1>6, <3>1 DEF LengthAt
    <3> QED BY <1>5, <1>6, <1>20, <2>1, <2>2, <3>1, <3>2 DEF Tracks
  <2>5. g.pos = f.pos
    BY <1>18, <1>19, <2>1 DEF Adjusted
  <2>6. g.of = f.of
    <3>1. g.of = [k \in 1 .. Len(f.of) + delta |->
                    IF k <= idx + 1 THEN f.of[k]
                    ELSE IF k <= idx + 1 + delta THEN f.of[idx + 1] ELSE f.of[k - delta]]
      BY <1>19, <2>1 DEF Labels
    <3>2. f.of \in Seq(1 .. N)
      BY DEF Frames
    <3>3. PICK L \in Nat : L = Len(f.of) /\ f.of \in [1 .. L -> 1 .. N]
      BY <3>2, LenProperties
    <3>4. ASSUME NEW k \in 1 .. L PROVE k - delta = k /\ idx + 1 + delta = idx + 1 /\ L + delta = L
      BY <2>1
    <3>5. L + delta = L
      BY <2>1
    <3>6. g.of = [k \in 1 .. L |-> f.of[k]]
      BY <3>1, <3>3, <3>4, <3>5
    <3> QED BY <3>3, <3>6
  <2> QED BY <2>3, <2>4, <2>5, <2>6 DEF Labelled
<1>23. Tracks(new, text)
  <2>1. g.of # <<>> => Clear(fr, e - 1) /\ (text = text \/ Len(text) > Len(text))
    BY <1>22
  <2>2. ~g.stop /\ g.of # <<>> => Labelled(g, text)
    BY <1>22
  <2> QED BY <1>5, <1>16, <1>17, <1>20, <1>21, <2>1, <2>2, TracksReplaced
<1> QED BY <1>3, <1>4, <1>15, <1>23
\* Nothing is tracked before the first context matches.
LEMMA TracksNothing == \A text : Tracks(<<>>, text)
BY DEF Tracks

\* The text as it is split at the cursor.
LEMMA HereKeeps ==
  ASSUME DriverInv
  PROVE  Here.done = done /\ Here.todo = todo /\ IsText(Here) /\ Whole(Here) = Text
<1>1. Here.done = done /\ Here.todo = todo
  BY DEF Here
<1> QED BY <1>1 DEF DriverInv, IsText, Whole, Text

\* A context that matches at the cursor.
LEMMA ApplyContextTracks ==
  ASSUME DriverInv, ApplyContext
  PROVE  Tracks(frames', Text')
<1>1. PICK l \in Contexts, p \in Matches(Here), n \in 0 .. MaxRecords :
        frames' = <<Match(l, Here, p, n)>>
  BY DEF ApplyContext
<1>2. PICK x : x = Here /\ IsText(x) /\ Whole(x) = Text
  BY HereKeeps
<1>3. PICK g : g = Match(l, x, p, n)
  OBVIOUS
<1>4. PICK text \in Seq(Glyphs) : text = Text
  BY TextLength DEF DriverInv
<1>5. Len(text) < g.end + g.ahead /\ Labelled(g, text)
  <2>1. p \in Matches(x)
    BY <1>2
  <2>2. Len(Whole(x)) < g.end + g.ahead /\ Labelled(g, Whole(x))
    BY <1>2, <1>3, <2>1, MatchTracks
  <2> QED BY <1>2, <1>4, <2>2
<1>6. PICK new : new = <<g>>
  OBVIOUS
<1>7. Len(new) = 1 /\ new[1] = g
  BY <1>6
<1>8. Tracks(new, text)
  <2>1. \A d \in 1 .. Len(new) : d = 1 /\ LengthAt(new, d, Len(text)) = Len(text)
    BY <1>7 DEF LengthAt
  <2>2. \A d \in 1 .. Len(new) - 1 : FALSE
    BY <1>7
  <2> QED BY <1>5, <1>7, <2>1, <2>2 DEF Tracks
<1>9. Text' = Text
  BY DEF ApplyContext, Text
<1> QED BY <1>1, <1>2, <1>3, <1>4, <1>6, <1>8, <1>9

\* A record that is passed over, missed or not reached changes nothing of what
\* is tracked.
LEMMA SameTracks ==
  ASSUME DriverInv, Tracks(frames, Text), frames # <<>>,
         NEW x, IsText(x), Becomes(x), Whole(x) = Text,
         NEW g \in Frames, SetInner(g), g.pos = Inner.pos, g.end = Inner.end,
         g.ahead = Inner.ahead, g.of = Inner.of, Inner.stop => g.stop
  PROVE  Tracks(frames', Text')
<1>1. Len(Text) = Length
  BY TextLength DEF DriverInv
<1>2. /\ Length < Inner.end + Inner.ahead
      /\ ~Inner.stop /\ Inner.of # <<>> => Labelled(Inner, Text)
  BY InnerTracked
<1>3. Len(Whole(x)) < g.end + g.ahead
  BY <1>1, <1>2
<1>4. g.of # <<>> => Inner.of # <<>> /\ (Whole(x) = Text \/ Len(Whole(x)) > Len(Text))
  OBVIOUS
<1>5. ~g.stop /\ g.of # <<>> => Labelled(g, Whole(x))
  BY <1>2 DEF Labelled
<1> QED BY <1>3, <1>4, <1>5, TracksInner

\* The lookup's contexts are tracked in every step.
LEMMA TracksNext == DriverInv /\ Tracks(frames, Text) /\ [Next]_vars => Tracks(frames', Text')
<1> SUFFICES ASSUME DriverInv, Tracks(frames, Text), [Next]_vars PROVE Tracks(frames', Text')
  OBVIOUS
<1>1. CASE NextGlyph \/ ApplyLeaf
  <2>1. frames' = <<>>
    BY <1>1 DEF NextGlyph, ApplyLeaf, Scanning
  <2> QED BY <2>1, TracksNothing
<1>2. CASE ApplyContext
  BY <1>2, ApplyContextTracks
<1>3. CASE SkipRecord
  <2>1. PICK x : x = Here /\ IsText(x) /\ Becomes(x) /\ Whole(x) = Text
    BY <1>3, HereKeeps DEF SkipRecord, Becomes
  <2>2. PICK g : g = [Inner EXCEPT !.left = @ - 1]
    OBVIOUS
  <2>3. frames # <<>> /\ SetInner(g) /\ Inner.left > 0
    BY <1>3, <2>2 DEF SkipRecord, InRecords
  <2>4. Inner \in Frames /\ FrameFits(Inner)
    BY <2>3, InnerFits
  <2>5. g \in Frames
    BY <2>2, <2>3, <2>4, SkippedFits
  <2>6. g.pos = Inner.pos /\ g.end = Inner.end /\ g.ahead = Inner.ahead /\ g.of = Inner.of
        /\ g.stop = Inner.stop
    BY <2>2, <2>4 DEF Frames
  <2> QED BY <2>1, <2>3, <2>5, <2>6, SameTracks
<1>4. CASE Finish
  <2>1. CASE Depth = 1
    <3>1. frames' = <<>>
      BY <1>4, <2>1 DEF Finish
    <3> QED BY <3>1, TracksNothing
  <2> QED BY <1>4, <2>1, FinishTracks
<1>5. ASSUME NEW idx \in 0 .. MaxContext - 1, OutOfOps(idx) PROVE Tracks(frames', Text')
  <2>1. AtRecord(idx) /\ frames # <<>> /\ Becomes(Place(idx)) /\ SetInner([Inner EXCEPT !.stop = TRUE])
    BY <1>5 DEF OutOfOps, AtRecord, InRecords
  <2>2. PICK x : x = Place(idx) /\ IsText(x) /\ Becomes(x) /\ Whole(x) = Text
    BY <2>1, PlaceFits, PlaceKeeps
  <2>3. Inner \in Frames
    BY <2>1, InnerFits
  <2>4. PICK g : g = [Inner EXCEPT !.stop = TRUE]
    OBVIOUS
  <2>5. g \in Frames /\ g.pos = Inner.pos /\ g.end = Inner.end /\ g.ahead = Inner.ahead
        /\ g.of = Inner.of /\ g.stop = TRUE
    BY <2>3, <2>4 DEF Frames
  <2> QED BY <2>1, <2>2, <2>4, <2>5, SameTracks
<1>6. ASSUME NEW idx \in 0 .. MaxContext - 1, Missed(idx) PROVE Tracks(frames', Text')
  <2>1. AtRecord(idx) /\ frames # <<>> /\ Inner.left > 0 /\ Becomes(Place(idx))
        /\ SetInner([Inner EXCEPT !.left = @ - 1])
    BY <1>6 DEF Missed, AtRecord, InRecords
  <2>2. PICK x : x = Place(idx) /\ IsText(x) /\ Becomes(x) /\ Whole(x) = Text
    BY <2>1, PlaceFits, PlaceKeeps
  <2>3. Inner \in Frames /\ FrameFits(Inner)
    BY <2>1, InnerFits
  <2>4. PICK g : g = [Inner EXCEPT !.left = @ - 1]
    OBVIOUS
  <2>5. g \in Frames
    BY <2>1, <2>3, <2>4, SkippedFits
  <2>6. g.pos = Inner.pos /\ g.end = Inner.end /\ g.ahead = Inner.ahead
        /\ g.of = Inner.of /\ g.stop = Inner.stop
    BY <2>3, <2>4 DEF Frames
  <2> QED BY <2>1, <2>2, <2>4, <2>5, <2>6, SameTracks
<1>7. ASSUME NEW idx \in 0 .. MaxContext - 1, NestLeaf(idx) PROVE Tracks(frames', Text')
  BY <1>7, NestLeafTracks
<1>8. ASSUME NEW idx \in 0 .. MaxContext - 1, NestContext(idx) PROVE Tracks(frames', Text')
  BY <1>8, NestContextTracks
<1>9. CASE RunOut \/ UNCHANGED vars
  BY <1>9 DEF RunOut, vars, Text
<1> QED BY <1>1, <1>2, <1>3, <1>4, <1>5, <1>6, <1>7, <1>8, <1>9 DEF Next

\* As long as nested lookups only replace glyphs and turn one into several, a
\* position stays at the glyph that was matched there (the case the comment at
\* hb-ot-layout-gsubgpos.hh:1144 calls fine).
THEOREM DriverPositionsFollowGlyphs == Spec => []PositionsFollowGlyphs
<1>1. DriverInv /\ Tracks(frames, Text) => PositionsFollowGlyphs
  <2> SUFFICES ASSUME DriverInv, Tracks(frames, Text), frames # <<>>, ~Inner.stop, Inner.of # <<>>
               PROVE  /\ Len(Inner.of) = Len(Inner.pos)
                      /\ \A k \in DOMAIN Inner.pos : Text[Inner.pos[k] + 1] = Inner.of[k]
    BY DEF PositionsFollowGlyphs
  <2>1. Labelled(Inner, Text)
    BY InnerTracked
  <2>2. DOMAIN Inner.pos = 1 .. Len(Inner.pos)
    BY InnerFits
  <2> QED BY <2>1, <2>2 DEF Labelled, Marks
<1>2. Init => Tracks(frames, Text)
  BY TracksNothing DEF Init
<1>3. DriverInv /\ Tracks(frames, Text) /\ [Next]_vars => Tracks(frames, Text)'
  BY TracksNext
<1> QED BY <1>1, <1>2, <1>3, DriverInit, DriverNext, PTL DEF Spec

\* A step that drops a context leaves fewer glyphs to read than it started with.
LEMMA FinishAdvances ==
  DriverInv /\ Tracks(frames, Text) /\ [Next]_vars
    => [Len(frames') < Len(frames) => Len(todo') < Inner.ahead]_vars
<1> SUFFICES ASSUME DriverInv, Tracks(frames, Text), Next, Len(frames') < Len(frames)
             PROVE  Len(todo') < Inner.ahead
  OBVIOUS
<1>1. frames \in Seq(Frames) /\ Len(frames) \in Nat
  BY LenProperties DEF DriverInv, FramesFit
<1>2. frames # <<>>
  <2>1. frames' \in Seq(Frames)
    BY DriverNext DEF DriverInv, FramesFit
  <2>2. Len(frames') \in Nat
    BY <2>1, LenProperties
  <2> QED BY <1>1, <2>2
<1>3. ASSUME NEW g, SetInner(g) PROVE FALSE
  <2>1. frames' \in Seq(Frames)
    BY DriverNext DEF DriverInv, FramesFit
  <2>2. Len(frames') \in Nat /\ DOMAIN frames' = 1 .. Len(frames')
    BY <2>1, LenProperties
  <2>3. DOMAIN frames' = 1 .. Len(frames)
    BY <1>1, <1>3, LenProperties DEF SetInner
  <2>4. Len(frames') = Len(frames)
    BY <1>1, <2>2, <2>3
  <2> QED BY <1>1, <2>4
<1>4. ASSUME NEW idx \in 0 .. MaxContext - 1, NestContext(idx) PROVE FALSE
  <2>1. PICK l \in Contexts, p \in Matches(Place(idx)), n \in 0 .. MaxRecords :
          frames' = Append([frames EXCEPT ![Depth].at = idx, ![Depth].length = Length],
                           Match(l, Place(idx), p, n))
    BY <1>4 DEF NestContext
  <2>2. PICK m \in Nat : m = Len(frames)
    BY <1>1
  <2>3. PICK mid : mid = [frames EXCEPT ![Depth].at = idx, ![Depth].length = Length]
    OBVIOUS
  <2>4. mid \in [1 .. m -> {mid[i] : i \in 1 .. m}]
    BY <1>1, <2>2, <2>3, LenProperties
  <2>5. mid \in Seq({mid[i] : i \in 1 .. m}) /\ Len(mid) = m
    BY <2>4, FunctionIsSeq
  <2>6. DOMAIN frames' = 1 .. m + 1
    BY <2>1, <2>3, <2>5
  <2>7. frames' \in Seq(Frames)
    BY DriverNext DEF DriverInv, FramesFit
  <2>8. Len(frames') \in Nat /\ 1 .. Len(frames') = 1 .. m + 1
    BY <2>6, <2>7, LenProperties
  <2>9. Len(frames') = m + 1
    BY <2>8
  <2> QED BY <2>2, <2>9
<1>5. Finish
  <2>1. ~NextGlyph /\ ~ApplyLeaf /\ ~ApplyContext
    BY <1>2 DEF NextGlyph, ApplyLeaf, ApplyContext, Scanning
  <2>2. ~SkipRecord
    BY <1>3 DEF SkipRecord
  <2>3. ~RunOut
    BY <1>1 DEF RunOut
  <2>4. ASSUME NEW idx \in 0 .. MaxContext - 1 PROVE ~OutOfOps(idx) /\ ~Missed(idx) /\ ~NestLeaf(idx)
    BY <1>3 DEF OutOfOps, Missed, NestLeaf
  <2> QED BY <1>4, <2>1, <2>2, <2>3, <2>4 DEF Next
<1>6. PICK x : x = MovedTo(Inner.end) /\ Becomes(x)
  BY <1>5 DEF Finish, EndOf
<1>7. Text \in Seq(Glyphs) /\ Len(Text) = Length /\ Inner.end \in Nat /\ Inner.end <= Length
      /\ Length \in Nat /\ Inner \in Frames
  BY <1>2, InnerFits, TextLength DEF DriverInv
<1>8. IsText(x) /\ Len(x.done) = Inner.end /\ Size(x) = Length
  BY <1>6, <1>7, CutFits DEF MovedTo
<1>9. PICK d \in Nat, t \in Nat : d = Len(x.done) /\ t = Len(x.todo) /\ d + t = Length
  BY <1>8, WholeGlyphs
<1>10. PICK a \in Nat : a = Inner.ahead
  BY <1>7 DEF Frames
<1>11. d + t < d + a
  BY <1>2, <1>8, <1>9, <1>10, InnerTracked
<1>12. t < a
  BY <1>11
<1> QED BY <1>6, <1>9, <1>10, <1>12 DEF Becomes

\* An application leaves fewer glyphs to read than it started with, also if
\* its nested lookups made the text longer or deleted all it had matched: the
\* loop of apply_forward reaches the end of the text.
THEOREM DriverApplicationsAdvance == Spec => ApplicationsAdvance
<1>1. Init => Tracks(frames, Text)
  BY TracksNothing DEF Init
<1>2. DriverInv /\ Tracks(frames, Text) /\ [Next]_vars => Tracks(frames, Text)'
  BY TracksNext
<1> QED
  BY <1>1, <1>2, DriverInit, DriverNext, FinishAdvances, PTL DEF Spec, ApplicationsAdvance
=============================================================================
