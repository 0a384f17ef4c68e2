------------------------------ MODULE PagedSet ------------------------------
(***************************************************************************)
(* hb_set_t (hb-set.hh): a set of code points kept as bit pages, found     *)
(* through a sorted map of (major, index of the page).  Pages stay where   *)
(* they were appended, set algebra works in place, the population is       *)
(* cached, and any growth of either vector may fail.                       *)
(*                                                                         *)
(* Intersecting shrinks the page vector without moving the pages it keeps, *)
(* so that a kept page may fall outside: Whole is FALSE from then on.  The *)
(* model follows such a set, or one whose vectors have different lengths   *)
(* (cleared after a failure), no further than a clear or a copy into it.   *)
(* Intersecting may also overwrite map entries that it has still to read;  *)
(* the assertion that ends the pass fails then, and a build that checks    *)
(* assertions, as this model does, stops there: aborted.                   *)
(***************************************************************************)
EXTENDS Integers, FiniteSets, SequencesExt

CONSTANTS Sets,          \* the sets a client holds
          Codepoints,    \* the numbers it uses
          Ranges,        \* and the ranges <<first, last>> it adds and deletes
          PageBits,      \* code points per page (512)
          Step,          \* what a vector grows by, beside half its size (8)
          Capacities,    \* sizes at which the allocator may stop
          MaxFailed      \* sets it may stop for

ASSUME PagedSetAssumption ==
    /\ Codepoints \subseteq Nat /\ IsFiniteSet(Codepoints)
    /\ Ranges \subseteq Codepoints \X Codepoints
    /\ PageBits \in Nat \ {0}
    /\ Step \in Nat \ {0}
    /\ Capacities \subseteq Nat
    /\ MaxFailed \in Nat

VARIABLES sets,          \* [Sets -> the record of an hb_set_t]
          aborted        \* whether an assertion failed

vars == <<sets, aborted>>

Dirty   == -1            \* population to be counted again (UINT_MAX)
Failed  == -1            \* allocated of a vector in error
Invalid == -1            \* HB_SET_VALUE_INVALID

Bits == 0 .. PageBits - 1
Major(g) == g \div PageBits
Bit(g) == g % PageBits
Majors == {Major(g) : g \in Codepoints}
NullMap == [major |-> 0, index |-> 0]

TypeOK ==
    /\ sets \in [Sets -> [pages : Seq(SUBSET Bits),
                          map : Seq([major : Nat, index : Nat]),
                          population : Nat \cup {Dirty},
                          successful : BOOLEAN,
                          pagesAlloc : Nat \cup {Failed},
                          mapAlloc : Nat \cup {Failed}]]
    /\ aborted \in BOOLEAN

----------------------------------------------------------------------------
(* The two vectors (hb-vector.hh).  A read outside gives the Null object.  *)

RECURSIVE Grown(_, _)
Grown(alloc, size) ==
    IF size >= alloc THEN Grown(alloc + alloc \div 2 + Step, size) ELSE alloc

Granted(alloc, size, can) ==
    alloc # Failed /\ (size <= alloc \/ Grown(alloc, size) <= can)

Alloc(alloc, size, can) ==
    IF ~Granted(alloc, size, can) THEN Failed
    ELSE IF size <= alloc THEN alloc ELSE Grown(alloc, size)

ResizedTo(v, size, null) == [i \in 1 .. size |-> IF i <= Len(v) THEN v[i] ELSE null]

PageAt(x, k) ==
    LET index == IF k < Len(x.map) THEN x.map[k + 1].index ELSE 0
    IN  IF index < Len(x.pages) THEN x.pages[index + 1] ELSE {}

WithPage(x, index, page) == [x EXCEPT !.pages[index + 1] = page]

\* can bounds what the allocator gives this call, for either vector.
Resize(x, size, can) ==
    LET pagesOK == Granted(x.pagesAlloc, size, can.pages)
        mapOK   == Granted(x.mapAlloc, size, can.map)
        first   == [x EXCEPT !.pagesAlloc = Alloc(@, size, can.pages)]
    IN  IF ~x.successful THEN x
        ELSE IF ~pagesOK THEN [first EXCEPT !.successful = FALSE]
        ELSE IF ~mapOK
             THEN [first EXCEPT !.pages = ResizedTo(@, Len(x.map), {}),
                                !.mapAlloc = Failed, !.successful = FALSE]
             ELSE [first EXCEPT !.pages = ResizedTo(@, size, {}),
                                !.map = ResizedTo(@, size, NullMap),
                                !.mapAlloc = Alloc(@, size, can.map)]

Cans ==
    LET top   == 2 * Grown(0, Cardinality(Majors))
        short == IF Cardinality({s \in Sets : ~sets[s].successful}) < MaxFailed
                 THEN Capacities ELSE {}
    IN  {[pages |-> top, map |-> top]}
          \cup {[pages |-> c, map |-> top] : c \in short}
          \cup {[pages |-> top, map |-> c] : c \in short}

----------------------------------------------------------------------------
(* Looking a page up.                                                      *)

\* bfind: the first position that is not before the major.
Position(x, major) == Cardinality({i \in 1 .. Len(x.map) : x.map[i].major < major})

Found(x, major) == LET i == Position(x, major)
                   IN  i < Len(x.map) /\ x.map[i + 1].major = major

PageFor(x, g) == IF Found(x, Major(g)) THEN PageAt(x, Position(x, Major(g))) ELSE {}

Has(x, g) == Bit(g) \in PageFor(x, g)

Content(x) == {g \in Codepoints : Has(x, g)}

\* Mutant of PageForInsert: the entry goes to the end of the map.
PageForAppend(x, major, can) ==
    LET y     == Resize(x, Len(x.pages) + 1, can)
        entry == [major |-> major, index |-> Len(x.pages)]
    IN  IF Found(x, major) THEN x
        ELSE IF ~y.successful THEN y
        ELSE [y EXCEPT !.map = Append(x.map, entry)]

PageForInsert(x, major, can) ==
    LET y     == Resize(x, Len(x.pages) + 1, can)
        entry == [major |-> major, index |-> Len(x.pages)]
    IN  IF Found(x, major) THEN x
        ELSE IF ~y.successful THEN y
        ELSE [y EXCEPT !.map = InsertAt(x.map, Position(x, major) + 1, entry)]

\* next: the least element above g, through the pages from that of g on.
Least(S) == IF S = {} THEN Invalid ELSE CHOOSE m \in S : \A n \in S : m <= n
Greatest(S) == IF S = {} THEN Invalid ELSE CHOOSE m \in S : \A n \in S : n <= m

At(x, k, bit) == x.map[k + 1].major * PageBits + bit

GetMin(x) ==
    LET k == Least({i \in 0 .. Len(x.pages) - 1 : PageAt(x, i) # {}})
    IN  IF k = Invalid THEN Invalid ELSE At(x, k, Least(PageAt(x, k)))

FirstFrom(x, k) ==
    LET j == Least({i \in k .. Len(x.map) - 1 : PageAt(x, i) # {}})
    IN  IF j = Invalid THEN Invalid ELSE At(x, j, Least(PageAt(x, j)))

\* The greatest element of an empty page is 0, not Invalid, so that the search
\* for the element before never goes past a page.
LastFrom(x, k) ==
    IF k < 0 THEN Invalid
    ELSE At(x, k, IF PageAt(x, k) = {} THEN 0 ELSE Greatest(PageAt(x, k)))

\* Mutant of NextOf: the page of g is looked at a second time.
NextOfAgain(x, g) ==
    LET k     == Position(x, Major(g))
        above == {b \in PageAt(x, k) : b > Bit(g)}
    IN  IF ~Found(x, Major(g)) THEN FirstFrom(x, k)
        ELSE IF above # {} THEN At(x, k, Least(above)) ELSE FirstFrom(x, k)

NextOf(x, g) ==
    LET k     == Position(x, Major(g))
        above == {b \in PageAt(x, k) : b > Bit(g)}
    IN  IF ~Found(x, Major(g)) THEN FirstFrom(x, k)
        ELSE IF above # {} THEN At(x, k, Least(above)) ELSE FirstFrom(x, k + 1)

PreviousOf(x, g) ==
    LET k     == Position(x, Major(g))
        below == {b \in PageAt(x, k) : b < Bit(g)}
    IN  IF Found(x, Major(g)) /\ below # {} THEN At(x, k, Greatest(below))
        ELSE LastFrom(x, k - 1)

\* get_max starts at the last page and counts up: past the pages every entry
\* is Null, which leads to the page that was made first, for good.
Endless == -2
GetMax(x) ==
    LET last == Len(x.pages) - 1
    IN  IF x.pages = <<>> THEN Invalid
        ELSE IF PageAt(x, last) # {} THEN At(x, last, Greatest(PageAt(x, last)))
        ELSE IF x.pages[1] # {} THEN Greatest(x.pages[1]) ELSE Endless

\* get_population counts the pages, the ones no entry leads to included.
Counted(x) == FoldLeft(LAMBDA n, page : n + Cardinality(page), 0, x.pages)
PopulationOf(x) == IF x.population = Dirty THEN Counted(x) ELSE x.population

EqualPages(x, y) ==
    LET NotEmpty(z) == SelectSeq([i \in 1 .. Len(z.map) |->
                                    [major |-> z.map[i].major, page |-> PageAt(z, i - 1)]],
                                 LAMBDA e : e.page # {})
    IN  NotEmpty(x) = NotEmpty(y)

IsEqual(x, y) == PopulationOf(x) = PopulationOf(y) /\ EqualPages(x, y)

----------------------------------------------------------------------------
(* The calls.                                                              *)

Whole(x) ==
    /\ Len(x.pages) = Len(x.map)
    /\ \A i \in DOMAIN x.map : x.map[i].index < Len(x.pages)

AllWhole == \A s \in Sets : Whole(sets[s])

New == [pages |-> <<>>, map |-> <<>>, population |-> 0, successful |-> TRUE,
        pagesAlloc |-> 0, mapAlloc |-> 0]

Init == sets = [s \in Sets |-> New] /\ aborted = FALSE

Put(s, x) == sets' = [sets EXCEPT ![s] = x] /\ UNCHANGED aborted
Soiled(x) == [x EXCEPT !.population = Dirty]

InPage(major, G) == {Bit(g) : g \in {h \in G : Major(h) = major}}

\* add, add_range: page by page, up to the first that cannot be had.
Inserted(x, majors, G, can) ==
    FoldLeft(LAMBDA y, m :
               LET z     == PageForInsert(y, m, can)
                   index == z.map[Position(z, m) + 1].index
               IN  IF ~y.successful \/ ~z.successful THEN z
                   ELSE WithPage(z, index, z.pages[index + 1] \cup InPage(m, G)),
             Soiled(x), majors)

Upwards(m, n) == [i \in 1 .. n - m + 1 |-> m + i - 1]

AddRange(s, a, b) ==
    LET G == a .. b
    IN  /\ sets[s].successful
        /\ AllWhole
        /\ a <= b
        /\ \E x \in {Inserted(sets[s], Upwards(Major(a), Major(b)), G, can) : can \in Cans} :
              Put(s, x)

\* del_range: one del per code point; a page that is not there is not made.
Deleted(x, G) ==
    LET hit == {i \in 1 .. Len(x.map) : \E g \in G : Major(g) = x.map[i].major}
    IN  IF hit = {} THEN x
        ELSE Soiled([x EXCEPT !.pages =
               [k \in DOMAIN @ |-> @[k] \ UNION {InPage(x.map[i].major, G) :
                                                 i \in {j \in hit : x.map[j].index = k - 1}}]])

DelRange(s, a, b) ==
    /\ sets[s].successful
    /\ AllWhole
    /\ a <= b
    /\ Put(s, Deleted(sets[s], a .. b))

\* clear ignores whether the vectors let themselves be emptied.
Emptied(x) == [x EXCEPT !.population = 0,
                        !.pages = IF x.pagesAlloc = Failed THEN @ ELSE <<>>,
                        !.map = IF x.mapAlloc = Failed THEN @ ELSE <<>>]

Clear(s) == Put(s, Emptied(sets[s]))

\* set: both vectors are copied as they are.
SetFrom(s, o) ==
    /\ sets[s].successful
    /\ \A t \in Sets \ {s} : Whole(sets[t])
    /\ \E x \in {Resize(sets[s], Len(sets[o].pages), can) : can \in Cans} :
          Put(s, IF x.successful
                 THEN [x EXCEPT !.population = sets[o].population,
                                !.pages = sets[o].pages, !.map = sets[o].map]
                 ELSE x)

\* An operation of hb_bitwise_*: whether it keeps the pages only one side has,
\* and what it makes of two pages.
Ops == {"union", "intersect", "subtract", "symmetric_difference"}
KeepsLeft(op)  == op # "intersect"
KeepsRight(op) == op \in {"union", "symmetric_difference"}
OfPages(op, p, q) ==
    CASE op = "union"     -> p \cup q
      [] op = "intersect" -> p \cap q
      [] op = "subtract"  -> p \ q
      [] OTHER            -> (p \ q) \cup (q \ p)

MajorsOf(x) == {x.map[i].major : i \in DOMAIN x.map}
KeptMajors(op, x, o) ==
    LET A == MajorsOf(x)
        B == MajorsOf(o)
    IN  (A \cap B) \cup (IF KeepsLeft(op) THEN A \ B ELSE {})
                   \cup (IF KeepsRight(op) THEN B \ A ELSE {})

\* A page that only o has gets the next free index.
\* Mutant of Foreign: the entry is copied from o's map.
ForeignAsIs(entry, next) == entry

Foreign(entry, next) == [entry EXCEPT !.index = next]

\* The backward pass of process: a and b entries of the maps of x and o are
\* still to be read, count entries of the result to be written, and they are
\* written over those of x.
RECURSIVE Backward(_, _, _, _, _, _, _)
Backward(op, x, o, a, b, count, next) ==
    LET m == IF a = 0 THEN -1 ELSE x.map[a].major
        n == IF b = 0 THEN -1 ELSE o.map[b].major
        kept  == [x EXCEPT !.map[count] = x.map[a]]
        taken == [x EXCEPT !.map[count] = Foreign(o.map[b], next)]
        both  == OfPages(op, PageAt(x, a - 1), PageAt(o, b - 1))
    IN  CASE a = 0 /\ b = 0 -> [set |-> x, left |-> count]
          [] m = n /\ a # 0 ->
               Backward(op, WithPage(kept, x.map[a].index, both), o,
                        a - 1, b - 1, count - 1, next)
          [] m > n /\ KeepsLeft(op)   -> Backward(op, kept, o, a - 1, b, count - 1, next)
          [] m > n /\ ~KeepsLeft(op)  -> Backward(op, x, o, a - 1, b, count, next)
          [] m < n /\ KeepsRight(op)  ->
               Backward(op, WithPage(taken, taken.map[count].index, PageAt(o, b - 1)), o,
                        a, b - 1, count - 1, next + 1)
          [] m < n /\ ~KeepsRight(op) -> Backward(op, x, o, a, b - 1, count, next)

\* The set that process leaves, and how many entries it failed to write.
Processed(op, x, o, can) ==
    LET size  == Cardinality(KeptMajors(op, x, o))
        grown == IF size > Len(x.pages) THEN Resize(Soiled(x), size, can) ELSE Soiled(x)
        done  == Backward(op, grown, o, Len(x.pages), Len(o.pages), size, Len(x.pages))
    IN  IF ~grown.successful THEN [set |-> grown, left |-> 0]
        ELSE IF Len(done.set.pages) > size
             THEN [done EXCEPT !.set = Resize(@, size, can)] ELSE done

Process(op, s, o) ==
    /\ sets[s].successful
    /\ AllWhole
    /\ \E x \in {Processed(op, sets[s], sets[o], can) : can \in Cans} :
         /\ aborted' = (x.left # 0)
         /\ sets' = IF x.left # 0 THEN sets ELSE [sets EXCEPT ![s] = x.set]

GetPopulation(s) == Put(s, [sets[s] EXCEPT !.population = PopulationOf(sets[s])])

Next ==
  /\ ~aborted
  /\ \E s \in Sets :
       \/ \E r \in Ranges : AddRange(s, r[1], r[2]) \/ DelRange(s, r[1], r[2])
       \/ \E o \in Sets \ {s} : SetFrom(s, o)
       \/ \E o \in Sets, op \in Ops : Process(op, s, o)
       \/ Clear(s) \/ GetPopulation(s)

Spec == Init /\ [][Next]_vars

----------------------------------------------------------------------------
(* Properties.                                                             *)

\* What every lookup, iteration and merge relies on (hb-set.hh:556, :763):
\* the map is sorted without a major twice, no page belongs to two majors,
\* and a population that is cached is the number of bits that are set.  It
\* survives failures half way through a call.
PagesInOrder ==
    \A s \in Sets :
        LET x == sets[s]
        IN  /\ \A i, j \in DOMAIN x.map :
                  i < j => /\ x.map[i].major < x.map[j].major
                           /\ x.map[i].index # x.map[j].index
            /\ x.population # Dirty /\ x.pagesAlloc # Failed
                  => x.population = Counted(x)

\* A page that became empty stands between two numbers, the first of which
\* may be Invalid: its own numbers are all after the one and before the other.
EmptiedBetween(x, first, last) ==
    \E i \in DOMAIN x.map : first < At(x, i - 1, 0) /\ x.map[i].major < Major(last)

\* Iterating upwards gives exactly the elements, in order, over pages that
\* became empty and gaps between pages, from any starting point
\* (hb-set.hh:568, :597).  Downwards it does so unless such a page stands
\* between the start and the element: it is answered with its first number
\* (hb-set.hh:170, :620).  The maximum is right as long as the last page is not
\* empty (hb-set.hh:691 looks past the pages then), and equality does not
\* depend on the order in which the pages were made (hb-set.hh:418).
IterationExact ==
    \A s \in Sets : Whole(sets[s]) =>
        LET x == sets[s]
            C == Content(x)
            Before(g) == Greatest({c \in C : c < g})
        IN  /\ GetMin(x) = Least(C)
            /\ C # {} /\ PageAt(x, Len(x.pages) - 1) # {} => GetMax(x) = Greatest(C)
            /\ \A g \in Codepoints :
                  /\ NextOf(x, g) = Least({c \in C : c > g})
                  /\ ~EmptiedBetween(x, Before(g), g) => PreviousOf(x, g) = Before(g)
            /\ \A o \in Sets : Whole(sets[o]) /\ x.successful /\ sets[o].successful
                  => (IsEqual(x, sets[o]) <=> C = Content(sets[o]))

InError(x) == ~x.successful \/ Failed \in {x.pagesAlloc, x.mapAlloc}

Abstract == INSTANCE SetSpec WITH content <- [s \in Sets |-> Content(sets[s])],
                                  failed  <- {s \in Sets : InError(sets[s])}

\* As long as no page is lost, a set is the set it stands for through every
\* operation, aliased operands and failed allocations included, that does not
\* end in the failing assertion of hb-set.hh:547; and pages are lost only where
\* the page vector of a working set shrank or a failed set was emptied
\* (hb-set.hh:548, :180).
ImplementsSetUnlessLost ==
    [][AllWhole =>
         IF AllWhole'
         THEN \E s \in Sets :
                 /\ sets' = [sets EXCEPT ![s] = sets'[s]]
                 /\ Abstract!Call(Content(sets[s]), InError(sets[s]),
                                  {Content(sets[o]) : o \in Sets},
                                  Content(sets'[s]), InError(sets'[s]))
         ELSE \E s \in Sets : /\ ~Whole(sets'[s])
                              /\ \/ Len(sets'[s].pages) < Len(sets[s].pages)
                                 \/ sets[s].pagesAlloc = Failed]_sets

\* "Returns the number of numbers in the set" (src/src/hb-set.cc:413, of
\* hb_set_get_population): as many as hb_set_has says are in it.
PopulationIsNumberOfNumbers ==
    \A s \in Sets : sets[s].successful
                       => PopulationOf(sets[s]) = Cardinality(Content(sets[s]))
=============================================================================
