------------------------------ MODULE HashMap ------------------------------
(***************************************************************************)
(* hb_hashmap_t (src/src/hb-map.hh): open addressing with triangular       *)
(* probing in a table of 2^n slots, the first bucket taken modulo a prime. *)
(* A deleted slot becomes a tombstone: a key without a value.  The table is*)
(* rebuilt, without its tombstones, when two thirds of it are occupied.    *)
(*                                                                         *)
(* A table is [items, mask, prime, population, occupancy, ok, mallocs]:    *)
(* items is a function on 0..mask, or NoItems for nullptr, ok is the       *)
(* field successful, and mallocs how many more allocations the current     *)
(* call will be granted, which makes every failure of malloc possible.     *)
(* population wraps at Width bits.  Keys are addresses; ContentOf is what  *)
(* hb_deref compares and HashOf the hash of that.                          *)
(*                                                                         *)
(* Deleting a key again counts it out again (hb-map.hh:232).  Once that    *)
(* takes population below zero, resize may ask for a table without an      *)
(* unused slot, whose searches do not end: the properties hold as long as  *)
(* it has not wrapped, which is what MinPopulation = 0 bounds the model to.*)
(***************************************************************************)
EXTENDS Integers, Sequences, FiniteSets

CONSTANTS
  Keys, Values, ContentOf, HashOf,
  None,              \* kINVALID and vINVALID
  Slack,             \* the 8 of resize's "population * 2 + 8"
  Width,             \* bits of population
  MinPopulation,     \* bounds of the model on population: sets that overwrite
  MaxPopulation,     \* and deletes that repeat move it without end
  MaxMallocs         \* bound of the model on allocations granted to one call

VARIABLE map

ASSUME MapAssumption ==
  /\ None \notin Keys \cup Values
  /\ Slack \in Nat \ {0} /\ Width \in Nat \ {0} /\ MaxMallocs \in Nat
  /\ MinPopulation \in Int /\ MaxPopulation \in Nat

NoItems == <<>>

Unused == [key |-> None, value |-> None]

IsTombstone(s) == s.key # None /\ s.value = None
IsReal(s)      == s.key # None /\ s.value # None

Wrap(n) == n % 2^Width

Empty(size, prime) ==
  [items |-> [i \in 0 .. size - 1 |-> Unused], mask |-> size - 1, prime |-> prime,
   population |-> 0, occupancy |-> 0]

TypeOK ==
  /\ DOMAIN map = {"items", "mask", "prime", "population", "occupancy", "ok"}
  /\ map.mask \in Nat /\ map.prime \in Nat /\ map.occupancy \in Nat
  /\ map.population \in 0 .. 2^Width - 1
  /\ map.ok \in BOOLEAN
  /\ \/ map.items = NoItems
     \/ map.items \in [0 .. map.mask -> [key : Keys \cup {None}, value : Values \cup {None}]]

-----------------------------------------------------------------------------
(* Sizes.                                                                   *)

\* hb_bit_storage: the number of bits it takes to write n.
BitStorage[n \in Nat] == IF n = 0 THEN 0 ELSE 1 + BitStorage[n \div 2]

\* prime_for, as far as the sizes of the model go.
PrimeMod == <<1, 2, 3, 7, 13, 31, 61, 127, 251>>
PrimeFor(shift) == PrimeMod[shift + 1]

Power(population) == BitStorage[Wrap(population * 2 + Slack)]

-----------------------------------------------------------------------------
(* Probing.                                                                 *)

\* The slots a search for hash h passes, in order: triangular numbers away
\* from the first bucket.  They are all the slots of the table.
Probe(t, h) == [n \in 0 .. t.mask |-> ((h % t.prime) + (n * (n + 1)) \div 2) % (t.mask + 1)]

\* Mutant of BucketForHash: the search ends at the first tombstone.
BucketAtTombstone(t, k) ==
  LET probe == Probe(t, HashOf[ContentOf[k]])
      Stops(n) == LET s == t.items[probe[n]] IN
                    s.key = None \/ IsTombstone(s) \/ ContentOf[s.key] = ContentOf[k]
  IN probe[CHOOSE n \in 0 .. t.mask : Stops(n) /\ \A m \in 0 .. n - 1 : ~Stops(m)]

\* bucket_for_hash: the slot of the key, or else the first tombstone on the
\* way, or else the unused slot that ended the search.
BucketForHash(t, k) ==
  LET probe == Probe(t, HashOf[ContentOf[k]])
      Slot(n) == t.items[probe[n]]
      Hit(n)  == Slot(n).key # None /\ ContentOf[Slot(n).key] = ContentOf[k]
      Ends(n) == Slot(n).key = None \/ Hit(n)
      end     == CHOOSE n \in 0 .. t.mask : Ends(n) /\ \A m \in 0 .. n - 1 : ~Ends(m)
      graves  == {n \in 0 .. end - 1 : IsTombstone(Slot(n))}
  IN IF Hit(end) \/ graves = {} THEN probe[end]
     ELSE probe[CHOOSE n \in graves : \A m \in graves : n <= m]

\* get.
Lookup(t, k) ==
  IF t.items = NoItems THEN None
  ELSE LET s == t.items[BucketForHash(t, k)]
       IN IF IsReal(s) /\ ContentOf[s.key] = ContentOf[k] THEN s.value ELSE None

-----------------------------------------------------------------------------
(* Writing.                                                                 *)

\* The end of set_with_hash: slot i takes the key and the value, a slot that
\* was used is counted out first, and what it becomes is counted in.
Stored(t, i, k, v) ==
  LET old == t.items[i]
      out == IF IsTombstone(old) THEN 1 ELSE 0
      in  == IF v # None THEN 1 ELSE 0
  IN [t EXCEPT !.items[i] = [key |-> k, value |-> v],
               !.occupancy = IF old.key # None THEN @ ELSE @ + 1,
               !.population = Wrap(@ - out + in)]

\* Mutant of Full: the table is rebuilt when it is full, not before.
FullLate(t) == t.items = NoItems \/ t.occupancy > t.mask

Full(t) == t.occupancy + t.occupancy \div 2 >= t.mask

RECURSIVE Resized(_), SetWithHash(_, _, _), Reinserted(_, _, _)

\* resize: a new table for twice the population, into which what is real goes
\* again, slot by slot.  Reinserting may resize once more, and fail.
Resized(t) ==
  IF ~t.ok \/ t.mallocs = 0 THEN [t EXCEPT !.ok = FALSE]
  ELSE LET power == Power(t.population)
           fresh == Empty(2^power, PrimeFor(power))
           new   == [n \in DOMAIN t |-> CASE n = "mallocs" -> t.mallocs - 1
                                          [] n = "ok" -> TRUE
                                          [] OTHER -> fresh[n]]
       IN IF t.items = NoItems THEN new ELSE Reinserted(new, t.items, t.mask)

\* Mutant of Reinserted: the loop over the old slots starts at the second.
ReinsertedShort(t, old, last) ==
  IF last = 0 THEN t
  ELSE LET before == Reinserted(t, old, last - 1)
       IN IF IsReal(old[last]) THEN SetWithHash(before, old[last].key, old[last].value) ELSE before

Reinserted(t, old, last) ==
  LET before == IF last = 0 THEN t ELSE Reinserted(t, old, last - 1)
  IN IF IsReal(old[last]) THEN SetWithHash(before, old[last].key, old[last].value) ELSE before

\* set_with_hash.  resize reports success once its own allocation succeeded,
\* whatever became of the reinsertions.
SetWithHash(t, k, v) ==
  IF ~t.ok THEN t
  ELSE LET failed == Full(t) /\ t.mallocs = 0
           room == IF Full(t) THEN Resized(t) ELSE t
           i    == BucketForHash(room, k)
       IN IF failed THEN room
          ELSE IF v = None /\ room.items[i].key # k THEN room
          ELSE Stored(room, i, k, v)

-----------------------------------------------------------------------------
(* Operations.                                                              *)

Init == map = [items |-> NoItems, mask |-> 0, prime |-> 0, population |-> 0,
               occupancy |-> 0, ok |-> TRUE]

\* How many allocations the call may be granted, if it makes any.
Grants == IF Full(map) THEN 0 .. MaxMallocs ELSE {0}

Granted(mallocs) == [n \in DOMAIN map \cup {"mallocs"} |-> IF n = "mallocs" THEN mallocs ELSE map[n]]

Left(t) == [n \in DOMAIN t \ {"mallocs"} |-> t[n]]

\* population taken as a signed number, for the bounds of the model.
Signed(p) == IF p >= 2^(Width - 1) THEN p - 2^Width ELSE p

Bounded == Signed(map.population) \in MinPopulation .. MaxPopulation

Set(k, v) ==
  /\ Bounded
  /\ \E n \in Grants : map' = Left(SetWithHash(Granted(n), k, v))

\* del: a set of the value None.
Del(k) ==
  /\ Bounded
  /\ \E n \in Grants : map' = Left(SetWithHash(Granted(n), k, None))

Cleared == [map EXCEPT !.items = IF @ = NoItems THEN @ ELSE [i \in DOMAIN @ |-> Unused],
                       !.population = 0, !.occupancy = 0]

Clear == map' = Cleared

Reset == map' = [Cleared EXCEPT !.ok = TRUE]

Next ==
  \/ \E k \in Keys : Del(k) \/ \E v \in Values : Set(k, v)
  \/ Clear \/ Reset

Spec == Init /\ [][Next]_map

-----------------------------------------------------------------------------
(* Properties.                                                              *)

Slots == IF map.items = NoItems THEN {} ELSE DOMAIN map.items

\* A content has one slot, tombstones included, and a search finds it through
\* the tombstones and collisions on the way: a key that was deleted and set again
\* leaves no second entry behind, nor one out of reach (hb-map.hh:255, 263).
OneSlotPerContent ==
  \A i \in Slots :
    map.items[i].key # None => /\ BucketForHash(map, map.items[i].key) = i
                               /\ Lookup(map, map.items[i].key) = map.items[i].value

\* A search ends: there is always an unused slot, even right after a rebuild
\* that ran out of memory half way (hb-map.hh:255), as long as population has not
\* wrapped below zero.
SearchEnds == map.items # NoItems => \E i \in Slots : map.items[i].key = None

Entries == {[key |-> map.items[i].key, value |-> map.items[i].value] :
              i \in {j \in Slots : IsReal(map.items[j])}}

Abstract == INSTANCE MapSpec WITH
  entries <- Entries, ok <- map.ok, counted <- map.population >= Cardinality(Entries)

\* The table with its probing, tombstones and rebuilds is a map.  A set that
\* finds no memory changes nothing of it, unless the rebuild had been planned for
\* too few entries (hb-map.hh:137, 223).
ImplementsMap == Abstract!Spec
=============================================================================
