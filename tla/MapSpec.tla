------------------------------ MODULE MapSpec ------------------------------
(***************************************************************************)
(* What hb_hashmap_t promises: a finite map from the contents of keys to   *)
(* the key and the value last set.  Keys are addresses; two may have equal *)
(* contents.  Deleting takes the very key that was set, as set_with_hash   *)
(* compares addresses there (hb-map.hh:226).  Once memory ran out the map  *)
(* keeps what it still has and takes no more.                              *)
(***************************************************************************)
CONSTANTS Keys, Values, ContentOf

VARIABLES entries,  \* set of [key, value], no two of equal contents
          ok,       \* allocations successful
          counted   \* the map counts at least as many entries as it has

mapVars == <<entries, ok>>

\* The entries es, of which k now has value v.
With(es, k, v) == {e \in es : ContentOf[e.key] # ContentOf[k]} \cup {[key |-> k, value |-> v]}

Init == entries = {} /\ ok = TRUE

Set(k, v) == ok /\ entries' = With(entries, k, v) /\ UNCHANGED ok

Del(k) ==
  /\ ok
  /\ \E e \in entries : e.key = k /\ entries' = entries \ {e}
  /\ UNCHANGED ok

\* Memory ran out under a set: it is dropped, and the map answers as before.
Fail == ok /\ ok' = FALSE /\ UNCHANGED entries

\* Memory ran out half way through a rebuild, which was planned for fewer entries
\* than there are: some are lost.  The set or the deletion that asked for the
\* rebuild is made all the same (hb-map.hh:223).
FailHalfway ==
  /\ ok /\ ok' = FALSE /\ ~counted
  /\ \E left \in SUBSET entries : \/ entries' = left
                                  \/ \E k \in Keys, v \in Values : entries' = With(left, k, v)

Clear == entries' = {} /\ UNCHANGED ok

Reset == entries' = {} /\ ok' = TRUE

Next ==
  \/ \E k \in Keys : Del(k) \/ \E v \in Values : Set(k, v)
  \/ Fail \/ FailHalfway \/ Clear \/ Reset

Spec == Init /\ [][Next]_mapVars
=============================================================================
