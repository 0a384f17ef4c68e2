------------------------------ MODULE HBObject ------------------------------
(***************************************************************************)
(* The header every HarfBuzz object starts with (hb-object.hh): a          *)
(* reference count and an array of user data, each item with a callback    *)
(* that destroys it.  Threads share one object.  The array is created by   *)
(* whichever thread needs it first, is protected by a lock of its own, and *)
(* the callbacks run in the thread that replaces or removes an item, or    *)
(* drops the last reference.  A callback is code of the client: it may     *)
(* call the object again.                                                  *)
(***************************************************************************)
EXTENDS Integers, Sequences, FiniteSets, SequencesExt

CONSTANTS
  Thread,     \* the threads that share the object
  Key,        \* the keys of user data (hb_user_data_key_t)
  Data,       \* the data passed to set_user_data, each with its callback
  None,       \* a null pointer, or nobody
  MaxRefs,    \* bound: references one thread holds
  MaxDepth    \* bound: calls nested in callbacks, the outermost included

ASSUME HBObjectAssumption ==
  /\ None \notin Thread \cup Key \cup Data
  /\ MaxRefs \in Nat \ {0} /\ MaxDepth \in Nat \ {0}
  /\ IsFiniteSet(Thread)            \* their references are counted

VARIABLES
  count,   \* header.ref_count
  refs,    \* how many of the references each thread owns
  array,   \* header.user_data: None, or the thread that allocated the array
  spare,   \* arrays allocated and not installed
  items,   \* the array's items
  room,    \* FALSE once the vector failed to grow (allocated = -1)
  lock,    \* the owner of the array's lock
  stack,   \* the calls each thread is in, the innermost last
  fate,    \* what became of each datum
  runs,    \* how often its callback ran
  freed    \* the object's memory was given back

vars == <<count, refs, array, spare, items, room, lock, stack, fate, runs, freed>>

Poison == -1                            \* HB_REFERENCE_COUNT_POISON_VALUE
Item == [key : Key, data : Data]
Frame(op, key, data, replace) ==
  [op |-> op, at |-> "array", key |-> key, data |-> data, replace |-> replace, old |-> None]

Top(t) == Last(stack[t])
In(t, at) == stack[t] # <<>> /\ Top(t).at = at
GoTo(t, at) == stack' = [stack EXCEPT ![t][Len(stack[t])].at = at]
Return(t) == stack' = [stack EXCEPT ![t] = Front(@)]

Find(key) == SelectInSeq(items, LAMBDA item : item.key = key)

Init ==
  /\ count = Cardinality(Thread) /\ refs = [t \in Thread |-> 1]
  /\ array = None /\ spare = {} /\ items = <<>> /\ room = TRUE
  /\ lock = None /\ freed = FALSE
  /\ stack = [t \in Thread |-> <<>>]
  /\ fate = [d \in Data |-> "fresh"] /\ runs = [d \in Data |-> 0]

-----------------------------------------------------------------------------
(* A thread calls the object when it owns a reference, from its own code   *)
(* or once from a callback that runs in it.                                *)
MayCall(t) ==
  /\ refs[t] > 0
  /\ stack[t] # <<>> => In(t, "callback") /\ Len(stack[t]) < MaxDepth

Called(t, frame) ==
  stack' = [stack EXCEPT ![t] =
    IF @ = <<>> THEN <<frame>>
    ELSE Append([@ EXCEPT ![Len(@)].at = "called"], frame)]

\* hb_object_set_user_data, with data to set
CallSet(t) ==
  /\ MayCall(t)
  /\ \E key \in Key, data \in Data, replace \in BOOLEAN :
       /\ fate[data] = "fresh"
       /\ Called(t, Frame("set", key, data, replace))
       /\ fate' = [fate EXCEPT ![data] = "given"]
  /\ UNCHANGED <<count, refs, array, spare, items, room, lock, runs, freed>>

\* hb_object_set_user_data with neither data nor callback, and
\* hb_object_get_user_data
CallOther(t) ==
  /\ MayCall(t)
  /\ \E op \in {"remove", "get"}, key \in Key :
       Called(t, Frame(op, key, None, TRUE))
  /\ UNCHANGED <<count, refs, array, spare, items, room, lock, fate, runs, freed>>

ReferenceUncounted(t) ==                \* mutant: the count is not raised
  /\ MayCall(t) /\ refs[t] < MaxRefs
  /\ refs' = [refs EXCEPT ![t] = @ + 1]
  /\ UNCHANGED <<count, array, spare, items, room, lock, stack, fate, runs, freed>>

\* hb_object_reference
Reference(t) ==
  /\ MayCall(t) /\ refs[t] < MaxRefs
  /\ count' = count + 1
  /\ refs' = [refs EXCEPT ![t] = @ + 1]
  /\ UNCHANGED <<array, spare, items, room, lock, stack, fate, runs, freed>>

\* hb_object_destroy: the thread that drops the last reference poisons the
\* count before it finishes the user data
Destroy(t) ==
  /\ MayCall(t)
  /\ refs' = [refs EXCEPT ![t] = @ - 1]
  /\ IF count # 1
     THEN count' = count - 1 /\ UNCHANGED stack
     ELSE /\ count' = Poison
          /\ Called(t, [Frame("destroy", None, None, FALSE) EXCEPT !.at = "drain"])
  /\ UNCHANGED <<array, spare, items, room, lock, fate, runs, freed>>

-----------------------------------------------------------------------------
\* The array is there, or a call to get ends, or the thread allocates one
ReadArray(t) ==
  /\ In(t, "array")
  /\ \/ /\ array # None
        /\ GoTo(t, "lock")
        /\ UNCHANGED <<spare, fate>>
     \/ /\ array = None /\ Top(t).op = "get"
        /\ Return(t)
        /\ UNCHANGED <<spare, fate>>
     \/ /\ array = None /\ Top(t).op # "get"
        /\ GoTo(t, "install")
        /\ spare' = spare \cup {t}
        /\ UNCHANGED fate
     \/ /\ array = None /\ Top(t).op # "get"      \* calloc failed
        /\ Return(t)
        /\ fate' = IF Top(t).op = "set" THEN [fate EXCEPT ![Top(t).data] = "refused"]
                   ELSE fate
        /\ UNCHANGED spare
  /\ UNCHANGED <<count, refs, array, items, room, lock, runs, freed>>

InstallAgain(t) ==                      \* mutant: the loser does not read again
  /\ In(t, "install")
  /\ spare' = spare \ {t}
  /\ IF array = None THEN array' = t /\ GoTo(t, "lock")
                     ELSE UNCHANGED <<array, stack>>
  /\ UNCHANGED <<count, refs, items, room, lock, fate, runs, freed>>

\* The compare and exchange of header.user_data; the loser frees its array
\* and reads again
Install(t) ==
  /\ In(t, "install")
  /\ spare' = spare \ {t}
  /\ IF array = None THEN array' = t /\ GoTo(t, "lock")
                     ELSE UNCHANGED array /\ GoTo(t, "array")
  /\ UNCHANGED <<count, refs, items, room, lock, fate, runs, freed>>

Lock(t) ==
  /\ In(t, "lock") /\ lock = None
  /\ lock' = t
  /\ GoTo(t, "locked")
  /\ UNCHANGED <<count, refs, array, spare, items, room, fate, runs, freed>>

-----------------------------------------------------------------------------
(* Under the lock.  Each operation unlocks; the item it took out goes with *)
(* the call, and its callback runs after the unlock.                       *)
TakeOut(t, old) ==
  stack' = [stack EXCEPT ![t][Len(stack[t])] = [@ EXCEPT !.at = "fini", !.old = old]]

\* hb_lockable_set_t::replace_or_insert
ReplaceOrInsert(t) ==
  /\ In(t, "locked") /\ Top(t).op = "set"
  /\ LET data == Top(t).data
         i == Find(Top(t).key)
         item == [key |-> Top(t).key, data |-> data]
     IN \/ /\ i # 0 /\ Top(t).replace
           /\ items' = [items EXCEPT ![i] = item]
           /\ TakeOut(t, items[i].data)
           /\ fate' = [fate EXCEPT ![data] = "kept"]
           /\ UNCHANGED room
        \/ /\ i # 0 /\ ~Top(t).replace
           /\ Return(t)
           /\ fate' = [fate EXCEPT ![data] = "refused"]
           /\ UNCHANGED <<items, room>>
        \/ /\ i = 0 /\ room
           /\ items' = Append(items, item)
           /\ Return(t)
           /\ fate' = [fate EXCEPT ![data] = "kept"]
           /\ UNCHANGED room
        \/ /\ i = 0                   \* push failed and returned the Crap item
           /\ room' = FALSE
           /\ Return(t)
           /\ fate' = [fate EXCEPT ![data] = "lost"]
           /\ UNCHANGED items
  /\ lock' = None
  /\ UNCHANGED <<count, refs, array, spare, runs, freed>>

RemoveItemUnmoved(t) ==                 \* mutant: the last item is not moved
  /\ In(t, "locked") /\ Top(t).op = "remove"
  /\ LET i == Find(Top(t).key)
     IN IF i = 0 THEN Return(t) /\ UNCHANGED items
        ELSE items' = Front(items) /\ TakeOut(t, items[i].data)
  /\ lock' = None
  /\ UNCHANGED <<count, refs, array, spare, room, fate, runs, freed>>

\* hb_lockable_set_t::remove: the last item takes the place of the removed one
RemoveItem(t) ==
  /\ In(t, "locked") /\ Top(t).op = "remove"
  /\ LET i == Find(Top(t).key)
     IN IF i = 0 THEN Return(t) /\ UNCHANGED items
        ELSE /\ items' = Front([items EXCEPT ![i] = Last(items)])
             /\ TakeOut(t, items[i].data)
  /\ lock' = None
  /\ UNCHANGED <<count, refs, array, spare, room, fate, runs, freed>>

\* hb_lockable_set_t::find
Get(t) ==
  /\ In(t, "locked") /\ Top(t).op = "get"
  /\ Return(t)
  /\ lock' = None
  /\ UNCHANGED <<count, refs, array, spare, items, room, fate, runs, freed>>

\* hb_lockable_set_t::fini looks at the length before it locks
Drain(t) ==
  /\ In(t, "drain")
  /\ GoTo(t, IF items = <<>> THEN "free" ELSE "lock")
  /\ UNCHANGED <<count, refs, array, spare, items, room, lock, fate, runs, freed>>

PopLastLocked(t) ==                     \* mutant: the lock is kept for the callback
  /\ In(t, "locked") /\ Top(t).op = "destroy"
  /\ IF items = <<>> THEN GoTo(t, "free") /\ lock' = None /\ UNCHANGED items
     ELSE items' = Front(items) /\ TakeOut(t, Last(items).data) /\ UNCHANGED lock
  /\ UNCHANGED <<count, refs, array, spare, room, fate, runs, freed>>

\* ... and takes the items out one by one, its lock released for each callback
PopLast(t) ==
  /\ In(t, "locked") /\ Top(t).op = "destroy"
  /\ IF items = <<>> THEN GoTo(t, "free") /\ UNCHANGED items
     ELSE items' = Front(items) /\ TakeOut(t, Last(items).data)
  /\ lock' = None
  /\ UNCHANGED <<count, refs, array, spare, room, fate, runs, freed>>

-----------------------------------------------------------------------------
\* hb_user_data_item_t::fini enters the callback
Fini(t) ==
  /\ In(t, "fini")
  /\ LET old == Top(t).old
     IN /\ runs' = [runs EXCEPT ![old] = @ + 1]
        /\ fate' = [fate EXCEPT ![old] = "done"]
        /\ stack' = [stack EXCEPT ![t][Len(stack[t])] =
                       [@ EXCEPT !.at = "callback", !.old = None]]
  /\ UNCHANGED <<count, refs, array, spare, items, room, lock, freed>>

\* The callback returns; fini locks again, the other operations are done
CallbackReturns(t) ==
  /\ In(t, "callback") \/ In(t, "called")
  /\ IF Top(t).op = "destroy" THEN GoTo(t, "lock") ELSE Return(t)
  /\ UNCHANGED <<count, refs, array, spare, items, room, lock, fate, runs, freed>>

\* The array goes, then the object
Free(t) ==
  /\ In(t, "free")
  /\ array' = None /\ items' = <<>> /\ freed' = TRUE
  /\ Return(t)
  /\ UNCHANGED <<count, refs, spare, room, lock, fate, runs>>

\* Steps of a call, which the thread cannot put off, and calls, which it may
Step(t) ==
  \/ ReadArray(t) \/ Install(t) \/ Lock(t) \/ ReplaceOrInsert(t) \/ RemoveItem(t) \/ Get(t)
  \/ Drain(t) \/ PopLast(t) \/ Fini(t) \/ CallbackReturns(t) \/ Free(t)
Call(t) == CallSet(t) \/ CallOther(t) \/ Reference(t) \/ Destroy(t)

\* Everything was given back and nobody is in a call
AllDone == freed /\ (\A t \in Thread : stack[t] = <<>>) /\ UNCHANGED vars

Next == (\E t \in Thread : Step(t) \/ Call(t)) \/ AllDone
Spec == Init /\ [][Next]_vars

\* A thread in a call is scheduled; a free lock is not withheld from one
\* waiting thread for ever (hb_mutex_t is the platform's mutex)
FairSpec == Spec /\ \A t \in Thread : WF_vars(Step(t)) /\ SF_vars(Lock(t))
-----------------------------------------------------------------------------
Ops == {"set", "remove", "get", "destroy"}
Places == {"array", "install", "lock", "locked", "drain", "fini", "callback", "called", "free"}
FrameType == [op : Ops, at : Places, key : Key \cup {None}, data : Data \cup {None},
              replace : BOOLEAN, old : Data \cup {None}]

TypeOK ==
  /\ count \in Nat \cup {Poison} /\ refs \in [Thread -> 0..MaxRefs]
  /\ array \in Thread \cup {None} /\ spare \subseteq Thread
  /\ items \in Seq(Item) /\ room \in BOOLEAN /\ lock \in Thread \cup {None}
  /\ stack \in [Thread -> Seq(FrameType)]
  /\ fate \in [Data -> {"fresh", "given", "kept", "refused", "lost", "done"}]
  /\ runs \in [Data -> Nat] /\ freed \in BOOLEAN

Frames(t) == ToSet(stack[t])

\* The item of a datum that was taken in is in the array, or in the hands of
\* the one call that took it out, until its callback has run, once.  A datum
\* that was not taken in stays the caller's: its callback does not run.  So
\* no callback is skipped or run twice, whichever threads replace, remove and
\* destroy (hb-object.hh, hb_lockable_set_t).
DataOwned ==
  \A d \in Data :
    LET held == Cardinality({i \in DOMAIN items : items[i].data = d})
                + Cardinality({t \in Thread : \E f \in Frames(t) : f.old = d})
    IN /\ held = (IF fate[d] = "kept" THEN 1 ELSE 0)
       /\ runs[d] = (IF fate[d] = "done" THEN 1 ELSE 0)

\* A call that still reads the object or its array finds them alive, although
\* other threads, and the callbacks the call itself runs, drop references; and
\* no array is lost to the race to install one: each is installed, or about to
\* be, or went with the object (hb_object_destroy, hb_object_fini and the retry
\* of hb_object_set_user_data).
ObjectAlive ==
  /\ \A t \in Thread : \A f \in Frames(t) :
       f.at \in {"array", "install", "lock", "locked", "drain"} =>
         /\ ~freed
         /\ f.at \in {"lock", "locked"} => array # None
  /\ \A t \in spare : \E f \in Frames(t) : f.at = "install"
  /\ freed => array = None /\ spare = {} /\ items = <<>>

\* A thread holds the array's lock inside one locked region and never where a
\* callback runs, so a callback may call the object again without waiting for
\* itself (the unlock before old.fini () in hb_lockable_set_t).
CallbacksUnlocked == \A t \in Thread : lock = t <=> In(t, "locked")

\* A call ends: the retry, the wait for the lock and the drain of the array do
\* not go on for ever, even when callbacks call the object again.
EveryCallReturns == \A t \in Thread : stack[t] # <<>> ~> stack[t] = <<>>
=============================================================================
