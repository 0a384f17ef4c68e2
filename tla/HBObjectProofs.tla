--------------------------- MODULE HBObjectProofs ---------------------------
(***************************************************************************)
(* Proofs about HBObject, for any number of threads, keys and data and any *)
(* depth of nested callbacks.  Only the innermost call of a thread moves;  *)
(* the others wait for the callback they are in, and keep nothing that can *)
(* be freed.  Whoever is at a place that reads the object owns a reference *)
(* or is the one thread that dropped the last, so references are counted   *)
(* in the invariant, and so is the one holder of each datum.               *)
(***************************************************************************)
EXTENDS HBObject, FiniteSetTheorems, SequenceTheorems, WellFoundedInduction, TLAPS

\* The calls that wait for a callback: none destroys the object, since nobody
\* has a reference to call it with once it is being destroyed.
Below(t) ==
  \A i \in 1 .. Len(stack[t]) - 1 :
    stack[t][i].at = "called" /\ stack[t][i].old = None /\ stack[t][i].op # "destroy"

Using(t) == \E at \in {"array", "install", "lock", "locked"} : In(t, at)
Ending(t) == stack[t] # <<>> /\ Top(t).op = "destroy"
Setting(t) == Using(t) /\ Top(t).op = "set"

\* What the innermost call is about fits the place it is at.
TopFits(t) ==
  stack[t] # <<>> =>
    /\ Top(t).at \in {"drain", "free"} => Top(t).op = "destroy"
    /\ Top(t).at \in {"array", "install", "called"} => Top(t).op # "destroy"
    /\ Top(t).at = "fini" <=> Top(t).old # None
    /\ Top(t).op = "set" /\ Top(t).at # "called" => Top(t).key \in Key /\ Top(t).data \in Data
    /\ Top(t).at \in {"lock", "locked"} => array # None

StackInv == \A t \in Thread : Below(t) /\ TopFits(t)

\* The references, one by one.
Held == {p \in Thread \X (1 .. MaxRefs) : p[2] <= refs[p[1]]}

RefInv ==
  /\ count = Poison => \A t \in Thread : refs[t] = 0
  /\ count # Poison => count = Cardinality(Held)
  /\ \A t \in Thread : Using(t) /\ ~Ending(t) => refs[t] > 0

EndInv ==
  /\ \A t \in Thread : Ending(t) =>
       /\ count = Poison /\ ~freed
       /\ Top(t).at \in {"fini", "callback"} => array # None
       /\ Top(t).at = "free" => items = <<>>
  /\ \A t, u \in Thread : Ending(t) /\ Ending(u) => t = u
  /\ freed => count = Poison /\ array = None /\ items = <<>>
  /\ items # <<>> => array # None
  /\ \A t \in spare : In(t, "install")

\* Each datum has at most one holder: an item, or the call that took it out.
DataInv ==
  /\ \A i, j \in DOMAIN items : items[i].data = items[j].data => i = j
  /\ \A t, u \in Thread : In(t, "fini") /\ In(u, "fini") /\ Top(t).old = Top(u).old => t = u
  /\ \A t \in Thread : In(t, "fini") => \A i \in DOMAIN items : items[i].data # Top(t).old
  /\ \A d \in Data :
       /\ fate[d] = "kept" <=> \/ \E i \in DOMAIN items : items[i].data = d
                               \/ \E t \in Thread : In(t, "fini") /\ Top(t).old = d
       /\ runs[d] = (IF fate[d] = "done" THEN 1 ELSE 0)
  /\ \A t \in Thread : Setting(t) => fate[Top(t).data] = "given"
  /\ \A t, u \in Thread : Setting(t) /\ Setting(u) /\ Top(t).data = Top(u).data => t = u

ObjectInv ==
  /\ TypeOK /\ StackInv /\ RefInv /\ EndInv /\ CallbacksUnlocked /\ DataInv
-----------------------------------------------------------------------------
(* What the moves of a thread do to its stack.                              *)

Stacks == [Thread -> Seq(FrameType)]

\* The other threads' stacks and the waiting calls stay as they are.
LEMMA TopReplaced ==
  ASSUME stack \in Stacks, NEW t \in Thread, stack[t] # <<>>, Below(t), NEW f \in FrameType,
         stack' = [stack EXCEPT ![t][Len(stack[t])] = f]
  PROVE  /\ stack' \in Stacks /\ \A u \in Thread \ {t} : stack'[u] = stack[u]
         /\ stack'[t] # <<>> /\ Below(t)' /\ Top(t)' = f
<1>1. stack[t] \in Seq(FrameType) /\ Len(stack[t]) \in Nat /\ Len(stack[t]) > 0
  BY DEF Stacks
<1>2. stack'[t] = [stack[t] EXCEPT ![Len(stack[t])] = f]
  BY DEF Stacks
<1>3. stack'[t] \in Seq(FrameType) /\ Len(stack'[t]) = Len(stack[t])
  BY <1>1, <1>2
<1>4. \A u \in Thread \ {t} : stack'[u] = stack[u]
  BY DEF Stacks
<1>5. stack' \in Stacks
  BY <1>3, <1>4 DEF Stacks
<1>6. stack'[t][Len(stack[t])] = f
  BY <1>1, <1>2
<1>7. Below(t)'
  BY <1>1, <1>2, <1>3 DEF Below
<1> QED BY <1>1, <1>3, <1>4, <1>5, <1>6, <1>7 DEF Top, Last

LEMMA TopPushed ==
  ASSUME stack \in Stacks, NEW t \in Thread, Below(t), NEW f \in FrameType, Called(t, f),
         stack[t] # <<>> => Top(t).old = None /\ Top(t).op # "destroy"
  PROVE  /\ stack' \in Stacks /\ \A u \in Thread \ {t} : stack'[u] = stack[u]
         /\ stack'[t] # <<>> /\ Below(t)' /\ Top(t)' = f
<1>1. stack[t] \in Seq(FrameType) /\ Len(stack[t]) \in Nat
  BY DEF Stacks
<1>2. \A u \in Thread \ {t} : stack'[u] = stack[u]
  BY DEF Stacks, Called
<1>3. CASE stack[t] = <<>>
  <2>1. stack'[t] = <<f>>
    BY <1>3 DEF Called, Stacks
  <2>2. stack'[t] \in Seq(FrameType) /\ Len(stack'[t]) = 1 /\ stack'[t][1] = f
    BY <2>1
  <2>3. stack' \in Stacks
    BY <1>2, <2>2 DEF Stacks, Called
  <2> QED BY <1>2, <2>2, <2>3 DEF Below, Top, Last
<1>4. CASE stack[t] # <<>>
  <2> DEFINE n == Len(stack[t])
             g == [stack[t] EXCEPT ![n].at = "called"]
  <2>1. n \in Nat /\ n > 0 /\ stack[t][n] \in FrameType
    BY <1>1, <1>4
  <2>2. g \in Seq(FrameType) /\ Len(g) = n
    <3>1. [stack[t][n] EXCEPT !.at = "called"] \in FrameType
      BY <2>1 DEF FrameType, Places
    <3> QED BY <1>1, <2>1, <3>1
  <2>3. stack'[t] = Append(g, f)
    BY <1>4 DEF Called, Stacks
  <2>4. stack'[t] \in Seq(FrameType) /\ Len(stack'[t]) = n + 1 /\ stack'[t][n + 1] = f
    BY <2>1, <2>2, <2>3
  <2>5. \A i \in 1 .. n : stack'[t][i] = g[i]
    BY <2>1, <2>2, <2>3
  <2>6. g[n] = [stack[t][n] EXCEPT !.at = "called"] /\ \A i \in 1 .. n - 1 : g[i] = stack[t][i]
    BY <1>1, <2>1
  <2>7. stack[t][n].old = None /\ stack[t][n].op # "destroy"
    BY <1>4 DEF Top, Last
  <2>8. g[n].at = "called" /\ g[n].old = None /\ g[n].op # "destroy"
    BY <2>1, <2>6, <2>7 DEF FrameType
  <2> HIDE DEF g
  <2>9. \A i \in 1 .. n : g[i].at = "called" /\ g[i].old = None /\ g[i].op # "destroy"
    <3>1. \A i \in 1 .. n - 1 : g[i] = stack[t][i]
      BY <2>6
    <3>2. \A i \in 1 .. n : i = n \/ i \in 1 .. n - 1
      BY <2>1
    <3>3. \A i \in 1 .. n - 1 : g[i].at = "called" /\ g[i].old = None /\ g[i].op # "destroy"
      BY <3>1 DEF Below
    <3> QED BY <2>8, <3>2, <3>3
  <2>10. stack' \in Stacks
    BY <1>2, <2>4 DEF Stacks, Called
  <2> QED BY <1>2, <2>1, <2>4, <2>5, <2>9, <2>10 DEF Below, Top, Last
<1> QED BY <1>3, <1>4

LEMMA TopPopped ==
  ASSUME stack \in Stacks, NEW t \in Thread, stack[t] # <<>>, Below(t), Return(t)
  PROVE  /\ stack' \in Stacks /\ \A u \in Thread \ {t} : stack'[u] = stack[u]
         /\ Below(t)'
         /\ stack'[t] # <<>> =>
              /\ Top(t)' \in FrameType /\ (Top(t).at)' = "called"
              /\ (Top(t).old)' = None /\ (Top(t).op)' # "destroy"
<1> DEFINE n == Len(stack[t])
<1>1. stack[t] \in Seq(FrameType) /\ n \in Nat /\ n > 0
  BY DEF Stacks
<1>2. \A u \in Thread \ {t} : stack'[u] = stack[u]
  BY DEF Stacks, Return
<1>3. stack'[t] = SubSeq(stack[t], 1, n - 1)
  BY DEF Return, Front, Stacks
<1>4. stack'[t] \in Seq(FrameType) /\ Len(stack'[t]) = n - 1
  BY <1>1, <1>3
<1>5. \A i \in 1 .. n - 1 : stack'[t][i] = stack[t][i]
  BY <1>1, <1>3
<1>6. stack' \in Stacks
  BY <1>2, <1>4 DEF Stacks, Return
<1>7. stack'[t] # <<>> => n - 1 \in 1 .. n - 1 /\ stack'[t][n - 1] \in FrameType
  BY <1>1, <1>4
<1>8. \A i \in 1 .. n - 1 :
        stack'[t][i].at = "called" /\ stack'[t][i].old = None /\ stack'[t][i].op # "destroy"
  BY <1>5 DEF Below
<1>9. Below(t)'
  <2>1. \A i \in 1 .. Len(stack'[t]) - 1 : i \in 1 .. n - 1
    BY <1>1, <1>4
  <2> QED BY <1>8, <2>1 DEF Below
<1>10. stack'[t] # <<>> => Top(t)' = stack'[t][n - 1]
  BY <1>4 DEF Top, Last
<1> QED BY <1>2, <1>5, <1>6, <1>7, <1>8, <1>9, <1>10

Others(t) == \A u \in Thread \ {t} : stack'[u] = stack[u]

\* The innermost call of t has gone to another place.
Moved(t, at) ==
  /\ stack' \in Stacks /\ Others(t) /\ stack'[t] # <<>> /\ Below(t)' /\ Top(t)' \in FrameType
  /\ (Top(t).at)' = at /\ (Top(t).op)' = Top(t).op
  /\ (Top(t).key)' = Top(t).key /\ (Top(t).data)' = Top(t).data

\* The innermost call of t, at a place none of the invariants speaks about, is
\* done.
Popped(t) ==
  /\ stack' \in Stacks /\ Others(t) /\ Below(t)'
  /\ stack'[t] # <<>> =>
       /\ Top(t)' \in FrameType /\ (Top(t).at)' = "called"
       /\ (Top(t).old)' = None /\ (Top(t).op)' # "destroy"

LEMMA TopIsFrame ==
  ASSUME TypeOK, NEW t \in Thread, stack[t] # <<>>
  PROVE  Top(t) \in FrameType
<1>1. stack[t] \in Seq(FrameType)
  BY DEF TypeOK
<1> QED BY <1>1 DEF Top, Last

LEMMA GoToMoves ==
  ASSUME TypeOK, NEW t \in Thread, stack[t] # <<>>, Below(t), NEW at \in Places, GoTo(t, at)
  PROVE  Moved(t, at) /\ (Top(t).old)' = Top(t).old
<1>1. PICK f \in FrameType : f = [Top(t) EXCEPT !.at = at]
  BY TopIsFrame DEF FrameType
<1>2. stack' = [stack EXCEPT ![t][Len(stack[t])] = f]
  BY <1>1 DEF GoTo, Top, Last
<1>3. stack \in Stacks
  BY DEF TypeOK, Stacks
<1>4. f.at = at /\ f.op = Top(t).op /\ f.key = Top(t).key /\ f.data = Top(t).data
      /\ f.old = Top(t).old
  BY <1>1, TopIsFrame DEF FrameType
<1>5. /\ stack' \in Stacks /\ \A u \in Thread \ {t} : stack'[u] = stack[u]
      /\ stack'[t] # <<>> /\ Below(t)' /\ Top(t)' = f
  BY <1>2, <1>3, TopReplaced
<1> QED BY <1>4, <1>5 DEF Moved, Others

LEMMA TakeOutMoves ==
  ASSUME TypeOK, NEW t \in Thread, stack[t] # <<>>, Below(t), NEW d \in Data, TakeOut(t, d)
  PROVE  Moved(t, "fini") /\ (Top(t).old)' = d
<1>1. PICK f \in FrameType : f = [Top(t) EXCEPT !.at = "fini", !.old = d]
  BY TopIsFrame DEF FrameType, Places
<1>2. stack' = [stack EXCEPT ![t][Len(stack[t])] = f]
  BY <1>1 DEF TakeOut, Top, Last
<1>3. stack \in Stacks
  BY DEF TypeOK, Stacks
<1>4. f.at = "fini" /\ f.op = Top(t).op /\ f.key = Top(t).key /\ f.data = Top(t).data /\ f.old = d
  BY <1>1, TopIsFrame DEF FrameType
<1>5. /\ stack' \in Stacks /\ \A u \in Thread \ {t} : stack'[u] = stack[u]
      /\ stack'[t] # <<>> /\ Below(t)' /\ Top(t)' = f
  BY <1>2, <1>3, TopReplaced
<1> QED BY <1>4, <1>5 DEF Moved, Others

LEMMA ReturnPops ==
  ASSUME TypeOK, NEW t \in Thread, stack[t] # <<>>, Below(t), Return(t)
  PROVE  Popped(t)
<1>1. stack \in Stacks
  BY DEF TypeOK, Stacks
<1> QED BY <1>1, TopPopped DEF Popped, Others

\* What holds of the threads that did not move holds still.
LEMMA OthersStay ==
  ASSUME NEW t \in Thread, Others(t), NEW u \in Thread \ {t}
  PROVE  /\ Top(u)' = Top(u) /\ stack'[u] = stack[u]
         /\ Below(u) => Below(u)'
         /\ \A at : In(u, at)' <=> In(u, at)
         /\ Using(u)' <=> Using(u)
         /\ Ending(u)' <=> Ending(u)
         /\ Setting(u)' <=> Setting(u)
<1>1. stack'[u] = stack[u]
  BY DEF Others
<1> QED BY <1>1 DEF Top, Last, Below, In, Using, Ending, Setting

LEMMA StackStep ==
  ASSUME StackInv, NEW t \in Thread, Others(t), Below(t)', TopFits(t)',
         \A u \in Thread \ {t} : In(u, "lock") \/ In(u, "locked") => array' # None
  PROVE  StackInv'
<1>1. ASSUME NEW u \in Thread \ {t} PROVE TopFits(u)'
  <2>1. TopFits(u) /\ stack'[u] = stack[u] /\ Top(u)' = Top(u)
    BY OthersStay DEF StackInv
  <2>2. Top(u).at \in {"lock", "locked"} /\ stack[u] # <<>> => array' # None
    BY DEF In
  <2> QED BY <2>1, <2>2 DEF TopFits
<1>2. ASSUME NEW u \in Thread \ {t} PROVE Below(u)'
  BY OthersStay DEF StackInv
<1> QED BY <1>1, <1>2 DEF StackInv

\* A step that moves no datum.
LEMMA DataStep ==
  ASSUME DataInv, NEW t \in Thread, Others(t), UNCHANGED <<items, fate, runs>>,
         ~In(t, "fini"), ~In(t, "fini")',
         Setting(t)' => Setting(t) /\ (Top(t).data)' = Top(t).data
  PROVE  DataInv'
<1>1. \A u \in Thread \ {t} :
        Top(u)' = Top(u) /\ (In(u, "fini")' <=> In(u, "fini")) /\ (Setting(u)' <=> Setting(u))
  BY OthersStay
<1> QED BY <1>1 DEF DataInv

\* A step that neither takes nor drops a reference.
LEMMA RefStep ==
  ASSUME RefInv, NEW t \in Thread, Others(t), UNCHANGED <<count, refs>>,
         Using(t)' /\ ~Ending(t)' => Using(t) /\ ~Ending(t)
  PROVE  RefInv'
<1>1. \A u \in Thread \ {t} : (Using(u)' <=> Using(u)) /\ (Ending(u)' <=> Ending(u))
  BY OthersStay
<1>2. Held' = Held
  BY DEF Held
<1> QED BY <1>1, <1>2 DEF RefInv

\* A step that does not begin or finish the object's destruction.
LEMMA EndStep ==
  ASSUME EndInv, spare \subseteq Thread, NEW t \in Thread, Others(t), freed' = freed,
         count = Poison => count' = Poison,
         Ending(t)' => /\ Ending(t)
                       /\ In(t, "fini")' \/ In(t, "callback")' => array' # None
                       /\ In(t, "free")' => items' = <<>>,
         array # None => array' # None,
         items = <<>> => items' = <<>> \/ \A u \in Thread : ~Ending(u),
         items' # <<>> => array' # None,
         freed => array' = None /\ items' = <<>>,
         \A u \in spare' : u \in spare \ {t} \/ (u = t /\ In(t, "install")')
  PROVE  EndInv'
<1>1. \A u \in Thread \ {t} :
        /\ Top(u)' = Top(u) /\ (Ending(u)' <=> Ending(u))
        /\ In(u, "install")' <=> In(u, "install")
  BY OthersStay
<1>2. ASSUME NEW u \in Thread, Ending(u)'
      PROVE  /\ count' = Poison /\ ~freed'
             /\ (Top(u).at)' \in {"fini", "callback"} => array' # None
             /\ (Top(u).at)' = "free" => items' = <<>>
  <2>1. CASE u = t
    BY <1>2, <2>1 DEF EndInv, Ending, In
  <2>2. CASE u # t
    BY <1>1, <1>2, <2>2 DEF EndInv
  <2> QED BY <2>1, <2>2
<1>3. \A u, v \in Thread : Ending(u)' /\ Ending(v)' => u = v
  <2>1. \A u \in Thread : Ending(u)' => Ending(u)
    BY <1>1
  <2> QED BY <2>1 DEF EndInv
<1>4. \A u \in spare' : In(u, "install")'
  <2>1. \A u \in spare : In(u, "install")
    BY DEF EndInv
  <2>2. \A u \in Thread \ {t} : In(u, "install") => In(u, "install")'
    BY <1>1
  <2>3. \A u \in spare : u # t => In(u, "install")'
    BY <2>1, <2>2
  <2>4. \A u \in spare' : (u \in spare /\ u # t) \/ (u = t /\ In(t, "install")')
    OBVIOUS
  <2>5. ASSUME NEW u \in spare' PROVE In(u, "install")'
    <3>1. CASE u \in spare /\ u # t
      BY <2>3, <3>1
    <3>2. CASE u = t /\ In(t, "install")'
      BY <3>2 DEF In, Top, Last
    <3> QED BY <2>4, <3>1, <3>2
  <2> QED BY <2>5
<1>5. freed' => count' = Poison /\ array' = None /\ items' = <<>>
  BY DEF EndInv
<1> QED BY <1>2, <1>3, <1>4, <1>5 DEF EndInv

\* While somebody owns a reference the object is not being destroyed.
LEMMA Referenced ==
  ASSUME ObjectInv, NEW t \in Thread, refs[t] > 0
  PROVE  count # Poison /\ ~freed /\ \A u \in Thread : ~Ending(u)
BY DEF ObjectInv, RefInv, EndInv, TypeOK

\* Where a thread may call the object, no call of its own uses it.
LEMMA MayCallTop ==
  ASSUME ObjectInv, NEW t \in Thread, MayCall(t)
  PROVE  /\ refs[t] > 0 /\ ~Using(t) /\ ~In(t, "fini") /\ ~Ending(t) /\ Below(t) /\ ~In(t, "locked")
         /\ stack[t] # <<>> => Top(t).old = None /\ Top(t).op # "destroy"
<1>1. refs[t] > 0 /\ (stack[t] # <<>> => In(t, "callback"))
  BY DEF MayCall
<1>2. ~Ending(t)
  BY <1>1, Referenced
<1>3. Below(t) /\ TopFits(t)
  BY DEF ObjectInv, StackInv
<1> QED BY <1>1, <1>2, <1>3 DEF TopFits, Using, In, Ending

LEMMA FramesTyped ==
  /\ \A key \in Key, data \in Data, replace \in BOOLEAN :
       Frame("set", key, data, replace) \in FrameType
  /\ \A op \in {"remove", "get"}, key \in Key : Frame(op, key, None, TRUE) \in FrameType
  /\ [Frame("destroy", None, None, FALSE) EXCEPT !.at = "drain"] \in FrameType
BY DEF Frame, FrameType, Ops, Places

LEMMA CallSetStep ==
  ASSUME ObjectInv, NEW t \in Thread, CallSet(t)
  PROVE  ObjectInv'
<1> USE DEF ObjectInv
<1>0. PICK key \in Key, data \in Data, replace \in BOOLEAN :
        /\ fate[data] = "fresh" /\ Called(t, Frame("set", key, data, replace))
        /\ fate' = [fate EXCEPT ![data] = "given"]
  BY DEF CallSet
<1>a. /\ refs[t] > 0 /\ ~Using(t) /\ ~In(t, "fini") /\ ~Ending(t) /\ Below(t) /\ ~In(t, "locked")
      /\ stack[t] # <<>> => Top(t).old = None /\ Top(t).op # "destroy"
  BY MayCallTop DEF CallSet
<1>b. UNCHANGED <<count, refs, array, spare, items, room, lock, runs, freed>>
  BY DEF CallSet
<1>1. PICK f \in FrameType : f = Frame("set", key, data, replace)
  BY FramesTyped
<1>2. f.op = "set" /\ f.at = "array" /\ f.key = key /\ f.data = data /\ f.old = None
  BY <1>1 DEF Frame
<1>3. /\ stack' \in Stacks /\ Others(t)
      /\ stack'[t] # <<>> /\ Below(t)' /\ Top(t)' = f
  BY <1>0, <1>1, <1>a, TopPushed DEF TypeOK, Stacks, Others
<1>4. TypeOK'
  BY <1>0, <1>b, <1>3 DEF TypeOK, Stacks
<1>5. StackInv'
  <2>1. TopFits(t)'
    BY <1>2, <1>3 DEF TopFits
  <2>2. \A u \in Thread \ {t} : In(u, "lock") \/ In(u, "locked") => array' # None
    BY <1>b DEF StackInv, TopFits, In
  <2> QED BY <1>3, <2>1, <2>2, StackStep
<1>6. RefInv'
  <2>1. \A u \in Thread \ {t} : (Using(u)' <=> Using(u)) /\ (Ending(u)' <=> Ending(u))
    BY <1>3, OthersStay
  <2>2. Held' = Held
    BY <1>b DEF Held
  <2> QED BY <1>a, <1>b, <2>1, <2>2 DEF RefInv
<1>7. EndInv'
  <2>1. ~Ending(t)'
    BY <1>2, <1>3 DEF Ending
  <2>2. t \notin spare
    BY <1>a DEF EndInv, Using
  <2> QED BY <1>3, <1>b, <2>1, <2>2, EndStep DEF EndInv, TypeOK
<1>8. CallbacksUnlocked'
  <2>1. \A u \in Thread \ {t} : In(u, "locked")' <=> In(u, "locked")
    BY <1>3, OthersStay
  <2>2. ~In(t, "locked")'
    BY <1>2, <1>3 DEF In
  <2> QED BY <1>a, <1>b, <2>1, <2>2 DEF CallbacksUnlocked
<1>9. DataInv'
  <2>1. \A u \in Thread \ {t} :
          Top(u)' = Top(u) /\ (In(u, "fini")' <=> In(u, "fini")) /\ (Setting(u)' <=> Setting(u))
    BY <1>3, OthersStay
  <2>2. ~In(t, "fini")' /\ (Top(t).data)' = data
    BY <1>2, <1>3 DEF In
  <2>3. \A u \in Thread \ {t} : Setting(u) => fate[Top(u).data] = "given" /\ Top(u).data # data
    BY <1>0 DEF DataInv
  <2>4. \A d \in Data : d # data => fate'[d] = fate[d]
    BY <1>0 DEF TypeOK
  <2>5. fate'[data] = "given"
    BY <1>0 DEF TypeOK
  <2>6. \A u \in Thread \ {t} : Setting(u) => Top(u).data \in Data
    BY DEF StackInv, TopFits, Setting, Using, In
  <2>7. \A d \in Data :
          /\ fate'[d] = "kept" <=> \/ \E i \in DOMAIN items : items[i].data = d
                                   \/ \E u \in Thread : In(u, "fini") /\ Top(u).old = d
          /\ runs[d] = (IF fate'[d] = "done" THEN 1 ELSE 0)
    BY <1>0, <2>4, <2>5 DEF DataInv
  <2> QED BY <1>a, <1>b, <2>1, <2>2, <2>3, <2>4, <2>5, <2>6, <2>7 DEF DataInv
<1> QED BY <1>4, <1>5, <1>6, <1>7, <1>8, <1>9

LEMMA LockSame ==
  ASSUME CallbacksUnlocked, NEW t \in Thread, Others(t), lock' = lock,
         ~In(t, "locked"), ~In(t, "locked")'
  PROVE  CallbacksUnlocked'
<1>1. \A u \in Thread \ {t} : In(u, "locked")' <=> In(u, "locked")
  BY OthersStay
<1> QED BY <1>1 DEF CallbacksUnlocked

LEMMA CallOtherStep ==
  ASSUME ObjectInv, NEW t \in Thread, CallOther(t)
  PROVE  ObjectInv'
<1> USE DEF ObjectInv
<1>0. PICK op \in {"remove", "get"}, key \in Key : Called(t, Frame(op, key, None, TRUE))
  BY DEF CallOther
<1>a. /\ refs[t] > 0 /\ ~Using(t) /\ ~In(t, "fini") /\ ~Ending(t) /\ Below(t) /\ ~In(t, "locked")
      /\ stack[t] # <<>> => Top(t).old = None /\ Top(t).op # "destroy"
  BY MayCallTop DEF CallOther
<1>b. UNCHANGED <<count, refs, array, spare, items, room, lock, fate, runs, freed>>
  BY DEF CallOther
<1>1. PICK f \in FrameType : f = Frame(op, key, None, TRUE)
  BY FramesTyped
<1>2. f.op \in {"remove", "get"} /\ f.at = "array" /\ f.old = None
  BY <1>1 DEF Frame
<1>3. /\ stack' \in Stacks /\ Others(t)
      /\ stack'[t] # <<>> /\ Below(t)' /\ Top(t)' = f
  BY <1>0, <1>1, <1>a, TopPushed DEF TypeOK, Stacks, Others
<1>4. TypeOK'
  BY <1>b, <1>3 DEF TypeOK, Stacks
<1>5. StackInv'
  <2>1. TopFits(t)'
    BY <1>2, <1>3 DEF TopFits
  <2>2. \A u \in Thread \ {t} : In(u, "lock") \/ In(u, "locked") => array' # None
    BY <1>b DEF StackInv, TopFits, In
  <2> QED BY <1>3, <2>1, <2>2, StackStep
<1>6. RefInv'
  <2>1. \A u \in Thread \ {t} : (Using(u)' <=> Using(u)) /\ (Ending(u)' <=> Ending(u))
    BY <1>3, OthersStay
  <2>2. Held' = Held
    BY <1>b DEF Held
  <2> QED BY <1>a, <1>b, <2>1, <2>2 DEF RefInv
<1>7. EndInv'
  <2>1. ~Ending(t)'
    BY <1>2, <1>3 DEF Ending
  <2>2. t \notin spare
    BY <1>a DEF EndInv, Using
  <2> QED BY <1>3, <1>b, <2>1, <2>2, EndStep DEF EndInv, TypeOK
<1>8. ~In(t, "locked")' /\ ~In(t, "fini")' /\ ~Setting(t)'
  BY <1>2, <1>3 DEF In, Setting
<1>9. CallbacksUnlocked'
  BY <1>a, <1>b, <1>3, <1>8, LockSame
<1>10. DataInv'
  BY <1>a, <1>b, <1>3, <1>8, DataStep
<1> QED BY <1>4, <1>5, <1>6, <1>7, <1>9, <1>10

-----------------------------------------------------------------------------
(* References.                                                              *)

LEMMA HeldFinite ==
  ASSUME TypeOK
  PROVE  IsFiniteSet(Held)
<1> DEFINE I == 1 .. MaxRefs
           P == Thread \X I
<1>1. IsFiniteSet(I)
  BY HBObjectAssumption, FS_Interval
<1>2. IsFiniteSet(Thread)
  BY HBObjectAssumption
<1>3. IsFiniteSet(P)
  <2> HIDE DEF I
  <2> QED BY <1>1, <1>2, FS_Product
<1>4. Held \in SUBSET P
  BY DEF Held
<1> QED BY <1>3, <1>4, FS_Subset

LEMMA ReferenceStep ==
  ASSUME ObjectInv, NEW t \in Thread, Reference(t)
  PROVE  ObjectInv'
<1> USE DEF ObjectInv
<1>a. refs[t] > 0 /\ refs[t] < MaxRefs /\ count' = count + 1 /\ refs' = [refs EXCEPT ![t] = @ + 1]
  BY DEF Reference, MayCall
<1>b. UNCHANGED <<array, spare, items, room, lock, stack, fate, runs, freed>>
  BY DEF Reference
<1>c. count # Poison
  BY <1>a, Referenced
<1>1. TypeOK'
  BY <1>a, <1>b, <1>c, HBObjectAssumption DEF TypeOK, Poison
<1>2. StackInv'
  BY <1>b DEF StackInv, Below, TopFits, Top, Last
<1>3. RefInv'
  <2>0. refs[t] + 1 \in 1 .. MaxRefs
    BY <1>a, HBObjectAssumption DEF TypeOK
  <2>1. PICK x \in Thread \X (1 .. MaxRefs) : x = <<t, refs[t] + 1>>
    BY <2>0
  <2>2. Held' = Held \cup {x} /\ x \notin Held
    BY <1>a, <2>1 DEF Held, TypeOK
  <2>3. Cardinality(Held') = Cardinality(Held) + 1
    <3> DEFINE S == Held
    <3>1. IsFiniteSet(S) /\ x \notin S
      BY <2>2, HeldFinite
    <3> HIDE DEF S
    <3>2. Cardinality(S \cup {x}) = Cardinality(S) + 1
      BY <3>1, FS_AddElement
    <3> QED BY <2>2, <3>2 DEF S
  <2>4. count' = Cardinality(Held')
    BY <1>a, <1>c, <2>3 DEF RefInv
  <2>5. \A u \in Thread : Using(u)' <=> Using(u)
    BY <1>b DEF Using, In, Top, Last
  <2>6. \A u \in Thread : Ending(u)' <=> Ending(u)
    BY <1>b DEF Ending, Top, Last
  <2>7. \A u \in Thread : refs[u] > 0 => refs'[u] > 0
    BY <1>a DEF TypeOK
  <2>8. count' # Poison
    BY <1>a, <1>c DEF TypeOK, Poison
  <2> QED BY <2>4, <2>5, <2>6, <2>7, <2>8 DEF RefInv
<1>4. EndInv'
  <2>1. \A u \in Thread : ~Ending(u)
    BY <1>a, Referenced
  <2>2. ~freed
    BY <1>a, Referenced
  <2> QED BY <1>b, <2>1, <2>2 DEF EndInv, Ending, In, Top, Last
<1>5. CallbacksUnlocked'
  BY <1>b DEF CallbacksUnlocked, In, Top, Last
<1>6. DataInv'
  BY <1>b DEF DataInv, Setting, Using, In, Top, Last
<1> QED BY <1>1, <1>2, <1>3, <1>4, <1>5, <1>6

\* The thread that finds the count at one owns the only reference.
LEMMA LastReference ==
  ASSUME ObjectInv, NEW t \in Thread, refs[t] > 0, count = 1
  PROVE  refs[t] = 1 /\ \A u \in Thread \ {t} : refs[u] = 0
<1> USE DEF ObjectInv
<1>1. Cardinality(Held) = 1 /\ IsFiniteSet(Held)
  BY HeldFinite DEF RefInv, Poison
<1>2. PICK x : Held = {x}
  <2> DEFINE S == Held
  <2>1. Cardinality(S) = 1 /\ IsFiniteSet(S)
    BY <1>1
  <2> HIDE DEF S
  <2>2. \E x : S = {x}
    BY <2>1, FS_Singleton
  <2> QED BY <2>2 DEF S
<1>3. ASSUME NEW u \in Thread, NEW i \in 1 .. MaxRefs, i <= refs[u] PROVE u = t /\ i = 1
  <2>1. <<u, i>> \in Held /\ <<t, 1>> \in Held
    BY <1>3, HBObjectAssumption DEF Held, TypeOK
  <2>2. <<u, i>> = <<t, 1>>
    BY <1>2, <2>1
  <2> QED BY <2>2
<1>4. refs[t] = 1
  BY <1>3 DEF TypeOK
<1>5. ASSUME NEW u \in Thread \ {t}, refs[u] # 0 PROVE FALSE
  BY <1>3, <1>5, HBObjectAssumption DEF TypeOK
<1> QED BY <1>4, <1>5

LEMMA DestroyStep ==
  ASSUME ObjectInv, NEW t \in Thread, Destroy(t)
  PROVE  ObjectInv'
<1> USE DEF ObjectInv
<1>0. refs' = [refs EXCEPT ![t] = @ - 1]
  BY DEF Destroy
<1>a. /\ refs[t] > 0 /\ ~Using(t) /\ ~In(t, "fini") /\ ~Ending(t) /\ Below(t) /\ ~In(t, "locked")
      /\ stack[t] # <<>> => Top(t).old = None /\ Top(t).op # "destroy"
  BY MayCallTop DEF Destroy
<1>b. UNCHANGED <<array, spare, items, room, lock, fate, runs, freed>>
  BY DEF Destroy
<1>c. count # Poison /\ ~freed /\ \A u \in Thread : ~Ending(u)
  BY <1>a, Referenced
<1>d. refs' \in [Thread -> 0 .. MaxRefs]
  BY <1>0, <1>a, HBObjectAssumption DEF TypeOK
<1>e. Cardinality(Held') = Cardinality(Held) - 1 /\ Cardinality(Held) > 0
  <2>0. refs[t] \in 1 .. MaxRefs
    BY <1>a DEF TypeOK
  <2>1. PICK x \in Thread \X (1 .. MaxRefs) : x = <<t, refs[t]>>
    BY <2>0
  <2>2. Held' = Held \ {x} /\ x \in Held
    BY <1>0, <2>1 DEF Held, TypeOK
  <2> DEFINE S == Held
  <2>3. IsFiniteSet(S) /\ x \in S
    BY <2>2, HeldFinite
  <2> HIDE DEF S
  <2>4. Cardinality(S \ {x}) = Cardinality(S) - 1 /\ Cardinality(S) \in Nat
        /\ Cardinality(S \ {x}) \in Nat
    BY <2>3, FS_RemoveElement, FS_CardinalityType
  <2> QED BY <2>2, <2>4 DEF S
<1>1. CASE count # 1
  <2>1. count' = count - 1 /\ stack' = stack
    BY <1>1 DEF Destroy
  <2>2. count' = Cardinality(Held') /\ count' \in Nat /\ count' # Poison
    BY <1>c, <1>e, <2>1 DEF RefInv, TypeOK, Poison
  <2>3. TypeOK'
    BY <1>b, <1>d, <2>1, <2>2 DEF TypeOK
  <2>4. StackInv'
    BY <1>b, <2>1 DEF StackInv, Below, TopFits, Top, Last
  <2>5. RefInv'
    <3>1. \A u \in Thread : (Using(u)' <=> Using(u)) /\ (Ending(u)' <=> Ending(u))
      BY <2>1 DEF Using, In, Top, Last, Ending
    <3>2. \A u \in Thread \ {t} : refs'[u] = refs[u]
      BY <1>0 DEF TypeOK
    <3> QED BY <1>a, <2>2, <3>1, <3>2 DEF RefInv
  <2>6. EndInv'
    BY <1>b, <1>c, <2>1 DEF EndInv, Ending, In, Top, Last
  <2>7. CallbacksUnlocked'
    BY <1>b, <2>1 DEF CallbacksUnlocked, In, Top, Last
  <2>8. DataInv'
    BY <1>b, <2>1 DEF DataInv, Setting, Using, In, Top, Last
  <2> QED BY <2>3, <2>4, <2>5, <2>6, <2>7, <2>8
<1>2. CASE count = 1
  <2>0. count' = Poison /\ Called(t, [Frame("destroy", None, None, FALSE) EXCEPT !.at = "drain"])
    BY <1>2 DEF Destroy
  <2>1. PICK f \in FrameType : f = [Frame("destroy", None, None, FALSE) EXCEPT !.at = "drain"]
    BY FramesTyped
  <2>2. f.op = "destroy" /\ f.at = "drain" /\ f.old = None
    BY <2>1 DEF Frame
  <2>3. /\ stack' \in Stacks /\ Others(t)
        /\ stack'[t] # <<>> /\ Below(t)' /\ Top(t)' = f
    BY <1>a, <2>0, <2>1, TopPushed DEF TypeOK, Stacks, Others
  <2>4. \A u \in Thread : refs'[u] = 0
    <3>1. refs[t] = 1 /\ \A u \in Thread \ {t} : refs[u] = 0
      BY <1>2, <1>a, LastReference
    <3> QED BY <1>0, <3>1 DEF TypeOK
  <2>5. \A u \in Thread \ {t} :
          /\ Using(u)' <=> Using(u)
          /\ Ending(u)' <=> Ending(u)
    BY <2>3, OthersStay
  <2>6. TypeOK'
    BY <1>b, <1>d, <2>0, <2>3 DEF TypeOK, Stacks
  <2>7. StackInv'
    <3>1. TopFits(t)'
      BY <2>2, <2>3 DEF TopFits
    <3>2. \A u \in Thread \ {t} : In(u, "lock") \/ In(u, "locked") => array' # None
      BY <1>b DEF StackInv, TopFits, In
    <3> QED BY <2>3, <3>1, <3>2, StackStep
  <2>8. RefInv'
    <3>1. \A u \in Thread \ {t} : ~Using(u)
      <4>1. \A u \in Thread \ {t} : refs[u] = 0
        BY <1>2, <1>a, LastReference
      <4> QED BY <1>c, <4>1 DEF RefInv
    <3>2. Ending(t)'
      BY <2>2, <2>3 DEF Ending
    <3> QED BY <2>0, <2>4, <2>5, <3>1, <3>2 DEF RefInv
  <2>9. EndInv'
    <3>1. \A u \in Thread \ {t} : ~Ending(u)'
      BY <1>c, <2>5
    <3>2. (Top(t).at)' = "drain"
      BY <2>2, <2>3
    <3>3. \A u \in spare' : In(u, "install")'
      <4>1. \A u \in spare : u # t /\ In(u, "install")
        BY <1>a DEF EndInv, Using
      <4>2. \A u \in Thread \ {t} : In(u, "install")' <=> In(u, "install")
        BY <2>3, OthersStay
      <4> QED BY <1>b, <4>1, <4>2 DEF TypeOK
    <3> QED BY <1>b, <1>c, <2>0, <3>1, <3>2, <3>3 DEF EndInv
  <2>10. ~In(t, "locked")' /\ ~In(t, "fini")' /\ ~Setting(t)'
    BY <2>2, <2>3 DEF In, Setting
  <2>11. CallbacksUnlocked'
    BY <1>a, <1>b, <2>3, <2>10, LockSame
  <2>12. DataInv'
    BY <1>a, <1>b, <2>3, <2>10, DataStep
  <2> QED BY <2>6, <2>7, <2>8, <2>9, <2>11, <2>12
<1> QED BY <1>1, <1>2

-----------------------------------------------------------------------------
(* The steps of a call.                                                     *)

LEMMA PoppedFacts ==
  ASSUME NEW t \in Thread, Popped(t)
  PROVE  /\ Others(t) /\ Below(t)' /\ TopFits(t)' /\ stack' \in Stacks
         /\ ~Using(t)' /\ ~Ending(t)' /\ ~Setting(t)'
         /\ \A at \in Places \ {"called"} : ~In(t, at)'
BY DEF Popped, TopFits, Using, Ending, Setting, In, Places

LEMMA MovedFacts ==
  ASSUME NEW t \in Thread, stack[t] # <<>>, NEW at \in Places, Moved(t, at)
  PROVE  /\ Others(t) /\ Below(t)' /\ stack' \in Stacks
         /\ \A a : In(t, a)' <=> a = at
         /\ Using(t)' <=> at \in {"array", "install", "lock", "locked"}
         /\ Ending(t)' <=> Ending(t)
         /\ Setting(t)' <=> at \in {"array", "install", "lock", "locked"} /\ Top(t).op = "set"
BY DEF Moved, Using, Ending, Setting, In

\* At a place of a call, the facts of the invariant about its thread.
LEMMA AtPlace ==
  ASSUME ObjectInv, NEW t \in Thread, NEW at \in Places, In(t, at)
  PROVE  /\ stack[t] # <<>> /\ Below(t) /\ TopFits(t) /\ Top(t) \in FrameType /\ Top(t).at = at
         /\ \A a : In(t, a) <=> a = at
         /\ Using(t) <=> at \in {"array", "install", "lock", "locked"}
         /\ Setting(t) <=> at \in {"array", "install", "lock", "locked"} /\ Top(t).op = "set"
         /\ Ending(t) <=> Top(t).op = "destroy"
<1>1. stack[t] # <<>> /\ Top(t).at = at
  BY DEF In
<1>2. Top(t) \in FrameType /\ Below(t) /\ TopFits(t)
  BY <1>1, TopIsFrame DEF ObjectInv, StackInv
<1> QED BY <1>1, <1>2 DEF Using, Setting, Ending, In

\* A call that sets a datum gives it back: it was in nobody's hands yet.
LEMMA DataRefused ==
  ASSUME ObjectInv, NEW t \in Thread, Others(t), UNCHANGED <<items, runs>>,
         Setting(t), ~In(t, "fini"), ~Setting(t)', ~In(t, "fini")',
         NEW result \in {"refused", "lost"}, fate' = [fate EXCEPT ![Top(t).data] = result]
  PROVE  DataInv'
<1> USE DEF ObjectInv
<1>1. Top(t).data \in Data /\ fate[Top(t).data] = "given"
  BY DEF StackInv, TopFits, Setting, Using, In, DataInv
<1>2. \A u \in Thread \ {t} :
        /\ Top(u)' = Top(u) /\ (In(u, "fini")' <=> In(u, "fini")) /\ (Setting(u)' <=> Setting(u))
  BY OthersStay
<1>3. \A u \in Thread \ {t} : Setting(u) => Top(u).data # Top(t).data /\ Top(u).data \in Data
  BY DEF DataInv, StackInv, TopFits, Setting, Using, In
<1>4. \A d \in Data : fate'[d] = IF d = Top(t).data THEN result ELSE fate[d]
  BY DEF TypeOK
<1>5. \A d \in Data :
        /\ fate'[d] = "kept" <=> fate[d] = "kept"
        /\ fate'[d] = "done" <=> fate[d] = "done"
  BY <1>1, <1>4
<1> QED BY <1>2, <1>3, <1>4, <1>5 DEF DataInv

LEMMA ReadArrayStep ==
  ASSUME ObjectInv, NEW t \in Thread, ReadArray(t)
  PROVE  ObjectInv'
<1> USE DEF ObjectInv
<1>0. In(t, "array") /\ UNCHANGED <<count, refs, array, items, room, lock, runs, freed>>
  BY DEF ReadArray
<1>a. /\ stack[t] # <<>> /\ Below(t) /\ TopFits(t) /\ Top(t) \in FrameType /\ Top(t).at = "array"
      /\ \A a : In(t, a) <=> a = "array"
      /\ Using(t) /\ (Setting(t) <=> Top(t).op = "set") /\ ~Ending(t)
  BY <1>0, AtPlace DEF Places, TopFits
<1>b. t \notin spare /\ refs[t] > 0
  BY <1>a DEF EndInv, RefInv
<1>c. \A u \in Thread \ {t} : In(u, "lock") \/ In(u, "locked") => array' # None
  BY <1>0 DEF StackInv, TopFits, In
<1>1. ASSUME GoTo(t, "lock"), array # None, UNCHANGED <<spare, fate>> PROVE ObjectInv'
  <2>1. Moved(t, "lock") /\ (Top(t).old)' = Top(t).old
    BY <1>1, <1>a, GoToMoves DEF Places
  <2>2. /\ Others(t) /\ Below(t)' /\ stack' \in Stacks
        /\ \A a : In(t, a)' <=> a = "lock"
        /\ ~Ending(t)' /\ (Setting(t)' => Setting(t))
    BY <1>a, <2>1, MovedFacts DEF Places
  <2>3. TypeOK'
    BY <1>0, <1>1, <2>2 DEF TypeOK, Stacks
  <2>4. StackInv'
    <3>1. TopFits(t)'
      BY <1>0, <1>1, <1>a, <2>1 DEF Moved, TopFits
    <3> QED BY <1>c, <2>2, <3>1, StackStep
  <2>5. RefInv'
    BY <1>0, <1>a, <2>2, RefStep
  <2>6. EndInv'
    BY <1>0, <1>1, <1>b, <2>2, EndStep DEF EndInv, TypeOK
  <2>7. CallbacksUnlocked'
    BY <1>0, <1>a, <2>2, LockSame
  <2>8. DataInv'
    BY <1>0, <1>1, <1>a, <2>1, <2>2, DataStep DEF Moved
  <2> QED BY <2>3, <2>4, <2>5, <2>6, <2>7, <2>8
<1>2. ASSUME GoTo(t, "install"), spare' = spare \cup {t}, fate' = fate PROVE ObjectInv'
  <2>1. Moved(t, "install") /\ (Top(t).old)' = Top(t).old
    BY <1>2, <1>a, GoToMoves DEF Places
  <2>2. /\ Others(t) /\ Below(t)' /\ stack' \in Stacks
        /\ \A a : In(t, a)' <=> a = "install"
        /\ ~Ending(t)' /\ (Setting(t)' => Setting(t))
    BY <1>a, <2>1, MovedFacts DEF Places
  <2>3. TypeOK'
    BY <1>0, <1>2, <2>2 DEF TypeOK, Stacks
  <2>4. StackInv'
    <3>1. TopFits(t)'
      BY <1>0, <1>a, <2>1 DEF Moved, TopFits
    <3> QED BY <1>c, <2>2, <3>1, StackStep
  <2>5. RefInv'
    BY <1>0, <1>a, <2>2, RefStep
  <2>6. EndInv'
    BY <1>0, <1>2, <1>b, <2>2, EndStep DEF EndInv, TypeOK
  <2>7. CallbacksUnlocked'
    BY <1>0, <1>a, <2>2, LockSame
  <2>8. DataInv'
    BY <1>0, <1>2, <1>a, <2>1, <2>2, DataStep DEF Moved
  <2> QED BY <2>3, <2>4, <2>5, <2>6, <2>7, <2>8
<1>3. ASSUME Return(t), spare' = spare,
             fate' = IF Top(t).op = "set" THEN [fate EXCEPT ![Top(t).data] = "refused"] ELSE fate
      PROVE  ObjectInv'
  <2>1. Popped(t)
    BY <1>3, <1>a, ReturnPops
  <2>2. /\ Others(t) /\ Below(t)' /\ TopFits(t)' /\ stack' \in Stacks
        /\ ~Using(t)' /\ ~Ending(t)' /\ ~Setting(t)' /\ ~In(t, "locked")' /\ ~In(t, "fini")'
    BY <2>1, PoppedFacts DEF Places
  <2>a. fate' \in [Data -> {"fresh", "given", "kept", "refused", "lost", "done"}]
    BY <1>3 DEF TypeOK
  <2>3. TypeOK'
    BY <1>0, <1>3, <2>2, <2>a DEF TypeOK, Stacks
  <2>4. StackInv'
    BY <1>c, <2>2, StackStep
  <2>5. RefInv'
    BY <1>0, <1>a, <2>2, RefStep
  <2>6. EndInv'
    BY <1>0, <1>3, <1>b, <2>2, EndStep DEF EndInv, TypeOK
  <2>7. CallbacksUnlocked'
    BY <1>0, <1>a, <2>2, LockSame
  <2>8. DataInv'
    <3>1. CASE Top(t).op # "set"
      BY <1>0, <1>3, <1>a, <2>2, <3>1, DataStep
    <3>2. CASE Top(t).op = "set"
      BY <1>0, <1>3, <1>a, <2>2, <3>2, DataRefused
    <3> QED BY <3>1, <3>2
  <2> QED BY <2>3, <2>4, <2>5, <2>6, <2>7, <2>8
<1> QED BY <1>0, <1>1, <1>2, <1>3 DEF ReadArray

LEMMA InstallStep ==
  ASSUME ObjectInv, NEW t \in Thread, Install(t)
  PROVE  ObjectInv'
<1> USE DEF ObjectInv
<1>0. In(t, "install") /\ spare' = spare \ {t} /\ UNCHANGED <<count, refs, items, room, lock, fate, runs, freed>>
  BY DEF Install
<1>a. /\ stack[t] # <<>> /\ Below(t) /\ TopFits(t) /\ Top(t) \in FrameType /\ Top(t).at = "install"
      /\ \A a : In(t, a) <=> a = "install"
      /\ Using(t) /\ (Setting(t) <=> Top(t).op = "set") /\ ~Ending(t)
  BY <1>0, AtPlace DEF Places, TopFits
<1>b. refs[t] > 0 /\ ~freed /\ \A u \in Thread : ~Ending(u)
  <2>1. refs[t] > 0
    BY <1>a DEF RefInv
  <2> QED BY <2>1, Referenced
<1>1. ASSUME NEW at \in {"lock", "array"}, GoTo(t, at), array' \in Thread \cup {None},
             at = "lock" => array' # None, array # None => array' = array
      PROVE  ObjectInv'
  <2>1. Moved(t, at) /\ (Top(t).old)' = Top(t).old
    BY <1>1, <1>a, GoToMoves DEF Places
  <2>2. /\ Others(t) /\ Below(t)' /\ stack' \in Stacks
        /\ \A a : In(t, a)' <=> a = at
        /\ ~Ending(t)' /\ (Setting(t)' => Setting(t))
    BY <1>a, <2>1, MovedFacts DEF Places
  <2>3. TypeOK'
    BY <1>0, <1>1, <2>2 DEF TypeOK, Stacks
  <2>4. StackInv'
    <3>1. TopFits(t)'
      BY <1>1, <1>a, <2>1 DEF Moved, TopFits
    <3>2. \A u \in Thread \ {t} : In(u, "lock") \/ In(u, "locked") => array' # None
      BY <1>1 DEF StackInv, TopFits, In
    <3> QED BY <2>2, <3>1, <3>2, StackStep
  <2>5. RefInv'
    BY <1>0, <1>a, <2>2, RefStep
  <2>6. EndInv'
    BY <1>0, <1>1, <1>b, <2>2, EndStep DEF EndInv, TypeOK
  <2>7. CallbacksUnlocked'
    BY <1>0, <1>1, <1>a, <2>2, LockSame
  <2>8. DataInv'
    BY <1>0, <1>1, <1>a, <2>1, <2>2, DataStep DEF Moved
  <2> QED BY <2>3, <2>4, <2>5, <2>6, <2>7, <2>8
<1>2. CASE array = None /\ array' = t /\ GoTo(t, "lock")
  BY <1>1, <1>2, HBObjectAssumption
<1>3. CASE array' = array /\ GoTo(t, "array")
  BY <1>1, <1>3 DEF TypeOK
<1> QED BY <1>2, <1>3 DEF Install

LEMMA LockStep ==
  ASSUME ObjectInv, NEW t \in Thread, Lock(t)
  PROVE  ObjectInv'
<1> USE DEF ObjectInv
<1>0. /\ In(t, "lock") /\ lock = None /\ lock' = t /\ GoTo(t, "locked")
      /\ UNCHANGED <<count, refs, array, spare, items, room, fate, runs, freed>>
  BY DEF Lock
<1>a. /\ stack[t] # <<>> /\ Below(t) /\ TopFits(t) /\ Top(t) \in FrameType /\ Top(t).at = "lock"
      /\ \A a : In(t, a) <=> a = "lock"
      /\ Using(t) /\ (Setting(t) <=> Top(t).op = "set")
  BY <1>0, AtPlace DEF Places
<1>1. Moved(t, "locked") /\ (Top(t).old)' = Top(t).old
  BY <1>0, <1>a, GoToMoves DEF Places
<1>2. /\ Others(t) /\ Below(t)' /\ stack' \in Stacks
      /\ \A a : In(t, a)' <=> a = "locked"
      /\ (Ending(t)' <=> Ending(t)) /\ (Setting(t)' => Setting(t))
  BY <1>a, <1>1, MovedFacts DEF Places
<1>3. TypeOK'
  BY <1>0, <1>2 DEF TypeOK, Stacks
<1>4. StackInv'
  <2>1. TopFits(t)'
    BY <1>0, <1>a, <1>1 DEF Moved, TopFits
  <2>2. \A u \in Thread \ {t} : In(u, "lock") \/ In(u, "locked") => array' # None
    BY <1>0 DEF StackInv, TopFits, In
  <2> QED BY <1>2, <2>1, <2>2, StackStep
<1>5. RefInv'
  BY <1>0, <1>a, <1>2, RefStep
<1>6. EndInv'
  <2>1. \A u \in spare' : u \in spare \ {t}
    BY <1>0, <1>a DEF EndInv
  <2> QED BY <1>0, <1>2, <2>1, EndStep DEF EndInv, TypeOK
<1>7. CallbacksUnlocked'
  <2>1. \A u \in Thread \ {t} : In(u, "locked")' <=> In(u, "locked")
    BY <1>2, OthersStay
  <2> QED BY <1>0, <1>2, <2>1, HBObjectAssumption DEF CallbacksUnlocked
<1>8. DataInv'
  BY <1>0, <1>a, <1>1, <1>2, DataStep DEF Moved
<1> QED BY <1>3, <1>4, <1>5, <1>6, <1>7, <1>8

\* The lock is given back where it was held.
LEMMA LockGiven ==
  ASSUME CallbacksUnlocked, NEW t \in Thread, Others(t), lock' = None,
         In(t, "locked"), ~In(t, "locked")'
  PROVE  CallbacksUnlocked'
<1>1. \A u \in Thread \ {t} : In(u, "locked")' <=> In(u, "locked")
  BY OthersStay
<1> QED BY <1>1, HBObjectAssumption DEF CallbacksUnlocked

LEMMA GetStep ==
  ASSUME ObjectInv, NEW t \in Thread, Get(t)
  PROVE  ObjectInv'
<1> USE DEF ObjectInv
<1>0. /\ In(t, "locked") /\ Top(t).op = "get" /\ lock' = None /\ Return(t)
      /\ UNCHANGED <<count, refs, array, spare, items, room, fate, runs, freed>>
  BY DEF Get
<1>a. /\ stack[t] # <<>> /\ Below(t) /\ \A a : In(t, a) <=> a = "locked"
      /\ Using(t) /\ ~Ending(t)
  BY <1>0, AtPlace DEF Places
<1>1. Popped(t)
  BY <1>0, <1>a, ReturnPops
<1>2. /\ Others(t) /\ Below(t)' /\ TopFits(t)' /\ stack' \in Stacks
      /\ ~Using(t)' /\ ~Ending(t)' /\ ~Setting(t)' /\ ~In(t, "locked")' /\ ~In(t, "fini")'
  BY <1>1, PoppedFacts DEF Places
<1>3. TypeOK'
  BY <1>0, <1>2 DEF TypeOK, Stacks
<1>4. StackInv'
  <2>1. \A u \in Thread \ {t} : In(u, "lock") \/ In(u, "locked") => array' # None
    BY <1>0 DEF StackInv, TopFits, In
  <2> QED BY <1>2, <2>1, StackStep
<1>5. RefInv'
  BY <1>0, <1>a, <1>2, RefStep
<1>6. EndInv'
  <2>1. \A u \in spare' : u \in spare \ {t}
    BY <1>0, <1>a DEF EndInv
  <2> QED BY <1>0, <1>2, <2>1, EndStep DEF EndInv, TypeOK
<1>7. CallbacksUnlocked'
  BY <1>0, <1>2, LockGiven
<1>8. DataInv'
  BY <1>0, <1>a, <1>2, DataStep
<1> QED BY <1>3, <1>4, <1>5, <1>6, <1>7, <1>8

LEMMA DrainStep ==
  ASSUME ObjectInv, NEW t \in Thread, Drain(t)
  PROVE  ObjectInv'
<1> USE DEF ObjectInv
<1>0. /\ In(t, "drain")
      /\ UNCHANGED <<count, refs, array, spare, items, room, lock, fate, runs, freed>>
  BY DEF Drain
<1>a. /\ stack[t] # <<>> /\ Below(t) /\ TopFits(t) /\ Top(t) \in FrameType /\ Top(t).at = "drain"
      /\ \A a : In(t, a) <=> a = "drain"
      /\ Ending(t) /\ Top(t).op = "destroy"
  BY <1>0, AtPlace DEF Places, TopFits
<1>b. PICK at \in {"free", "lock"} : GoTo(t, at) /\ (at = "free" <=> items = <<>>)
  BY DEF Drain
<1>1. Moved(t, at) /\ (Top(t).old)' = Top(t).old
  BY <1>a, <1>b, GoToMoves DEF Places
<1>2. /\ Others(t) /\ Below(t)' /\ stack' \in Stacks
      /\ \A a : In(t, a)' <=> a = at
      /\ Ending(t)' /\ ~Setting(t)'
  BY <1>a, <1>1, MovedFacts DEF Places
<1>3. TypeOK'
  BY <1>0, <1>2 DEF TypeOK, Stacks
<1>4. StackInv'
  <2>1. at = "lock" => array' # None
    BY <1>0, <1>b DEF EndInv
  <2>2. TopFits(t)'
    BY <1>a, <1>1, <2>1 DEF Moved, TopFits
  <2>3. \A u \in Thread \ {t} : In(u, "lock") \/ In(u, "locked") => array' # None
    BY <1>0 DEF StackInv, TopFits, In
  <2> QED BY <1>2, <2>2, <2>3, StackStep
<1>5. RefInv'
  BY <1>0, <1>2, RefStep
<1>6. EndInv'
  <2>1. \A u \in spare' : u \in spare \ {t}
    BY <1>0, <1>a DEF EndInv
  <2> QED BY <1>0, <1>a, <1>b, <1>2, <2>1, EndStep DEF EndInv, TypeOK
<1>7. CallbacksUnlocked'
  BY <1>0, <1>a, <1>2, LockSame
<1>8. DataInv'
  BY <1>0, <1>a, <1>2, DataStep
<1> QED BY <1>3, <1>4, <1>5, <1>6, <1>7, <1>8

LEMMA CallbackReturnsStep ==
  ASSUME ObjectInv, NEW t \in Thread, CallbackReturns(t)
  PROVE  ObjectInv'
<1> USE DEF ObjectInv
<1>0. /\ In(t, "callback") \/ In(t, "called")
      /\ UNCHANGED <<count, refs, array, spare, items, room, lock, fate, runs, freed>>
  BY DEF CallbackReturns
<1>z. PICK was \in {"callback", "called"} : In(t, was)
  BY <1>0
<1>a. /\ stack[t] # <<>> /\ Below(t) /\ TopFits(t) /\ Top(t) \in FrameType /\ Top(t).at = was
      /\ \A a : In(t, a) <=> a = was
      /\ Ending(t) <=> Top(t).op = "destroy"
  BY <1>z, AtPlace DEF Places
<1>b. \A u \in spare' : u \in spare \ {t}
  BY <1>0, <1>a DEF EndInv
<1>c. \A u \in Thread \ {t} : In(u, "lock") \/ In(u, "locked") => array' # None
  BY <1>0 DEF StackInv, TopFits, In
<1>1. CASE Top(t).op = "destroy" /\ GoTo(t, "lock")
  <2>1. Moved(t, "lock") /\ (Top(t).old)' = Top(t).old
    BY <1>1, <1>a, GoToMoves DEF Places
  <2>2. /\ Others(t) /\ Below(t)' /\ stack' \in Stacks
        /\ \A a : In(t, a)' <=> a = "lock"
        /\ Ending(t)' /\ ~Setting(t)'
    BY <1>1, <1>a, <2>1, MovedFacts DEF Places
  <2>3. TypeOK'
    BY <1>0, <2>2 DEF TypeOK, Stacks
  <2>4. StackInv'
    <3>1. array' # None
      BY <1>0, <1>1, <1>a DEF EndInv, TopFits
    <3>2. TopFits(t)'
      BY <1>1, <1>a, <2>1, <3>1 DEF Moved, TopFits
    <3> QED BY <1>c, <2>2, <3>2, StackStep
  <2>5. RefInv'
    BY <1>0, <2>2, RefStep
  <2>6. EndInv'
    BY <1>0, <1>1, <1>a, <1>b, <2>2, EndStep DEF EndInv, TypeOK
  <2>7. CallbacksUnlocked'
    BY <1>0, <1>a, <2>2, LockSame
  <2>8. DataInv'
    BY <1>0, <1>a, <2>2, DataStep
  <2> QED BY <2>3, <2>4, <2>5, <2>6, <2>7, <2>8
<1>2. CASE Top(t).op # "destroy" /\ Return(t)
  <2>1. Popped(t)
    BY <1>2, <1>a, ReturnPops
  <2>2. /\ Others(t) /\ Below(t)' /\ TopFits(t)' /\ stack' \in Stacks
        /\ ~Using(t)' /\ ~Ending(t)' /\ ~Setting(t)' /\ ~In(t, "locked")' /\ ~In(t, "fini")'
    BY <2>1, PoppedFacts DEF Places
  <2>3. TypeOK'
    BY <1>0, <2>2 DEF TypeOK, Stacks
  <2>4. StackInv'
    BY <1>c, <2>2, StackStep
  <2>5. RefInv'
    BY <1>0, <2>2, RefStep
  <2>6. EndInv'
    BY <1>0, <1>b, <2>2, EndStep DEF EndInv, TypeOK
  <2>7. CallbacksUnlocked'
    BY <1>0, <1>a, <2>2, LockSame
  <2>8. DataInv'
    BY <1>0, <1>a, <2>2, DataStep
  <2> QED BY <2>3, <2>4, <2>5, <2>6, <2>7, <2>8
<1> QED BY <1>1, <1>2 DEF CallbackReturns

-----------------------------------------------------------------------------
(* The steps that move an item.                                             *)

LEMMA MinIn ==
  ASSUME NEW S, S \subseteq Nat, S # {}
  PROVE  Min(S) \in S
<1> DEFINE R == {p \in Nat \X Nat : p[1] < p[2]}
<1>1. IsWellFoundedOn(R, Nat)
  BY NatLessThanWellFounded DEF OpToRel
<1>2. \E x \in S : \A y \in S : <<y, x>> \notin R
  <2> HIDE DEF R
  <2> QED BY <1>1, WFMin
<1>3. \A x, y \in S : <<y, x>> \notin R => x =< y
  OBVIOUS
<1>4. \E x \in S : \A y \in S : x =< y
  BY <1>2, <1>3
<1> QED BY <1>4 DEF Min

LEMMA FindIn ==
  ASSUME items \in Seq(Item), NEW key, Find(key) # 0
  PROVE  Find(key) \in DOMAIN items
<1> DEFINE I == {i \in 1 .. Len(items) : items[i].key = key}
<1>1. Find(key) = IF I # {} THEN Min(I) ELSE 0
  BY DEF Find, SelectInSeq
<1>2. I # {} /\ I \subseteq Nat
  BY <1>1
<1>3. Min(I) \in I
  <2> HIDE DEF I
  <2> QED BY <1>2, MinIn
<1> QED BY <1>1, <1>2, <1>3

\* An item leaves the array with the call that took it out; the last item has
\* its place.
LEMMA DataTakenOut ==
  ASSUME ObjectInv, NEW t \in Thread, Others(t), UNCHANGED <<fate, runs>>,
         ~In(t, "fini"), In(t, "fini")', ~Setting(t)',
         NEW n \in Nat, n = Len(items), NEW i \in 1 .. n,
         items' \in Seq(Item), Len(items') = n - 1,
         \A j \in 1 .. n - 1 : items'[j] = IF j = i THEN items[n] ELSE items[j],
         (Top(t).old)' = items[i].data
  PROVE  DataInv'
<1> USE DEF ObjectInv
<1>1. \A u \in Thread \ {t} :
        Top(u)' = Top(u) /\ (In(u, "fini")' <=> In(u, "fini")) /\ (Setting(u)' <=> Setting(u))
  BY OthersStay
<1>2. DOMAIN items = 1 .. n /\ DOMAIN items' = 1 .. n - 1
  BY DEF TypeOK
<1>3. \A j, k \in 1 .. n : items[j].data = items[k].data => j = k
  BY <1>2 DEF DataInv
<1>4. \A j \in 1 .. n - 1 : \E k \in 1 .. n : k # i /\ items'[j] = items[k]
  <2>1. ASSUME NEW j \in 1 .. n - 1 PROVE \E k \in 1 .. n : k # i /\ items'[j] = items[k]
    <3>1. CASE j = i
      <4>1. n \in 1 .. n /\ n # i
        BY <3>1
      <4> QED BY <3>1, <4>1
    <3>2. CASE j # i
      BY <3>2
    <3> QED BY <3>1, <3>2
  <2> QED BY <2>1
<1>5. \A k \in 1 .. n : k # i => \E j \in 1 .. n - 1 : items'[j] = items[k]
  <2>1. ASSUME NEW k \in 1 .. n, k # i PROVE \E j \in 1 .. n - 1 : items'[j] = items[k]
    <3>1. CASE k = n
      <4>1. i \in 1 .. n - 1
        BY <2>1, <3>1
      <4> QED BY <3>1, <4>1
    <3>2. CASE k # n
      BY <2>1, <3>2
    <3> QED BY <3>1, <3>2
  <2> QED BY <2>1
<1>6. \A j, k \in 1 .. n - 1 : items'[j].data = items'[k].data => j = k
  BY <1>3
<1>7. \A j \in 1 .. n - 1 : items'[j].data # items[i].data
  BY <1>3, <1>4
<1>8. \A u \in Thread \ {t} : In(u, "fini") => \A k \in 1 .. n : items[k].data # Top(u).old
  BY <1>2 DEF DataInv
<1>9. \A u \in Thread \ {t} : In(u, "fini") => \A j \in 1 .. n - 1 : items'[j].data # Top(u).old
  BY <1>4, <1>8
<1>10. ASSUME NEW d \in Data
       PROVE  fate'[d] = "kept" <=> \/ \E j \in DOMAIN items' : items'[j].data = d
                                    \/ \E u \in Thread : In(u, "fini")' /\ (Top(u).old)' = d
  <2>1. (\E j \in 1 .. n - 1 : items'[j].data = d) \/ items[i].data = d
          <=> \E k \in 1 .. n : items[k].data = d
    <3>1. ASSUME NEW j \in 1 .. n - 1, items'[j].data = d PROVE \E k \in 1 .. n : items[k].data = d
      BY <1>4, <3>1
    <3>2. ASSUME NEW k \in 1 .. n, items[k].data = d, k # i
          PROVE  \E j \in 1 .. n - 1 : items'[j].data = d
      <4>1. PICK j \in 1 .. n - 1 : items'[j] = items[k]
        BY <1>5, <3>2
      <4> QED BY <3>2, <4>1
    <3> QED BY <3>1, <3>2
  <2>2. (\E u \in Thread : In(u, "fini")' /\ (Top(u).old)' = d)
          <=> (\E u \in Thread : In(u, "fini") /\ Top(u).old = d) \/ items[i].data = d
    BY <1>1
  <2>3. fate[d] = "kept" <=> \/ \E k \in 1 .. n : items[k].data = d
                             \/ \E u \in Thread : In(u, "fini") /\ Top(u).old = d
    BY <1>2 DEF DataInv
  <2> QED BY <1>2, <2>1, <2>2, <2>3
<1>11. \A u, v \in Thread : In(u, "fini")' /\ In(v, "fini")' /\ (Top(u).old)' = (Top(v).old)' => u = v
  BY <1>1, <1>8 DEF DataInv
<1>12. \A u \in Thread : In(u, "fini")' => \A j \in DOMAIN items' : items'[j].data # (Top(u).old)'
  BY <1>1, <1>2, <1>7, <1>9
<1>13. \A d \in Data : runs'[d] = (IF fate'[d] = "done" THEN 1 ELSE 0)
  BY DEF DataInv
<1>14. /\ \A u \in Thread : Setting(u)' => fate'[(Top(u).data)'] = "given"
       /\ \A u, v \in Thread : Setting(u)' /\ Setting(v)' /\ (Top(u).data)' = (Top(v).data)' => u = v
  BY <1>1 DEF DataInv
<1> QED BY <1>2, <1>6, <1>10, <1>11, <1>12, <1>13, <1>14 DEF DataInv

LEMMA FrontOf ==
  ASSUME NEW S, NEW s \in Seq(S), Len(s) > 0
  PROVE  /\ Front(s) \in Seq(S) /\ Len(Front(s)) = Len(s) - 1
         /\ \A j \in 1 .. Len(s) - 1 : Front(s)[j] = s[j]
<1> DEFINE n == Len(s)
<1>1. n \in Nat /\ n > 0 /\ n - 1 \in Int /\ Front(s) = SubSeq(s, 1, n - 1)
  BY DEF Front
<1>2. \A i \in 1 .. n - 1 : s[i] \in S
  OBVIOUS
<1>3. PICK m \in Int : m = n - 1
  BY <1>1
<1>4. /\ SubSeq(s, 1, m) \in Seq(S)
      /\ Len(SubSeq(s, 1, m)) = IF 1 <= m THEN m - 1 + 1 ELSE 0
      /\ \A i \in 1 .. m - 1 + 1 : SubSeq(s, 1, m)[i] = s[1 + i - 1]
  BY <1>2, <1>3, SubSeqProperties
<1>5. m - 1 + 1 = m /\ \A i \in 1 .. m : 1 + i - 1 = i
  BY <1>3
<1> HIDE DEF n
<1> QED BY <1>1, <1>3, <1>4, <1>5 DEF n

LEMMA ItemRemoved ==
  ASSUME items \in Seq(Item), NEW i \in DOMAIN items,
         items' = Front([items EXCEPT ![i] = Last(items)])
  PROVE  /\ items' \in Seq(Item) /\ Len(items) \in Nat /\ Len(items') = Len(items) - 1
         /\ \A j \in 1 .. Len(items) - 1 :
              items'[j] = IF j = i THEN items[Len(items)] ELSE items[j]
<1>1. Len(items) \in Nat /\ DOMAIN items = 1 .. Len(items) /\ Last(items) \in Item
      /\ Len(items) > 0
  BY DEF Last
<1>0. [items EXCEPT ![i] = Last(items)] \in Seq(Item) /\ Len([items EXCEPT ![i] = Last(items)]) = Len(items)
  BY <1>1
<1>2. PICK g \in Seq(Item) : g = [items EXCEPT ![i] = Last(items)]
  BY <1>0
<1>3. Len(g) = Len(items)
  BY <1>0, <1>2
<1>4. \A j \in 1 .. Len(items) : g[j] = IF j = i THEN items[Len(items)] ELSE items[j]
  BY <1>1, <1>2 DEF Last
<1>5. /\ Front(g) \in Seq(Item) /\ Len(Front(g)) = Len(g) - 1
      /\ \A j \in 1 .. Len(g) - 1 : Front(g)[j] = g[j]
  BY <1>1, <1>3, FrontOf
<1>6. \A j \in 1 .. Len(items) - 1 : j \in 1 .. Len(items)
  BY <1>1
<1> QED BY <1>1, <1>2, <1>3, <1>4, <1>5, <1>6

LEMMA LastRemoved ==
  ASSUME items \in Seq(Item), items # <<>>, items' = Front(items)
  PROVE  /\ items' \in Seq(Item) /\ Len(items) \in Nat /\ Len(items) > 0
         /\ Len(items') = Len(items) - 1 /\ Last(items) = items[Len(items)]
         /\ \A j \in 1 .. Len(items) - 1 : items'[j] = items[j]
<1>1. Len(items) \in Nat /\ Len(items) > 0
  OBVIOUS
<1> QED BY <1>1, FrontOf DEF Last

\* The call that took item i out of the array goes on to its callback.
LEMMA TakeOutStep ==
  ASSUME ObjectInv, NEW t \in Thread, In(t, "locked"), Top(t).op \in {"remove", "destroy"},
         NEW i \in DOMAIN items, TakeOut(t, items[i].data), lock' = None,
         items' \in Seq(Item), Len(items') = Len(items) - 1,
         \A j \in 1 .. Len(items) - 1 :
           items'[j] = IF j = i THEN items[Len(items)] ELSE items[j],
         UNCHANGED <<count, refs, array, spare, room, fate, runs, freed>>
  PROVE  ObjectInv'
<1> USE DEF ObjectInv
<1>a. /\ stack[t] # <<>> /\ Below(t) /\ TopFits(t) /\ Top(t) \in FrameType /\ Top(t).at = "locked"
      /\ \A a : In(t, a) <=> a = "locked"
      /\ Using(t) /\ (Ending(t) <=> Top(t).op = "destroy")
  BY AtPlace DEF Places
<1>b. items[i].data \in Data
  <2>1. items \in Seq(Item) /\ i \in 1 .. Len(items)
    BY DEF TypeOK
  <2>2. items[i] \in Item
    BY <2>1
  <2> QED BY <2>2 DEF Item
<1>1. Moved(t, "fini") /\ (Top(t).old)' = items[i].data
  BY <1>a, <1>b, TakeOutMoves
<1>2. /\ Others(t) /\ Below(t)' /\ stack' \in Stacks
      /\ \A a : In(t, a)' <=> a = "fini"
      /\ ~Using(t)' /\ (Ending(t)' <=> Ending(t)) /\ ~Setting(t)'
  BY <1>a, <1>1, MovedFacts DEF Places
<1>3. TypeOK'
  BY <1>2 DEF TypeOK, Stacks
<1>c. array # None
  BY <1>a DEF TopFits
<1>4. StackInv'
  <2>1. TopFits(t)'
    BY <1>a, <1>b, <1>1, HBObjectAssumption DEF Moved, TopFits
  <2>2. \A u \in Thread \ {t} : In(u, "lock") \/ In(u, "locked") => array' # None
    BY <1>c
  <2> QED BY <1>2, <2>1, <2>2, StackStep
<1>5. RefInv'
  BY <1>2, RefStep
<1>6. EndInv'
  <2>1. \A u \in spare' : u \in spare \ {t}
    BY <1>a DEF EndInv
  <2>2. items # <<>> /\ ~freed
    BY DEF EndInv
  <2>3. array' # None
    BY <1>c
  <2> QED BY <1>2, <2>1, <2>2, <2>3, EndStep DEF EndInv, TypeOK
<1>7. CallbacksUnlocked'
  BY <1>2, LockGiven
<1>8. DataInv'
  <2>1. PICK n \in Nat : n = Len(items) /\ DOMAIN items = 1 .. n
    BY DEF TypeOK
  <2> QED BY <1>a, <1>1, <1>2, <2>1, DataTakenOut
<1> QED BY <1>3, <1>4, <1>5, <1>6, <1>7, <1>8

LEMMA RemoveItemStep ==
  ASSUME ObjectInv, NEW t \in Thread, RemoveItem(t)
  PROVE  ObjectInv'
<1> USE DEF ObjectInv
<1>0. /\ In(t, "locked") /\ Top(t).op = "remove" /\ lock' = None
      /\ UNCHANGED <<count, refs, array, spare, room, fate, runs, freed>>
  BY DEF RemoveItem
<1>1. CASE Return(t) /\ items' = items
  <2>a. /\ stack[t] # <<>> /\ Below(t) /\ \A a : In(t, a) <=> a = "locked"
        /\ Using(t) /\ ~Ending(t)
    BY <1>0, AtPlace DEF Places
  <2>1. Popped(t)
    BY <1>1, <2>a, ReturnPops
  <2>2. /\ Others(t) /\ Below(t)' /\ TopFits(t)' /\ stack' \in Stacks
        /\ ~Using(t)' /\ ~Ending(t)' /\ ~Setting(t)' /\ ~In(t, "locked")' /\ ~In(t, "fini")'
    BY <2>1, PoppedFacts DEF Places
  <2>3. TypeOK'
    BY <1>0, <1>1, <2>2 DEF TypeOK, Stacks
  <2>4. StackInv'
    <3>1. \A u \in Thread \ {t} : In(u, "lock") \/ In(u, "locked") => array' # None
      BY <1>0 DEF StackInv, TopFits, In
    <3> QED BY <2>2, <3>1, StackStep
  <2>5. RefInv'
    BY <1>0, <2>a, <2>2, RefStep
  <2>6. EndInv'
    <3>1. \A u \in spare' : u \in spare \ {t}
      BY <1>0, <2>a DEF EndInv
    <3> QED BY <1>0, <1>1, <2>2, <3>1, EndStep DEF EndInv, TypeOK
  <2>7. CallbacksUnlocked'
    BY <1>0, <2>2, LockGiven
  <2>8. DataInv'
    BY <1>0, <1>1, <2>a, <2>2, DataStep
  <2> QED BY <2>3, <2>4, <2>5, <2>6, <2>7, <2>8
<1>2. ASSUME NEW i, i = Find(Top(t).key), i # 0,
             items' = Front([items EXCEPT ![i] = Last(items)]), TakeOut(t, items[i].data)
      PROVE  ObjectInv'
  <2>1. i \in DOMAIN items
    BY <1>2, FindIn DEF TypeOK
  <2>2. /\ items' \in Seq(Item) /\ Len(items') = Len(items) - 1
        /\ \A j \in 1 .. Len(items) - 1 :
             items'[j] = IF j = i THEN items[Len(items)] ELSE items[j]
    BY <1>2, <2>1, ItemRemoved DEF TypeOK
  <2> QED BY <1>0, <1>2, <2>1, <2>2, TakeOutStep
<1> QED BY <1>1, <1>2 DEF RemoveItem

LEMMA PopLastStep ==
  ASSUME ObjectInv, NEW t \in Thread, PopLast(t)
  PROVE  ObjectInv'
<1> USE DEF ObjectInv
<1>0. /\ In(t, "locked") /\ Top(t).op = "destroy" /\ lock' = None
      /\ UNCHANGED <<count, refs, array, spare, room, fate, runs, freed>>
  BY DEF PopLast
<1>1. CASE items = <<>> /\ GoTo(t, "free") /\ items' = items
  <2>a. /\ stack[t] # <<>> /\ Below(t) /\ TopFits(t) /\ Top(t) \in FrameType /\ Top(t).at = "locked"
        /\ \A a : In(t, a) <=> a = "locked"
        /\ Ending(t)
    BY <1>0, AtPlace DEF Places
  <2>1. Moved(t, "free") /\ (Top(t).old)' = Top(t).old
    BY <1>1, <2>a, GoToMoves DEF Places
  <2>2. /\ Others(t) /\ Below(t)' /\ stack' \in Stacks
        /\ \A a : In(t, a)' <=> a = "free"
        /\ Ending(t)' /\ ~Setting(t)'
    BY <1>0, <2>a, <2>1, MovedFacts DEF Places
  <2>3. TypeOK'
    BY <1>0, <1>1, <2>2 DEF TypeOK, Stacks
  <2>4. StackInv'
    <3>1. TopFits(t)'
      BY <1>0, <2>a, <2>1 DEF Moved, TopFits
    <3>2. \A u \in Thread \ {t} : In(u, "lock") \/ In(u, "locked") => array' # None
      BY <1>0 DEF StackInv, TopFits, In
    <3> QED BY <2>2, <3>1, <3>2, StackStep
  <2>5. RefInv'
    BY <1>0, <2>2, RefStep
  <2>6. EndInv'
    <3>1. \A u \in spare' : u \in spare \ {t}
      BY <1>0, <2>a DEF EndInv
    <3> QED BY <1>0, <1>1, <2>a, <2>2, <3>1, EndStep DEF EndInv, TypeOK
  <2>7. CallbacksUnlocked'
    BY <1>0, <2>2, LockGiven
  <2>8. DataInv'
    BY <1>0, <1>1, <2>a, <2>2, DataStep
  <2> QED BY <2>3, <2>4, <2>5, <2>6, <2>7, <2>8
<1>2. CASE items # <<>> /\ items' = Front(items) /\ TakeOut(t, Last(items).data)
  <2>1. /\ items' \in Seq(Item) /\ Len(items) \in Nat /\ Len(items) > 0
        /\ Len(items') = Len(items) - 1 /\ Last(items) = items[Len(items)]
        /\ \A j \in 1 .. Len(items) - 1 : items'[j] = items[j]
    BY <1>2, LastRemoved DEF TypeOK
  <2>2. PICK i \in DOMAIN items : i = Len(items)
    BY <2>1 DEF TypeOK
  <2>3. \A j \in 1 .. Len(items) - 1 :
          items'[j] = IF j = i THEN items[Len(items)] ELSE items[j]
    BY <2>1, <2>2
  <2> QED BY <1>0, <1>2, <2>1, <2>2, <2>3, TakeOutStep
<1> QED BY <1>1, <1>2 DEF PopLast

LEMMA FiniStep ==
  ASSUME ObjectInv, NEW t \in Thread, Fini(t)
  PROVE  ObjectInv'
<1> USE DEF ObjectInv
<1>0. /\ In(t, "fini") /\ UNCHANGED <<count, refs, array, spare, items, room, lock, freed>>
  BY DEF Fini
<1>a. /\ stack[t] # <<>> /\ Below(t) /\ TopFits(t) /\ Top(t) \in FrameType /\ Top(t).at = "fini"
      /\ \A a : In(t, a) <=> a = "fini"
  BY <1>0, AtPlace DEF Places
<1>b. PICK d \in Data : d = Top(t).old
  BY <1>a DEF TopFits, FrameType
<1>c. /\ runs' = [runs EXCEPT ![d] = @ + 1] /\ fate' = [fate EXCEPT ![d] = "done"]
      /\ stack' = [stack EXCEPT ![t][Len(stack[t])] = [@ EXCEPT !.at = "callback", !.old = None]]
  BY <1>b DEF Fini
<1>1. Moved(t, "callback") /\ (Top(t).old)' = None
  <2>1. PICK f \in FrameType : f = [Top(t) EXCEPT !.at = "callback", !.old = None]
    BY <1>a DEF FrameType, Places
  <2>2. stack' = [stack EXCEPT ![t][Len(stack[t])] = f]
    BY <1>c, <2>1 DEF Top, Last
  <2>3. stack \in Stacks
    BY DEF TypeOK, Stacks
  <2>4. f.at = "callback" /\ f.op = Top(t).op /\ f.key = Top(t).key /\ f.data = Top(t).data
        /\ f.old = None
    BY <1>a, <2>1 DEF FrameType
  <2>5. /\ stack' \in Stacks /\ \A u \in Thread \ {t} : stack'[u] = stack[u]
        /\ stack'[t] # <<>> /\ Below(t)' /\ Top(t)' = f
    BY <1>a, <2>2, <2>3, TopReplaced
  <2> QED BY <2>4, <2>5 DEF Moved, Others
<1>2. /\ Others(t) /\ Below(t)' /\ stack' \in Stacks
      /\ \A a : In(t, a)' <=> a = "callback"
      /\ ~Using(t)' /\ (Ending(t)' <=> Ending(t)) /\ ~Setting(t)'
  BY <1>a, <1>1, MovedFacts DEF Places
<1>3. TypeOK'
  <2>1. runs' \in [Data -> Nat]
    BY <1>c DEF TypeOK
  <2>2. fate' \in [Data -> {"fresh", "given", "kept", "refused", "lost", "done"}]
    BY <1>c DEF TypeOK
  <2> QED BY <1>0, <1>2, <2>1, <2>2 DEF TypeOK, Stacks
<1>4. StackInv'
  <2>1. TopFits(t)'
    BY <1>a, <1>1 DEF Moved, TopFits
  <2>2. \A u \in Thread \ {t} : In(u, "lock") \/ In(u, "locked") => array' # None
    BY <1>0 DEF StackInv, TopFits, In
  <2> QED BY <1>2, <2>1, <2>2, StackStep
<1>5. RefInv'
  BY <1>0, <1>2, RefStep
<1>6. EndInv'
  <2>1. \A u \in spare' : u \in spare \ {t}
    BY <1>0, <1>a DEF EndInv
  <2>2. Ending(t) => array # None
    BY <1>a DEF EndInv
  <2> QED BY <1>0, <1>2, <2>1, <2>2, EndStep DEF EndInv, TypeOK
<1>7. CallbacksUnlocked'
  BY <1>0, <1>a, <1>2, LockSame
<1>8. DataInv'
  <2>1. \A u \in Thread \ {t} :
          Top(u)' = Top(u) /\ (In(u, "fini")' <=> In(u, "fini")) /\ (Setting(u)' <=> Setting(u))
    BY <1>2, OthersStay
  <2>2. fate[d] = "kept" /\ runs[d] = 0
    BY <1>0, <1>b DEF DataInv
  <2>3. /\ \A e \in Data : fate'[e] = IF e = d THEN "done" ELSE fate[e]
        /\ \A e \in Data : runs'[e] = IF e = d THEN 1 ELSE runs[e]
    BY <1>c, <2>2 DEF TypeOK
  <2>4. \A u \in Thread \ {t} : In(u, "fini") => Top(u).old # d
    BY <1>0, <1>b DEF DataInv
  <2>5. \A i \in DOMAIN items : items[i].data # d
    BY <1>0, <1>b DEF DataInv
  <2>6. \A u \in Thread \ {t} : Setting(u) => Top(u).data \in Data /\ Top(u).data # d
    BY <2>2 DEF DataInv, StackInv, TopFits, Setting, Using, In
  <2>7. ~In(t, "fini")'
    BY <1>2
  <2>8. ASSUME NEW e \in Data
        PROVE  fate'[e] = "kept" <=> \/ \E i \in DOMAIN items' : items'[i].data = e
                                     \/ \E u \in Thread : In(u, "fini")' /\ (Top(u).old)' = e
    <3>1. CASE e = d
      BY <1>0, <2>1, <2>3, <2>4, <2>5, <2>7, <3>1
    <3>2. CASE e # d
      <4>1. Top(t).old # e
        BY <1>b, <3>2
      <4>2. (\E u \in Thread : In(u, "fini")' /\ (Top(u).old)' = e)
              <=> \E u \in Thread : In(u, "fini") /\ Top(u).old = e
        BY <2>1, <2>7, <4>1
      <4>3. fate[e] = "kept" <=> \/ \E i \in DOMAIN items : items[i].data = e
                                 \/ \E u \in Thread : In(u, "fini") /\ Top(u).old = e
        BY DEF DataInv
      <4> QED BY <1>0, <2>3, <3>2, <4>2, <4>3
    <3> QED BY <3>1, <3>2
  <2>9. \A e \in Data : runs'[e] = (IF fate'[e] = "done" THEN 1 ELSE 0)
    BY <2>3 DEF DataInv
  <2>10. /\ \A u \in Thread : Setting(u)' => fate'[(Top(u).data)'] = "given"
         /\ \A u, v \in Thread : Setting(u)' /\ Setting(v)' /\ (Top(u).data)' = (Top(v).data)' => u = v
    BY <1>2, <2>1, <2>3, <2>6 DEF DataInv
  <2>11. /\ \A u, v \in Thread : In(u, "fini")' /\ In(v, "fini")' /\ (Top(u).old)' = (Top(v).old)' => u = v
         /\ \A u \in Thread : In(u, "fini")' => \A i \in DOMAIN items : items[i].data # (Top(u).old)'
    BY <2>1, <2>7 DEF DataInv
  <2>12. \A i, j \in DOMAIN items : items[i].data = items[j].data => i = j
    BY DEF DataInv
  <2> QED BY <1>0, <2>8, <2>9, <2>10, <2>11, <2>12 DEF DataInv
<1> QED BY <1>3, <1>4, <1>5, <1>6, <1>7, <1>8

LEMMA FreeStep ==
  ASSUME ObjectInv, NEW t \in Thread, Free(t)
  PROVE  ObjectInv'
<1> USE DEF ObjectInv
<1>0. /\ In(t, "free") /\ array' = None /\ items' = <<>> /\ freed' = TRUE /\ Return(t)
      /\ UNCHANGED <<count, refs, spare, room, lock, fate, runs>>
  BY DEF Free
<1>a. /\ stack[t] # <<>> /\ Below(t) /\ TopFits(t) /\ Top(t).at = "free"
      /\ \A a : In(t, a) <=> a = "free"
      /\ Ending(t)
  BY <1>0, AtPlace DEF Places, TopFits
<1>b. count = Poison /\ items' = items /\ \A u \in Thread \ {t} : ~Ending(u)
  BY <1>0, <1>a DEF EndInv
<1>c. \A u \in Thread \ {t} : ~Using(u)
  BY <1>b DEF RefInv
<1>d. spare = {}
  <2>1. \A u \in spare : u \in Thread /\ In(u, "install") /\ u # t
    BY <1>a DEF EndInv, TypeOK
  <2> QED BY <1>c, <2>1 DEF Using
<1>1. Popped(t)
  BY <1>0, <1>a, ReturnPops
<1>2. /\ Others(t) /\ Below(t)' /\ TopFits(t)' /\ stack' \in Stacks
      /\ ~Using(t)' /\ ~Ending(t)' /\ ~Setting(t)' /\ ~In(t, "locked")' /\ ~In(t, "fini")'
  BY <1>1, PoppedFacts DEF Places
<1>3. TypeOK'
  BY <1>0, <1>2 DEF TypeOK, Stacks
<1>4. StackInv'
  <2>1. \A u \in Thread \ {t} : In(u, "lock") \/ In(u, "locked") => array' # None
    BY <1>c DEF Using
  <2> QED BY <1>2, <2>1, StackStep
<1>5. RefInv'
  BY <1>0, <1>2, RefStep
<1>6. EndInv'
  <2>1. \A u \in Thread : ~Ending(u)'
    BY <1>b, <1>2, OthersStay
  <2> QED BY <1>0, <1>b, <1>d, <2>1 DEF EndInv
<1>7. CallbacksUnlocked'
  BY <1>0, <1>a, <1>2, LockSame
<1>8. DataInv'
  BY <1>0, <1>b, <1>a, <1>2, DataStep
<1> QED BY <1>3, <1>4, <1>5, <1>6, <1>7, <1>8

\* What a call under the lock with a datum to set knows of it.
LEMMA SetterFacts ==
  ASSUME ObjectInv, NEW t \in Thread, In(t, "locked"), Top(t).op = "set"
  PROVE  /\ stack[t] # <<>> /\ Below(t) /\ TopFits(t) /\ Top(t) \in FrameType /\ Top(t).at = "locked"
         /\ \A a : In(t, a) <=> a = "locked"
         /\ Using(t) /\ Setting(t) /\ ~Ending(t) /\ array # None /\ ~freed
         /\ \A u \in Thread : ~Ending(u)
         /\ Top(t).key \in Key /\ Top(t).data \in Data /\ fate[Top(t).data] = "given"
         /\ \A i \in DOMAIN items : items[i].data # Top(t).data
         /\ \A u \in Thread : In(u, "fini") => Top(u).old # Top(t).data
         /\ \A u \in Thread \ {t} : Setting(u) => Top(u).data # Top(t).data /\ Top(u).data \in Data
<1> USE DEF ObjectInv
<1>1. /\ stack[t] # <<>> /\ Below(t) /\ TopFits(t) /\ Top(t) \in FrameType /\ Top(t).at = "locked"
      /\ \A a : In(t, a) <=> a = "locked"
      /\ Using(t) /\ Setting(t) /\ ~Ending(t)
  BY AtPlace DEF Places
<1>2. Top(t).key \in Key /\ Top(t).data \in Data /\ array # None
  BY <1>1 DEF TopFits
<1>3. refs[t] > 0
  BY <1>1 DEF RefInv
<1>4. ~freed /\ \A u \in Thread : ~Ending(u)
  BY <1>3, Referenced
<1>5. fate[Top(t).data] = "given"
  BY <1>1 DEF DataInv
<1>6. /\ \A i \in DOMAIN items : items[i].data # Top(t).data
      /\ \A u \in Thread : In(u, "fini") => Top(u).old # Top(t).data
  BY <1>2, <1>5 DEF DataInv
<1>7. \A u \in Thread \ {t} : Setting(u) => Top(u).data # Top(t).data /\ Top(u).data \in Data
  BY <1>1 DEF DataInv, StackInv, TopFits, Setting, Using, In
<1> QED BY <1>1, <1>2, <1>4, <1>5, <1>6, <1>7

\* The call returns from the locked region; DataInv' is left to its cases.
LEMMA SetReturns ==
  ASSUME ObjectInv, NEW t \in Thread, In(t, "locked"), Top(t).op = "set", Return(t), lock' = None,
         items' \in Seq(Item), room' \in BOOLEAN,
         NEW result \in {"kept", "refused", "lost"}, fate' = [fate EXCEPT ![Top(t).data] = result],
         UNCHANGED <<count, refs, array, spare, runs, freed>>
  PROVE  /\ TypeOK' /\ StackInv' /\ RefInv' /\ EndInv' /\ CallbacksUnlocked'
         /\ Others(t) /\ ~Setting(t)' /\ ~In(t, "fini")'
<1> USE DEF ObjectInv
<1>a. /\ stack[t] # <<>> /\ Below(t)
      /\ \A a : In(t, a) <=> a = "locked"
      /\ Using(t) /\ ~Ending(t) /\ array # None /\ ~freed
      /\ \A u \in Thread : ~Ending(u)
  BY SetterFacts
<1>1. Popped(t)
  BY <1>a, ReturnPops
<1>2. /\ Others(t) /\ Below(t)' /\ TopFits(t)' /\ stack' \in Stacks
      /\ ~Using(t)' /\ ~Ending(t)' /\ ~Setting(t)' /\ ~In(t, "locked")' /\ ~In(t, "fini")'
  BY <1>1, PoppedFacts DEF Places
<1>3. TypeOK'
  <2>1. fate' \in [Data -> {"fresh", "given", "kept", "refused", "lost", "done"}]
    BY DEF TypeOK
  <2> QED BY <1>2, <2>1 DEF TypeOK, Stacks
<1>4. StackInv'
  BY <1>a, <1>2, StackStep
<1>5. RefInv'
  BY <1>2, RefStep
<1>6. EndInv'
  <2>1. \A u \in spare' : u \in spare \ {t}
    BY <1>a DEF EndInv
  <2> QED BY <1>a, <1>2, <2>1, EndStep DEF EndInv, TypeOK
<1>7. CallbacksUnlocked'
  BY <1>2, LockGiven
<1> QED BY <1>2, <1>3, <1>4, <1>5, <1>6, <1>7

LEMMA InsertStep ==
  ASSUME ObjectInv, NEW t \in Thread, In(t, "locked"), Top(t).op = "set", Return(t), lock' = None,
         items' = Append(items, [key |-> Top(t).key, data |-> Top(t).data]), room' = room,
         fate' = [fate EXCEPT ![Top(t).data] = "kept"],
         UNCHANGED <<count, refs, array, spare, runs, freed>>
  PROVE  ObjectInv'
<1> USE DEF ObjectInv
<1>a. /\ \A a : In(t, a) <=> a = "locked"
      /\ Top(t).key \in Key /\ Top(t).data \in Data /\ fate[Top(t).data] = "given"
      /\ \A i \in DOMAIN items : items[i].data # Top(t).data
      /\ \A u \in Thread : In(u, "fini") => Top(u).old # Top(t).data
      /\ \A u \in Thread \ {t} : Setting(u) => Top(u).data # Top(t).data /\ Top(u).data \in Data
  BY SetterFacts
<1>b. PICK n \in Nat : n = Len(items) /\ DOMAIN items = 1 .. n
  BY DEF TypeOK
<1>c. PICK item \in Item : item = [key |-> Top(t).key, data |-> Top(t).data]
  BY <1>a DEF Item
<1>1. /\ items' \in Seq(Item) /\ DOMAIN items' = 1 .. n + 1
      /\ items'[n + 1] = item /\ \A j \in 1 .. n : items'[j] = items[j]
  BY <1>b, <1>c DEF TypeOK
<1>2. /\ TypeOK' /\ StackInv' /\ RefInv' /\ EndInv' /\ CallbacksUnlocked'
      /\ Others(t) /\ ~Setting(t)' /\ ~In(t, "fini")'
  BY <1>1, SetReturns DEF TypeOK
<1>3. DataInv'
  <2> DEFINE d == Top(t).data
  <2>0. item.data = d
    BY <1>c
  <2>1. \A u \in Thread \ {t} :
          Top(u)' = Top(u) /\ (In(u, "fini")' <=> In(u, "fini")) /\ (Setting(u)' <=> Setting(u))
    BY <1>2, OthersStay
  <2>2. \A e \in Data : fate'[e] = IF e = d THEN "kept" ELSE fate[e]
    BY DEF TypeOK
  <2> HIDE DEF d
  <2>3. \A j \in 1 .. n + 1 : j \in 1 .. n \/ j = n + 1
    BY <1>b
  <2>4. \A j \in 1 .. n : items[j].data # d
    BY <1>a, <1>b DEF d
  <2>5. \A i, j \in 1 .. n + 1 : items'[i].data = items'[j].data => i = j
    BY <1>b, <1>1, <2>0, <2>3, <2>4 DEF DataInv
  <2>6. ASSUME NEW e \in Data
        PROVE  fate'[e] = "kept" <=> \/ \E i \in 1 .. n + 1 : items'[i].data = e
                                     \/ \E u \in Thread : In(u, "fini")' /\ (Top(u).old)' = e
    <3>0. n + 1 \in 1 .. n + 1 /\ \A j \in 1 .. n : j \in 1 .. n + 1
      BY <1>b
    <3>1. (\E i \in 1 .. n + 1 : items'[i].data = e) <=> (e = d \/ \E i \in 1 .. n : items[i].data = e)
      <4>1. CASE e = d
        BY <1>1, <2>0, <3>0, <4>1
      <4>2. CASE e # d
        BY <1>1, <2>0, <2>3, <3>0, <4>2
      <4> QED BY <4>1, <4>2
    <3>2. (\E u \in Thread : In(u, "fini")' /\ (Top(u).old)' = e)
            <=> \E u \in Thread : In(u, "fini") /\ Top(u).old = e
      BY <1>a, <1>2, <2>1
    <3>3. fate[e] = "kept" <=> \/ \E i \in 1 .. n : items[i].data = e
                               \/ \E u \in Thread : In(u, "fini") /\ Top(u).old = e
      BY <1>b DEF DataInv
    <3> QED BY <2>2, <3>1, <3>2, <3>3
  <2>7. \A e \in Data : runs'[e] = (IF fate'[e] = "done" THEN 1 ELSE 0)
    BY <1>a, <2>2 DEF DataInv, d
  <2>8. /\ \A u \in Thread : Setting(u)' => fate'[(Top(u).data)'] = "given"
        /\ \A u, v \in Thread : Setting(u)' /\ Setting(v)' /\ (Top(u).data)' = (Top(v).data)' => u = v
    BY <1>a, <1>2, <2>1, <2>2 DEF DataInv, d
  <2>9. /\ \A u, v \in Thread : In(u, "fini")' /\ In(v, "fini")' /\ (Top(u).old)' = (Top(v).old)' => u = v
        /\ \A u \in Thread : In(u, "fini")' => \A i \in 1 .. n + 1 : items'[i].data # (Top(u).old)'
    <3>1. \A u \in Thread \ {t} : In(u, "fini") => Top(u).old # d /\ \A i \in 1 .. n : items[i].data # Top(u).old
      BY <1>a, <1>b DEF DataInv, d
    <3> QED BY <1>1, <1>2, <2>0, <2>1, <2>3, <3>1 DEF DataInv
  <2> QED BY <1>1, <2>5, <2>6, <2>7, <2>8, <2>9 DEF DataInv
<1> QED BY <1>2, <1>3

LEMMA ReplaceStep ==
  ASSUME ObjectInv, NEW t \in Thread, In(t, "locked"), Top(t).op = "set", lock' = None,
         NEW i \in DOMAIN items, TakeOut(t, items[i].data),
         items' = [items EXCEPT ![i] = [key |-> Top(t).key, data |-> Top(t).data]], room' = room,
         fate' = [fate EXCEPT ![Top(t).data] = "kept"],
         UNCHANGED <<count, refs, array, spare, runs, freed>>
  PROVE  ObjectInv'
<1> USE DEF ObjectInv
<1>a. /\ stack[t] # <<>> /\ Below(t) /\ TopFits(t) /\ Top(t) \in FrameType /\ Top(t).at = "locked"
      /\ \A a : In(t, a) <=> a = "locked"
      /\ Using(t) /\ Setting(t) /\ ~Ending(t) /\ array # None /\ ~freed
      /\ \A u \in Thread : ~Ending(u)
      /\ Top(t).key \in Key /\ Top(t).data \in Data /\ fate[Top(t).data] = "given"
      /\ \A j \in DOMAIN items : items[j].data # Top(t).data
      /\ \A u \in Thread : In(u, "fini") => Top(u).old # Top(t).data
      /\ \A u \in Thread \ {t} : Setting(u) => Top(u).data # Top(t).data /\ Top(u).data \in Data
  BY SetterFacts
<1>b. PICK n \in Nat : n = Len(items) /\ DOMAIN items = 1 .. n
  <2>1. items \in Seq(Item)
    BY DEF TypeOK
  <2>2. Len(items) \in Nat /\ DOMAIN items = 1 .. Len(items)
    BY <2>1, LenProperties
  <2> QED BY <2>2
<1>c. PICK item \in Item : item = [key |-> Top(t).key, data |-> Top(t).data]
  BY <1>a DEF Item
<1>d. PICK old \in Data : old = items[i].data
  <2>1. items \in Seq(Item) /\ i \in 1 .. Len(items)
    BY DEF TypeOK
  <2>2. items[i] \in Item
    BY <2>1
  <2> QED BY <2>2 DEF Item
<1>1. items' \in Seq(Item) /\ DOMAIN items' = 1 .. n
  BY <1>b, <1>c DEF TypeOK
<1>e. \A j \in 1 .. n : items'[j] = IF j = i THEN item ELSE items[j]
  BY <1>b, <1>c DEF TypeOK
<1>2. Moved(t, "fini") /\ (Top(t).old)' = old
  BY <1>a, <1>d, TakeOutMoves
<1>3. /\ Others(t) /\ Below(t)' /\ stack' \in Stacks
      /\ \A a : In(t, a)' <=> a = "fini"
      /\ ~Using(t)' /\ ~Ending(t)' /\ ~Setting(t)'
  BY <1>a, <1>2, MovedFacts DEF Places
<1>4. TypeOK'
  <2>1. fate' \in [Data -> {"fresh", "given", "kept", "refused", "lost", "done"}]
    BY DEF TypeOK
  <2> QED BY <1>1, <1>3, <2>1 DEF TypeOK, Stacks
<1>5. StackInv'
  <2>1. TopFits(t)'
    BY <1>a, <1>2, HBObjectAssumption DEF Moved, TopFits
  <2> QED BY <1>a, <1>3, <2>1, StackStep
<1>6. RefInv'
  BY <1>3, RefStep
<1>7. EndInv'
  <2>1. \A u \in spare' : u \in spare \ {t}
    BY <1>a DEF EndInv
  <2> QED BY <1>a, <1>3, <2>1, EndStep DEF EndInv, TypeOK
<1>8. CallbacksUnlocked'
  BY <1>3, LockGiven
<1>9. DataInv'
  <2> DEFINE d == Top(t).data
  <2>0. item.data = d /\ i \in 1 .. n
    BY <1>b, <1>c
  <2>1. \A u \in Thread \ {t} :
          Top(u)' = Top(u) /\ (In(u, "fini")' <=> In(u, "fini")) /\ (Setting(u)' <=> Setting(u))
    BY <1>3, OthersStay
  <2>2. \A e \in Data : fate'[e] = IF e = d THEN "kept" ELSE fate[e]
    BY DEF TypeOK
  <2>3. /\ \A j \in 1 .. n : items[j].data # d
        /\ \A u \in Thread : In(u, "fini") => Top(u).old # d
    BY <1>a, <1>b DEF d
  <2> HIDE DEF d
  <2>4. \A j \in 1 .. n : j # i => items[j].data # old
    BY <1>b, <1>d, <2>0 DEF DataInv
  <2>5. \A j, k \in 1 .. n : items'[j].data = items'[k].data => j = k
    BY <1>b, <1>e, <2>0, <2>3 DEF DataInv
  <2>6. \A u \in Thread \ {t} : In(u, "fini") => \A j \in 1 .. n : items[j].data # Top(u).old
    BY <1>b DEF DataInv
  <2>7. ASSUME NEW e \in Data
        PROVE  fate'[e] = "kept" <=> \/ \E j \in 1 .. n : items'[j].data = e
                                     \/ \E u \in Thread : In(u, "fini")' /\ (Top(u).old)' = e
    <3>1. fate[e] = "kept" <=> \/ \E j \in 1 .. n : items[j].data = e
                               \/ \E u \in Thread : In(u, "fini") /\ Top(u).old = e
      BY <1>b DEF DataInv
    <3>2. (\E u \in Thread : In(u, "fini")' /\ (Top(u).old)' = e)
            <=> e = old \/ \E u \in Thread : In(u, "fini") /\ Top(u).old = e
      BY <1>a, <1>2, <1>3, <2>1
    <3>3. CASE e = d
      BY <1>e, <2>0, <2>2, <3>3
    <3>4. CASE e # d /\ e = old
      <4>1. fate[e] = "kept"
        BY <1>d, <2>0, <3>1, <3>4
      <4> QED BY <2>2, <3>2, <3>4, <4>1
    <3>5. CASE e # d /\ e # old
      <4>1. (\E j \in 1 .. n : items'[j].data = e) <=> \E j \in 1 .. n : items[j].data = e
        <5>1. ASSUME NEW j \in 1 .. n, items'[j].data = e PROVE items[j].data = e
          BY <1>e, <2>0, <3>5, <5>1
        <5>2. ASSUME NEW j \in 1 .. n, items[j].data = e PROVE items'[j].data = e
          BY <1>d, <1>e, <3>5, <5>2
        <5> QED BY <5>1, <5>2
      <4> QED BY <2>2, <3>1, <3>2, <3>5, <4>1
    <3> QED BY <3>3, <3>4, <3>5
  <2>8. \A e \in Data : runs'[e] = (IF fate'[e] = "done" THEN 1 ELSE 0)
    BY <1>a, <2>2 DEF DataInv, d
  <2>9. /\ \A u \in Thread : Setting(u)' => fate'[(Top(u).data)'] = "given"
        /\ \A u, v \in Thread : Setting(u)' /\ Setting(v)' /\ (Top(u).data)' = (Top(v).data)' => u = v
    BY <1>a, <1>3, <2>1, <2>2 DEF DataInv, d
  <2>10. \A u, v \in Thread : In(u, "fini")' /\ In(v, "fini")' /\ (Top(u).old)' = (Top(v).old)' => u = v
    BY <1>2, <1>d, <2>0, <2>1, <2>6 DEF DataInv
  <2>11. \A u \in Thread : In(u, "fini")' => \A j \in 1 .. n : items'[j].data # (Top(u).old)'
    <3>1. \A j \in 1 .. n : items'[j].data # old
      BY <1>d, <1>e, <2>0, <2>3, <2>4
    <3>2. ASSUME NEW u \in Thread \ {t}, In(u, "fini"), NEW j \in 1 .. n PROVE items'[j].data # Top(u).old
      BY <1>e, <2>0, <2>3, <2>6, <3>2
    <3> QED BY <1>2, <2>1, <3>1, <3>2
  <2> QED BY <1>1, <2>5, <2>7, <2>8, <2>9, <2>10, <2>11 DEF DataInv
<1> QED BY <1>4, <1>5, <1>6, <1>7, <1>8, <1>9

LEMMA ReplaceOrInsertStep ==
  ASSUME ObjectInv, NEW t \in Thread, ReplaceOrInsert(t)
  PROVE  ObjectInv'
<1> USE DEF ObjectInv
<1>0. /\ In(t, "locked") /\ Top(t).op = "set" /\ lock' = None
      /\ UNCHANGED <<count, refs, array, spare, runs, freed>>
  BY DEF ReplaceOrInsert
<1>1. ASSUME Find(Top(t).key) # 0,
             items' = [items EXCEPT ![Find(Top(t).key)] = [key |-> Top(t).key, data |-> Top(t).data]],
             TakeOut(t, items[Find(Top(t).key)].data),
             fate' = [fate EXCEPT ![Top(t).data] = "kept"], room' = room
      PROVE  ObjectInv'
  <2>1. PICK i \in DOMAIN items : i = Find(Top(t).key)
    BY <1>1, FindIn DEF TypeOK
  <2> QED BY <1>0, <1>1, <2>1, ReplaceStep
<1>2. ASSUME items' = Append(items, [key |-> Top(t).key, data |-> Top(t).data]), Return(t),
             fate' = [fate EXCEPT ![Top(t).data] = "kept"], room' = room
      PROVE  ObjectInv'
  BY <1>0, <1>2, InsertStep
<1>3. ASSUME NEW result \in {"refused", "lost"}, Return(t), items' = items, room' \in BOOLEAN,
             fate' = [fate EXCEPT ![Top(t).data] = result]
      PROVE  ObjectInv'
  <2>1. /\ TypeOK' /\ StackInv' /\ RefInv' /\ EndInv' /\ CallbacksUnlocked'
        /\ Others(t) /\ ~Setting(t)' /\ ~In(t, "fini")'
    BY <1>0, <1>3, SetReturns DEF TypeOK
  <2>2. Setting(t) /\ ~In(t, "fini")
    BY <1>0, SetterFacts
  <2>3. DataInv'
    BY <1>0, <1>3, <2>1, <2>2, DataRefused
  <2> QED BY <2>1, <2>3
<1>4. room \in BOOLEAN
  BY DEF TypeOK
<1> QED BY <1>1, <1>2, <1>3, <1>4 DEF ReplaceOrInsert
-----------------------------------------------------------------------------
(* The invariant, and what follows from it.                                 *)

\* At the start every thread owns one reference.
LEMMA HeldAtFirst ==
  ASSUME Init
  PROVE  Cardinality(Held) = Cardinality(Thread)
<1> DEFINE One == {1}
           P == Thread \X One
<1>1. IsFiniteSet(One) /\ Cardinality(One) = 1
  BY FS_Singleton
<1>2. IsFiniteSet(Thread)
  BY HBObjectAssumption
<1>3. Cardinality(P) = Cardinality(Thread) * 1
  <2> HIDE DEF One
  <2> QED BY <1>1, <1>2, FS_Product
<1>4. Cardinality(Thread) \in Nat
  BY <1>2, FS_CardinalityType
<1>5. Held = P
  <2>1. \A t \in Thread : refs[t] = 1
    BY DEF Init
  <2>2. \A p \in Thread \X (1 .. MaxRefs) : p[2] <= refs[p[1]] <=> p[2] = 1
    BY <2>1, HBObjectAssumption
  <2>3. 1 \in 1 .. MaxRefs
    BY HBObjectAssumption
  <2> QED BY <2>2, <2>3 DEF Held
<1> QED BY <1>3, <1>4, <1>5

LEMMA InitInv == Init => ObjectInv
<1> SUFFICES ASSUME Init PROVE ObjectInv
  OBVIOUS
<1>1. \A t \in Thread : stack[t] = <<>>
  BY DEF Init
<1>2. \A t \in Thread : (\A at : ~In(t, at)) /\ ~Using(t) /\ ~Ending(t) /\ ~Setting(t)
  BY <1>1 DEF In, Using, Ending, Setting
<1>3. count \in Nat /\ count # Poison /\ count = Cardinality(Held)
  <2>1. Cardinality(Thread) \in Nat
    BY HBObjectAssumption, FS_CardinalityType
  <2>2. count = Cardinality(Thread)
    BY DEF Init
  <2>3. Cardinality(Held) = Cardinality(Thread)
    BY HeldAtFirst
  <2> QED BY <2>1, <2>2, <2>3 DEF Poison
<1>4. TypeOK
  <2>1. refs \in [Thread -> 0 .. MaxRefs]
    BY HBObjectAssumption DEF Init
  <2>2. stack \in [Thread -> Seq(FrameType)] /\ items \in Seq(Item)
    BY DEF Init
  <2>3. /\ fate \in [Data -> {"fresh", "given", "kept", "refused", "lost", "done"}]
        /\ runs \in [Data -> Nat]
    BY DEF Init
  <2>4. room \in BOOLEAN /\ freed \in BOOLEAN
    BY Zenon DEF Init
  <2>5. array \in Thread \cup {None} /\ spare \subseteq Thread /\ lock \in Thread \cup {None}
    BY DEF Init
  <2> QED BY <1>3, <2>1, <2>2, <2>3, <2>4, <2>5 DEF TypeOK
<1>5. StackInv
  <2>1. ASSUME NEW t \in Thread PROVE Below(t) /\ TopFits(t)
    BY <1>1 DEF Below, TopFits
  <2> QED BY <2>1 DEF StackInv
<1>6. RefInv
  BY <1>2, <1>3 DEF RefInv
<1>7. EndInv
  BY <1>2 DEF EndInv, Init
<1>8. CallbacksUnlocked
  BY <1>2, HBObjectAssumption DEF CallbacksUnlocked, Init
<1>9. DataInv
  <2>1. items = <<>> /\ DOMAIN items = {} /\ \A d \in Data : fate[d] = "fresh" /\ runs[d] = 0
    BY DEF Init
  <2> QED BY <1>2, <2>1 DEF DataInv
<1> QED BY <1>4, <1>5, <1>6, <1>7, <1>8, <1>9 DEF ObjectInv

LEMMA StutterInv == ObjectInv /\ UNCHANGED vars => ObjectInv'
BY DEF ObjectInv, TypeOK, StackInv, RefInv, EndInv, CallbacksUnlocked, DataInv, vars, Held,
       Below, TopFits, Using, Ending, Setting, In, Top

LEMMA NextInv == ObjectInv /\ [Next]_vars => ObjectInv'
<1> SUFFICES ASSUME ObjectInv, [Next]_vars PROVE ObjectInv'
  OBVIOUS
<1>1. ASSUME NEW t \in Thread, Step(t) PROVE ObjectInv'
  BY <1>1, ReadArrayStep, InstallStep, LockStep, ReplaceOrInsertStep, RemoveItemStep, GetStep,
     DrainStep, PopLastStep, FiniStep, CallbackReturnsStep, FreeStep DEF Step
<1>2. ASSUME NEW t \in Thread, Call(t) PROVE ObjectInv'
  BY <1>2, CallSetStep, CallOtherStep, ReferenceStep, DestroyStep DEF Call
<1>3. CASE UNCHANGED vars
  BY <1>3, StutterInv
<1>4. CASE AllDone
  BY <1>4, <1>3 DEF AllDone
<1> QED BY <1>1, <1>2, <1>3, <1>4 DEF Next

\* The invariant of the object: its references, its one destroyer and the one
\* holder of each datum, in every interleaving of the threads and callbacks.
THEOREM ObjectSafe == Spec => []ObjectInv
BY InitInv, NextInv, PTL DEF Spec

\* Every state is of the declared types: no thread drops more references than
\* it holds, so the count never falls below zero except to its poison.
THEOREM ObjectTypeOK == Spec => []TypeOK
<1>1. ObjectInv => TypeOK
  BY DEF ObjectInv
<1> QED BY <1>1, ObjectSafe, PTL

\* The lock of the array is held inside one locked region and nowhere else, so
\* never while a callback runs.
THEOREM ObjectCallbacksUnlocked == Spec => []CallbacksUnlocked
<1>1. ObjectInv => CallbacksUnlocked
  BY DEF ObjectInv
<1> QED BY <1>1, ObjectSafe, PTL

\* Of the calls of a thread only the innermost is at a place of its own.
LEMMA FramesOfTop ==
  ASSUME ObjectInv, NEW t \in Thread
  PROVE  /\ stack[t] # <<>> => Top(t) \in Frames(t)
         /\ \A f \in Frames(t) :
              stack[t] # <<>> /\ (f = Top(t) \/ (f.at = "called" /\ f.old = None))
<1>1. stack[t] \in Seq(FrameType) /\ Below(t)
  BY DEF ObjectInv, TypeOK, StackInv
<1>2. PICK n \in Nat : n = Len(stack[t]) /\ DOMAIN stack[t] = 1 .. n
  BY <1>1
<1>3. stack[t] # <<>> <=> n > 0
  BY <1>1, <1>2
<1>4. Frames(t) = {stack[t][i] : i \in 1 .. n}
  BY <1>2 DEF Frames, ToSet
<1>5. Top(t) = stack[t][n]
  BY <1>2 DEF Top, Last
<1>6. \A i \in 1 .. n : i = n \/ i \in 1 .. n - 1
  OBVIOUS
<1>7. \A i \in 1 .. n - 1 : stack[t][i].at = "called" /\ stack[t][i].old = None
  BY <1>1, <1>2 DEF Below
<1> QED BY <1>3, <1>4, <1>5, <1>6, <1>7

LEMMA InvAlive == ObjectInv => ObjectAlive
<1> SUFFICES ASSUME ObjectInv PROVE ObjectAlive
  OBVIOUS
<1>1. ASSUME NEW t \in Thread, NEW at \in {"array", "install", "lock", "locked", "drain"}, In(t, at)
      PROVE  ~freed
  <2>1. CASE Ending(t)
    BY <2>1 DEF ObjectInv, EndInv
  <2>2. CASE ~Ending(t)
    <3>1. TopFits(t) /\ stack[t] # <<>> /\ Top(t).at = at
      BY <1>1 DEF ObjectInv, StackInv, In
    <3>2. at # "drain"
      BY <2>2, <3>1 DEF TopFits, Ending
    <3>3. Using(t)
      BY <1>1, <3>2 DEF Using
    <3> QED BY <2>2, <3>3, Referenced DEF ObjectInv, RefInv
  <2> QED BY <2>1, <2>2
<1>2. ASSUME NEW t \in Thread, NEW f \in Frames(t),
             f.at \in {"array", "install", "lock", "locked", "drain"}
      PROVE  ~freed /\ (f.at \in {"lock", "locked"} => array # None)
  <2>1. stack[t] # <<>> /\ f = Top(t)
    BY <1>2, FramesOfTop
  <2>2. In(t, f.at) /\ TopFits(t)
    BY <2>1 DEF In, ObjectInv, StackInv
  <2> QED BY <1>1, <1>2, <2>1, <2>2 DEF TopFits
<1>3. ASSUME NEW t \in spare PROVE ~freed /\ \E f \in Frames(t) : f.at = "install"
  <2>1. t \in Thread /\ In(t, "install")
    BY DEF ObjectInv, EndInv, TypeOK
  <2>2. Top(t) \in Frames(t) /\ Top(t).at = "install"
    BY <2>1, FramesOfTop DEF In
  <2>3. ~freed
    BY <1>1, <2>1
  <2> QED BY <2>2, <2>3
<1>4. freed => array = None /\ items = <<>>
  BY DEF ObjectInv, EndInv
<1>5. freed => spare = {}
  BY <1>3
<1> QED BY <1>2, <1>3, <1>4, <1>5 DEF ObjectAlive

\* Whoever reads the object or its array finds them alive, and no array is
\* lost to the race to install one.
THEOREM ObjectStaysAlive == Spec => []ObjectAlive
BY ObjectSafe, InvAlive, PTL

LEMMA AtMostOne ==
  ASSUME NEW S, \A x, y \in S : x = y
  PROVE  Cardinality(S) = (IF S = {} THEN 0 ELSE 1)
<1>1. CASE S = {}
  BY <1>1, FS_EmptySet
<1>2. CASE S # {}
  <2>1. PICK x : S = {x}
    BY <1>2
  <2> QED BY <2>1, FS_Singleton
<1> QED BY <1>1, <1>2

\* The sets that DataOwned counts have one element together, or none.
LEMMA InvOwned == ObjectInv => DataOwned
<1> SUFFICES ASSUME ObjectInv, NEW d \in Data
             PROVE  LET held == Cardinality({i \in DOMAIN items : items[i].data = d})
                                + Cardinality({t \in Thread : \E f \in Frames(t) : f.old = d})
                    IN /\ held = (IF fate[d] = "kept" THEN 1 ELSE 0)
                       /\ runs[d] = (IF fate[d] = "done" THEN 1 ELSE 0)
  BY DEF DataOwned
<1> DEFINE I == {i \in DOMAIN items : items[i].data = d}
           T == {t \in Thread : \E f \in Frames(t) : f.old = d}
<1>1. ASSUME NEW t \in Thread
      PROVE  t \in T <=> In(t, "fini") /\ Top(t).old = d
  <2>1. d # None
    BY HBObjectAssumption
  <2>2. TopFits(t)
    BY DEF ObjectInv, StackInv
  <2>3. (\E f \in Frames(t) : f.old = d) <=> stack[t] # <<>> /\ Top(t).old = d
    BY <2>1, FramesOfTop
  <2> QED BY <2>1, <2>2, <2>3 DEF TopFits, In
<1>2. T \subseteq Thread
  OBVIOUS
<1>3. /\ \A i, j \in I : i = j
      /\ \A i \in I : \A t \in T : FALSE
      /\ \A t, u \in T : t = u
      /\ fate[d] = "kept" <=> I # {} \/ T # {}
      /\ runs[d] = (IF fate[d] = "done" THEN 1 ELSE 0)
  <2>1. \A i, j \in I : i = j
    BY DEF ObjectInv, DataInv
  <2>2. \A i \in I : \A t \in T : FALSE
    BY <1>1 DEF ObjectInv, DataInv
  <2>3. \A t, u \in T : t = u
    BY <1>1 DEF ObjectInv, DataInv
  <2>4. fate[d] = "kept" <=> I # {} \/ T # {}
    <3>1. T # {} <=> \E t \in Thread : In(t, "fini") /\ Top(t).old = d
      BY <1>1, <1>2
    <3>2. I # {} <=> \E i \in DOMAIN items : items[i].data = d
      OBVIOUS
    <3> QED BY <3>1, <3>2 DEF ObjectInv, DataInv
  <2>5. runs[d] = (IF fate[d] = "done" THEN 1 ELSE 0)
    BY DEF ObjectInv, DataInv
  <2> QED BY <2>1, <2>2, <2>3, <2>4, <2>5
<1> HIDE DEF I, T
<1>4. Cardinality(I) = (IF I = {} THEN 0 ELSE 1)
  BY <1>3, AtMostOne
<1>5. Cardinality(T) = (IF T = {} THEN 0 ELSE 1)
  BY <1>3, AtMostOne
<1>6. I = {} \/ T = {}
  BY <1>3
<1>7. Cardinality(I) + Cardinality(T) = (IF fate[d] = "kept" THEN 1 ELSE 0)
  BY <1>3, <1>4, <1>5, <1>6
<1> QED BY <1>3, <1>7 DEF I, T

\* A datum that was taken in has exactly one holder until its callback has run,
\* once; any other has none and its callback does not run.
THEOREM ObjectDataOwned == Spec => []DataOwned
BY ObjectSafe, InvOwned, PTL
=============================================================================
