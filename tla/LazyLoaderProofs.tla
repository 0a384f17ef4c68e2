-------------------------- MODULE LazyLoaderProofs --------------------------
(***************************************************************************)
(* Proofs about LazyLoader, for any number of threads and objects.         *)
(***************************************************************************)
EXTENDS LazyLoader, TLAPS

Racing(t) == pc[t] \in {"exchange", "lost"}

\* Who uses the loader uses the instance, or Null of an inert loader.
AnswerInv ==
  \A t \in Threads :
    IF pc[t] = "using"
    THEN answer[t] = IF kind = "inert" THEN Null ELSE instance
    ELSE answer[t] = None

\* The instance exists while its owner does; only a member's owner goes.
InstanceInv ==
  /\ ~gone => instance \in live \cup {Null, None}
  /\ gone => kind = "member" /\ Unused
  /\ kind = "inert" => instance = None
  /\ (\E t \in Threads : pc[t] = "using") /\ kind # "inert" => instance # None

\* A racing thread's object exists, and nobody else's and not the instance.
RaceInv ==
  /\ \A t \in Threads : IF Racing(t)
                        THEN mine[t] \in (live \ {instance}) \cup {Null}
                        ELSE mine[t] = None
  /\ \A t \in Threads : pc[t] \in {"create", "exchange", "lost"} => kind # "inert"
  /\ \A t, u \in Threads : mine[t] = mine[u] /\ mine[t] \in Objects => t = u

LoaderInv == TypeOK /\ AnswerInv /\ InstanceInv /\ RaceInv /\ ObjectsOwned

-----------------------------------------------------------------------------
LEMMA InitInv == Init => LoaderInv
BY LoaderAssumption
   DEF Init, LoaderInv, TypeOK, AnswerInv, InstanceInv, RaceInv, Racing, ObjectsOwned

LEMMA CallStep ==
  ASSUME LoaderInv, NEW t \in Threads, Call(t)
  PROVE  LoaderInv'
<1> USE LoaderAssumption DEF Call, Goto, LoaderInv, TypeOK
<1>1. TypeOK'  BY DEF RaceInv, InstanceInv, Racing, Unused
<1>2. AnswerInv'  BY DEF AnswerInv, InstanceInv, RaceInv, Unused
<1>3. InstanceInv'  BY DEF InstanceInv, AnswerInv, RaceInv, Racing, Unused
<1>4. RaceInv'  BY DEF RaceInv, InstanceInv, Racing, Unused
<1>5. ObjectsOwned'  BY DEF ObjectsOwned, InstanceInv, RaceInv, Racing, Unused
<1> QED BY <1>1, <1>2, <1>3, <1>4, <1>5

LEMMA GetStep ==
  ASSUME LoaderInv, NEW t \in Threads, Get(t)
  PROVE  LoaderInv'
<1> USE LoaderAssumption DEF Get, Goto, LoaderInv, TypeOK
<1>1. TypeOK'  BY DEF RaceInv, InstanceInv, Racing, Unused
<1>2. AnswerInv'  BY DEF AnswerInv, InstanceInv, RaceInv, Unused
<1>3. InstanceInv'  BY DEF InstanceInv, AnswerInv, RaceInv, Racing, Unused
<1>4. RaceInv'  BY DEF RaceInv, InstanceInv, Racing, Unused
<1>5. ObjectsOwned'  BY DEF ObjectsOwned, InstanceInv, RaceInv, Racing, Unused
<1> QED BY <1>1, <1>2, <1>3, <1>4, <1>5

LEMMA CreateStep ==
  ASSUME LoaderInv, NEW t \in Threads, Create(t)
  PROVE  LoaderInv'
<1> USE LoaderAssumption DEF Create, Goto, LoaderInv, TypeOK
<1>1. TypeOK'  BY DEF RaceInv, InstanceInv, Racing, Unused
<1>2. AnswerInv'  BY DEF AnswerInv, InstanceInv, RaceInv, Unused
<1>3. InstanceInv'  BY DEF InstanceInv, AnswerInv, RaceInv, Racing, Unused
<1>4. RaceInv'  BY DEF RaceInv, InstanceInv, Racing, Unused
<1>5. ObjectsOwned'  BY DEF ObjectsOwned, InstanceInv, RaceInv, Racing, Unused
<1> QED BY <1>1, <1>2, <1>3, <1>4, <1>5

LEMMA ExchangeStep ==
  ASSUME LoaderInv, NEW t \in Threads, Exchange(t)
  PROVE  LoaderInv'
<1> USE LoaderAssumption DEF Exchange, Goto, LoaderInv, TypeOK
<1>1. TypeOK'  BY DEF RaceInv, InstanceInv, Racing, Unused
<1>2. AnswerInv'  BY DEF AnswerInv, InstanceInv, RaceInv, Unused
<1>3. InstanceInv'  BY DEF InstanceInv, AnswerInv, RaceInv, Racing, Unused
<1>4. RaceInv'  BY DEF RaceInv, InstanceInv, Racing, Unused
<1>5. ObjectsOwned'  BY DEF ObjectsOwned, InstanceInv, RaceInv, Racing, Unused
<1> QED BY <1>1, <1>2, <1>3, <1>4, <1>5

LEMMA RetryStep ==
  ASSUME LoaderInv, NEW t \in Threads, Retry(t)
  PROVE  LoaderInv'
<1> USE LoaderAssumption DEF Retry, Goto, LoaderInv, TypeOK
<1>1. TypeOK'  BY DEF RaceInv, InstanceInv, Racing, Unused
<1>2. AnswerInv'  BY DEF AnswerInv, InstanceInv, RaceInv, Unused
<1>3. InstanceInv'  BY DEF InstanceInv, AnswerInv, RaceInv, Racing, Unused
<1>4. RaceInv'  BY DEF RaceInv, InstanceInv, Racing, Unused
<1>5. ObjectsOwned'  BY DEF ObjectsOwned, InstanceInv, RaceInv, Racing, Unused
<1> QED BY <1>1, <1>2, <1>3, <1>4, <1>5

LEMMA DoneStep ==
  ASSUME LoaderInv, NEW t \in Threads, Done(t)
  PROVE  LoaderInv'
<1> USE LoaderAssumption DEF Done, Goto, LoaderInv, TypeOK
<1>1. TypeOK'  BY DEF RaceInv, InstanceInv, Racing, Unused
<1>2. AnswerInv'  BY DEF AnswerInv, InstanceInv, RaceInv, Unused
<1>3. InstanceInv'  BY DEF InstanceInv, AnswerInv, RaceInv, Racing, Unused
<1>4. RaceInv'  BY DEF RaceInv, InstanceInv, Racing, Unused
<1>5. ObjectsOwned'  BY DEF ObjectsOwned, InstanceInv, RaceInv, Racing, Unused
<1> QED BY <1>1, <1>2, <1>3, <1>4, <1>5

LEMMA FiniStep ==
  ASSUME LoaderInv, Fini
  PROVE  LoaderInv'
<1> USE LoaderAssumption DEF Fini, LoaderInv, TypeOK
<1>1. TypeOK'  BY DEF RaceInv, InstanceInv, Racing, Unused
<1>2. AnswerInv'  BY DEF AnswerInv, InstanceInv, RaceInv, Unused
<1>3. InstanceInv'  BY DEF InstanceInv, AnswerInv, RaceInv, Racing, Unused
<1>4. RaceInv'  BY DEF RaceInv, InstanceInv, Racing, Unused
<1>5. ObjectsOwned'  BY DEF ObjectsOwned, InstanceInv, RaceInv, Racing, Unused
<1> QED BY <1>1, <1>2, <1>3, <1>4, <1>5

LEMMA FreeInstanceStep ==
  ASSUME LoaderInv, FreeInstance
  PROVE  LoaderInv'
<1> USE LoaderAssumption DEF FreeInstance, LoaderInv, TypeOK
<1>1. TypeOK'  BY DEF RaceInv, InstanceInv, Racing, Unused
<1>2. AnswerInv'  BY DEF AnswerInv, InstanceInv, RaceInv, Unused
<1>3. InstanceInv'  BY DEF InstanceInv, AnswerInv, RaceInv, Racing, Unused
<1>4. RaceInv'  BY DEF RaceInv, InstanceInv, Racing, Unused
<1>5. ObjectsOwned'  BY DEF ObjectsOwned, InstanceInv, RaceInv, Racing, Unused
<1> QED BY <1>1, <1>2, <1>3, <1>4, <1>5

-----------------------------------------------------------------------------
\* Every reachable state of any number of threads satisfies the invariant.
THEOREM LoaderSafe == Spec => []LoaderInv
<1>1. ASSUME LoaderInv, UNCHANGED vars PROVE LoaderInv'
  BY <1>1 DEF LoaderInv, vars, TypeOK, AnswerInv, InstanceInv, RaceInv, Racing, ObjectsOwned, Unused
<1>2. ASSUME LoaderInv, [Next]_vars PROVE LoaderInv'
  BY <1>1, <1>2, CallStep, GetStep, CreateStep, ExchangeStep, RetryStep, DoneStep, FiniStep,
     FreeInstanceStep DEF Next, Step
<1> QED BY <1>2, InitInv, PTL DEF Spec

\* All threads share one object (get_stored), whoever wins the race.
THEOREM LoaderOneObject == Spec => []OneObject
<1>1. LoaderInv => OneObject
  BY DEF LoaderInv, AnswerInv, OneObject
<1> QED BY <1>1, LoaderSafe, PTL

\* The object in use has not been destroyed.
THEOREM LoaderObjectAlive == Spec => []ObjectAlive
<1>1. LoaderInv => ObjectAlive
  BY DEF LoaderInv, AnswerInv, InstanceInv, ObjectAlive, Unused
<1> QED BY <1>1, LoaderSafe, PTL

\* No object leaks, however the races end.
THEOREM LoaderObjectsOwned == Spec => []ObjectsOwned
<1>1. LoaderInv => ObjectsOwned
  BY DEF LoaderInv
<1> QED BY <1>1, LoaderSafe, PTL

\* No get answers nullptr.
THEOREM LoaderNeverNullptr == Spec => []NeverNullptr
<1>1. LoaderInv => NeverNullptr
  BY LoaderAssumption DEF LoaderInv, TypeOK, AnswerInv, InstanceInv, NeverNullptr
<1> QED BY <1>1, LoaderSafe, PTL

\* Nothing is written to an inert object or created for it.
THEOREM LoaderInertUntouched == Spec => []InertUntouched
<1>1. LoaderInv => InertUntouched
  BY LoaderAssumption
     DEF LoaderInv, TypeOK, InstanceInv, RaceInv, Racing, ObjectsOwned, InertUntouched
<1> QED BY <1>1, LoaderSafe, PTL

\* The instance is final while anyone uses the loader.
THEOREM LoaderInstanceKept == Spec => InstanceKept
<1>1. [Next]_vars => [instance # None /\ ~Unused => instance' = instance]_instance
  BY DEF Next, Step, vars, Call, Get, Create, Exchange, Retry, Done, Fini, FreeInstance
<1> QED BY <1>1, PTL DEF Spec, InstanceKept
=============================================================================
