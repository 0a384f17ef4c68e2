----------------------------- MODULE LazyLoader -----------------------------
(***************************************************************************)
(* One lazy loader (src/src/hb-machinery.hh): the pointer behind which a   *)
(* face keeps a sanitized table or an accelerator, a shaper its data, and  *)
(* a static its default functions.  The first get creates the object; all  *)
(* threads race to install theirs with a compare-and-exchange:             *)
(*                                                                         *)
(*   get       about to load the instance           (the label retry)      *)
(*   create    saw nullptr, about to create an object                      *)
(*   exchange  about to exchange its object, mine, for nullptr             *)
(*   lost      about to destroy its object and to try again                *)
(*   using     has the object                                              *)
(*                                                                         *)
(* Objects are addresses: a destroyed one may be created again.            *)
(***************************************************************************)
EXTENDS Naturals

CONSTANTS
  Threads,  \* threads that use the loader
  Objects,  \* addresses of what it creates
  Null,     \* Funcs::get_null ()
  None      \* nullptr

VARIABLES
  kind,      \* "static", a "member" of an object, or one in an "inert" object
  instance,  \* the pointer
  live,      \* objects created and not destroyed
  gone,      \* the object the loader is a member of was destroyed
  pc, mine, answer

vars == <<kind, instance, live, gone, pc, mine, answer>>

ASSUME LoaderAssumption == None \notin Objects /\ Null \notin Objects /\ None # Null

TypeOK ==
  /\ kind \in {"static", "member", "inert"}
  /\ instance \in Objects \cup {Null, None}
  /\ live \in SUBSET Objects
  /\ gone \in BOOLEAN
  /\ pc \in [Threads -> {"idle", "get", "create", "exchange", "lost", "using"}]
  /\ mine \in [Threads -> live \cup {Null, None}]  \* an object a thread owns exists
  /\ answer \in [Threads -> Objects \cup {Null, None}]

Goto(t, label) == pc' = [pc EXCEPT ![t] = label]

\* init and init0.
Init ==
  /\ kind \in {"static", "member", "inert"}
  /\ instance = None
  /\ live = {}
  /\ gone = FALSE
  /\ pc = [t \in Threads |-> "idle"]
  /\ mine = [t \in Threads |-> None]
  /\ answer = [t \in Threads |-> None]

-----------------------------------------------------------------------------
\* A thread that holds a reference to the loader's owner calls get.
Call(t) ==
  /\ pc[t] = "idle" /\ ~gone
  /\ Goto(t, "get")
  /\ UNCHANGED <<kind, instance, live, gone, mine, answer>>

\* The load.  A loader in an inert object answers Null and stores nothing.
Get(t) ==
  /\ pc[t] = "get"
  /\ IF instance = None /\ kind # "inert"
     THEN Goto(t, "create") /\ UNCHANGED answer
     ELSE /\ answer' = [answer EXCEPT ![t] = IF instance = None THEN Null ELSE instance]
          /\ Goto(t, "using")
  /\ UNCHANGED <<kind, instance, live, gone, mine>>

\* Funcs::create, which may fail at any time: then Null is what is installed.
Create(t) ==
  /\ pc[t] = "create"
  /\ \/ \E o \in Objects \ live : live' = live \cup {o} /\ mine' = [mine EXCEPT ![t] = o]
     \/ mine' = [mine EXCEPT ![t] = Null] /\ UNCHANGED live
  /\ Goto(t, "exchange")
  /\ UNCHANGED <<kind, instance, gone, answer>>

\* Mutant of Exchange: it always reports success.
ExchangeUnchecked(t) ==
  /\ pc[t] = "exchange"
  /\ instance' = IF instance = None THEN mine[t] ELSE instance
  /\ answer' = [answer EXCEPT ![t] = mine[t]]
  /\ mine' = [mine EXCEPT ![t] = None]
  /\ Goto(t, "using")
  /\ UNCHANGED <<kind, live, gone>>

Exchange(t) ==
  /\ pc[t] = "exchange"
  /\ IF instance = None
     THEN /\ instance' = mine[t]
          /\ answer' = [answer EXCEPT ![t] = mine[t]]
          /\ mine' = [mine EXCEPT ![t] = None]
          /\ Goto(t, "using")
     ELSE Goto(t, "lost") /\ UNCHANGED <<instance, answer, mine>>
  /\ UNCHANGED <<kind, live, gone>>

\* Mutants of Retry: the loser keeps its object; it does not load the
\* instance again but creates and exchanges for good.
RetryLeaking(t) ==
  /\ pc[t] = "lost"
  /\ mine' = [mine EXCEPT ![t] = None]
  /\ Goto(t, "get")
  /\ UNCHANGED <<kind, instance, live, gone, answer>>

RetryCreating(t) ==
  /\ pc[t] = "lost"
  /\ live' = live \ {mine[t]}
  /\ mine' = [mine EXCEPT ![t] = None]
  /\ Goto(t, "create")
  /\ UNCHANGED <<kind, instance, gone, answer>>

\* do_destroy, which spares Null, and goto retry.
Retry(t) ==
  /\ pc[t] = "lost"
  /\ live' = live \ {mine[t]}
  /\ mine' = [mine EXCEPT ![t] = None]
  /\ Goto(t, "get")
  /\ UNCHANGED <<kind, instance, gone, answer>>

\* The thread is done with the object.
Done(t) ==
  /\ pc[t] = "using"
  /\ answer' = [answer EXCEPT ![t] = None]
  /\ Goto(t, "idle")
  /\ UNCHANGED <<kind, instance, live, gone, mine>>

Unused == \A t \in Threads : pc[t] = "idle"

\* fini, when the last reference to the owner goes; an inert owner stays.
Fini ==
  /\ kind = "member" /\ ~gone /\ Unused
  /\ live' = live \ {instance}
  /\ gone' = TRUE
  /\ UNCHANGED <<kind, instance, pc, mine, answer>>

\* free_instance, at exit, once for every creation that registered it: the
\* pointer is emptied, and a later exit handler's get creates anew.
FreeInstance ==
  /\ kind = "static" /\ Unused
  /\ instance' = None
  /\ live' = live \ {instance}
  /\ UNCHANGED <<kind, gone, pc, mine, answer>>

-----------------------------------------------------------------------------
Step(t) == Get(t) \/ Create(t) \/ Exchange(t) \/ Retry(t)

Next ==
  \/ \E t \in Threads : Call(t) \/ Step(t) \/ Done(t)
  \/ Fini \/ FreeInstance

Spec == Init /\ [][Next]_vars

\* A running call is scheduled again and again; users owe nothing.
FairSpec == Spec /\ \A t \in Threads : WF_vars(Step(t))

-----------------------------------------------------------------------------
(* Properties.                                                              *)

\* All threads that use the loader at a time have the same object, also when
\* they created it at the same time or when some creations failed.
OneObject ==
  \A t, u \in Threads : answer[t] # None /\ answer[u] # None => answer[t] = answer[u]

\* The object in use exists: the loser of a race destroyed its own.
ObjectAlive == \A t \in Threads : answer[t] \in live \cup {Null, None}

\* Every object is the instance or belongs to one running call, and nothing
\* is left of a loader whose owner is gone.
ObjectsOwned ==
  live = IF gone THEN {}
         ELSE Objects \cap ({instance} \cup {mine[t] : t \in Threads})

\* A get answers with an object, or with Null once creation failed or for an
\* inert loader; it never answers nullptr, which its callers dereference.
NeverNullptr == \A t \in Threads : pc[t] = "using" => answer[t] # None

\* An inert object is constant memory: a loader in it stores nothing, and
\* creates nothing that would have nobody to destroy it.
InertUntouched == kind = "inert" => instance = None /\ live = {}

\* While anyone uses the loader or waits for it the instance, Null included,
\* is not replaced: a failed creation is final (get_stored).
InstanceKept == [][instance # None /\ ~Unused => instance' = instance]_instance

\* A get returns, however many threads race.
EveryGetReturns ==
  \A t \in Threads : pc[t] \in {"get", "create", "exchange", "lost"} ~> pc[t] = "using"
=============================================================================
