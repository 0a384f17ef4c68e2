--------------------------- MODULE ShapePlanCache ---------------------------
(***************************************************************************)
(* The shape plans cached in a face (src/src/hb-shape-plan.cc, hb-face.cc, *)
(* reference counts of hb-object.hh).  face->shape_plans is the head of a  *)
(* singly linked list that threads read without a lock and push nodes onto *)
(* with a compare-and-exchange.  A call of hb_shape_plan_create_cached2 is *)
(* a thread's walk through the values of pc:                               *)
(*                                                                         *)
(*   read     about to load face->shape_plans        (the label retry)     *)
(*   search   comparing node cur of the list it read                       *)
(*   found    about to take a reference on the plan of cur                 *)
(*   create   about to call hb_shape_plan_create2                          *)
(*   alloc    about to allocate the list node for the new plan, mine       *)
(*   link     about to compare-and-exchange the node, myNode, in           *)
(*   discard  lost the exchange, about to destroy plan and node            *)
(*   linked   about to take the caller's reference on the linked plan      *)
(*   private  about to create a plan for the inert face, never cached      *)
(*   holding  returned; the client owns a reference to the answer          *)
(*                                                                         *)
(* A freed node or plan may be allocated again at the same address: Nodes  *)
(* and Plans are addresses, the list is compared by address, and calloc    *)
(* fails when none is left or at any time.                                 *)
(***************************************************************************)
EXTENDS Integers, FiniteSets

CONSTANTS
  Threads,   \* threads that shape with the face
  Keys,      \* shape plan keys: properties, features, coordinates, shapers
  Shapeless, \* the keys for which no shaper can be chosen
  Nodes,     \* addresses of list nodes
  Plans,     \* addresses of shape plans
  Empty,     \* the inert plan of hb_shape_plan_get_empty
  None       \* nullptr

VARIABLES
  head, nodePlan, nodeNext, nodeUsed,  \* face->shape_plans and its nodes
  planKey, refs,                       \* the plans; refs = 0 is free memory, key None
  pc, want, seen, cur, mine, myNode,   \* locals of the running calls
  answer,                              \* what the client holds
  face, walk,                          \* "alive", "dying" or "gone"; destroy's node
  rank,                                \* auxiliary: length of the list from a node
  linked                               \* auxiliary: nodes exchanged in, not yet freed

nodeVars == <<nodePlan, nodeNext, nodeUsed, rank, linked>>
planVars == <<planKey, refs>>
faceVars == <<head, face, walk>>
localVars == <<want, seen, cur, mine, myNode>>
vars == <<faceVars, nodeVars, planVars, pc, localVars, answer>>

ASSUME CacheAssumption ==
  /\ Shapeless \subseteq Keys
  /\ None \notin Nodes \cup Plans
  /\ Empty \notin Plans \cup {None}

\* Counting owners and bounding the list takes finitely many of either.
ASSUME FiniteAssumption ==
  /\ IsFiniteSet(Threads) /\ IsFiniteSet(Nodes)
  /\ Threads \cap Nodes = {}

PCs == {"idle", "read", "search", "found", "create", "alloc", "link",
        "discard", "linked", "private", "holding"}

TypeOK ==
  /\ head \in Nodes \cup {None}
  /\ nodePlan \in [Nodes -> Plans \cup {Empty}]
  /\ nodeNext \in [Nodes -> Nodes \cup {None}]
  /\ nodeUsed \in SUBSET Nodes
  /\ planKey \in [Plans -> Keys \cup {None}]
  /\ refs \in [Plans -> Int]
  /\ pc \in [Threads -> PCs]
  /\ want \in [Threads -> Keys]
  /\ seen \in [Threads -> Nodes \cup {None}]
  /\ cur \in [Threads -> Nodes \cup {None}]
  /\ mine \in [Threads -> Plans \cup {Empty}]
  /\ myNode \in [Threads -> Nodes \cup {None}]
  /\ answer \in [Threads -> Plans \cup {Empty, None}]
  /\ face \in {"alive", "dying", "gone"}
  /\ walk \in Nodes \cup {None}
  /\ rank \in [Nodes -> Nat]
  /\ linked \in SUBSET Nodes

-----------------------------------------------------------------------------
(* Objects.                                                                 *)

\* hb_object_reference and hb_object_destroy: the inert plan is not counted.
Referenced(r, p) == IF p = Empty THEN r ELSE [r EXCEPT ![p] = @ + 1]

Released(r, p) == IF p = Empty THEN r ELSE [r EXCEPT ![p] = @ - 1]

\* hb_shape_plan_destroy: the plan is freed with its last reference.
DestroyPlan(p) ==
  /\ refs' = Released(refs, p)
  /\ planKey' = IF p # Empty /\ refs'[p] = 0 THEN [planKey EXCEPT ![p] = None] ELSE planKey

FreeNode(n) ==
  /\ nodeUsed' = nodeUsed \ {n}
  /\ nodePlan' = [nodePlan EXCEPT ![n] = Empty]
  /\ nodeNext' = [nodeNext EXCEPT ![n] = None]
  /\ rank' = [rank EXCEPT ![n] = 0]

RankOf(n) == IF n = None THEN 0 ELSE rank[n]

\* hb_shape_plan_create2: a plan with one reference, or the empty plan when
\* its memory, its copy of the features or its map cannot be had.  No plan is
\* made for a key without a shaper.
Created(t) ==
  \/ /\ want[t] \notin Shapeless
     /\ \E p \in Plans : /\ refs[p] = 0
                         /\ planKey' = [planKey EXCEPT ![p] = want[t]]
                         /\ refs' = [refs EXCEPT ![p] = 1]
                         /\ mine' = [mine EXCEPT ![t] = p]
  \/ mine' = [mine EXCEPT ![t] = Empty] /\ UNCHANGED planVars

\* hb_shape_plan_key_t::equal; the key of the empty plan has no shaper and
\* equals no key a call searches for.
Matches(n, k) == nodePlan[n] # Empty /\ planKey[nodePlan[n]] = k

Goto(t, label) == pc' = [pc EXCEPT ![t] = label]

\* The call returns p to the client; its locals are dead.
Return(t, p) ==
  /\ Goto(t, "holding")
  /\ answer' = [answer EXCEPT ![t] = p]
  /\ seen' = [seen EXCEPT ![t] = None]
  /\ cur' = [cur EXCEPT ![t] = None]
  /\ mine' = [mine EXCEPT ![t] = Empty]
  /\ myNode' = [myNode EXCEPT ![t] = None]

-----------------------------------------------------------------------------
Init ==
  /\ head = None
  /\ nodePlan = [n \in Nodes |-> Empty]
  /\ nodeNext = [n \in Nodes |-> None]
  /\ nodeUsed = {}
  /\ planKey = [p \in Plans |-> None]
  /\ refs = [p \in Plans |-> 0]
  /\ pc = [t \in Threads |-> "idle"]
  /\ want \in {[t \in Threads |-> k] : k \in Keys}
  /\ seen = [t \in Threads |-> None]
  /\ cur = [t \in Threads |-> None]
  /\ mine = [t \in Threads |-> Empty]
  /\ myNode = [t \in Threads |-> None]
  /\ answer = [t \in Threads |-> None]
  /\ face = "alive"
  /\ walk = None
  /\ rank = [n \in Nodes |-> 0]
  /\ linked = {}

-----------------------------------------------------------------------------
(* hb_shape_plan_create_cached2, by thread t.                               *)

\* A client calls with any key, for the face or for the inert empty face.
Call(t) ==
  /\ pc[t] = "idle" /\ face = "alive"
  /\ \E k \in Keys : want' = [want EXCEPT ![t] = k]
  /\ Goto(t, "read") \/ Goto(t, "private")
  /\ UNCHANGED <<faceVars, nodeVars, planVars, seen, cur, mine, myNode, answer>>

\* The inert face has no list: dont_cache.
CreatePrivate(t) ==
  /\ pc[t] = "private"
  /\ \/ /\ want[t] \notin Shapeless
        /\ \E p \in Plans : /\ refs[p] = 0
                            /\ planKey' = [planKey EXCEPT ![p] = want[t]]
                            /\ refs' = [refs EXCEPT ![p] = 1]
                            /\ Return(t, p)
     \/ Return(t, Empty) /\ UNCHANGED planVars
  /\ UNCHANGED <<faceVars, nodeVars, want>>

\* The load of the list's head, then key.init, which finds no shaper for some
\* keys and ends the call.
Read(t) ==
  /\ pc[t] = "read"
  /\ IF want[t] \in Shapeless
     THEN Return(t, Empty)
     ELSE /\ seen' = [seen EXCEPT ![t] = head]
          /\ cur' = [cur EXCEPT ![t] = head]
          /\ Goto(t, "search")
          /\ UNCHANGED <<mine, myNode, answer>>
  /\ UNCHANGED <<faceVars, nodeVars, planVars, want>>

\* Mutant of Search: the first node is taken for the one looked for.
SearchFirst(t) ==
  /\ pc[t] = "search"
  /\ Goto(t, IF cur[t] = None THEN "create" ELSE "found")
  /\ UNCHANGED <<faceVars, nodeVars, planVars, localVars, answer>>

\* One turn of the loop over the list.
Search(t) ==
  /\ pc[t] = "search"
  /\ \/ /\ cur[t] = None
        /\ Goto(t, "create")
        /\ UNCHANGED cur
     \/ /\ cur[t] # None /\ Matches(cur[t], want[t])
        /\ Goto(t, "found")
        /\ UNCHANGED cur
     \/ /\ cur[t] # None /\ ~Matches(cur[t], want[t])
        /\ cur' = [cur EXCEPT ![t] = nodeNext[@]]
        /\ UNCHANGED pc
  /\ UNCHANGED <<faceVars, nodeVars, planVars, want, seen, mine, myNode, answer>>

\* Mutant of Found: the cached plan is returned without a reference.
FoundBorrowed(t) ==
  /\ pc[t] = "found"
  /\ Return(t, nodePlan[cur[t]])
  /\ UNCHANGED <<faceVars, nodeVars, planVars, want>>

Found(t) ==
  /\ pc[t] = "found"
  /\ refs' = Referenced(refs, nodePlan[cur[t]])
  /\ Return(t, nodePlan[cur[t]])
  /\ UNCHANGED <<faceVars, nodeVars, planKey, want>>

Create(t) ==
  /\ pc[t] = "create"
  /\ Created(t)
  /\ Goto(t, "alloc")
  /\ UNCHANGED <<faceVars, nodeVars, want, seen, cur, myNode, answer>>

\* calloc of the node; without one the plan is returned uncached.
Alloc(t) ==
  /\ pc[t] = "alloc"
  /\ \/ \E n \in Nodes \ nodeUsed :
          /\ nodeUsed' = nodeUsed \cup {n}
          /\ nodePlan' = [nodePlan EXCEPT ![n] = mine[t]]
          /\ nodeNext' = [nodeNext EXCEPT ![n] = seen[t]]
          /\ rank' = [rank EXCEPT ![n] = RankOf(seen[t]) + 1]
          /\ myNode' = [myNode EXCEPT ![t] = n]
          /\ Goto(t, "link")
          /\ UNCHANGED <<linked, seen, cur, mine, answer>>
     \/ Return(t, mine[t]) /\ UNCHANGED nodeVars
  /\ UNCHANGED <<faceVars, planVars, want>>

\* Mutants of Link: a store in place of the exchange; an exchange against a
\* head read anew, past nodes that were not searched.
LinkStored(t) ==
  /\ pc[t] = "link"
  /\ head' = myNode[t]
  /\ linked' = linked \cup {myNode[t]}
  /\ Goto(t, "linked")
  /\ UNCHANGED <<face, walk, nodePlan, nodeNext, nodeUsed, rank, planVars, localVars, answer>>

LinkUnsearched(t) ==
  /\ pc[t] = "link"
  /\ head' = myNode[t]
  /\ nodeNext' = [nodeNext EXCEPT ![myNode[t]] = head]
  /\ rank' = [rank EXCEPT ![myNode[t]] = RankOf(head) + 1]
  /\ linked' = linked \cup {myNode[t]}
  /\ Goto(t, "linked")
  /\ UNCHANGED <<face, walk, nodePlan, nodeUsed, planVars, localVars, answer>>

\* The compare-and-exchange of face->shape_plans.
Link(t) ==
  /\ pc[t] = "link"
  /\ IF head = seen[t]
     THEN /\ head' = myNode[t]
          /\ linked' = linked \cup {myNode[t]}
          /\ Goto(t, "linked")
     ELSE Goto(t, "discard") /\ UNCHANGED <<head, linked>>
  /\ UNCHANGED <<face, walk, nodePlan, nodeNext, nodeUsed, rank, planVars, localVars, answer>>

\* Mutant of Discard: the plan that lost the race is not destroyed.
DiscardLeaking(t) ==
  /\ pc[t] = "discard"
  /\ FreeNode(myNode[t])
  /\ mine' = [mine EXCEPT ![t] = Empty]
  /\ myNode' = [myNode EXCEPT ![t] = None]
  /\ seen' = [seen EXCEPT ![t] = None]
  /\ cur' = [cur EXCEPT ![t] = None]
  /\ Goto(t, "read")
  /\ UNCHANGED <<faceVars, linked, planVars, want, answer>>

\* Mutant of Discard: the label retry stands after the load of the head.
DiscardUnread(t) ==
  /\ pc[t] = "discard"
  /\ DestroyPlan(mine[t])
  /\ FreeNode(myNode[t])
  /\ mine' = [mine EXCEPT ![t] = Empty]
  /\ myNode' = [myNode EXCEPT ![t] = None]
  /\ cur' = [cur EXCEPT ![t] = seen[t]]
  /\ Goto(t, "search")
  /\ UNCHANGED <<faceVars, linked, want, seen, answer>>

\* The loser destroys its plan and its node and tries again.
Discard(t) ==
  /\ pc[t] = "discard"
  /\ DestroyPlan(mine[t])
  /\ FreeNode(myNode[t])
  /\ mine' = [mine EXCEPT ![t] = Empty]
  /\ myNode' = [myNode EXCEPT ![t] = None]
  /\ seen' = [seen EXCEPT ![t] = None]
  /\ cur' = [cur EXCEPT ![t] = None]
  /\ Goto(t, "read")
  /\ UNCHANGED <<faceVars, linked, want, answer>>

\* The node keeps the creation's reference, the caller gets one of its own.
Linked(t) ==
  /\ pc[t] = "linked"
  /\ refs' = Referenced(refs, mine[t])
  /\ Return(t, mine[t])
  /\ UNCHANGED <<faceVars, nodeVars, planKey, want>>

-----------------------------------------------------------------------------
(* The client.                                                              *)

\* hb_shape_plan_destroy of the answer.
Destroy(t) ==
  /\ pc[t] = "holding"
  /\ DestroyPlan(answer[t])
  /\ answer' = [answer EXCEPT ![t] = None]
  /\ Goto(t, "idle")
  /\ UNCHANGED <<faceVars, nodeVars, localVars>>

\* The last reference to the face goes: no call on it is running.
DestroyFace ==
  /\ face = "alive"
  /\ \A t \in Threads : pc[t] \in {"idle", "holding"}
  /\ face' = "dying"
  /\ walk' = head
  /\ UNCHANGED <<head, nodeVars, planVars, pc, localVars, answer>>

\* One turn of hb_face_destroy's loop: the node's reference and the node go.
DestroyNode ==
  /\ face = "dying" /\ walk # None
  /\ DestroyPlan(nodePlan[walk])
  /\ FreeNode(walk)
  /\ linked' = linked \ {walk}
  /\ walk' = nodeNext[walk]
  /\ UNCHANGED <<head, face, pc, localVars, answer>>

FaceGone ==
  /\ face = "dying" /\ walk = None
  /\ face' = "gone"
  /\ head' = None
  /\ UNCHANGED <<walk, nodeVars, planVars, pc, localVars, answer>>

-----------------------------------------------------------------------------
Step(t) ==
  \/ CreatePrivate(t) \/ Read(t) \/ Search(t) \/ Found(t) \/ Create(t)
  \/ Alloc(t) \/ Link(t) \/ Discard(t) \/ Linked(t)

Next ==
  \/ \E t \in Threads : Call(t) \/ Step(t) \/ Destroy(t)
  \/ DestroyFace \/ DestroyNode \/ FaceGone

Spec == Init /\ [][Next]_vars

\* A running call is scheduled again and again; clients owe nothing.
FairSpec == Spec /\ \A t \in Threads : WF_vars(Step(t))

-----------------------------------------------------------------------------
(* Properties.                                                              *)

\* At most one node of a face's list has the plan of a given key, whatever
\* the threads that missed it at the same time did (hb-shape-plan.cc:504).
NoKeyCachedTwice ==
  \A n, m \in linked :
    n # m /\ nodePlan[n] # Empty /\ nodePlan[m] # Empty
      => planKey[nodePlan[n]] # planKey[nodePlan[m]]

\* The nodes one reaches from h.
ListFrom(h) ==
  LET reach[i \in 0 .. Cardinality(Nodes)] ==
        IF i = 0 THEN {h} \ {None}
        ELSE (reach[i - 1] \cup {nodeNext[n] : n \in reach[i - 1]}) \ {None}
  IN reach[Cardinality(Nodes)]

\* No node is ever lost from the list: those exchanged in are those one
\* reaches from the head, or, while the face is destroyed, from the walk.
NoNodeLost ==
  linked = CASE face = "alive" -> ListFrom(head)
             [] face = "dying" -> ListFrom(walk)
             [] face = "gone"  -> {}

\* The references to plan p: one for each node of the list and one for each
\* client's answer or for the call that is still to give its plan away.
Owners(p) ==
  {n \in linked : nodePlan[n] = p}
  \cup {t \in Threads : \/ answer[t] = p
                        \/ pc[t] \in {"alloc", "link", "discard"} /\ mine[t] = p}

\* Every plan has exactly as many references as owners: none leaks when a
\* thread loses the race, none is freed under a client (hb-shape-plan.cc:506).
ReferencesAccountedFor == \A p \in Plans : refs[p] = Cardinality(Owners(p))

\* What a call is about to read or to reference has not been freed, although
\* it took no lock and owns no reference to it yet.
NothingDangling ==
  \A t \in Threads :
    /\ cur[t] # None => cur[t] \in linked
    /\ seen[t] # None => seen[t] \in linked
    /\ pc[t] = "found" => nodePlan[cur[t]] # Empty /\ refs[nodePlan[cur[t]]] > 0
    /\ pc[t] = "linked" => mine[t] = Empty \/ refs[mine[t]] > 0

\* A call returns, however often it loses the exchange and starts again.
EveryCallReturns ==
  \A t \in Threads : pc[t] \notin {"idle", "holding"} ~> pc[t] = "holding"

-----------------------------------------------------------------------------
(* The abstract specification.                                              *)

MemoOf(k) ==
  IF \E n \in linked : Matches(n, k)
  THEN nodePlan[CHOOSE n \in linked : Matches(n, k)]
  ELSE None

Memo == INSTANCE PlanMemo WITH
  memo <- [k \in Keys |-> MemoOf(k)], want <- want, answer <- answer,
  over <- face # "alive"

\* Callers cannot tell the list and its races from an atomic memo.  While the
\* face lives the plan remembered for a key never changes and is not
\* forgotten, so the calls it answers all get the same plan; another call
\* gets a plan nobody else has (made for the inert face, or without memory
\* for its node) or the empty one (no shaper, or no memory for a plan).  Plans
\* are forgotten only by the face's destruction (hb-face.cc:262).
ImplementsMemo == [][Memo!Next]_(Memo!memoVars)
=============================================================================
