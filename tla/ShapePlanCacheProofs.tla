------------------------ MODULE ShapePlanCacheProofs ------------------------
(***************************************************************************)
(* Proofs about ShapePlanCache, for any number of threads, keys, nodes and *)
(* plans.  Nodes are ranked by their depth in the list, as in              *)
(* LanguageListProofs: an exchange that succeeds proves that the head the  *)
(* thread read is still the head, hence that it compared every node.  A    *)
(* plan's owners are counted in the same invariant, because the keys a     *)
(* thread compares are those of plans that must not have been freed and    *)
(* made again for another key meanwhile.                                   *)
(***************************************************************************)
EXTENDS ShapePlanCache, FiniteSetTheorems, WellFoundedInduction, TLAPS

Outside(t) == pc[t] \in {"idle", "read", "private", "holding"}
Searching(t) == pc[t] \in {"search", "found", "create", "alloc", "link"}
Preparing(t) == pc[t] \in {"alloc", "link", "discard"}
OwningNode(t) == pc[t] \in {"link", "discard"}

\* The node one finds all others from: the head, or where destroy has got to.
Top == IF face = "alive" THEN head ELSE IF face = "dying" THEN walk ELSE None

\* Linked nodes have distinct ranks up to the top's, and each one's successor
\* is linked and has the rank below.
ListInv ==
  /\ Top \in linked \cup {None}
  /\ linked \subseteq nodeUsed
  /\ \A n \in linked :
       /\ rank[n] > 0 /\ rank[n] <= RankOf(Top)
       /\ nodeNext[n] \in linked \cup {None}
       /\ RankOf(nodeNext[n]) = rank[n] - 1
  /\ \A n, m \in linked : rank[n] = rank[m] => n = m

\* What a call has walked over is linked, and not what it looks for.
SearchInv ==
  \A t \in Threads :
    /\ {seen[t], cur[t]} \subseteq linked \cup {None}
    /\ pc[t] \in {"create", "alloc", "link"} => cur[t] = None
    /\ Outside(t) => seen[t] = None /\ cur[t] = None
    /\ pc[t] = "found" => cur[t] # None /\ Matches(cur[t], want[t])
    /\ Searching(t) =>
         \A n \in linked : RankOf(cur[t]) < rank[n] /\ rank[n] <= RankOf(seen[t])
                             => ~Matches(n, want[t])

\* The plan a call prepares is its own and for its key; so is its node, which
\* stands in front of the head it read.
OwnInv ==
  /\ \A t \in Threads :
       /\ (Preparing(t) \/ pc[t] = "linked") /\ mine[t] # Empty
            => planKey[mine[t]] = want[t]
       /\ Preparing(t) /\ mine[t] # Empty => Owners(mine[t]) = {t}
       /\ OwningNode(t) =>
            /\ myNode[t] \in nodeUsed \ linked
            /\ nodePlan[myNode[t]] = mine[t]
            /\ nodeNext[myNode[t]] = seen[t]
            /\ rank[myNode[t]] = RankOf(seen[t]) + 1
       /\ pc[t] = "linked" => myNode[t] \in linked /\ nodePlan[myNode[t]] = mine[t]
       /\ pc[t] \notin {"alloc", "link", "discard", "linked"} => mine[t] = Empty
       /\ answer[t] = None <=> pc[t] # "holding"
  /\ \A t, u \in Threads :
       OwningNode(t) /\ OwningNode(u) /\ myNode[t] = myNode[u] => t = u

\* A face is destroyed when no call runs on it.
PhaseInv == face # "alive" => \A t \in Threads : pc[t] \in {"idle", "holding"}

CacheInv ==
  /\ TypeOK /\ ListInv /\ SearchInv /\ OwnInv /\ PhaseInv
  /\ NoKeyCachedTwice /\ ReferencesAccountedFor
-----------------------------------------------------------------------------
(* Owners.                                                                  *)

LEMMA OwnersFinite ==
  ASSUME TypeOK, NEW p
  PROVE  IsFiniteSet(Owners(p))
<1> DEFINE A == {n \in linked : nodePlan[n] = p}
           B == {t \in Threads : \/ answer[t] = p
                                 \/ pc[t] \in {"alloc", "link", "discard"} /\ mine[t] = p}
<1>1. IsFiniteSet(A)
  <2>1. A \in SUBSET Nodes
    BY DEF TypeOK
  <2> QED BY <2>1, FiniteAssumption, FS_Subset
<1>2. IsFiniteSet(B)
  <2>1. B \in SUBSET Threads
    OBVIOUS
  <2> QED BY <2>1, FiniteAssumption, FS_Subset
<1>3. Owners(p) = A \cup B
  BY DEF Owners
<1>4. IsFiniteSet(A \cup B)
  <2> HIDE DEF A, B
  <2> QED BY <1>1, <1>2, FS_Union
<1> QED BY <1>3, <1>4

\* A plan is free memory exactly when it has no owner.
LEMMA FreeIsUnowned ==
  ASSUME TypeOK, ReferencesAccountedFor, NEW p \in Plans
  PROVE  refs[p] \in Nat /\ (refs[p] = 0 <=> Owners(p) = {})
<1>1. IsFiniteSet(Owners(p))
  BY OwnersFinite
<1>2. refs[p] = Cardinality(Owners(p))
  BY DEF ReferencesAccountedFor
<1>3. Cardinality(Owners(p)) \in Nat
  BY <1>1, FS_CardinalityType
<1>4. Cardinality(Owners(p)) = 0 <=> Owners(p) = {}
  <2> DEFINE S == Owners(p)
  <2>1. IsFiniteSet(S)
    BY <1>1
  <2> HIDE DEF S
  <2>2. Cardinality(S) = 0 <=> S = {}
    BY <2>1, FS_EmptySet, Zenon
  <2> QED BY <2>2 DEF S
<1> QED BY <1>2, <1>3, <1>4

LEMMA OwnerAdded ==
  ASSUME TypeOK, ReferencesAccountedFor, NEW p \in Plans, NEW x, x \notin Owners(p)
  PROVE  Cardinality(Owners(p) \cup {x}) = refs[p] + 1
<1>1. IsFiniteSet(Owners(p))
  BY OwnersFinite
<1> QED BY <1>1, FS_AddElement DEF ReferencesAccountedFor

LEMMA OwnerRemoved ==
  ASSUME TypeOK, ReferencesAccountedFor, NEW p \in Plans, NEW x \in Owners(p)
  PROVE  Cardinality(Owners(p) \ {x}) = refs[p] - 1
<1>1. IsFiniteSet(Owners(p))
  BY OwnersFinite
<1> QED BY <1>1, FS_RemoveElement DEF ReferencesAccountedFor

\* An owner hands its reference to another.
LEMMA OwnerReplaced ==
  ASSUME TypeOK, ReferencesAccountedFor, NEW p \in Plans,
         NEW x \in Owners(p), NEW y, y \notin Owners(p)
  PROVE  Cardinality((Owners(p) \ {x}) \cup {y}) = refs[p]
<1>1. IsFiniteSet(Owners(p)) /\ IsFiniteSet(Owners(p) \ {x})
  BY OwnersFinite, FS_RemoveElement
<1>2. Cardinality(Owners(p) \ {x}) = refs[p] - 1
  BY OwnerRemoved
<1>3. refs[p] \in Int
  BY DEF TypeOK
<1> DEFINE S == Owners(p) \ {x}
<1>4. IsFiniteSet(S) /\ Cardinality(S) = refs[p] - 1 /\ y \notin S
  BY <1>1, <1>2
<1> HIDE DEF S
<1>5. Cardinality(S \cup {y}) = Cardinality(S) + 1
  BY <1>4, FS_AddElement
<1>6. Cardinality(S \cup {y}) = refs[p]
  BY <1>3, <1>4, <1>5
<1> QED BY <1>6 DEF S

-----------------------------------------------------------------------------
LEMMA InitInv == Init => CacheInv
<1> SUFFICES ASSUME Init PROVE CacheInv
  OBVIOUS
<1> USE CacheAssumption DEF Init
<1>1. TypeOK  BY DEF TypeOK, PCs
<1>2. ListInv  BY DEF ListInv, Top
<1>3. SearchInv  BY DEF SearchInv, Searching, Outside
<1>4. OwnInv  BY DEF OwnInv, Preparing, OwningNode
<1>5. PhaseInv  BY DEF PhaseInv
<1>6. NoKeyCachedTwice  BY DEF NoKeyCachedTwice
<1>7. ReferencesAccountedFor
  <2>1. ASSUME NEW p \in Plans PROVE Owners(p) = {}
    BY DEF Owners
  <2>2. ASSUME NEW p \in Plans PROVE Cardinality(Owners(p)) = 0
    BY <2>1, FS_EmptySet
  <2> QED BY <2>2 DEF ReferencesAccountedFor
<1> QED BY <1>1, <1>2, <1>3, <1>4, <1>5, <1>6, <1>7 DEF CacheInv

LEMMA CallStep ==
  ASSUME CacheInv, NEW t \in Threads, Call(t)
  PROVE  CacheInv'
<1> USE CacheAssumption DEF Call, Goto, faceVars, nodeVars, planVars, CacheInv
<1>1. TypeOK'  BY DEF TypeOK, PCs
<1>2. ListInv'  BY DEF ListInv, Top, RankOf
<1>3. SearchInv'
  BY DEF SearchInv, Searching, Outside, TypeOK, Matches, RankOf
<1>4. OwnInv'
  <2>1. \A p : Owners(p)' = Owners(p)
    BY DEF Owners, TypeOK
  <2> QED BY <2>1 DEF OwnInv, Preparing, OwningNode, TypeOK, RankOf
<1>5. PhaseInv'  BY DEF PhaseInv
<1>6. NoKeyCachedTwice'  BY DEF NoKeyCachedTwice
<1>7. ReferencesAccountedFor'
  <2>1. \A p : Owners(p)' = Owners(p)
    BY DEF Owners, TypeOK
  <2> QED BY <2>1 DEF ReferencesAccountedFor
<1> QED BY <1>1, <1>2, <1>3, <1>4, <1>5, <1>6, <1>7 DEF CacheInv

\* Nothing refers to free memory that a new plan gets.
LEMMA FreshPlan ==
  ASSUME CacheInv, NEW p \in Plans, refs[p] = 0
  PROVE  /\ Owners(p) = {}
         /\ \A n \in linked : nodePlan[n] # p
         /\ \A u \in Threads : mine[u] # p /\ answer[u] # p
<1> USE DEF CacheInv
<1>1. Owners(p) = {}
  BY FreeIsUnowned
<1>2. \A n \in linked : nodePlan[n] # p
  BY <1>1 DEF Owners
<1>3. \A u \in Threads : answer[u] # p
  BY <1>1 DEF Owners
<1>4. ASSUME NEW u \in Threads, mine[u] = p PROVE FALSE
  <2>1. Preparing(u) \/ pc[u] = "linked"
    BY <1>4, CacheAssumption DEF OwnInv, Preparing, TypeOK, PCs
  <2>2. pc[u] # "linked"
    BY <1>2, <1>4 DEF OwnInv
  <2>3. u \in Owners(p)
    BY <1>4, <2>1, <2>2 DEF Owners, Preparing
  <2> QED BY <1>1, <2>3
<1> QED BY <1>1, <1>2, <1>3, <1>4

LEMMA CreatePrivateStep ==
  ASSUME CacheInv, NEW t \in Threads, CreatePrivate(t)
  PROVE  CacheInv'
<1> USE CacheAssumption DEF Goto, Return, faceVars, nodeVars, CacheInv
<1>0. pc[t] = "private" /\ UNCHANGED <<head, face, walk, nodePlan, nodeNext, nodeUsed, rank, linked, want>>
  BY DEF CreatePrivate
<1>1. CASE Return(t, Empty) /\ UNCHANGED planVars
  <2> USE <1>0, <1>1 DEF planVars
  <2>0. \A p \in Plans : Owners(p)' = Owners(p)
    BY DEF Owners, TypeOK, OwnInv
  <2>1. TypeOK'  BY DEF TypeOK, PCs
  <2>2. ListInv'  BY DEF ListInv, Top, RankOf
  <2>3. SearchInv'
    BY DEF SearchInv, Searching, Outside, TypeOK, Matches, RankOf
  <2>4. OwnInv'
    BY <2>0 DEF OwnInv, Preparing, OwningNode, TypeOK, RankOf
  <2>5. PhaseInv'  BY DEF PhaseInv, TypeOK
  <2>6. NoKeyCachedTwice'  BY DEF NoKeyCachedTwice
  <2>7. ReferencesAccountedFor'
    BY <2>0 DEF ReferencesAccountedFor
  <2> QED BY <2>1, <2>2, <2>3, <2>4, <2>5, <2>6, <2>7
<1>2. ASSUME NEW p \in Plans, refs[p] = 0, want[t] \notin Shapeless,
             planKey' = [planKey EXCEPT ![p] = want[t]],
             refs' = [refs EXCEPT ![p] = 1], Return(t, p)
      PROVE  CacheInv'
  <2> USE <1>0, <1>2
  <2>a. /\ Owners(p) = {}
        /\ \A n \in linked : nodePlan[n] # p
        /\ \A u \in Threads : mine[u] # p /\ answer[u] # p
    BY FreshPlan
  <2>b. Owners(p)' = {t}
    BY <2>a DEF Owners, TypeOK
  <2>c. \A q \in Plans \ {p} : Owners(q)' = Owners(q)
    BY DEF Owners, TypeOK, OwnInv
  <2>d. \A n \in linked : \A k : Matches(n, k)' = Matches(n, k)
    BY <2>a DEF Matches, TypeOK
  <2>1. TypeOK'  BY DEF TypeOK, PCs
  <2>2. ListInv'  BY DEF ListInv, Top, RankOf
  <2>3. SearchInv'
    BY <2>d DEF SearchInv, Searching, Outside, TypeOK, RankOf
  <2>4. OwnInv'
    BY <2>a, <2>c DEF OwnInv, Preparing, OwningNode, TypeOK, RankOf
  <2>5. PhaseInv'  BY DEF PhaseInv, TypeOK
  <2>6. NoKeyCachedTwice'  BY <2>a DEF NoKeyCachedTwice, TypeOK
  <2>7. ReferencesAccountedFor'
    <3>1. Cardinality(Owners(p)') = refs'[p]
      BY <2>b, FS_Singleton DEF TypeOK
    <3>2. \A q \in Plans \ {p} : refs'[q] = refs[q]
      BY DEF TypeOK
    <3> QED BY <2>c, <3>1, <3>2 DEF ReferencesAccountedFor
  <2> QED BY <2>1, <2>2, <2>3, <2>4, <2>5, <2>6, <2>7
<1> QED BY <1>1, <1>2 DEF CreatePrivate

LEMMA ReadStep ==
  ASSUME CacheInv, NEW t \in Threads, Read(t)
  PROVE  CacheInv'
<1> USE CacheAssumption DEF Read, Goto, Return, faceVars, nodeVars, planVars, CacheInv
<1>0. \A p \in Plans : Owners(p)' = Owners(p)
  BY DEF Owners, TypeOK, OwnInv
<1>1. TypeOK'  BY DEF TypeOK, PCs
<1>2. ListInv'  BY DEF ListInv, Top, RankOf
<1>3. SearchInv'
  <2>1. face = "alive" /\ head \in linked \cup {None}
    BY DEF PhaseInv, TypeOK, ListInv, Top
  <2> QED BY <2>1 DEF SearchInv, Searching, Outside, TypeOK, Matches, RankOf
<1>4. OwnInv'
  BY <1>0 DEF OwnInv, Preparing, OwningNode, TypeOK, RankOf
<1>5. PhaseInv'  BY DEF PhaseInv, TypeOK
<1>6. NoKeyCachedTwice'  BY DEF NoKeyCachedTwice
<1>7. ReferencesAccountedFor'  BY <1>0 DEF ReferencesAccountedFor
<1> QED BY <1>1, <1>2, <1>3, <1>4, <1>5, <1>6, <1>7 DEF CacheInv

LEMMA SearchStep ==
  ASSUME CacheInv, NEW t \in Threads, Search(t)
  PROVE  CacheInv'
<1> USE CacheAssumption DEF Search, Goto, faceVars, nodeVars, planVars, CacheInv
<1>0. \A p \in Plans : Owners(p)' = Owners(p)
  BY DEF Owners, TypeOK, OwnInv
<1>1. TypeOK'  BY DEF TypeOK, PCs
<1>2. ListInv'  BY DEF ListInv, Top, RankOf
<1>3. SearchInv'
  <2>1. \A n \in linked : rank[n] \in Nat
    BY DEF TypeOK, ListInv
  <2>2. ASSUME cur[t] # None, ~Matches(cur[t], want[t]), cur' = [cur EXCEPT ![t] = nodeNext[@]]
        PROVE  /\ cur'[t] \in linked \cup {None}
               /\ RankOf(cur'[t]) = rank[cur[t]] - 1
               /\ \A n \in linked : RankOf(cur'[t]) < rank[n] => RankOf(cur[t]) < rank[n] \/ n = cur[t]
    BY <2>1, <2>2 DEF SearchInv, ListInv, TypeOK, RankOf
  <2> QED BY <2>1, <2>2 DEF SearchInv, Searching, Outside, TypeOK, Matches, RankOf, ListInv
<1>4. OwnInv'
  BY <1>0 DEF OwnInv, Preparing, OwningNode, TypeOK, RankOf
<1>5. PhaseInv'  BY DEF PhaseInv, TypeOK
<1>6. NoKeyCachedTwice'  BY DEF NoKeyCachedTwice
<1>7. ReferencesAccountedFor'  BY <1>0 DEF ReferencesAccountedFor
<1> QED BY <1>1, <1>2, <1>3, <1>4, <1>5, <1>6, <1>7 DEF CacheInv

\* The plan a call prepares is cached by no node and held by nobody else.
LEMMA PreparedAlone ==
  ASSUME CacheInv, NEW t \in Threads, Preparing(t), mine[t] # Empty
  PROVE  /\ mine[t] \in Plans /\ Owners(mine[t]) = {t} /\ refs[mine[t]] = 1
         /\ \A n \in linked : nodePlan[n] # mine[t]
         /\ \A u \in Threads : answer[u] # mine[t]
         /\ \A u \in Threads \ {t} : mine[u] # mine[t]
<1> USE DEF CacheInv
<1>1. mine[t] \in Plans /\ Owners(mine[t]) = {t}
  BY DEF TypeOK, OwnInv
<1>2. refs[mine[t]] = 1
  BY <1>1, FS_Singleton DEF ReferencesAccountedFor
<1>3. \A n \in linked : nodePlan[n] # mine[t]
  BY <1>1, FiniteAssumption DEF Owners, TypeOK
<1>4. \A u \in Threads : answer[u] # mine[t]
  <2>1. answer[t] = None
    BY DEF OwnInv, Preparing
  <2>2. \A u \in Threads : answer[u] = mine[t] => u = t
    BY <1>1 DEF Owners
  <2> QED BY <1>1, <2>1, <2>2, CacheAssumption
<1>5. ASSUME NEW u \in Threads \ {t}, mine[u] = mine[t] PROVE FALSE
  <2>1. Preparing(u) \/ pc[u] = "linked"
    BY <1>5 DEF OwnInv, Preparing
  <2>2. pc[u] # "linked"
    BY <1>3, <1>5 DEF OwnInv
  <2>3. u \in Owners(mine[t])
    BY <1>5, <2>1, <2>2 DEF Owners, Preparing
  <2> QED BY <1>1, <1>5, <2>3
<1> QED BY <1>1, <1>2, <1>3, <1>4, <1>5

LEMMA FoundStep ==
  ASSUME CacheInv, NEW t \in Threads, Found(t)
  PROVE  CacheInv'
<1> USE CacheAssumption DEF Found, Goto, Return, faceVars, nodeVars, planVars, CacheInv
<1>0. PICK p \in Plans : cur[t] \in linked /\ nodePlan[cur[t]] = p
  BY DEF SearchInv, Matches, TypeOK
<1>a. refs' = [refs EXCEPT ![p] = @ + 1]
  BY <1>0 DEF Referenced
<1>b. t \notin Owners(p) /\ Owners(p)' = Owners(p) \cup {t}
  BY <1>0, FiniteAssumption DEF Owners, TypeOK, OwnInv
<1>c. \A q \in Plans \ {p} : Owners(q)' = Owners(q)
  BY <1>0 DEF Owners, TypeOK, OwnInv
<1>1. TypeOK'  BY <1>0, <1>a DEF TypeOK, PCs
<1>2. ListInv'  BY DEF ListInv, Top, RankOf
<1>3. SearchInv'
  BY DEF SearchInv, Searching, Outside, TypeOK, Matches, RankOf
<1>4. OwnInv'
  <2>1. ASSUME NEW u \in Threads, Preparing(u), mine[u] # Empty
        PROVE  mine[u] # p
    BY <1>0, <2>1, PreparedAlone
  <2>2. \A u \in Threads : Preparing(u)' => Preparing(u) /\ mine'[u] = mine[u]
    BY DEF Preparing, TypeOK
  <2>3. ASSUME NEW u \in Threads, Preparing(u)', mine'[u] # Empty
        PROVE  Owners(mine[u])' = {u}
    BY <1>c, <2>1, <2>2, <2>3 DEF OwnInv, TypeOK
  <2>4. answer'[t] # None /\ pc'[t] = "holding" /\ mine'[t] = Empty
    BY <1>0 DEF TypeOK
  <2>5. \A u \in Threads \ {t} :
           /\ pc'[u] = pc[u] /\ mine'[u] = mine[u] /\ myNode'[u] = myNode[u]
           /\ seen'[u] = seen[u] /\ answer'[u] = answer[u]
    BY DEF TypeOK
  <2> QED BY <2>2, <2>3, <2>4, <2>5 DEF OwnInv, Preparing, OwningNode, RankOf
<1>5. PhaseInv'  BY DEF PhaseInv, TypeOK
<1>6. NoKeyCachedTwice'  BY DEF NoKeyCachedTwice
<1>7. ReferencesAccountedFor'
  <2>1. Cardinality(Owners(p)') = refs'[p]
    BY <1>0, <1>a, <1>b, OwnerAdded DEF TypeOK
  <2>2. \A q \in Plans \ {p} : refs'[q] = refs[q]
    BY <1>a DEF TypeOK
  <2> QED BY <1>c, <2>1, <2>2 DEF ReferencesAccountedFor
<1> QED BY <1>1, <1>2, <1>3, <1>4, <1>5, <1>6, <1>7 DEF CacheInv

LEMMA CreateStep ==
  ASSUME CacheInv, NEW t \in Threads, Create(t)
  PROVE  CacheInv'
<1> USE CacheAssumption DEF Goto, faceVars, nodeVars, CacheInv
<1>0. /\ pc[t] = "create" /\ pc' = [pc EXCEPT ![t] = "alloc"]
      /\ UNCHANGED <<head, face, walk, nodePlan, nodeNext, nodeUsed, rank, linked,
                     want, seen, cur, myNode, answer>>
  BY DEF Create
<1>1. CASE mine' = [mine EXCEPT ![t] = Empty] /\ UNCHANGED planVars
  <2> USE <1>0, <1>1 DEF planVars
  <2>0. \A p \in Plans : Owners(p)' = Owners(p)
    BY DEF Owners, TypeOK, OwnInv
  <2>1. TypeOK'  BY DEF TypeOK, PCs
  <2>2. ListInv'  BY DEF ListInv, Top, RankOf
  <2>3. SearchInv'
    BY DEF SearchInv, Searching, Outside, TypeOK, Matches, RankOf
  <2>4. OwnInv'
    BY <2>0 DEF OwnInv, Preparing, OwningNode, TypeOK, RankOf
  <2>5. PhaseInv'  BY DEF PhaseInv, TypeOK
  <2>6. NoKeyCachedTwice'  BY DEF NoKeyCachedTwice
  <2>7. ReferencesAccountedFor'
    BY <2>0 DEF ReferencesAccountedFor
  <2> QED BY <2>1, <2>2, <2>3, <2>4, <2>5, <2>6, <2>7
<1>2. ASSUME NEW p \in Plans, refs[p] = 0, want[t] \notin Shapeless,
             planKey' = [planKey EXCEPT ![p] = want[t]],
             refs' = [refs EXCEPT ![p] = 1], mine' = [mine EXCEPT ![t] = p]
      PROVE  CacheInv'
  <2> USE <1>0, <1>2
  <2>a. /\ Owners(p) = {}
        /\ \A n \in linked : nodePlan[n] # p
        /\ \A u \in Threads : mine[u] # p /\ answer[u] # p
    BY FreshPlan
  <2>b. Owners(p)' = {t}
    BY <2>a DEF Owners, TypeOK
  <2>c. \A q \in Plans \ {p} : Owners(q)' = Owners(q)
    BY DEF Owners, TypeOK, OwnInv
  <2>d. \A n \in linked : \A k : Matches(n, k)' = Matches(n, k)
    BY <2>a DEF Matches, TypeOK
  <2>1. TypeOK'  BY DEF TypeOK, PCs
  <2>2. ListInv'  BY DEF ListInv, Top, RankOf
  <2>3. SearchInv'
    BY <2>d DEF SearchInv, Searching, Outside, TypeOK, RankOf
  <2>4. OwnInv'
    BY <2>a, <2>b, <2>c DEF OwnInv, Preparing, OwningNode, TypeOK, RankOf
  <2>5. PhaseInv'  BY DEF PhaseInv, TypeOK
  <2>6. NoKeyCachedTwice'  BY <2>a DEF NoKeyCachedTwice, TypeOK
  <2>7. ReferencesAccountedFor'
    <3>1. Cardinality(Owners(p)') = refs'[p]
      BY <2>b, FS_Singleton DEF TypeOK
    <3>2. \A q \in Plans \ {p} : refs'[q] = refs[q]
      BY DEF TypeOK
    <3> QED BY <2>c, <3>1, <3>2 DEF ReferencesAccountedFor
  <2> QED BY <2>1, <2>2, <2>3, <2>4, <2>5, <2>6, <2>7
<1> QED BY <1>1, <1>2 DEF Create, Created

LEMMA AllocStep ==
  ASSUME CacheInv, NEW t \in Threads, Alloc(t)
  PROVE  CacheInv'
<1> USE CacheAssumption DEF Goto, faceVars, planVars, CacheInv
<1>0. pc[t] = "alloc" /\ UNCHANGED <<head, face, walk, planKey, refs, want>>
  BY DEF Alloc
<1>1. CASE Return(t, mine[t]) /\ UNCHANGED nodeVars
  <2> USE <1>0, <1>1 DEF Return, nodeVars
  <2>0. \A p \in Plans : Owners(p)' = Owners(p)
    BY DEF Owners, TypeOK, OwnInv
  <2>1. TypeOK'  BY DEF TypeOK, PCs
  <2>2. ListInv'  BY DEF ListInv, Top, RankOf
  <2>3. SearchInv'
    BY DEF SearchInv, Searching, Outside, TypeOK, Matches, RankOf
  <2>4. OwnInv'
    BY <2>0 DEF OwnInv, Preparing, OwningNode, TypeOK, RankOf
  <2>5. PhaseInv'  BY DEF PhaseInv, TypeOK
  <2>6. NoKeyCachedTwice'  BY DEF NoKeyCachedTwice
  <2>7. ReferencesAccountedFor'
    BY <2>0 DEF ReferencesAccountedFor
  <2> QED BY <2>1, <2>2, <2>3, <2>4, <2>5, <2>6, <2>7
<1>2. ASSUME NEW n \in Nodes \ nodeUsed,
             nodeUsed' = nodeUsed \cup {n},
             nodePlan' = [nodePlan EXCEPT ![n] = mine[t]],
             nodeNext' = [nodeNext EXCEPT ![n] = seen[t]],
             rank' = [rank EXCEPT ![n] = RankOf(seen[t]) + 1],
             myNode' = [myNode EXCEPT ![t] = n],
             pc' = [pc EXCEPT ![t] = "link"],
             UNCHANGED <<linked, seen, cur, mine, answer>>
      PROVE  CacheInv'
  <2> USE <1>0, <1>2
  <2>a. n \notin linked /\ n # None
    BY DEF ListInv
  <2>b. \A m \in Nodes \ {n} : /\ nodePlan'[m] = nodePlan[m] /\ nodeNext'[m] = nodeNext[m]
                               /\ rank'[m] = rank[m]
    BY DEF TypeOK
  <2>c. \A x \in linked \cup {None} : RankOf(x)' = RankOf(x)
    BY <2>a, <2>b DEF RankOf, TypeOK
  <2>d. linked \subseteq Nodes \ {n}
    BY <2>a DEF TypeOK
  <2>e. \A m \in linked : \A k : Matches(m, k)' = Matches(m, k)
    BY <2>b, <2>d DEF Matches
  <2>0. \A p \in Plans : Owners(p)' = Owners(p)
    BY <2>b, <2>d DEF Owners, TypeOK
  <2>1. TypeOK'
    <3>1. RankOf(seen[t]) \in Nat
      BY DEF RankOf, TypeOK
    <3> QED BY <3>1 DEF TypeOK, PCs
  <2>2. ListInv'
    <3>1. Top' = Top
      BY DEF Top
    <3> QED BY <2>b, <2>c, <2>d, <3>1 DEF ListInv
  <2>3. SearchInv'
    BY <2>b, <2>c, <2>d, <2>e DEF SearchInv, Searching, Outside, TypeOK
  <2>4. OwnInv'
    <3>1. ASSUME NEW u \in Threads \ {t}
          PROVE  /\ OwningNode(u)' = OwningNode(u) /\ Preparing(u)' = Preparing(u)
                 /\ pc'[u] = pc[u] /\ myNode'[u] = myNode[u]
                 /\ OwningNode(u) => myNode[u] \in Nodes \ {n}
                 /\ RankOf(seen[u])' = RankOf(seen[u])
      BY <2>c DEF OwningNode, Preparing, OwnInv, TypeOK, SearchInv
    <3>2. /\ myNode'[t] = n /\ nodePlan'[n] = mine[t] /\ nodeNext'[n] = seen[t]
          /\ rank'[n] = RankOf(seen[t]) + 1 /\ RankOf(seen[t])' = RankOf(seen[t])
          /\ pc'[t] = "link" /\ Preparing(t) /\ answer[t] = None
      BY <2>c DEF TypeOK, SearchInv, Preparing, OwnInv
    <3>3. \A u \in Threads : /\ (Preparing(u) \/ pc[u] = "linked") /\ mine[u] # Empty
                                  => planKey[mine[u]] = want[u]
                             /\ Preparing(u) /\ mine[u] # Empty => Owners(mine[u])' = {u}
      BY <2>0 DEF OwnInv, TypeOK
    <3>4. ASSUME NEW u \in Threads, OwningNode(u)'
          PROVE  /\ myNode'[u] \in nodeUsed' \ linked'
                 /\ nodePlan'[myNode'[u]] = mine'[u]
                 /\ nodeNext'[myNode'[u]] = seen'[u]
                 /\ rank'[myNode'[u]] = RankOf(seen[u])' + 1
      BY <2>a, <2>b, <3>1, <3>2, <3>4 DEF OwnInv
    <3>5. ASSUME NEW u \in Threads, NEW w \in Threads, OwningNode(u)', OwningNode(w)',
                 myNode'[u] = myNode'[w]
          PROVE  u = w
      BY <3>1, <3>2, <3>5 DEF OwnInv
    <3>6. ASSUME NEW u \in Threads
          PROVE  /\ pc'[u] = "linked" => myNode'[u] \in linked' /\ nodePlan'[myNode'[u]] = mine'[u]
                 /\ pc'[u] \notin {"alloc", "link", "discard", "linked"} => mine'[u] = Empty
                 /\ answer'[u] = None <=> pc'[u] # "holding"
                 /\ Preparing(u)' => Preparing(u)
      BY <2>b, <2>d, <3>1, <3>2 DEF OwnInv, TypeOK
    <3>7. \A u \in Threads : pc'[u] = "linked" => pc[u] = "linked"
      BY DEF TypeOK
    <3> QED BY <3>3, <3>4, <3>5, <3>6, <3>7 DEF OwnInv
  <2>5. PhaseInv'  BY DEF PhaseInv, TypeOK
  <2>6. NoKeyCachedTwice'  BY <2>b, <2>d DEF NoKeyCachedTwice
  <2>7. ReferencesAccountedFor'
    BY <2>0 DEF ReferencesAccountedFor
  <2> QED BY <2>1, <2>2, <2>3, <2>4, <2>5, <2>6, <2>7
<1> QED BY <1>1, <1>2 DEF Alloc

FreePlansUnowned == \A p \in Plans : refs[p] \in Nat /\ (refs[p] = 0 <=> Owners(p) = {})

LEMMA FreeIsUnownedNext == TypeOK' /\ ReferencesAccountedFor' => FreePlansUnowned'
<1>1. TypeOK /\ ReferencesAccountedFor => FreePlansUnowned
  BY FreeIsUnowned DEF FreePlansUnowned
<1> QED BY <1>1, PTL

\* A plan that keeps an owner keeps its key when another reference is dropped.
LEMMA KeyKept ==
  ASSUME CacheInv, NEW p \in Plans \cup {Empty}, DestroyPlan(p),
         TypeOK', ReferencesAccountedFor', NEW q \in Plans, Owners(q)' # {}
  PROVE  planKey'[q] = planKey[q]
<1>1. refs'[q] # 0
  BY FreeIsUnownedNext DEF FreePlansUnowned
<1>2. planKey \in [Plans -> Keys \cup {None}]
  BY DEF CacheInv, TypeOK
<1>3. CASE planKey' = planKey
  BY <1>3
<1>4. CASE p # Empty /\ refs'[p] = 0 /\ planKey' = [planKey EXCEPT ![p] = None]
  BY <1>1, <1>2, <1>4
<1> QED BY <1>3, <1>4 DEF DestroyPlan

LEMMA LinkStep ==
  ASSUME CacheInv, NEW t \in Threads, Link(t)
  PROVE  CacheInv'
<1> USE CacheAssumption DEF Goto, localVars, planVars, CacheInv
<1>0. /\ pc[t] = "link"
      /\ UNCHANGED <<face, walk, nodePlan, nodeNext, nodeUsed, rank, planKey, refs,
                     want, seen, cur, mine, myNode, answer>>
  BY DEF Link
<1>1. CASE pc' = [pc EXCEPT ![t] = "discard"] /\ UNCHANGED <<head, linked>>
  <2> USE <1>0, <1>1
  <2>0. \A p \in Plans : Owners(p)' = Owners(p)
    BY DEF Owners, TypeOK
  <2>1. TypeOK'  BY DEF TypeOK, PCs
  <2>2. ListInv'  BY DEF ListInv, Top, RankOf
  <2>3. SearchInv'
    BY DEF SearchInv, Searching, Outside, TypeOK, Matches, RankOf
  <2>4. OwnInv'
    BY <2>0 DEF OwnInv, Preparing, OwningNode, TypeOK, RankOf
  <2>5. PhaseInv'  BY DEF PhaseInv, TypeOK
  <2>6. NoKeyCachedTwice'  BY DEF NoKeyCachedTwice
  <2>7. ReferencesAccountedFor'
    BY <2>0 DEF ReferencesAccountedFor
  <2> QED BY <2>1, <2>2, <2>3, <2>4, <2>5, <2>6, <2>7
<1>2. CASE /\ head = seen[t] /\ head' = myNode[t]
           /\ linked' = linked \cup {myNode[t]}
           /\ pc' = [pc EXCEPT ![t] = "linked"]
  <2> USE <1>0, <1>2
  <2>0. PICK n \in Nodes : n = myNode[t] /\ n \in nodeUsed \ linked /\ n # None
    BY DEF OwnInv, OwningNode, TypeOK
  <2>a. face = "alive" /\ Top = head /\ Top' = n
    BY <2>0 DEF PhaseInv, Top, TypeOK
  <2>b. /\ nodePlan[n] = mine[t] /\ nodeNext[n] = head /\ rank[n] = RankOf(head) + 1
        /\ head \in linked \cup {None} /\ RankOf(head) \in Nat
    BY <2>0, <2>a DEF OwnInv, OwningNode, ListInv, TypeOK, RankOf
  <2>c. \A m \in linked : rank[m] < rank[n] /\ rank[m] \in Nat /\ ~Matches(m, want[t])
    <3>1. cur[t] = None /\ \A m \in linked : rank[m] > 0 /\ rank[m] <= RankOf(head)
      BY <2>a DEF SearchInv, ListInv
    <3>2. \A m \in linked : rank[m] \in Nat
      BY DEF TypeOK
    <3> QED BY <2>b, <3>1, <3>2 DEF SearchInv, Searching, RankOf
  <2>d. \A x : RankOf(x)' = RankOf(x)
    BY DEF RankOf
  <2>e. ASSUME mine[t] # Empty
        PROVE  /\ mine[t] \in Plans /\ Owners(mine[t]) = {t}
               /\ \A u \in Threads \ {t} : mine[u] # mine[t]
               /\ \A u \in Threads : answer[u] # mine[t]
    BY <2>e, PreparedAlone DEF Preparing
  <2>f. \A p \in Plans : p # mine[t] => Owners(p)' = Owners(p)
    BY <2>0, <2>b DEF Owners, TypeOK
  <2>g. ASSUME mine[t] # Empty
        PROVE  \A p \in Plans : p = mine[t] => Owners(p)' = (Owners(p) \ {t}) \cup {n}
    BY <2>0, <2>b, <2>e, <2>g, FiniteAssumption DEF Owners, TypeOK
  <2>1. TypeOK'  BY <2>0 DEF TypeOK, PCs
  <2>2. ListInv'
    <3>1. \A m \in linked' : m \in linked \/ m = n
      BY <2>0
    <3>2. RankOf(Top)' = rank[n]
      BY <2>0, <2>a DEF RankOf
    <3>3. ASSUME NEW m \in linked'
          PROVE  /\ rank'[m] > 0 /\ rank'[m] <= RankOf(Top)'
                 /\ nodeNext'[m] \in linked' \cup {None}
                 /\ RankOf(nodeNext[m])' = rank'[m] - 1
      BY <2>b, <2>c, <2>d, <3>1, <3>2 DEF ListInv
    <3>4. ASSUME NEW m \in linked', NEW k \in linked', rank'[m] = rank'[k]
          PROVE  m = k
      BY <2>c, <3>1, <3>4 DEF ListInv
    <3> QED BY <2>0, <2>a, <3>3, <3>4 DEF ListInv
  <2>3. SearchInv'
    <3>1. \A u \in Threads : RankOf(seen[u]) < rank[n]
      BY <2>b, <2>c DEF SearchInv, RankOf
    <3>2. \A u \in Threads : RankOf(seen[u]) \in Nat /\ rank[n] \in Nat
      BY <2>0 DEF TypeOK, RankOf
    <3>3. \A u \in Threads : /\ Searching(u)' => Searching(u)
                             /\ Outside(u)' => Outside(u)
                             /\ pc'[u] \in {"create", "alloc", "link", "found"} => pc'[u] = pc[u]
      BY DEF Searching, Outside, TypeOK
    <3>4. \A m \in linked' : m \in linked \/ m = n
      BY <2>0
    <3>5. \A m, k : Matches(m, k)' = Matches(m, k)
      BY DEF Matches
    <3>6. ASSUME NEW u \in Threads, Searching(u)', NEW m \in linked',
                 RankOf(cur[u]) < rank[m], rank[m] <= RankOf(seen[u])
          PROVE  ~Matches(m, want[u])
      BY <3>1, <3>2, <3>3, <3>4, <3>6 DEF SearchInv
    <3> QED BY <2>d, <3>3, <3>5, <3>6 DEF SearchInv
  <2>4. OwnInv'
    <3>1. ASSUME NEW u \in Threads, Preparing(u)', mine'[u] # Empty
          PROVE  Owners(mine[u])' = {u}
      <4>1. u # t /\ Preparing(u)
        BY <3>1 DEF Preparing, TypeOK
      <4>2. mine[u] # mine[t]
        BY <4>1, <3>1, PreparedAlone
      <4> QED BY <4>1, <4>2, <2>f, <3>1 DEF OwnInv, TypeOK
    <3>2. \A u \in Threads \ {t} : pc'[u] = pc[u]
      BY DEF TypeOK
    <3>3. pc'[t] = "linked"
      BY DEF TypeOK
    <3>4. \A u \in Threads : OwningNode(u)' => u # t /\ OwningNode(u)
      BY <3>2, <3>3 DEF OwningNode
    <3>5. \A u \in Threads : OwningNode(u)' => myNode[u] # n
      BY <2>0, <3>4 DEF OwnInv, OwningNode
    <3>6. \A u \in Threads :
            /\ (Preparing(u)' \/ pc'[u] = "linked") /\ mine[u] # Empty => planKey[mine[u]] = want[u]
            /\ pc'[u] = "linked" => myNode[u] \in linked' /\ nodePlan[myNode[u]] = mine[u]
            /\ pc'[u] \notin {"alloc", "link", "discard", "linked"} => mine[u] = Empty
            /\ answer[u] = None <=> pc'[u] # "holding"
      BY <2>0, <2>b, <3>2, <3>3 DEF OwnInv, Preparing
    <3>7. \A u \in Threads : OwningNode(u)' =>
            /\ myNode[u] \in nodeUsed \ linked'
            /\ nodePlan[myNode[u]] = mine[u] /\ nodeNext[myNode[u]] = seen[u]
            /\ rank[myNode[u]] = RankOf(seen[u])' + 1
      BY <2>0, <2>d, <3>4, <3>5 DEF OwnInv
    <3>8. \A u, w \in Threads :
            OwningNode(u)' /\ OwningNode(w)' /\ myNode[u] = myNode[w] => u = w
      BY <3>4 DEF OwnInv
    <3> QED BY <3>1, <3>6, <3>7, <3>8 DEF OwnInv
  <2>5. PhaseInv'  BY <2>a DEF PhaseInv
  <2>6. NoKeyCachedTwice'
    <3>1. mine[t] # Empty => planKey[mine[t]] = want[t]
      BY DEF OwnInv, Preparing
    <3>2. \A m \in linked : nodePlan[m] # Empty => planKey[nodePlan[m]] # want[t]
      BY <2>c DEF Matches
    <3>3. \A m \in linked' : m \in linked \/ m = n
      BY <2>0
    <3> QED BY <2>b, <3>1, <3>2, <3>3 DEF NoKeyCachedTwice
  <2>7. ReferencesAccountedFor'
    <3>1. ASSUME NEW p \in Plans, p = mine[t]
          PROVE  refs'[p] = Cardinality(Owners(p)')
      <4>1. t \in Owners(p) /\ n \notin Owners(p)
        BY <2>0, <2>e, <3>1, CacheAssumption, FiniteAssumption
      <4>2. Owners(p)' = (Owners(p) \ {t}) \cup {n}
        BY <2>g, <3>1
      <4> QED BY <4>1, <4>2, OwnerReplaced
    <3> QED BY <2>f, <3>1 DEF ReferencesAccountedFor
  <2> QED BY <2>1, <2>2, <2>3, <2>4, <2>5, <2>6, <2>7
<1> QED BY <1>1, <1>2 DEF Link

LEMMA DiscardStep ==
  ASSUME CacheInv, NEW t \in Threads, Discard(t)
  PROVE  CacheInv'
<1> USE CacheAssumption DEF Goto, faceVars, CacheInv
<1>0. /\ pc[t] = "discard" /\ pc' = [pc EXCEPT ![t] = "read"]
      /\ DestroyPlan(mine[t]) /\ FreeNode(myNode[t])
      /\ mine' = [mine EXCEPT ![t] = Empty] /\ myNode' = [myNode EXCEPT ![t] = None]
      /\ seen' = [seen EXCEPT ![t] = None] /\ cur' = [cur EXCEPT ![t] = None]
      /\ UNCHANGED <<head, face, walk, linked, want, answer>>
  BY DEF Discard
<1>a. PICK p \in Plans \cup {Empty} : p = mine[t]
  BY DEF TypeOK
<1>b. PICK n \in Nodes : n = myNode[t] /\ n \notin linked /\ n # None
  BY <1>0 DEF OwnInv, OwningNode, TypeOK
<1>c. /\ refs' = Released(refs, p)
      /\ nodeUsed' = nodeUsed \ {n} /\ nodePlan' = [nodePlan EXCEPT ![n] = Empty]
      /\ nodeNext' = [nodeNext EXCEPT ![n] = None] /\ rank' = [rank EXCEPT ![n] = 0]
  BY <1>0, <1>a, <1>b DEF DestroyPlan, FreeNode
<1>d. \A m \in linked : /\ m # n /\ nodePlan'[m] = nodePlan[m] /\ nodeNext'[m] = nodeNext[m]
                        /\ rank'[m] = rank[m]
  BY <1>b, <1>c DEF TypeOK
<1>e. \A x \in linked \cup {None} : RankOf(x)' = RankOf(x)
  BY <1>d DEF RankOf
<1>f. p # Empty => /\ Owners(p) = {t} /\ Owners(p)' = {}
                   /\ \A u \in Threads \ {t} : mine[u] # p
                   /\ \A m \in linked : nodePlan[m] # p
  <2>1. ASSUME p # Empty
        PROVE  /\ Owners(p) = {t} /\ \A u \in Threads \ {t} : mine[u] # p
               /\ \A m \in linked : nodePlan[m] # p
               /\ \A u \in Threads : answer[u] # p
    BY <1>0, <1>a, <2>1, PreparedAlone DEF Preparing
  <2> QED BY <1>0, <1>d, <2>1 DEF Owners, TypeOK
<1>g. \A q \in Plans : q # p => Owners(q)' = Owners(q)
  BY <1>0, <1>a, <1>d DEF Owners, TypeOK
<1>1. TypeOK'
  BY <1>0, <1>a, <1>b, <1>c DEF TypeOK, PCs, DestroyPlan, Released
<1>7. ReferencesAccountedFor'
  <2>1. ASSUME p \in Plans PROVE Cardinality(Owners(p)') = refs'[p]
    <3>1. refs'[p] = refs[p] - 1 /\ refs[p] = 1
      <4>1. refs[p] = 1
        BY <1>0, <1>a, <2>1, PreparedAlone DEF Preparing
      <4> QED BY <1>c, <2>1, <4>1 DEF Released, TypeOK
    <3> QED BY <1>f, <2>1, <3>1, FS_EmptySet
  <2>2. \A q \in Plans : q # p => refs'[q] = refs[q]
    BY <1>c DEF Released, TypeOK
  <2> QED BY <1>g, <2>1, <2>2 DEF ReferencesAccountedFor
<1>h. \A q \in Plans : q # p => planKey'[q] = planKey[q]
  BY <1>0, <1>a DEF DestroyPlan, TypeOK
<1>i. \A m \in linked : \A k : Matches(m, k)' = Matches(m, k)
  BY <1>d, <1>f, <1>h DEF Matches, TypeOK
<1>2. ListInv'
  <2>1. Top' = Top
    BY <1>0 DEF Top
  <2> QED BY <1>0, <1>b, <1>c, <1>d, <1>e, <2>1 DEF ListInv
<1>3. SearchInv'
  BY <1>0, <1>d, <1>e, <1>i DEF SearchInv, Searching, Outside, TypeOK
<1>4. OwnInv'
  <2>1. \A u \in Threads \ {t} :
           /\ pc'[u] = pc[u] /\ mine'[u] = mine[u] /\ myNode'[u] = myNode[u]
           /\ seen'[u] = seen[u] /\ answer'[u] = answer[u] /\ want'[u] = want[u]
    BY <1>0 DEF TypeOK
  <2>2. pc'[t] = "read" /\ mine'[t] = Empty /\ answer'[t] = answer[t] /\ answer[t] = None
    BY <1>0 DEF TypeOK, OwnInv
  <2>3. ASSUME NEW u \in Threads \ {t}, OwningNode(u)
        PROVE  /\ myNode[u] \in Nodes \ {n} /\ RankOf(seen[u])' = RankOf(seen[u])
    BY <1>0, <1>b, <1>e, <2>1, <2>3 DEF OwnInv, OwningNode, TypeOK, SearchInv
  <2>4. \A m \in Nodes \ {n} : /\ nodePlan'[m] = nodePlan[m] /\ nodeNext'[m] = nodeNext[m]
                               /\ rank'[m] = rank[m]
    BY <1>c DEF TypeOK
  <2>5. ASSUME NEW u \in Threads, OwningNode(u)'
        PROVE  /\ u # t /\ OwningNode(u) /\ myNode'[u] = myNode[u]
               /\ myNode'[u] \in nodeUsed' \ linked'
               /\ nodePlan'[myNode'[u]] = mine'[u]
               /\ nodeNext'[myNode'[u]] = seen'[u]
               /\ rank'[myNode'[u]] = RankOf(seen[u])' + 1
    <3>1. u # t /\ OwningNode(u) /\ u \in Threads \ {t}
      BY <2>1, <2>2, <2>5 DEF OwningNode
    <3> QED BY <1>0, <1>c, <2>1, <2>3, <2>4, <3>1 DEF OwnInv
  <2>6. ASSUME NEW u \in Threads, Preparing(u)' \/ pc'[u] = "linked", mine'[u] # Empty
        PROVE  planKey'[mine'[u]] = want'[u] /\ (Preparing(u)' => Owners(mine[u])' = {u})
    <3>1. u \in Threads \ {t} /\ mine[u] \in Plans /\ mine[u] # p
      BY <1>f, <2>1, <2>2, <2>6 DEF Preparing, TypeOK
    <3> QED BY <1>g, <1>h, <2>1, <2>6, <3>1 DEF OwnInv, Preparing
  <2>7. ASSUME NEW u \in Threads
        PROVE  /\ pc'[u] = "linked" => myNode'[u] \in linked' /\ nodePlan'[myNode'[u]] = mine'[u]
               /\ pc'[u] \notin {"alloc", "link", "discard", "linked"} => mine'[u] = Empty
               /\ answer'[u] = None <=> pc'[u] # "holding"
    BY <1>0, <1>d, <2>1, <2>2 DEF OwnInv
  <2> QED BY <2>5, <2>6, <2>7 DEF OwnInv
<1>5. PhaseInv'  BY <1>0 DEF PhaseInv, TypeOK
<1>6. NoKeyCachedTwice'
  BY <1>0, <1>d, <1>f, <1>h DEF NoKeyCachedTwice, TypeOK
<1> QED BY <1>1, <1>2, <1>3, <1>4, <1>5, <1>6, <1>7

LEMMA LinkedStep ==
  ASSUME CacheInv, NEW t \in Threads, Linked(t)
  PROVE  CacheInv'
<1> USE CacheAssumption DEF Linked, Goto, Return, faceVars, nodeVars, CacheInv
<1>0. PICK p \in Plans \cup {Empty} : p = mine[t]
  BY DEF TypeOK
<1>a. refs' = IF p = Empty THEN refs ELSE [refs EXCEPT ![p] = @ + 1]
  BY <1>0 DEF Referenced
<1>b. myNode[t] \in linked /\ nodePlan[myNode[t]] = p
  BY <1>0 DEF OwnInv
<1>c. p # Empty => t \notin Owners(p) /\ Owners(p)' = Owners(p) \cup {t}
  BY <1>0, FiniteAssumption DEF Owners, TypeOK, OwnInv
<1>d. \A q \in Plans : q # p => Owners(q)' = Owners(q)
  BY <1>0 DEF Owners, TypeOK, OwnInv
<1>1. TypeOK'  BY <1>0, <1>a DEF TypeOK, PCs
<1>2. ListInv'  BY DEF ListInv, Top, RankOf
<1>3. SearchInv'
  BY DEF SearchInv, Searching, Outside, TypeOK, Matches, RankOf
<1>4. OwnInv'
  <2>1. ASSUME NEW u \in Threads, Preparing(u), mine[u] # Empty
        PROVE  mine[u] # p
    BY <1>b, <2>1, PreparedAlone
  <2>2. \A u \in Threads : Preparing(u)' => Preparing(u) /\ mine'[u] = mine[u]
    BY DEF Preparing, TypeOK
  <2>3. ASSUME NEW u \in Threads, Preparing(u)', mine'[u] # Empty
        PROVE  Owners(mine[u])' = {u}
    BY <1>d, <2>1, <2>2, <2>3 DEF OwnInv, TypeOK
  <2>4. answer'[t] # None /\ pc'[t] = "holding" /\ mine'[t] = Empty
    BY <1>0 DEF TypeOK
  <2>5. \A u \in Threads \ {t} :
           /\ pc'[u] = pc[u] /\ mine'[u] = mine[u] /\ myNode'[u] = myNode[u]
           /\ seen'[u] = seen[u] /\ answer'[u] = answer[u]
    BY DEF TypeOK
  <2> QED BY <2>2, <2>3, <2>4, <2>5 DEF OwnInv, Preparing, OwningNode, RankOf
<1>5. PhaseInv'  BY DEF PhaseInv, TypeOK
<1>6. NoKeyCachedTwice'  BY DEF NoKeyCachedTwice
<1>7. ReferencesAccountedFor'
  <2>1. ASSUME p \in Plans PROVE Cardinality(Owners(p)') = refs'[p]
    BY <1>a, <1>c, <2>1, OwnerAdded DEF TypeOK
  <2>2. \A q \in Plans : q # p => refs'[q] = refs[q]
    BY <1>a DEF TypeOK
  <2> QED BY <1>d, <2>1, <2>2 DEF ReferencesAccountedFor
<1> QED BY <1>1, <1>2, <1>3, <1>4, <1>5, <1>6, <1>7 DEF CacheInv

LEMMA DestroyStep ==
  ASSUME CacheInv, NEW t \in Threads, Destroy(t)
  PROVE  CacheInv'
<1> USE CacheAssumption DEF Goto, faceVars, nodeVars, localVars, CacheInv
<1>0. /\ pc[t] = "holding" /\ pc' = [pc EXCEPT ![t] = "idle"]
      /\ DestroyPlan(answer[t]) /\ answer' = [answer EXCEPT ![t] = None]
      /\ UNCHANGED <<head, face, walk, nodePlan, nodeNext, nodeUsed, rank, linked,
                     want, seen, cur, mine, myNode>>
  BY DEF Destroy
<1>a. PICK p \in Plans \cup {Empty} : p = answer[t]
  BY <1>0 DEF TypeOK, OwnInv
<1>b. refs' = Released(refs, p)
  BY <1>0, <1>a DEF DestroyPlan
<1>c. p \in Plans => t \in Owners(p) /\ Owners(p)' = Owners(p) \ {t}
  BY <1>0, <1>a, FiniteAssumption DEF Owners, TypeOK
<1>d. \A q \in Plans : q # p => Owners(q)' = Owners(q)
  BY <1>0, <1>a DEF Owners, TypeOK
<1>1. TypeOK'
  BY <1>0, <1>a, <1>b DEF TypeOK, PCs, DestroyPlan, Released
<1>7. ReferencesAccountedFor'
  <2>1. ASSUME p \in Plans PROVE Cardinality(Owners(p)') = refs'[p]
    BY <1>b, <1>c, <2>1, OwnerRemoved DEF TypeOK, Released
  <2>2. \A q \in Plans : q # p => refs'[q] = refs[q]
    BY <1>b DEF Released, TypeOK
  <2> QED BY <1>d, <2>1, <2>2 DEF ReferencesAccountedFor
<1>e. \A q \in Plans : Owners(q)' # {} => planKey'[q] = planKey[q]
  BY <1>0, <1>1, <1>7, <1>a, KeyKept
<1>f. \A m \in linked : nodePlan[m] # Empty => planKey'[nodePlan[m]] = planKey[nodePlan[m]]
  <2>1. ASSUME NEW m \in linked, nodePlan[m] # Empty
        PROVE  nodePlan[m] \in Plans /\ Owners(nodePlan[m])' # {}
    BY <1>0, <2>1 DEF Owners, TypeOK
  <2> QED BY <1>0, <2>1, <1>e
<1>i. \A m \in linked : \A k : Matches(m, k)' = Matches(m, k)
  BY <1>0, <1>f DEF Matches
<1>2. ListInv'  BY <1>0 DEF ListInv, Top, RankOf
<1>3. SearchInv'
  BY <1>0, <1>i DEF SearchInv, Searching, Outside, TypeOK, RankOf
<1>4. OwnInv'
  <2>1. \A u \in Threads \ {t} : pc'[u] = pc[u] /\ answer'[u] = answer[u]
    BY <1>0 DEF TypeOK
  <2>2. pc'[t] = "idle" /\ answer'[t] = None /\ mine[t] = Empty
    BY <1>0 DEF TypeOK, OwnInv
  <2>3. ASSUME NEW u \in Threads, Preparing(u)', mine[u] # Empty
        PROVE  Owners(mine[u])' = {u} /\ planKey'[mine[u]] = planKey[mine[u]]
    <3>1. Preparing(u) /\ u # t
      BY <2>1, <2>2, <2>3 DEF Preparing
    <3>2. mine[u] # p /\ mine[u] \in Plans /\ Owners(mine[u]) = {u}
      BY <1>a, <2>3, <3>1, PreparedAlone
    <3>3. Owners(mine[u])' = Owners(mine[u])
      BY <1>0, <1>d, <3>2
    <3> QED BY <1>0, <1>e, <3>2, <3>3
  <2>4. ASSUME NEW u \in Threads, pc'[u] = "linked", mine[u] # Empty
        PROVE  planKey'[mine[u]] = planKey[mine[u]]
    <3>1. pc[u] = "linked"
      BY <2>1, <2>2, <2>4
    <3> QED BY <1>f, <2>4, <3>1 DEF OwnInv
  <2> QED BY <1>0, <2>1, <2>2, <2>3, <2>4 DEF OwnInv, Preparing, OwningNode, RankOf
<1>5. PhaseInv'  BY <1>0 DEF PhaseInv, TypeOK
<1>6. NoKeyCachedTwice'  BY <1>0, <1>f DEF NoKeyCachedTwice
<1> QED BY <1>1, <1>2, <1>3, <1>4, <1>5, <1>6, <1>7

LEMMA DestroyFaceStep ==
  ASSUME CacheInv, DestroyFace
  PROVE  CacheInv'
<1> USE CacheAssumption DEF DestroyFace, nodeVars, planVars, localVars, CacheInv
<1>0. \A p : Owners(p)' = Owners(p)
  BY DEF Owners
<1>1. TypeOK'  BY DEF TypeOK
<1>2. ListInv'
  <2>1. Top' = Top
    BY DEF Top
  <2> QED BY <2>1 DEF ListInv, RankOf
<1>3. SearchInv'
  BY DEF SearchInv, Searching, Outside, Matches, RankOf
<1>4. OwnInv'
  BY <1>0 DEF OwnInv, Preparing, OwningNode, RankOf
<1>5. PhaseInv'  BY DEF PhaseInv
<1>6. NoKeyCachedTwice'  BY DEF NoKeyCachedTwice
<1>7. ReferencesAccountedFor'  BY <1>0 DEF ReferencesAccountedFor
<1> QED BY <1>1, <1>2, <1>3, <1>4, <1>5, <1>6, <1>7

LEMMA DestroyNodeStep ==
  ASSUME CacheInv, DestroyNode
  PROVE  CacheInv'
<1> USE CacheAssumption DEF localVars, CacheInv
<1>0. /\ face = "dying" /\ DestroyPlan(nodePlan[walk]) /\ FreeNode(walk)
      /\ linked' = linked \ {walk} /\ walk' = nodeNext[walk]
      /\ UNCHANGED <<head, face, pc, want, seen, cur, mine, myNode, answer>>
  BY DEF DestroyNode
<1>a. PICK n \in Nodes : n = walk /\ n \in linked /\ Top = n
  BY <1>0 DEF DestroyNode, TypeOK, ListInv, Top
<1>b. PICK p \in Plans \cup {Empty} : p = nodePlan[n]
  BY DEF TypeOK
<1>c. /\ refs' = Released(refs, p)
      /\ nodeUsed' = nodeUsed \ {n} /\ nodePlan' = [nodePlan EXCEPT ![n] = Empty]
      /\ nodeNext' = [nodeNext EXCEPT ![n] = None] /\ rank' = [rank EXCEPT ![n] = 0]
  BY <1>0, <1>a, <1>b DEF DestroyPlan, FreeNode
<1>d. \A m \in linked' : /\ m \in linked /\ m # n
                         /\ nodePlan'[m] = nodePlan[m] /\ nodeNext'[m] = nodeNext[m]
                         /\ rank'[m] = rank[m]
  BY <1>0, <1>a, <1>c DEF TypeOK
<1>e. \A u \in Threads : pc[u] \in {"idle", "holding"}
  BY <1>0 DEF PhaseInv
<1>f. p # Empty => n \in Owners(p) /\ Owners(p)' = Owners(p) \ {n}
  BY <1>0, <1>a, <1>b, <1>d, FiniteAssumption DEF Owners
<1>g. \A q \in Plans : q # p => Owners(q)' = Owners(q)
  BY <1>0, <1>a, <1>b, <1>d DEF Owners
<1>1. TypeOK'
  BY <1>0, <1>a, <1>b, <1>c DEF TypeOK, DestroyPlan, Released
<1>7. ReferencesAccountedFor'
  <2>1. ASSUME p \in Plans PROVE Cardinality(Owners(p)') = refs'[p]
    BY <1>c, <1>f, <2>1, OwnerRemoved DEF TypeOK, Released
  <2>2. \A q \in Plans : q # p => refs'[q] = refs[q]
    BY <1>c DEF Released, TypeOK
  <2> QED BY <1>g, <2>1, <2>2 DEF ReferencesAccountedFor
<1>h. \A q \in Plans : Owners(q)' # {} => planKey'[q] = planKey[q]
  BY <1>0, <1>1, <1>7, <1>a, <1>b, KeyKept
<1>i. \A m \in linked' : nodePlan[m] # Empty => planKey'[nodePlan[m]] = planKey[nodePlan[m]]
  <2>1. ASSUME NEW m \in linked', nodePlan[m] # Empty
        PROVE  nodePlan[m] \in Plans /\ Owners(nodePlan[m])' # {}
    BY <1>d, <2>1 DEF Owners, TypeOK
  <2> QED BY <2>1, <1>d, <1>h
<1>2. ListInv'
  <2>1. ASSUME NEW m \in linked'
        PROVE  /\ rank[m] < rank[n] /\ rank[m] \in Nat /\ rank[n] \in Nat
               /\ nodeNext[m] \in linked \cup {None} /\ nodeNext[m] # n
               /\ RankOf(nodeNext[m]) = rank[m] - 1
    <3>1. rank[m] <= RankOf(Top) /\ rank[m] # rank[n] /\ RankOf(Top) = rank[n]
      BY <1>a, <1>d DEF ListInv, RankOf
    <3>2. rank[m] \in Nat /\ rank[n] \in Nat
      BY <1>a, <1>d DEF TypeOK
    <3>3. nodeNext[m] \in linked \cup {None} /\ RankOf(nodeNext[m]) = rank[m] - 1
      BY <1>d DEF ListInv
    <3> QED BY <1>a, <3>1, <3>2, <3>3 DEF RankOf
  <2>2. /\ nodeNext[n] \in (linked \ {n}) \cup {None} /\ RankOf(nodeNext[n]) = rank[n] - 1
        /\ Top' = nodeNext[n]
    <3>1. nodeNext[n] \in linked \cup {None} /\ RankOf(nodeNext[n]) = rank[n] - 1 /\ rank[n] \in Nat
      BY <1>a DEF ListInv, TypeOK
    <3>2. nodeNext[n] # n
      BY <1>a, <3>1 DEF RankOf
    <3> QED BY <1>0, <1>a, <3>1, <3>2 DEF Top
  <2>3. \A x \in (linked \ {n}) \cup {None} : RankOf(x)' = RankOf(x)
    BY <1>0, <1>a, <1>d DEF RankOf
  <2>4. RankOf(Top)' = rank[n] - 1
    <3>1. RankOf(Top)' = RankOf(nodeNext[n])
      BY <2>2, <2>3 DEF RankOf
    <3> QED BY <2>2, <3>1
  <2>5. ASSUME NEW m \in linked'
        PROVE  /\ rank'[m] > 0 /\ rank'[m] <= RankOf(Top)'
               /\ nodeNext'[m] \in linked' \cup {None}
               /\ RankOf(nodeNext[m])' = rank'[m] - 1
    <3>1. rank[m] > 0
      BY <1>d DEF ListInv
    <3>2. RankOf(nodeNext[m])' = RankOf(nodeNext[m])
      <4>1. nodeNext[m] \in (linked \ {n}) \cup {None}
        BY <2>1
      <4>2. nodeNext'[m] = nodeNext[m]
        BY <1>d
      <4> QED BY <4>1, <4>2, <2>3 DEF RankOf
    <3> QED BY <1>0, <1>a, <1>d, <2>1, <2>4, <3>1, <3>2
  <2> QED BY <1>0, <1>a, <1>c, <1>d, <2>2, <2>5 DEF ListInv
<1>3. SearchInv'
  BY <1>0, <1>e DEF SearchInv, Searching, Outside
<1>4. OwnInv'
  BY <1>0, <1>e DEF OwnInv, Preparing, OwningNode
<1>5. PhaseInv'  BY <1>0 DEF PhaseInv
<1>6. NoKeyCachedTwice'  BY <1>d, <1>i DEF NoKeyCachedTwice
<1> QED BY <1>1, <1>2, <1>3, <1>4, <1>5, <1>6, <1>7

LEMMA FaceGoneStep ==
  ASSUME CacheInv, FaceGone
  PROVE  CacheInv'
<1> USE CacheAssumption DEF FaceGone, nodeVars, planVars, localVars, CacheInv
<1>0. \A p : Owners(p)' = Owners(p)
  BY DEF Owners
<1>1. TypeOK'  BY DEF TypeOK
<1>2. ListInv'
  <2>1. Top = None /\ Top' = None
    BY DEF Top
  <2> QED BY <2>1 DEF ListInv, RankOf
<1>3. SearchInv'
  BY DEF SearchInv, Searching, Outside, Matches, RankOf
<1>4. OwnInv'
  BY <1>0 DEF OwnInv, Preparing, OwningNode, RankOf
<1>5. PhaseInv'  BY DEF PhaseInv
<1>6. NoKeyCachedTwice'  BY DEF NoKeyCachedTwice
<1>7. ReferencesAccountedFor'  BY <1>0 DEF ReferencesAccountedFor
<1> QED BY <1>1, <1>2, <1>3, <1>4, <1>5, <1>6, <1>7

LEMMA StutterStep ==
  ASSUME CacheInv, UNCHANGED vars
  PROVE  CacheInv'
<1> USE DEF vars, faceVars, nodeVars, planVars, localVars, CacheInv
<1>0. \A p : Owners(p)' = Owners(p)
  BY DEF Owners
<1>1. TypeOK'  BY DEF TypeOK
<1>2. ListInv'  BY DEF ListInv, Top, RankOf
<1>3. SearchInv'  BY DEF SearchInv, Searching, Outside, Matches, RankOf
<1>4. OwnInv'  BY <1>0 DEF OwnInv, Preparing, OwningNode, RankOf
<1>5. PhaseInv'  BY DEF PhaseInv
<1>6. NoKeyCachedTwice'  BY DEF NoKeyCachedTwice
<1>7. ReferencesAccountedFor'  BY <1>0 DEF ReferencesAccountedFor
<1> QED BY <1>1, <1>2, <1>3, <1>4, <1>5, <1>6, <1>7

LEMMA NextInv == CacheInv /\ [Next]_vars => CacheInv'
<1> SUFFICES ASSUME CacheInv, [Next]_vars PROVE CacheInv'
  OBVIOUS
<1>1. ASSUME NEW t \in Threads, Call(t) \/ Step(t) \/ Destroy(t) PROVE CacheInv'
  BY <1>1, CallStep, CreatePrivateStep, ReadStep, SearchStep, FoundStep, CreateStep,
     AllocStep, LinkStep, DiscardStep, LinkedStep, DestroyStep DEF Step
<1> QED BY <1>1, DestroyFaceStep, DestroyNodeStep, FaceGoneStep, StutterStep DEF Next

\* The inductive invariant of the cache: however many threads miss a key,
\* lose the exchange, run out of memory and try again, and however freed
\* nodes and plans are used again.
THEOREM CacheSafe == Spec => []CacheInv
<1>1. Init => CacheInv
  BY InitInv
<1>2. CacheInv /\ [Next]_vars => CacheInv'
  BY NextInv
<1> QED BY <1>1, <1>2, PTL DEF Spec

\* Every variable of the cache keeps its type.
THEOREM CacheTypeOK == Spec => []TypeOK
<1>1. CacheInv => TypeOK
  BY DEF CacheInv
<1> QED BY <1>1, CacheSafe, PTL

\* No interleaving of any number of threads caches two plans for one key.
THEOREM CacheKeysUnique == Spec => []NoKeyCachedTwice
<1>1. CacheInv => NoKeyCachedTwice
  BY DEF CacheInv
<1> QED BY <1>1, CacheSafe, PTL

\* Every plan has exactly as many references as it has owners.
THEOREM CacheReferences == Spec => []ReferencesAccountedFor
<1>1. CacheInv => ReferencesAccountedFor
  BY DEF CacheInv
<1> QED BY <1>1, CacheSafe, PTL

\* No call reads a freed node or takes a reference to a freed plan, although
\* it holds neither a lock nor a reference when it does.
THEOREM CacheNothingDangling == Spec => []NothingDangling
<1>1. CacheInv => NothingDangling
  <2> SUFFICES ASSUME CacheInv, NEW t \in Threads
               PROVE  /\ cur[t] # None => cur[t] \in linked
                      /\ seen[t] # None => seen[t] \in linked
                      /\ pc[t] = "found" => nodePlan[cur[t]] # Empty /\ refs[nodePlan[cur[t]]] > 0
                      /\ pc[t] = "linked" => mine[t] = Empty \/ refs[mine[t]] > 0
    BY DEF NothingDangling
  <2> USE DEF CacheInv
  <2>1. ASSUME NEW n \in linked, nodePlan[n] # Empty PROVE refs[nodePlan[n]] > 0
    <3>1. nodePlan[n] \in Plans /\ n \in Owners(nodePlan[n])
      BY <2>1 DEF TypeOK, Owners
    <3>2. refs[nodePlan[n]] \in Nat /\ refs[nodePlan[n]] # 0
      BY <3>1, FreeIsUnowned
    <3> QED BY <3>2
  <2>2. {seen[t], cur[t]} \subseteq linked \cup {None}
    BY DEF SearchInv
  <2>3. pc[t] = "found" => cur[t] \in linked /\ nodePlan[cur[t]] # Empty
    BY DEF SearchInv, Matches
  <2>4. pc[t] = "linked" => myNode[t] \in linked /\ nodePlan[myNode[t]] = mine[t]
    BY DEF OwnInv
  <2> QED BY <2>1, <2>2, <2>3, <2>4
<1> QED BY <1>1, CacheSafe, PTL

-----------------------------------------------------------------------------
(* The list.  Induction rests on < being well founded on Nat.                *)

LEMMA LeastNat ==
  ASSUME NEW T, T \subseteq Nat, T # {}
  PROVE  \E x \in T : \A y \in T : x <= y
<1> DEFINE R == {p \in Nat \X Nat : p[1] < p[2]}
<1>1. IsWellFoundedOn(R, Nat)
  BY NatLessThanWellFounded DEF OpToRel
<1>2. PICK x \in T : \A y \in T : <<y, x>> \notin R
  <2> HIDE DEF R
  <2> QED BY <1>1, WFMin
<1>3. \A y \in T : ~(y < x)
  BY <1>2
<1> QED BY <1>3

\* The nodes one reaches in i steps are those ranked at most i below the top.
Within(i) == {n \in linked : rank[n] >= RankOf(Top) - i}

\* The ranks of the list have no gap.
LEMMA RanksOccupied ==
  ASSUME CacheInv, NEW r \in 1 .. RankOf(Top)
  PROVE  \E n \in linked : rank[n] = r
<1> USE DEF CacheInv
<1> DEFINE Gaps == {d \in Nat : d < RankOf(Top) /\ \A n \in linked : rank[n] # RankOf(Top) - d}
<1>0. RankOf(Top) \in Nat /\ \A n \in linked : rank[n] \in Nat
  BY CacheAssumption DEF TypeOK, RankOf, Top
<1>1. SUFFICES ASSUME Gaps # {} PROVE FALSE
  <2>1. RankOf(Top) - r \in Nat /\ RankOf(Top) - r < RankOf(Top)
        /\ RankOf(Top) - (RankOf(Top) - r) = r
    BY <1>0
  <2> QED BY <2>1
<1>2. PICK d \in Gaps : \A e \in Gaps : d <= e
  <2>1. Gaps \subseteq Nat
    OBVIOUS
  <2> HIDE DEF Gaps
  <2> QED BY <1>1, <2>1, LeastNat
<1>3. Top # None /\ Top \in linked /\ rank[Top] = RankOf(Top)
  BY <1>0, <1>2 DEF ListInv, RankOf
<1>4. d # 0
  BY <1>0, <1>3
<1>5. PICK n \in linked : rank[n] = RankOf(Top) - (d - 1)
  BY <1>0, <1>2, <1>4
<1>6. nodeNext[n] \in linked \cup {None} /\ RankOf(nodeNext[n]) = RankOf(Top) - d
  BY <1>0, <1>2, <1>5 DEF ListInv
<1>7. nodeNext[n] \in linked /\ rank[nodeNext[n]] = RankOf(Top) - d
  BY <1>0, <1>2, <1>6 DEF RankOf
<1> QED BY <1>2, <1>7

LEMMA ListFits ==
  ASSUME CacheInv
  PROVE  Cardinality(Nodes) \in Nat /\ RankOf(Top) \in Nat /\ RankOf(Top) <= Cardinality(Nodes)
<1> USE DEF CacheInv
<1>0. RankOf(Top) \in Nat /\ \A n \in linked : rank[n] \in Nat
  BY CacheAssumption DEF TypeOK, RankOf, Top
<1>1. PICK R \in Nat : R = RankOf(Top)
  BY <1>0
<1>2. IsFiniteSet(linked) /\ Cardinality(linked) <= Cardinality(Nodes)
  BY FiniteAssumption, FS_Subset DEF TypeOK
<1>3. [n \in linked |-> rank[n]] \in Surjection(linked, 1 .. R)
  <2>1. \A n \in linked : rank[n] \in 1 .. R
    BY <1>0, <1>1 DEF ListInv
  <2>2. \A r \in 1 .. R : \E n \in linked : rank[n] = r
    BY <1>1, RanksOccupied
  <2> QED BY <2>1, <2>2 DEF Surjection
<1>4. Cardinality(1 .. R) <= Cardinality(linked)
  <2> DEFINE T == 1 .. R
             g == [n \in linked |-> rank[n]]
  <2>1. g \in Surjection(linked, T)
    BY <1>3
  <2> HIDE DEF T, g
  <2>2. Cardinality(T) <= Cardinality(linked)
    BY <1>2, <2>1, FS_Surjection
  <2> QED BY <2>2 DEF T
<1>5. Cardinality(1 .. R) = R
  BY FS_Interval
<1>6. Cardinality(Nodes) \in Nat /\ Cardinality(linked) \in Nat
  BY <1>2, FiniteAssumption, FS_CardinalityType
<1> QED BY <1>1, <1>2, <1>4, <1>5, <1>6

LEMMA WithinZero ==
  ASSUME CacheInv
  PROVE  Within(0) = {Top} \ {None}
<1> USE DEF CacheInv
<1>0. RankOf(Top) \in Nat /\ \A n \in linked : rank[n] \in Nat
  BY CacheAssumption DEF TypeOK, RankOf, Top
<1>1. ASSUME NEW n \in linked, rank[n] >= RankOf(Top) PROVE n = Top
  <2>1. rank[n] > 0 /\ rank[n] = RankOf(Top)
    BY <1>0, <1>1 DEF ListInv
  <2>2. Top \in linked /\ rank[Top] = rank[n]
    BY <1>0, <2>1 DEF ListInv, RankOf
  <2> QED BY <2>2 DEF ListInv
<1>2. Top # None => Top \in linked /\ rank[Top] >= RankOf(Top)
  BY <1>0 DEF ListInv, RankOf
<1>3. None \notin linked
  BY CacheAssumption DEF TypeOK
<1> QED BY <1>0, <1>1, <1>2, <1>3 DEF Within

LEMMA WithinNext ==
  ASSUME CacheInv, NEW i \in Nat
  PROVE  Within(i + 1) = (Within(i) \cup {nodeNext[n] : n \in Within(i)}) \ {None}
<1> USE DEF CacheInv
<1>0. RankOf(Top) \in Nat /\ \A n \in linked : rank[n] \in Nat
  BY CacheAssumption DEF TypeOK, RankOf, Top
<1>1. None \notin linked
  BY CacheAssumption DEF TypeOK
<1>2. ASSUME NEW m \in Within(i + 1), m \notin Within(i)
      PROVE  \E n \in Within(i) : nodeNext[n] = m
  <2>1. m \in linked /\ rank[m] = RankOf(Top) - (i + 1) /\ rank[m] > 0
    BY <1>0, <1>2 DEF Within, ListInv
  <2>2. RankOf(Top) - i \in 1 .. RankOf(Top)
    BY <1>0, <2>1
  <2>3. PICK n \in linked : rank[n] = RankOf(Top) - i
    BY <2>2, RanksOccupied
  <2>4. nodeNext[n] \in linked /\ rank[nodeNext[n]] = rank[m]
    BY <1>0, <2>1, <2>3 DEF ListInv, RankOf
  <2>5. nodeNext[n] = m /\ n \in Within(i)
    BY <1>0, <2>1, <2>3, <2>4 DEF ListInv, Within
  <2> QED BY <2>5
<1>3. ASSUME NEW n \in Within(i), nodeNext[n] # None
      PROVE  nodeNext[n] \in Within(i + 1)
  BY <1>0, <1>3 DEF Within, ListInv, RankOf
<1>4. Within(i) \subseteq Within(i + 1)
  BY <1>0 DEF Within
<1>5. None \notin Within(i + 1)
  BY <1>1 DEF Within
<1> QED BY <1>2, <1>3, <1>4, <1>5

LEMMA ListComplete ==
  ASSUME CacheInv
  PROVE  ListFrom(Top) = linked
<1> DEFINE N == Cardinality(Nodes)
           Step1(g, i) == IF i = 0 THEN {Top} \ {None}
                          ELSE (g[i - 1] \cup {nodeNext[n] : n \in g[i - 1]}) \ {None}
           W == [i \in 0 .. N |-> Within(i)]
           f == CHOOSE g : g = [i \in 0 .. N |-> Step1(g, i)]
<1>0. N \in Nat /\ RankOf(Top) \in Nat /\ RankOf(Top) <= N
  BY ListFits
<1>1. W = [i \in 0 .. N |-> Step1(W, i)]
  <2>1. ASSUME NEW i \in 0 .. N PROVE W[i] = Step1(W, i)
    <3>1. CASE i = 0
      BY <1>0, <3>1, WithinZero
    <3>2. CASE i # 0
      <4>1. i - 1 \in Nat /\ i - 1 \in 0 .. N /\ (i - 1) + 1 = i
        BY <1>0, <3>2
      <4>2. PICK j \in Nat : j = i - 1
        BY <4>1
      <4>3. Within(i) = (Within(j) \cup {nodeNext[n] : n \in Within(j)}) \ {None}
        BY <4>1, <4>2, WithinNext
      <4> QED BY <3>2, <4>1, <4>2, <4>3
    <3> QED BY <3>1, <3>2
  <2> HIDE DEF Step1
  <2> QED BY <2>1
<1>2. f = [i \in 0 .. N |-> Step1(f, i)]
  <2>1. \E g : g = [i \in 0 .. N |-> Step1(g, i)]
    BY <1>1
  <2> QED BY <2>1
<1>3. ASSUME NEW i \in 0 .. N, f[i] # W[i] PROVE FALSE
  <2> DEFINE Bad == {k \in Nat : k \in 0 .. N /\ f[k] # W[k]}
  <2>1. Bad \subseteq Nat /\ Bad # {}
    <3>1. i \in Nat /\ i \in 0 .. N
      BY <1>0, <1>3
    <3> HIDE DEF f, W, N
    <3>2. i \in Bad
      BY <1>3, <3>1
    <3> QED BY <3>2
  <2>2. PICK k \in Bad : \A e \in Bad : k <= e
    <3> HIDE DEF Bad
    <3> QED BY <2>1, LeastNat
  <2> HIDE DEF f, W
  <2>3. k # 0 => f[k - 1] = W[k - 1]
    BY <1>0, <2>2
  <2>4. f[k] = Step1(f, k) /\ W[k] = Step1(W, k)
    <3> HIDE DEF Step1
    <3> QED BY <1>1, <1>2, <2>2
  <2> QED BY <2>2, <2>3, <2>4
<1>4. f[N] = Within(N)
  BY <1>0, <1>3
<1>5. Within(N) = linked
  BY <1>0 DEF Within, CacheInv, ListInv, TypeOK
<1>6. ListFrom(Top) = f[N]
  BY DEF ListFrom
<1> QED BY <1>4, <1>5, <1>6

\* No node is lost from the list, whatever races to be linked into it.
THEOREM CacheNoNodeLost == Spec => []NoNodeLost
<1>1. CacheInv => NoNodeLost
  <2> SUFFICES ASSUME CacheInv PROVE NoNodeLost
    OBVIOUS
  <2>1. ListFrom(Top) = linked
    BY ListComplete
  <2>2. face = "gone" => linked = {}
    <3>1. face = "gone" => RankOf(Top) = 0
      BY DEF Top, RankOf
    <3> QED BY <3>1 DEF CacheInv, ListInv, TypeOK
  <2> QED BY <2>1, <2>2 DEF NoNodeLost, Top, CacheInv, TypeOK
<1> QED BY <1>1, CacheSafe, PTL

-----------------------------------------------------------------------------
(* The memo the cache implements: the plan of the only node that matches.    *)

MemoFacts ==
  \A k \in Keys :
    /\ \A n \in linked : Matches(n, k) => MemoOf(k) = nodePlan[n]
    /\ (\A n \in linked : ~Matches(n, k)) => MemoOf(k) = None
    /\ MemoOf(k) \in Plans \cup {None}
    /\ MemoOf(k) # None => \E n \in linked : Matches(n, k)

LEMMA MemoWellDefined == CacheInv => MemoFacts
<1> SUFFICES ASSUME CacheInv, NEW k \in Keys
             PROVE  /\ \A n \in linked : Matches(n, k) => MemoOf(k) = nodePlan[n]
                    /\ (\A n \in linked : ~Matches(n, k)) => MemoOf(k) = None
                    /\ MemoOf(k) \in Plans \cup {None}
                    /\ MemoOf(k) # None => \E n \in linked : Matches(n, k)
  BY DEF MemoFacts
<1> USE DEF CacheInv
<1>1. ASSUME NEW n \in linked, Matches(n, k) PROVE MemoOf(k) = nodePlan[n] /\ nodePlan[n] \in Plans
  <2>1. PICK m \in linked : Matches(m, k) /\ MemoOf(k) = nodePlan[m]
    BY <1>1 DEF MemoOf
  <2>2. m = n
    BY <1>1, <2>1 DEF NoKeyCachedTwice, Matches
  <2> QED BY <1>1, <2>1, <2>2 DEF TypeOK, Matches
<1>2. (\A n \in linked : ~Matches(n, k)) => MemoOf(k) = None
  BY DEF MemoOf
<1> QED BY <1>1, <1>2

LEMMA MemoWellDefinedNext == CacheInv' => MemoFacts'
<1>1. CacheInv => MemoFacts
  BY MemoWellDefined
<1> QED BY <1>1, PTL

\* A step that keeps the nodes of the list and their plans' keys keeps the memo.
LEMMA MemoKept ==
  ASSUME CacheInv, CacheInv', linked' = linked,
         \A n \in linked : nodePlan'[n] = nodePlan[n],
         \A n \in linked : nodePlan[n] # Empty => planKey'[nodePlan[n]] = planKey[nodePlan[n]]
  PROVE  \A k \in Keys : MemoOf(k)' = MemoOf(k)
<1>1. MemoFacts /\ MemoFacts'
  BY MemoWellDefined, MemoWellDefinedNext
<1> SUFFICES ASSUME NEW k \in Keys PROVE MemoOf(k)' = MemoOf(k)
  OBVIOUS
<1>2. \A n \in linked : Matches(n, k)' = Matches(n, k)
  BY DEF Matches
<1>3. CASE \E n \in linked : Matches(n, k)
  BY <1>1, <1>2, <1>3 DEF MemoFacts
<1>4. CASE \A n \in linked : ~Matches(n, k)
  BY <1>1, <1>2, <1>4 DEF MemoFacts
<1> QED BY <1>3, <1>4

\* A plan that a node of the list keeps through a step is not freed by it.
LEMMA CachedKeyKept ==
  ASSUME CacheInv, CacheInv', NEW p \in Plans \cup {Empty}, DestroyPlan(p),
         NEW n \in linked, n \in linked', nodePlan'[n] = nodePlan[n], nodePlan[n] # Empty
  PROVE  planKey'[nodePlan[n]] = planKey[nodePlan[n]]
<1>1. nodePlan[n] \in Plans /\ Owners(nodePlan[n])' # {}
  <2>1. nodePlan[n] \in Plans
    BY DEF CacheInv, TypeOK
  <2>2. PICK q \in Plans : q = nodePlan[n]
    BY <2>1
  <2>3. n \in Owners(q)'
    BY <2>2 DEF Owners
  <2> QED BY <2>2, <2>3 DEF Owners
<1> QED BY <1>1, KeyKept DEF CacheInv

MemoStep == [Memo!Next]_(Memo!memoVars)

LEMMA MemoStutter ==
  ASSUME \A k \in Keys : MemoOf(k)' = MemoOf(k), UNCHANGED <<want, answer, face>>
  PROVE  MemoStep
BY DEF MemoStep, Memo!memoVars

\* An answer that nobody caches or holds, the memo's own, or none.
LEMMA MemoAnswer ==
  ASSUME CacheInv, NEW t \in Threads, pc[t] \notin {"idle", "holding"},
         NEW p \in Plans \cup {Empty},
         \/ p = Empty
         \/ p = MemoOf(want[t])
         \/ (\A n \in linked : nodePlan[n] # p) /\ \A u \in Threads : answer[u] # p,
         \A k \in Keys : MemoOf(k)' = MemoOf(k),
         UNCHANGED <<want, face>>, answer' = [answer EXCEPT ![t] = p]
  PROVE  MemoStep
<1> USE DEF CacheInv
<1>1. answer[t] = None /\ want[t] \in Keys
  BY DEF OwnInv, TypeOK
<1>2. MemoFacts
  BY MemoWellDefined
<1>3. ASSUME p # Empty, p # MemoOf(want[t]), NEW k \in Keys PROVE MemoOf(k) # p
  <2>1. \A n \in linked : nodePlan[n] # p
    BY <1>3
  <2>2. p # None
    BY <1>3, CacheAssumption
  <2> QED BY <1>2, <2>1, <2>2 DEF MemoFacts
<1>4. MemoOf(want[t]) = p => p # None
  BY CacheAssumption
<1>5. face = "alive"
  BY DEF PhaseInv
<1>6. Memo!Answer(t)
  BY <1>1, <1>3, <1>4, <1>5 DEF Memo!Answer
<1> QED BY <1>6 DEF MemoStep, Memo!Next

LEMMA CallMemo ==
  ASSUME CacheInv, CacheInv', NEW t \in Threads, Call(t)
  PROVE  MemoStep
<1>1. \A k \in Keys : MemoOf(k)' = MemoOf(k)
  BY MemoKept DEF Call, nodeVars, planVars
<1>2. answer[t] = None
  BY DEF Call, CacheInv, OwnInv
<1>3. Memo!Ask(t)
  BY <1>1, <1>2 DEF Memo!Ask, Call, faceVars
<1> QED BY <1>3 DEF MemoStep, Memo!Next

LEMMA CreatePrivateMemo ==
  ASSUME CacheInv, CacheInv', NEW t \in Threads, CreatePrivate(t)
  PROVE  MemoStep
<1>1. pc[t] = "private" /\ UNCHANGED <<want, face, nodeVars>>
  BY DEF CreatePrivate, faceVars
<1>2. CASE Return(t, Empty) /\ UNCHANGED planVars
  <2>1. \A k \in Keys : MemoOf(k)' = MemoOf(k)
    BY <1>1, <1>2, MemoKept DEF nodeVars, planVars
  <2> QED BY <1>1, <1>2, <2>1, MemoAnswer DEF Return
<1>3. ASSUME NEW p \in Plans, refs[p] = 0,
             planKey' = [planKey EXCEPT ![p] = want[t]], Return(t, p)
      PROVE  MemoStep
  <2>1. /\ \A n \in linked : nodePlan[n] # p
        /\ \A u \in Threads : answer[u] # p
    BY <1>3, FreshPlan
  <2>2. \A k \in Keys : MemoOf(k)' = MemoOf(k)
    BY <1>1, <1>3, <2>1, MemoKept DEF nodeVars, CacheInv, TypeOK
  <2> QED BY <1>1, <1>3, <2>1, <2>2, MemoAnswer DEF Return
<1> QED BY <1>2, <1>3 DEF CreatePrivate

LEMMA ReadMemo ==
  ASSUME CacheInv, CacheInv', NEW t \in Threads, Read(t)
  PROVE  MemoStep
<1>1. \A k \in Keys : MemoOf(k)' = MemoOf(k)
  BY MemoKept DEF Read, nodeVars, planVars
<1>2. pc[t] = "read" /\ UNCHANGED <<want, face>>
  BY DEF Read, faceVars
<1>3. CASE Return(t, Empty)
  BY <1>1, <1>2, <1>3, MemoAnswer DEF Return
<1>4. CASE answer' = answer
  BY <1>1, <1>2, <1>4, MemoStutter
<1> QED BY <1>3, <1>4 DEF Read

LEMMA SearchMemo ==
  ASSUME CacheInv, CacheInv', NEW t \in Threads, Search(t)
  PROVE  MemoStep
<1>1. \A k \in Keys : MemoOf(k)' = MemoOf(k)
  BY MemoKept DEF Search, nodeVars, planVars
<1> QED BY <1>1, MemoStutter DEF Search, faceVars

LEMMA FoundMemo ==
  ASSUME CacheInv, CacheInv', NEW t \in Threads, Found(t)
  PROVE  MemoStep
<1>1. \A k \in Keys : MemoOf(k)' = MemoOf(k)
  BY MemoKept DEF Found, nodeVars
<1>2. cur[t] \in linked /\ Matches(cur[t], want[t]) /\ want[t] \in Keys
  BY DEF Found, CacheInv, SearchInv, TypeOK
<1>3. nodePlan[cur[t]] \in Plans /\ nodePlan[cur[t]] = MemoOf(want[t])
  BY <1>2, MemoWellDefined DEF MemoFacts, Matches, CacheInv, TypeOK
<1> QED BY <1>1, <1>3, MemoAnswer DEF Found, Return, faceVars

LEMMA CreateMemo ==
  ASSUME CacheInv, CacheInv', NEW t \in Threads, Create(t)
  PROVE  MemoStep
<1>1. UNCHANGED <<want, answer, face, nodePlan, linked>>
  BY DEF Create, nodeVars, faceVars
<1>2. CASE UNCHANGED planVars
  <2>1. \A k \in Keys : MemoOf(k)' = MemoOf(k)
    BY <1>1, <1>2, MemoKept DEF planVars
  <2> QED BY <1>1, <2>1, MemoStutter
<1>3. ASSUME NEW p \in Plans, refs[p] = 0, planKey' = [planKey EXCEPT ![p] = want[t]]
      PROVE  MemoStep
  <2>1. \A n \in linked : nodePlan[n] # p
    BY <1>3, FreshPlan
  <2>2. \A k \in Keys : MemoOf(k)' = MemoOf(k)
    BY <1>1, <1>3, <2>1, MemoKept DEF CacheInv, TypeOK
  <2> QED BY <1>1, <2>2, MemoStutter
<1> QED BY <1>2, <1>3 DEF Create, Created

LEMMA AllocMemo ==
  ASSUME CacheInv, CacheInv', NEW t \in Threads, Alloc(t)
  PROVE  MemoStep
<1>1. pc[t] = "alloc" /\ UNCHANGED <<want, face, planKey>>
  BY DEF Alloc, planVars, faceVars
<1>2. ASSUME NEW n \in Nodes \ nodeUsed, nodePlan' = [nodePlan EXCEPT ![n] = mine[t]],
             UNCHANGED <<linked, answer>>
      PROVE  MemoStep
  <2>1. \A m \in linked : nodePlan'[m] = nodePlan[m]
    BY <1>2 DEF CacheInv, ListInv, TypeOK
  <2>2. \A k \in Keys : MemoOf(k)' = MemoOf(k)
    BY <1>1, <1>2, <2>1, MemoKept
  <2> QED BY <1>1, <1>2, <2>2, MemoStutter
<1>3. CASE Return(t, mine[t]) /\ UNCHANGED nodeVars
  <2>1. \A k \in Keys : MemoOf(k)' = MemoOf(k)
    BY <1>1, <1>3, MemoKept DEF nodeVars
  <2>2. mine[t] # Empty =>
          /\ \A n \in linked : nodePlan[n] # mine[t]
          /\ \A u \in Threads : answer[u] # mine[t]
    BY <1>1, PreparedAlone DEF Preparing
  <2>3. mine[t] \in Plans \cup {Empty}
    BY DEF CacheInv, TypeOK
  <2>4. PICK p \in Plans \cup {Empty} : p = mine[t]
    BY <2>3
  <2> QED BY <1>1, <1>3, <2>1, <2>2, <2>4, MemoAnswer DEF Return
<1> QED BY <1>2, <1>3 DEF Alloc

\* The exchange that succeeds is where the memo learns the key's plan: the
\* thread has compared every node of the list, so the key had none.
LEMMA LinkMemo ==
  ASSUME CacheInv, CacheInv', NEW t \in Threads, Link(t)
  PROVE  MemoStep
<1>1. pc[t] = "link" /\ UNCHANGED <<want, answer, face, nodePlan, planKey>>
  BY DEF Link, planVars, localVars
<1>2. CASE linked' = linked
  <2>1. \A k \in Keys : MemoOf(k)' = MemoOf(k)
    BY <1>1, <1>2, MemoKept
  <2> QED BY <1>1, <2>1, MemoStutter
<1>3. CASE head = seen[t] /\ linked' = linked \cup {myNode[t]}
  <2>0. MemoFacts /\ MemoFacts'
    BY MemoWellDefined, MemoWellDefinedNext
  <2>1. /\ nodePlan[myNode[t]] = mine[t] /\ want[t] \in Keys
        /\ mine[t] # Empty => planKey[mine[t]] = want[t]
    BY <1>1 DEF CacheInv, OwnInv, OwningNode, Preparing, TypeOK
  <2>2. \A n : \A k : Matches(n, k)' = Matches(n, k)
    BY <1>1 DEF Matches
  <2>3. ASSUME NEW k \in Keys, mine[t] = Empty \/ k # want[t] PROVE MemoOf(k)' = MemoOf(k)
    <3>1. ~Matches(myNode[t], k)
      BY <2>1, <2>3 DEF Matches
    <3>2. CASE \E n \in linked : Matches(n, k)
      BY <1>1, <1>3, <2>0, <2>2, <3>2 DEF MemoFacts
    <3>3. CASE \A n \in linked : ~Matches(n, k)
      BY <1>1, <1>3, <2>0, <2>2, <3>1, <3>3 DEF MemoFacts
    <3> QED BY <3>2, <3>3
  <2>4. CASE mine[t] = Empty
    BY <1>1, <2>3, <2>4, MemoStutter
  <2>5. CASE mine[t] # Empty
    <3>1. /\ mine[t] \in Plans
          /\ \A n \in linked : nodePlan[n] # mine[t]
          /\ \A u \in Threads : answer[u] # mine[t]
      BY <1>1, <2>5, PreparedAlone DEF Preparing
    <3>0. face = "alive"
      BY <1>1 DEF CacheInv, PhaseInv, TypeOK
    <3>2. \A n \in linked : ~Matches(n, want[t])
      <4>2. cur[t] = None /\ Top = seen[t]
        BY <1>1, <1>3, <3>0 DEF CacheInv, SearchInv, Top
      <4>3. \A n \in linked : RankOf(cur[t]) < rank[n] /\ rank[n] <= RankOf(seen[t])
        BY <4>2 DEF CacheInv, ListInv, RankOf
      <4> QED BY <1>1, <4>3 DEF CacheInv, SearchInv, Searching
    <3>3. MemoOf(want[t]) = None
      BY <2>0, <2>1, <3>2 DEF MemoFacts
    <3>4. MemoOf(want[t])' = mine[t]
      <4>1. PICK k \in Keys : k = want[t]
        BY <2>1
      <4>2. Matches(myNode[t], k) /\ myNode[t] \in linked'
        BY <1>3, <2>1, <2>5, <4>1 DEF Matches
      <4>3. MemoOf(k)' = nodePlan[myNode[t]]
        BY <1>1, <2>0, <2>2, <4>2 DEF MemoFacts
      <4>4. k = want'[t]
        BY <1>1, <4>1
      <4> QED BY <2>1, <4>3, <4>4 DEF MemoOf, Matches
    <3>5. \A j \in Keys : MemoOf(j) # mine[t]
      <4>1. mine[t] # None
        BY <3>1, CacheAssumption
      <4> QED BY <2>0, <3>1, <4>1 DEF MemoFacts
    <3>6. [k \in Keys |-> MemoOf(k)]' = [[k \in Keys |-> MemoOf(k)] EXCEPT ![want[t]] = mine[t]]
      <4>1. PICK k \in Keys : k = want[t]
        BY <2>1
      <4>2. MemoOf(k)' = mine[t]
        BY <1>1, <3>4, <4>1 DEF MemoOf, Matches
      <4>3. \A j \in Keys \ {k} : MemoOf(j)' = MemoOf(j)
        BY <2>3, <4>1
      <4> QED BY <4>1, <4>2, <4>3
    <3>7. Memo!Remember(want[t])
      BY <1>1, <2>1, <3>0, <3>1, <3>3, <3>5, <3>6 DEF Memo!Remember
    <3> QED BY <2>1, <3>7 DEF MemoStep, Memo!Next
  <2> QED BY <2>4, <2>5
<1> QED BY <1>2, <1>3 DEF Link

LEMMA DiscardMemo ==
  ASSUME CacheInv, CacheInv', NEW t \in Threads, Discard(t)
  PROVE  MemoStep
<1>1. /\ pc[t] = "discard" /\ DestroyPlan(mine[t]) /\ UNCHANGED <<want, answer, face, linked>>
      /\ nodePlan' = [nodePlan EXCEPT ![myNode[t]] = Empty]
  BY DEF Discard, FreeNode, faceVars
<1>2. mine[t] \in Plans \cup {Empty} /\ myNode[t] \notin linked
  BY <1>1 DEF CacheInv, TypeOK, OwnInv, OwningNode
<1>3. \A n \in linked : nodePlan'[n] = nodePlan[n]
  BY <1>1, <1>2 DEF CacheInv, TypeOK
<1>4. \A n \in linked : nodePlan[n] # Empty => planKey'[nodePlan[n]] = planKey[nodePlan[n]]
  BY <1>1, <1>2, <1>3, CachedKeyKept
<1>5. \A k \in Keys : MemoOf(k)' = MemoOf(k)
  BY <1>1, <1>3, <1>4, MemoKept
<1> QED BY <1>1, <1>5, MemoStutter

LEMMA LinkedMemo ==
  ASSUME CacheInv, CacheInv', NEW t \in Threads, Linked(t)
  PROVE  MemoStep
<1>1. \A k \in Keys : MemoOf(k)' = MemoOf(k)
  BY MemoKept DEF Linked, nodeVars
<1>2. PICK p \in Plans \cup {Empty} : p = mine[t]
  BY DEF CacheInv, TypeOK
<1>3. p # Empty => p = MemoOf(want[t])
  <2>1. myNode[t] \in linked /\ nodePlan[myNode[t]] = p /\ want[t] \in Keys
    BY <1>2 DEF Linked, CacheInv, OwnInv, TypeOK
  <2>2. p # Empty => planKey[p] = want[t]
    BY <1>2 DEF Linked, CacheInv, OwnInv
  <2> QED BY <2>1, <2>2, MemoWellDefined DEF MemoFacts, Matches
<1> QED BY <1>1, <1>2, <1>3, MemoAnswer DEF Linked, Return, faceVars

LEMMA DestroyMemo ==
  ASSUME CacheInv, CacheInv', NEW t \in Threads, Destroy(t)
  PROVE  MemoStep
<1>1. /\ pc[t] = "holding" /\ DestroyPlan(answer[t])
      /\ UNCHANGED <<want, face, linked, nodePlan>>
      /\ answer' = [answer EXCEPT ![t] = None]
  BY DEF Destroy, nodeVars, localVars, faceVars
<1>2. answer[t] \in Plans \cup {Empty} /\ answer[t] # None
  BY <1>1 DEF CacheInv, TypeOK, OwnInv
<1>3. \A n \in linked : nodePlan[n] # Empty => planKey'[nodePlan[n]] = planKey[nodePlan[n]]
  BY <1>1, <1>2, CachedKeyKept
<1>4. \A k \in Keys : MemoOf(k)' = MemoOf(k)
  BY <1>1, <1>3, MemoKept
<1>5. Memo!Release(t)
  BY <1>1, <1>2, <1>4 DEF Memo!Release
<1> QED BY <1>5 DEF MemoStep, Memo!Next

LEMMA DestroyNodeMemo ==
  ASSUME CacheInv, CacheInv', DestroyNode
  PROVE  MemoStep
<1>1. /\ walk \in linked /\ DestroyPlan(nodePlan[walk]) /\ linked' = linked \ {walk}
      /\ nodePlan' = [nodePlan EXCEPT ![walk] = Empty] /\ UNCHANGED <<want, answer, face>>
      /\ face = "dying"
  BY DEF DestroyNode, FreeNode, localVars, CacheInv, ListInv, Top
<1>2. nodePlan[walk] \in Plans \cup {Empty}
  BY <1>1 DEF CacheInv, TypeOK
<1>3. \A n \in linked' : n \in linked /\ nodePlan'[n] = nodePlan[n]
  BY <1>1 DEF CacheInv, TypeOK
<1>4. \A n \in linked' : nodePlan[n] # Empty => planKey'[nodePlan[n]] = planKey[nodePlan[n]]
  BY <1>1, <1>2, <1>3, CachedKeyKept
<1>5. MemoFacts /\ MemoFacts'
  BY MemoWellDefined, MemoWellDefinedNext
<1>6. ASSUME NEW k \in Keys
      PROVE  MemoOf(k)' \in Plans \cup {None} /\ MemoOf(k)' \in {MemoOf(k), None}
  <2>1. \A n \in linked' : Matches(n, k)' = Matches(n, k)
    BY <1>3, <1>4 DEF Matches
  <2>2. CASE \E n \in linked' : Matches(n, k)'
    BY <1>3, <1>5, <2>1, <2>2 DEF MemoFacts
  <2>3. CASE \A n \in linked' : ~Matches(n, k)'
    BY <1>5, <2>3 DEF MemoFacts
  <2> QED BY <1>5, <2>2, <2>3 DEF MemoFacts
<1>7. Memo!Forget
  BY <1>1, <1>6 DEF Memo!Forget
<1> QED BY <1>7 DEF MemoStep, Memo!Next

LEMMA NextMemo == CacheInv /\ CacheInv' /\ [Next]_vars => MemoStep
<1> SUFFICES ASSUME CacheInv, CacheInv', [Next]_vars PROVE MemoStep
  OBVIOUS
<1>1. ASSUME NEW t \in Threads, Call(t) \/ Step(t) \/ Destroy(t) PROVE MemoStep
  BY <1>1, CallMemo, CreatePrivateMemo, ReadMemo, SearchMemo, FoundMemo, CreateMemo,
     AllocMemo, LinkMemo, DiscardMemo, LinkedMemo, DestroyMemo DEF Step
<1>2. CASE DestroyFace \/ FaceGone \/ UNCHANGED vars
  <2>1. UNCHANGED <<linked, nodePlan, planKey, want, answer>>
    BY <1>2 DEF DestroyFace, FaceGone, vars, nodeVars, planVars, localVars
  <2>2. \A k \in Keys : MemoOf(k)' = MemoOf(k)
    BY <2>1, MemoKept
  <2>3. CASE DestroyFace
    <3>1. face = "alive" /\ face' = "dying"
      BY <2>3 DEF DestroyFace
    <3>2. Memo!End
      BY <2>1, <2>2, <3>1 DEF Memo!End
    <3> QED BY <3>2 DEF MemoStep, Memo!Next
  <2>4. CASE FaceGone \/ UNCHANGED vars
    <3>1. (face # "alive")' = (face # "alive")
      BY <2>4 DEF FaceGone, vars, faceVars
    <3> QED BY <2>1, <2>2, <3>1 DEF MemoStep, Memo!memoVars
  <2> QED BY <1>2, <2>3, <2>4
<1> QED BY <1>1, <1>2, DestroyNodeMemo DEF Next

\* The list, its races and its retries implement the memo that answers a call
\* in one step: every step of the cache is a step of the memo or changes
\* nothing a caller sees.
THEOREM CacheImplementsMemo == Spec => ImplementsMemo
<1>1. CacheInv /\ CacheInv' /\ [Next]_vars => [Memo!Next]_(Memo!memoVars)
  BY NextMemo DEF MemoStep
<1> QED BY <1>1, CacheSafe, PTL DEF Spec, ImplementsMemo

\* The refinement starts where the memo starts, so the cache implements all of
\* the memo's specification.
THEOREM CacheRefinesMemo == Spec => Memo!Spec
<1>1. Init => Memo!Init
  BY DEF Init, Memo!Init, MemoOf
<1> QED BY <1>1, CacheImplementsMemo, PTL DEF Spec, ImplementsMemo, Memo!Spec
=============================================================================
