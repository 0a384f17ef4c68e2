------------------------------ MODULE PlanMemo ------------------------------
(***************************************************************************)
(* What hb_shape_plan_create_cached2 promises its callers: a memo of shape *)
(* plans by key.  While the face lives, a key's plan is remembered once and*)
(* neither changes nor is forgotten.  A call answers with that plan, with a*)
(* plan of its own that the memo does not have and nobody else holds (it   *)
(* was made for the inert face, or no memory was left to remember it), or  *)
(* with the inert empty plan.  When the face is destroyed no call runs and *)
(* the plans are forgotten; those that clients hold stay theirs.  Threads  *)
(* do not appear as steps here: an answer is atomic.                       *)
(***************************************************************************)
CONSTANTS Threads, Keys, Plans, Empty, None

VARIABLES memo,    \* the plan remembered for each key, None at first
          want,    \* the key of each thread's latest call
          answer,  \* the plan a thread holds as its call's answer, or None
          over     \* whether the face is being destroyed

memoVars == <<memo, want, answer, over>>

Init ==
  /\ memo = [k \in Keys |-> None]
  /\ want \in [Threads -> Keys]
  /\ answer = [t \in Threads |-> None]
  /\ over = FALSE

Ask(t) ==
  /\ ~over /\ answer[t] = None
  /\ \E k \in Keys : want' = [want EXCEPT ![t] = k]
  /\ UNCHANGED <<memo, answer, over>>

Remember(k) ==
  /\ ~over /\ memo[k] = None
  /\ \E p \in Plans \ {memo[j] : j \in Keys} :
       /\ \A t \in Threads : answer[t] # p
       /\ memo' = [memo EXCEPT ![k] = p]
  /\ UNCHANGED <<want, answer, over>>

Answer(t) ==
  /\ ~over /\ answer[t] = None
  /\ \/ memo[want[t]] # None /\ answer' = [answer EXCEPT ![t] = memo[want[t]]]
     \/ \E p \in Plans : /\ \A k \in Keys : memo[k] # p
                         /\ \A u \in Threads : answer[u] # p
                         /\ answer' = [answer EXCEPT ![t] = p]
     \/ answer' = [answer EXCEPT ![t] = Empty]
  /\ UNCHANGED <<memo, want, over>>

Release(t) ==
  /\ answer[t] # None
  /\ answer' = [answer EXCEPT ![t] = None]
  /\ UNCHANGED <<memo, want, over>>

\* The face's destruction begins: from here on no call is made with it.
End ==
  /\ ~over /\ over' = TRUE
  /\ UNCHANGED <<memo, want, answer>>

\* The face that is destroyed forgets its plans, one node after another.
Forget ==
  /\ over
  /\ memo' \in [Keys -> Plans \cup {None}]
  /\ \A k \in Keys : memo'[k] \in {memo[k], None}
  /\ UNCHANGED <<want, answer, over>>

Next ==
  \/ \E t \in Threads : Ask(t) \/ Answer(t) \/ Release(t)
  \/ \E k \in Keys : Remember(k)
  \/ End \/ Forget

Spec == Init /\ [][Next]_memoVars
=============================================================================
