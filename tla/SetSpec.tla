------------------------------- MODULE SetSpec -------------------------------
(***************************************************************************)
(* What hb_set_t promises its clients: sets of code points under the       *)
(* operations of hb-set.h.  A call whose allocation fails leaves part of   *)
(* what it was to do, and the set then ignores everything but clear.       *)
(***************************************************************************)
EXTENDS Integers

CONSTANTS Sets,          \* the sets a client holds
          Codepoints,    \* what they may contain
          Ranges         \* ranges <<first, last>> that are added and deleted

VARIABLES content,       \* [Sets -> SUBSET Codepoints]
          failed         \* the sets an allocation failed for

Init == content = [s \in Sets |-> {}] /\ failed = {}

InRange(r) == {g \in Codepoints : r[1] <= g /\ g <= r[2]}

\* What one call may make of the set "mine", "other" being any set.
OfOther(mine, other) == {mine \cup other, mine \cap other, mine \ other, other,
                         (mine \ other) \cup (other \ mine)}
OfRange(mine, r) == {mine \cup InRange(r), mine \ InRange(r)}

\* Cut short, nothing appears that is in neither value and nothing goes that
\* is in both.
CutShort(mine, values, got) ==
    \E value \in values : mine \cap value \subseteq got /\ got \subseteq mine \cup value

\* A call on a set: what it held and whether it had failed, what the sets that
\* may be its operand hold, and what it holds and is then.
Call(mine, bad, others, got, badThen) ==
    \/ /\ ~bad /\ ~badThen
       /\ \/ \E other \in others : got \in OfOther(mine, other)
          \/ \E r \in Ranges : got \in OfRange(mine, r)
    \/ /\ ~bad /\ badThen
       /\ \/ \E other \in others : CutShort(mine, OfOther(mine, other), got)
          \/ \E r \in Ranges : CutShort(mine, OfRange(mine, r), got)
    \/ \* clear; a set whose memory failed may keep what it had
       /\ got = {} \/ (bad /\ got = mine)
       /\ badThen => bad

Next ==
    \E s \in Sets :
       /\ content' = [content EXCEPT ![s] = content'[s]]
       /\ failed' \ {s} = failed \ {s}
       /\ Call(content[s], s \in failed, {content[o] : o \in Sets},
               content'[s], s \in failed')

Spec == Init /\ [][Next]_<<content, failed>>
=============================================================================
