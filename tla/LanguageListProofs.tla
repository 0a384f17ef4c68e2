------------------------- MODULE LanguageListProofs -------------------------
(***************************************************************************)
(* Proofs about LanguageList, for any number of threads, names and items.  *)
(* The invariant ranks the items by their depth in the list: the head is   *)
(* the deepest, a call has compared everything between the head it read    *)
(* and the item it is at, and an exchange that succeeds proves that the    *)
(* head it read is still the head, hence that everything was compared.     *)
(***************************************************************************)
EXTENDS LanguageList, TLAPS

Searching(t) == pc[t] \in {"search", "alloc", "link"}
Owning(t) == pc[t] \in {"link", "discard"}

\* The list: linked items have distinct ranks up to the head's and distinct
\* languages, and each one's successor is linked and has the rank below.
ListInv ==
  /\ langs \in linked \cup {None}
  /\ linked \subseteq used
  /\ \A i \in linked :
       /\ rank[i] > 0 /\ rank[i] <= RankOf(langs)
       /\ next[i] \in linked \cup {None}
       /\ RankOf(next[i]) = rank[i] - 1
  /\ \A i, j \in linked : rank[i] = rank[j] => i = j
  /\ NoLanguageTwice

\* What a call has walked over is linked, and not what it looks for.
SearchInv ==
  \A t \in Threads :
    /\ {first[t], cur[t]} \subseteq linked \cup {None}
    /\ pc[t] \in {"alloc", "link"} => cur[t] = None
    /\ pc[t] \in {"idle", "holding", "publish"} => first[t] = None /\ cur[t] = None
    /\ Searching(t) =>
         \A i \in linked : RankOf(cur[t]) < rank[i] /\ rank[i] <= RankOf(first[t])
                             => lang[i] # Tag(t)

\* The item of a call is its own, and linked in front of the head it read.
OwnInv ==
  /\ \A t \in Threads : Owning(t) =>
       /\ mine[t] \in used \ linked
       /\ next[mine[t]] = first[t]
       /\ lang[mine[t]] = Tag(t)
       /\ rank[mine[t]] = RankOf(first[t]) + 1
  /\ \A t, u \in Threads : Owning(t) /\ Owning(u) /\ mine[t] = mine[u] => t = u

\* A client's answer is the linked item of the tag it asked for.
AnswerInv ==
  /\ \A t \in Threads :
       /\ answer[t] \in linked \cup {None}
       /\ pc[t] = "publish" => asker[t] = "default"
       /\ pc[t] = "holding" /\ asker[t] = "client" /\ answer[t] # None
            => lang[answer[t]] = Tag(t)
  /\ ~exited => default \in linked \cup {None}
  /\ exited => \A t \in Threads : pc[t] = "idle"

LanguageInv == TypeOK /\ ListInv /\ SearchInv /\ OwnInv /\ AnswerInv /\ ItemsOwned
-----------------------------------------------------------------------------
LEMMA InitInv == Init => LanguageInv
<1> SUFFICES ASSUME Init PROVE LanguageInv
  OBVIOUS
<1> USE LanguageAssumption DEF Init
<1>1. TypeOK  BY DEF TypeOK, PCs
<1>2. ListInv  BY DEF ListInv, NoLanguageTwice
<1>3. SearchInv  BY DEF SearchInv, Searching
<1>4. OwnInv  BY DEF OwnInv, Owning
<1>5. AnswerInv  BY DEF AnswerInv
<1>6. ItemsOwned  BY DEF ItemsOwned
<1> QED BY <1>1, <1>2, <1>3, <1>4, <1>5, <1>6 DEF LanguageInv

LEMMA FromStringStep ==
  ASSUME LanguageInv, NEW t \in Threads, FromString(t)
  PROVE  LanguageInv'
<1> USE LanguageAssumption DEF FromString, Goto, Return, listVars, itemVars, searchVars
<1>1. TypeOK'  BY DEF LanguageInv, TypeOK, PCs, Tag, RankOf
<1>2. ListInv'  BY DEF LanguageInv, ListInv, RankOf, NoLanguageTwice, TypeOK
<1>3. SearchInv'  BY DEF LanguageInv, SearchInv, Searching, RankOf, Tag, TypeOK, ListInv
<1>4. OwnInv'  BY DEF LanguageInv, OwnInv, Owning, RankOf, Tag, TypeOK, PCs, ListInv
<1>5. AnswerInv'  BY DEF LanguageInv, AnswerInv, Tag, TypeOK, PCs, ListInv, SearchInv
<1>6. ItemsOwned'  BY DEF LanguageInv, ItemsOwned, TypeOK, OwnInv, Owning
<1> QED BY <1>1, <1>2, <1>3, <1>4, <1>5, <1>6 DEF LanguageInv

LEMMA GetDefaultStep ==
  ASSUME LanguageInv, NEW t \in Threads, GetDefault(t)
  PROVE  LanguageInv'
<1> USE LanguageAssumption DEF GetDefault, Goto, Return, listVars, itemVars, searchVars
<1>1. TypeOK'  BY DEF LanguageInv, TypeOK, PCs, Tag, RankOf
<1>2. ListInv'  BY DEF LanguageInv, ListInv, RankOf, NoLanguageTwice, TypeOK
<1>3. SearchInv'  BY DEF LanguageInv, SearchInv, Searching, RankOf, Tag, TypeOK, ListInv
<1>4. OwnInv'  BY DEF LanguageInv, OwnInv, Owning, RankOf, Tag, TypeOK, PCs, ListInv
<1>5. AnswerInv'  BY DEF LanguageInv, AnswerInv, Tag, TypeOK, PCs, ListInv, SearchInv
<1>6. ItemsOwned'  BY DEF LanguageInv, ItemsOwned, TypeOK, OwnInv, Owning
<1> QED BY <1>1, <1>2, <1>3, <1>4, <1>5, <1>6 DEF LanguageInv

LEMMA PublishStep ==
  ASSUME LanguageInv, NEW t \in Threads, Publish(t)
  PROVE  LanguageInv'
<1> USE LanguageAssumption DEF Publish, Goto, Return, listVars, itemVars, searchVars
<1>1. TypeOK'  BY DEF LanguageInv, TypeOK, PCs, Tag, RankOf
<1>2. ListInv'  BY DEF LanguageInv, ListInv, RankOf, NoLanguageTwice, TypeOK
<1>3. SearchInv'  BY DEF LanguageInv, SearchInv, Searching, RankOf, Tag, TypeOK, ListInv
<1>4. OwnInv'  BY DEF LanguageInv, OwnInv, Owning, RankOf, Tag, TypeOK, PCs, ListInv
<1>5. AnswerInv'  BY DEF LanguageInv, AnswerInv, Tag, TypeOK, PCs, ListInv, SearchInv
<1>6. ItemsOwned'  BY DEF LanguageInv, ItemsOwned, TypeOK, OwnInv, Owning
<1> QED BY <1>1, <1>2, <1>3, <1>4, <1>5, <1>6 DEF LanguageInv

LEMMA ReadStep ==
  ASSUME LanguageInv, NEW t \in Threads, Read(t)
  PROVE  LanguageInv'
<1> USE LanguageAssumption DEF Read, Goto, Return, listVars, itemVars, searchVars
<1>1. TypeOK'  BY DEF LanguageInv, TypeOK, PCs, Tag, RankOf
<1>2. ListInv'  BY DEF LanguageInv, ListInv, RankOf, NoLanguageTwice, TypeOK
<1>3. SearchInv'  BY DEF LanguageInv, SearchInv, Searching, RankOf, Tag, TypeOK, ListInv
<1>4. OwnInv'  BY DEF LanguageInv, OwnInv, Owning, RankOf, Tag, TypeOK, PCs, ListInv
<1>5. AnswerInv'  BY DEF LanguageInv, AnswerInv, Tag, TypeOK, PCs, ListInv, SearchInv
<1>6. ItemsOwned'  BY DEF LanguageInv, ItemsOwned, TypeOK, OwnInv, Owning
<1> QED BY <1>1, <1>2, <1>3, <1>4, <1>5, <1>6 DEF LanguageInv

LEMMA SearchStep ==
  ASSUME LanguageInv, NEW t \in Threads, Search(t)
  PROVE  LanguageInv'
<1> USE LanguageAssumption DEF Search, Goto, Return, listVars, itemVars, searchVars
<1>1. TypeOK'  BY DEF LanguageInv, TypeOK, PCs, Tag, RankOf
<1>2. ListInv'  BY DEF LanguageInv, ListInv, RankOf, NoLanguageTwice, TypeOK
<1>3. SearchInv'  BY DEF LanguageInv, SearchInv, Searching, RankOf, Tag, TypeOK, ListInv
<1>4. OwnInv'  BY DEF LanguageInv, OwnInv, Owning, RankOf, Tag, TypeOK, PCs, ListInv
<1>5. AnswerInv'  BY DEF LanguageInv, AnswerInv, Tag, TypeOK, PCs, ListInv, SearchInv
<1>6. ItemsOwned'  BY DEF LanguageInv, ItemsOwned, TypeOK, OwnInv, Owning
<1> QED BY <1>1, <1>2, <1>3, <1>4, <1>5, <1>6 DEF LanguageInv

LEMMA AllocStep ==
  ASSUME LanguageInv, NEW t \in Threads, Alloc(t)
  PROVE  LanguageInv'
<1> USE LanguageAssumption DEF Goto, Return, listVars, itemVars, searchVars
<1>1. CASE Return(t, None) /\ UNCHANGED itemVars
  <2> UNCHANGED <<langs, linked, next, lang, used, rank, default, locale, asker, key, exited>>
    BY <1>1 DEF Alloc
  <2> pc[t] = "alloc"
    BY DEF Alloc
  <2> USE <1>1
  <2>1. TypeOK'  BY DEF LanguageInv, TypeOK, PCs, Tag, RankOf
  <2>2. ListInv'  BY DEF LanguageInv, ListInv, RankOf, NoLanguageTwice, TypeOK
  <2>3. SearchInv'  BY DEF LanguageInv, SearchInv, Searching, RankOf, Tag, TypeOK, ListInv
  <2>4. OwnInv'  BY DEF LanguageInv, OwnInv, Owning, RankOf, Tag, TypeOK, PCs, ListInv
  <2>5. AnswerInv'  BY DEF LanguageInv, AnswerInv, Tag, TypeOK, PCs, ListInv, SearchInv
  <2>6. ItemsOwned'  BY DEF LanguageInv, ItemsOwned, TypeOK, OwnInv, Owning
  <2> QED BY <2>1, <2>2, <2>3, <2>4, <2>5, <2>6 DEF LanguageInv
<1>2. ASSUME NEW i \in Items \ used,
             used' = used \cup {i},
             next' = [next EXCEPT ![i] = first[t]],
             lang' = [lang EXCEPT ![i] = Tag(t)],
             rank' = [rank EXCEPT ![i] = RankOf(first[t]) + 1],
             mine' = [mine EXCEPT ![t] = i],
             pc' = [pc EXCEPT ![t] = "link"],
             UNCHANGED <<first, cur, answer>>
      PROVE  LanguageInv'
  <2> UNCHANGED <<langs, linked, default, locale, asker, key, exited>>
    BY DEF Alloc
  <2> pc[t] = "alloc"
    BY DEF Alloc
  <2> USE <1>2
  <2>a. i \notin linked /\ i # None
    BY DEF LanguageInv, ListInv
  <2>b. \A j \in linked : next'[j] = next[j] /\ lang'[j] = lang[j] /\ rank'[j] = rank[j]
    BY <2>a DEF LanguageInv, TypeOK
  <2>c. \A x \in linked \cup {None} : RankOf(x)' = RankOf(x)
    BY <2>b DEF RankOf
  <2>d. \A u \in Threads : Tag(u)' = Tag(u)
    BY DEF Tag
  <2>1. TypeOK'  BY DEF LanguageInv, TypeOK, PCs, Tag, RankOf
  <2>2. ListInv'
    BY <2>a, <2>b, <2>c DEF LanguageInv, ListInv, NoLanguageTwice
  <2>3. SearchInv'
    BY <2>a, <2>b, <2>c, <2>d DEF LanguageInv, SearchInv, Searching, TypeOK
  <2>4. OwnInv'
    <3>1. ASSUME NEW u \in Threads, Owning(u)', u # t
          PROVE  Owning(u) /\ mine'[u] = mine[u] /\ mine[u] \in used /\ mine[u] # i
      BY <3>1 DEF Owning, LanguageInv, OwnInv, TypeOK
    <3>2. mine'[t] = i /\ next'[i] = first[t] /\ lang'[i] = Tag(t) /\ rank'[i] = RankOf(first[t]) + 1
      BY DEF LanguageInv, TypeOK
    <3>3. \A u \in Threads : RankOf(first[u])' = RankOf(first[u])
      BY <2>c DEF LanguageInv, SearchInv
    <3>4. \A x \in used : x \in Items => /\ next'[x] = next[x] /\ lang'[x] = lang[x]
                                         /\ rank'[x] = rank[x]
      BY DEF LanguageInv, TypeOK
    <3>5. ASSUME NEW u \in Threads, Owning(u)'
          PROVE  /\ mine'[u] \in used' \ linked'
                 /\ next'[mine'[u]] = first'[u]
                 /\ lang'[mine'[u]] = Tag(u)'
                 /\ rank'[mine'[u]] = RankOf(first[u])' + 1
      <4>1. CASE u = t
        BY <4>1, <3>2, <3>3, <2>a, <2>d
      <4>2. CASE u # t
        <5>1. mine[u] \in Items /\ mine[u] \in used \ linked
          BY <3>1, <3>5, <4>2 DEF LanguageInv, OwnInv, TypeOK
        <5> QED BY <3>1, <3>3, <3>4, <3>5, <4>2, <5>1, <2>d DEF LanguageInv, OwnInv
      <4> QED BY <4>1, <4>2
    <3>6. ASSUME NEW u \in Threads, NEW w \in Threads, Owning(u)', Owning(w)', mine'[u] = mine'[w]
          PROVE  u = w
      BY <3>1, <3>2, <3>6 DEF LanguageInv, OwnInv
    <3> QED BY <3>5, <3>6 DEF OwnInv
  <2>5. AnswerInv'
    BY <2>a, <2>b, <2>d DEF LanguageInv, AnswerInv, TypeOK
  <2>6. ItemsOwned'  BY DEF LanguageInv, ItemsOwned, TypeOK
  <2> QED BY <2>1, <2>2, <2>3, <2>4, <2>5, <2>6 DEF LanguageInv
<1> QED BY <1>1, <1>2 DEF Alloc

LEMMA LinkStep ==
  ASSUME LanguageInv, NEW t \in Threads, Link(t)
  PROVE  LanguageInv'
<1> USE LanguageAssumption DEF Goto, Return, listVars, itemVars, searchVars
<1> UNCHANGED <<next, lang, used, rank, default, locale, asker, key, exited>>
  BY DEF Link
<1>a. pc[t] = "link" /\ Owning(t)
  BY DEF Link, Owning
<1>b. /\ mine[t] \in used \ linked /\ mine[t] \in Items
      /\ next[mine[t]] = first[t] /\ lang[mine[t]] = Tag(t)
      /\ rank[mine[t]] = RankOf(first[t]) + 1
      /\ cur[t] = None
  BY <1>a DEF LanguageInv, OwnInv, TypeOK, SearchInv
<1>c. \A x : RankOf(x)' = RankOf(x)
  BY DEF RankOf
<1>d. \A u \in Threads : Tag(u)' = Tag(u)
  BY DEF Tag
<1>1. CASE langs # first[t]
  <2> UNCHANGED <<langs, linked, first, cur, mine, answer>> /\ pc' = [pc EXCEPT ![t] = "discard"]
    BY <1>1 DEF Link
  <2>1. TypeOK'  BY DEF LanguageInv, TypeOK, PCs
  <2>2. ListInv'  BY <1>c DEF LanguageInv, ListInv, NoLanguageTwice
  <2>3. SearchInv'  BY <1>a, <1>c, <1>d DEF LanguageInv, SearchInv, Searching, TypeOK
  <2>4. OwnInv'  BY <1>a, <1>c, <1>d DEF LanguageInv, OwnInv, Owning, TypeOK
  <2>5. AnswerInv'  BY <1>a, <1>d DEF LanguageInv, AnswerInv, TypeOK
  <2>6. ItemsOwned'  BY <1>a DEF LanguageInv, ItemsOwned, TypeOK
  <2> QED BY <2>1, <2>2, <2>3, <2>4, <2>5, <2>6 DEF LanguageInv
<1>2. CASE langs = first[t]
  <2> DEFINE i == mine[t]
  <2> langs' = i /\ linked' = linked \cup {i} /\ Return(t, i)
    BY <1>2 DEF Link
  <2> HIDE DEF i
  <2>a. /\ i \in Items /\ i \in used /\ i \notin linked /\ i # None
        /\ next[i] = first[t] /\ lang[i] = Tag(t) /\ RankOf(i) = rank[i]
        /\ rank[i] = RankOf(langs) + 1 /\ RankOf(langs) \in Nat
    BY <1>b, <1>2 DEF i, RankOf, LanguageInv, TypeOK
  <2>b. \A j \in linked : /\ j \in Items /\ rank[j] \in Nat /\ rank[j] > 0
                          /\ rank[j] <= RankOf(langs) /\ lang[j] # Tag(t)
    <3>1. \A j \in linked : j \in Items /\ rank[j] \in Nat /\ rank[j] > 0 /\ rank[j] <= RankOf(langs)
      BY DEF LanguageInv, ListInv, TypeOK
    <3>2. \A j \in linked : RankOf(cur[t]) < rank[j] /\ rank[j] <= RankOf(first[t]) => lang[j] # Tag(t)
      BY <1>a DEF LanguageInv, SearchInv, Searching
    <3>3. RankOf(cur[t]) = 0
      BY <1>b DEF RankOf
    <3> QED BY <3>1, <3>2, <3>3, <1>2
  <2>c. \A x \in linked \cup {None} : RankOf(x) \in Nat /\ RankOf(x) <= RankOf(langs)
    BY <2>b, <2>a DEF RankOf
  <2>1. TypeOK'
    BY <2>a DEF LanguageInv, TypeOK, PCs
  <2>2. ListInv'
    <3>1. langs' \in linked' \cup {None} /\ linked' \subseteq used'
      BY <2>a DEF LanguageInv, ListInv
    <3>2. ASSUME NEW j \in linked'
          PROVE  /\ rank[j] > 0 /\ rank[j] <= RankOf(langs') /\ next[j] \in linked' \cup {None}
                 /\ RankOf(next[j]) = rank[j] - 1
      <4>1. CASE j = i
        BY <4>1, <1>2, <2>a DEF LanguageInv, ListInv
      <4>2. CASE j \in linked
        BY <4>2, <2>a, <2>b DEF LanguageInv, ListInv
      <4> QED BY <4>1, <4>2
    <3>3. \A j, k \in linked' : rank[j] = rank[k] => j = k
      BY <2>a, <2>b DEF LanguageInv, ListInv
    <3>4. NoLanguageTwice'
      BY <2>a, <2>b DEF LanguageInv, ListInv, NoLanguageTwice
    <3> QED BY <3>1, <3>2, <3>3, <3>4, <1>c DEF ListInv
  <2>3. SearchInv'
    <3> SUFFICES ASSUME NEW u \in Threads
        PROVE  /\ {first'[u], cur'[u]} \subseteq linked' \cup {None}
               /\ pc'[u] \in {"alloc", "link"} => cur'[u] = None
               /\ pc'[u] \in {"idle", "holding", "publish"} => first'[u] = None /\ cur'[u] = None
               /\ Searching(u)' =>
                    \A j \in linked' : RankOf(cur'[u]) < rank[j] /\ rank[j] <= RankOf(first'[u])
                                         => lang[j] # Tag(u)
      BY <1>c, <1>d DEF SearchInv
    <3>1. CASE u = t
      BY <3>1 DEF LanguageInv, TypeOK, Searching
    <3>2. CASE u # t
      <4>1. first'[u] = first[u] /\ cur'[u] = cur[u] /\ pc'[u] = pc[u]
        BY <3>2 DEF LanguageInv, TypeOK
      <4>2. RankOf(first[u]) < rank[i] /\ RankOf(first[u]) \in Nat
        BY <2>a, <2>c DEF LanguageInv, SearchInv
      <4>3. ~ (rank[i] <= RankOf(first[u]))
        BY <4>2, <2>a
      <4> QED BY <4>1, <4>3 DEF LanguageInv, SearchInv, Searching
    <3> QED BY <3>1, <3>2
  <2>4. OwnInv'
    <3>1. ~ Owning(t)'
      BY DEF Owning, LanguageInv, TypeOK
    <3>2. ASSUME NEW u \in Threads, Owning(u)'
          PROVE  u # t /\ Owning(u) /\ mine'[u] = mine[u] /\ first'[u] = first[u] /\ mine[u] # i
      BY <3>1, <3>2, <1>a DEF Owning, LanguageInv, TypeOK, OwnInv, i
    <3>3. ASSUME NEW u \in Threads, Owning(u)'
          PROVE  /\ mine'[u] \in used' \ linked' /\ next[mine'[u]] = first'[u]
                 /\ lang[mine'[u]] = Tag(u) /\ rank[mine'[u]] = RankOf(first'[u]) + 1
      BY <3>2, <3>3 DEF LanguageInv, OwnInv
    <3> QED BY <3>2, <3>3, <1>c, <1>d DEF LanguageInv, OwnInv
  <2>5. AnswerInv'
    <3>1. answer' = [answer EXCEPT ![t] = i] /\ pc'[t] \in {"publish", "holding"}
          /\ (pc'[t] = "publish" <=> asker[t] = "default")
      BY DEF LanguageInv, TypeOK
    <3>2. \A u \in Threads \ {t} : answer'[u] = answer[u] /\ pc'[u] = pc[u]
      BY <3>1 DEF LanguageInv, TypeOK
    <3>3. answer'[t] = i /\ ~exited
      BY <3>1, <1>a DEF LanguageInv, TypeOK, AnswerInv
    <3> QED BY <3>1, <3>2, <3>3, <2>a, <1>d DEF LanguageInv, AnswerInv
  <2>6. ItemsOwned'
    <3>1. {u \in Threads : pc'[u] \in {"link", "discard"}} = {u \in Threads : pc[u] \in {"link", "discard"}} \ {t}
      BY DEF LanguageInv, TypeOK
    <3>2. \A u \in Threads \ {t} : mine'[u] = mine[u]
      BY DEF LanguageInv, TypeOK
    <3> QED BY <3>1, <3>2, <1>a DEF LanguageInv, ItemsOwned, i
  <2> QED BY <2>1, <2>2, <2>3, <2>4, <2>5, <2>6 DEF LanguageInv
<1> QED BY <1>1, <1>2

LEMMA DiscardStep ==
  ASSUME LanguageInv, NEW t \in Threads, Discard(t)
  PROVE  LanguageInv'
<1> USE LanguageAssumption DEF Goto, listVars
<1> DEFINE i == mine[t]
<1> /\ pc' = [pc EXCEPT ![t] = "read"] /\ mine' = [mine EXCEPT ![t] = None]
    /\ used' = used \ {i}
    /\ next' = [next EXCEPT ![i] = None] /\ lang' = [lang EXCEPT ![i] = None]
    /\ rank' = [rank EXCEPT ![i] = 0]
    /\ UNCHANGED <<langs, linked, default, locale, asker, key, first, cur, answer, exited>>
  BY DEF Discard
<1>a. pc[t] = "discard" /\ Owning(t) /\ i \in used \ linked /\ i \in Items
  BY DEF Discard, Owning, LanguageInv, OwnInv, TypeOK
<1>b. \A u \in Threads \ {t} : Owning(u) => mine[u] # i
  BY <1>a DEF LanguageInv, OwnInv
<1> HIDE DEF i
<1>c. \A j \in Items \ {i} : next'[j] = next[j] /\ lang'[j] = lang[j] /\ rank'[j] = rank[j]
  BY DEF LanguageInv, TypeOK
<1>d. linked \subseteq Items \ {i}
  BY <1>a DEF LanguageInv, TypeOK
<1>e. \A x \in linked \cup {None} : RankOf(x)' = RankOf(x)
  BY <1>c, <1>d DEF RankOf
<1>f. \A u \in Threads : Tag(u)' = Tag(u)
  BY DEF Tag
<1>1. TypeOK'
  BY DEF LanguageInv, TypeOK, PCs
<1>2. ListInv'
  BY <1>a, <1>c, <1>d, <1>e DEF LanguageInv, ListInv, NoLanguageTwice
<1>3. SearchInv'
  BY <1>c, <1>d, <1>e, <1>f DEF LanguageInv, SearchInv, Searching, TypeOK
<1>4. OwnInv'
  <2>1. ASSUME NEW u \in Threads, Owning(u)'
        PROVE  u # t /\ Owning(u) /\ mine'[u] = mine[u] /\ mine[u] \in Items \ {i}
    BY <2>1, <1>b DEF Owning, LanguageInv, TypeOK, OwnInv
  <2>2. \A u \in Threads : RankOf(first[u])' = RankOf(first[u])
    BY <1>e DEF LanguageInv, SearchInv
  <2>3. ASSUME NEW u \in Threads, Owning(u)'
        PROVE  /\ mine'[u] \in used' \ linked' /\ next'[mine'[u]] = first'[u]
               /\ lang'[mine'[u]] = Tag(u)' /\ rank'[mine'[u]] = RankOf(first[u])' + 1
    <3>1. /\ mine[u] \in used \ linked /\ next[mine[u]] = first[u]
          /\ lang[mine[u]] = Tag(u) /\ rank[mine[u]] = RankOf(first[u]) + 1
      BY <2>1, <2>3 DEF LanguageInv, OwnInv
    <3>2. /\ next'[mine[u]] = next[mine[u]] /\ lang'[mine[u]] = lang[mine[u]]
          /\ rank'[mine[u]] = rank[mine[u]]
      BY <2>1, <2>3, <1>c
    <3> QED BY <2>1, <2>2, <2>3, <3>1, <3>2, <1>f
  <2>4. ASSUME NEW u \in Threads, NEW w \in Threads, Owning(u)', Owning(w)', mine'[u] = mine'[w]
        PROVE  u = w
    BY <2>1, <2>4 DEF LanguageInv, OwnInv
  <2> QED BY <2>3, <2>4 DEF OwnInv
<1>5. AnswerInv'
  <2>1. ~exited
    BY <1>a DEF LanguageInv, AnswerInv
  <2>2. \A j \in linked : lang'[j] = lang[j]
    BY <1>c, <1>d
  <2>3. \A u \in Threads : pc'[u] = pc[u] \/ pc'[u] = "read"
    BY DEF LanguageInv, TypeOK
  <2> QED BY <2>1, <2>2, <2>3, <1>f DEF LanguageInv, AnswerInv
<1>6. ItemsOwned'
  <2>1. {u \in Threads : pc'[u] \in {"link", "discard"}} = {u \in Threads : pc[u] \in {"link", "discard"}} \ {t}
    BY DEF LanguageInv, TypeOK
  <2>2. \A u \in Threads \ {t} : mine'[u] = mine[u]
    BY DEF LanguageInv, TypeOK
  <2> QED BY <2>1, <2>2, <1>a, <1>b DEF LanguageInv, ItemsOwned, Owning, i
<1> QED BY <1>1, <1>2, <1>3, <1>4, <1>5, <1>6 DEF LanguageInv

LEMMA SetLocaleStep ==
  ASSUME LanguageInv, SetLocale
  PROVE  LanguageInv'
<1> USE DEF SetLocale, listVars, itemVars, searchVars
<1>1. TypeOK'  BY DEF LanguageInv, TypeOK
<1>2. ListInv'  BY DEF LanguageInv, ListInv, NoLanguageTwice, RankOf
<1>3. SearchInv'  BY DEF LanguageInv, SearchInv, Searching, RankOf, Tag
<1>4. OwnInv'  BY DEF LanguageInv, OwnInv, Owning, RankOf, Tag
<1>5. AnswerInv'  BY DEF LanguageInv, AnswerInv, Tag
<1>6. ItemsOwned'  BY DEF LanguageInv, ItemsOwned
<1> QED BY <1>1, <1>2, <1>3, <1>4, <1>5, <1>6 DEF LanguageInv

LEMMA FreeLangsStep ==
  ASSUME LanguageInv, FreeLangs
  PROVE  LanguageInv'
<1> USE LanguageAssumption DEF FreeLangs, searchVars
<1>1. TypeOK'  BY DEF LanguageInv, TypeOK, PCs
<1>2. ListInv'  BY DEF LanguageInv, ListInv, NoLanguageTwice
<1>3. SearchInv'  BY DEF LanguageInv, SearchInv, Searching
<1>4. OwnInv'  BY DEF LanguageInv, OwnInv, Owning
<1>5. AnswerInv'  BY DEF LanguageInv, AnswerInv
<1>6. ItemsOwned'  BY DEF LanguageInv, ItemsOwned
<1> QED BY <1>1, <1>2, <1>3, <1>4, <1>5, <1>6 DEF LanguageInv

LEMMA StutterStep ==
  ASSUME LanguageInv, UNCHANGED vars
  PROVE  LanguageInv'
BY DEF LanguageInv, vars, listVars, itemVars, searchVars, TypeOK, ListInv, NoLanguageTwice,
       SearchInv, Searching, OwnInv, Owning, AnswerInv, ItemsOwned, Tag, RankOf

-----------------------------------------------------------------------------
\* Every reachable state of any number of threads satisfies the invariant.
THEOREM LanguagesSafe == Spec => []LanguageInv
<1>1. ASSUME LanguageInv, [Next]_vars PROVE LanguageInv'
  BY <1>1, FromStringStep, GetDefaultStep, PublishStep, ReadStep, SearchStep, AllocStep,
     LinkStep, DiscardStep, SetLocaleStep, FreeLangsStep, StutterStep DEF Next, Step
<1> QED BY <1>1, InitInv, PTL DEF Spec

\* The list never holds a language twice (lang_find_or_insert), for any number
\* of threads and languages.
THEOREM LanguagesUnique == Spec => []NoLanguageTwice
<1>1. LanguageInv => NoLanguageTwice
  BY DEF LanguageInv, ListInv
<1> QED BY <1>1, LanguagesSafe, PTL

\* Comparing languages by address is comparing their canonical strings.
THEOREM LanguagesComparable == Spec => []SameTagSamePointer
<1>1. LanguageInv => SameTagSamePointer
  BY LanguageAssumption
     DEF LanguageInv, AnswerInv, ListInv, NoLanguageTwice, SameTagSamePointer, Tag
<1> QED BY <1>1, LanguagesSafe, PTL

\* No item leaks or is shared: those allocated are in the list or a call's own.
THEOREM LanguagesOwned == Spec => []ItemsOwned
<1>1. LanguageInv => ItemsOwned
  BY DEF LanguageInv
<1> QED BY <1>1, LanguagesSafe, PTL

\* No call reads and no client or static holds a language that was freed.
THEOREM LanguagesAlive == Spec => []NothingDangling
<1>1. LanguageInv => NothingDangling
  BY DEF LanguageInv, SearchInv, AnswerInv, NothingDangling
<1> QED BY <1>1, LanguagesSafe, PTL

\* The default language, once known, is never replaced.
THEOREM LanguagesDefaultKept == Spec => DefaultKept
<1>1. [Next]_vars => [default # None => default' = default]_default
  BY DEF Next, Step, vars, FromString, GetDefault, Publish, Read, Search, Alloc, Link, Discard,
         SetLocale, FreeLangs
<1> QED BY <1>1, PTL DEF Spec, DefaultKept
=============================================================================
