---------------------------- MODULE LanguageList ----------------------------
(***************************************************************************)
(* Interned languages (src/src/hb-common.cc).  An hb_language_t is the     *)
(* address of a canonical string in the list langs; clients compare        *)
(* languages by address.  Threads search the list without a lock and push  *)
(* what they miss with a compare-and-exchange.  A call is a thread's walk  *)
(* through the values of pc:                                               *)
(*                                                                         *)
(*   read     about to load langs                   (the label retry)      *)
(*   search   comparing item cur of the list it read                       *)
(*   alloc    about to allocate an item and its string                     *)
(*   link     about to compare-and-exchange its item, mine, in             *)
(*   discard  lost the exchange, about to free the item                    *)
(*   publish  has a language for hb_language_get_default's static          *)
(*   holding  returned to the client                                       *)
(*                                                                         *)
(* Items are addresses: a freed one may be allocated again.                *)
(***************************************************************************)
EXTENDS Naturals, FiniteSets

CONSTANTS
  Threads,  \* threads that ask for languages
  Names,    \* strings clients pass
  Tags,     \* canonical strings
  Canon,    \* canon_map applied to each name
  Items,    \* addresses of list items
  None      \* nullptr, and HB_LANGUAGE_INVALID

VARIABLES
  langs, next, lang, used,      \* the list's head, the items, those allocated
  default, locale,              \* default_language and the process's locale
  pc, asker, key, first, cur, mine, answer, \* the calls of the threads
  exited,                       \* exit handlers have run
  linked, rank                  \* auxiliary: items exchanged in, their depth

ASSUME LanguageAssumption ==
  /\ Canon \in [Names -> Tags]
  /\ None \notin Items
  /\ None \notin Tags

itemVars == <<next, lang, used, rank>>
listVars == <<langs, linked>>
searchVars == <<first, cur, mine>>
vars == <<listVars, itemVars, default, locale, pc, asker, key, searchVars, answer, exited>>

PCs == {"idle", "read", "search", "alloc", "link", "discard", "publish", "holding"}

TypeOK ==
  /\ langs \in Items \cup {None}
  /\ next \in [Items -> Items \cup {None}]
  /\ lang \in [Items -> Tags \cup {None}]
  /\ used \in SUBSET Items
  /\ default \in Items \cup {None}
  /\ locale \in Names
  /\ pc \in [Threads -> PCs]
  /\ asker \in [Threads -> {"client", "default"}]
  /\ key \in [Threads -> Names]
  /\ first \in [Threads -> Items \cup {None}]
  /\ cur \in [Threads -> Items \cup {None}]
  /\ mine \in [Threads -> Items \cup {None}]
  /\ answer \in [Threads -> Items \cup {None}]
  /\ exited \in BOOLEAN
  /\ linked \in SUBSET Items
  /\ rank \in [Items -> Nat]

-----------------------------------------------------------------------------
Tag(t) == Canon[key[t]]

RankOf(i) == IF i = None THEN 0 ELSE rank[i]

Goto(t, label) == pc' = [pc EXCEPT ![t] = label]

\* lang_find_or_insert returns i, to the client or to hb_language_get_default.
Return(t, i) ==
  /\ Goto(t, IF asker[t] = "default" THEN "publish" ELSE "holding")
  /\ answer' = [answer EXCEPT ![t] = i]
  /\ first' = [first EXCEPT ![t] = None]
  /\ cur' = [cur EXCEPT ![t] = None]
  /\ mine' = [mine EXCEPT ![t] = None]

Init ==
  /\ langs = None
  /\ next = [i \in Items |-> None]
  /\ lang = [i \in Items |-> None]
  /\ used = {}
  /\ default = None
  /\ locale \in Names
  /\ pc = [t \in Threads |-> "idle"]
  /\ asker = [t \in Threads |-> "client"]
  /\ key = [t \in Threads |-> locale]
  /\ first = [t \in Threads |-> None]
  /\ cur = [t \in Threads |-> None]
  /\ mine = [t \in Threads |-> None]
  /\ answer = [t \in Threads |-> None]
  /\ exited = FALSE
  /\ linked = {}
  /\ rank = [i \in Items |-> 0]

-----------------------------------------------------------------------------
(* hb_language_from_string and hb_language_get_default.                     *)

\* No string, or an empty one, is HB_LANGUAGE_INVALID without a search.
FromString(t) ==
  /\ pc[t] \in {"idle", "holding"} /\ ~exited
  /\ \/ (\E s \in Names : key' = [key EXCEPT ![t] = s]) /\ Goto(t, "read")
     \/ UNCHANGED key /\ Goto(t, "holding")
  /\ asker' = [asker EXCEPT ![t] = "client"]
  /\ answer' = [answer EXCEPT ![t] = None]
  /\ UNCHANGED <<listVars, itemVars, default, locale, searchVars, exited>>

\* The static is read; without a default the locale's language is looked up.
GetDefault(t) ==
  /\ pc[t] \in {"idle", "holding"} /\ ~exited
  /\ asker' = [asker EXCEPT ![t] = "default"]
  /\ key' = [key EXCEPT ![t] = locale]
  /\ answer' = [answer EXCEPT ![t] = default]
  /\ Goto(t, IF default = None THEN "read" ELSE "holding")
  /\ UNCHANGED <<listVars, itemVars, default, locale, searchVars, exited>>

\* The exchange of the static.  Its outcome is ignored: the caller gets the
\* language it looked up itself.
Publish(t) ==
  /\ pc[t] = "publish"
  /\ default' = IF default = None THEN answer[t] ELSE default
  /\ Goto(t, "holding")
  /\ UNCHANGED <<listVars, itemVars, locale, asker, key, searchVars, answer, exited>>

-----------------------------------------------------------------------------
(* lang_find_or_insert.                                                     *)

Read(t) ==
  /\ pc[t] = "read"
  /\ first' = [first EXCEPT ![t] = langs]
  /\ cur' = [cur EXCEPT ![t] = langs]
  /\ Goto(t, "search")
  /\ UNCHANGED <<listVars, itemVars, default, locale, asker, key, mine, answer, exited>>

\* One turn of the loop over the list.
Search(t) ==
  /\ pc[t] = "search"
  /\ \/ /\ cur[t] = None
        /\ Goto(t, "alloc")
        /\ UNCHANGED <<searchVars, answer>>
     \/ /\ cur[t] # None /\ lang[cur[t]] = Tag(t)
        /\ Return(t, cur[t])
     \/ /\ cur[t] # None /\ lang[cur[t]] # Tag(t)
        /\ cur' = [cur EXCEPT ![t] = next[@]]
        /\ UNCHANGED <<pc, first, mine, answer>>
  /\ UNCHANGED <<listVars, itemVars, default, locale, asker, key, exited>>

\* The item and the copy of the string; if either cannot be had the other is
\* freed and there is no language.
Alloc(t) ==
  /\ pc[t] = "alloc"
  /\ \/ \E i \in Items \ used :
          /\ used' = used \cup {i}
          /\ next' = [next EXCEPT ![i] = first[t]]
          /\ lang' = [lang EXCEPT ![i] = Tag(t)]
          /\ rank' = [rank EXCEPT ![i] = RankOf(first[t]) + 1]
          /\ mine' = [mine EXCEPT ![t] = i]
          /\ Goto(t, "link")
          /\ UNCHANGED <<first, cur, answer>>
     \/ Return(t, None) /\ UNCHANGED itemVars
  /\ UNCHANGED <<listVars, default, locale, asker, key, exited>>

\* Mutant of Link: the exchange does not compare.
LinkStored(t) ==
  /\ pc[t] = "link"
  /\ langs' = mine[t]
  /\ linked' = linked \cup {mine[t]}
  /\ Return(t, mine[t])
  /\ UNCHANGED <<itemVars, default, locale, asker, key, exited>>

Link(t) ==
  /\ pc[t] = "link"
  /\ IF langs = first[t]
     THEN /\ langs' = mine[t]
          /\ linked' = linked \cup {mine[t]}
          /\ Return(t, mine[t])
     ELSE Goto(t, "discard") /\ UNCHANGED <<listVars, searchVars, answer>>
  /\ UNCHANGED <<itemVars, default, locale, asker, key, exited>>

\* Mutants of Discard: the item is freed and returned; the list is not
\* read again, so that every exchange to come must fail.
DiscardReturning(t) ==
  /\ pc[t] = "discard"
  /\ used' = used \ {mine[t]}
  /\ Return(t, mine[t])
  /\ UNCHANGED <<listVars, next, lang, rank, default, locale, asker, key, exited>>

DiscardUnread(t) ==
  /\ pc[t] = "discard"
  /\ used' = used \ {mine[t]}
  /\ lang' = [lang EXCEPT ![mine[t]] = None]
  /\ next' = [next EXCEPT ![mine[t]] = None]
  /\ rank' = [rank EXCEPT ![mine[t]] = 0]
  /\ mine' = [mine EXCEPT ![t] = None]
  /\ Goto(t, "alloc")
  /\ UNCHANGED <<listVars, default, locale, asker, key, first, cur, answer, exited>>

Discard(t) ==
  /\ pc[t] = "discard"
  /\ used' = used \ {mine[t]}
  /\ lang' = [lang EXCEPT ![mine[t]] = None]
  /\ next' = [next EXCEPT ![mine[t]] = None]
  /\ rank' = [rank EXCEPT ![mine[t]] = 0]
  /\ mine' = [mine EXCEPT ![t] = None]
  /\ Goto(t, "read")
  /\ UNCHANGED <<listVars, default, locale, asker, key, first, cur, answer, exited>>

-----------------------------------------------------------------------------
(* The process.                                                             *)

\* setlocale, by the program.
SetLocale ==
  /\ ~exited
  /\ locale' \in Names
  /\ UNCHANGED <<listVars, itemVars, default, pc, asker, key, searchVars, answer, exited>>

\* free_langs, an exit handler: the list is taken and its items are freed.
\* No call is running and none follows.
FreeLangs ==
  /\ ~exited
  /\ \A t \in Threads : pc[t] \in {"idle", "holding"}
  /\ exited' = TRUE
  /\ langs' = None
  /\ linked' = {}
  /\ used' = used \ linked
  /\ answer' = [t \in Threads |-> None]
  /\ pc' = [t \in Threads |-> "idle"]
  /\ UNCHANGED <<next, lang, rank, default, locale, asker, key, searchVars>>

Step(t) == Publish(t) \/ Read(t) \/ Search(t) \/ Alloc(t) \/ Link(t) \/ Discard(t)

Next ==
  \/ \E t \in Threads : FromString(t) \/ GetDefault(t) \/ Step(t)
  \/ SetLocale \/ FreeLangs

Spec == Init /\ [][Next]_vars

\* A running call is scheduled again and again; clients owe nothing.
FairSpec == Spec /\ \A t \in Threads : WF_vars(Step(t))

-----------------------------------------------------------------------------
(* Properties.                                                              *)

\* No two items of the list hold the same language, whatever threads missed
\* it at the same time (the exchange of lang_find_or_insert).
NoLanguageTwice ==
  \A i, j \in linked : lang[i] = lang[j] => i = j

\* Clients may compare addresses: two strings gave them the same language
\* exactly when they have the same canonical form (hb_language_from_string).
SameTagSamePointer ==
  \A t, u \in Threads :
    /\ pc[t] = "holding" /\ asker[t] = "client" /\ answer[t] # None
    /\ pc[u] = "holding" /\ asker[u] = "client" /\ answer[u] # None
    => (answer[t] = answer[u] <=> Tag(t) = Tag(u))

\* Every allocated item is in the list or belongs to the call that is about
\* to link or to free it: a lost exchange leaks nothing.
ItemsOwned ==
  used = linked \cup {mine[t] : t \in {u \in Threads : pc[u] \in {"link", "discard"}}}

\* While the process runs, the items a call walks over and the languages it
\* handed out, the default among them, are in the list and not freed.
NothingDangling ==
  ~exited => /\ \A t \in Threads : {cur[t], first[t], answer[t]} \subseteq linked \cup {None}
             /\ default \in linked \cup {None}

\* The default language of the process never changes once it is known: no
\* race, new locale or failed allocation replaces it (hb_language_get_default).
DefaultKept == [][default # None => default' = default]_default

\* A call returns, however often it loses the exchange.
EveryCallReturns ==
  \A t \in Threads : pc[t] \notin {"idle", "holding"} ~> pc[t] \in {"idle", "holding"}
=============================================================================
