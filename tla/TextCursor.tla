------------------------------ MODULE TextCursor ------------------------------
(***************************************************************************)
(* What hb_buffer_t promises the shaping stages, without its memory: a     *)
(* text, and while it is edited a cursor in it.  done is the text before   *)
(* the cursor, rewritten; todo the text from the cursor on, still to be    *)
(* read.  Moving the cursor never changes the text; clusters and break     *)
(* flags are defined on the text as a whole, wherever the cursor is; a     *)
(* step that runs out of memory leaves the text as it was and makes the    *)
(* buffer unsuccessful, after which only resetting it means anything.      *)
(***************************************************************************)
EXTENDS Integers, Sequences

CONSTANTS ClusterValues, AddCps, GlyphIds, Replacements, Sources, ZeroCp

VARIABLES done, todo, editing, ok, level

cursorVars == <<done, todo, editing, ok, level>>

Levels == {"monotone_graphemes", "monotone_characters", "characters"}

Text == done \o todo

ZeroItem == [cp |-> ZeroCp, cluster |-> 0, unsafe |-> FALSE]

Init == done = <<>> /\ todo = <<>> /\ editing = FALSE /\ ok = TRUE
        /\ level = "monotone_graphemes"

-----------------------------------------------------------------------------
(* Clusters of a text t.                                                    *)

SameRun(t, p, q) == \A r \in (p .. q) \cup (q .. p) : t[r].cluster = t[p].cluster

LeastOf(t, S) == CHOOSE k \in {t[p].cluster : p \in S} : \A p \in S : k <= t[p].cluster

Joined(g, k) == [g EXCEPT !.cluster = k, !.unsafe = @ /\ g.cluster = k]

JoinedAt(t, S, k) == [p \in DOMAIN t |-> IF p \in S THEN Joined(t[p], k) ELSE t[p]]

\* Positions p .. q and whatever shares a cluster with either end.
Span(t, p, q) == {r \in DOMAIN t : r \in p .. q \/ SameRun(t, r, p) \/ SameRun(t, r, q)}

Flagged(t, p, q) ==
  [r \in DOMAIN t |-> IF r \in p .. q /\ t[r].cluster # LeastOf(t, p .. q)
                      THEN [t[r] EXCEPT !.unsafe = TRUE] ELSE t[r]]

Merged(t, p, q) ==
  CASE p >= q -> t
    [] p < q /\ level = "characters" -> Flagged(t, p, q)
    [] OTHER -> JoinedAt(t, Span(t, p, q), LeastOf(t, p .. q))

-----------------------------------------------------------------------------
(* The text as a client sees it.                                            *)

Reset == done' = <<>> /\ todo' = <<>> /\ editing' = FALSE /\ ok' = TRUE

\* A client operation: the whole text becomes t.
Becomes(t) == ok /\ ~editing /\ todo' = t /\ UNCHANGED <<done, editing, ok>>

Reversed(t, p, q) ==
  [r \in DOMAIN t |-> IF r \in p .. q THEN t[p + q - r] ELSE t[r]]

\* The clusters in opposite order, the glyphs of a cluster in the same order.
ClustersReversed(t) ==
  LET rev == Reversed(t, 1, Len(t))
  IN  [r \in DOMAIN t |->
         LET run == {s \in DOMAIN t : SameRun(rev, s, r)}
             lo  == CHOOSE s \in run : s - 1 \notin run
             hi  == CHOOSE s \in run : s + 1 \notin run
         IN  rev[lo + hi - r]]

ClientStep ==
  \/ \E cp \in AddCps, k \in ClusterValues :
       Becomes(Append(todo, [cp |-> cp, cluster |-> k, unsafe |-> FALSE]))
  \/ \E gs \in Sources : Becomes(todo \o gs)
  \/ \E n \in 0 .. Len(todo) : Becomes(SubSeq(todo, 1, n))
  \/ /\ Len(todo') > Len(todo)
     /\ Becomes(todo \o [r \in 1 .. Len(todo') - Len(todo) |-> ZeroItem])
  \/ \E p, q \in DOMAIN todo : Becomes(Reversed(todo, p, q))
  \/ Becomes(ClustersReversed(todo))

-----------------------------------------------------------------------------
(* The text as a stage edits it.                                            *)

\* Enter an edit at the start of the text, leave it at its end.
Begin == ok /\ (~editing \/ todo = <<>>)
            /\ done' = <<>> /\ todo' = Text /\ editing' = TRUE /\ UNCHANGED ok
End   == ok /\ (~editing \/ todo = <<>>)
            /\ done' = <<>> /\ todo' = Text /\ editing' = FALSE /\ UNCHANGED ok

Editing == ok /\ editing /\ UNCHANGED <<editing, ok>>

\* The text becomes t with the cursor after position n.
CutAt(t, n) == done' = SubSeq(t, 1, n) /\ todo' = SubSeq(t, n + 1, Len(t))

MoveCursor == Editing /\ Text = done' \o todo'

WithCps(g, cps) == [k \in DOMAIN cps |-> [g EXCEPT !.cp = cps[k]]]

\* n glyphs become the glyphs cps, all in one cluster.
Replace(n, cps) ==
  /\ Editing
  /\ LET d == Len(done)
         t == Merged(Text, d + 1, d + n)
     IN  /\ done' = SubSeq(t, 1, d) \o WithCps(t[d + 1], cps)
         /\ todo' = SubSeq(t, d + n + 1, Len(t))

\* A glyph made from the one at the cursor, else from the one before it.
Insert(cp) ==
  /\ Editing
  /\ Text # <<>>
  /\ done' = Append(done, [(IF todo # <<>> THEN todo[1] ELSE done[Len(done)]) EXCEPT !.cp = cp])
  /\ UNCHANGED todo

Duplicate == Editing /\ todo # <<>> /\ done' = Append(done, todo[1]) /\ UNCHANGED todo

\* The glyph at the cursor goes: what was written before it stands for it, in
\* the same cluster at the levels that merge.
Drop ==
  /\ Editing
  /\ todo # <<>> /\ done # <<>>
  /\ level # "characters" => done[Len(done)].cluster = todo[1].cluster
  /\ todo' = Tail(todo) /\ UNCHANGED done

\* The glyph at the cursor goes; its cluster does not, unless it survives
\* elsewhere or is larger than that of the glyph before it.
Delete ==
  LET d == Len(done)
      g == todo[1]
      survives == Len(todo) > 1 /\ todo[2].cluster = g.cluster
      run == {r \in 1 .. d : SameRun(done, r, d)}
      lowered == [r \in DOMAIN done |->
                    IF r \in run THEN [done[r] EXCEPT !.cluster = g.cluster, !.unsafe = g.unsafe]
                    ELSE done[r]]
  IN  /\ Editing
      /\ todo # <<>>
      /\ done' = IF ~survives /\ d > 0 /\ g.cluster < done[d].cluster THEN lowered ELSE done
      /\ todo' = IF ~survives /\ d = 0 /\ Len(todo) > 1
                 THEN Tail(Merged(todo, 1, 2)) ELSE Tail(todo)

\* Merging or flagging clusters does not move the cursor.
Rewrite(t) == ok /\ CutAt(t, Len(done)) /\ UNCHANGED <<editing, ok>>

Merge(p, q) == editing /\ Rewrite(Merged(Text, p, q))

Flag(p, q) == Rewrite(Flagged(Text, p, q))

\* A merge outside an edit, or behind its cursor, joins the range, what
\* continues its last cluster, what its first cluster continues back to some
\* position lo, and perhaps glyphs further on of that first cluster, but
\* nothing else.
MergeSome(p, q) ==
  /\ level # "characters"
  /\ \E lo \in 1 .. p, S \in SUBSET {r \in DOMAIN Text : p < r /\ Text[r].cluster = Text[p].cluster} :
       Rewrite(JoinedAt(Text, S \cup {r \in Span(Text, p, q) : lo <= r}, LeastOf(Text, p .. q)))

EditStep ==
  \/ Begin \/ End
  \/ MoveCursor \/ Duplicate \/ Drop \/ Delete
  \/ \E n \in DOMAIN todo, cps \in Replacements : Replace(n, cps)
  \/ \E cp \in GlyphIds : Insert(cp) \/ (todo # <<>> /\ Replace(1, <<cp>>))
  \/ \E p, q \in DOMAIN Text : p < q /\ (Merge(p, q) \/ Flag(p, q) \/ MergeSome(p, q))

-----------------------------------------------------------------------------
(* Memory.                                                                  *)

\* The step that runs out of memory changes nothing else.
RunOut == ok' = FALSE /\ UNCHANGED <<done, todo, editing>>

\* After it, nothing is promised until the buffer is reset.
Broken == ~ok /\ ~ok'

\* The client decides how clusters are treated, and nobody else.
SetLevel == ~editing /\ level' \in Levels /\ UNCHANGED <<done, todo, editing, ok>>

Next ==
  \/ SetLevel
  \/ (Reset \/ ClientStep \/ EditStep \/ RunOut \/ Broken) /\ UNCHANGED level

Spec == Init /\ [][Next]_cursorVars
==============================================================================
