---------------------------- MODULE LookupDriver ----------------------------
(***************************************************************************)
(* One substitution lookup run over a text (apply_forward,                 *)
(* hb-ot-layout.cc) and the lookups it nests (apply_lookup and recurse,    *)
(* hb-ot-layout-gsubgpos.hh).  The text is split at the buffer's cursor:   *)
(* done is what was written, todo what is to be read.  A glyph is known by *)
(* the glyph of the original text it comes from.                           *)
(*                                                                         *)
(* Which glyphs a lookup matches, skips or produces is the font's: any     *)
(* choice.  Each context lookup that is being applied is a frame; a lookup *)
(* without records of its own is applied in one step.                      *)
(***************************************************************************)
EXTENDS MatchPositions, FiniteSets

CONSTANTS N,             \* glyphs in the text
          MaxLen,        \* longest text the buffer allows
          Contexts,      \* the context lookups
          MaxMatch,      \* glyphs a context matches
          MaxRecords,    \* lookup records it has
          MaxNesting,    \* HB_MAX_NESTING_LEVEL (6)
          MaxOps         \* max_ops of the buffer

ASSUME LookupDriverAssumption ==
    /\ N \in Nat /\ MaxLen \in Nat /\ N <= MaxLen
    /\ MaxMatch \in Nat \ {0} /\ MaxMatch <= MaxContext
    /\ MaxRecords \in Nat /\ MaxNesting \in Nat /\ MaxOps \in Nat

VARIABLES done,          \* glyphs before the cursor
          todo,          \* glyphs from the cursor on
          frames,        \* context lookups being applied, the innermost last
          ops,           \* max_ops
          ok             \* successful

vars == <<done, todo, frames, ops, ok>>

Text   == done \o todo
Length == Len(done) + Len(todo)
Depth  == Len(frames)
Inner  == frames[Depth]

\* pos, end, stop: the match (MatchPositions); left: records still to be
\* looked at; at: sequence index of the one being applied; length: of the text
\* when it was (orig_len).  For the properties only: ahead, the glyphs from
\* the first matched on; of, the glyphs matched, or <<>> once the code can but
\* guess which positions are theirs.
Frames == [lookup : Contexts, pos : Seq(Nat), end : Nat, stop : BOOLEAN,
           left : 0 .. MaxRecords, at : Nat, length : Nat,
           ahead : Nat, of : Seq(1 .. N)]

TypeOK ==
    /\ done \in Seq(1 .. N) /\ todo \in Seq(1 .. N)
    /\ frames \in Seq(Frames)
    /\ ops \in 0 .. MaxOps
    /\ ok \in BOOLEAN

Init == /\ done = <<>> /\ todo = [g \in 1 .. N |-> g]
        /\ frames = <<>> /\ ops = MaxOps /\ ok = TRUE

----------------------------------------------------------------------------
(* What lookups do at the cursor.                                          *)

Cut(text, n) == [done |-> SubSeq(text, 1, n), todo |-> SubSeq(text, n + 1, Len(text))]

MovedTo(n) == Cut(Text, n)

\* At most n increasing numbers of S.
Increasing(n, S) == {p \in UNION {[1 .. k -> S] : k \in 0 .. n} :
                       \A i, j \in DOMAIN p : i < j => p[i] < p[j]}

\* Single, multiple (none of them included) and ligature substitution of the
\* glyph at the cursor of x; a ligature takes the glyphs up to the one at last,
\* but those that were skipped: they are written as they are.
Multiplied(x, n) == [done |-> x.done \o [k \in 1 .. n |-> x.todo[1]], todo |-> Tail(x.todo)]

Ligated(x, last, skipped) ==
    [done |-> x.done \o <<x.todo[1]>> \o [k \in DOMAIN skipped |-> x.todo[skipped[k]]],
     todo |-> SubSeq(x.todo, last + 1, Len(x.todo))]

Leaves(x) ==
    {Multiplied(x, n) : n \in 0 .. 2}
      \cup UNION {{Ligated(x, last, skipped) : skipped \in Increasing(last - 2, 2 .. last - 1)} :
                    last \in 2 .. Len(x.todo)}

\* The positions a context may match from the cursor of x on: that of the glyph
\* there and any later ones.
Matches(x) == {p \in Increasing(MaxMatch, Len(x.done) .. Len(x.done) + Len(x.todo) - 1) :
                 p # <<>> /\ p[1] = Len(x.done)}

Match(lookup, x, p, records) ==
    [lookup |-> lookup, pos |-> p, end |-> p[Len(p)] + 1,
     stop   |-> FALSE, left |-> records, at |-> 0, length |-> Len(x.done) + Len(x.todo),
     ahead  |-> Len(x.todo),
     of     |-> [k \in DOMAIN p |-> x.todo[p[k] - Len(x.done) + 1]]]

Becomes(x) == done' = x.done /\ todo' = x.todo

----------------------------------------------------------------------------
(* The frame a nested lookup returns to.                                   *)

\* A glyph that became several leaves no doubt about the positions; one that
\* took others with it, or a context that changed the length, does.
Labels(f, idx, delta, clear) ==
    IF ~clear \/ f.of = <<>> THEN <<>>
    ELSE [k \in 1 .. Len(f.of) + delta |->
            IF k <= idx + 1 THEN f.of[k]
            ELSE IF k <= idx + 1 + delta THEN f.of[idx + 1] ELSE f.of[k - delta]]

\* The record at idx is done, the text has changed by delta glyphs.
Returned(f, idx, delta, clear) ==
    [Adjusted(f, idx, delta) EXCEPT !.left = f.left - 1, !.of = Labels(f, idx, delta, clear)]

SetInner(f) == frames' = [frames EXCEPT ![Depth] = f]

----------------------------------------------------------------------------
(* The forward loop.                                                       *)

Scanning == ok /\ frames = <<>> /\ todo # <<>>

Here == [done |-> done, todo |-> todo]

Size(x) == Len(x.done) + Len(x.todo)

NextGlyph == /\ Scanning
             /\ Becomes(Cut(Text, Len(done) + 1))
             /\ UNCHANGED <<frames, ops, ok>>

ApplyLeaf == /\ Scanning
             /\ \E y \in Leaves(Here) : Size(y) <= MaxLen /\ Becomes(y)
             /\ UNCHANGED <<frames, ops, ok>>

ApplyContext ==
    /\ Scanning
    /\ \E l \in Contexts, p \in Matches(Here), n \in 0 .. MaxRecords :
          frames' = <<Match(l, Here, p, n)>>
    /\ UNCHANGED <<done, todo, ops, ok>>

----------------------------------------------------------------------------
(* The records of the innermost context.                                   *)

InRecords == ok /\ frames # <<>> /\ ~Inner.stop /\ Inner.left > 0

\* A record for a glyph the match has not, or for the lookup itself where it is.
SkipRecord == /\ InRecords
              /\ SetInner([Inner EXCEPT !.left = @ - 1])
              /\ UNCHANGED <<done, todo, ops, ok>>

\* The cursor goes to the glyph of the record before anything else.
AtRecord(idx) == InRecords /\ idx + 1 \in DOMAIN Inner.pos
Place(idx) == MovedTo(Inner.pos[idx + 1])
MayNest == Depth <= MaxNesting

OutOfOps(idx) == /\ AtRecord(idx)
                 /\ ops = 0
                 /\ Becomes(Place(idx))
                 /\ SetInner([Inner EXCEPT !.stop = TRUE])
                 /\ UNCHANGED <<ops, ok>>

\* recurse answers FALSE: too deep, or the lookup does not apply there.
Missed(idx) == /\ AtRecord(idx)
               /\ ops > 0
               /\ Becomes(Place(idx))
               /\ ops' = IF MayNest THEN ops - 1 ELSE ops
               /\ SetInner([Inner EXCEPT !.left = @ - 1])
               /\ UNCHANGED ok

NestLeaf(idx) ==
    /\ AtRecord(idx)
    /\ ops > 0 /\ MayNest
    /\ ops' = ops - 1
    /\ \E y \in Leaves(Place(idx)) :
          /\ Size(y) <= MaxLen
          /\ Becomes(y)
          /\ SetInner(Returned(Inner, idx, Size(y) - Length, Size(y) >= Length))
    /\ UNCHANGED ok

NestContext(idx) ==
    /\ AtRecord(idx)
    /\ ops > 0 /\ MayNest
    /\ ops' = ops - 1
    /\ Becomes(Place(idx))
    /\ \E l \in Contexts, p \in Matches(Place(idx)), n \in 0 .. MaxRecords :
          /\ ~(idx = 0 /\ l = Inner.lookup)
          /\ frames' = Append([frames EXCEPT ![Depth].at = idx, ![Depth].length = Length],
                              Match(l, Place(idx), p, n))
    /\ UNCHANGED ok

\* The frame around the innermost one, once that is done.
Outer(idx) ==
    LET f     == frames[Depth - 1]
        delta == Length - f.length
    IN  Returned(f, idx, delta, delta = 0 /\ Inner.of # <<>>)

\* Mutant of EndOf: the cursor stays where the last record left it.
EndOfHere(f) == Len(done)

EndOf(f) == f.end

Finish ==
    /\ ok /\ frames # <<>>
    /\ Inner.stop \/ Inner.left = 0
    /\ Becomes(MovedTo(EndOf(Inner)))
    /\ frames' = IF Depth = 1 THEN <<>>
                 ELSE [SubSeq(frames, 1, Depth - 1) EXCEPT
                         ![Depth - 1] = Outer(frames[Depth - 1].at)]
    /\ UNCHANGED <<ops, ok>>

\* The text would become longer than the buffer allows.
RunOut ==
    /\ ok
    /\ \/ Scanning /\ \E y \in Leaves(Here) : Size(y) > MaxLen
       \/ /\ MayNest /\ ops > 0
          /\ \E idx \in 0 .. MaxContext - 1 :
                AtRecord(idx) /\ \E y \in Leaves(Place(idx)) : Size(y) > MaxLen
    /\ ok' = FALSE
    /\ UNCHANGED <<done, todo, frames, ops>>

Next ==
    \/ NextGlyph \/ ApplyLeaf \/ ApplyContext
    \/ SkipRecord \/ Finish \/ RunOut
    \/ \E idx \in 0 .. MaxContext - 1 :
          OutOfOps(idx) \/ Missed(idx) \/ NestLeaf(idx) \/ NestContext(idx)

Spec == Init /\ [][Next]_vars

\* apply_string runs to its end without waiting for anybody.
FairSpec == Spec /\ WF_vars(Next)

----------------------------------------------------------------------------
(* Properties.                                                             *)

\* Whatever nested lookups insert and delete, in and beyond what was matched,
\* a context's positions are distinct, in order, before its end, no more than
\* the array holds, and its end is in the text (hb-ot-layout-gsubgpos.hh:1163,
\* :1178): neither move_to's assertion nor the array is ever in danger.  Those
\* of an outer context are so in the text as it was when it nested.
PositionsInText ==
    ok => \A d \in DOMAIN frames :
        /\ frames[d].stop \/ Ordered(frames[d].pos, frames[d].end)
        /\ Len(frames[d].pos) \in 1 .. MaxContext
        /\ frames[d].end <= IF d = Depth THEN Length ELSE frames[d].length

\* As long as nested lookups only replace glyphs and turn one into several, a
\* position stays at the glyph that was matched there, whatever is skipped
\* between them (the case the comment at hb-ot-layout-gsubgpos.hh:1144 calls
\* fine; a deletion makes the code guess).
PositionsFollowGlyphs ==
    ok /\ frames # <<>> /\ ~Inner.stop /\ Inner.of # <<>> =>
        /\ Len(Inner.of) = Len(Inner.pos)
        /\ \A k \in DOMAIN Inner.pos : Text[Inner.pos[k] + 1] = Inner.of[k]

\* An application leaves fewer glyphs to read than it started with, also if
\* its nested lookups made the text longer or deleted all it had matched: the
\* cursor ends behind the first glyph of the match, counted from the end.
ApplicationsAdvance ==
    [][Len(frames') < Len(frames) => Len(todo') < Inner.ahead]_vars

\* So that the lookup reaches the end of the text, or the buffer gives up.
LookupEnds == <>(~ok \/ (todo = <<>> /\ frames = <<>>))
=============================================================================
