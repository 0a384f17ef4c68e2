----------------------------- MODULE Serializer -----------------------------
(***************************************************************************)
(* hb_serialize_context_t (hb-serialize.hh): a table is written into one   *)
(* block of memory.  The objects under construction grow at its head, one  *)
(* inside the other; a finished object is packed: it moves to the tail,    *)
(* where an equal one may already be, and its parent keeps a link, which   *)
(* becomes an offset once all objects have their place.  What a client     *)
(* gives up is reverted, packed objects included.  The caller (_subset2,   *)
(* hb-subset.cc) starts again with more memory when the block was too      *)
(* small.                                                                  *)
(*                                                                         *)
(* A byte stands for a field: a number of Values, or an offset, which is   *)
(* zero until the end.  The client is any code of the tables that keeps to *)
(* how they use the context; frames are its calls.                         *)
(***************************************************************************)
EXTENDS Integers, Sequences, FiniteSets

CONSTANTS Values,      \* of a field; 0 among them
          FirstSize,   \* estimate of the table's size
          Extra,       \* what a retry adds (32)
          MaxSize,     \* largest block malloc grants
          MaxOffset,   \* largest offset that fits its field
          MaxDepth,    \* bound: objects under construction at once
          MaxHeld,     \* bound: indices the client keeps to link later
          MaxFailed    \* bound: allocations of the context that fail

ASSUME SerializerAssumption ==
    /\ Values \subseteq Nat /\ 0 \in Values
    /\ FirstSize \in Nat /\ Extra \in Nat \ {0}
    /\ MaxSize \in Nat /\ FirstSize <= MaxSize
    /\ MaxOffset \in Nat /\ MaxDepth \in Nat /\ MaxHeld \in Nat /\ MaxFailed \in Nat

VARIABLES mem,         \* the block
          end,         \* its size
          context,     \* the rest of the context, see Context
          frames,      \* the client's calls, see Frame
          failed,      \* allocations that have failed
          phase        \* "writing", "done", "refused", or "aborted" by an assert

vars == <<mem, end, context, frames, failed, phase>>

\* links: position of the offset and of what it is counted from, within the
\* object, and index of the object it leads to.  kids, for the properties only:
\* the trees those objects are, as the client built them.  cut: links in error.
Object(at, tail) == [head |-> at, tail |-> tail, links |-> <<>>, cut |-> FALSE, kids |-> {}]

\* A call that builds an object: the head it started at, the objects it may
\* still link, and the snapshot it may revert to, if any.
NoSnapshot == [head |-> 0, tail |-> -1]
Frame(at) == [at |-> at, held |-> {}, snap |-> NoSnapshot]

\* current: the stack of objects, the innermost last; packed without the nil
\* object, so that an index is an objidx; map: packed_map, whose keys are
\* compared by content; bad: packed and packed_map in error; lost: objects
\* whose links came to be in error, of which the context does not know.
Fresh(size) == [head |-> 0, tail |-> size, current |-> <<>>, packed |-> <<>>, map |-> {},
                successful |-> TRUE, roomless |-> FALSE, bad |-> {}, lost |-> 0]

Last(s)  == s[Len(s)]
Front(s) == SubSeq(s, 1, Len(s) - 1)
SetLast(s, x) == [s EXCEPT ![Len(s)] = x]

----------------------------------------------------------------------------
(* Objects.                                                                *)

Bytes(m, o) == [k \in 1 .. o.tail - o.head |-> m[o.head + k - 1]]

\* object_t::operator ==
Equal(m, o, p) == Bytes(m, o) = Bytes(m, p) /\ o.links = p.links

\* What the client built: the fields, and under each offset what it leads to.
Tree(m, o) == [bytes |-> Bytes(m, o), kids |-> o.kids]

\* memmove of the object to the tail.
Moved(m, o, to) ==
    [a \in DOMAIN m |-> IF to <= a /\ a < to + (o.tail - o.head) THEN m[o.head + a - to] ELSE m[a]]

----------------------------------------------------------------------------
(* Methods of the context: what they return is a record of the new memory, *)
(* the new context, the object's index and the asserts met.                *)

Result(m, x, i, asserts) == [mem |-> m, context |-> x, objidx |-> i, asserts |-> asserts]

\* Mutants of Kept: nothing is discarded; the last object that stays is, too.
KeptAll(x, tail) == Len(x.packed)

KeptLess(x, tail) ==
    CHOOSE n \in 0 .. Len(x.packed) : /\ n > 0 => x.packed[n].head > tail
                                      /\ \A k \in n + 1 .. Len(x.packed) : x.packed[k].head <= tail

\* discard_stale_objects: how many of the packed objects stay.
Kept(x, tail) ==
    CHOOSE n \in 0 .. Len(x.packed) : /\ n > 0 => x.packed[n].head >= tail
                                      /\ \A k \in n + 1 .. Len(x.packed) : x.packed[k].head < tail

\* Mutant of Revert: what is discarded stays in the map.
RevertUnmapped(m, x, at, tail) ==
    LET keep == Kept(x, tail)
    IN  Result(m, [x EXCEPT !.head = at, !.tail = tail, !.packed = SubSeq(@, 1, keep)], 0,
               /\ at <= x.head /\ x.tail <= tail
               /\ keep > 0 => x.packed[keep].head = tail)

\* revert; del takes an equal key out of the map.
Revert(m, x, at, tail) ==
    LET keep == Kept(x, tail)
        stale(e) == \E k \in keep + 1 .. Len(x.packed) : Equal(m, e.object, x.packed[k])
    IN  Result(m, [x EXCEPT !.head = at, !.tail = tail, !.packed = SubSeq(@, 1, keep),
                            !.map = IF "packed_map" \in x.bad THEN @
                                    ELSE {e \in @ : ~stale(e)}], 0,
               /\ at <= x.head /\ x.tail <= tail
               /\ keep > 0 => x.packed[keep].head = tail)

\* pop_pack: nothing to pop; an empty object; one equal to a packed one; or a
\* new packed object, for which packed or its map may lack the memory.
PopPack(m, x) ==
    IF x.current = <<>> THEN {Result(m, x, 0, TRUE)}
    ELSE
    LET o      == [Last(x.current) EXCEPT !.tail = x.head]
        len    == o.tail - o.head
        popped == [x EXCEPT !.current = Front(@), !.head = o.head]
        equal  == {e \in x.map : Equal(m, e.object, o)}
        to     == x.tail - len
        p      == [o EXCEPT !.head = to, !.tail = to + len]
        moved  == [popped EXCEPT !.tail = to]
        pushed == [moved EXCEPT !.packed = Append(@, p)]
        mapped == [pushed EXCEPT !.map = @ \cup {[object |-> p, objidx |-> Len(pushed.packed)]}]
        lost(y, v) == [y EXCEPT !.bad = @ \cup {v}]
        idx    == Len(pushed.packed)
        new    == Moved(m, o, to)
    IN  IF len = 0 THEN {Result(m, popped, 0, o.links = <<>>)}
        ELSE IF equal # {} THEN {Result(m, popped, e.objidx, TRUE) : e \in equal}
        ELSE IF "packed" \in x.bad THEN {Result(new, moved, 0, TRUE)}
        ELSE {Result(new, lost(moved, "packed"), 0, TRUE),
              Result(new, lost(pushed, "packed_map"), idx, TRUE)}
             \cup (IF "packed_map" \in x.bad THEN {} ELSE {Result(new, mapped, idx, TRUE)})

PopDiscard(m, x) ==
    IF x.current = <<>> THEN Result(m, x, 0, TRUE)
    ELSE Revert(m, [x EXCEPT !.current = Front(@)], Last(x.current).head, Last(x.current).tail)

\* add_link from the field at address a, counted from address base, to the
\* object with index i, which the client built as the given tree.  When links
\* finds no memory to grow, nobody is told: the link is lost, and so is every
\* later one of the object.
AddLink(r, a, base, i, tree) ==
    IF i = 0 THEN {r}
    ELSE IF r.context.current = <<>> THEN {[r EXCEPT !.asserts = FALSE]}
    ELSE LET o == Last(r.context.current)
             link == [position |-> a - o.head, bias |-> base - o.head, objidx |-> i]
             kid  == [position |-> a - o.head, bias |-> base - o.head, tree |-> tree]
             p    == [o EXCEPT !.kids = @ \cup {kid}]
             with(q, n) == [r EXCEPT !.asserts = @ /\ o.head <= a /\ o.head <= base,
                                     !.context.current = SetLast(@, q),
                                     !.context.lost = @ + n]
         IN  {with([p EXCEPT !.cut = TRUE], IF o.cut THEN 0 ELSE 1)}
             \cup (IF o.cut THEN {} ELSE {with([p EXCEPT !.links = Append(@, link)], 0)})

\* A packed object with one of its links, the field and the offset for it.
LinksIn(x) == UNION {{<<p, p.links[j]>> : j \in DOMAIN p.links} : p \in {x.packed[k] : k \in DOMAIN x.packed}}
FieldOf(pl) == pl[1].head + pl[2].position
OffsetOf(x, pl) == x.packed[pl[2].objidx].head - pl[1].head - pl[2].bias

\* What resolve_links writes to address a: nothing, or the offset of its link.
Stored(x, a) == {OffsetOf(x, pl) : pl \in {pl \in LinksIn(x) : FieldOf(pl) = a}}

WithOffsets(m, x) == [a \in DOMAIN m |-> IF Stored(x, a) = {} THEN m[a]
                                        ELSE (CHOOSE n \in Stored(x, a) : TRUE) % (MaxOffset + 1)]

\* Mutant of ResolveLinks: nobody looks whether the offset has fitted.
ResolveUnchecked(r) ==
    IF r.context.successful THEN [r EXCEPT !.mem = WithOffsets(@, r.context)] ELSE r

\* resolve_links: every offset is stored, as much of it as fits.
ResolveLinks(r) ==
    LET links == LinksIn(r.context)
    IN  IF ~r.context.successful THEN r
        ELSE [r EXCEPT
                !.mem = WithOffsets(@, r.context),
                !.context.successful = \A pl \in links : OffsetOf(r.context, pl) \in 0 .. MaxOffset,
                !.asserts = \A pl \in links : /\ r.mem[FieldOf(pl)] = 0
                                              /\ pl[2].bias <= pl[1].tail - pl[1].head]

----------------------------------------------------------------------------
(* The client.  Once a field cannot be written or a push has failed, it can *)
(* only give up what it has begun.                                         *)

Zeroes(size) == [a \in 0 .. size - 1 |-> 0]

Init == /\ mem = Zeroes(FirstSize) /\ end = FirstSize
        /\ context = Fresh(FirstSize)
        /\ frames = <<>> /\ failed = 0 /\ phase = "writing"

Writing == phase = "writing"
Depth   == Len(frames)
Inner   == frames[Depth]
Outer   == frames[Depth - 1]

\* The context is what method result r says, or an assert has ended the process.
Becomes(r) ==
    /\ IF r.asserts THEN mem' = r.mem /\ context' = r.context /\ UNCHANGED phase
                    ELSE phase' = "aborted" /\ UNCHANGED <<mem, context>>
    /\ failed' = failed + (Cardinality(r.context.bad) - Cardinality(context.bad))
                       + (r.context.lost - context.lost)
    /\ failed' <= MaxFailed
    /\ UNCHANGED end

\* allocate_size, and the field's value.
Embed(v) ==
    /\ Writing /\ frames # <<>> /\ context.successful
    /\ IF context.tail - context.head < 1
       THEN /\ context' = [context EXCEPT !.successful = FALSE, !.roomless = TRUE]
            /\ UNCHANGED mem
       ELSE /\ mem' = [mem EXCEPT ![context.head] = v]
            /\ context' = [context EXCEPT !.head = @ + 1]
    /\ UNCHANGED <<end, frames, failed, phase>>

\* push; start_serialize is the first.
Push ==
    /\ Writing /\ context.successful /\ Depth < MaxDepth
    /\ context' = [context EXCEPT !.current = Append(@, Object(context.head, context.tail))]
    /\ frames' = Append(frames, Frame(context.head))
    /\ UNCHANGED <<mem, end, failed, phase>>

\* push without memory for the object: the client does not notice.
PushRefused ==
    /\ Writing /\ context.successful /\ Depth < MaxDepth /\ failed < MaxFailed
    /\ context' = [context EXCEPT !.successful = FALSE]
    /\ frames' = Append(frames, Frame(context.head))
    /\ failed' = failed + 1
    /\ UNCHANGED <<mem, end, phase>>

\* The tree of the object that a pop is about to take; nothing is left to say
\* of it once the context cannot succeed any more.
Built == IF ~context.successful \/ context.bad # {} THEN Tree(mem, Object(0, 0))
         ELSE Tree(mem, [Last(context.current) EXCEPT !.tail = context.head])

\* Fields from address "from" to "to" that can be offsets the object on top of
\* the stack has not linked yet.
Offsets(r, from, to) ==
    {a \in from .. to : /\ r.mem[a] = 0
                        /\ r.context.current # <<>> =>
                             LET o == Last(r.context.current)
                             IN  \A j \in DOMAIN o.links : o.head + o.links[j].position # a}

\* serialize_subset and serialize_copy: the finished object is linked at once.
PopLink ==
    /\ Writing /\ Depth >= 2
    /\ \E r \in PopPack(mem, context) :
          \E a \in Offsets(r, Outer.at, Inner.at - 1) : \E base \in Outer.at .. a :
             \E y \in AddLink(r, a, base, r.objidx, Built) : Becomes(y)
    /\ frames' = SetLast(Front(frames), [Outer EXCEPT !.snap = NoSnapshot])

Held == UNION {frames[d].held : d \in DOMAIN frames}

\* The index of the finished object is kept (cmap, CFF) ...
PopKeep ==
    /\ Writing /\ Depth >= 2 /\ Cardinality(Held) < MaxHeld
    /\ \E r \in PopPack(mem, context) :
          /\ Becomes(r)
          /\ frames' = SetLast(Front(frames),
                          [Outer EXCEPT !.snap = NoSnapshot,
                                        !.held = IF r.objidx = 0 THEN @
                                                 ELSE @ \cup {[objidx |-> r.objidx, tree |-> Built]}])

\* ... and linked later, maybe more than once.
LinkKept ==
    /\ Writing /\ context.successful /\ frames # <<>>
    /\ \E h \in Held :
          LET r == Result(mem, context, h.objidx, TRUE)
          IN  \E a \in Offsets(r, Inner.at, context.head - 1) : \E base \in Inner.at .. a :
                 \E y \in AddLink(r, a, base, h.objidx, h.tree) : Becomes(y)
    /\ frames' = SetLast(frames, [Inner EXCEPT !.snap = NoSnapshot])

\* Nothing of the object is needed.
Discard ==
    /\ Writing /\ Depth >= 2
    /\ Becomes(PopDiscard(mem, context))
    /\ frames' = Front(frames)

Snapshot ==
    /\ Writing /\ context.successful /\ frames # <<>>
    /\ frames' = SetLast(frames, [Inner EXCEPT !.snap = [head |-> context.head, tail |-> context.tail]])
    /\ UNCHANGED <<mem, end, context, failed, phase>>

\* The client reverts to a snapshot unless it has linked an object since.
RevertToSnapshot ==
    /\ Writing /\ context.successful /\ frames # <<>> /\ Inner.snap # NoSnapshot
    /\ Becomes(Revert(mem, context, Inner.snap.head, Inner.snap.tail))
    /\ frames' = SetLast(frames, [Inner EXCEPT !.snap = NoSnapshot])

AllLinked(x) ==
    \A k \in DOMAIN x.packed :
       \E o \in {x.packed[j] : j \in DOMAIN x.packed} \cup {x.current[j] : j \in DOMAIN x.current} :
          \E j \in DOMAIN o.links : o.links[j].objidx = k

\* end_serialize: the table itself is packed only if there are other objects.
EndSerialize ==
    /\ Writing /\ Depth = 1 /\ ~context.roomless
    /\ context.successful /\ context.lost = 0 => AllLinked(context)
    /\ LET x == [context EXCEPT !.successful = @ /\ context.bad = {}]
       IN  IF x.current = <<>> \/ x.packed = <<>>
           THEN context' = x /\ phase' = "done" /\ UNCHANGED <<mem, end, failed>>
           ELSE \E r \in PopPack(mem, x) :
                  LET y == ResolveLinks(r)
                  IN  /\ IF r.asserts /\ y.asserts /\ Len(x.current) = 1
                         THEN phase' = "done" /\ mem' = y.mem /\ context' = y.context
                         ELSE phase' = "aborted" /\ UNCHANGED <<mem, context>>
                      /\ failed' = failed + (Cardinality(y.context.bad) - Cardinality(x.bad))
                      /\ failed' <= MaxFailed
                      /\ UNCHANGED end
    /\ UNCHANGED frames

\* _subset2: a context that ran out of room starts again with more.
Retry ==
    /\ Writing /\ Depth = 1 /\ context.roomless
    /\ LET size == end + end \div 2 + Extra
       IN  \/ /\ size <= MaxSize
              /\ end' = size /\ mem' = Zeroes(size) /\ context' = Fresh(size)
              /\ frames' = <<>>
              /\ UNCHANGED <<failed, phase>>
           \/ phase' = "refused" /\ UNCHANGED <<mem, end, context, frames, failed>>

Next ==
    \/ \E v \in Values : Embed(v)
    \/ Push \/ PushRefused \/ PopLink \/ PopKeep \/ LinkKept \/ Discard
    \/ Snapshot \/ RevertToSnapshot \/ EndSerialize \/ Retry

Spec == Init /\ [][Next]_vars

----------------------------------------------------------------------------
(* Properties.                                                             *)

Packed == context.packed

\* Whatever is pushed, packed, shared and given up, in whatever order, no assert
\* of the context fails: the packed objects lie end to end from the tail to the
\* end of the block, the later the lower (hb-serialize.hh:259).
AssertsHold == failed = 0 =>
    /\ phase # "aborted"
    /\ context.head <= context.tail
    /\ IF Packed = <<>> THEN context.tail = end
       ELSE Last(Packed).head = context.tail /\ Packed[1].tail = end
    /\ \A k \in 2 .. Len(Packed) : Packed[k].tail = Packed[k - 1].head

\* The map has the packed objects, no others and none twice: what was reverted
\* can no more be shared (hb-serialize.hh:245).
SharingExact ==
    phase = "writing" /\ context.bad = {} =>
        /\ context.map = {[object |-> Packed[k], objidx |-> k] : k \in DOMAIN Packed}
        /\ \A j, k \in DOMAIN Packed : Equal(mem, Packed[j], Packed[k]) => j = k

\* A link leads to an object that is still packed, and was before the one it is
\* in, from a field of that one's own.
LinksToPacked == failed = 0 =>
    /\ \A k \in DOMAIN Packed : \A j \in DOMAIN Packed[k].links :
          LET l == Packed[k].links[j]
          IN  l.objidx \in 1 .. k - 1 /\ l.position < Packed[k].tail - Packed[k].head
    /\ \A d \in DOMAIN context.current : \A j \in DOMAIN context.current[d].links :
          LET l == context.current[d].links[j]
          IN  l.objidx \in DOMAIN Packed /\ context.current[d].head + l.position < context.head

\* What a reader of the finished table finds at packed object k, following the
\* offsets.
Read[k \in DOMAIN Packed] ==
    LET o == Packed[k]
        at(l) == o.head + l.bias + mem[o.head + l.position]
        isField(b) == \E j \in DOMAIN o.links : o.links[j].position = b - 1
        kid(l) == [position |-> l.position, bias |-> l.bias,
                   tree |-> Read[CHOOSE c \in 1 .. k - 1 : Packed[c].head = at(l)]]
    IN  IF \E j \in DOMAIN o.links : \A c \in 1 .. k - 1 : Packed[c].head # at(o.links[j])
        THEN <<>>
        ELSE [bytes |-> [b \in DOMAIN Bytes(mem, o) |-> IF isField(b) THEN 0 ELSE Bytes(mem, o)[b]],
              kids  |-> {kid(o.links[j]) : j \in DOMAIN o.links}]

\* A table that was finished reads back from its last object as it was built:
\* moving, sharing, discarding and reverting objects has changed nothing of it,
\* and what the context was told it could not do has made it fail.  It is not
\* told of a link that found no memory (hb-serialize.hh:278): such a table may
\* be finished all the same, and without what the link leads to.
TableReadsBack ==
    phase = "done" /\ context.successful /\ context.lost = 0
                   /\ "packed" \notin context.bad /\ Packed # <<>> =>
        /\ Read[Len(Packed)] # <<>>
        /\ Read[Len(Packed)].kids = Last(Packed).kids
        /\ context.head = 0
=============================================================================
