------------------------------- MODULE HBBlob -------------------------------
(***************************************************************************)
(* Blobs (hb-blob.cc): reference counted views of a block of bytes, with a *)
(* memory mode and a callback that gives the bytes back.  A sub-blob shows *)
(* a part of its parent's bytes and holds a reference to it, so what is    *)
(* destroyed when depends on every chain of blobs above a block.  Several  *)
(* owners hold and drop references; what changes a blob is called by one   *)
(* of them at a time.                                                      *)
(***************************************************************************)
EXTENDS Integers, Sequences, FiniteSets, SequencesExt, FiniteSetsExt

CONSTANTS
  Blob,      \* addresses of blobs; an address is used again once it is free
  Block,     \* addresses of blocks of bytes
  Content,   \* what a block may hold
  None,      \* the empty blob, a null pointer
  MaxHeld    \* bound: references the clients hold in all

ASSUME HBBlobAssumption ==
  /\ None \notin Blob \cup Block /\ MaxHeld \in Nat \ {0}
  /\ IsFiniteSet(Blob)              \* their references are counted

VARIABLES
  blob,     \* the blobs: hb_blob_t by address
  block,    \* whose the bytes are: nobody's, the client's, or the heap's
  bytes,    \* the blocks' contents
  held      \* references the clients hold

blobVars == <<blob, block, bytes, held>>

Modes == {"readonly", "writable", "may_make_writable"}     \* hb_memory_mode_t
Gone == [refs |-> 0, data |-> None, mode |-> "readonly", fixed |-> FALSE,
         destroy |-> "none", parent |-> None]
Lost == CHOOSE c \in Content : TRUE    \* what a block holds that was given back
Live(b) == blob[b].refs > 0
MayHold == MapThenSumSet(LAMBDA b : held[b], Blob) < MaxHeld
FreeBlobs == {b \in Blob : blob[b].refs = 0}
FreeBlocks == {k \in Block : block[k] = "none"}

BlobInit ==
  /\ blob = [b \in Blob |-> Gone]
  /\ block = [k \in Block |-> "none"] /\ bytes = [k \in Block |-> Lost]
  /\ held = [b \in Blob |-> 0]

-----------------------------------------------------------------------------
(* Dropping references.  One call may drop several, one after the other, so *)
(* these map the heap, the blobs and the blocks, to the heap they leave.    *)
Heap == [blob |-> blob, block |-> block]
BecomesHeap(h) ==
  /\ blob' = h.blob /\ block' = h.block
  /\ bytes' = [k \in Block |-> IF h.block[k] = "none" THEN Lost ELSE bytes[k]]

\* The blobs that lose a reference when b does: with a blob that dies goes the
\* reference its callback holds (_hb_blob_destroy)
PassesOn(h, xs) ==
  \A x \in xs : h.blob[x].refs > 1 \/ h.blob[x].parent = None \/ h.blob[x].parent \in xs
Losing(h, b) == {x \in Blob : \A xs \in SUBSET Blob : b \in xs /\ PassesOn(h, xs) => x \in xs}

\* Callbacks of the blobs xs that give bytes back
BytesGivenBack(h, xs) ==
  [k \in Block |-> IF \E x \in xs : h.blob[x].data = k /\ h.blob[x].destroy \in {"client", "free"}
                   THEN "none" ELSE h.block[k]]

\* hb_blob_destroy
Dropped(h, b) ==
  [blob |-> [x \in Blob |-> IF x \notin Losing(h, b) THEN h.blob[x]
                            ELSE IF h.blob[x].refs = 1 THEN Gone
                            ELSE [h.blob[x] EXCEPT !.refs = @ - 1]],
   block |-> BytesGivenBack(h, {x \in Losing(h, b) : h.blob[x].refs = 1})]

\* hb_blob_t::destroy_user_data: the callback of b runs and is forgotten
UserDataDestroyed(h, b) ==
  LET forgotten == [blob |-> [h.blob EXCEPT ![b].destroy = "none", ![b].parent = None],
                    block |-> BytesGivenBack(h, {b})]
  IN IF h.blob[b].parent = None THEN forgotten ELSE Dropped(forgotten, h.blob[b].parent)

-----------------------------------------------------------------------------
\* hb_blob_t::try_make_writable_inplace: mprotect succeeds, or the mode is
\* lowered for good
MadeInPlace(b) == [Heap EXCEPT !.blob[b].mode = "writable"]
NotInPlace(b) ==
  IF blob[b].mode = "may_make_writable" THEN [Heap EXCEPT !.blob[b].mode = "readonly"] ELSE Heap

CopyToKeeping(h, b, k) ==               \* mutant: the user data is not destroyed
  [h EXCEPT !.blob[b].mode = "writable", !.blob[b].data = k, !.blob[b].destroy = "free",
            !.block[k] = "heap"]

\* hb_blob_t::try_make_writable destroys the user data once it copied the bytes
CopyTo(h, b, k) ==
  LET left == UserDataDestroyed(h, b)
  IN [blob |-> [left.blob EXCEPT ![b] = [@ EXCEPT !.mode = "writable", !.data = k, !.destroy = "free"]],
      block |-> [left.block EXCEPT ![k] = "heap"]]

Copies(h, b) ==
  \E k \in FreeBlocks :
    LET h2 == CopyTo(h, b, k)
    IN /\ blob' = h2.blob /\ block' = h2.block
       /\ bytes' = [x \in Block |-> IF x = k THEN bytes[blob[b].data]
                                    ELSE IF h2.block[x] = "none" THEN Lost ELSE bytes[x]]

MakeWritableAnyway(b, ok) ==            \* mutant: also when the blob is immutable
  /\ ok
  /\ IF blob[b].mode = "writable" THEN UNCHANGED <<blob, block, bytes>> ELSE Copies(Heap, b)

\* try_make_writable, with what mprotect and malloc may do; ok is its answer
MakeWritable(b, ok) ==
  \/ /\ blob[b].fixed \/ blob[b].mode = "writable"
     /\ ok = ~blob[b].fixed
     /\ UNCHANGED <<blob, block, bytes>>
  \/ /\ ~blob[b].fixed /\ blob[b].mode = "may_make_writable" /\ ok
     /\ BecomesHeap(MadeInPlace(b))
  \/ /\ ~blob[b].fixed /\ blob[b].mode # "writable" /\ ok
     /\ Copies(NotInPlace(b), b)
  \/ /\ ~blob[b].fixed /\ blob[b].mode # "writable" /\ ~ok       \* malloc failed
     /\ BecomesHeap(NotInPlace(b))

-----------------------------------------------------------------------------
New(data, mode, destroy, parent) ==
  [refs |-> 1, data |-> data, mode |-> mode, fixed |-> FALSE, destroy |-> destroy, parent |-> parent]

\* hb_blob_create; when it fails it gives the bytes back at once and answers
\* the empty blob
CreateOver(owner, modes) ==
  \E b \in FreeBlobs, k \in FreeBlocks, c \in Content, mode \in modes :
    /\ MayHold
    /\ blob' = [blob EXCEPT ![b] = New(k, mode, IF owner = "heap" THEN "free" ELSE "client", None)]
    /\ block' = [block EXCEPT ![k] = owner]
    /\ bytes' = [bytes EXCEPT ![k] = c]
    /\ held' = [held EXCEPT ![b] = 1]

\* ... over bytes of the client
Create == CreateOver("client", Modes)

\* hb_blob_create_from_file: over a mapping, whose callback unmaps it, or over
\* what could be read into the heap; an error on the way leaves nothing behind
CreateFromFile == CreateOver("client", {"may_make_writable"}) \/ CreateOver("heap", {"writable"})

\* hb_blob_create with HB_MEMORY_MODE_DUPLICATE, also called by
\* hb_blob_copy_writable_or_fail: a read-only blob over the source made writable,
\* which leaves a blob over a copy and gives the source back if it came with a
\* callback.  When an allocation fails the source is given back too.
DuplicateOf(c) ==
  \E b \in FreeBlobs, k \in FreeBlocks :
    /\ MayHold
    /\ blob' = [blob EXCEPT ![b] = New(k, "writable", "free", None)]
    /\ block' = [block EXCEPT ![k] = "heap"]
    /\ bytes' = [bytes EXCEPT ![k] = c]
    /\ held' = [held EXCEPT ![b] = 1]
CreateDuplicate == \E c \in Content : DuplicateOf(c)
CopyWritableOrFail(from) == held[from] > 0 /\ DuplicateOf(bytes[blob[from].data])

SubBlobUnreferenced(parent, b) ==       \* mutant: no reference to the parent
  /\ block' = block /\ bytes' = bytes
  /\ IF b = None THEN blob' = [blob EXCEPT ![parent].fixed = TRUE]
     ELSE blob' = [blob EXCEPT ![parent].fixed = TRUE,
                               ![b] = New(blob[parent].data, "readonly", "parent", parent)]

\* hb_blob_create_sub_blob: b, when it could be allocated, shows parent's bytes
\* and holds a reference to it; the parent becomes immutable in any case
SubBlobOf(parent, b) ==
  /\ block' = block /\ bytes' = bytes
  /\ IF b = None THEN blob' = [blob EXCEPT ![parent].fixed = TRUE]
     ELSE blob' = [blob EXCEPT ![parent].fixed = TRUE, ![parent].refs = @ + 1,
                               ![b] = New(blob[parent].data, "readonly", "parent", parent)]
CreateSubBlob(parent) ==
  /\ held[parent] > 0 /\ MayHold
  /\ \E b \in FreeBlobs \cup {None} :
       /\ SubBlobOf(parent, b)
       /\ held' = IF b = None THEN held ELSE [held EXCEPT ![b] = 1]

Reference(b) ==
  /\ held[b] > 0 /\ MayHold
  /\ blob' = [blob EXCEPT ![b].refs = @ + 1]
  /\ held' = [held EXCEPT ![b] = @ + 1]
  /\ UNCHANGED <<block, bytes>>

Destroy(b) ==
  /\ held[b] > 0
  /\ BecomesHeap(Dropped(Heap, b))
  /\ held' = [held EXCEPT ![b] = @ - 1]

MakeImmutable(b) ==
  /\ held[b] > 0 /\ ~blob[b].fixed
  /\ blob' = [blob EXCEPT ![b].fixed = TRUE]
  /\ UNCHANGED <<block, bytes, held>>

\* hb_blob_get_data_writable, and what the client writes through the pointer
\* before it makes the blob immutable or shares it
GetDataWritable(b) ==
  /\ held[b] > 0
  /\ \E ok \in BOOLEAN : MakeWritable(b, ok)
  /\ UNCHANGED held
ClientWrites(b) ==
  /\ held[b] > 0 /\ blob[b].mode = "writable" /\ ~blob[b].fixed
  /\ \E c \in Content : bytes' = [bytes EXCEPT ![blob[b].data] = c]
  /\ UNCHANGED <<blob, block, held>>
=============================================================================
