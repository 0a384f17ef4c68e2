------------------------------ MODULE Sanitizer ------------------------------
(***************************************************************************)
(* How a face gets at its tables: hb_face_create keeps the blob of the     *)
(* font file, a table is a sub-blob of it (hb-face.cc), and before a table *)
(* is used hb_sanitize_context_t::sanitize_blob (hb-sanitize.hh) checks    *)
(* it.  A table is an array of offsets; an offset whose target is bad is   *)
(* set to null, if the sanitizer may edit the bytes, and overlaps others.  *)
(* Between the rounds of a check other owners hold, share and drop blobs;  *)
(* none of them may change the blob that is checked, so a round is a step. *)
(***************************************************************************)
EXTENDS HBBlob

CONSTANTS
  NumFile,      \* offsets the check of a font file looks at (a collection's faces)
  NumOffsets,   \* ... and the offsets of the file's table, up to this one
  Spoils,       \* the offsets whose targets an edit of each offset breaks
  MaxOps,       \* checks one round may make (max_ops)
  MaxEdits      \* HB_SANITIZE_MAX_EDITS

Offset == 1 .. NumOffsets
Values == [Offset -> {"null", "good", "bad"}]      \* what a block's offsets may be
ASSUME SanitizerAssumption ==
  /\ NumOffsets \in Nat /\ NumFile \in 0 .. NumOffsets /\ MaxOps \in Nat /\ MaxEdits \in Nat
  /\ Spoils \in [Offset -> SUBSET Offset]
  /\ Content # {} /\ Content \subseteq Values

VARIABLES
  file,      \* the blob a live face keeps (hb_face_for_data_closure_t), or None
  type,      \* what sanitize_blob checks: a font "file" or a "table"
  at,        \* where sanitize_blob is
  table,     \* its argument, hb_sanitize_context_t::blob
  ops, edits, writable

sanVars == <<type, at, table, ops, edits, writable>>
vars == <<blobVars, file, sanVars>>

SanInit ==
  /\ type = "table" /\ at = "idle" /\ table = None
  /\ ops = 0 /\ edits = 0 /\ writable = FALSE
Init == BlobInit /\ file = None /\ SanInit

Tidy ==
  /\ type' = "table" /\ at' = "idle" /\ table' = None
  /\ ops' = 0 /\ edits' = 0 /\ writable' = FALSE

-----------------------------------------------------------------------------
\* hb_face_destroy, whose callback drops the blob; table blobs outlive the face
FaceDestroy ==
  /\ file # None
  /\ BecomesHeap(Dropped(Heap, file))
  /\ file' = None
  /\ UNCHANGED <<held, sanVars>>

\* hb_sanitize_context_t::init takes a second reference to the blob, whose
\* first one sanitize_blob was given
Sanitize(b, t) ==
  /\ type' = t /\ at' = "first" /\ table' = b
  /\ UNCHANGED <<ops, edits, writable>>

\* hb_face_create checks a reference of its own to the font file
FaceCreate(b) ==
  /\ at = "idle" /\ file = None /\ held[b] > 0
  /\ blob' = [blob EXCEPT ![b].refs = @ + 2]
  /\ Sanitize(b, "file")
  /\ UNCHANGED <<block, bytes, held, file>>

\* hb_sanitize_context_t::reference_table over _hb_face_for_data_reference_table
ReferenceTable ==
  /\ at = "idle" /\ file # None /\ MayHold
  /\ \E b \in FreeBlobs :
       /\ blob' = [blob EXCEPT ![file].fixed = TRUE, ![file].refs = @ + 1,
                               ![b] = [New(blob[file].data, "readonly", "parent", file)
                                         EXCEPT !.refs = 2]]
       /\ Sanitize(b, "table")
  /\ UNCHANGED <<block, bytes, held, file>>

\* The same over _hb_face_builder_reference_table, or another table function of
\* the client: a reference to a blob others hold
SanitizeShared(b) ==
  /\ at = "idle" /\ held[b] > 0 /\ MayHold
  /\ blob' = [blob EXCEPT ![b].refs = @ + 2]
  /\ Sanitize(b, "table")
  /\ UNCHANGED <<block, bytes, held, file>>

-----------------------------------------------------------------------------
Value == bytes[blob[table].data]

\* What Type::sanitize looks at, in this order
Checked == [k \in 1 .. (IF type = "file" THEN NumFile ELSE NumOffsets - NumFile) |->
              IF type = "file" THEN k ELSE NumFile + k]

\* may_edit counts a request even when it refuses it; an edit breaks the
\* targets the offset's bytes belong to
MayEdit(r) == r.edits < MaxEdits /\ writable
Requested(r) == [r EXCEPT !.edits = IF @ < MaxEdits THEN @ + 1 ELSE @]
SetToNull(v, o) ==
  [x \in Offset |-> IF x = o THEN "null"
                    ELSE IF x \in Spoils[o] /\ v[x] = "good" THEN "bad" ELSE v[x]]

\* OffsetTo::sanitize: its own range, then its target's; a target that fails is
\* neutered
SanitizeOffset(r, o) ==
  IF ~r.sane THEN r
  ELSE IF r.ops = 0 THEN [r EXCEPT !.sane = FALSE]
  ELSE IF r.value[o] = "null" THEN [r EXCEPT !.ops = @ - 1]
  ELSE IF r.ops > 1 /\ r.value[o] = "good" THEN [r EXCEPT !.ops = @ - 2]
  ELSE LET q == [Requested(r) EXCEPT !.ops = IF @ > 1 THEN @ - 2 ELSE 0]
       IN IF MayEdit(r) THEN [q EXCEPT !.value = SetToNull(@, o)] ELSE [q EXCEPT !.sane = FALSE]

\* Type::sanitize, with the checks that are left
Sanitized(left) ==
  LET round[k \in 0 .. Len(Checked)] ==
        IF k = 0 THEN [sane |-> TRUE, ops |-> left, edits |-> 0, value |-> Value]
        ELSE SanitizeOffset(round[k - 1], Checked[k])
  IN round[Len(Checked)]

Round(r) ==
  /\ bytes' = [bytes EXCEPT ![blob[table].data] = r.value]
  /\ ops' = r.ops /\ edits' = r.edits
  /\ UNCHANGED <<blob, block, held, file, type, table, writable>>

FirstRoundOnly ==                       \* mutant: edits are not checked again
  /\ at = "first"
  /\ LET r == Sanitized(MaxOps) IN Round(r) /\ at' = IF r.sane THEN "passed" ELSE "insane"

\* start_processing and the first round: after edits a second follows
FirstRound ==
  /\ at = "first"
  /\ LET r == Sanitized(MaxOps)
     IN /\ Round(r)
        /\ at' = IF ~r.sane THEN "insane" ELSE IF r.edits > 0 THEN "second" ELSE "passed"

\* The second round has what is left of the budget and may not ask for edits
SecondRound ==
  /\ at = "second"
  /\ LET r == Sanitized(ops)
     IN Round(r) /\ at' = IF r.sane /\ r.edits = 0 THEN "passed" ELSE "failed"

\* The first round failed.  If it asked for edits and the bytes can be made
\* writable, all starts again
MakeTableWritable ==
  /\ at = "insane"
  /\ IF edits > 0 /\ ~writable
     THEN \E ok \in BOOLEAN :
            /\ MakeWritable(table, ok)
            /\ writable' = ok /\ at' = IF ok THEN "first" ELSE "failed"
     ELSE at' = "failed" /\ UNCHANGED <<blob, block, bytes, writable>>
  /\ UNCHANGED <<held, file, type, table, ops, edits>>

\* end_processing drops the context's reference; an accepted blob is made
\* immutable and goes to the caller, the face or one of its table loaders
Accept ==
  /\ at = "passed"
  /\ BecomesHeap([Dropped(Heap, table) EXCEPT !.blob[table].fixed = TRUE])
  /\ IF type = "file" THEN file' = table /\ UNCHANGED held
     ELSE held' = [held EXCEPT ![table] = @ + 1] /\ UNCHANGED file
  /\ Tidy

\* ... a rejected one is destroyed and the empty blob is answered
Reject ==
  /\ at = "failed"
  /\ BecomesHeap(Dropped(Dropped(Heap, table), table))
  /\ Tidy
  /\ UNCHANGED <<held, file>>

Checking == FirstRound \/ SecondRound \/ MakeTableWritable \/ Accept \/ Reject

\* What other owners may do meanwhile: hold, share, drop; but a blob that is not
\* immutable yet is changed by one owner at a time
Client ==
  \/ Create \/ CreateFromFile \/ CreateDuplicate
  \/ \E b \in Blob :
       \/ Reference(b) \/ Destroy(b) \/ CopyWritableOrFail(b)
       \/ /\ b # table \/ blob[b].fixed
          /\ CreateSubBlob(b) \/ MakeImmutable(b) \/ GetDataWritable(b) \/ ClientWrites(b)

Next ==
  \/ Client /\ UNCHANGED <<file, sanVars>>
  \/ ReferenceTable \/ FaceDestroy \/ Checking
  \/ \E b \in Blob : FaceCreate(b) \/ SanitizeShared(b)

Spec == Init /\ [][Next]_vars

-----------------------------------------------------------------------------
Holders(b) ==
  held[b] + Cardinality({x \in Blob : Live(x) /\ blob[x].parent = b})
  + (IF file = b THEN 1 ELSE 0) + (IF table = b THEN 2 ELSE 0)

TypeOK ==
  /\ blob \in [Blob -> [refs : Nat, data : Block \cup {None}, mode : Modes, fixed : BOOLEAN,
                        destroy : {"none", "client", "free", "parent"}, parent : Blob \cup {None}]]
  /\ block \in [Block -> {"none", "client", "heap"}]
  /\ bytes \in [Block -> Values] /\ held \in [Blob -> Nat]
  /\ file \in Blob \cup {None} /\ table \in Blob \cup {None}
  /\ type \in {"file", "table"} /\ ops \in Nat /\ edits \in Nat /\ writable \in BOOLEAN
  /\ at \in {"idle", "first", "second", "insane", "passed", "failed"}

\* A blob has as many references as there are clients, sub-blobs, faces and
\* running checks that hold it, so it lives exactly as long as one of them
\* (hb_blob_create_sub_blob, sanitize_blob's init and end_processing).
ReferencesAccountedFor == \A b \in Blob : blob[b].refs = Holders(b)

\* The bytes of every live blob are there, however many chains of sub-blobs,
\* copies and dropped parents lie between it and the block; and every block is
\* given back by exactly one blob (try_make_writable's destroy_user_data).
BytesAlive ==
  /\ \A b \in Blob : Live(b) => block[blob[b].data] # "none"
  /\ \A k \in Block : block[k] # "none" =>
       Cardinality({b \in Blob : blob[b].data = k /\ blob[b].destroy \in {"client", "free"}}) = 1

\* The bytes of an immutable blob do not change or move: not by an edit of the
\* sanitizer, not by a client that writes to another blob over the same bytes
\* ("will never modify data in the parent blob", hb-blob.cc).
FrozenBytes ==
  [][\A b \in Blob : Live(b) /\ blob[b].fixed /\ blob'[b].refs > 0 =>
       /\ blob'[b].data = blob[b].data /\ blob'[b].fixed
       /\ bytes'[blob[b].data] = bytes[blob[b].data]]_vars

\* A table the sanitizer accepts holds no offset to a bad target, although
\* edits may break what was checked before them ("to ensure no toe-stepping",
\* hb-sanitize.hh).
AcceptedIsSane == at = "passed" => \A o \in ToSet(Checked) : Value[o] # "bad"
=============================================================================
