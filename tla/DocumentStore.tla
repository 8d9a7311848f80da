--------------------------- MODULE DocumentStore ---------------------------
(***************************************************************************)
(* One document source in Qdrant (embeddings/qdrant_store.py) and the      *)
(* commands that store it (cli/main.py: doc-ingest, doc-sync-notion,       *)
(* doc-sync-confluence, through _store_document_chunks).  A command        *)
(* replaces the stored chunks by those it read, batch after batch, then    *)
(* removes what is left of the earlier version and the copy an earlier     *)
(* release kept under the raw source ID.  Any request may fail, and the    *)
(* command may be interrupted between any two.                             *)
(*                                                                         *)
(* A chunk is its position, from which its ID is made, and the version of  *)
(* the source it was cut from.  Commands on one source do not overlap.     *)
(***************************************************************************)
EXTENDS Naturals, Sequences

CONSTANTS
    Lengths,      \* <<n1, n2, ...>>: how many chunks each version of the source has
    BatchSize,    \* _REPLACE_BATCH_SIZE
    LostReplies   \* a request that is reported failed may have been carried out

Versions == DOMAIN Lengths
Positions == UNION {1..Lengths[v] : v \in Versions}

ASSUME StoreAssumption ==
    /\ Lengths \in Seq(Nat) /\ Len(Lengths) > 0
    /\ BatchSize \in Nat \ {0} /\ LostReplies \in BOOLEAN

VARIABLES
    version,   \* the source as it is
    stored,    \* the version of the chunk stored at each position; 0 for none
    legacy,    \* the collection under the raw source ID exists
    docPc,     \* where the command is
    chunks,    \* the version it read
    at,        \* chunks of it stored so far
    before,    \* what was stored when the command began
    told,      \* how the last command ended, as it was reported
    choice     \* what a reader resolved: "none", "named", or "legacy", for
               \* _RESOLVED_TTL_SECONDS

docVars == <<version, stored, legacy, docPc, chunks, at, before, told, choice>>

Nothing == [p \in Positions |-> 0]
Whole(v) == [p \in Positions |-> IF p <= Lengths[v] THEN v ELSE 0]

DocInit ==
    /\ version = 1
    /\ stored = Nothing
    /\ legacy \in BOOLEAN
    /\ docPc = "idle" /\ chunks = 1 /\ at = 0
    /\ before = Nothing /\ told = "nothing"
    /\ choice = "none"

SourceEdited ==
    /\ version + 1 \in Versions
    /\ version' = version + 1
    /\ UNCHANGED <<stored, legacy, docPc, chunks, at, before, told, choice>>

----------------------------------------------------------------------------
(* A command.                                                              *)

DocTo(step) == docPc' = step /\ UNCHANGED told
Reports(what) == docPc' = "idle" /\ told' = what

\* The source is read whole, or not at all; a read without text is refused unless
\* --allow-empty is given.
Sync(allowEmpty) ==
    /\ docPc = "idle"
    /\ before' = stored
    /\ chunks' = version /\ at' = 0
    /\ \/ Reports("unread")
       \/ Lengths[version] = 0 /\ ~allowEmpty /\ Reports("refused")
       \/ (Lengths[version] # 0 \/ allowEmpty) /\ DocTo("ensuring")
    /\ UNCHANGED <<version, stored, legacy, choice>>

\* replace_chunks: ensure_collection, whose failure leaves the earlier version.
Ensure ==
    /\ docPc = "ensuring"
    /\ DocTo("storing") \/ Reports("kept")
    /\ UNCHANGED <<version, stored, legacy, chunks, at, before, choice>>

BatchEnd == IF at + BatchSize < Lengths[chunks] THEN at + BatchSize ELSE Lengths[chunks]
WithBatch == [p \in Positions |-> IF at < p /\ p <= BatchEnd THEN chunks ELSE stored[p]]

\* Once a batch is in, a failure leaves both versions: StaleChunksRemain.
FailedBatch == IF at = 0 THEN "kept" ELSE "stale"

Upsert ==
    /\ docPc = "storing" /\ at < Lengths[chunks]
    /\ \/ /\ stored' = WithBatch /\ at' = BatchEnd
          /\ DocTo("storing")
       \/ /\ stored' \in {stored} \cup (IF LostReplies THEN {WithBatch} ELSE {})
          /\ Reports(FailedBatch) /\ UNCHANGED at
    /\ UNCHANGED <<version, legacy, chunks, before, choice>>

\* Mutant: only what the batches overwrote is the new version's; the tail stays.
TailKept == stored

\* The delete of the source's chunks whose IDs are not the new version's.
WithoutTail == [p \in Positions |-> IF p <= Lengths[chunks] THEN stored[p] ELSE 0]

DeleteTail ==
    /\ docPc = "storing" /\ at = Lengths[chunks]
    /\ \/ stored' = WithoutTail /\ DocTo("retiring")
       \/ /\ stored' \in {stored} \cup (IF LostReplies THEN {WithoutTail} ELSE {})
          /\ Reports("stale")
    /\ UNCHANGED <<version, legacy, chunks, at, before, choice>>

\* retire_legacy_collection.
Retire ==
    /\ docPc = "retiring"
    /\ \/ legacy' = FALSE /\ Reports("stored")
       \/ legacy' \in {legacy} \cup (IF LostReplies THEN {FALSE} ELSE {}) /\ Reports("copy stays")
    /\ UNCHANGED <<version, stored, chunks, at, before, choice>>

Interrupted ==
    /\ docPc # "idle"
    /\ Reports("interrupted")
    /\ UNCHANGED <<version, stored, legacy, chunks, at, before, choice>>

----------------------------------------------------------------------------
(* A reader: agent_collection_to_read, for an ID the storage name changes. *)

\* Under the storage name once that collection holds points, or there is no other.
ReadsNamed == stored # Nothing \/ ~legacy

ResolveCollection ==
    /\ choice = "none"
    /\ choice' = IF ReadsNamed THEN "named" ELSE "legacy"
    /\ UNCHANGED <<version, stored, legacy, docPc, chunks, at, before, told>>

Forget ==
    /\ choice # "none"
    /\ choice' = "none"
    /\ UNCHANGED <<version, stored, legacy, docPc, chunks, at, before, told>>

DocNext ==
    \/ SourceEdited
    \/ \E allowEmpty \in BOOLEAN : Sync(allowEmpty)
    \/ Ensure \/ Upsert \/ DeleteTail \/ Retire \/ Interrupted
    \/ ResolveCollection \/ Forget

DocSpec == DocInit /\ [][DocNext]_docVars

----------------------------------------------------------------------------

DocTypeOK ==
    /\ version \in Versions /\ chunks \in Versions
    /\ stored \in [Positions -> {0} \cup Versions] /\ before \in [Positions -> {0} \cup Versions]
    /\ legacy \in BOOLEAN
    /\ docPc \in {"idle", "ensuring", "storing", "retiring"}
    /\ at \in 0..Lengths[chunks]
    /\ told \in {"nothing", "unread", "refused", "kept", "stale", "stored", "copy stays",
                 "interrupted"}
    /\ choice \in {"none", "named", "legacy"}

\* What a command reports is what is stored: on success the version it read and
\* nothing else, whatever earlier runs left behind; when it says that the source was
\* not read or that nothing was stored for it, exactly what was there.
AsTold ==
    docPc = "idle" =>
        /\ told \in {"stored", "copy stays"} => stored = Whole(chunks)
        /\ told \in {"unread", "refused"} => stored = before
        /\ told = "stored" => ~legacy

\* When it says that the earlier version was not deleted, nothing of it was removed, and
\* nothing was written over it but by a first batch that was carried out and reported
\* failed.
KeptOrBegun ==
    docPc = "idle" /\ told = "kept" =>
        \A p \in Positions :
            stored[p] = before[p] \/ (LostReplies /\ p <= BatchSize /\ stored[p] = chunks)

\* "nothing written yet: the earlier version is untouched" (qdrant_store.py:1037): refuted
\* where LostReplies, by such a batch.
KeptIsUntouched == docPc = "idle" /\ told = "kept" => stored = before
=============================================================================
