-------------------------- MODULE CollectionIndexes --------------------------
(***************************************************************************)
(* A collection of the vector store and the payload index its readers and  *)
(* sweeps depend on (embeddings/qdrant_store.py): threads of one process   *)
(* ensure both before they write, others delete the collection, and the    *)
(* process remembers which indexes it has made (_indexed_fields).  Another *)
(* process may delete the collection too, and any call may fail, one that  *)
(* changes the store also after it was carried out.                        *)
(***************************************************************************)
EXTENDS Naturals

CONSTANTS
    Ensurers,   \* threads that ensure the collection before they write to it
    Invalidators, \* threads that invalidate it
    Retirers,   \* threads that retire it
    Elsewhere   \* does another process delete it too?

Deleters == Invalidators \cup Retirers

ASSUME WorkersAssumption ==
    Ensurers \cap Deleters = {} /\ Invalidators \cap Retirers = {} /\ Elsewhere \in BOOLEAN

VARIABLES
    made,       \* the collection exists
    indexed,    \* and has its index
    remembered, \* the key of the index in _indexed_fields
    indexPc,    \* where each thread is
    behind      \* history: the collection was deleted behind the memory's
                \* back: by another process, by a call that raised, or before an
                \* index that was made is recorded

indexVars == <<made, indexed, remembered, indexPc, behind>>

IndexTo(w, place) == indexPc' = [indexPc EXCEPT ![w] = place]

IndexInit ==
    /\ made \in BOOLEAN /\ indexed = FALSE
    /\ remembered = FALSE
    /\ indexPc = [w \in Ensurers \cup Deleters |-> "idle"]
    /\ behind = FALSE

----------------------------------------------------------------------------
(* ensure_collection.                                                      *)

\* get_collections; a failure is the caller's.
ListForIndex(w) ==
    /\ indexPc[w] = "idle"
    /\ IndexTo(w, IF made THEN "index" ELSE "create")
    /\ UNCHANGED <<made, indexed, remembered, behind>>

\* create_collection raises when another thread has been faster.
CreateForIndex(w) ==
    /\ indexPc[w] = "create"
    /\ \/ ~made /\ made' = TRUE /\ (IndexTo(w, "index") \/ IndexTo(w, "idle"))
       \/ UNCHANGED made /\ IndexTo(w, "idle")
    /\ UNCHANGED <<indexed, remembered, behind>>

\* An index the process has made is not made again.
KnownIndex(w) ==
    /\ indexPc[w] = "index"
    /\ remembered
    /\ IndexTo(w, "idle")
    /\ UNCHANGED <<made, indexed, remembered, behind>>

\* create_payload_index: recorded only on success.
CreateIndex(w) ==
    /\ indexPc[w] = "index"
    /\ ~ remembered
    /\ made
    /\ indexed' = TRUE
    /\ IndexTo(w, "record") \/ IndexTo(w, "idle")
    /\ UNCHANGED <<made, remembered, behind>>

\* Mutant of IndexFails: recorded whatever became of it.
RecordedAnyway(w) ==
    /\ indexPc[w] = "index"
    /\ ~ remembered
    /\ IndexTo(w, "record")
    /\ UNCHANGED <<made, indexed, remembered, behind>>

\* The call fails, as it must when the collection has gone: logged, and tried
\* again by the next writer.
IndexFails(w) ==
    /\ indexPc[w] = "index"
    /\ ~ remembered
    /\ IndexTo(w, "idle")
    /\ UNCHANGED <<made, indexed, remembered, behind>>

RecordIndex(w) ==
    /\ indexPc[w] = "record"
    /\ remembered' = TRUE
    /\ IndexTo(w, "idle")
    /\ UNCHANGED <<made, indexed, behind>>

----------------------------------------------------------------------------
(* SemanticCache.invalidate and retire_legacy_collection.                  *)

Unrecorded == \E w \in Ensurers : indexPc[w] = "record"

\* delete_collection.  Invalidation forgets the indexes even when it fails;
\* the retirement of a collection raises, with the call carried out or not.
DeleteCollection(d) ==
    /\ indexPc[d] = "idle"
    /\ \/ /\ made' = FALSE /\ indexed' = FALSE
          /\ \/ IndexTo(d, "forget") /\ behind' = (behind \/ Unrecorded)
             \/ d \in Retirers /\ IndexTo(d, "idle") /\ behind' = TRUE
       \/ /\ UNCHANGED <<made, indexed, behind>>
          /\ IF d \in Retirers THEN IndexTo(d, "idle") ELSE IndexTo(d, "forget")
    /\ UNCHANGED remembered

\* forget_collection_indexes.
ForgetIndexes(d) ==
    /\ indexPc[d] = "forget"
    /\ remembered' = FALSE
    /\ behind' = Unrecorded
    /\ IndexTo(d, "idle")
    /\ UNCHANGED <<made, indexed>>

\* Another process deletes the collection.
DeletedElsewhere ==
    /\ Elsewhere
    /\ made
    /\ made' = FALSE /\ indexed' = FALSE
    /\ behind' = TRUE
    /\ UNCHANGED <<remembered, indexPc>>

IndexNext ==
    \/ \E w \in Ensurers :
          ListForIndex(w) \/ CreateForIndex(w) \/ KnownIndex(w) \/ CreateIndex(w)
             \/ IndexFails(w) \/ RecordIndex(w)
    \/ \E d \in Deleters : DeleteCollection(d) \/ ForgetIndexes(d)
    \/ DeletedElsewhere

IndexSpec == IndexInit /\ [][IndexNext]_indexVars

----------------------------------------------------------------------------
IndexTypeOK ==
    /\ made \in BOOLEAN /\ indexed \in BOOLEAN
    /\ remembered \in BOOLEAN /\ behind \in BOOLEAN
    /\ indexPc \in [Ensurers \cup Deleters -> {"idle", "create", "index", "record", "forget"}]
    /\ indexed => made

\* An index the process takes for made is in the collection, or is forgotten
\* before long: a failed creation is tried again and a collection that was
\* invalidated comes back with its index, unless it was deleted by another
\* process, by a retirement that raised, or while the index was about to be
\* recorded.
IndexRetried ==
    remembered /\ ~ indexed =>
        behind \/ \E d \in Deleters : indexPc[d] = "forget"

\* Whatever the race, a collection deleted in this process comes back with its
\* indexes: "a concurrent recreation costs one redundant create_payload_index"
\* (semantic_cache.py:1781-1783).
ComesBackIndexed ==
    (\A w \in Ensurers \cup Deleters : indexPc[w] = "idle") /\ made /\ remembered => indexed
=============================================================================
