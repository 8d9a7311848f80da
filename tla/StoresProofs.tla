---------------------------- MODULE StoresProofs ---------------------------
(***************************************************************************)
(* What the stores hold and what an operator's commands do to them, for any*)
(* documents, pairs, descriptions, histories and processes; and what the   *)
(* components of the upkeep promise together.                              *)
(***************************************************************************)
EXTENDS Upkeep, AccessProofs, FoldLemmas, FiniteSetTheorems, TLAPS

----------------------------------------------------------------------------
(* CollectionIndexes.                                                      *)

\* An index about to be recorded is in the collection, or that was deleted since.
RecordedIsThere == \A w \in Ensurers : indexPc[w] = "record" => indexed \/ behind

\* The inductive invariant.
IndexInv == IndexTypeOK /\ RecordedIsThere /\ IndexRetried

\* No index is remembered when the process starts.
LEMMA IndexStart == IndexInit => IndexInv
<1>1. IndexInit => IndexTypeOK
  <2> SUFFICES ASSUME IndexInit PROVE IndexTypeOK
    OBVIOUS
  <2>1. made \in BOOLEAN
    BY DEF IndexInit
  <2>2. indexed = FALSE /\ remembered = FALSE /\ behind = FALSE
    BY DEF IndexInit
  <2>3. indexPc \in [Ensurers \cup Deleters -> {"idle", "create", "index", "record", "forget"}]
    BY DEF IndexInit
  <2> QED
    BY <2>1, <2>2, <2>3 DEF IndexTypeOK
<1>2. IndexInit => RecordedIsThere /\ IndexRetried
  BY DEF IndexInit, RecordedIsThere, IndexRetried
<1> QED
  BY <1>1, <1>2 DEF IndexInv

\* The collections are listed.
LEMMA ListForIndexKeeps ==
    ASSUME IndexInv, NEW w \in Ensurers, ListForIndex(w)
    PROVE  IndexInv'
<1>1. IndexTypeOK'
  BY DEF IndexInv, IndexTypeOK, ListForIndex, IndexTo
<1>2. RecordedIsThere'
  BY DEF IndexInv, RecordedIsThere, ListForIndex, IndexTo
<1>3. IndexRetried'
  BY DEF IndexInv, IndexRetried, ListForIndex, IndexTo
<1> QED
  BY <1>1, <1>2, <1>3 DEF IndexInv

\* The collection is created.
LEMMA CreateForIndexKeeps ==
    ASSUME IndexInv, NEW w \in Ensurers, CreateForIndex(w)
    PROVE  IndexInv'
<1>1. IndexTypeOK'
  BY DEF IndexInv, IndexTypeOK, CreateForIndex, IndexTo
<1>2. RecordedIsThere'
  BY DEF IndexInv, RecordedIsThere, CreateForIndex, IndexTo, IndexTypeOK
<1>3. IndexRetried'
  BY DEF IndexInv, IndexRetried, CreateForIndex, IndexTo, IndexTypeOK
<1> QED
  BY <1>1, <1>2, <1>3 DEF IndexInv

\* The index is remembered.
LEMMA KnownIndexKeeps ==
    ASSUME IndexInv, NEW w \in Ensurers, KnownIndex(w)
    PROVE  IndexInv'
<1>1. IndexTypeOK'
  BY DEF IndexInv, IndexTypeOK, KnownIndex, IndexTo
<1>2. RecordedIsThere'
  BY DEF IndexInv, RecordedIsThere, KnownIndex, IndexTo
<1>3. IndexRetried'
  BY DEF IndexInv, IndexRetried, KnownIndex, IndexTo
<1> QED
  BY <1>1, <1>2, <1>3 DEF IndexInv

\* The index is created.
LEMMA CreateIndexKeeps ==
    ASSUME IndexInv, NEW w \in Ensurers, CreateIndex(w)
    PROVE  IndexInv'
<1>1. IndexTypeOK'
  BY DEF IndexInv, IndexTypeOK, CreateIndex, IndexTo
<1>2. RecordedIsThere'
  BY DEF RecordedIsThere, CreateIndex
<1>3. IndexRetried'
  BY DEF IndexRetried, CreateIndex
<1> QED
  BY <1>1, <1>2, <1>3 DEF IndexInv

\* Its creation fails.
LEMMA IndexFailsKeeps ==
    ASSUME IndexInv, NEW w \in Ensurers, IndexFails(w)
    PROVE  IndexInv'
<1>1. IndexTypeOK'
  BY DEF IndexInv, IndexTypeOK, IndexFails, IndexTo
<1>2. RecordedIsThere'
  BY DEF IndexInv, RecordedIsThere, IndexFails, IndexTo
<1>3. IndexRetried'
  BY DEF IndexRetried, IndexFails
<1> QED
  BY <1>1, <1>2, <1>3 DEF IndexInv

\* It is recorded.
LEMMA RecordIndexKeeps ==
    ASSUME IndexInv, NEW w \in Ensurers, RecordIndex(w)
    PROVE  IndexInv'
<1>1. IndexTypeOK'
  BY DEF IndexInv, IndexTypeOK, RecordIndex, IndexTo
<1>2. RecordedIsThere'
  BY DEF IndexInv, RecordedIsThere, RecordIndex
<1>3. IndexRetried'
  BY DEF IndexInv, IndexRetried, RecordIndex, RecordedIsThere
<1> QED
  BY <1>1, <1>2, <1>3 DEF IndexInv

\* The collection is deleted.
LEMMA DeleteCollectionKeeps ==
    ASSUME IndexInv, NEW d \in Deleters, DeleteCollection(d)
    PROVE  IndexInv'
<1>1. IndexTypeOK'
  <2>1. made' \in BOOLEAN /\ indexed' \in BOOLEAN /\ (indexed' => made')
    <3>1. CASE made' = FALSE /\ indexed' = FALSE
      BY <3>1
    <3>2. CASE made' = made /\ indexed' = indexed
      BY <3>2, ZenonT(20) DEF IndexInv, IndexTypeOK
    <3> QED
      BY <3>1, <3>2 DEF DeleteCollection
  <2>2. remembered' \in BOOLEAN
    BY DEF IndexInv, IndexTypeOK, DeleteCollection
  <2>3. behind' \in BOOLEAN
    <3>1. behind' = behind \/ behind' = TRUE \/ behind' = (behind \/ Unrecorded)
      BY DEF DeleteCollection
    <3> QED
      BY <3>1 DEF IndexInv, IndexTypeOK, Unrecorded
  <2>4. indexPc' \in [Ensurers \cup Deleters -> {"idle", "create", "index", "record", "forget"}]
    BY DEF IndexInv, IndexTypeOK, DeleteCollection, IndexTo
  <2> QED
    BY <2>1, <2>2, <2>3, <2>4 DEF IndexTypeOK
<1>2. RecordedIsThere'
  BY DEF IndexInv, RecordedIsThere, DeleteCollection, IndexTo, Unrecorded, IndexTypeOK
<1>3. IndexRetried'
  BY DEF IndexInv, IndexRetried, DeleteCollection, IndexTo, IndexTypeOK
<1> QED
  BY <1>1, <1>2, <1>3 DEF IndexInv

\* The memory is cleared.
LEMMA ForgetIndexesKeeps ==
    ASSUME IndexInv, NEW d \in Deleters, ForgetIndexes(d)
    PROVE  IndexInv'
<1>1. IndexTypeOK'
  BY DEF IndexInv, IndexTypeOK, ForgetIndexes, IndexTo, Unrecorded
<1>2. RecordedIsThere'
  BY DEF RecordedIsThere, ForgetIndexes, IndexTo, Unrecorded
<1>3. IndexRetried'
  BY DEF IndexRetried, ForgetIndexes
<1> QED
  BY <1>1, <1>2, <1>3 DEF IndexInv

\* Another process deletes it.
LEMMA DeletedElsewhereKeeps ==
    ASSUME IndexInv, DeletedElsewhere
    PROVE  IndexInv'
<1>1. IndexTypeOK'
  BY DEF IndexInv, IndexTypeOK, DeletedElsewhere
<1>2. RecordedIsThere'
  BY DEF RecordedIsThere, DeletedElsewhere
<1>3. IndexRetried'
  BY DEF IndexRetried, DeletedElsewhere
<1> QED
  BY <1>1, <1>2, <1>3 DEF IndexInv

\* The three hold at every step of the threads and of the other process.
THEOREM IndexInvariant == IndexSpec => []IndexInv
<1>1. IndexInit => IndexInv
  BY IndexStart
<1>2. IndexInv /\ [IndexNext]_indexVars => IndexInv'
  <2>1. ASSUME IndexInv, UNCHANGED indexVars PROVE IndexInv'
    BY <2>1 DEF indexVars, IndexInv, IndexTypeOK, RecordedIsThere, IndexRetried
  <2> QED
    BY <2>1, ListForIndexKeeps, CreateForIndexKeeps, KnownIndexKeeps, CreateIndexKeeps,
       IndexFailsKeeps, RecordIndexKeeps, DeleteCollectionKeeps, ForgetIndexesKeeps,
       DeletedElsewhereKeeps
    DEF IndexNext
<1> QED
  BY <1>1, <1>2, PTL DEF IndexSpec

\* An index the process takes for made is there, or is about to be forgotten, unless
\* the collection was deleted behind its back.
THEOREM IndexAlwaysRetried == IndexSpec => []IndexRetried
<1>1. IndexInv => IndexRetried
  BY DEF IndexInv
<1> QED
  BY <1>1, IndexInvariant, PTL

----------------------------------------------------------------------------
(* DocumentStore.                                                          *)

\* The positions are positive numbers, and a version's length is a natural number, and so is a
\* batch's.
LEMMA SizesAre ==
    /\ \A p \in Positions : p \in Nat /\ p >= 1
    /\ \A v \in Versions : Lengths[v] \in Nat
    /\ BatchSize \in Nat /\ BatchSize >= 1
  BY StoreAssumption DEF Positions, Versions

\* What a step needs to know of the types.
DocFits ==
    /\ version \in Versions /\ chunks \in Versions
    /\ stored \in [Positions -> {0} \cup Versions]
    /\ at \in Nat /\ at <= Lengths[chunks]
    /\ docPc \in {"idle", "ensuring", "storing", "retiring"}
    /\ told \in {"nothing", "unread", "refused", "kept", "stale", "stored", "copy stays",
                 "interrupted"}

\* Between its steps a command has stored what it counted, and nothing before that.
DocHolds ==
    /\ docPc = "ensuring" => at = 0
    /\ docPc \in {"ensuring", "storing"} /\ at = 0 => stored = before
    /\ docPc \in {"storing", "retiring"} =>
          \A p \in Positions : p <= at => stored[p] = chunks
    /\ docPc = "retiring" => stored = Whole(chunks)

\* The inductive invariant.
DocInv == DocFits /\ AsTold /\ KeptOrBegun /\ DocHolds

\* Nothing was told of a source that was never synced.
LEMMA DocStart == DocInit => DocInv
  BY StoreAssumption, SizesAre
  DEF DocInit, DocInv, DocFits, AsTold, KeptOrBegun, DocHolds,
      Versions, Nothing

\* The source is edited.
LEMMA SourceEditedKeeps ==
    ASSUME DocInv, SourceEdited
    PROVE  DocInv'
<1>1. DocFits'
  BY DEF DocInv, DocFits, SourceEdited
<1>2. AsTold'
  BY DEF DocInv, AsTold, SourceEdited
<1>3. KeptOrBegun'
  BY DEF DocInv, KeptOrBegun, SourceEdited
<1>4. DocHolds'
  BY DEF DocInv, DocHolds, SourceEdited
<1> QED
  BY <1>1, <1>2, <1>3, <1>4 DEF DocInv

\* A command reads it.
LEMMA SyncKeeps ==
    ASSUME DocInv, NEW allowEmpty \in BOOLEAN, Sync(allowEmpty)
    PROVE  DocInv'
<1>1. DocFits'
  <2>1. version' \in Versions /\ chunks' \in Versions /\ stored' = stored
    BY DEF DocInv, DocFits, Sync
  <2>2. at' \in Nat /\ at' <= Lengths[chunks']
    BY <2>1, SizesAre DEF Sync
  <2>3. docPc' \in {"idle", "ensuring"} /\ told' \in {told, "unread", "refused"}
    BY DEF Sync, DocTo, Reports
  <2> QED
    BY <2>1, <2>2, <2>3 DEF DocInv, DocFits
<1>2. AsTold'
  BY DEF AsTold, Sync, DocTo, Reports
<1>3. KeptOrBegun'
  BY DEF KeptOrBegun, Sync
<1>4. DocHolds'
  BY DEF DocHolds, Sync, DocTo, Reports
<1> QED
  BY <1>1, <1>2, <1>3, <1>4 DEF DocInv

\* The collection is ensured.
LEMMA EnsureKeeps ==
    ASSUME DocInv, Ensure
    PROVE  DocInv'
<1>1. DocFits'
  BY DEF DocInv, DocFits, Ensure, DocTo, Reports
<1>2. AsTold'
  BY DEF AsTold, Ensure, DocTo, Reports
<1>3. KeptOrBegun'
  BY DEF DocInv, KeptOrBegun, Ensure, DocHolds
<1>4. DocHolds'
  <2>1. stored' = stored /\ before' = before /\ chunks' = chunks /\ at' = 0 /\ stored = before
    BY DEF DocInv, DocHolds, Ensure
  <2>2. docPc' \in {"storing", "idle"}
    BY DEF Ensure, DocTo, Reports
  <2>3. \A p \in Positions : ~ p <= at'
    BY <2>1, SizesAre
  <2> QED
    BY <2>1, <2>2, <2>3 DEF DocHolds
<1> QED
  BY <1>1, <1>2, <1>3, <1>4 DEF DocInv

\* A batch is stored.
LEMMA UpsertKeeps ==
    ASSUME DocInv, Upsert
    PROVE  DocInv'
<1>1. DocFits'
  <2>1. version' = version /\ chunks' = chunks /\ version \in Versions /\ chunks \in Versions
    BY DEF DocInv, DocFits, Upsert
  <2>2. WithBatch \in [Positions -> {0} \cup Versions]
    BY DEF DocInv, DocFits, WithBatch
  <2>3. stored' \in [Positions -> {0} \cup Versions]
    BY <2>2 DEF DocInv, DocFits, Upsert
  <2>4. BatchEnd \in Nat /\ BatchEnd <= Lengths[chunks]
    <3>1. at \in Nat /\ BatchSize \in Nat /\ Lengths[chunks] \in Nat
      BY <2>1, SizesAre DEF DocInv, DocFits
    <3> QED
      BY <3>1 DEF BatchEnd
  <2>5. at' \in Nat /\ at' <= Lengths[chunks']
    BY <2>1, <2>4 DEF DocInv, DocFits, Upsert
  <2>6. docPc' \in {"storing", "idle"} /\ told' \in {told, "kept", "stale"}
    BY DEF Upsert, DocTo, Reports, FailedBatch, DocInv, DocFits
  <2> QED
    BY <2>1, <2>3, <2>5, <2>6 DEF DocInv, DocFits
<1>2. AsTold'
  BY DEF AsTold, Upsert, DocTo, Reports, FailedBatch
<1>3. KeptOrBegun'
  <2> SUFFICES ASSUME docPc' = "idle", told' = "kept", NEW p \in Positions
               PROVE  stored'[p] = before'[p] \/ (LostReplies /\ p <= BatchSize /\ stored'[p] = chunks')
    BY DEF KeptOrBegun
  <2>1. /\ at = 0 /\ chunks' = chunks /\ before' = before
        /\ stored' = stored \/ (LostReplies /\ stored' = WithBatch)
    BY DEF Upsert, DocTo, Reports, FailedBatch
  <2>2. stored = before
    BY <2>1 DEF DocInv, DocHolds, Upsert
  <2>3. BatchEnd <= BatchSize /\ BatchEnd \in Nat /\ p \in Nat /\ BatchSize \in Nat
    <3>1. Lengths[chunks] \in Nat /\ BatchSize \in Nat /\ p \in Nat
      BY SizesAre DEF DocInv, DocFits
    <3> QED
      BY ONLY <2>1, <3>1 DEF BatchEnd
  <2>4. WithBatch[p] = stored[p] \/ (p <= BatchSize /\ WithBatch[p] = chunks)
    BY <2>1, <2>3 DEF WithBatch
  <2> QED
    BY <2>1, <2>2, <2>4
<1>4. DocHolds'
  <2>1. chunks' = chunks /\ docPc' \in {"storing", "idle"} /\ docPc = "storing"
    BY DEF Upsert, DocTo, Reports, FailedBatch
  <2>2. CASE docPc' = "storing"
    <3>1. stored' = WithBatch /\ at' = BatchEnd /\ at < Lengths[chunks]
      BY <2>2 DEF Upsert, DocTo, Reports
    <3>2. at \in Nat /\ Lengths[chunks] \in Nat
      BY SizesAre DEF DocInv, DocFits
    <3>3. at' # 0
      BY <3>1, <3>2, SizesAre DEF BatchEnd
    <3>4. ASSUME NEW p \in Positions, p <= at' PROVE stored'[p] = chunks'
      <4>1. CASE p <= at
        BY <4>1, <3>1, <3>2, <2>1, SizesAre DEF WithBatch, DocInv, DocHolds
      <4>2. CASE at < p
        BY <4>2, <3>1, <3>4, <2>1 DEF WithBatch
      <4> QED
        BY <4>1, <4>2, <3>2, SizesAre
    <3> QED
      BY <2>2, <3>3, <3>4 DEF DocHolds
  <2> QED
    BY <2>1, <2>2 DEF DocHolds
<1> QED
  BY <1>1, <1>2, <1>3, <1>4 DEF DocInv

\* The tail is deleted.
LEMMA DeleteTailKeeps ==
    ASSUME DocInv, DeleteTail
    PROVE  DocInv'
<1>1. DocFits'
  BY DEF DocInv, DocFits, DeleteTail, DocTo, Reports, WithoutTail
<1>2. AsTold'
  BY DEF AsTold, DeleteTail, DocTo, Reports
<1>3. KeptOrBegun'
  BY DEF KeptOrBegun, DeleteTail, DocTo, Reports
<1>4. DocHolds'
  BY DEF DocInv, DocHolds, DeleteTail, DocTo, Reports, WithoutTail, Whole
<1> QED
  BY <1>1, <1>2, <1>3, <1>4 DEF DocInv

\* The copy is retired.
LEMMA RetireKeeps ==
    ASSUME DocInv, Retire
    PROVE  DocInv'
<1>1. DocFits'
  BY DEF DocInv, DocFits, Retire, Reports
<1>2. AsTold'
  BY DEF DocInv, AsTold, Retire, Reports, DocHolds
<1>3. KeptOrBegun'
  BY DEF KeptOrBegun, Retire, Reports
<1>4. DocHolds'
  BY DEF DocHolds, Retire, Reports
<1> QED
  BY <1>1, <1>2, <1>3, <1>4 DEF DocInv

\* The command is interrupted.
LEMMA InterruptedKeeps ==
    ASSUME DocInv, Interrupted
    PROVE  DocInv'
<1>1. DocFits'
  BY DEF DocInv, DocFits, Interrupted, Reports
<1>2. AsTold'
  BY DEF AsTold, Interrupted, Reports
<1>3. KeptOrBegun'
  BY DEF KeptOrBegun, Interrupted, Reports
<1>4. DocHolds'
  BY DEF DocHolds, Interrupted, Reports
<1> QED
  BY <1>1, <1>2, <1>3, <1>4 DEF DocInv

\* A reader resolves the collection.
LEMMA ResolveCollectionKeeps ==
    ASSUME DocInv, ResolveCollection
    PROVE  DocInv'
<1>1. DocFits'
  BY DEF DocInv, DocFits, ResolveCollection
<1>2. AsTold'
  BY DEF DocInv, AsTold, ResolveCollection
<1>3. KeptOrBegun'
  BY DEF DocInv, KeptOrBegun, ResolveCollection
<1>4. DocHolds'
  BY DEF DocInv, DocHolds, ResolveCollection
<1> QED
  BY <1>1, <1>2, <1>3, <1>4 DEF DocInv

\* and forgets it.
LEMMA ForgetKeeps ==
    ASSUME DocInv, Forget
    PROVE  DocInv'
<1>1. DocFits'
  BY DEF DocInv, DocFits, Forget
<1>2. AsTold'
  BY DEF DocInv, AsTold, Forget
<1>3. KeptOrBegun'
  BY DEF DocInv, KeptOrBegun, Forget
<1>4. DocHolds'
  BY DEF DocInv, DocHolds, Forget
<1> QED
  BY <1>1, <1>2, <1>3, <1>4 DEF DocInv

\* All of it holds at every step of a command.
THEOREM DocInvariant == DocSpec => []DocInv
<1>1. DocInit => DocInv
  BY DocStart
<1>2. DocInv /\ [DocNext]_docVars => DocInv'
  <2>1. ASSUME DocInv, UNCHANGED docVars PROVE DocInv'
    BY <2>1 DEF docVars, DocInv, DocFits, AsTold, KeptOrBegun, DocHolds,
                Whole
  <2> QED
    BY <2>1, SourceEditedKeeps, SyncKeeps, EnsureKeeps, UpsertKeeps, DeleteTailKeeps,
       RetireKeeps, InterruptedKeeps, ResolveCollectionKeeps, ForgetKeeps
    DEF DocNext
<1> QED
  BY <1>1, <1>2, PTL DEF DocSpec

\* What a command reports is what is stored, whichever requests failed, were lost or
\* never sent.
THEOREM ReportsAreTrue == DocSpec => []AsTold
<1>1. DocInv => AsTold
  BY DEF DocInv
<1> QED
  BY <1>1, DocInvariant, PTL

\* When a command says that the earlier version was not deleted, all of it is there but
\* what a first batch, carried out and reported failed, wrote over.
THEOREM KeptStaysOrBegins == DocSpec => []KeptOrBegun
<1>1. DocInv => KeptOrBegun
  BY DEF DocInv
<1> QED
  BY <1>1, DocInvariant, PTL

\* A step of a command leaves what the store held before it, and what a reader chose, of
\* their types.
LEMMA DocTypeKeeps ==
    DocInv' /\ DocTypeOK /\ [DocNext]_docVars => DocTypeOK'
<1> SUFFICES ASSUME DocInv', DocTypeOK, [DocNext]_docVars PROVE DocTypeOK'
  OBVIOUS
<1>1. at' \in 0 .. Lengths[chunks']
  <2>1. at' \in Nat /\ at' <= Lengths[chunks'] /\ chunks' \in Versions
    BY DEF DocInv, DocFits
  <2>2. Lengths[chunks'] \in Nat
    BY <2>1, SizesAre
  <2> QED
    BY ONLY <2>1, <2>2
<1>2. chunks' \in Versions /\ version' \in Versions /\ stored' \in [Positions -> {0} \cup Versions]
  BY DEF DocInv, DocFits
<1>3. before' \in [Positions -> {0} \cup Versions]
  BY DEF DocNext, DocTypeOK, docVars, SourceEdited, Sync, Ensure, Upsert, DeleteTail, Retire,
         Interrupted, ResolveCollection, Forget
<1>4. legacy' \in BOOLEAN
  BY DEF DocNext, DocTypeOK, docVars, SourceEdited, Sync, Ensure, Upsert, DeleteTail, Retire,
         Interrupted, ResolveCollection, Forget
<1>5. choice' \in {"none", "named", "legacy"}
  BY DEF DocNext, DocTypeOK, docVars, SourceEdited, Sync, Ensure, Upsert, DeleteTail, Retire,
         Interrupted, ResolveCollection, Forget
<1> QED
  BY <1>1, <1>2, <1>3, <1>4, <1>5 DEF DocInv, DocFits, DocTypeOK

\* A command never counts more chunks stored than the version it read has, and every
\* chunk stored is of a version of the source.
THEOREM DocTypeCorrect == DocSpec => []DocTypeOK
<1>1. DocInit => DocTypeOK
  BY SizesAre, StoreAssumption DEF DocInit, DocTypeOK, Versions, Nothing
<1> QED
  BY <1>1, DocTypeKeeps, DocInvariant, PTL DEF DocSpec

----------------------------------------------------------------------------
(* VerifiedPairs.                                                          *)

\* The pairs selected for promotion are ones an operator's command may store.
ChosenAllowed == chosen \subseteq allowed

\* The pairs a prune is about to remove fail today's checks, and are not all there is.
DoomedFail ==
    pairPc = "delete" =>
        /\ \A p \in doomed : ~ KeptPair(p, known)
        /\ doomed \subseteq verified /\ doomed # verified

\* The inductive invariant.
PairInv == VouchedFor /\ ChosenAllowed /\ DoomedFail

\* What is selected was rated up, by a known origin unless the operator says otherwise.
LEMMA SelectionAllowed ==
    ASSUME NEW anonymous, Select(anonymous)
    PROVE  chosen' \subseteq allowed'
<1> SUFFICES ASSUME NEW p \in chosen' PROVE p \in allowed'
  OBVIOUS
<1>1. p \in Promotable(anonymous)
  BY DEF Select
<1>2. PICK i \in Positive(anonymous) :
          p = [question |-> log[i].question, sql |-> log[i].sql, plain |-> TRUE]
  BY <1>1 DEF Promotable, FirstOfEach
<1>3. /\ i \in DOMAIN log /\ log[i].rating = "up"
      /\ log[i].sql = p.sql /\ log[i].question = p.question
      /\ anonymous \/ log[i].source \in Attributed
  BY <1>2 DEF Positive, OfKnownOrigin
<1> QED
  BY <1>3 DEF Select

\* A rating is appended.
LEMMA SubmitKeeps ==
    ASSUME PairInv, NEW f, Submit(f)
    PROVE  PairInv'
<1>1. VouchedFor'
  BY DEF PairInv, VouchedFor, Submit
<1>2. ChosenAllowed'
  BY DEF PairInv, ChosenAllowed, Submit
<1>3. DoomedFail'
  BY DEF DoomedFail, Submit
<1> QED
  BY <1>1, <1>2, <1>3 DEF PairInv

\* promote-feedback begins.
LEMMA PromoteFeedbackKeeps ==
    ASSUME PairInv, NEW anonymous \in BOOLEAN, PromoteFeedback(anonymous)
    PROVE  PairInv'
<1>1. VouchedFor'
  BY DEF PairInv, VouchedFor, PromoteFeedback, Select
<1>2. ChosenAllowed'
  BY SelectionAllowed DEF ChosenAllowed, PromoteFeedback
<1>3. DoomedFail'
  BY DEF DoomedFail, PromoteFeedback, Select
<1> QED
  BY <1>1, <1>2, <1>3 DEF PairInv

\* export-kb writes a knowledge base.
LEMMA ExportKeeps ==
    ASSUME PairInv, NEW tables, Export(tables)
    PROVE  PairInv'
<1>1. VouchedFor'
  BY DEF PairInv, VouchedFor, Export, Select
<1>2. ChosenAllowed'
  BY SelectionAllowed DEF ChosenAllowed, Export
<1>3. DoomedFail'
  BY DEF DoomedFail, Export, Select
<1> QED
  BY <1>1, <1>2, <1>3 DEF PairInv

\* The pairs are stored.
LEMMA UpsertPairsKeeps ==
    ASSUME PairInv, UpsertPairs
    PROVE  PairInv'
<1>1. VouchedFor'
  BY DEF PairInv, VouchedFor, UpsertPairs, ChosenAllowed
<1>2. ChosenAllowed'
  BY DEF PairInv, ChosenAllowed, UpsertPairs
<1>3. DoomedFail'
  BY DEF DoomedFail, UpsertPairs
<1> QED
  BY <1>1, <1>2, <1>3 DEF PairInv

\* The prune looks for pairs that fail.
LEMMA ScanKeeps ==
    ASSUME PairInv, Scan
    PROVE  PairInv'
<1>1. VouchedFor'
  BY DEF PairInv, VouchedFor, Scan
<1>2. ChosenAllowed'
  BY DEF PairInv, ChosenAllowed, Scan
<1>3. DoomedFail'
  BY DEF DoomedFail, Scan, Unqualified, UnlessAllFail
<1> QED
  BY <1>1, <1>2, <1>3 DEF PairInv

\* They are removed.
LEMMA DeleteKeeps ==
    ASSUME PairInv, Delete
    PROVE  PairInv'
<1>1. VouchedFor'
  BY DEF PairInv, VouchedFor, Delete
<1>2. ChosenAllowed'
  BY DEF PairInv, ChosenAllowed, Delete
<1>3. DoomedFail'
  BY DEF DoomedFail, Delete
<1> QED
  BY <1>1, <1>2, <1>3 DEF PairInv

\* The command is killed.
LEMMA PairKilledKeeps ==
    ASSUME PairInv, PairKilled
    PROVE  PairInv'
<1>1. VouchedFor'
  BY DEF PairInv, VouchedFor, PairKilled
<1>2. ChosenAllowed'
  BY DEF PairInv, ChosenAllowed, PairKilled
<1>3. DoomedFail'
  BY DEF DoomedFail, PairKilled
<1> QED
  BY <1>1, <1>2, <1>3 DEF PairInv

\* The three hold at every step of the commands.
THEOREM PairInvariant == PairSpec => []PairInv
<1>1. PairInit => PairInv
  BY DEF PairInit, PairInv, VouchedFor, ChosenAllowed, DoomedFail
<1>2. PairInv /\ [PairNext]_pairVars => PairInv'
  <2>1. ASSUME PairInv, UNCHANGED pairVars PROVE PairInv'
    BY <2>1 DEF pairVars, PairInv, VouchedFor, ChosenAllowed, DoomedFail, KeptPair, Qualifies
  <2> QED
    BY <2>1, SubmitKeeps, PromoteFeedbackKeeps, ExportKeeps, UpsertPairsKeeps, ScanKeeps,
       DeleteKeeps, PairKilledKeeps
    DEF PairNext
<1> QED
  BY <1>1, <1>2, PTL DEF PairSpec

\* A rating of no known origin makes no verified pair unless an operator asked for it,
\* whichever commands and failures come between.
THEOREM PairsAreVouchedFor == PairSpec => []VouchedFor
<1>1. PairInv => VouchedFor
  BY DEF PairInv
<1> QED
  BY <1>1, PairInvariant, PTL

\* A prune removes no pair that would be promoted today, and never the last of them.
THEOREM PruneAlwaysSpares == PairSpec => PruneSpares
<1>1. ASSUME PairInv, [PairNext]_pairVars, ~ UNCHANGED pairVars
      PROVE  /\ \A p \in verified \ verified' : ~ KeptPair(p, known)
             /\ verified # {} => verified' # {}
  <2>1. CASE verified \subseteq verified'
    BY <2>1
  <2>2. CASE Delete
    BY <1>1, <2>2 DEF Delete, PairInv, DoomedFail
  <2> QED
    BY <1>1, <2>1, <2>2
    DEF PairNext, Submit, PromoteFeedback, Export, UpsertPairs, Scan, PairKilled
<1>2. PairInv /\ [PairNext]_pairVars
        => [/\ \A p \in verified \ verified' : ~ KeptPair(p, known)
            /\ verified # {} => verified' # {}]_pairVars
  BY <1>1
<1> QED
  BY <1>2, PairInvariant, PTL DEF PairSpec, PruneSpares

\* What a command selects are pairs of what was rated, and a prune removes pairs.
LEMMA PairTypeKeeps == PairTypeOK /\ [PairNext]_pairVars => PairTypeOK'
<1> SUFFICES ASSUME PairTypeOK, [PairNext]_pairVars PROVE PairTypeOK'
  OBVIOUS
<1>1. \A anonymous : Promotable(anonymous) \subseteq Pair
  <2> SUFFICES ASSUME NEW anonymous, NEW p \in Promotable(anonymous) PROVE p \in Pair
    OBVIOUS
  <2>1. PICK i \in DOMAIN log : p = [question |-> log[i].question, sql |-> log[i].sql, plain |-> TRUE]
    BY DEF Promotable, FirstOfEach, Positive
  <2>2. log[i] \in Feedback
    BY <2>1 DEF PairTypeOK
  <2> QED
    BY <2>1, <2>2 DEF Feedback, Pair
<1>2. ASSUME NEW anonymous, Select(anonymous)
      PROVE  /\ chosen' \subseteq Pair /\ allowed' \subseteq Pair
             /\ pairPc' \in {"prune", "upsert"}
  BY <1>1, <1>2 DEF Select, PairTypeOK
<1>3. ASSUME NEW f \in Feedback, Submit(f) PROVE PairTypeOK'
  <2>1. log' \in Seq(Feedback) /\ Len(log') = Len(log) + 1 /\ Len(log) < MaxLog
    BY <1>3 DEF Submit, PairTypeOK
  <2>2. Len(log') <= MaxLog
    <3>1. Len(log) \in Nat /\ MaxLog \in Nat
      BY BoundsAssumption DEF PairTypeOK
    <3>2. Len(log') = Len(log) + 1 /\ Len(log) < MaxLog
      BY <2>1
    <3> QED
      BY ONLY <3>1, <3>2
  <2> QED
    BY <1>3, <2>1, <2>2 DEF Submit, PairTypeOK
<1>4. ASSUME NEW anonymous \in BOOLEAN, PromoteFeedback(anonymous) PROVE PairTypeOK'
  BY <1>2, <1>4 DEF PromoteFeedback, PairTypeOK
<1>5. ASSUME NEW tables \in SUBSET Tables, Export(tables) PROVE PairTypeOK'
  <2>1. kbChanges' \in 0 .. MaxChanges
    <3>1. kbChanges' = kbChanges + 1 /\ kbChanges < MaxChanges
      BY <1>5 DEF Export
    <3>2. kbChanges \in Nat /\ MaxChanges \in Nat
      BY BoundsAssumption DEF PairTypeOK
    <3> QED
      BY ONLY <3>1, <3>2
  <2> QED
    BY <1>2, <1>5, <2>1 DEF Export, PairTypeOK
<1>6. CASE UpsertPairs
  BY <1>6 DEF UpsertPairs, PairTypeOK
<1>7. CASE Scan
  BY <1>7 DEF Scan, Unqualified, UnlessAllFail, PairTypeOK
<1>8. CASE Delete
  BY <1>8 DEF Delete, PairTypeOK
<1>9. CASE PairKilled
  BY <1>9 DEF PairKilled, PairTypeOK
<1>10. CASE UNCHANGED pairVars
  BY <1>10 DEF pairVars, PairTypeOK
<1> QED
  BY <1>3, <1>4, <1>5, <1>6, <1>7, <1>8, <1>9, <1>10 DEF PairNext

\* What is stored, selected or about to be removed are pairs, and the log keeps to its
\* bound.
THEOREM PairTypeCorrect == PairSpec => []PairTypeOK
<1>1. PairInit => PairTypeOK
  <2> SUFFICES ASSUME PairInit PROVE PairTypeOK
    OBVIOUS
  <2>1. log \in Seq(Feedback) /\ Len(log) = 0
    BY DEF PairInit
  <2>2. verified \subseteq Pair
    BY DEF PairInit, Pair
  <2>3. Len(log) <= MaxLog /\ 0 \in 0 .. MaxChanges
    BY <2>1, BoundsAssumption
  <2> QED
    BY <2>1, <2>2, <2>3 DEF PairInit, PairTypeOK
<1> QED
  BY <1>1, PairTypeKeeps, PTL DEF PairSpec

----------------------------------------------------------------------------
(* EmbedProcess.                                                           *)

\* The types, and the process a command is about.
ProcessFits ==
    /\ life \in [Daemons -> {"absent", "launched", "naming", "loading", "serving", "leaving",
                             "unnamed", "gone"}]
    /\ cmdPc \in {"idle", "reading", "probing", "watching", "signalling", "polling"}
    /\ cmdPc \in {"watching", "signalling", "polling"} => target \in Daemons
    /\ raced \in BOOLEAN

\* One daemon at most is up.  A command that launches found none, and one that stops a
\* daemon is alone with it; nobody has gone on to another command and read the
\* file while the daemon was not yet named.
OneBusy ==
    /\ \A d, e \in Daemons : Engaged(d) /\ Engaged(e) => d = e
    /\ cmdPc = "probing" => \A d \in Daemons : ~ Engaged(d)
    /\ cmdPc \in {"signalling", "polling"} => \A d \in Daemons : Engaged(d) => d = target
    /\ \A d \in Daemons : Unnamed(d) => cmdPc \in {"idle", "reading", "watching"}

\* The file a daemon is writing is the one at the path, and from the moment it has
\* written its PID the file names it.
ProcessNamed ==
    /\ \A d \in Daemons : life[d] = "naming" => d \in opened
    /\ \A d \in Daemons : life[d] \in {"loading", "serving", "leaving"} => pidFile = d

\* The inductive invariant.
ProcessInv == ProcessFits /\ (~ raced => OneBusy /\ ProcessNamed)

\* A step that starts no race, and keeps what holds where there is none, keeps it all: if
\* a race ends with the step, no daemon is up.
LEMMA RaceKeeps ==
    ASSUME ProcessInv, NEW race \in BOOLEAN, RacedIf(race), ProcessFits',
           ~ raced /\ ~ race => (OneBusy /\ ProcessNamed)'
    PROVE  ProcessInv'
<1>1. CASE raced'
  BY <1>1 DEF ProcessInv
<1>2. CASE ~ raced' /\ ~ raced /\ ~ race
  BY <1>2 DEF ProcessInv
<1>3. CASE ~ raced' /\ (raced \/ race)
  <2>1. \A d \in Daemons : ~ Engaged(d)'
    BY <1>3 DEF RacedIf
  <2>2. OneBusy' /\ ProcessNamed'
    BY <2>1 DEF OneBusy, ProcessNamed, Engaged, Unnamed
  <2> QED
    BY <2>2 DEF ProcessInv
<1> QED
  BY <1>1, <1>2, <1>3 DEF ProcessInv, ProcessFits

\* No daemon runs at first.
LEMMA ProcessStart == ProcessInit => ProcessInv
  BY DEF ProcessInit, ProcessInv, ProcessFits, OneBusy, ProcessNamed, Engaged, Unnamed

\* What RacedIf takes is a truth value.
LEMMA RacedFits == ASSUME NEW race \in BOOLEAN, RacedIf(race), ProcessFits PROVE raced' \in BOOLEAN
  BY DEF RacedIf, ProcessFits

\* A daemon goes on: it creates its file, names itself in it, loads the model, is told to
\* leave, removes the file, exits, or is killed.
LEMMA DaemonStepKeeps ==
    ASSUME ProcessInv, NEW d \in Daemons, DaemonStep(d)
    PROVE  ProcessInv'
<1>1. RacedIf(FALSE) /\ raced' \in BOOLEAN
  BY RacedFits DEF DaemonStep, ProcessInv
<1>2. ProcessFits'
  BY <1>1 DEF ProcessInv, ProcessFits, DaemonStep, Create, Name, Load, Told, Unname, Exit,
              Crash, Becomes, operator
<1>3. ASSUME OneBusy, ProcessNamed PROVE OneBusy' /\ ProcessNamed'
  <2>1. ProcessFits
    BY DEF ProcessInv
  <2>2. CASE Create(d)
    <3>1. OneBusy'
      BY <1>3, <2>1, <2>2 DEF OneBusy, Create, Becomes, operator, Engaged, Unnamed, ProcessFits
    <3>2. ProcessNamed'
      BY <1>3, <2>1, <2>2 DEF OneBusy, ProcessNamed, Create, Becomes, Engaged, Unnamed, ProcessFits
    <3> QED
      BY <3>1, <3>2
  <2>3. CASE Name(d)
    <3>1. OneBusy'
      BY <1>3, <2>1, <2>3 DEF OneBusy, Name, Becomes, operator, Engaged, Unnamed, ProcessFits
    <3>2. ProcessNamed'
      BY <1>3, <2>1, <2>3 DEF OneBusy, ProcessNamed, Name, Becomes, Engaged, Unnamed, ProcessFits
    <3> QED
      BY <3>1, <3>2
  <2>4. CASE Load(d)
    <3>1. OneBusy'
      BY <1>3, <2>1, <2>4 DEF OneBusy, Load, Becomes, operator, Engaged, Unnamed, ProcessFits
    <3>2. ProcessNamed'
      BY <1>3, <2>1, <2>4 DEF ProcessNamed, Load, Becomes, pidVars, ProcessFits
    <3> QED
      BY <3>1, <3>2
  <2>5. CASE Unname(d)
    <3>1. OneBusy'
      BY <1>3, <2>1, <2>5 DEF OneBusy, Unname, Becomes, operator, Engaged, Unnamed, ProcessFits
    <3>2. ProcessNamed'
      BY <1>3, <2>1, <2>5 DEF OneBusy, ProcessNamed, Unname, Unlink, Becomes, Engaged, Unnamed,
                              ProcessFits
    <3> QED
      BY <3>1, <3>2
  <2>6. CASE Exit(d)
    <3>1. OneBusy'
      BY <1>3, <2>1, <2>6 DEF OneBusy, Exit, Becomes, operator, Engaged, Unnamed, ProcessFits
    <3>2. ProcessNamed'
      BY <1>3, <2>1, <2>6 DEF ProcessNamed, Exit, Becomes, pidVars, ProcessFits
    <3> QED
      BY <3>1, <3>2
  <2>7. CASE Crash(d)
    <3>1. OneBusy'
      BY <1>3, <2>1, <2>7 DEF OneBusy, Crash, Becomes, operator, Engaged, Unnamed, ProcessFits
    <3>2. ProcessNamed'
      BY <1>3, <2>1, <2>7 DEF ProcessNamed, Crash, Becomes, ProcessFits
    <3> QED
      BY <3>1, <3>2
  <2>8. CASE Told(d)
    <3>1. OneBusy'
      BY <1>3, <2>1, <2>8 DEF OneBusy, Told, Becomes, operator, Engaged, Unnamed, ProcessFits
    <3>2. ProcessNamed'
      BY <1>3, <2>1, <2>8 DEF ProcessNamed, Told, Becomes, pidVars, ProcessFits
    <3> QED
      BY <3>1, <3>2
  <2> QED
    BY <2>2, <2>3, <2>4, <2>5, <2>6, <2>7, <2>8 DEF DaemonStep
<1> QED
  BY <1>1, <1>2, <1>3, RaceKeeps DEF ProcessInv

\* A daemon is run by hand, alone and where no command is in the way, or there is a race.
LEMMA RunByHandKeeps ==
    ASSUME ProcessInv, NEW d \in Daemons, RunByHand(d)
    PROVE  ProcessInv'
<1> DEFINE race == cmdPc \notin {"idle", "reading", "watching"} \/ \E e \in Daemons : Engaged(e)
<1>1. race \in BOOLEAN /\ RacedIf(race)
  BY DEF RunByHand
<1>2. raced' \in BOOLEAN
  BY <1>1, RacedFits DEF ProcessInv
<1>3. ProcessFits'
  BY <1>2 DEF ProcessInv, ProcessFits, RunByHand, Becomes, operator
<1>4. ASSUME OneBusy, ProcessNamed, ~ race PROVE OneBusy' /\ ProcessNamed'
  <2>1. /\ life' = [life EXCEPT ![d] = "launched"]
        /\ life \in [Daemons -> {"absent", "launched", "naming", "loading", "serving",
                                 "leaving", "unnamed", "gone"}]
        /\ cmdPc' = cmdPc /\ cmdPc \in {"idle", "reading", "watching"}
        /\ \A e \in Daemons : ~ Engaged(e)
    BY <1>4 DEF RunByHand, Becomes, operator, ProcessInv, ProcessFits
  <2>2. /\ \A e \in Daemons : Engaged(e)' => e = d
        /\ \A e \in Daemons : life'[e] \notin {"naming", "loading", "serving", "leaving"}
    BY <2>1 DEF Engaged, Unnamed
  <2>3. OneBusy'
    BY <2>1, <2>2 DEF OneBusy
  <2>4. ProcessNamed'
    BY <2>2 DEF ProcessNamed
  <2> QED
    BY <2>3, <2>4
<1> QED
  BY <1>1, <1>3, <1>4, RaceKeeps DEF ProcessInv

\* A command begins.
LEMMA ProcessMovesKeeps ==
    ASSUME ProcessInv, NEW what, ProcessMoves(what)
    PROVE  ProcessInv'
<1>1. ProcessFits'
  BY DEF ProcessInv, ProcessFits, ProcessMoves
<1>2. ASSUME OneBusy, ProcessNamed PROVE OneBusy' /\ ProcessNamed'
  BY <1>2 DEF OneBusy, ProcessNamed, ProcessMoves, pidVars, Engaged, Unnamed
<1> QED
  BY <1>1, <1>2 DEF ProcessInv, ProcessMoves

\* It reads the file.  Where every daemon that is up is named, a file that names none is
\* that of none, and one that names a daemon names the only one.
LEMMA ReadPidKeeps ==
    ASSUME ProcessInv, ReadPid
    PROVE  ProcessInv'
<1> DEFINE race == \E d \in Daemons : Unnamed(d)
<1>1. race \in BOOLEAN /\ RacedIf(race) /\ life' = life /\ cmdPc = "reading"
  BY DEF ReadPid
<1>2. raced' \in BOOLEAN
  BY <1>1, RacedFits DEF ProcessInv
<1>3. ProcessFits'
  BY <1>2 DEF ProcessInv, ProcessFits, ReadPid, ProcessEnds
<1>4. ASSUME OneBusy, ProcessNamed, ~ race PROVE OneBusy' /\ ProcessNamed'
  <2>1. \A d \in Daemons : ~ Unnamed(d) /\ ~ Unnamed(d)'
    BY <1>4, <1>1 DEF Unnamed
  <2>2. \A d \in Daemons : Engaged(d) => pidFile = d /\ Alive(d)
    BY <1>4, <2>1 DEF Engaged, ProcessNamed, Alive
  <2>3. \A d \in Daemons : Engaged(d)' <=> Engaged(d)
    BY <1>1 DEF Engaged, Unnamed
  <2>4. ProcessNamed'
    <3>1. SUFFICES ASSUME NEW d \in Daemons, life[d] \in {"loading", "serving", "leaving"}
                   PROVE  pidFile' = d
      BY <1>1, <2>1 DEF ProcessNamed, Unnamed
    <3>2. pidFile = d /\ Alive(d)
      BY <3>1, <2>2 DEF Engaged
    <3> QED
      BY <3>2 DEF ReadPid, pidVars
  <2>5. CASE pidFile \in Daemons /\ Alive(pidFile) /\ processCommand = "stop"
    <3>1. cmdPc' = "signalling" /\ target' = pidFile
      BY <2>5 DEF ReadPid, ProcessEnds
    <3>2. OneBusy'
      BY <3>1, <1>4, <2>1, <2>2, <2>3 DEF OneBusy
    <3> QED
      BY <3>2, <2>4
  <2>6. CASE /\ ~ (pidFile \in Daemons /\ Alive(pidFile))
             /\ processCommand \in {"start", "foreground"}
    <3>1. \A d \in Daemons : ~ Engaged(d)'
      BY <2>6, <2>2, <2>3
    <3>2. OneBusy'
      BY <3>1, <2>1 DEF OneBusy
    <3> QED
      BY <3>2, <2>4
  <2>7. CASE cmdPc' = "idle"
    <3>1. OneBusy'
      BY <2>7, <1>4, <2>1, <2>3 DEF OneBusy
    <3> QED
      BY <3>1, <2>4
  <2> QED
    BY <2>5, <2>6, <2>7 DEF ReadPid, ProcessEnds
<1> QED
  BY <1>1, <1>3, <1>4, RaceKeeps DEF ProcessInv

\* start launches a daemon.
LEMMA LaunchKeeps ==
    ASSUME ProcessInv, Launch
    PROVE  ProcessInv'
<1>1. RacedIf(FALSE) /\ raced' \in BOOLEAN
  BY RacedFits DEF Launch, ProcessInv
<1>2. ProcessFits'
  BY <1>1 DEF ProcessInv, ProcessFits, Launch, Becomes, ProcessEnds
<1>3. ASSUME OneBusy, ProcessNamed PROVE OneBusy' /\ ProcessNamed'
  <2>1. OneBusy'
    BY <1>3 DEF OneBusy, Launch, Becomes, ProcessInv, ProcessFits, ProcessEnds, Engaged, Unnamed
  <2>2. ProcessNamed'
    BY <1>3 DEF ProcessNamed, Launch, Becomes, ProcessInv, ProcessFits, pidVars
  <2> QED
    BY <2>1, <2>2
<1> QED
  BY <1>1, <1>2, <1>3, RaceKeeps DEF ProcessInv

\* start reports.
LEMMA StartedKeeps ==
    ASSUME ProcessInv, Started
    PROVE  ProcessInv'
<1>1. ProcessFits'
  BY DEF ProcessInv, ProcessFits, Started, ProcessEnds
<1>2. ASSUME OneBusy, ProcessNamed PROVE OneBusy' /\ ProcessNamed'
  BY <1>2 DEF OneBusy, ProcessNamed, Started, ProcessEnds, pidVars, Engaged, Unnamed
<1> QED
  BY <1>1, <1>2 DEF ProcessInv, Started

\* stop signals the daemon.
LEMMA SignalKeeps ==
    ASSUME ProcessInv, Signal
    PROVE  ProcessInv'
<1>1. RacedIf(FALSE) /\ raced' \in BOOLEAN
  BY RacedFits DEF Signal, ProcessInv
<1>2. ProcessFits'
  BY <1>1 DEF ProcessInv, ProcessFits, Signal, ProcessEnds
<1>3. ASSUME OneBusy, ProcessNamed PROVE OneBusy' /\ ProcessNamed'
  <2>1. /\ target \in Daemons /\ cmdPc = "signalling"
        /\ life \in [Daemons -> {"absent", "launched", "naming", "loading", "serving",
                                 "leaving", "unnamed", "gone"}]
    BY DEF Signal, ProcessInv, ProcessFits
  <2>2. /\ \A d \in Daemons : Engaged(d) => d = target
        /\ \A d \in Daemons : ~ Unnamed(d)
    BY <1>3, <2>1 DEF OneBusy
  <2>3. \A d \in Daemons : /\ Engaged(d)' => Engaged(d)
                           /\ ~ Unnamed(d)'
                           /\ life'[d] \in {"loading", "serving", "leaving"} =>
                                 life[d] \in {"loading", "serving", "leaving"}
    BY <2>1, <2>2 DEF Signal, Engaged, Unnamed
  <2>4. cmdPc' \in {"polling", "idle"} /\ (cmdPc' = "polling" => target' = target)
    BY DEF Signal, ProcessEnds
  <2>5. OneBusy'
    BY <2>2, <2>3, <2>4 DEF OneBusy
  <2>6. ASSUME NEW d \in Daemons, life'[d] \in {"loading", "serving", "leaving"}
        PROVE  pidFile' = d
    <3>1. life[d] \in {"loading", "serving", "leaving"} /\ d = target
      BY <2>2, <2>3, <2>6 DEF Engaged
    <3>2. pidFile' = pidFile
      BY <3>1 DEF Signal, Alive
    <3> QED
      BY <3>1, <3>2, <1>3 DEF ProcessNamed
  <2>7. ProcessNamed'
    BY <2>3, <2>6 DEF ProcessNamed, Unnamed
  <2> QED
    BY <2>5, <2>7
<1> QED
  BY <1>1, <1>2, <1>3, RaceKeeps DEF ProcessInv

\* stop has waited.
LEMMA StoppedKeeps ==
    ASSUME ProcessInv, Stopped
    PROVE  ProcessInv'
<1>1. ProcessFits'
  BY DEF ProcessInv, ProcessFits, Stopped, ProcessEnds
<1>2. ASSUME OneBusy, ProcessNamed PROVE OneBusy' /\ ProcessNamed'
  <2>1. life' = life /\ cmdPc = "polling" /\ cmdPc' = "idle"
    BY DEF Stopped, ProcessEnds
  <2>2. OneBusy'
    BY <1>2, <2>1 DEF OneBusy, Engaged, Unnamed
  <2>3. ASSUME NEW d \in Daemons, life[d] \in {"loading", "serving", "leaving"}
        PROVE  pidFile' = d
    <3>1. pidFile = d /\ d = target
      BY <1>2, <2>1, <2>3 DEF ProcessNamed, OneBusy, Engaged
    <3> QED
      BY <2>3, <3>1 DEF Stopped, FileAfterWait, Alive, pidVars
  <2>4. \A d \in Daemons : life[d] # "naming"
    BY <1>2, <2>1 DEF OneBusy, Unnamed
  <2>5. ProcessNamed'
    BY <2>1, <2>3, <2>4 DEF ProcessNamed
  <2> QED
    BY <2>2, <2>5
<1> QED
  BY <1>1, <1>2 DEF ProcessInv, Stopped

\* All of it holds at every step of the daemons and the commands.
THEOREM ProcessInvariant == ProcessSpec => []ProcessInv
<1>1. ProcessInit => ProcessInv
  BY ProcessStart
<1>2. ProcessInv /\ [ProcessNext]_processVars => ProcessInv'
  <2>1. ASSUME ProcessInv, UNCHANGED processVars PROVE ProcessInv'
    BY <2>1
    DEF processVars, pidVars, operator, ProcessInv, ProcessFits, OneBusy, ProcessNamed, Engaged,
        Unnamed
  <2> QED
    BY <2>1, DaemonStepKeeps, RunByHandKeeps, ProcessMovesKeeps, ReadPidKeeps, LaunchKeeps, StartedKeeps,
       SignalKeeps, StoppedKeeps
    DEF ProcessNext, Command
<1> QED
  BY <1>1, <1>2, PTL DEF ProcessSpec

\* A daemon that listens is the one the PID file names, unless a command read the file
\* before a daemon had named itself, or one was run by hand where it should not have been,
\* and one has been up ever since.
THEOREM LiveDaemonStaysNamed == ProcessSpec => []LiveDaemonNamed
<1>1. ProcessInv => LiveDaemonNamed
  BY DEF ProcessInv, ProcessNamed, LiveDaemonNamed
<1> QED
  BY <1>1, ProcessInvariant, PTL

\* A command moves between its steps and the file between its three states.
LEMMA ProcessTypeKeeps ==
    ProcessInv /\ ProcessInv' /\ ProcessTypeOK /\ [ProcessNext]_processVars => ProcessTypeOK'
<1> SUFFICES ASSUME ProcessInv, ProcessInv', ProcessTypeOK, [ProcessNext]_processVars
             PROVE  ProcessTypeOK'
  OBVIOUS
<1> DEFINE Others ==
      /\ pidFile \in Daemons \cup {NoFile, "empty"} /\ opened \in SUBSET Daemons
      /\ processCommand \in {"none", "start", "foreground", "stop", "status"}
      /\ target \in Daemons \cup {NoFile}
<1>1. ASSUME NEW d \in Daemons, DaemonStep(d) PROVE Others'
  BY <1>1 DEF DaemonStep, Create, Name, Load, Told, Unname, Exit, Crash, Unlink, pidVars,
              operator, ProcessTypeOK
<1>2. ASSUME NEW what \in {"start", "foreground", "stop", "status"}, ProcessMoves(what)
      PROVE  Others'
  BY <1>2 DEF ProcessMoves, pidVars, ProcessTypeOK
<1>10. ASSUME NEW d \in Daemons, RunByHand(d) PROVE Others'
  BY <1>10 DEF RunByHand, pidVars, operator, ProcessTypeOK
<1>3. ASSUME ReadPid PROVE Others'
  BY <1>3 DEF ReadPid, ProcessEnds, Unlink, pidVars, ProcessTypeOK
<1>4. ASSUME Launch PROVE Others'
  BY <1>4 DEF Launch, ProcessEnds, pidVars, ProcessTypeOK
<1>5. ASSUME Started PROVE Others'
  BY <1>5 DEF Started, ProcessEnds, pidVars, ProcessTypeOK
<1>6. ASSUME Signal PROVE Others'
  BY <1>6 DEF Signal, ProcessEnds, Unlink, ProcessTypeOK
<1>7. ASSUME Stopped PROVE Others'
  BY <1>7 DEF Stopped, ProcessEnds, FileAfterWait, Unlink, pidVars, ProcessTypeOK
<1>8. ASSUME UNCHANGED processVars PROVE Others'
  BY <1>8 DEF processVars, pidVars, operator, ProcessTypeOK
<1>9. Others'
  BY <1>1, <1>2, <1>3, <1>4, <1>5, <1>6, <1>7, <1>8, <1>10 DEF ProcessNext, Command
<1> QED
  BY <1>9 DEF ProcessTypeOK, ProcessInv, ProcessFits

\* The PID file names a daemon, holds nothing or is not there, and a command is about a
\* daemon or about none, whatever the operator types and whichever daemons crash.
THEOREM ProcessTypeCorrect == ProcessSpec => []ProcessTypeOK
<1>1. ProcessInit => ProcessTypeOK
  BY DEF ProcessInit, ProcessTypeOK
<1> QED
  BY <1>1, ProcessTypeKeeps, ProcessInvariant, PTL DEF ProcessSpec

----------------------------------------------------------------------------
(* SchemaRead.                                                             *)

\* What a caller reads of a database.
Readings == {"schema", "history", "probe"}

\* The session is one of the four, and only PostgreSQL's is left aborted between the
\* statements of a call: Redshift's is rolled back.
SessionFits ==
    /\ database \in Databases
    /\ session \in {"clean", "open", "aborted", "gone"}
    /\ database # "postgres" => session # "aborted"

\* The inductive invariant.
SchemaInv == SessionFits /\ NothingInherited

\* The first call finds a clean session.
LEMMA SchemaStart == SchemaInit => SchemaInv
  BY DEF SchemaInit, SchemaInv, SessionFits, NothingInherited

\* A call begins.
LEMMA BeginCallKeeps ==
    ASSUME SchemaInv, NEW what \in Readings, BeginCall(what)
    PROVE  SchemaInv'
<1>1. SessionFits'
  BY DEF SchemaInv, SessionFits, BeginCall
<1>2. NothingInherited'
  BY DEF SchemaInv, NothingInherited, BeginCall
<1> QED
  BY <1>1, <1>2 DEF SchemaInv

\* A statement is answered.
LEMMA ReadAnsweredKeeps ==
    ASSUME SchemaInv, ReadAnswered
    PROVE  SchemaInv'
<1>1. SessionFits'
  BY DEF SchemaInv, SessionFits, ReadAnswered, Sends, Continues, Ends, CallLeaves,
         RolledBack, After
<1>2. NothingInherited'
  BY DEF SchemaInv, NothingInherited, ReadAnswered, Sends, Continues, Ends, CallLeaves,
         RolledBack
<1> QED
  BY <1>1, <1>2 DEF SchemaInv

\* The extension is not installed.
LEMMA NotInstalledKeeps ==
    ASSUME SchemaInv, NotInstalled
    PROVE  SchemaInv'
<1>1. SessionFits'
  BY DEF SchemaInv, SessionFits, NotInstalled, Sends, Ends, CallLeaves, RolledBack
<1>2. NothingInherited'
  BY DEF SchemaInv, NothingInherited, NotInstalled, Sends, Ends, CallLeaves, RolledBack
<1> QED
  BY <1>1, <1>2 DEF SchemaInv

\* Another statement is sent instead.
LEMMA FallsBackKeeps ==
    ASSUME SchemaInv, NEW how \in Failures, FallsBack(how)
    PROVE  SchemaInv'
<1>1. SessionFits'
  BY DEF SchemaInv, SessionFits, FallsBack, Sends, Continues, RolledBack, After,
         AbortsOnError, GoneOnFrom
<1>2. NothingInherited'
  BY DEF SchemaInv, NothingInherited, FallsBack, Sends, Continues
<1> QED
  BY <1>1, <1>2 DEF SchemaInv

\* The schema does without.
LEMMA GoesWithoutKeeps ==
    ASSUME SchemaInv, NEW how \in Failures, GoesWithout(how)
    PROVE  SchemaInv'
<1>1. SessionFits'
  BY DEF SchemaInv, SessionFits, GoesWithout, Sends, Continues, Ends, CallLeaves,
         RolledBack, After, AbortsOnError, GoneOnFrom
<1>2. NothingInherited'
  BY DEF SchemaInv, NothingInherited, GoesWithout, Sends, Continues, Ends, CallLeaves,
         RolledBack, SessionFits, MayOmit
<1> QED
  BY <1>1, <1>2 DEF SchemaInv

\* The call raises.
LEMMA GivesUpKeeps ==
    ASSUME SchemaInv, NEW how \in Failures, GivesUp(how)
    PROVE  SchemaInv'
<1>1. SessionFits'
  BY DEF SchemaInv, SessionFits, GivesUp, Sends, Ends, CallLeaves, RolledBack
<1>2. NothingInherited'
  BY DEF SchemaInv, NothingInherited, GivesUp, Sends, Ends, CallLeaves, RolledBack
<1> QED
  BY <1>1, <1>2 DEF SchemaInv

\* Both hold at every statement of every call.
THEOREM SchemaInvariant == SchemaSpec => []SchemaInv
<1>1. SchemaInit => SchemaInv
  BY SchemaStart
<1>2. SchemaInv /\ [SchemaNext]_schemaVars => SchemaInv'
  <2>1. ASSUME SchemaInv, UNCHANGED schemaVars PROVE SchemaInv'
    BY <2>1 DEF schemaVars, SchemaInv, SessionFits, NothingInherited
  <2> QED
    BY <2>1, BeginCallKeeps, ReadAnsweredKeeps, NotInstalledKeeps, FallsBackKeeps,
       GoesWithoutKeeps, GivesUpKeeps
    DEF SchemaNext, Readings
<1> QED
  BY <1>1, <1>2, PTL DEF SchemaSpec

\* Whatever a schema does without was refused for its own sake, and a call leaves no
\* transaction behind.
THEOREM NothingEverInherited == SchemaSpec => []NothingInherited
<1>1. SchemaInv => NothingInherited
  BY DEF SchemaInv
<1> QED
  BY <1>1, SchemaInvariant, PTL

\* What a call returns or raises.
LEMMA ResultsAre ==
    \A what \in Readings :
        /\ Returns[what] \in {"schema", "history", "no problem"}
        /\ Raises[what] \in {"raised", "unavailable", "problem"}
<1> SUFFICES ASSUME NEW what \in Readings
             PROVE  /\ Returns[what] \in {"schema", "history", "no problem"}
                    /\ Raises[what] \in {"raised", "unavailable", "problem"}
  OBVIOUS
<1>1. CASE what = "schema"
  BY <1>1 DEF Returns, Raises
<1>2. CASE what = "history"
  BY <1>2 DEF Returns, Raises
<1>3. CASE what = "probe"
  BY <1>3 DEF Returns, Raises
<1> QED
  BY <1>1, <1>2, <1>3 DEF Readings

\* A call that goes on after a statement, or returns after its last.
LEMMA ContinuesFits ==
    ASSUME SchemaTypeOK, reading # "none", database' = database, NEW rest, NEW s \in {"clean", "open", "aborted", "gone"},
           Continues(rest, s)
    PROVE  SchemaTypeOK'
<1>1. reading \in {"schema", "history", "probe"}
  BY DEF SchemaTypeOK
<1>2. Returns[reading] \in {"schema", "history", "no problem"}
  BY <1>1, ResultsAre DEF Readings
<1>3. RolledBack(s) \in {"clean", "gone"}
  BY DEF RolledBack
<1> QED
  BY <1>1, <1>2, <1>3 DEF Continues, Ends, CallLeaves, SchemaTypeOK

\* A call that raises.
LEMMA EndsFits ==
    ASSUME SchemaTypeOK, database' = database, NEW s \in {"clean", "open", "aborted", "gone"},
           NEW result \in {"unavailable", "raised", "problem"}, Ends(result, s)
    PROVE  SchemaTypeOK'
<1>1. RolledBack(s) \in {"clean", "gone"}
  BY DEF RolledBack
<1> QED
  BY <1>1 DEF Ends, CallLeaves, SchemaTypeOK

\* A call has statements left exactly while it is under way.
LEMMA SchemaTypeKeeps == SchemaTypeOK /\ [SchemaNext]_schemaVars => SchemaTypeOK'
<1> SUFFICES ASSUME SchemaTypeOK, [SchemaNext]_schemaVars PROVE SchemaTypeOK'
  OBVIOUS
<1>1. \A how : After(how) \in {"clean", "open", "aborted", "gone"}
  BY DEF After, SchemaTypeOK
<1>2. \A how : GoneOnFrom(After(how)) \in {"clean", "open", "aborted", "gone"}
  BY <1>1 DEF GoneOnFrom, RolledBack
<1>3. ASSUME NEW what \in Readings, BeginCall(what) PROVE SchemaTypeOK'
  <2>1. Returns[what] \in {"schema", "history", "no problem"}
    BY ResultsAre
  <2>2. what # "none"
    BY DEF Readings
  <2> QED
    BY <1>3, <2>1, <2>2 DEF BeginCall, SchemaTypeOK, Readings
<1>4. CASE ReadAnswered
  BY <1>1, <1>4, ContinuesFits DEF ReadAnswered, Sends
<1>5. CASE NotInstalled
  BY <1>1, <1>5, EndsFits DEF NotInstalled, Sends
<1>6. ASSUME NEW how \in Failures, FallsBack(how) PROVE SchemaTypeOK'
  BY <1>2, <1>6, ContinuesFits DEF FallsBack, Sends
<1>7. ASSUME NEW how \in Failures, GoesWithout(how) PROVE SchemaTypeOK'
  BY <1>2, <1>7, ContinuesFits DEF GoesWithout, Sends
<1>8. ASSUME NEW how \in Failures, GivesUp(how) PROVE SchemaTypeOK'
  <2>1. reading \in {"schema", "history", "probe"}
    BY <1>8 DEF GivesUp, Sends, SchemaTypeOK
  <2>2. Raises[reading] \in {"unavailable", "raised", "problem"}
    BY <2>1, ResultsAre DEF Readings
  <2> QED
    BY <1>1, <1>8, <2>2, EndsFits DEF GivesUp, Sends
<1>9. CASE UNCHANGED schemaVars
  BY <1>9 DEF schemaVars, SchemaTypeOK
<1> QED
  BY <1>3, <1>4, <1>5, <1>6, <1>7, <1>8, <1>9 DEF SchemaNext, Readings

\* Through every refusal, loss and fallback a call is under way exactly while it has
\* statements to send.
THEOREM SchemaTypeCorrect == SchemaSpec => []SchemaTypeOK
<1>1. SchemaInit => SchemaTypeOK
  BY DEF SchemaInit, SchemaTypeOK
<1> QED
  BY <1>1, SchemaTypeKeeps, PTL DEF SchemaSpec

----------------------------------------------------------------------------
(* KnowledgeBase.                                                          *)

\* A description by its three fields, and the texts of a person and of dbt.
KbEntry(t, from, date) == [text |-> t, source |-> from, stamp |-> date]
PersonText(s) == [by |-> "person", of |-> s]
DbtText(d) == [by |-> "dbt", of |-> d]

\* The file holds descriptions of slots.
Shaped ==
    /\ kb = [s \in DOMAIN kb |-> kb[s]]
    /\ DOMAIN kb \subseteq KbSlots
    /\ \A s \in DOMAIN kb : kb[s] = KbEntry(kb[s].text, kb[s].source, kb[s].stamp)

\* What a person wrote is what the file says, and is marked as theirs.
OwnKept ==
    /\ own \subseteq DOMAIN kb
    /\ \A s \in own : Alone(s) => kb[s].text = PersonText(s) /\ kb[s].source \in Manual

\* An entry without a description has no date.
UndatedWithout == \A s \in DOMAIN kb : kb[s].text = NoText => kb[s].stamp = 0

\* The inductive invariant.
KbInv == Shaped /\ OwnKept /\ UndatedWithout

\* A text by somebody is not the absence of one.
LEMMA PersonIsNotNoText == \A s : PersonText(s) # NoText /\ DbtText(s) # NoText
<1> SUFFICES ASSUME NEW s PROVE PersonText(s) # NoText /\ DbtText(s) # NoText
  OBVIOUS
<1>1. PersonText(s).by = "person" /\ DbtText(s).by = "dbt" /\ NoText.by = ""
  BY DEF PersonText, DbtText, NoText
<1> QED
  BY <1>1

\* A new knowledge base is empty, and an older release's is a person's.
LEMMA KbStart == KbInit => KbInv
<1> SUFFICES ASSUME KbInit PROVE KbInv
  OBVIOUS
<1>1. PICK held \in {{}, KbSlots} : kb \in {[s \in held |-> Blank], [s \in held |-> Legacy(s)]}
  BY DEF KbInit
<1>2. DOMAIN kb = held /\ held \subseteq KbSlots /\ kb = [s \in DOMAIN kb |-> kb[s]]
  BY <1>1
<1>3. ASSUME NEW s \in DOMAIN kb
      PROVE  /\ kb[s].text = NoText \/ kb[s].text = PersonText(s)
             /\ kb[s].source = "" /\ kb[s].stamp = 0
             /\ kb[s] = KbEntry(kb[s].text, kb[s].source, kb[s].stamp)
  <2>1. CASE kb[s] = Blank
    <3>1. kb[s].text = NoText /\ kb[s].source = "" /\ kb[s].stamp = 0
      <4>1. Blank.text = NoText /\ Blank.source = "" /\ Blank.stamp = 0
        BY DEF Blank
      <4> QED
        BY <2>1, <4>1
    <3>2. kb[s] = KbEntry(NoText, "", 0)
      BY <2>1 DEF Blank, KbEntry
    <3> QED
      BY <3>1, <3>2
  <2>2. CASE kb[s] = Legacy(s)
    <3>1. kb[s].text = PersonText(s) /\ kb[s].source = "" /\ kb[s].stamp = 0
      <4>1. Legacy(s).text = PersonText(s) /\ Legacy(s).source = "" /\ Legacy(s).stamp = 0
        BY DEF Legacy, PersonText
      <4> QED
        BY <2>2, <4>1
    <3>2. kb[s] = KbEntry(PersonText(s), "", 0)
      BY <2>2 DEF Legacy, KbEntry, PersonText
    <3> QED
      BY <3>1, <3>2
  <2> QED
    BY <1>1, <1>2, <2>1, <2>2
<1>4. Shaped
  BY <1>2, <1>3 DEF Shaped
<1>5. OwnKept
  <2>1. own = {s \in DOMAIN kb : kb[s].text # NoText}
    BY DEF KbInit
  <2> QED
    BY <1>3, <2>1 DEF OwnKept, Manual
<1>6. UndatedWithout
  BY <1>3 DEF UndatedWithout
<1> QED
  BY <1>4, <1>5, <1>6 DEF KbInv

\* A table whose name is its own: the entries of its name are of its schema.
LEMMA SameNameOfAlone ==
    ASSUME Shaped, NEW s \in KbSlots, Alone(s)
    PROVE  \A t \in SameName(s) : t.schema = s.schema /\ t \in DOMAIN kb
  BY DEF SameName, Alone, Shaped

\* Of entries of one schema the latest is one of them.
LEMMA LatestOfOneSchema ==
    ASSUME NEW slots, NEW s \in slots, \A t \in slots : t.schema = s.schema /\ t \in KbSlots
    PROVE  LatestOf(slots) \in slots
<1>1. SourceRank(s) \in DOMAIN Schemas
  BY SlotsAssumption DEF SourceRank
<1>2. SourceRank(s) \in Int
  BY <1>1, SchemasAssumption
<1>3. \A t \in slots : SourceRank(t) = SourceRank(s)
  BY DEF SourceRank
<1>4. \A t \in slots : SourceRank(t) <= SourceRank(s)
  BY <1>2, <1>3
<1> QED
  BY <1>4 DEF LatestOf

\* What export-kb reads of such a table is its own entry, if it says something.
LEMMA ExistingOfAlone ==
    ASSUME Shaped, NEW s \in DOMAIN kb, Alone(s), kb[s].text # NoText
    PROVE  Existing(s) = kb[s]
<1>1. s \in KbSlots /\ s \in Described(s)
  BY DEF Shaped, Described, SameName
<1>2. \A t \in Described(s) : t.schema = s.schema /\ t \in KbSlots
  BY <1>1, SameNameOfAlone DEF Described, Shaped
<1>3. LatestOf(Described(s)) \in Described(s)
  BY <1>1, <1>2, LatestOfOneSchema
<1>4. LatestOf(Described(s)).schema = s.schema
  BY <1>2, <1>3
<1>5. [s EXCEPT !.schema = s.schema] = s
  BY <1>1, SlotsAssumption
<1> QED
  BY <1>1, <1>4, <1>5 DEF Existing

\* And its date is its own.
LEMMA DatedOfAlone ==
    ASSUME Shaped, NEW s \in DOMAIN kb, Alone(s)
    PROVE  Dated(s) = kb[s]
<1> DEFINE same == {t \in SameName(s) : t.column = s.column}
<1>1. s \in KbSlots /\ s \in same
  BY DEF Shaped, SameName
<1>2. ASSUME NEW t \in same PROVE t = s
  <2>1. t \in KbSlots /\ t.schema = s.schema /\ t.name = s.name /\ t.column = s.column
    BY <1>1, SameNameOfAlone DEF SameName, Shaped
  <2>2. /\ t = [schema |-> t.schema, name |-> t.name, column |-> t.column]
        /\ s = [schema |-> s.schema, name |-> s.name, column |-> s.column]
    BY <1>1, <2>1, SlotsAssumption
  <2> QED
    BY <2>1, <2>2
<1>3. LatestOf(same) \in same
  <2>1. \A t \in same : t.schema = s.schema /\ t \in KbSlots
    BY <1>1, <1>2
  <2> HIDE DEF same
  <2> QED
    BY <1>1, <2>1, LatestOfOneSchema
<1> QED
  BY <1>1, <1>2, <1>3 DEF Dated

\* What an import may make of an entry: nothing, or dbt's text, which is no person's.
ImportedAs(s) ==
    \/ kb'[s] = kb[s]
    \/ /\ ~ (kb[s].text # NoText /\ kb[s].source \in Manual)
       /\ \E d : kb'[s] = KbEntry(DbtText(d), "dbt", kb[s].stamp)

\* An import of dbt's documentation leaves each entry, or fills it with dbt's text.
LEMMA ImportChanges ==
    ASSUME Shaped, NEW models, NEW undocumented, ImportDbt(models, undocumented)
    PROVE  /\ DOMAIN kb' = DOMAIN kb /\ kb' = [s \in DOMAIN kb' |-> kb'[s]] /\ own' = own
           /\ \A s \in DOMAIN kb : ImportedAs(s)
<1> DEFINE source(s) == {d \in KbSlots : /\ Relation(d) \in DbtDoc(Relation(s), models)
                                        /\ d.column = s.column /\ d \notin undocumented}
           takes(s) == source(s) # {} /\ ~ (kb[s].text # NoText /\ kb[s].source \in Manual)
<1>1. /\ own' = own
      /\ kb' = [s \in DOMAIN kb |->
                  IF takes(s)
                  THEN [kb[s] EXCEPT !.text = [by |-> "dbt", of |-> CHOOSE d \in source(s) : TRUE],
                                     !.source = "dbt"]
                  ELSE kb[s]]
  BY DEF ImportDbt
<1>2. \A s : takes(s) => ~ (kb[s].text # NoText /\ kb[s].source \in Manual)
  OBVIOUS
<1> HIDE DEF takes, source
<1>3. DOMAIN kb' = DOMAIN kb /\ kb' = [s \in DOMAIN kb' |-> kb'[s]]
  BY <1>1
<1>4. ASSUME NEW s \in DOMAIN kb PROVE ImportedAs(s)
  <2>1. CASE ~ takes(s)
    BY <1>1, <2>1 DEF ImportedAs
  <2>2. CASE takes(s)
    <3>1. PICK d : d = CHOOSE e \in source(s) : TRUE
      OBVIOUS
    <3>2. kb'[s] = [kb[s] EXCEPT !.text = DbtText(d), !.source = "dbt"]
      BY <1>1, <2>2, <3>1 DEF DbtText
    <3>3. kb[s] = KbEntry(kb[s].text, kb[s].source, kb[s].stamp)
      BY DEF Shaped
    <3>4. kb'[s] = KbEntry(DbtText(d), "dbt", kb[s].stamp)
      BY <3>2, <3>3 DEF KbEntry
    <3> QED
      BY <1>2, <2>2, <3>4 DEF ImportedAs
  <2> QED
    BY <2>1, <2>2
<1> QED
  BY <1>1, <1>3, <1>4

\* What an annotation makes of the entries: the person's text in one of them.
AnnotatedAs(s, marked) ==
    /\ kb'[s] = KbEntry(PersonText(s), IF marked THEN "manual" ELSE kb[s].source, kb[s].stamp)
    /\ \A t \in DOMAIN kb : t # s => kb'[t] = kb[t]

\* An annotation puts the person's text in one entry.
LEMMA AnnotateChanges ==
    ASSUME Shaped, NEW s \in DOMAIN kb, NEW marked, Annotate(s, marked)
    PROVE  /\ DOMAIN kb' = DOMAIN kb /\ kb' = [t \in DOMAIN kb' |-> kb'[t]]
           /\ AnnotatedAs(s, marked)
<1>1. kb' = [kb EXCEPT ![s] = [kb[s] EXCEPT !.text = PersonText(s),
                                            !.source = IF marked THEN "manual" ELSE @]]
  BY DEF Annotate, PersonText, Shaped
<1>2. kb[s] = KbEntry(kb[s].text, kb[s].source, kb[s].stamp) /\ kb = [t \in DOMAIN kb |-> kb[t]]
  BY DEF Shaped
<1>3. PICK new : new = [kb[s] EXCEPT !.text = PersonText(s),
                                     !.source = IF marked THEN "manual" ELSE @]
  OBVIOUS
<1>4. kb' = [kb EXCEPT ![s] = new]
  BY <1>1, <1>3
<1>5. /\ DOMAIN kb' = DOMAIN kb /\ kb' = [t \in DOMAIN kb' |-> kb'[t]] /\ kb'[s] = new
      /\ \A t \in DOMAIN kb : t # s => kb'[t] = kb[t]
  BY <1>2, <1>4
<1>6. new = KbEntry(PersonText(s), IF marked THEN "manual" ELSE kb[s].source, kb[s].stamp)
  BY <1>2, <1>3 DEF KbEntry
<1> QED
  BY <1>5, <1>6 DEF AnnotatedAs

\* export-kb builds the file anew.
LEMMA ExportKbKeeps ==
    ASSUME KbInv, NEW tables, NEW comments, NEW described, ExportKb(tables, comments, described)
    PROVE  KbInv'
<1> DEFINE held == {s \in KbSlots : Relation(s) \in tables}
<1> DEFINE Fresh(s) == FreshDescription(s, comments, described)
<1>1. /\ kb' = [s \in held |-> Generated(s, Fresh(s))]
      /\ own' = own \cap held
  BY DEF ExportKb
<1>2. held \subseteq KbSlots
  OBVIOUS
<1> HIDE DEF held, Fresh
<1>3. DOMAIN kb' = held /\ \A s \in held : kb'[s] = Generated(s, Fresh(s))
  BY <1>1
<1>4. Shaped'
  <2>1. kb' = [s \in DOMAIN kb' |-> kb'[s]] /\ DOMAIN kb' \subseteq KbSlots
    BY <1>1, <1>2
  <2>2. ASSUME NEW s \in held
        PROVE  kb'[s] = KbEntry(kb'[s].text, kb'[s].source, kb'[s].stamp)
    BY <1>3 DEF Generated, KbEntry
  <2> QED
    BY <2>1, <2>2, <1>3 DEF Shaped
<1>5. UndatedWithout'
  BY <1>3 DEF UndatedWithout, Generated, Stamped
<1>6. OwnKept'
  <2>1. own' \subseteq DOMAIN kb'
    BY <1>1
  <2>2. ASSUME NEW s \in own', Alone(s)
        PROVE  kb'[s].text = PersonText(s) /\ kb'[s].source \in Manual
    <3>1. s \in own /\ s \in DOMAIN kb /\ s \in KbSlots /\ s \in held
      BY <1>1, <1>2 DEF KbInv, OwnKept
    <3>2. kb[s].text = PersonText(s) /\ kb[s].source \in Manual
      BY <3>1, <2>2 DEF KbInv, OwnKept
    <3>3. Existing(s) = kb[s]
      BY <3>1, <3>2, <2>2, ExistingOfAlone, PersonIsNotNoText DEF KbInv
    <3>4. /\ ResolveDescription(kb[s], Fresh(s)).text = kb[s].text
            /\ ResolveDescription(kb[s], Fresh(s)).source = "manual"
      BY <3>2, PersonIsNotNoText DEF ResolveDescription
    <3> QED
      <4>1. /\ kb'[s].text = ResolveDescription(kb[s], Fresh(s)).text
            /\ kb'[s].source = ResolveDescription(kb[s], Fresh(s)).source
        BY <3>1, <3>3, <1>3 DEF Generated
      <4> QED
        BY <4>1, <3>2, <3>4 DEF Manual
  <2> QED
    BY <2>1, <2>2 DEF OwnKept
<1> QED
  BY <1>4, <1>5, <1>6 DEF KbInv

\* import-dbt merges dbt's docs.
LEMMA ImportDbtKeeps ==
    ASSUME KbInv, NEW models, NEW undocumented, ImportDbt(models, undocumented)
    PROVE  KbInv'
<1>1. /\ DOMAIN kb' = DOMAIN kb /\ kb' = [s \in DOMAIN kb' |-> kb'[s]] /\ own' = own
      /\ \A s \in DOMAIN kb : ImportedAs(s)
  BY ImportChanges DEF KbInv
<1>2. Shaped'
  BY <1>1 DEF KbInv, Shaped, ImportedAs, KbEntry
<1>3. UndatedWithout'
  BY <1>1, PersonIsNotNoText DEF KbInv, UndatedWithout, ImportedAs, KbEntry
<1>4. OwnKept'
  <2>1. own' \subseteq DOMAIN kb'
    BY <1>1 DEF KbInv, OwnKept
  <2>2. ASSUME NEW s \in own', Alone(s) PROVE kb'[s] = kb[s] /\ s \in own
    BY <1>1, <2>2, PersonIsNotNoText DEF KbInv, OwnKept, ImportedAs
  <2> QED
    BY <2>1, <2>2 DEF KbInv, OwnKept
<1> QED
  BY <1>2, <1>3, <1>4 DEF KbInv

\* A person writes a description.
LEMMA AnnotateKeeps ==
    ASSUME KbInv, NEW s \in DOMAIN kb, NEW marked, Annotate(s, marked)
    PROVE  KbInv'
<1>1. /\ DOMAIN kb' = DOMAIN kb /\ kb' = [t \in DOMAIN kb' |-> kb'[t]]
      /\ own' = IF kb'[s].source \in Manual THEN own \cup {s} ELSE own
      /\ AnnotatedAs(s, marked)
  BY AnnotateChanges DEF KbInv, Annotate
<1>2. Shaped'
  <2>1. ASSUME NEW t \in DOMAIN kb
        PROVE  kb'[t] = KbEntry(kb'[t].text, kb'[t].source, kb'[t].stamp)
    BY <1>1 DEF KbInv, Shaped, AnnotatedAs, KbEntry
  <2> QED
    BY <1>1, <2>1 DEF KbInv, Shaped
<1>3. UndatedWithout'
  BY <1>1, PersonIsNotNoText DEF KbInv, UndatedWithout, AnnotatedAs, KbEntry
<1>4. OwnKept'
  <2>1. kb'[s].text = PersonText(s) /\ (kb'[s].source = "manual" \/ kb'[s].source = kb[s].source)
    BY <1>1 DEF AnnotatedAs, KbEntry
  <2>2. ASSUME NEW t \in own', Alone(t)
        PROVE  t \in DOMAIN kb' /\ kb'[t].text = PersonText(t) /\ kb'[t].source \in Manual
    <3>1. CASE t = s
      BY <1>1, <2>1, <2>2, <3>1 DEF KbInv, OwnKept, Manual
    <3>2. CASE t # s
      BY <1>1, <2>2, <3>2 DEF KbInv, OwnKept, AnnotatedAs
    <3> QED
      BY <3>1, <3>2
  <2>3. own' \subseteq DOMAIN kb'
    BY <1>1 DEF KbInv, OwnKept
  <2> QED
    BY <2>2, <2>3 DEF OwnKept
<1> QED
  BY <1>2, <1>3, <1>4 DEF KbInv

\* All of it holds after every export, import and annotation.
THEOREM KbInvariant == KbSpec => []KbInv
<1>1. KbInit => KbInv
  BY KbStart
<1>2. KbInv /\ [KbNext]_kbVars => KbInv'
  <2>1. ASSUME KbInv, UNCHANGED kbVars PROVE KbInv'
    BY <2>1 DEF kbVars, KbInv, Shaped, OwnKept, UndatedWithout
  <2> QED
    BY <2>1, ExportKbKeeps, ImportDbtKeeps, AnnotateKeeps DEF KbNext
<1> QED
  BY <1>1, <1>2, PTL DEF KbSpec

\* What a person wrote and the file records as theirs is what the file says, through any
\* exports, imports and further edits, wherever its table's name is its own.
THEOREM HumanTextStays == KbSpec => []HumanTextKept
<1>1. KbInv => HumanTextKept
  BY DEF KbInv, OwnKept, HumanTextKept, PersonText
<1> QED
  BY <1>1, KbInvariant, PTL

\* A run that leaves a description as it was leaves its date.
THEOREM DatesMoveWithText == KbSpec => OnlyChangeMovesDate
<1>1. ASSUME KbInv, KbNext, NEW s \in DOMAIN kb \cap DOMAIN kb', Alone(s),
             kb'[s].text = kb[s].text
      PROVE  kb'[s].stamp = kb[s].stamp
  <2>1. ASSUME NEW tables, NEW comments, NEW described, ExportKb(tables, comments, described)
        PROVE  kb'[s].stamp = kb[s].stamp
    <3> DEFINE d == ResolveDescription(Existing(s), FreshDescription(s, comments, described))
    <3>1. kb'[s] = Generated(s, FreshDescription(s, comments, described))
      BY <2>1 DEF ExportKb
    <3>2. kb'[s].text = d.text /\ kb'[s].stamp = Stamped(d.text, Dated(s))
      BY <3>1 DEF Generated
    <3>3. Dated(s) = kb[s]
      BY <1>1, DatedOfAlone DEF KbInv
    <3> HIDE DEF d
    <3> QED
      BY <1>1, <3>2, <3>3 DEF Stamped, KbInv, UndatedWithout
  <2>2. ASSUME NEW models, NEW undocumented, ImportDbt(models, undocumented)
        PROVE  kb'[s].stamp = kb[s].stamp
    <3>1. ImportedAs(s)
      BY <1>1, <2>2, ImportChanges DEF KbInv
    <3> QED
      BY <3>1 DEF ImportedAs, KbEntry
  <2>3. ASSUME NEW t \in DOMAIN kb, NEW marked, Annotate(t, marked)
        PROVE  kb'[s].stamp = kb[s].stamp
    <3>1. AnnotatedAs(t, marked)
      BY <1>1, <2>3, AnnotateChanges DEF KbInv
    <3> QED
      BY <3>1 DEF AnnotatedAs, KbEntry
  <2> QED
    BY <1>1, <2>1, <2>2, <2>3 DEF KbNext
<1> DEFINE DateMoves == \A s \in DOMAIN kb \cap DOMAIN kb' :
                       Alone(s) /\ kb'[s].text = kb[s].text => kb'[s].stamp = kb[s].stamp
<1>2. KbInv /\ [KbNext]_kbVars => [DateMoves]_kbVars
  BY <1>1
<1> QED
  BY <1>2, KbInvariant, PTL DEF KbSpec, OnlyChangeMovesDate

\* The file holds descriptions, and the clock keeps to its bound.
KbHolds ==
    /\ \A s \in DOMAIN kb : kb[s] \in Description
    /\ runs \in 0 .. Runs
    /\ own \subseteq KbSlots

\* A description is its three fields.
LEMMA EntryFits ==
    ASSUME NEW t \in Text \cup {NoText}, NEW source \in Sources, NEW stamp \in 0 .. Runs
    PROVE  KbEntry(t, source, stamp) \in Description
BY DEF KbEntry, Description

\* A description's fields are of their kinds.
LEMMA FieldsFit ==
    ASSUME NEW d \in Description
    PROVE  d.text \in Text \cup {NoText} /\ d.source \in Sources /\ d.stamp \in 0 .. Runs
BY DEF Description

\* A run moves the clock by a day, and none is begun past the bound.
LEMMA ClockFits == KbHolds /\ NextDay => runs' \in 0 .. Runs
<1>1. KbHolds /\ NextDay =>
        runs' = runs + 1 /\ runs < Runs /\ runs \in Nat /\ Runs \in Nat
  BY SchemasAssumption DEF NextDay, KbHolds
<1> QED
  BY <1>1

\* Of some slots one is of the schema listed last.
LEMMA LatestIsThere ==
    ASSUME NEW slots \in SUBSET KbSlots, slots # {}
    PROVE  LatestOf(slots) \in slots
<1>1. \A s \in KbSlots : SourceRank(s) \in 1 .. Len(Schemas)
  BY SlotsAssumption, SchemasAssumption DEF SourceRank
<1>2. Len(Schemas) \in Nat
  BY SchemasAssumption
<1> DEFINE T == {Len(Schemas) - SourceRank(s) : s \in slots}
<1>3. T \in SUBSET Nat /\ T # {}
  <2>1. \A s \in slots : Len(Schemas) - SourceRank(s) \in Nat
    <3> SUFFICES ASSUME NEW s \in slots PROVE Len(Schemas) - SourceRank(s) \in Nat
      OBVIOUS
    <3>1. SourceRank(s) \in 1 .. Len(Schemas)
      BY <1>1
    <3> QED
      BY ONLY <3>1, <1>2
  <2> QED
    BY <2>1
<1>4. PICK m \in T : \A y \in T : m <= y
  <2> HIDE DEF T
  <2> QED
    BY <1>3, Least
<1>5. PICK s \in slots : m = Len(Schemas) - SourceRank(s)
  BY <1>4
<1>6. \A t \in slots : SourceRank(t) <= SourceRank(s)
  <2> SUFFICES ASSUME NEW t \in slots PROVE SourceRank(t) <= SourceRank(s)
    OBVIOUS
  <2>1. Len(Schemas) - SourceRank(s) <= Len(Schemas) - SourceRank(t)
    BY <1>4, <1>5
  <2>2. SourceRank(t) \in 1 .. Len(Schemas) /\ SourceRank(s) \in 1 .. Len(Schemas)
    BY <1>1
  <2> QED
    BY ONLY <2>1, <2>2, <1>2
<1> QED
  BY <1>6 DEF LatestOf

\* What export-kb reads of the file it replaces are descriptions.
LEMMA ReadsDescriptions ==
    ASSUME Shaped, KbHolds, NEW s
    PROVE  Existing(s) \in Description /\ Dated(s) \in Description
<1>1. Blank \in Description
  BY SchemasAssumption DEF Blank, Description, Sources
<1>2. Existing(s) \in Description
  BY <1>1 DEF Existing, KbHolds
<1>3. Dated(s) \in Description
  <2> DEFINE same == {t \in SameName(s) : t.column = s.column}
  <2>1. same \in SUBSET KbSlots /\ same \subseteq DOMAIN kb
    BY DEF SameName, Shaped
  <2>2. Dated(s) = IF same = {} THEN Blank ELSE kb[LatestOf(same)]
    BY DEF Dated
  <2> HIDE DEF same
  <2>3. CASE same = {}
    BY <1>1, <2>2, <2>3
  <2>4. CASE same # {}
    BY <2>1, <2>2, <2>4, LatestIsThere DEF KbHolds
  <2> QED
    BY <2>3, <2>4
<1> QED
  BY <1>2, <1>3

\* export-kb writes descriptions.
LEMMA ExportKbFits ==
    ASSUME Shaped, KbHolds, NEW tables, NEW comments, NEW described,
           ExportKb(tables, comments, described)
    PROVE  KbHolds'
<1> DEFINE held == {s \in KbSlots : Relation(s) \in tables}
<1> DEFINE Fresh(s) == FreshDescription(s, comments, described)
<1>1. /\ kb' = [s \in held |-> Generated(s, Fresh(s))]
      /\ own' = own \cap held /\ NextDay
  BY DEF ExportKb
<1>2. held \subseteq KbSlots
  OBVIOUS
<1>3. \A s \in held : Fresh(s).text \in Text \cup {NoText} /\ Fresh(s).source \in Sources
  BY <1>2 DEF FreshDescription, Text, Authors, Sources
<1> HIDE DEF held, Fresh
<1>4. runs' \in 0 .. Runs
  BY <1>1, ClockFits
<1>5. ASSUME NEW s \in held PROVE Generated(s, Fresh(s)) \in Description
  <2>1. Existing(s) \in Description /\ Dated(s) \in Description
    BY ReadsDescriptions
  <2>2. PICK old \in Description : old = Existing(s)
    BY <2>1
  <2>3. /\ ResolveDescription(old, Fresh(s)).text \in Text \cup {NoText}
        /\ ResolveDescription(old, Fresh(s)).source \in Sources
    BY <1>3, FieldsFit DEF ResolveDescription, Sources
  <2>4. \A t : Stamped(t, Dated(s)) \in 0 .. Runs
    BY <1>4, <2>1, FieldsFit, SchemasAssumption DEF Stamped
  <2>5. Generated(s, Fresh(s)) =
            KbEntry(ResolveDescription(old, Fresh(s)).text, ResolveDescription(old, Fresh(s)).source,
                    Stamped(ResolveDescription(old, Fresh(s)).text, Dated(s)))
    BY <2>2 DEF Generated, KbEntry
  <2> QED
    BY <2>3, <2>4, <2>5, EntryFits
<1> QED
  BY <1>1, <1>2, <1>4, <1>5 DEF KbHolds

\* import-dbt writes descriptions.
LEMMA ImportDbtFits ==
    ASSUME Shaped, KbHolds, NEW models, NEW undocumented, ImportDbt(models, undocumented)
    PROVE  KbHolds'
<1> DEFINE source(s) == {d \in KbSlots : /\ Relation(d) \in DbtDoc(Relation(s), models)
                                        /\ d.column = s.column /\ d \notin undocumented}
           takes(s) == source(s) # {} /\ ~ (kb[s].text # NoText /\ kb[s].source \in Manual)
<1>1. /\ own' = own /\ NextDay
      /\ kb' = [s \in DOMAIN kb |->
                  IF takes(s)
                  THEN [kb[s] EXCEPT !.text = [by |-> "dbt", of |-> CHOOSE d \in source(s) : TRUE],
                                     !.source = "dbt"]
                  ELSE kb[s]]
  BY DEF ImportDbt
<1>2. \A s : source(s) \subseteq KbSlots /\ (takes(s) => source(s) # {})
  OBVIOUS
<1> HIDE DEF takes, source
<1>3. runs' \in 0 .. Runs
  BY <1>1, ClockFits
<1>4. ASSUME NEW s \in DOMAIN kb PROVE kb'[s] \in Description
  <2>1. CASE ~ takes(s)
    BY <1>1, <2>1 DEF KbHolds
  <2>2. CASE takes(s)
    <3>1. PICK d \in KbSlots : d = CHOOSE e \in source(s) : TRUE
      BY <1>2, <2>2
    <3>2. kb'[s] = [kb[s] EXCEPT !.text = DbtText(d), !.source = "dbt"]
      BY <1>1, <2>2, <3>1 DEF DbtText
    <3>3. kb[s] = KbEntry(kb[s].text, kb[s].source, kb[s].stamp)
      BY DEF Shaped
    <3>4. kb'[s] = KbEntry(DbtText(d), "dbt", kb[s].stamp)
      BY <3>2, <3>3 DEF KbEntry
    <3>5. DbtText(d) \in Text /\ "dbt" \in Sources /\ kb[s].stamp \in 0 .. Runs
      BY FieldsFit DEF DbtText, Text, Authors, Sources, KbHolds
    <3> QED
      BY <3>4, <3>5, EntryFits
  <2> QED
    BY <2>1, <2>2
<1> QED
  BY <1>1, <1>3, <1>4 DEF KbHolds

\* A person writes a description.
LEMMA AnnotateFits ==
    ASSUME Shaped, KbHolds, NEW s \in DOMAIN kb, NEW marked, Annotate(s, marked)
    PROVE  KbHolds'
<1>1. DOMAIN kb' = DOMAIN kb /\ AnnotatedAs(s, marked)
  BY AnnotateChanges
<1>2. s \in KbSlots /\ own' \in {own, own \cup {s}} /\ NextDay
  BY DEF Annotate, Shaped
<1>3. runs' \in 0 .. Runs
  BY <1>2, ClockFits
<1>4. kb'[s] \in Description
  <2>1. PersonText(s) \in Text
    BY <1>2 DEF PersonText, Text, Authors
  <2>2. kb[s].source \in Sources /\ kb[s].stamp \in 0 .. Runs /\ "manual" \in Sources
    BY FieldsFit DEF KbHolds, Sources
  <2> QED
    BY <1>1, <2>1, <2>2, EntryFits DEF AnnotatedAs
<1>5. \A t \in DOMAIN kb' : kb'[t] \in Description
  BY <1>1, <1>4 DEF AnnotatedAs, KbHolds
<1> QED
  BY <1>2, <1>3, <1>5 DEF KbHolds

\* Through any exports, imports and annotations the file holds descriptions of slots, each
\* with a known source and a date that has been.
THEOREM KbTypeCorrect == KbSpec => []KbTypeOK
<1>1. KbInit => KbHolds
  <2> SUFFICES ASSUME KbInit PROVE KbHolds
    OBVIOUS
  <2>1. PICK held \in {{}, KbSlots} : kb \in {[s \in held |-> Blank], [s \in held |-> Legacy(s)]}
    BY DEF KbInit
  <2>2. 0 \in 0 .. Runs /\ "" \in Sources
    BY SchemasAssumption DEF Sources
  <2>3. Blank \in Description
    BY <2>2 DEF Blank, Description
  <2>4. \A s \in KbSlots : Legacy(s) \in Description
    BY <2>2 DEF Legacy, Description, Text, Authors
  <2>5. DOMAIN kb = held /\ held \subseteq KbSlots
    BY <2>1
  <2>6. \A s \in DOMAIN kb : kb[s] \in Description
    BY <2>1, <2>3, <2>4, <2>5
  <2> QED
    BY <2>2, <2>5, <2>6 DEF KbInit, KbHolds
<1>2. KbInv /\ KbHolds /\ [KbNext]_kbVars => KbHolds'
  <2>1. ASSUME KbHolds, UNCHANGED kbVars PROVE KbHolds'
    BY <2>1 DEF kbVars, KbHolds
  <2> QED
    BY <2>1, ExportKbFits, ImportDbtFits, AnnotateFits DEF KbNext, KbInv
<1>3. KbInv /\ KbHolds => KbTypeOK
  <2> SUFFICES ASSUME KbInv, KbHolds PROVE KbTypeOK
    OBVIOUS
  <2>1. kb \in [DOMAIN kb -> Description] /\ DOMAIN kb \in SUBSET KbSlots
    BY DEF KbInv, Shaped, KbHolds
  <2> QED
    BY <2>1 DEF KbTypeOK, KbHolds
<1> QED
  BY <1>1, <1>2, <1>3, KbInvariant, PTL DEF KbSpec

----------------------------------------------------------------------------
(* AuditLog.                                                               *)

\* A write's share of a line.
LinePart == [by : AuditWriters, event : Nat, part : Nat]

\* What a step needs to know of the types.
LogFits ==
    /\ lines \in Seq(LinePart)
    /\ auditPc \in [AuditWriters -> {"idle", "opening", "writing"}]
    /\ sentParts \in [AuditWriters -> 0 .. LineParts]
    /\ events \in [AuditWriters -> 0 .. MaxEvents]
    /\ dropped \in [AuditWriters -> Nat] /\ toldLosses \in [AuditWriters -> Nat]
    /\ lossReported \in [AuditWriters -> BOOLEAN]

\* The file holds no event that was not published, nor the one a process has in hand
\* before its last part is written.
EventsAhead ==
    \A w \in AuditWriters :
        /\ \A e \in WholeOf(w) : e <= events[w]
        /\ auditPc[w] # "idle" => events[w] >= 1
        /\ auditPc[w] # "idle" /\ sentParts[w] < LineParts => events[w] \notin WholeOf(w)
        /\ auditPc[w] # "writing" => sentParts[w] = 0

\* The event a process has neither written nor lost.
InHand(w) == IF auditPc[w] # "idle" /\ sentParts[w] < LineParts THEN 1 ELSE 0

\* Every event is in the file, lost and counted, or in hand.
LossesCounted ==
    \A w \in AuditWriters :
        /\ events[w] = Cardinality(WholeOf(w)) + dropped[w] + toldLosses[w] + InHand(w)
        /\ dropped[w] > 0 <=> lossReported[w]

\* The inductive invariant.
AuditInv == LogFits /\ EventsAhead /\ LossesCounted

\* A process's whole lines are finitely many.
LEMMA CountsAreNumbers ==
    \A w \in AuditWriters : IsFiniteSet(WholeOf(w)) /\ Cardinality(WholeOf(w)) \in Nat
<1> SUFFICES ASSUME NEW w \in AuditWriters
             PROVE  IsFiniteSet(WholeOf(w)) /\ Cardinality(WholeOf(w)) \in Nat
  OBVIOUS
<1>1. IsFiniteSet(1 .. MaxEvents)
  BY LinesAssumption, FS_Interval
<1>2. WholeOf(w) \subseteq 1 .. MaxEvents
  BY DEF WholeOf
<1> QED
  BY <1>1, <1>2, FS_Subset, FS_CardinalityType

\* They stay while the file does.
LEMMA WholeStays == lines' = lines => \A w \in AuditWriters : WholeOf(w)' = WholeOf(w)
  BY DEF WholeOf

\* A write's parts of a line are parts of lines.
LEMMA PartsOfOne ==
    ASSUME NEW w \in AuditWriters, NEW n \in Nat, NEW sofar \in Nat, NEW event \in Nat
    PROVE  [i \in 1 .. n |-> [by |-> w, event |-> event, part |-> sofar + i]] \in Seq(LinePart)
<1>1. \A i \in 1 .. n : [by |-> w, event |-> event, part |-> sofar + i] \in LinePart
  BY DEF LinePart
<1> QED
  BY <1>1

\* What is in two sequences is what is in the one and in the other.
LEMMA SetOfBoth ==
    ASSUME NEW S, NEW s \in Seq(S), NEW t \in Seq(S)
    PROVE  ToSet(s \o t) = ToSet(s) \cup ToSet(t)
<1>2. /\ Len(s \o t) = Len(s) + Len(t) /\ DOMAIN (s \o t) = 1 .. Len(s) + Len(t)
      /\ \A i \in 1 .. Len(s) + Len(t) :
            (s \o t)[i] = IF i <= Len(s) THEN s[i] ELSE t[i - Len(s)]
  OBVIOUS
<1>3. DOMAIN s = 1 .. Len(s) /\ DOMAIN t = 1 .. Len(t) /\ Len(s) \in Nat /\ Len(t) \in Nat
  OBVIOUS
<1>4. ASSUME NEW i \in DOMAIN (s \o t) PROVE (s \o t)[i] \in ToSet(s) \cup ToSet(t)
  BY <1>2, <1>3 DEF ToSet
<1>5. ASSUME NEW i \in DOMAIN s PROVE s[i] \in ToSet(s \o t)
  BY <1>2, <1>3 DEF ToSet
<1>6. ASSUME NEW i \in DOMAIN t PROVE t[i] \in ToSet(s \o t)
  <2>1. Len(s) + i \in DOMAIN (s \o t) /\ (s \o t)[Len(s) + i] = t[i]
    BY <1>2, <1>3
  <2> QED
    BY <2>1 DEF ToSet
<1> QED
  BY <1>4, <1>5, <1>6 DEF ToSet

\* The last parts of lines in a file that grew are those that were there and the new one.
LEMMA WholeGrows ==
    ASSUME NEW w \in AuditWriters, NEW v \in AuditWriters, NEW n \in Nat, n >= 1,
           NEW sofar \in Nat, sofar + n <= LineParts, NEW event \in 1 .. MaxEvents,
           LineParts \in Nat, lines \in Seq(LinePart),
           lines' = lines \o [i \in 1 .. n |-> [by |-> w, event |-> event, part |-> sofar + i]]
    PROVE  WholeOf(v)' = IF v = w /\ sofar + n = LineParts
                         THEN WholeOf(v) \cup {event} ELSE WholeOf(v)
<1> DEFINE new == [i \in 1 .. n |-> [by |-> w, event |-> event, part |-> sofar + i]]
           last(e) == [by |-> v, event |-> e, part |-> LineParts]
<1>1. /\ DOMAIN new = 1 .. n /\ Len(new) = n
      /\ \A i \in 1 .. n : new[i] = [by |-> w, event |-> event, part |-> sofar + i]
  OBVIOUS
<1>2. new \in Seq(LinePart)
  <2>1. event \in Nat
    BY LinesAssumption
  <2>2. [i \in 1 .. n |-> [by |-> w, event |-> event, part |-> sofar + i]] \in Seq(LinePart)
    BY <2>1, PartsOfOne
  <2> QED
    BY <2>2
<1>0. lines' = lines \o new
  OBVIOUS
<1> HIDE DEF new
<1>3. ToSet(lines') = ToSet(lines) \cup ToSet(new)
  <2>1. ToSet(lines \o new) = ToSet(lines) \cup ToSet(new)
    BY <1>2, SetOfBoth
  <2> QED
    BY <1>0, <2>1
<1>4. ASSUME NEW e \in 1 .. MaxEvents
      PROVE  last(e) \in ToSet(new) <=> v = w /\ sofar + n = LineParts /\ e = event
  <2>1. ASSUME NEW i \in 1 .. n
        PROVE  new[i] = last(e) <=> v = w /\ sofar + i = LineParts /\ e = event
    BY <1>1
  <2>2. \A i \in 1 .. n : sofar + i = LineParts => i = n
    OBVIOUS
  <2>3. n \in 1 .. n
    OBVIOUS
  <2> HIDE DEF last
  <2> QED
    BY <1>1, <2>1, <2>2, <2>3 DEF ToSet
<1> QED
  BY <1>3, <1>4 DEF WholeOf

\* An empty file, and nothing published.
LEMMA AuditStart == AuditInit => AuditInv
<1> SUFFICES ASSUME AuditInit PROVE AuditInv
  OBVIOUS
<1>1. LogFits
  BY LinesAssumption DEF AuditInit, LogFits
<1>2. \A w \in AuditWriters : WholeOf(w) = {}
  BY DEF AuditInit, WholeOf, ToSet
<1>3. EventsAhead
  BY <1>2 DEF AuditInit, EventsAhead
<1>4. LossesCounted
  BY <1>2, FS_EmptySet DEF AuditInit, LossesCounted, InHand
<1> QED
  BY <1>1, <1>3, <1>4 DEF AuditInv

\* An event in hand is counted lost.
LEMMA LossKeeps ==
    ASSUME AuditInv, NEW w \in AuditWriters, Report(w),
           auditPc[w] # "idle", sentParts[w] < LineParts
    PROVE  AuditInv'
<1>1. /\ auditPc'[w] = "idle" /\ sentParts'[w] = 0 /\ dropped'[w] = dropped[w] + 1
      /\ lossReported'[w] = TRUE
      /\ auditPc' \in [AuditWriters -> {"idle", "opening", "writing"}]
      /\ \A v \in AuditWriters : v # w => /\ auditPc'[v] = auditPc[v] /\ dropped'[v] = dropped[v]
                                          /\ sentParts'[v] = sentParts[v]
                                          /\ lossReported'[v] = lossReported[v]
      /\ lines' = lines /\ events' = events /\ toldLosses' = toldLosses
  BY DEF AuditInv, LogFits, Report, Lost, auditFile
<1>2. LogFits'
  BY <1>1, LinesAssumption DEF AuditInv, LogFits, Report, Lost
<1>3. \A v \in AuditWriters : WholeOf(v)' = WholeOf(v)
  BY <1>1, WholeStays
<1>4. EventsAhead'
  BY <1>1, <1>3 DEF AuditInv, EventsAhead
<1>5. LossesCounted'
  <2> SUFFICES ASSUME NEW v \in AuditWriters
               PROVE  /\ events'[v] = Cardinality(WholeOf(v)') + dropped'[v] + toldLosses'[v] + InHand(v)'
                      /\ dropped'[v] > 0 <=> lossReported'[v]
    BY DEF LossesCounted
  <2>1. CASE v = w
    <3>1. InHand(v) = 1 /\ InHand(v)' = 0 /\ dropped[v] \in Nat
      BY <1>1, <2>1 DEF InHand, AuditInv, LogFits
    <3> QED
      BY <1>1, <1>3, <2>1, <3>1, CountsAreNumbers DEF AuditInv, LossesCounted, LogFits
  <2>2. CASE v # w
    BY <1>1, <1>3, <2>2 DEF AuditInv, LossesCounted, InHand
  <2> QED
    BY <2>1, <2>2
<1> QED
  BY <1>2, <1>4, <1>5 DEF AuditInv

\* The disk fills or is freed.
LEMMA DiskChangesKeeps ==
    ASSUME AuditInv, DiskChanges
    PROVE  AuditInv'
<1>1. LogFits'
  BY LinesAssumption DEF AuditInv, LogFits, DiskChanges, auditFile, Report, Lost
<1>2. EventsAhead'
  BY LinesAssumption, WholeStays, CountsAreNumbers DEF AuditInv, EventsAhead,
         DiskChanges, auditFile, Report, Lost, LogFits
<1>3. LossesCounted'
  BY LinesAssumption, WholeStays, CountsAreNumbers DEF AuditInv, LossesCounted,
         DiskChanges, auditFile, Report, Lost, LogFits, EventsAhead, InHand
<1> QED
  BY <1>1, <1>2, <1>3 DEF AuditInv

\* The file changes hands.
LEMMA FileChangesKeeps ==
    ASSUME AuditInv, FileChanges
    PROVE  AuditInv'
<1>1. LogFits'
  BY LinesAssumption DEF AuditInv, LogFits, FileChanges, auditFile, Report, Lost
<1>2. EventsAhead'
  BY LinesAssumption, WholeStays, CountsAreNumbers DEF AuditInv, EventsAhead,
         FileChanges, auditFile, Report, Lost, LogFits
<1>3. LossesCounted'
  BY LinesAssumption, WholeStays, CountsAreNumbers DEF AuditInv, LossesCounted,
         FileChanges, auditFile, Report, Lost, LogFits, EventsAhead, InHand
<1> QED
  BY <1>1, <1>2, <1>3 DEF AuditInv

\* An event is published.
LEMMA PublishEventKeeps ==
    ASSUME AuditInv, NEW w \in AuditWriters, PublishEvent(w)
    PROVE  AuditInv'
<1>1. /\ events'[w] = events[w] + 1 /\ auditPc'[w] = "opening" /\ auditPc[w] = "idle"
      /\ \A v \in AuditWriters : v # w => events'[v] = events[v] /\ auditPc'[v] = auditPc[v]
      /\ lines' = lines /\ sentParts' = sentParts /\ dropped' = dropped
      /\ lossReported' = lossReported /\ toldLosses' = toldLosses
  BY DEF AuditInv, LogFits, PublishEvent, auditFile
<1>2. /\ sentParts[w] = 0 /\ 0 < LineParts /\ events[w] \in Nat /\ events[w] < MaxEvents
      /\ \A v \in AuditWriters : WholeOf(v) \subseteq Int
  <2>1. sentParts[w] = 0
    BY <1>1 DEF AuditInv, EventsAhead
  <2>2. 0 < LineParts /\ events[w] \in Nat /\ events[w] < MaxEvents
    BY LinesAssumption DEF PublishEvent, AuditInv, LogFits
  <2>3. \A v \in AuditWriters : WholeOf(v) \subseteq Int
    BY DEF WholeOf
  <2> QED
    BY <2>1, <2>2, <2>3
<1>3. LogFits'
  BY LinesAssumption DEF AuditInv, LogFits, PublishEvent, auditFile, Report, Lost
<1>4. EventsAhead'
  <2> SUFFICES ASSUME NEW v \in AuditWriters
               PROVE  /\ \A e \in WholeOf(v)' : e <= events'[v]
                      /\ auditPc'[v] # "idle" => events'[v] >= 1
                      /\ auditPc'[v] # "idle" /\ sentParts'[v] < LineParts => events'[v] \notin WholeOf(v)'
                      /\ auditPc'[v] # "writing" => sentParts'[v] = 0
    BY DEF EventsAhead
  <2>1. WholeOf(v)' = WholeOf(v)
    BY <1>1, WholeStays
  <2>2. CASE v = w
    BY <1>1, <1>2, <2>1, <2>2 DEF AuditInv, EventsAhead
  <2>3. CASE v # w
    BY <1>1, <2>1, <2>3 DEF AuditInv, EventsAhead
  <2> QED
    BY <2>2, <2>3
<1>5. LossesCounted'
  <2> SUFFICES ASSUME NEW v \in AuditWriters
               PROVE  /\ events'[v] = Cardinality(WholeOf(v)') + dropped'[v] + toldLosses'[v] + InHand(v)'
                      /\ dropped'[v] > 0 <=> lossReported'[v]
    BY DEF LossesCounted
  <2>1. WholeOf(v)' = WholeOf(v) /\ Cardinality(WholeOf(v)) \in Nat
    BY <1>1, WholeStays, CountsAreNumbers
  <2>2. CASE v = w
    <3>1. InHand(v) = 0 /\ InHand(v)' = 1
      BY <1>1, <1>2, <2>2 DEF InHand
    <3> QED
      BY <1>1, <1>2, <2>1, <2>2, <3>1 DEF AuditInv, LossesCounted, LogFits
  <2>3. CASE v # w
    BY <1>1, <2>1, <2>3 DEF AuditInv, LossesCounted, InHand
  <2> QED
    BY <2>2, <2>3
<1> QED
  BY <1>3, <1>4, <1>5 DEF AuditInv

\* The file is opened, or refused.
LEMMA OpenKeeps ==
    ASSUME AuditInv, NEW w \in AuditWriters, Open(w)
    PROVE  AuditInv'
<1>1. CASE fit
  <2>1. /\ auditPc'[w] = "writing" /\ auditPc[w] = "opening"
        /\ auditPc' \in [AuditWriters -> {"idle", "opening", "writing"}]
        /\ \A v \in AuditWriters : v # w => auditPc'[v] = auditPc[v]
        /\ lines' = lines /\ sentParts' = sentParts /\ dropped' = dropped /\ events' = events
        /\ lossReported' = lossReported /\ toldLosses' = toldLosses
    BY <1>1 DEF AuditInv, LogFits, Open, auditFile
  <2>2. \A v \in AuditWriters : WholeOf(v)' = WholeOf(v) /\ InHand(v)' = InHand(v)
    BY <2>1, WholeStays DEF InHand
  <2>3. LogFits'
    BY <2>1 DEF AuditInv, LogFits
  <2>4. EventsAhead'
    BY <2>1, <2>2 DEF AuditInv, EventsAhead
  <2>5. LossesCounted'
    BY <2>1, <2>2 DEF AuditInv, LossesCounted
  <2> QED
    BY <2>3, <2>4, <2>5 DEF AuditInv
<1>2. CASE ~ fit
  <2>1. Report(w) /\ auditPc[w] = "opening"
    BY <1>2 DEF Open
  <2>2. sentParts[w] < LineParts
    BY <2>1, LinesAssumption DEF AuditInv, EventsAhead
  <2> QED
    BY <2>1, <2>2, LossKeeps
<1> QED
  BY <1>1, <1>2

\* Parts of a line are written.
LEMMA WriteSomeKeeps ==
    ASSUME AuditInv, NEW w \in AuditWriters, WriteSome(w)
    PROVE  AuditInv'
<1> PICK n \in 1 .. LineParts - sentParts[w] :
          /\ sentParts' = [sentParts EXCEPT ![w] = @ + n]
          /\ lines' = lines \o [i \in 1 .. n |->
                          [by |-> w, event |-> events[w], part |-> sentParts[w] + i]]
  BY DEF WriteSome
<1>1. /\ auditPc[w] = "writing" /\ sentParts[w] < LineParts
      /\ auditPc' = auditPc /\ events' = events /\ dropped' = dropped
      /\ lossReported' = lossReported /\ toldLosses' = toldLosses
  BY DEF WriteSome
<1>2. sentParts[w] \in Nat /\ n \in Nat /\ n >= 1 /\ sentParts[w] + n <= LineParts /\ LineParts \in Nat
  BY LinesAssumption DEF AuditInv, LogFits
<1>3. lines' \in Seq(LinePart)
  <2>1. events[w] \in Nat
    BY LinesAssumption DEF AuditInv, LogFits
  <2>2. [i \in 1 .. n |-> [by |-> w, event |-> events[w], part |-> sentParts[w] + i]] \in Seq(LinePart)
    BY <1>2, <2>1, PartsOfOne
  <2> QED
    BY <2>2 DEF AuditInv, LogFits
<1>4. sentParts' \in [AuditWriters -> 0 .. LineParts]
  BY <1>2 DEF AuditInv, LogFits
<1>5. LogFits'
  BY <1>1, <1>2, <1>3, <1>4 DEF AuditInv, LogFits
<1>6. /\ sentParts'[w] = sentParts[w] + n
      /\ \A v \in AuditWriters : v # w => sentParts'[v] = sentParts[v]
  BY DEF AuditInv, LogFits
<1>7. ASSUME NEW v \in AuditWriters
      PROVE  WholeOf(v)' = IF v = w /\ sentParts[w] + n = LineParts
                           THEN WholeOf(v) \cup {events[w]} ELSE WholeOf(v)
  <2>1. events[w] \in 1 .. MaxEvents
    BY <1>1, LinesAssumption DEF AuditInv, LogFits, EventsAhead
  <2> QED
    BY <1>2, <2>1, WholeGrows DEF AuditInv, LogFits
<1>8. EventsAhead'
  BY <1>1, <1>2, <1>6, <1>7 DEF AuditInv, EventsAhead, LogFits
<1>9. LossesCounted'
  <2> SUFFICES ASSUME NEW v \in AuditWriters
               PROVE  /\ events'[v] = Cardinality(WholeOf(v)') + dropped'[v] + toldLosses'[v] + InHand(v)'
                      /\ dropped'[v] > 0 <=> lossReported'[v]
    BY DEF LossesCounted
  <2>1. CASE v = w /\ sentParts[w] + n = LineParts
    <3>1. Cardinality(WholeOf(v)') = Cardinality(WholeOf(v)) + 1
      BY <1>1, <1>7, <2>1, CountsAreNumbers, FS_AddElement DEF AuditInv, EventsAhead
    <3>2. InHand(v) = 1 /\ InHand(v)' = 0
      BY <1>1, <1>2, <1>6, <2>1 DEF InHand
    <3>3. /\ events[v] = Cardinality(WholeOf(v)) + dropped[v] + toldLosses[v] + InHand(v)
          /\ dropped[v] > 0 <=> lossReported[v]
      BY DEF AuditInv, LossesCounted
    <3>4. Cardinality(WholeOf(v)) \in Nat /\ dropped[v] \in Nat /\ toldLosses[v] \in Nat
      BY CountsAreNumbers DEF AuditInv, LogFits
    <3>5. /\ events'[v] = events[v] /\ dropped'[v] = dropped[v] /\ toldLosses'[v] = toldLosses[v]
          /\ lossReported'[v] = lossReported[v]
      BY <1>1
    <3> QED
      BY ONLY <3>1, <3>2, <3>3, <3>4, <3>5
  <2>2. CASE ~ (v = w /\ sentParts[w] + n = LineParts)
    <3>1. WholeOf(v)' = WholeOf(v)
      BY <1>7, <2>2
    <3>2. InHand(v)' = InHand(v)
      <4>1. CASE v = w
        <5>1. sentParts[w] + n < LineParts
          BY ONLY <1>2, <2>2, <4>1
        <5> QED
          BY <1>1, <1>6, <4>1, <5>1 DEF InHand
      <4>2. CASE v # w
        BY <1>1, <1>6, <4>2 DEF InHand
      <4> QED
        BY <4>1, <4>2
    <3>3. /\ events'[v] = events[v] /\ dropped'[v] = dropped[v] /\ toldLosses'[v] = toldLosses[v]
          /\ lossReported'[v] = lossReported[v]
      BY <1>1
    <3> QED
      BY <3>1, <3>2, <3>3 DEF AuditInv, LossesCounted
  <2> QED
    BY <2>1, <2>2
<1> QED
  BY <1>5, <1>8, <1>9 DEF AuditInv

\* There is no room.
LEMMA WriteFailsKeeps ==
    ASSUME AuditInv, NEW w \in AuditWriters, WriteFails(w)
    PROVE  AuditInv'
<1>1. Report(w) /\ auditPc[w] = "writing" /\ sentParts[w] < LineParts
  BY DEF WriteFails
<1> QED
  BY <1>1, LossKeeps

\* The line is written.
LEMMA WrittenAgainKeeps ==
    ASSUME AuditInv, NEW w \in AuditWriters, WrittenAgain(w)
    PROVE  AuditInv'
<1>1. LogFits'
  BY LinesAssumption DEF AuditInv, LogFits, WrittenAgain, auditFile, Report, Lost
<1>2. EventsAhead'
  BY LinesAssumption, WholeStays, CountsAreNumbers DEF AuditInv, EventsAhead,
         WrittenAgain, auditFile, Report, Lost, LogFits
<1>3. LossesCounted'
  <2> SUFFICES ASSUME NEW v \in AuditWriters
               PROVE  /\ events'[v] = Cardinality(WholeOf(v)') + dropped'[v] + toldLosses'[v]
                                        + InHand(v)'
                      /\ dropped'[v] > 0 <=> lossReported'[v]
    BY DEF LossesCounted
  <2>1. /\ events'[v] = events[v] /\ Cardinality(WholeOf(v)') = Cardinality(WholeOf(v))
        /\ Cardinality(WholeOf(v)) \in Nat /\ dropped[v] \in Nat /\ toldLosses[v] \in Nat
    BY WholeStays, CountsAreNumbers DEF AuditInv, LogFits, WrittenAgain, auditFile
  <2>2. /\ events[v] = Cardinality(WholeOf(v)) + dropped[v] + toldLosses[v] + InHand(v)
        /\ dropped[v] > 0 <=> lossReported[v]
    BY DEF AuditInv, LossesCounted
  <2>3. CASE v = w
    <3>1. /\ dropped'[v] = 0 /\ lossReported'[v] = FALSE
          /\ toldLosses'[v] = toldLosses[v] + dropped[v]
      BY <2>3 DEF AuditInv, LogFits, WrittenAgain
    <3>2. InHand(v) = 0 /\ InHand(v)' = 0
      BY <2>3, LinesAssumption DEF AuditInv, LogFits, WrittenAgain, InHand
    <3> QED
      BY <2>1, <2>2, <3>1, <3>2
  <2>4. CASE v # w
    <3>1. /\ dropped'[v] = dropped[v] /\ lossReported'[v] = lossReported[v]
          /\ toldLosses'[v] = toldLosses[v]
      BY <2>4 DEF AuditInv, LogFits, WrittenAgain
    <3>2. InHand(v)' = InHand(v)
      BY <2>4 DEF AuditInv, LogFits, WrittenAgain, InHand
    <3> QED
      BY <2>1, <2>2, <3>1, <3>2
  <2> QED
    BY <2>3, <2>4
<1> QED
  BY <1>1, <1>2, <1>3 DEF AuditInv

\* All of it holds at every step of the processes and the disk.
THEOREM AuditInvariant == AuditSpec => []AuditInv
<1>1. AuditInit => AuditInv
  BY AuditStart
<1>2. AuditInv /\ [AuditNext]_auditVars => AuditInv'
  <2>1. ASSUME AuditInv, UNCHANGED auditVars PROVE AuditInv'
    BY <2>1, WholeStays
    DEF auditVars, AuditInv, LogFits, EventsAhead, LossesCounted, InHand
  <2> QED
    BY <2>1, DiskChangesKeeps, FileChangesKeeps, PublishEventKeeps, OpenKeeps,
       WriteSomeKeeps, WriteFailsKeeps, WrittenAgainKeeps
    DEF AuditNext
<1> QED
  BY <1>1, <1>2, PTL DEF AuditSpec

\* Every event a process published is in the file, or the process has counted it lost, to
\* be said or said already; and a process that has losses has reported the file.
THEOREM LossesAreKnown == AuditSpec => []LossesKnown
<1>1. AuditInv => LossesKnown
  BY CountsAreNumbers DEF AuditInv, LogFits, LossesCounted, LossesKnown, InHand
<1> QED
  BY <1>1, AuditInvariant, PTL

\* A process counts no more events as lost than it published.
CountsFit ==
    /\ events \in [AuditWriters -> 0 .. MaxEvents]
    /\ dropped \in [AuditWriters -> 0 .. MaxEvents]
    /\ toldLosses \in [AuditWriters -> 0 .. MaxEvents]

\* The losses of a process are among its events.
LEMMA LossesFit == AuditInv => CountsFit
<1> SUFFICES ASSUME AuditInv PROVE CountsFit
  OBVIOUS
<1>1. ASSUME NEW w \in AuditWriters
      PROVE  dropped[w] \in 0 .. MaxEvents /\ toldLosses[w] \in 0 .. MaxEvents
  <2>1. events[w] = Cardinality(WholeOf(w)) + dropped[w] + toldLosses[w] + InHand(w)
    BY DEF AuditInv, LossesCounted
  <2>2. /\ Cardinality(WholeOf(w)) \in Nat /\ InHand(w) \in {0, 1}
        /\ dropped[w] \in Nat /\ toldLosses[w] \in Nat /\ events[w] \in 0 .. MaxEvents
        /\ MaxEvents \in Nat
    BY CountsAreNumbers, LinesAssumption DEF AuditInv, LogFits, InHand
  <2> QED
    BY ONLY <2>1, <2>2
<1> QED
  BY <1>1 DEF AuditInv, LogFits, CountsFit

\* A part of a line, as the file holds it.
Part == [by : AuditWriters, event : 1 .. MaxEvents, part : 1 .. LineParts]

\* What a write adds are parts of a line.
LEMMA WrittenAreParts ==
    ASSUME AuditInv, lines \in Seq(Part), NEW w \in AuditWriters, WriteSome(w)
    PROVE  lines' \in Seq(Part)
<1>1. PICK n \in 1 .. LineParts - sentParts[w] :
          lines' = lines \o [i \in 1 .. n |->
                          [by |-> w, event |-> events[w], part |-> sentParts[w] + i]]
  BY DEF WriteSome
<1>2. events[w] \in 1 .. MaxEvents
  BY LinesAssumption DEF WriteSome, AuditInv, LogFits, EventsAhead
<1>3. sentParts[w] \in Nat /\ LineParts \in Nat
  BY LinesAssumption DEF AuditInv, LogFits
<1>4. \A i \in 1 .. n : sentParts[w] + i \in 1 .. LineParts
  BY ONLY <1>3, n \in 1 .. LineParts - sentParts[w]
<1>5. [i \in 1 .. n |-> [by |-> w, event |-> events[w], part |-> sentParts[w] + i]] \in Seq(Part)
  <2>1. \A i \in 1 .. n : [by |-> w, event |-> events[w], part |-> sentParts[w] + i] \in Part
    BY <1>2, <1>4 DEF Part
  <2>2. n \in Nat
    BY <1>3
  <2> QED
    BY <2>1, <2>2
<1> QED
  BY <1>1, <1>5

\* A step of a process or of the disk leaves the file parts of lines, and the counts within
\* the events.
LEMMA AuditTypeKeeps ==
    AuditInv /\ AuditInv' /\ CountsFit' /\ AuditTypeOK /\ [AuditNext]_auditVars => AuditTypeOK'
<1> SUFFICES ASSUME AuditInv, AuditInv', CountsFit', AuditTypeOK, [AuditNext]_auditVars PROVE AuditTypeOK'
  OBVIOUS
<1>1. /\ events' \in [AuditWriters -> 0 .. MaxEvents]
      /\ dropped' \in [AuditWriters -> 0 .. MaxEvents]
      /\ toldLosses' \in [AuditWriters -> 0 .. MaxEvents]
  BY DEF CountsFit
<1>2. /\ auditPc' \in [AuditWriters -> {"idle", "opening", "writing"}]
      /\ sentParts' \in [AuditWriters -> 0 .. LineParts]
      /\ lossReported' \in [AuditWriters -> BOOLEAN]
  BY DEF AuditInv, LogFits
<1>3. disk' \in BOOLEAN /\ fit' \in BOOLEAN
  BY DEF AuditNext, AuditTypeOK, auditVars, auditFile, DiskChanges, FileChanges, PublishEvent, Open,
         WriteSome, WriteFails, WrittenAgain, Report
<1>4. lines' \in Seq(Part)
  <2>0. lines \in Seq(Part)
    BY DEF AuditTypeOK, Part
  <2>1. lines' = lines \/ \E w \in AuditWriters : WriteSome(w)
    BY DEF AuditNext, auditVars, auditFile, DiskChanges, FileChanges, PublishEvent, Open,
           WriteFails, WrittenAgain, Report
  <2> QED
    BY <2>0, <2>1, WrittenAreParts
<1> QED
  BY <1>1, <1>2, <1>3, <1>4 DEF AuditTypeOK, Part

\* The file holds parts of lines of events that were published, and no process counts, or
\* says, more events lost than it published.
THEOREM AuditTypeCorrect == AuditSpec => []AuditTypeOK
<1>1. AuditInit => AuditTypeOK
  BY LinesAssumption DEF AuditInit, AuditTypeOK
<1> QED
  BY <1>1, AuditTypeKeeps, LossesFit, AuditInvariant, PTL DEF AuditSpec

----------------------------------------------------------------------------
(* QueryHistory.                                                           *)

\* Before the others are removed, the capsules of the command are in.
NewSetIn == historyPc = "upserted" => capsules \subseteq storedCapsules

\* The inductive invariant.
HistoryInv == LastSetStored /\ NewSetIn

\* The history is read.
LEMMA ExtractKeeps ==
    ASSUME HistoryInv, Extract
    PROVE  HistoryInv'
<1>1. LastSetStored'
  BY DEF HistoryInv, LastSetStored, Extract, HistoryEnds, NewSetIn
<1>2. NewSetIn'
  BY DEF HistoryInv, NewSetIn, Extract, HistoryEnds
<1> QED
  BY <1>1, <1>2 DEF HistoryInv

\* The capsules are made.
LEMMA MakeCapsulesKeeps ==
    ASSUME HistoryInv, MakeCapsules
    PROVE  HistoryInv'
<1>1. LastSetStored'
  BY DEF HistoryInv, LastSetStored, MakeCapsules, HistoryEnds, NewSetIn
<1>2. NewSetIn'
  BY DEF HistoryInv, NewSetIn, MakeCapsules, HistoryEnds
<1> QED
  BY <1>1, <1>2 DEF HistoryInv

\* They are saved.
LEMMA SaveCapsulesKeeps ==
    ASSUME HistoryInv, SaveCapsules
    PROVE  HistoryInv'
<1>1. LastSetStored'
  BY DEF HistoryInv, LastSetStored, SaveCapsules, HistoryEnds, NewSetIn
<1>2. NewSetIn'
  BY DEF HistoryInv, NewSetIn, SaveCapsules, HistoryEnds
<1> QED
  BY <1>1, <1>2 DEF HistoryInv

\* They are stored.
LEMMA StoreCapsulesKeeps ==
    ASSUME HistoryInv, StoreCapsules
    PROVE  HistoryInv'
<1>1. LastSetStored'
  BY DEF HistoryInv, LastSetStored, StoreCapsules, HistoryEnds, Upserted, NewSetIn
<1>2. NewSetIn'
  BY DEF HistoryInv, NewSetIn, StoreCapsules, HistoryEnds, Upserted
<1> QED
  BY <1>1, <1>2 DEF HistoryInv

\* The others are removed.
LEMMA RemoveOthersKeeps ==
    ASSUME HistoryInv, RemoveOthers
    PROVE  HistoryInv'
<1>1. LastSetStored'
  BY DEF HistoryInv, LastSetStored, RemoveOthers, HistoryEnds, OwnPoints, Points,
         NewSetIn
<1>2. NewSetIn'
  BY DEF HistoryInv, NewSetIn, RemoveOthers, HistoryEnds, OwnPoints, Points
<1> QED
  BY <1>1, <1>2 DEF HistoryInv

\* The command fails.
LEMMA FailsKeeps ==
    ASSUME HistoryInv, Fails
    PROVE  HistoryInv'
<1>1. LastSetStored'
  BY DEF HistoryInv, LastSetStored, Fails, HistoryEnds, NewSetIn
<1>2. NewSetIn'
  BY DEF HistoryInv, NewSetIn, Fails, HistoryEnds
<1> QED
  BY <1>1, <1>2 DEF HistoryInv

\* At any moment, whatever failed or was killed, the store holds whole the last set of
\* capsules a command stored.
THEOREM LastSetStaysStored == HistorySpec => []LastSetStored
<1>1. HistoryInit => HistoryInv
  BY DEF HistoryInit, HistoryInv, LastSetStored, NewSetIn
<1>2. HistoryInv /\ [HistoryNext]_historyVars => HistoryInv'
  <2>1. ASSUME HistoryInv, UNCHANGED historyVars PROVE HistoryInv'
    BY <2>1 DEF historyVars, HistoryInv, LastSetStored, NewSetIn
  <2> QED
    BY <2>1, ExtractKeeps, MakeCapsulesKeeps, SaveCapsulesKeeps, StoreCapsulesKeeps,
       RemoveOthersKeeps, FailsKeeps
    DEF HistoryNext
<1>3. HistoryInv => LastSetStored
  BY DEF HistoryInv
<1> QED
  BY <1>1, <1>2, <1>3, PTL DEF HistorySpec

\* What the pipeline keeps of the executions.
Query == [of : Statements, count : Nat]

\* The executions of each element of a list, and what its elements show.
CountOf(list) == [i \in DOMAIN list |-> list[i].count]
Shown(list) == {list[i].of : i \in DOMAIN list}

\* A list made of another that has lost no execution and invents no statement.
Carries(out, list) ==
    /\ out \in Seq(Query) /\ Len(out) \in Nat /\ Len(out) <= Len(list)
    /\ Executions(out) = Executions(list)
    /\ Shown(out) \subseteq Shown(list)

\* A list's counts are numbers, of statements, and can be summed.
LEMMA ExecutionsIs ==
    ASSUME NEW list \in Seq(Query)
    PROVE  /\ DOMAIN list = 1 .. Len(list) /\ Len(list) \in Nat
           /\ \A i \in DOMAIN list : /\ CountOf(list)[i] = list[i].count /\ list[i].count \in Nat
                                     /\ list[i] \in Query /\ list[i].of \in Statements
           /\ Summable(CountOf(list), DOMAIN list)
           /\ \A set \in SUBSET DOMAIN list : Summable(CountOf(list), set)
           /\ Executions(list) = SumFunctionOnSet(CountOf(list), DOMAIN list)
           /\ Executions(list) \in Nat
<1>1. DOMAIN list = 1 .. Len(list) /\ Len(list) \in Nat
  OBVIOUS
<1>2. \A q \in Query : q.count \in Nat /\ q.of \in Statements
  BY DEF Query
<1>3. \A i \in DOMAIN list : list[i] \in Query
  OBVIOUS
<1>4. \A i \in DOMAIN list : CountOf(list)[i] = list[i].count
  BY DEF CountOf
<1>5. \A i \in DOMAIN list : list[i].count \in Nat /\ list[i].of \in Statements
  BY <1>2, <1>3
<1>6. IsFiniteSet(DOMAIN list)
  BY <1>1, FS_Interval
<1>7. \A set \in SUBSET DOMAIN list : Summable(CountOf(list), set)
  BY <1>4, <1>5, <1>6, FS_Subset DEF Summable
<1>8. Executions(list) = SumFunctionOnSet(CountOf(list), DOMAIN list)
  BY DEF Executions, CountOf, SumFunction
<1>9. Summable(CountOf(list), DOMAIN list)
  BY <1>7
<1>10. Executions(list) \in Nat
  BY <1>8, <1>9, SumIsNat
<1> QED
  BY <1>1, <1>3, <1>4, <1>5, <1>7, <1>8, <1>9, <1>10

\* The positions of a set, in order, each once.
LEMMA PositionsInOrder ==
    ASSUME NEW n \in Nat, NEW set \in SUBSET (1 .. n)
    PROVE  /\ IsFiniteSet(set) /\ Cardinality(set) \in Nat /\ Cardinality(set) <= n
           /\ DOMAIN InOrder(set) = 1 .. Cardinality(set)
           /\ \A k \in 1 .. Cardinality(set) : InOrder(set)[k] \in set
           /\ OneToOne(InOrder(set), 1 .. Cardinality(set))
           /\ Onto(InOrder(set), 1 .. Cardinality(set)) = set
<1>1. IsFiniteSet(1 .. n) /\ Cardinality(1 .. n) = n
  BY FS_Interval
<1>2. set \in SUBSET Nat /\ IsFiniteSet(set) /\ Cardinality(set) <= Cardinality(1 .. n)
  <2> DEFINE I == 1 .. n
  <2>1. IsFiniteSet(I) /\ set \in SUBSET I
    BY <1>1
  <2>2. set \in SUBSET Nat
    OBVIOUS
  <2> HIDE DEF I
  <2>3. IsFiniteSet(set) /\ Cardinality(set) <= Cardinality(I)
    BY ONLY <2>1, FS_Subset
  <2> QED
    BY <2>2, <2>3 DEF I
<1>3. Cardinality(set) \in Nat
  BY <1>2, FS_CardinalityType
<1> DEFINE L == Listed(set)
           c == Cardinality(set)
<1>4. InOrder(set) = L
  BY DEF InOrder, Listed, RankIn
<1>5. /\ L \in [1 .. c -> set]
      /\ \A i \in 1 .. c : RankIn(set, L[i]) = i
      /\ \A p \in set : L[RankIn(set, p)] = p
      /\ \A p \in set : RankIn(set, p) \in 1 .. c
  BY <1>2, ListedByRank, RanksAreOrdered
<1> HIDE DEF L, c
<1>6. OneToOne(L, 1 .. c)
  <2> SUFFICES ASSUME NEW x \in 1 .. c, NEW y \in 1 .. c, L[x] = L[y] PROVE x = y
    BY DEF OneToOne
  <2> QED
    BY <1>5
<1>7. Onto(L, 1 .. c) = set
  <2>1. Onto(L, 1 .. c) \subseteq set
    BY <1>5 DEF Onto
  <2>2. ASSUME NEW p \in set PROVE p \in Onto(L, 1 .. c)
    <3>1. RankIn(set, p) \in 1 .. c /\ L[RankIn(set, p)] = p
      BY <1>5, <2>2, Zenon
    <3> QED
      BY <3>1, Zenon DEF Onto
  <2> QED
    BY <2>1, <2>2, Zenon
<1> QED
  BY <1>1, <1>2, <1>3, <1>4, <1>5, <1>6, <1>7 DEF c

\* A part of a list has the executions of its positions.
LEMMA SublistHolds ==
    ASSUME NEW list \in Seq(Query), NEW set \in SUBSET DOMAIN list
    PROVE  /\ Sublist(list, set) \in Seq(Query) /\ Len(Sublist(list, set)) \in Nat
           /\ Len(Sublist(list, set)) <= Len(list)
           /\ Executions(Sublist(list, set)) = SumFunctionOnSet(CountOf(list), set)
           /\ Shown(Sublist(list, set)) \subseteq {list[i].of : i \in set}
<1> DEFINE out == Sublist(list, set)
           c == Cardinality(set)
           L == InOrder(set)
<1>1. /\ DOMAIN list = 1 .. Len(list) /\ Len(list) \in Nat
      /\ \A i \in DOMAIN list : CountOf(list)[i] = list[i].count /\ list[i] \in Query
      /\ Summable(CountOf(list), set)
  BY ExecutionsIs
<1>2. /\ c \in Nat /\ c <= Len(list)
      /\ \A k \in 1 .. c : L[k] \in set
      /\ OneToOne(L, 1 .. c) /\ Onto(L, 1 .. c) = set
  BY <1>1, PositionsInOrder
<1>3. out = [n \in 1 .. c |-> list[L[n]]]
  BY DEF Sublist
<1> HIDE DEF L, c, out
<1>4. \A k \in 1 .. c : out[k] = list[L[k]] /\ list[L[k]] \in Query
  BY <1>1, <1>2, <1>3
<1>5. out \in Seq(Query) /\ Len(out) = c /\ DOMAIN out = 1 .. c
  BY <1>2, <1>3, <1>4
<1>6. Meets(CountOf(list), L, CountOf(out), 1 .. c)
  <2> SUFFICES ASSUME NEW k \in 1 .. c PROVE CountOf(list)[L[k]] = CountOf(out)[k]
    BY DEF Meets
  <2>1. CountOf(out)[k] = out[k].count
    BY <1>5 DEF CountOf
  <2>2. CountOf(list)[L[k]] = list[L[k]].count
    BY <1>1, <1>2
  <2> QED
    BY <1>4, <2>1, <2>2
<1>7. Executions(out) = SumFunctionOnSet(CountOf(out), 1 .. c) /\ Summable(CountOf(out), 1 .. c)
  BY <1>5, ExecutionsIs
<1>8. SumFunctionOnSet(CountOf(list), Onto(L, 1 .. c)) = SumFunctionOnSet(CountOf(out), 1 .. c)
  BY <1>2, <1>6, <1>7, SumMoves
<1>9. Shown(out) \subseteq {list[i].of : i \in set}
  BY <1>2, <1>4, <1>5 DEF Shown
<1> QED
  BY <1>2, <1>5, <1>7, <1>8, <1>9 DEF out

\* Where nothing is left out, the part is the whole.
LEMMA WholeSublist ==
    ASSUME NEW list \in Seq(Query), NEW set, set = DOMAIN list
    PROVE  Carries(Sublist(list, set), list)
<1>1. set \in SUBSET DOMAIN list
  OBVIOUS
<1>2. Executions(list) = SumFunctionOnSet(CountOf(list), set)
  BY ExecutionsIs
<1>3. {list[i].of : i \in set} = Shown(list)
  BY DEF Shown
<1> QED
  BY <1>1, <1>2, <1>3, SublistHolds DEF Carries

\* An item that is added brings its executions.
LEMMA AddToHolds ==
    ASSUME NEW list \in Seq(Query), NEW item \in Query, NEW by
    PROVE  /\ AddTo(list, item, by) \in Seq(Query)
           /\ Len(AddTo(list, item, by)) <= Len(list) + 1
           /\ Executions(AddTo(list, item, by)) = Executions(list) + item.count
           /\ Shown(AddTo(list, item, by)) \subseteq Shown(list) \cup {item.of}
<1> DEFINE out == AddTo(list, item, by)
           n == Len(list)
           same == Same(list, item, by)
<1>1. /\ DOMAIN list = 1 .. n /\ n \in Nat
      /\ \A i \in 1 .. n : CountOf(list)[i] = list[i].count /\ list[i].count \in Nat
                           /\ list[i] \in Query
      /\ Summable(CountOf(list), 1 .. n)
      /\ Executions(list) = SumFunctionOnSet(CountOf(list), 1 .. n)
  BY ExecutionsIs
<1>2. item.count \in Nat /\ item.of \in Statements
  BY DEF Query
<1> HIDE DEF n
<1>3. CASE same = {}
  <2>1. out = Append(list, item)
    BY <1>3 DEF AddTo
  <2>2. /\ out \in Seq(Query) /\ Len(out) = n + 1 /\ DOMAIN out = 1 .. n + 1
        /\ out[n + 1] = item /\ \A i \in 1 .. n : out[i] = list[i]
    BY <1>1, <2>1 DEF n
  <2> HIDE DEF out
  <2>3. Executions(out) = SumFunction(CountOf(out)) /\ Executions(list) = SumFunction(CountOf(list))
    BY DEF Executions, CountOf
  <2>4. /\ \A i \in 1 .. n + 1 : CountOf(out)[i] = out[i].count
        /\ CountOf(out) \in [1 .. n + 1 -> Nat] /\ CountOf(list) \in [1 .. n -> Nat]
    <3>1. \A i \in DOMAIN out : CountOf(out)[i] = out[i].count /\ out[i].count \in Nat
      BY <2>2, ExecutionsIs
    <3> QED
      BY <1>1, <2>2, <3>1 DEF CountOf
  <2>5. (n + 1) - 1 = n /\ n + 1 \in Nat \ {0} /\ n + 1 \in 1 .. n + 1
        /\ \A i \in 1 .. n : i \in 1 .. n + 1
    BY <1>1
  <2>6. \A i \in 1 .. n : CountOf(list)[i] = CountOf(out)[i]
    BY <1>1, <2>2, <2>4, <2>5
  <2>7. SumFunction(CountOf(out)) = SumFunction(CountOf(list)) + CountOf(out)[n + 1]
    BY <2>4, <2>5, <2>6, SumGrows
  <2>8. Executions(out) = Executions(list) + item.count
    BY <2>2, <2>3, <2>4, <2>5, <2>7
  <2>9. Shown(out) \subseteq Shown(list) \cup {item.of}
    <3>1. \A i \in 1 .. n + 1 : i = n + 1 \/ i \in 1 .. n
      BY <1>1
    <3> QED
      BY <1>1, <2>2, <3>1 DEF Shown
  <2>10. Len(out) <= n + 1
    BY <1>1, <2>2
  <2> QED
    BY <2>2, <2>8, <2>9, <2>10 DEF out, n
<1>4. CASE same # {}
  <2> DEFINE joint == Min(same)
             new == Joined(list[joint], item)
  <2>1. joint \in 1 .. n
    <3>1. same \in SUBSET (1 .. n) /\ same \in SUBSET Nat
      BY <1>1 DEF Same
    <3> HIDE DEF same
    <3>2. \E x \in same : \A y \in same : x <= y
      BY <1>4, <3>1, Least
    <3> QED
      BY <3>1, <3>2 DEF Min
  <2>2. out = [list EXCEPT ![joint] = new]
    BY <1>4 DEF AddTo
  <2>3. /\ new.count = list[joint].count + item.count /\ new \in Query
        /\ new.of \in {list[joint].of, item.of}
    <3>1. list[joint] \in Query /\ list[joint].count \in Nat /\ list[joint].of \in Statements
      BY <1>1, <2>1, ExecutionsIs
    <3> HIDE DEF joint
    <3>2. new.count = list[joint].count + item.count /\ new.of \in {list[joint].of, item.of}
      BY DEF Joined
    <3>3. new = [of |-> new.of, count |-> new.count]
      BY DEF Joined
    <3>4. new.count \in Nat /\ new.of \in Statements
      BY <1>2, <3>1, <3>2
    <3> HIDE DEF new
    <3> QED
      BY <3>2, <3>3, <3>4 DEF Query
  <2> HIDE DEF joint, new, same, out
  <2>4. /\ out \in Seq(Query) /\ Len(out) = n /\ DOMAIN out = 1 .. n
        /\ out[joint] = new /\ \A i \in 1 .. n : i # joint => out[i] = list[i]
    BY <1>1, <2>1, <2>2, <2>3 DEF n
  <2>5. /\ Executions(out) = SumFunctionOnSet(CountOf(out), 1 .. n)
        /\ Summable(CountOf(out), 1 .. n)
        /\ \A i \in 1 .. n : CountOf(out)[i] = out[i].count
    BY <2>4, ExecutionsIs
  <2>6. /\ SumFunctionOnSet(CountOf(out), 1 .. n)
             = CountOf(out)[joint] + SumFunctionOnSet(CountOf(out), (1 .. n) \ {joint})
        /\ SumFunctionOnSet(CountOf(list), 1 .. n)
             = CountOf(list)[joint] + SumFunctionOnSet(CountOf(list), (1 .. n) \ {joint})
        /\ SumFunctionOnSet(CountOf(list), (1 .. n) \ {joint}) \in Nat
    BY <1>1, <2>1, <2>5, SumTakes
  <2>7. SumFunctionOnSet(CountOf(out), (1 .. n) \ {joint}) = SumFunctionOnSet(CountOf(list), (1 .. n) \ {joint})
    <3> DEFINE rest == (1 .. n) \ {joint}
    <3>1. Summable(CountOf(list), rest)
      <4>1. IsFiniteSet(rest)
        BY <1>1, FS_RemoveElement DEF Summable
      <4> QED
        BY <1>1, <4>1 DEF Summable
    <3>2. \A i \in rest : CountOf(out)[i] = CountOf(list)[i]
      BY <1>1, <2>4, <2>5
    <3> HIDE DEF rest
    <3>3. SumFunctionOnSet(CountOf(out), rest) = SumFunctionOnSet(CountOf(list), rest)
      BY <3>1, <3>2, SumAgrees
    <3> QED
      BY <3>3 DEF rest
  <2>8. Executions(out) = Executions(list) + item.count
    <3> DEFINE rest == SumFunctionOnSet(CountOf(list), (1 .. n) \ {joint})
    <3>1. /\ Executions(out) = (list[joint].count + item.count) + rest
          /\ Executions(list) = list[joint].count + rest
      BY <1>1, <2>1, <2>3, <2>4, <2>5, <2>6, <2>7
    <3>2. rest \in Nat /\ list[joint].count \in Nat /\ item.count \in Nat
      BY <1>1, <1>2, <2>1, <2>6
    <3> HIDE DEF rest
    <3> QED
      BY ONLY <3>1, <3>2
  <2>9. Shown(out) \subseteq Shown(list) \cup {item.of}
    BY <1>1, <2>1, <2>3, <2>4 DEF Shown
  <2>10. Len(out) <= n + 1
    BY <1>1, <2>4
  <2> QED
    BY <2>4, <2>8, <2>9, <2>10 DEF out, n
<1> QED
  BY <1>3, <1>4

\* The step that adds each item.
Adding(by) == [p \in Seq(Query) \X Query |-> AddTo(p[1], p[2], by)]

\* Collecting what is the same keeps the executions.
LEMMA CollectedCarries ==
    ASSUME NEW items \in Seq(Query), NEW by
    PROVE  Carries(Collected(items, by), items)
<1> DEFINE n == Len(items)
           V == Seq(Query)
           g == Adding(by)
           F(i) == [t \in SUBSET DOMAIN items |->
                      IF t = {} THEN <<>> ELSE AddTo(i[t \ {Max(t)}], items[Max(t)], by)]
           iter == CHOOSE i : i = F(i)
<1>1. n \in Nat /\ items \in [1 .. n -> Query] /\ DOMAIN items = 1 .. n /\ <<>> \in V
  OBVIOUS
<1>2. g \in [V \X Query -> V] /\ \A q \in V, x \in Query : g[<<q, x>>] = AddTo(q, x, by)
  BY AddToHolds DEF Adding
<1>3. Collected(items, by) = iter[1 .. n]
  BY <1>1 DEF Collected, FoldLeft, MapThenFoldSet
<1> HIDE DEF n, V, g
<1>4. \A t \in SUBSET (1 .. n) : t # {} => items[Max(t)] \in Query
  BY <1>1, GreatestIsIn
<1>5. iter = F(iter)
  <2>1. PICK h : LeftFold(h, n, items, V, <<>>, g)
    BY <1>1, <1>2, FoldLeftExists
  <2>2. h = F(h)
    <3>1. h \in [SUBSET (1 .. n) -> V] /\ h[{}] = <<>>
      BY <2>1 DEF LeftFold
    <3>2. ASSUME NEW t \in SUBSET (1 .. n), t # {}
          PROVE  h[t] = AddTo(h[t \ {Max(t)}], items[Max(t)], by)
      <4>1. h[t] = g[<<h[t \ {Max(t)}], items[Max(t)]>>]
        BY <2>1, <3>2 DEF LeftFold
      <4>2. h[t \ {Max(t)}] \in V /\ items[Max(t)] \in Query
        BY <1>4, <3>1, <3>2
      <4> QED
        BY <1>2, <4>1, <4>2
    <3> QED
      BY <1>1, <3>1, <3>2
  <2> QED
    BY <2>2
<1>6. Recurs(iter, n, items, V, <<>>, g)
  <2> HIDE DEF iter
  <2>1. iter[{}] = <<>>
    BY <1>5
  <2>2. ASSUME NEW t \in SUBSET (1 .. n), t # {}, iter[t \ {Max(t)}] \in V
        PROVE  iter[t] = g[<<iter[t \ {Max(t)}], items[Max(t)]>>]
    <3>1. iter[t] = AddTo(iter[t \ {Max(t)}], items[Max(t)], by)
      BY <1>1, <1>5, <2>2
    <3> QED
      BY <1>2, <1>4, <2>2, <3>1
  <2> QED
    BY <2>1, <2>2 DEF Recurs
<1> HIDE DEF iter
<1>7. RunsTo(iter[1 .. n], n, items, V, <<>>, g)
  <2>1. g \in [V \X Query -> V] /\ <<>> \in V
    BY <1>1, <1>2
  <2> QED
    BY ONLY <1>1, <1>6, <2>1, FoldLeftRuns
<1>8. PICK r : FoldRun(r, n, items, V, <<>>, g) /\ r[n] = Collected(items, by)
  BY <1>3, <1>7 DEF RunsTo
<1>9. r \in [0 .. n -> V] /\ r[0] = <<>>
  BY <1>8 DEF FoldRun
<1>10. /\ Summable(CountOf(items), 1 .. n)
       /\ \A i \in 1 .. n : CountOf(items)[i] = items[i].count /\ items[i] \in Query
       /\ Executions(items) = SumFunctionOnSet(CountOf(items), 1 .. n)
  BY <1>1, ExecutionsIs
<1> DEFINE Done(k) == /\ Len(r[k]) <= k
                      /\ Executions(r[k]) = SumFunctionOnSet(CountOf(items), 1 .. k)
                      /\ Shown(r[k]) \subseteq {items[i].of : i \in 1 .. k}
           U == {k \in 0 .. n : Done(k)}
<1>11. 0 \in U
  <2>1. 1 .. 0 = {} /\ Len(<<>>) = 0
    OBVIOUS
  <2>2. Executions(<<>>) = 0
    <3>1. Executions(<<>>) = SumFunctionOnSet(CountOf(<<>>), {})
      BY DEF Executions, SumFunction, CountOf
    <3> QED
      BY <3>1, SumOfNone
  <2>3. Shown(<<>>) = {}
    BY DEF Shown
  <2> QED
    BY <1>1, <1>9, <2>1, <2>2, <2>3, SumOfNone
<1>12. ASSUME NEW k \in 0 .. n - 1, k \in U PROVE k + 1 \in U
  <2>1. k + 1 \in 1 .. n /\ (k + 1) - 1 = k /\ k \in 0 .. n /\ k + 1 \in 0 .. n /\ k \in Nat
    BY <1>1
  <2>2. r[k] \in V /\ items[k + 1] \in Query
    BY <1>9, <1>10, <2>1
  <2>3. r[k + 1] = AddTo(r[k], items[k + 1], by)
    BY <1>2, <1>8, <2>1, <2>2 DEF FoldRun
  <2>4. /\ Len(r[k + 1]) <= Len(r[k]) + 1
        /\ Executions(r[k + 1]) = Executions(r[k]) + items[k + 1].count
        /\ Shown(r[k + 1]) \subseteq Shown(r[k]) \cup {items[k + 1].of}
    BY <2>2, <2>3, AddToHolds DEF V
  <2>5. Done(k)
    BY <1>12
  <2>6. SumFunctionOnSet(CountOf(items), 1 .. k + 1)
           = items[k + 1].count + SumFunctionOnSet(CountOf(items), 1 .. k)
    <3> DEFINE J == 1 .. k + 1
    <3>1. J \in SUBSET (1 .. n) /\ k + 1 \in J /\ J \ {k + 1} = 1 .. k
      BY <1>1, <2>1
    <3>2. Summable(CountOf(items), J)
      BY <1>1, <3>1, ExecutionsIs
    <3> HIDE DEF J
    <3>3. SumFunctionOnSet(CountOf(items), J)
             = CountOf(items)[k + 1] + SumFunctionOnSet(CountOf(items), J \ {k + 1})
      BY <3>1, <3>2, SumTakes
    <3> QED
      BY <1>10, <2>1, <3>1, <3>3 DEF J
  <2>7. Executions(r[k]) \in Nat /\ items[k + 1].count \in Nat /\ Len(r[k]) \in Nat
    BY <1>1, <2>1, <2>2, ExecutionsIs DEF V
  <2>8. Executions(r[k + 1]) = SumFunctionOnSet(CountOf(items), 1 .. k + 1)
    BY <2>4, <2>5, <2>6, <2>7
  <2>9. Len(r[k + 1]) <= k + 1
    <3>1. r[k + 1] \in V
      BY <1>9, <2>1
    <3>2. Len(r[k + 1]) \in Nat
      BY <3>1 DEF V
    <3> QED
      BY <2>1, <2>4, <2>5, <2>7, <3>2
  <2>10. Shown(r[k + 1]) \subseteq {items[i].of : i \in 1 .. k + 1}
    <3>1. \A i \in 1 .. k : i \in 1 .. k + 1
      BY <2>1
    <3>2. k + 1 \in 1 .. k + 1
      BY <2>1
    <3> QED
      BY <2>4, <2>5, <3>1, <3>2
  <2> QED
    BY <2>1, <2>8, <2>9, <2>10
<1>13. n \in U
  <2>1. \A k \in 0 .. n : k \in U
    <3> HIDE DEF U
    <3> QED
      BY <1>1, <1>11, <1>12, ByInductionTo
  <2> QED
    BY <1>1, <2>1
<1>14. Collected(items, by) \in Seq(Query)
  BY <1>1, <1>8, <1>9 DEF V
<1>15. /\ Len(Collected(items, by)) <= n
       /\ Executions(Collected(items, by)) = SumFunctionOnSet(CountOf(items), 1 .. n)
       /\ Shown(Collected(items, by)) \subseteq {items[i].of : i \in 1 .. n}
  BY <1>8, <1>13
<1>16. {items[i].of : i \in 1 .. n} = Shown(items)
  BY <1>1 DEF Shown
<1> QED
  BY <1>10, <1>14, <1>15, <1>16 DEF Carries, n


\* A set of positions that is not empty has a most frequent one.
LEMMA MostIsThere ==
    ASSUME NEW list \in Seq(Query), NEW set \in SUBSET DOMAIN list, set # {}
    PROVE  Most(list, set) \in set
<1> DEFINE all == Executions(list)
           T == {all - list[i].count : i \in set}
<1>1. /\ DOMAIN list = 1 .. Len(list) /\ Len(list) \in Nat /\ all \in Nat
      /\ \A i \in DOMAIN list : CountOf(list)[i] = list[i].count /\ list[i].count \in Nat
      /\ Summable(CountOf(list), DOMAIN list)
      /\ all = SumFunctionOnSet(CountOf(list), DOMAIN list)
  BY ExecutionsIs
<1>2. \A i \in set : list[i].count \in Nat /\ list[i].count <= all
  <2> SUFFICES ASSUME NEW i \in set PROVE list[i].count \in Nat /\ list[i].count <= all
    OBVIOUS
  <2> DEFINE rest == SumFunctionOnSet(CountOf(list), DOMAIN list \ {i})
  <2>1. rest \in Nat /\ all = CountOf(list)[i] + rest
    BY <1>1, SumTakes
  <2> HIDE DEF rest, all
  <2> QED
    BY <1>1, <2>1
<1> HIDE DEF all
<1>3. T \in SUBSET Nat /\ T # {}
  <2>1. \A i \in set : all - list[i].count \in Nat
    BY <1>1, <1>2
  <2> QED
    BY <2>1
<1>4. PICK z \in T : \A y \in T : z <= y
  <2> HIDE DEF T
  <2> QED
    BY <1>3, Least
<1>5. PICK m \in set : z = all - list[m].count
  BY <1>4
<1>6. \A i \in set : list[m].count >= list[i].count
  <2> SUFFICES ASSUME NEW i \in set PROVE list[m].count >= list[i].count
    OBVIOUS
  <2>1. all - list[m].count <= all - list[i].count
    BY <1>4, <1>5
  <2> QED
    BY <1>1, <1>2, <2>1
<1> DEFINE E == {i \in set : list[i].count = list[m].count}
<1>7. E \in SUBSET Nat /\ E # {}
  BY <1>1
<1>8. PICK e \in E : \A i \in E : e <= i
  <2> HIDE DEF E
  <2> QED
    BY <1>7, Least
<1>9. \A j \in set : \/ list[e].count > list[j].count
                     \/ list[e].count = list[j].count /\ e <= j
  <2> SUFFICES ASSUME NEW j \in set, list[j].count # list[e].count
               PROVE  list[e].count > list[j].count
    BY <1>8
  <2>1. list[e].count = list[m].count /\ e \in set
    BY <1>8
  <2> QED
    BY <1>2, <1>6, <2>1
<1> QED
  BY <1>8, <1>9 DEF Most

\* One cluster a fingerprint, which has the executions of its members.
LEMMA GroupedCarries ==
    ASSUME NEW q \in Seq(Query)
    PROVE  Carries(Grouped(q), q)
<1> DEFINE D == DOMAIN q
           M(i) == Members(q, i)
           c == Cardinality(Firsts(q))
           L == InOrder(Firsts(q))
           out == Grouped(q)
           P == [k \in 1 .. c |-> M(L[k])]
<1>1. /\ D = 1 .. Len(q) /\ Len(q) \in Nat
      /\ \A i \in D : /\ CountOf(q)[i] = q[i].count /\ q[i].count \in Nat
                      /\ q[i] \in Query /\ q[i].of \in Statements
      /\ \A set \in SUBSET D : Summable(CountOf(q), set)
      /\ Executions(q) = SumFunctionOnSet(CountOf(q), D)
  BY ExecutionsIs
<1>2. \A i, j \in D : /\ M(i) \in SUBSET D /\ i \in M(i)
                      /\ j \in M(i) <=> q[j].of["print"] = q[i].of["print"]
  BY DEF Members, Same
<1>3. \A i, j \in D : j \in M(i) => M(j) = M(i)
  BY DEF Members, Same
<1>4. Firsts(q) \in SUBSET D /\ \A i \in D : i \in Firsts(q) <=> \A j \in M(i) : i <= j
  BY DEF Firsts
<1>5. /\ c \in Nat /\ c <= Len(q) /\ DOMAIN L = 1 .. c
      /\ \A k \in 1 .. c : L[k] \in Firsts(q)
      /\ OneToOne(L, 1 .. c) /\ Onto(L, 1 .. c) = Firsts(q)
  BY <1>1, <1>4, PositionsInOrder
<1>6. out = [n \in 1 .. c |-> Cluster(q, L[n])]
  BY DEF Grouped
<1>7. \A i \in D : /\ Cluster(q, i).count = SumFunctionOnSet(CountOf(q), M(i))
                   /\ Cluster(q, i) \in Query /\ Cluster(q, i).of \in Shown(q)
  <2> SUFFICES ASSUME NEW i \in D
               PROVE  /\ Cluster(q, i).count = SumFunctionOnSet(CountOf(q), M(i))
                      /\ Cluster(q, i) \in Query /\ Cluster(q, i).of \in Shown(q)
    OBVIOUS
  <2> DEFINE m == Most(q, M(i))
             e == SumFunctionOnSet(CountOf(q), M(i))
  <2>1. m \in M(i) /\ m \in D
    BY <1>2, MostIsThere
  <2>2. Cluster(q, i) = [of |-> q[m].of, count |-> e]
    BY DEF Cluster, CountOf
  <2>3. e \in Nat
    BY <1>1, <1>2, SumIsNat
  <2>4. q[m].of \in Shown(q)
    BY <2>1 DEF Shown
  <2> HIDE DEF m, e
  <2>5. Cluster(q, i) \in Query /\ Cluster(q, i).of = q[m].of /\ Cluster(q, i).count = e
    BY <1>1, <2>1, <2>2, <2>3 DEF Query
  <2> QED
    BY <2>4, <2>5 DEF e
<1> HIDE DEF M, c, L, out
<1>8. \A k \in 1 .. c : L[k] \in D /\ out[k] = Cluster(q, L[k]) /\ out[k] \in Query
  BY <1>4, <1>5, <1>6, <1>7
<1>9. out \in Seq(Query) /\ Len(out) = c /\ DOMAIN out = 1 .. c
  BY <1>5, <1>6, <1>8
<1>10. Shown(out) \subseteq Shown(q)
  BY <1>7, <1>8, <1>9 DEF Shown
<1>11. \A k \in 1 .. c : /\ Summable(CountOf(q), P[k])
                         /\ CountOf(out)[k] = SumFunctionOnSet(CountOf(q), P[k])
  BY <1>1, <1>2, <1>7, <1>8, <1>9 DEF CountOf
<1>12. ASSUME NEW k \in 1 .. c, NEW l \in 1 .. c, k # l PROVE P[k] \cap P[l] = {}
  <2> SUFFICES ASSUME NEW j \in M(L[k]), j \in M(L[l]) PROVE FALSE
    OBVIOUS
  <2>1. L[k] \in D /\ L[l] \in D
    BY <1>8
  <2>2. j \in D /\ M(j) = M(L[k]) /\ M(j) = M(L[l])
    BY <1>2, <1>3, <2>1
  <2>3. L[k] \in M(L[l]) /\ L[l] \in M(L[k])
    BY <1>2, <2>1, <2>2
  <2>4. L[k] <= L[l] /\ L[l] <= L[k]
    BY <1>4, <1>5, <2>1, <2>3
  <2>5. L[k] = L[l]
    BY <1>1, <2>1, <2>4
  <2> QED
    BY <1>5, <1>12, <2>5 DEF OneToOne
<1>13. Gathered(P, 1 .. c) = D
  <2>1. Gathered(P, 1 .. c) \subseteq D
    BY <1>2, <1>8 DEF Gathered
  <2>2. ASSUME NEW j \in D PROVE j \in Gathered(P, 1 .. c)
    <3>1. M(j) \in SUBSET Nat /\ M(j) # {}
      BY <1>1, <1>2
    <3>2. PICK i \in M(j) : \A y \in M(j) : i <= y
      BY <3>1, Least
    <3>3. i \in D /\ M(i) = M(j)
      BY <1>2, <1>3
    <3>4. i \in Onto(L, 1 .. c)
      BY <1>4, <1>5, <3>2, <3>3
    <3>5. PICK k \in 1 .. c : L[k] = i
      BY <3>4 DEF Onto
    <3>6. j \in P[k]
      BY <1>2, <3>3, <3>5
    <3> QED
      BY <3>6 DEF Gathered
  <2> QED
    BY <2>1, <2>2
<1>14. IsFiniteSet(1 .. c)
  BY <1>5, FS_Interval
<1> HIDE DEF P
<1>15. SumFunctionOnSet(CountOf(out), 1 .. c) = SumFunctionOnSet(CountOf(q), D)
  <2> DEFINE K == 1 .. c
  <2>1. /\ IsFiniteSet(K) /\ Gathered(P, K) = D
        /\ \A k \in K : /\ Summable(CountOf(q), P[k])
                        /\ CountOf(out)[k] = SumFunctionOnSet(CountOf(q), P[k])
        /\ \A k, l \in K : k # l => P[k] \cap P[l] = {}
    BY <1>11, <1>12, <1>13, <1>14
  <2> HIDE DEF K, D
  <2>2. SumFunctionOnSet(CountOf(out), K) = SumFunctionOnSet(CountOf(q), Gathered(P, K))
    BY ONLY <2>1, SumOfParts
  <2> QED
    BY <2>1, <2>2 DEF K
<1>16. Executions(out) = SumFunctionOnSet(CountOf(out), 1 .. c)
  BY <1>9, ExecutionsIs
<1> QED
  BY <1>1, <1>5, <1>9, <1>10, <1>15, <1>16 DEF Carries, out

\* Each place is taken by one element when a list is ordered by frequency.
LEMMA AheadRanks ==
    ASSUME NEW list \in Seq(Query)
    PROVE  /\ \A i \in DOMAIN list : Cardinality(Ahead(list, i)) \in DOMAIN list
           /\ \A i, j \in DOMAIN list :
                 Cardinality(Ahead(list, i)) = Cardinality(Ahead(list, j)) => i = j
           /\ \A n \in DOMAIN list : \E i \in DOMAIN list : Cardinality(Ahead(list, i)) = n
<1> DEFINE D == DOMAIN list
           A(i) == Ahead(list, i)
           rank == [i \in D |-> Cardinality(A(i))]
<1>1. /\ D = 1 .. Len(list) /\ Len(list) \in Nat
      /\ \A i \in D : list[i].count \in Nat
  BY ExecutionsIs
<1>2. IsFiniteSet(D) /\ Cardinality(D) = Len(list)
  BY <1>1, FS_Interval
<1>3. \A i, j \in D : /\ A(i) \in SUBSET D /\ i \in A(i)
                      /\ i # j => (j \in A(i) /\ A(j) \subseteq A(i) /\ i \notin A(j))
                                  \/ (i \in A(j) /\ A(i) \subseteq A(j) /\ j \notin A(i))
  <2> SUFFICES ASSUME NEW i \in D, NEW j \in D
               PROVE  /\ A(i) \in SUBSET D /\ i \in A(i)
                      /\ i # j => (j \in A(i) /\ A(j) \subseteq A(i) /\ i \notin A(j))
                                  \/ (i \in A(j) /\ A(i) \subseteq A(j) /\ j \notin A(i))
    OBVIOUS
  <2>1. A(i) \in SUBSET D /\ i \in A(i)
    BY <1>1 DEF Ahead
  <2>2. \A k, l \in D : k \in A(l) <=> \/ list[k].count > list[l].count
                                       \/ list[k].count = list[l].count /\ k <= l
    BY DEF Ahead
  <2>3. ASSUME NEW k \in D, NEW l \in D, NEW m \in D, k \in A(l), l \in A(m) PROVE k \in A(m)
    <3>1. list[k].count > list[l].count \/ (list[k].count = list[l].count /\ k <= l)
      BY <2>2, <2>3
    <3>2. list[l].count > list[m].count \/ (list[l].count = list[m].count /\ l <= m)
      BY <2>2, <2>3
    <3>3. list[k].count > list[m].count \/ (list[k].count = list[m].count /\ k <= m)
      <4>1. /\ k \in Nat /\ l \in Nat /\ m \in Nat
            /\ list[k].count \in Nat /\ list[l].count \in Nat /\ list[m].count \in Nat
        BY <1>1
      <4> QED
        BY ONLY <3>1, <3>2, <4>1
    <3> QED
      BY <2>2, <3>3
  <2>4. \A k, l \in D : k # l => (k \in A(l)) # (l \in A(k))
    BY <1>1, <2>2
  <2>5. \A k \in D : A(k) \subseteq D
    BY DEF Ahead
  <2> HIDE DEF A, D
  <2> QED
    BY <2>1, <2>3, <2>4, <2>5
<1> HIDE DEF A, D
<1>4. \A i \in D : IsFiniteSet(A(i)) /\ Cardinality(A(i)) \in Nat /\ Cardinality(A(i)) <= Len(list)
  BY <1>2, <1>3, FS_Subset, FS_CardinalityType
<1>5. \A i \in D : Cardinality(A(i)) # 0
  BY <1>3, <1>4, FS_EmptySet
<1>6. \A i \in D : Cardinality(A(i)) \in D
  BY <1>1, <1>4, <1>5
<1>7. \A i, j \in D : A(j) \subseteq A(i) /\ i \notin A(j) => Cardinality(A(j)) # Cardinality(A(i))
  BY <1>3, <1>4, FS_Subset
<1>8. \A i, j \in D : Cardinality(A(i)) = Cardinality(A(j)) => i = j
  BY <1>3, <1>7
<1>9. rank \in Injection(D, D)
  BY <1>6, <1>8 DEF Injection, IsInjective
<1>10. rank \in Surjection(D, D)
  <2> HIDE DEF rank
  <2> QED
    BY <1>2, <1>9, FS_Injection
<1>11. \A n \in D : \E i \in D : Cardinality(A(i)) = n
  BY <1>10 DEF Surjection
<1> QED
  BY <1>6, <1>8, <1>11 DEF A, D

\* Ordering a list by frequency keeps the executions.
LEMMA ByFrequencyCarries ==
    ASSUME NEW list \in Seq(Query)
    PROVE  Carries(ByFrequency(list), list)
<1> DEFINE D == DOMAIN list
           R(i) == Cardinality(Ahead(list, i))
           m == [n \in D |-> CHOOSE i \in D : R(i) = n]
           out == ByFrequency(list)
<1>1. /\ D = 1 .. Len(list) /\ Len(list) \in Nat
      /\ \A i \in D : /\ CountOf(list)[i] = list[i].count
                      /\ list[i].count \in Nat /\ list[i] \in Query
      /\ Summable(CountOf(list), D)
      /\ Executions(list) = SumFunctionOnSet(CountOf(list), D)
  BY ExecutionsIs
<1>2. /\ \A i \in D : R(i) \in D
      /\ \A i, j \in D : R(i) = R(j) => i = j
      /\ \A n \in D : \E i \in D : R(i) = n
  BY AheadRanks
<1>3. out = [n \in D |-> list[m[n]]]
  BY DEF ByFrequency
<1> HIDE DEF D, R, out
<1>4. \A n \in D : m[n] \in D /\ R(m[n]) = n
  BY <1>2
<1>5. \A i \in D : m[R(i)] = i
  BY <1>2, <1>4
<1> HIDE DEF m
<1>6. OneToOne(m, D)
  BY <1>4 DEF OneToOne
<1>7. Onto(m, D) = D
  BY <1>2, <1>4, <1>5 DEF Onto
<1>8. \A n \in D : out[n] = list[m[n]] /\ out[n] \in Query
  BY <1>1, <1>3, <1>4
<1>9. out \in Seq(Query) /\ Len(out) = Len(list) /\ DOMAIN out = D
  BY <1>1, <1>3, <1>8
<1>10. Meets(CountOf(list), m, CountOf(out), D)
  <2> SUFFICES ASSUME NEW n \in D PROVE CountOf(list)[m[n]] = CountOf(out)[n]
    BY DEF Meets
  <2>1. CountOf(out)[n] = out[n].count
    BY <1>9 DEF CountOf
  <2> QED
    BY <1>1, <1>4, <1>8, <2>1
<1>11. Executions(out) = SumFunctionOnSet(CountOf(out), D) /\ Summable(CountOf(out), D)
  BY <1>9, ExecutionsIs
<1>12. SumFunctionOnSet(CountOf(list), Onto(m, D)) = SumFunctionOnSet(CountOf(out), D)
  BY <1>6, <1>10, <1>11, SumMoves
<1>13. Shown(out) \subseteq Shown(list)
  BY <1>4, <1>8, <1>9 DEF Shown, D
<1> QED
  BY <1>1, <1>7, <1>9, <1>11, <1>12, <1>13 DEF Carries, out

\* What one stage of the pipeline carries and the next carries, both carry.
LEMMA CarriesOn ==
    ASSUME NEW a \in Seq(Query), NEW b, Carries(b, a), NEW c, Carries(c, b)
    PROVE  b \in Seq(Query) /\ c \in Seq(Query) /\ Carries(c, a)
<1>1. Len(a) \in Nat
  OBVIOUS
<1> QED
  BY <1>1 DEF Carries

\* The clusters of a list of queries.
LEMMA ClustersCarry ==
    ASSUME NEW q \in Seq(Query)
    PROVE  Clusters(q) \in Seq(Query) /\ Carries(Clusters(q), q)
<1> DEFINE g == Grouped(q)
           m == Merged(g)
<1>1. Carries(g, q) /\ g \in Seq(Query)
  BY GroupedCarries DEF Carries
<1>2. Carries(m, g) /\ m \in Seq(Query)
  BY <1>1, CollectedCarries DEF Merged, Carries
<1>3. Carries(ByFrequency(m), m)
  BY <1>2, ByFrequencyCarries
<1> QED
  BY <1>1, <1>2, <1>3, CarriesOn DEF Clusters

\* What becomes of the records of a history.
LEMMA PipelineKeeps ==
    ASSUME NEW records \in Seq(Record), HistoryAssumption
    PROVE  /\ Pipeline(records) \in Seq(Query) /\ Len(Pipeline(records)) \in Nat
           /\ Len(Pipeline(records)) <= Len(records)
           /\ Len(Deduplicated(records)) <= MaxQueries /\ (\A r \in Range(records) : r.of.templates)
              => Executions(Pipeline(records)) = Executions(Filtered(records))
<1> DEFINE f == Filtered(records)
           d == Deduplicated(records)
           l == Limited(d)
           c == Clusters(l)
           set == {i \in DOMAIN c : c[i].of.templates}
           p == Pipeline(records)
<1>1. records \in Seq(Query) /\ Len(records) \in Nat
  <2>1. Record \subseteq Query
    BY DEF Record, Query, HistoryAssumption
  <2> QED
    BY <2>1
<1>2. /\ f \in Seq(Query) /\ Len(f) \in Nat /\ Len(f) <= Len(records)
      /\ Shown(f) \subseteq Shown(records)
  <2>1. {i \in DOMAIN records : Useful(records[i])} \in SUBSET DOMAIN records
    OBVIOUS
  <2>2. {records[i].of : i \in {i \in DOMAIN records : Useful(records[i])}} \subseteq Shown(records)
    BY DEF Shown
  <2> QED
    BY <1>1, <2>1, <2>2, SublistHolds DEF Filtered
<1>3. Carries(d, f) /\ d \in Seq(Query)
  BY <1>2, CollectedCarries DEF Deduplicated, Carries
<1>4. Len(d) \in Nat /\ Len(d) <= Len(f)
  BY <1>3 DEF Carries
<1>5. /\ l \in Seq(Query) /\ Len(l) \in Nat /\ Len(l) <= Len(d)
      /\ Len(d) <= MaxQueries => l = d
  <2> HIDE DEF d
  <2>1. MaxQueries \in Nat
    BY DEF HistoryAssumption
  <2>2. CASE Len(d) < MaxQueries
    <3>1. l = SubSeq(d, 1, Len(d))
      BY <2>2 DEF Limited
    <3>2. SubSeq(d, 1, Len(d)) = d
      BY <1>3
    <3> QED
      BY <1>3, <1>4, <3>1, <3>2
  <2>3. CASE ~ (Len(d) < MaxQueries)
    <3>1. l = SubSeq(d, 1, MaxQueries)
      BY <2>3 DEF Limited
    <3>2. l \in Seq(Query) /\ Len(l) = MaxQueries
      BY <1>3, <1>4, <2>1, <2>3, <3>1
    <3>3. Len(d) = MaxQueries => l = d
      BY <1>3, <3>1
    <3> QED
      BY <1>4, <2>1, <2>3, <3>2, <3>3
  <2> QED
    BY <2>2, <2>3
<1>6. c \in Seq(Query) /\ Carries(c, l)
  BY <1>5, ClustersCarry
<1>7. Len(c) \in Nat /\ Len(c) <= Len(l)
  BY <1>6 DEF Carries
<1>8. p = Sublist(c, set)
  BY DEF Pipeline, Parameterized
<1> HIDE DEF f, d, l, c, p
<1>9. p \in Seq(Query) /\ Len(p) \in Nat /\ Len(p) <= Len(c)
  BY <1>6, <1>8, SublistHolds
<1>10. ASSUME Len(d) <= MaxQueries, \A r \in Range(records) : r.of.templates
       PROVE  Executions(p) = Executions(f)
  <2>1. l = d
    BY <1>5, <1>10
  <2>2. Shown(c) \subseteq Shown(records) /\ Executions(c) = Executions(f)
    BY <1>2, <1>3, <1>6, <2>1 DEF Carries
  <2>3. \A s \in Shown(records) : s.templates
    BY <1>10 DEF Shown, Range
  <2>4. set = DOMAIN c
    BY <2>2, <2>3 DEF Shown
  <2>5. Carries(p, c)
    BY <1>6, <1>8, <2>4, WholeSublist
  <2> QED
    BY <2>2, <2>5 DEF Carries
<1>11. Len(p) <= Len(records)
  BY <1>1, <1>2, <1>4, <1>5, <1>7, <1>9
<1> QED
  BY <1>9, <1>10, <1>11 DEF f, d, p

\* The capsules of a history: one a cluster, which has the cluster's executions.
LEMMA CapsulesHold ==
    ASSUME NEW kept \in Seq(Query), Len(kept) <= MaxRecords, HistoryAssumption,
           NEW set, set = {[index |-> i, print |-> kept[i].of.print,
                            frequency |-> kept[i].count] : i \in DOMAIN kept}
    PROVE  /\ set \subseteq Capsule
           /\ IsFiniteSet(set) /\ Cardinality(set) \in Nat /\ Cardinality(set) <= MaxRecords
           /\ SumFunction([c \in set |-> c.frequency]) = Executions(kept)
<1> DEFINE D == DOMAIN kept
           cap == [i \in D |-> [index |-> i, print |-> kept[i].of.print,
                                frequency |-> kept[i].count]]
           f == [c \in set |-> c.frequency]
<1>1. /\ D = 1 .. Len(kept) /\ Len(kept) \in Nat
      /\ \A i \in D : /\ CountOf(kept)[i] = kept[i].count
                      /\ kept[i].count \in Nat /\ kept[i].of \in Statements
      /\ Summable(CountOf(kept), D)
      /\ Executions(kept) = SumFunctionOnSet(CountOf(kept), D)
  BY ExecutionsIs
<1>2. MaxRecords \in Nat
  BY DEF HistoryAssumption
<1>3. \A i \in D : i \in 1 .. MaxRecords
  BY <1>1, <1>2
<1>4. Onto(cap, D) = set
  BY DEF Onto
<1>5. \A i \in D : cap[i].index = i /\ cap[i].frequency = kept[i].count /\ cap[i] \in Capsule
  BY <1>1, <1>3 DEF Capsule
<1> HIDE DEF cap, D
<1>6. set \subseteq Capsule
  BY <1>4, <1>5 DEF Onto
<1>7. OneToOne(cap, D)
  BY <1>5 DEF OneToOne
<1>8. Meets(f, cap, CountOf(kept), D)
  <2>1. \A i \in D : cap[i] \in set
    BY <1>4 DEF Onto
  <2> QED
    BY <1>1, <1>5, <2>1 DEF Meets
<1>9. SumFunction(f) = SumFunctionOnSet(f, set)
  BY DEF SumFunction
<1> HIDE DEF f
<1>10. SumFunctionOnSet(f, set) = Executions(kept)
  <2>1. Summable(CountOf(kept), D) /\ Executions(kept) = SumFunctionOnSet(CountOf(kept), D)
    BY <1>1
  <2>2. SumFunctionOnSet(f, Onto(cap, D)) = SumFunctionOnSet(CountOf(kept), D)
    BY ONLY <1>7, <1>8, <2>1, SumMoves
  <2> QED
    BY <1>4, <2>1, <2>2
<1>11. /\ IsFiniteSet(set) /\ Cardinality(set) \in Nat
       /\ Cardinality(set) <= MaxRecords
  <2>1. [i \in D |-> cap[i]] \in Surjection(D, set)
    BY <1>4 DEF Surjection, Onto
  <2>2. IsFiniteSet(D) /\ Cardinality(D) = Len(kept)
    <3>1. \A n \in Nat : IsFiniteSet(1 .. n) /\ Cardinality(1 .. n) = n
      BY ONLY FS_Interval
    <3> QED
      BY <1>1, <3>1
  <2>3. IsFiniteSet(set) /\ Cardinality(set) <= Len(kept)
    BY <2>1, <2>2, FS_Surjection
  <2>4. Cardinality(set) \in Nat
    BY <2>3, FS_CardinalityType
  <2> QED
    BY <1>1, <1>2, <2>3, <2>4
<1> QED
  BY <1>6, <1>9, <1>10, <1>11 DEF f

\* What holds of a command's capsules: there are no more of them than of its records.
CountedInv ==
    /\ HistoryTypeOK
    /\ IsFiniteSet(capsules) /\ Cardinality(capsules) \in Nat
    /\ Cardinality(capsules) <= MaxRecords
    /\ ExecutionsCountedOnce

\* Nothing is counted before the first extraction.
LEMMA HistoryInitial == HistoryInit => CountedInv
<1> SUFFICES ASSUME HistoryInit PROVE CountedInv
  OBVIOUS
<1>1. IsFiniteSet({}) /\ Cardinality({}) = 0
  BY FS_EmptySet
<1>2. MaxRecords \in Nat /\ Commands \in Nat
  BY HistoryAssumption DEF HistoryAssumption
<1>3. history \in Seq(Record) /\ Len(history) = 0
  BY DEF HistoryInit
<1>4. HistoryTypeOK
  <2>1. reported \in -1 .. MaxRecords /\ commands \in 0 .. Commands /\ Len(history) <= MaxRecords
    BY <1>2, <1>3 DEF HistoryInit
  <2>2. \A set \in {capsules, file, storedCapsules, settled} : set \subseteq Capsule
    BY DEF HistoryInit
  <2> QED
    BY <1>3, <2>1, <2>2 DEF HistoryInit, HistoryTypeOK
<1> QED
  BY <1>1, <1>2, <1>4 DEF HistoryInit, CountedInv, ExecutionsCountedOnce

\* extract-history reads a log.
LEMMA ExtractCounts == CountedInv /\ Extract => CountedInv'
<1> SUFFICES ASSUME CountedInv, Extract PROVE CountedInv'
  OBVIOUS
<1>1. history' \in Seq(Record) /\ Len(history') <= MaxRecords
  <2>1. PICK n \in 0 .. MaxRecords : history' \in [1 .. n -> Record]
    BY DEF Extract
  <2> QED
    BY <2>1, HistoryAssumption DEF HistoryAssumption
<1>2. historyPc' = "extracted" /\ commands' \in 0 .. Commands /\ embeds' \in BOOLEAN /\ reported' = -1
  BY HistoryAssumption DEF Extract, CountedInv, HistoryTypeOK, HistoryAssumption
<1>3. HistoryTypeOK'
  BY <1>1, <1>2, HistoryAssumption
  DEF Extract, CountedInv, HistoryTypeOK, HistoryAssumption
<1> QED
  BY <1>2, <1>3 DEF Extract, CountedInv, ExecutionsCountedOnce

\* The statements of it become capsules.
LEMMA MakeCapsulesCounts == CountedInv /\ MakeCapsules => CountedInv'
<1> SUFFICES ASSUME CountedInv, MakeCapsules PROVE CountedInv'
  OBVIOUS
<1> DEFINE kept == Pipeline(history)
<1>1. history \in Seq(Record) /\ Len(history) <= MaxRecords /\ Len(history) \in Nat
  BY DEF CountedInv, HistoryTypeOK
<1>2. /\ kept \in Seq(Query) /\ Len(kept) \in Nat /\ Len(kept) <= Len(history)
      /\ Len(Deduplicated(history)) <= MaxQueries /\ (\A r \in Range(history) : r.of.templates)
         => Executions(kept) = Executions(Filtered(history))
  BY <1>1, PipelineKeeps, HistoryAssumption
<1>3. capsules' = {[index |-> i, print |-> kept[i].of.print, frequency |-> kept[i].count] :
                      i \in DOMAIN kept}
  BY DEF MakeCapsules
<1> HIDE DEF kept
<1>4. Len(kept) <= MaxRecords
  BY <1>1, <1>2, HistoryAssumption DEF HistoryAssumption
<1>5. /\ capsules' \subseteq Capsule
      /\ IsFiniteSet(capsules') /\ Cardinality(capsules') \in Nat
      /\ Cardinality(capsules') <= MaxRecords
      /\ SumFunction([c \in capsules' |-> c.frequency]) = Executions(kept)
  BY <1>2, <1>3, <1>4, CapsulesHold, HistoryAssumption
<1>6. /\ historyPc' = "made"
      /\ UNCHANGED <<history, embeds, file, storedCapsules, settled, reported, commands>>
  BY DEF MakeCapsules
<1>7. HistoryTypeOK'
  BY <1>5, <1>6 DEF CountedInv, HistoryTypeOK
<1>8. ExecutionsCountedOnce'
  BY <1>2, <1>5, <1>6 DEF ExecutionsCountedOnce
<1> QED
  BY <1>5, <1>7, <1>8 DEF CountedInv

\* The capsules are saved.
LEMMA SaveCapsulesCounts == CountedInv /\ SaveCapsules => CountedInv'
<1> SUFFICES ASSUME CountedInv, SaveCapsules PROVE CountedInv'
  OBVIOUS
<1>1. historyPc' \in {"idle", "saved"} /\ reported' \in -1 .. MaxRecords
  BY HistoryAssumption
  DEF SaveCapsules, HistoryEnds, CountedInv, HistoryTypeOK, HistoryAssumption
<1> QED
  BY <1>1 DEF SaveCapsules, CountedInv, HistoryTypeOK, ExecutionsCountedOnce

\* They are stored.
LEMMA StoreCapsulesCounts == CountedInv /\ StoreCapsules => CountedInv'
<1> SUFFICES ASSUME CountedInv, StoreCapsules PROVE CountedInv'
  OBVIOUS
<1>1. historyPc' \in {"idle", "upserted"}
  BY DEF StoreCapsules, HistoryEnds
<1>2. storedCapsules' \subseteq Capsule /\ settled' \subseteq Capsule
  BY DEF StoreCapsules, Upserted, CountedInv, HistoryTypeOK
<1> QED
  BY <1>1, <1>2 DEF StoreCapsules, CountedInv, HistoryTypeOK, ExecutionsCountedOnce

\* The others of the store are removed.
LEMMA RemoveOthersCounts == CountedInv /\ RemoveOthers => CountedInv'
<1> SUFFICES ASSUME CountedInv, RemoveOthers PROVE CountedInv'
  OBVIOUS
<1>1. historyPc' = "idle" /\ reported' \in -1 .. MaxRecords
  BY HistoryAssumption
  DEF RemoveOthers, HistoryEnds, CountedInv, HistoryTypeOK, HistoryAssumption
<1>2. storedCapsules' \subseteq Capsule /\ settled' \subseteq Capsule
  BY DEF RemoveOthers, OwnPoints, CountedInv, HistoryTypeOK
<1> QED
  BY <1>1, <1>2 DEF RemoveOthers, CountedInv, HistoryTypeOK, ExecutionsCountedOnce

\* A step fails.
LEMMA FailsCounts == CountedInv /\ Fails => CountedInv'
BY DEF Fails, HistoryEnds, CountedInv, HistoryTypeOK, ExecutionsCountedOnce

\* It holds at every step of the commands.
LEMMA CountedInvHolds == HistorySpec => []CountedInv
<1>1. CountedInv /\ [HistoryNext]_historyVars => CountedInv'
  <2>1. ASSUME CountedInv, UNCHANGED historyVars PROVE CountedInv'
    BY <2>1 DEF historyVars, CountedInv, HistoryTypeOK, ExecutionsCountedOnce
  <2> QED
    BY <2>1, ExtractCounts, MakeCapsulesCounts, SaveCapsulesCounts, StoreCapsulesCounts,
       RemoveOthersCounts, FailsCounts
    DEF HistoryNext
<1> QED
  BY HistoryInitial, <1>1, PTL DEF HistorySpec

\* Every execution of a useful statement is in one capsule, whatever the history, the
\* statements and the merges.
THEOREM ExecutionsAlwaysCounted == HistorySpec => [](HistoryTypeOK /\ ExecutionsCountedOnce)
<1>1. CountedInv => HistoryTypeOK /\ ExecutionsCountedOnce
  BY DEF CountedInv
<1> QED
  BY CountedInvHolds, <1>1, PTL

----------------------------------------------------------------------------
(* ConfluenceRead: a space is read whole, as long as no page leaves it.    *)

\* What a request brings that was not there, in the order it came.
LEMMA FreshIsLeft ==
    ASSUME NEW D, Batch \in Seq(D)
    PROVE  /\ FreshPage \in Seq(D)
           /\ ToSet(FreshPage) = ToSet(Batch) \ ToSet(results)
           /\ IsInjective(Batch) => IsInjective(FreshPage)
<1> DEFINE s == Batch
           n == Len(s)
           A == ToSet(results)
           V == Seq(D)
           g == Dropping(D, A)
           F(i) == [t \in SUBSET DOMAIN s |->
                      IF t = {} THEN <<>>
                      ELSE IF s[Max(t)] \in A THEN i[t \ {Max(t)}]
                                              ELSE Append(i[t \ {Max(t)}], s[Max(t)])]
           iter == CHOOSE i : i = F(i)
<1>1. n \in Nat /\ s \in [1 .. n -> D] /\ DOMAIN s = 1 .. n
  OBVIOUS
<1>2. g \in [V \X D -> V]
  BY DroppingFits
<1>3. <<>> \in V
  OBVIOUS
<1>4. \A q \in V, x \in D : g[<<q, x>>] = IF x \in A THEN q ELSE Append(q, x)
  <2> HIDE DEF A
  <2> QED
    BY DEF Dropping
<1>5. FreshPage = iter[1 .. n]
  BY <1>1 DEF FreshPage, FoldLeft, MapThenFoldSet
<1> HIDE DEF s, n, A, V, g
<1>6. \A t \in SUBSET (1 .. n) : t # {} => s[Max(t)] \in D
  BY <1>1, GreatestIsIn
<1>7. iter = F(iter)
  <2>1. PICK h : LeftFold(h, n, s, V, <<>>, g)
    BY <1>1, <1>2, <1>3, FoldLeftExists
  <2>2. h = F(h)
    <3>1. h \in [SUBSET (1 .. n) -> V] /\ h[{}] = <<>>
      BY <2>1 DEF LeftFold
    <3>2. ASSUME NEW t \in SUBSET (1 .. n), t # {}
          PROVE  h[t] = IF s[Max(t)] \in A THEN h[t \ {Max(t)}]
                                           ELSE Append(h[t \ {Max(t)}], s[Max(t)])
      <4>1. h[t] = g[<<h[t \ {Max(t)}], s[Max(t)]>>]
        BY <2>1, <3>2 DEF LeftFold
      <4>2. h[t \ {Max(t)}] \in V /\ s[Max(t)] \in D
        BY <1>6, <3>1, <3>2
      <4> QED
        BY <1>4, <4>1, <4>2
    <3> QED
      BY <1>1, <3>1, <3>2
  <2> QED
    BY <2>2
<1>8. Recurs(iter, n, s, V, <<>>, g)
  <2> HIDE DEF iter
  <2>1. iter[{}] = <<>>
    BY <1>7
  <2>2. ASSUME NEW t \in SUBSET (1 .. n), t # {}, iter[t \ {Max(t)}] \in V
        PROVE  iter[t] = g[<<iter[t \ {Max(t)}], s[Max(t)]>>]
    <3>1. iter[t] = IF s[Max(t)] \in A THEN iter[t \ {Max(t)}]
                                       ELSE Append(iter[t \ {Max(t)}], s[Max(t)])
      BY <1>1, <1>7, <2>2
    <3> QED
      BY <1>4, <1>6, <2>2, <3>1
  <2> QED
    BY <2>1, <2>2 DEF Recurs
<1> HIDE DEF iter
<1>9. RunsTo(iter[1 .. n], n, s, V, <<>>, g)
  BY ONLY <1>1, <1>2, <1>3, <1>8, FoldLeftRuns
<1>10. RunsTo(FreshPage, n, s, Seq(D), <<>>, Dropping(D, A))
  BY <1>5, <1>9 DEF V, g
<1>11. /\ FreshPage \in Seq(D)
       /\ ToSet(FreshPage) = {s[i] : i \in 1 .. n} \ A
       /\ IsInjective(s) => IsInjective(FreshPage)
  BY ONLY <1>1, <1>10, WhatIsLeft
<1>12. {s[i] : i \in 1 .. n} = ToSet(Batch)
  BY <1>1 DEF ToSet, s
<1> QED
  BY <1>11, <1>12 DEF s, A

\* A page of the listing: the pages of the ranks it covers, each once.
PageOf(window, S, from, size) ==
    /\ window \in Seq(S) /\ IsInjective(window)
    /\ Len(Listed(S)) = Cardinality(S) /\ Len(window) \in Nat
    /\ ToSet(window) = {p \in S : from < RankIn(S, p) /\ RankIn(S, p) <= from + size}
    /\ from + size < Len(Listed(S)) =>
          /\ Len(window) = size
          /\ Last(window) \in S /\ RankIn(S, Last(window)) = from + size

\* What a page of the listing holds, for a window anywhere.
LEMMA WindowHolds ==
    ASSUME NEW S \in SUBSET Nat, IsFiniteSet(S), NEW from \in Nat, NEW size \in Nat \ {0},
           NEW window, window = SubSeq(Listed(S), from + 1, Min({from + size, Len(Listed(S))}))
    PROVE  PageOf(window, S, from, size)
<1> DEFINE L == Listed(S)
           n == Cardinality(S)
           to == IF from + size <= n THEN from + size ELSE n
           m == IF from <= to THEN to - from ELSE 0
<1>1. n \in Nat
  BY FS_CardinalityType
<1>2. L \in [1 .. n -> S] /\ L \in Seq(S) /\ Len(L) = n
  BY <1>1, ListedByRank
<1>3. Min({from + size, n}) = to
  <2>1. to \in {from + size, n} /\ \A y \in {from + size, n} : to <= y
    BY <1>1
  <2>2. \A x \in {from + size, n} : (\A y \in {from + size, n} : x <= y) => x = to
    BY <1>1
  <2> QED
    BY <2>1, <2>2 DEF Min
<1>4. to \in Nat /\ m \in Nat /\ to <= n /\ m <= size
  BY <1>1
<1>5. \A i \in 1 .. m : from + i \in 1 .. n /\ from < from + i /\ from + i <= from + size
  BY <1>1
<1>6. \A j \in 1 .. n : from < j /\ j <= from + size => j - from \in 1 .. m /\ from + (j - from) = j
  BY <1>1
<1>7. from + size < n => m = size /\ m # 0
  BY <1>1
<1> HIDE DEF L, n, to, m
<1>8. window = SubSeq(L, from + 1, to)
  BY <1>2, <1>3 DEF L
<1>9. window \in Seq(S) /\ Len(window) = m /\ \A i \in 1 .. m : window[i] = L[from + i]
  <2>1. SubSeq(L, from + 1, to) \in Seq(S)
    BY <1>1, <1>2, <1>4
  <2>2. Len(SubSeq(L, from + 1, to)) = m
    BY <1>1, <1>2, <1>4 DEF m
  <2>3. \A i \in 1 .. m : SubSeq(L, from + 1, to)[i] = L[from + i]
    BY <1>1, <1>2, <1>4 DEF m
  <2> QED
    BY <1>8, <2>1, <2>2, <2>3
<1>10. DOMAIN window = 1 .. m
  BY <1>9
<1>11. \A j \in 1 .. n : RankIn(S, L[j]) = j /\ L[j] \in S
  BY <1>2, ListedByRank DEF L, n
<1>12. \A p \in S : RankIn(S, p) \in 1 .. n /\ L[RankIn(S, p)] = p
  BY ListedByRank, RanksAreOrdered DEF L, n
<1>13. \A i \in 1 .. m : RankIn(S, window[i]) = from + i /\ window[i] \in S
  BY <1>5, <1>9, <1>11
<1>14. IsInjective(window)
  <2> SUFFICES ASSUME NEW i \in 1 .. m, NEW j \in 1 .. m, window[i] = window[j] PROVE i = j
    BY <1>10 DEF IsInjective
  <2>1. from + i = from + j
    BY <1>13
  <2> QED
    BY <2>1, <1>4
<1>15. ToSet(window) = {p \in S : from < RankIn(S, p) /\ RankIn(S, p) <= from + size}
  <2>1. ASSUME NEW p \in ToSet(window)
        PROVE  p \in S /\ from < RankIn(S, p) /\ RankIn(S, p) <= from + size
    <3>1. PICK i \in 1 .. m : p = window[i]
      BY <1>10 DEF ToSet
    <3> QED
      BY <1>5, <1>13, <3>1
  <2>2. ASSUME NEW p \in S, from < RankIn(S, p), RankIn(S, p) <= from + size
        PROVE  p \in ToSet(window)
    <3> DEFINE j == RankIn(S, p)
    <3>1. j \in 1 .. n /\ L[j] = p
      BY <1>12
    <3>2. j - from \in 1 .. m /\ from + (j - from) = j
      BY <1>6, <2>2, <3>1
    <3> HIDE DEF j
    <3>3. window[j - from] = L[j]
      BY <1>9, <3>2
    <3> QED
      BY <1>10, <3>1, <3>2, <3>3 DEF ToSet
  <2> QED
    BY <2>1, <2>2
<1>16. ASSUME from + size < n PROVE /\ Len(window) = size
                                    /\ Last(window) \in S /\ RankIn(S, Last(window)) = from + size
  <2>1. m = size /\ m \in 1 .. m
    BY <1>4, <1>7, <1>16
  <2>2. Last(window) = window[m]
    BY <1>9 DEF Last
  <2> QED
    BY <1>9, <1>13, <2>1, <2>2
<1> QED
  BY <1>2, <1>4, <1>9, <1>14, <1>15, <1>16 DEF L, n, PageOf

\* As long as no page has left, what was read is in the space, and a server that tells
\* no total has given every page that stayed, up to where the next request begins.
ReadSofar ==
    /\ ToSet(results) \subseteq space
    /\ ~totals /\ readPc = "reading" =>
          \A p \in steady : PageRank(p) <= Skipped => p \in ToSet(results)

\* The inductive invariant: until the space shrinks, what was read is what was there to read.
ReadInv ==
    /\ ReadTypeOK
    /\ paging # "cursor" => cursor = 0
    /\ ~shrunk => ReadSofar
    /\ WholeUnlessShrunk

\* The space holds finitely many pages, each listed by its rank, and a reader has passed a
\* number of them.
LEMMA SpaceFits ==
    ASSUME ReadTypeOK
    PROVE  /\ space \in SUBSET Nat /\ IsFiniteSet(space) /\ \A p \in space : p # 0
           /\ Listing = Listed(space) /\ \A p : PageRank(p) = RankIn(space, p)
           /\ Skipped \in Nat
           /\ Skipped = IF cursor # 0 THEN RankIn(space, cursor)
                        ELSE IF paging = "stuck" THEN 0 ELSE consumed
<1>1. space \in SUBSET WikiPages /\ WikiPages \subseteq Nat \ {0} /\ IsFiniteSet(WikiPages)
  BY ReadAssumption DEF ReadTypeOK
<1>2. space \in SUBSET Nat /\ IsFiniteSet(space) /\ \A p \in space : p # 0
  BY <1>1, FS_Subset
<1>3. \A p : PageRank(p) = RankIn(space, p)
  BY DEF PageRank, RankIn
<1>4. Listing = Listed(space)
  BY <1>3 DEF Listing, Listed
<1>5. Skipped = IF cursor # 0 THEN RankIn(space, cursor)
                ELSE IF paging = "stuck" THEN 0 ELSE consumed
  BY DEF Skipped, RankIn
<1>6. Skipped \in Nat
  <2>1. cursor \in Nat /\ consumed \in Nat
    BY <1>1 DEF ReadTypeOK
  <2>2. RankIn(space, cursor) \in Nat
    BY <1>2, <2>1, FS_CardinalityType, RanksAreOrdered
  <2> QED
    BY <1>5, <2>1, <2>2
<1> QED
  BY <1>2, <1>3, <1>4, <1>5, <1>6

\* What one request brings.
LEMMA BatchHolds ==
    ASSUME ReadTypeOK
    PROVE  /\ Batch \in Seq(space) /\ IsInjective(Batch)
           /\ Len(Listing) = Cardinality(space) /\ Len(Batch) \in Nat
           /\ ToSet(Batch) = {p \in space : Skipped < PageRank(p) /\ PageRank(p) <= Skipped + SearchPage}
           /\ HasNext => /\ Len(Batch) = SearchPage
                         /\ Last(Batch) \in space /\ PageRank(Last(Batch)) = Skipped + SearchPage
<1>1. SearchPage \in Nat \ {0}
  BY ReadAssumption
<1>2. Batch = SubSeq(Listed(space), Skipped + 1, Min({Skipped + SearchPage, Len(Listed(space))}))
  BY SpaceFits DEF Batch
<1>3. HasNext <=> Skipped + SearchPage < Len(Listed(space))
  BY SpaceFits DEF HasNext
<1>4. space \in SUBSET Nat /\ IsFiniteSet(space) /\ Skipped \in Nat
  BY SpaceFits
<1>5. PageOf(Batch, space, Skipped, SearchPage)
  BY <1>1, <1>2, <1>4, WindowHolds
<1>6. Listing = Listed(space) /\ \A p : PageRank(p) = RankIn(space, p)
  BY SpaceFits
<1> QED
  BY <1>3, <1>5, <1>6 DEF PageOf

\* The distinct results after a request.
LEMMA DistinctHolds ==
    ASSUME ReadTypeOK, NEW distinct, distinct = results \o FreshPage
    PROVE  /\ distinct \in Seq(WikiPages) /\ IsInjective(distinct)
           /\ ToSet(distinct) = ToSet(results) \cup ToSet(Batch)
           /\ IsFiniteSet(ToSet(distinct)) /\ Cardinality(ToSet(distinct)) = Len(distinct)
<1>1. space \subseteq WikiPages /\ results \in Seq(WikiPages) /\ IsInjective(results)
  BY DEF ReadTypeOK
<1>2. Batch \in Seq(space) /\ IsInjective(Batch)
  BY BatchHolds
<1>3. Batch \in Seq(WikiPages)
  BY <1>1, <1>2
<1>4. /\ FreshPage \in Seq(WikiPages)
      /\ ToSet(FreshPage) = ToSet(Batch) \ ToSet(results)
      /\ IsInjective(FreshPage)
  BY <1>2, <1>3, FreshIsLeft
<1>5. /\ distinct \in Seq(WikiPages)
      /\ ToSet(distinct) = ToSet(results) \cup ToSet(FreshPage)
      /\ IsInjective(distinct)
  BY <1>1, <1>4, ConcatAdds
<1> QED
  BY <1>4, <1>5, InjectiveCounts

\* Nothing has been read at first.
LEMMA ReadInitial == ReadInit => ReadInv
<1> SUFFICES ASSUME ReadInit PROVE ReadInv
  OBVIOUS
<1>1. results \in Seq(WikiPages) /\ IsInjective(results) /\ ToSet(results) = {}
  BY DEF ReadInit, IsInjective, ToSet
<1>2. ReadTypeOK
  <2>1. 0 \in Nat /\ 0 \in 0 .. SpaceChanges
    BY ReadAssumption
  <2>2. paging \in {"cursor", "start", "stuck"} /\ totals \in BOOLEAN /\ shrunk \in BOOLEAN
    BY DEF ReadInit
  <2> QED
    BY <1>1, <2>1, <2>2 DEF ReadInit, ReadTypeOK
<1>3. Skipped = 0
  BY <1>2, SpaceFits DEF ReadInit
<1>4. \A p \in steady : PageRank(p) \in 1 .. Cardinality(space) /\ Cardinality(space) \in Nat
  BY <1>2, SpaceFits, RanksAreOrdered, FS_CardinalityType DEF ReadInit
<1>5. \A p \in steady : ~ (PageRank(p) <= Skipped)
  BY <1>3, <1>4
<1> QED
  BY <1>1, <1>2, <1>5 DEF ReadInv, ReadSofar, ReadInit, WholeUnlessShrunk

\* A page that enters moves others back, and so none of those not read before the next
\* request begins.
LEMMA PageEntersKeeps == ReadInv /\ (\E page \in WikiPages : PageEnters(page)) => ReadInv'
<1> SUFFICES ASSUME ReadInv, NEW page \in WikiPages, PageEnters(page) PROVE ReadInv'
  OBVIOUS
<1>1. ReadTypeOK
  BY DEF ReadInv
<1>2. /\ space' = space \cup {page} /\ steady' = steady /\ shrunk' = shrunk
      /\ paging' = paging /\ totals' = totals /\ results' = results /\ consumed' = consumed
      /\ cursor' = cursor /\ readPc' = readPc /\ readPc = "reading"
      /\ spaceChanges' = spaceChanges + 1 /\ spaceChanges < SpaceChanges
  BY DEF PageEnters, SpaceChange
<1>3. ReadTypeOK'
  BY <1>1, <1>2, ReadAssumption DEF ReadTypeOK
<1>4. /\ space \in SUBSET Nat /\ IsFiniteSet(space) /\ space' \in SUBSET Nat /\ IsFiniteSet(space')
  BY <1>2, <1>1, <1>3, SpaceFits, FS_AddElement, ReadAssumption
<1>5. ASSUME ~shrunk, ~totals, NEW p \in steady, RankIn(space', p) <= Skipped' PROVE p \in ToSet(results)
  <2>1. /\ p \in space /\ p \in space' /\ p \in Nat /\ consumed \in Nat
        /\ cursor \in Nat
    BY <1>1, <1>2, <1>4, ReadAssumption DEF ReadTypeOK
  <2>2. Skipped' = IF cursor # 0 THEN RankIn(space', cursor)
                   ELSE IF paging = "stuck" THEN 0 ELSE consumed
    BY <1>2 DEF Skipped, RankIn
  <2>3. Skipped = IF cursor # 0 THEN RankIn(space, cursor)
                  ELSE IF paging = "stuck" THEN 0 ELSE consumed
    BY <1>1, SpaceFits
  <2>4. RankIn(space, p) <= RankIn(space', p)
    <3>1. {other \in space : other <= p} \in SUBSET {other \in space' : other <= p}
      BY <1>2
    <3>2. IsFiniteSet({other \in space' : other <= p})
      BY <1>4, FS_Subset
    <3> QED
      BY <3>1, <3>2, FS_Subset DEF RankIn
  <2>5. /\ RankIn(space, p) \in 1 .. Cardinality(space) /\ RankIn(space', p) \in 1 .. Cardinality(space')
        /\ Cardinality(space) \in Nat /\ Cardinality(space') \in Nat
    BY <1>4, <2>1, RanksAreOrdered, FS_CardinalityType
  <2>6. RankIn(space, p) <= Skipped
    <3>1. CASE cursor # 0
      <4>1. RankIn(space', p) <= RankIn(space', cursor)
        BY <1>5, <2>2, <3>1
      <4>2. RankIn(space', cursor) \in 0 .. Cardinality(space')
        BY <1>4, <2>1, RanksAreOrdered
      <4>3. ~ (cursor < p)
        <5>1. cursor < p => RankIn(space', cursor) < RankIn(space', p)
          BY <1>4, <2>1, RanksAreOrdered
        <5> QED
          BY <2>5, <4>1, <4>2, <5>1
      <4>4. p <= cursor
        BY <2>1, <4>3
      <4>5. RankIn(space, p) <= RankIn(space, cursor)
        BY <1>4, <2>1, <4>4, RanksAreOrdered
      <4> QED
        BY <2>3, <3>1, <4>5
    <3>2. CASE cursor = 0 /\ paging = "stuck"
      BY <1>5, <2>2, <2>5, <3>2
    <3>3. CASE cursor = 0 /\ paging # "stuck"
      BY <1>5, <2>1, <2>2, <2>3, <2>4, <2>5, <3>3
    <3> QED
      BY <3>1, <3>2, <3>3
  <2> QED
    BY <1>1, <1>2, <1>5, <2>6, SpaceFits DEF ReadInv, ReadSofar
<1>6. \A p : PageRank(p)' = RankIn(space', p)
  BY DEF PageRank, RankIn
<1>7. ~shrunk => ReadSofar'
  BY <1>2, <1>5, <1>6 DEF ReadInv, ReadSofar
<1> QED
  BY <1>2, <1>3, <1>7 DEF ReadInv, WholeUnlessShrunk

\* A page leaves the space.
LEMMA LeavesKeeps == ReadInv /\ (\E page \in WikiPages : Leaves(page)) => ReadInv'
<1> SUFFICES ASSUME ReadInv, NEW page \in WikiPages, Leaves(page) PROVE ReadInv'
  OBVIOUS
<1>1. ReadTypeOK' /\ shrunk'
  BY ReadAssumption DEF ReadInv, ReadTypeOK, Leaves, SpaceChange
<1> QED
  BY <1>1 DEF ReadInv, WholeUnlessShrunk, Leaves, SpaceChange

\* The next page of results is asked for.
LEMMA SearchKeeps == ReadInv /\ Search => ReadInv'
<1> SUFFICES ASSUME ReadInv, Search PROVE ReadInv'
  OBVIOUS
<1> DEFINE distinct == results \o FreshPage
           more == IF totals THEN consumed + Len(Batch) < Len(Listing) ELSE HasNext
<1>1. ReadTypeOK
  BY DEF ReadInv
<1>2. /\ results' = distinct /\ consumed' = consumed + Len(Batch)
      /\ cursor' = IF paging = "cursor" /\ HasNext THEN Last(Batch) ELSE 0
      /\ space' = space /\ paging' = paging /\ totals' = totals /\ spaceChanges' = spaceChanges
      /\ steady' = steady /\ shrunk' = shrunk /\ readPc = "reading"
  BY DEF Search
<1>3. /\ readPc' \in {"reading", "refused", "returned"}
      /\ readPc' = "reading" => more
      /\ readPc' = "returned" => ~more /\ ~Short(distinct)
  BY DEF Search
<1> HIDE DEF distinct, more
<1>4. /\ distinct \in Seq(WikiPages) /\ IsInjective(distinct)
      /\ ToSet(distinct) = ToSet(results) \cup ToSet(Batch)
      /\ IsFiniteSet(ToSet(distinct)) /\ Cardinality(ToSet(distinct)) = Len(distinct)
  BY <1>1, DistinctHolds DEF distinct
<1>5. /\ Batch \in Seq(space) /\ Len(Listing) = Cardinality(space) /\ Len(Batch) \in Nat
      /\ ToSet(Batch) = {p \in space : Skipped < PageRank(p) /\ PageRank(p) <= Skipped + SearchPage}
      /\ HasNext => /\ Len(Batch) = SearchPage
                    /\ Last(Batch) \in space /\ PageRank(Last(Batch)) = Skipped + SearchPage
  BY <1>1, BatchHolds
<1>6. /\ space \in SUBSET Nat /\ IsFiniteSet(space) /\ Skipped \in Nat /\ SearchPage \in Nat \ {0}
      /\ \A p \in space : PageRank(p) \in 1 .. Cardinality(space)
      /\ Cardinality(space) \in Nat /\ steady \subseteq space
  BY <1>1, SpaceFits, ReadAssumption, RanksAreOrdered, FS_CardinalityType DEF ReadTypeOK
<1>7. ReadTypeOK'
  <2>1. cursor' \in WikiPages \cup {0} /\ consumed' \in Nat
    BY <1>1, <1>2, <1>5 DEF ReadTypeOK
  <2> QED
    BY <1>1, <1>2, <1>3, <1>4, <2>1 DEF ReadTypeOK
<1>8. ~shrunk => ToSet(distinct) \subseteq space
  BY <1>4, <1>5 DEF ReadInv, ReadSofar
\* Whoever stayed and comes before the end of the batch has been read.
<1>9. ASSUME ~shrunk, ~totals, NEW p \in steady, PageRank(p) <= Skipped + SearchPage
      PROVE  p \in ToSet(distinct)
  <2>1. PageRank(p) <= Skipped => p \in ToSet(results)
    BY <1>2, <1>9 DEF ReadInv, ReadSofar
  <2>2. Skipped < PageRank(p) => p \in ToSet(Batch)
    BY <1>5, <1>6, <1>9
  <2> QED
    BY <1>4, <1>6, <2>1, <2>2
<1>10. \A p : PageRank(p)' = PageRank(p)
  BY <1>2 DEF PageRank
<1>11. ASSUME ~shrunk, ~totals, readPc' = "reading", NEW p \in steady, PageRank(p) <= Skipped'
       PROVE  p \in ToSet(distinct)
  <2>1. HasNext
    BY <1>3, <1>11 DEF more
  <2>2. Skipped' = IF cursor' # 0 THEN RankIn(space, cursor')
                   ELSE IF paging = "stuck" THEN 0 ELSE consumed'
    BY <1>2 DEF Skipped, RankIn
  <2>3. CASE paging = "cursor"
    <3>1. cursor' = Last(Batch) /\ cursor' # 0
      BY <1>1, <1>2, <1>5, <2>1, <2>3, SpaceFits
    <3>2. Skipped' = PageRank(Last(Batch))
      BY <1>1, <2>2, <3>1, SpaceFits
    <3> QED
      BY <1>5, <1>9, <1>11, <2>1, <3>2
  <2>4. CASE paging = "stuck"
    <3>1. Skipped' = 0
      BY <1>2, <2>2, <2>4
    <3> QED
      BY <1>6, <1>11, <3>1
  <2>5. CASE paging = "start"
    <3>1. Skipped' = consumed + SearchPage
      BY <1>2, <1>5, <2>1, <2>2, <2>5
    <3>2. Skipped = consumed
      BY <1>1, <2>5, SpaceFits DEF ReadInv
    <3> QED
      BY <1>9, <1>11, <3>1, <3>2
  <2> QED
    BY <1>1, <2>3, <2>4, <2>5 DEF ReadTypeOK
<1>12. ~shrunk => ReadSofar'
  BY <1>2, <1>8, <1>10, <1>11 DEF ReadSofar
<1>13. ASSUME ~shrunk, readPc' = "returned" PROVE steady \subseteq ToSet(distinct)
  <2>1. CASE totals
    <3>1. Len(distinct) >= Cardinality(space)
      <4>1. ~ (Len(distinct) < Cardinality(space))
        BY <1>3, <1>5, <1>13, <2>1 DEF Short
      <4>2. Len(distinct) \in Nat
        BY <1>4
      <4> QED
        BY <1>6, <4>1, <4>2
    <3>2. ToSet(distinct) \in SUBSET space
      BY <1>8, <1>13
    <3>3. Cardinality(ToSet(distinct)) <= Cardinality(space)
      BY <1>6, <3>2, FS_Subset
    <3>4. Cardinality(ToSet(distinct)) = Cardinality(space)
      BY <1>4, <1>6, <3>1, <3>3
    <3>5. ToSet(distinct) = space
      BY <1>6, <3>2, <3>4, FS_Subset
    <3> QED
      BY <1>6, <3>5
  <2>2. CASE ~totals
    <3>1. ~ (Skipped + SearchPage < Cardinality(space))
      BY <1>3, <1>5, <1>13, <2>2 DEF more, HasNext
    <3>2. \A p \in steady : PageRank(p) <= Skipped + SearchPage
      BY <1>6, <3>1
    <3> QED
      BY <1>9, <1>13, <2>2, <3>2
  <2> QED
    BY <2>1, <2>2
<1>14. WholeUnlessShrunk'
  BY <1>2, <1>13 DEF WholeUnlessShrunk
<1>15. (paging # "cursor" => cursor = 0)'
  BY <1>2
<1> QED
  BY <1>2, <1>7, <1>12, <1>14, <1>15 DEF ReadInv

\* A step of nobody.
LEMMA ReadStays == ReadInv /\ UNCHANGED readVars => ReadInv'
<1> SUFFICES ASSUME ReadInv, UNCHANGED readVars PROVE ReadInv'
  OBVIOUS
<1>1. ReadTypeOK' /\ (paging # "cursor" => cursor = 0)' /\ WholeUnlessShrunk'
  BY DEF ReadInv, ReadTypeOK, WholeUnlessShrunk, readVars
<1>2. Skipped' = Skipped
  BY DEF Skipped, readVars
<1>3. \A p : PageRank(p)' = PageRank(p)
  BY DEF PageRank, readVars
<1>4. ~shrunk => ReadSofar'
  BY <1>2, <1>3 DEF ReadInv, ReadSofar, readVars
<1> QED
  BY <1>1, <1>4 DEF ReadInv, readVars

\* It holds at every search and every change of the space.
LEMMA ReadInvHolds == ReadSpec => []ReadInv
<1>1. ReadInv /\ [ReadNext]_readVars => ReadInv'
  BY PageEntersKeeps, LeavesKeeps, SearchKeeps, ReadStays DEF ReadNext
<1> QED
  BY ReadInitial, <1>1, PTL DEF ReadSpec

\* A read of a space that only grew meanwhile is whole or refused, however the server
\* pages, whatever it tells and whenever pages arrive.
THEOREM ReadsAreWhole == ReadSpec => [](ReadTypeOK /\ WholeUnlessShrunk)
<1>1. ReadInv => ReadTypeOK /\ WholeUnlessShrunk
  BY DEF ReadInv
<1> QED
  BY ReadInvHolds, <1>1, PTL

----------------------------------------------------------------------------
(* EmbedBatch: a part of several texts is never refused.                   *)

\* One more text adds its own size.
LEMMA TextsAdd ==
    ASSUME NEW texts \in Seq(Measure), NEW n \in 1 .. Len(texts)
    PROVE  /\ Chars(SubSeq(texts, 1, n)) = Chars(SubSeq(texts, 1, n - 1)) + texts[n].chars
           /\ Bytes(SubSeq(texts, 1, n)) = Bytes(SubSeq(texts, 1, n - 1)) + texts[n].bytes
           /\ Chars(SubSeq(texts, 1, n - 1)) \in Nat /\ Bytes(SubSeq(texts, 1, n - 1)) \in Nat
           /\ texts[n].chars \in Nat /\ texts[n].bytes \in Nat
<1>1. \A t \in Measure : t.chars \in Nat /\ t.bytes \in Nat
  BY DEF Measure
<1>2. \A i \in 1 .. n : texts[i] \in Measure
  OBVIOUS
<1> DEFINE p == SubSeq(texts, 1, n)
           q == SubSeq(texts, 1, n - 1)
<1>3. /\ n \in Nat \ {0} /\ DOMAIN p = 1 .. n /\ DOMAIN q = 1 .. n - 1
      /\ \A i \in 1 .. n : p[i] = texts[i]
      /\ \A i \in 1 .. n - 1 : q[i] = texts[i] /\ i \in 1 .. n
      /\ n \in 1 .. n
  OBVIOUS
<1> HIDE DEF p, q, Measure
<1>4. Chars(p) = Chars(q) + texts[n].chars /\ Chars(q) \in Nat
  <2> DEFINE f == [i \in 1 .. n |-> p[i].chars]
             g == [i \in 1 .. n - 1 |-> q[i].chars]
  <2>1. f \in [1 .. n -> Nat] /\ g \in [1 .. n - 1 -> Nat] /\ f[n] = texts[n].chars
    BY <1>1, <1>2, <1>3
  <2>2. \A i \in 1 .. n - 1 : g[i] = f[i]
    BY <1>3
  <2>3. Chars(p) = SumFunction(f) /\ Chars(q) = SumFunction(g)
    BY <1>3 DEF Chars
  <2> HIDE DEF f, g
  <2>4. SumFunction(f) = SumFunction(g) + f[n] /\ SumFunction(g) \in Nat
    BY <1>3, <2>1, <2>2, SumGrows
  <2> QED
    BY <2>1, <2>3, <2>4
<1>5. Bytes(p) = Bytes(q) + texts[n].bytes /\ Bytes(q) \in Nat
  <2> DEFINE f == [i \in 1 .. n |-> p[i].bytes]
             g == [i \in 1 .. n - 1 |-> q[i].bytes]
  <2>1. f \in [1 .. n -> Nat] /\ g \in [1 .. n - 1 -> Nat] /\ f[n] = texts[n].bytes
    BY <1>1, <1>2, <1>3
  <2>2. \A i \in 1 .. n - 1 : g[i] = f[i]
    BY <1>3
  <2>3. Bytes(p) = SumFunction(f) /\ Bytes(q) = SumFunction(g)
    BY <1>3 DEF Bytes
  <2> HIDE DEF f, g
  <2>4. SumFunction(f) = SumFunction(g) + f[n] /\ SumFunction(g) \in Nat
    BY <1>3, <2>1, <2>2, SumGrows
  <2> QED
    BY <2>1, <2>3, <2>4
<1> QED
  BY <1>1, <1>2, <1>3, <1>4, <1>5 DEF p, q

\* The part sent next is a beginning of what is left, and no text of it but the first found
\* the part full.
LEMMA NextPartHolds ==
    ASSUME NEW texts \in Seq(Measure), texts # <<>>
    PROVE  /\ NextPart(texts) \in 1 .. Len(texts)
           /\ \A i \in 1 .. NextPart(texts) - 1 : ~Full(SubSeq(texts, 1, i), texts[i + 1])
<1> DEFINE N == {n \in 1 .. Len(texts) :
                    \A i \in 1 .. n - 1 : ~Full(SubSeq(texts, 1, i), texts[i + 1])}
<1>1. N \in SUBSET (1 .. Len(texts)) /\ Len(texts) \in Nat
  OBVIOUS
<1>2. 1 \in N
  <2>1. 1 \in 1 .. Len(texts) /\ \A i : i \notin 1 .. 1 - 1
    OBVIOUS
  <2> QED
    BY <2>1
<1>3. Max(N) \in N
  <2> HIDE DEF N
  <2> QED
    BY <1>1, <1>2, GreatestIsIn
<1>4. NextPart(texts) = Max(N)
  BY DEF NextPart
<1> QED
  BY <1>3, <1>4

\* A request the client makes is refused for its size only.
LEMMA VerdictHolds ==
    ASSUME NEW texts \in Seq(Measure)
    PROVE  /\ Verdict(BatchRequest(texts)) \in {200, 0, 400, 404, 413, 415, 421}
           /\ ~ (BodySize(texts) > MaxBody) /\ ~ (Len(texts) > MaxTexts) /\ ~ (Chars(texts) > MaxChars)
                 => Verdict(BatchRequest(texts)) = 200
<1> DEFINE r == BatchRequest(texts)
           C == Checks(r)
           failed == {i \in DOMAIN C : C[i][2]}
<1>1. /\ r.path = "/embed-batch" /\ r.loopback = TRUE /\ r.json = TRUE /\ r.body = "whole"
      /\ r.typed = TRUE /\ r.texts = texts
  BY DEF BatchRequest
<1> HIDE DEF r
<1>2. DOMAIN C = 1 .. 8
  BY DEF Checks
<1>3. \A i \in 1 .. 8 : C[i][1] \in {200, 0, 400, 404, 413, 415, 421}
  <2>1. /\ C[1][1] = 404 /\ C[2][1] = 421 /\ C[3][1] = 415 /\ C[4][1] = 0
        /\ C[5][1] = 400 /\ C[6][1] = 400 /\ C[7][1] = 413 /\ C[8][1] = 413
    BY DEF Checks
  <2>2. \A i \in 1 .. 8 : i \in {1, 2, 3, 4, 5, 6, 7, 8}
    OBVIOUS
  <2> HIDE DEF C
  <2> DEFINE codes == {200, 0, 400, 404, 413, 415, 421}
  <2>3. /\ C[1][1] \in codes /\ C[2][1] \in codes /\ C[3][1] \in codes /\ C[4][1] \in codes
        /\ C[5][1] \in codes /\ C[6][1] \in codes /\ C[7][1] \in codes /\ C[8][1] \in codes
    BY <2>1
  <2> HIDE DEF codes
  <2>4. \A i \in 1 .. 8 : C[i][1] \in codes
    BY <2>2, <2>3
  <2> QED
    BY <2>4 DEF codes
<1>4. Verdict(r) = IF failed = {} THEN 200 ELSE C[Min(failed)][1]
  BY DEF Verdict
<1>5. failed # {} => Min(failed) \in 1 .. 8
  <2> SUFFICES ASSUME failed # {} PROVE Min(failed) \in 1 .. 8
    OBVIOUS
  <2>1. failed \in SUBSET (1 .. 8) /\ failed \in SUBSET Nat
    BY <1>2
  <2> HIDE DEF failed
  <2>2. \E x \in failed : \A y \in failed : x <= y
    BY <2>1, Least
  <2> QED
    BY <2>1, <2>2 DEF Min
<1>6. Verdict(r) \in {200, 0, 400, 404, 413, 415, 421}
  <2> HIDE DEF C, failed
  <2> QED
    BY <1>3, <1>4, <1>5
<1>7. ASSUME ~ (BodySize(texts) > MaxBody), ~ (Len(texts) > MaxTexts), ~ (Chars(texts) > MaxChars)
      PROVE  Verdict(r) = 200
  <2>1. /\ C[1][2] = (r.path \notin {"/embed", "/embed-batch"})
        /\ C[2][2] = ~r.loopback
        /\ C[3][2] = ~r.json
        /\ C[4][2] = (r.body = "cut")
        /\ C[5][2] = (r.body = "bad" \/ BodySize(r.texts) > MaxBody)
        /\ C[6][2] = ~r.typed
        /\ C[7][2] = (Len(r.texts) > MaxTexts)
        /\ C[8][2] = (Chars(r.texts) > MaxChars)
    BY DEF Checks
  <2>2. \A i \in 1 .. 8 : i \in {1, 2, 3, 4, 5, 6, 7, 8}
    OBVIOUS
  <2> HIDE DEF C
  <2>3. /\ ~C[1][2] /\ ~C[2][2] /\ ~C[3][2] /\ ~C[4][2]
        /\ ~C[5][2] /\ ~C[6][2] /\ ~C[7][2] /\ ~C[8][2]
    BY <1>1, <1>7, <2>1
  <2>4. \A i \in 1 .. 8 : ~C[i][2]
    BY <2>2, <2>3
  <2>5. failed = {}
    BY <1>2, <2>4
  <2> QED
    BY <1>4, <2>5
<1> QED
  BY <1>6, <1>7 DEF r

\* A part of several texts passes every check.
LEMMA PartPasses ==
    ASSUME NEW texts \in Seq(Measure), texts # <<>>, NextPart(texts) # 1
    PROVE  Verdict(BatchRequest(SubSeq(texts, 1, NextPart(texts)))) = 200
<1> DEFINE n == NextPart(texts)
           part == SubSeq(texts, 1, n)
           sub == SubSeq(texts, 1, n - 1)
<1>1. n \in 1 .. Len(texts) /\ \A i \in 1 .. n - 1 : ~Full(SubSeq(texts, 1, i), texts[i + 1])
  BY NextPartHolds
<1>2. n # 1
  OBVIOUS
<1> HIDE DEF n
<1>3. n - 1 \in 1 .. n - 1 /\ (n - 1) + 1 = n /\ n \in Nat
  BY <1>1, <1>2
<1>4. \A i \in 1 .. n - 1 : SubSeq(texts, 1, i) # <<>> /\ Len(SubSeq(texts, 1, i)) = i
  BY <1>1
<1>5. part \in Seq(Measure) /\ Len(part) = n /\ part # <<>> /\ Len(sub) = n - 1
  BY <1>1, <1>3, <1>4
<1>6. /\ Chars(part) = Chars(sub) + texts[n].chars /\ Bytes(part) = Bytes(sub) + texts[n].bytes
      /\ Chars(sub) \in Nat /\ Bytes(sub) \in Nat
      /\ texts[n].chars \in Nat /\ texts[n].bytes \in Nat
  BY <1>1, TextsAdd
<1>7. ~Full(sub, texts[n]) /\ sub # <<>>
  BY <1>1, <1>3, <1>4
<1>8. \A i \in 1 .. n - 1 : i # MaxTexts
  BY <1>1, <1>4 DEF Full
<1>9. MaxTexts \in Nat \ {0} /\ MaxChars \in Nat /\ MaxBody \in Nat /\ Envelope \in Nat
  BY WireAssumption
<1> HIDE DEF part, sub
<1>10. ~ (Len(part) > MaxTexts)
  <2>1. MaxTexts \notin 1 .. n - 1
    BY <1>8
  <2>2. ~ (n > MaxTexts)
    BY ONLY <1>3, <1>9, <2>1
  <2> QED
    BY <1>5, <2>2
<1>11. ~ (Chars(part) > MaxChars)
  BY <1>6, <1>7 DEF Full
<1>12. ~ (BodySize(part) > MaxBody)
  <2>1. ~ (Envelope + Bytes(sub) + (n - 1) + texts[n].bytes + 1 > MaxBody)
    BY <1>5, <1>7 DEF Full, Budget
  <2>2. BodySize(part) = Envelope + Bytes(part) + (n - 1)
    BY <1>5 DEF BodySize
  <2> DEFINE b == Bytes(sub)
             x == texts[n].bytes
  <2>3. /\ ~ (Envelope + b + (n - 1) + x + 1 > MaxBody) /\ BodySize(part) = Envelope + (b + x) + (n - 1)
        /\ b \in Nat /\ x \in Nat /\ Envelope \in Nat /\ MaxBody \in Nat /\ n \in Nat
    BY <1>3, <1>6, <1>9, <2>1, <2>2
  <2> HIDE DEF b, x
  <2> QED
    BY ONLY <2>3
<1>13. Verdict(BatchRequest(part)) = 200
  BY <1>5, <1>10, <1>11, <1>12, VerdictHolds
<1> QED
  BY <1>13 DEF part, n

\* The inductive invariant: nothing was refused while parts are sent.
BatchInv ==
    /\ BatchTypeOK
    /\ batchPc = "sending" => refusal = 200
    /\ RefusalIsTheTexts

\* Nothing has been sent at first.
LEMMA BatchInitial == BatchInit => BatchInv
<1> SUFFICES ASSUME BatchInit PROVE BatchInv
  OBVIOUS
<1>1. BatchTypeOK
  BY DEF BatchInit, BatchTypeOK
<1>2. batch \in Seq(Measure)
  BY BatchAssumption DEF BatchInit
<1>3. FlattenSeq(sent) = <<>>
  BY DEF BatchInit, FlattenSeq
<1>4. IsPrefix(FlattenSeq(sent), batch)
  <2>1. Len(<<>>) <= Len(batch) /\ SubSeq(<<>>, 1, Len(<<>>)) = SubSeq(batch, 1, Len(<<>>))
    BY <1>2
  <2> QED
    BY <1>3, <2>1 DEF IsPrefix
<1> QED
  BY <1>1, <1>4 DEF BatchInit, BatchInv, RefusalIsTheTexts

\* The next part is sent, and accepted, refused or lost.
LEMMA SendPartKeeps == BatchInv /\ SendPart => BatchInv'
<1> SUFFICES ASSUME BatchInv, SendPart PROVE BatchInv'
  OBVIOUS
<1> DEFINE flat == FlattenSeq(sent)
           L == Len(flat)
           m == NextPart(Rest)
           part == SubSeq(Rest, 1, m)
           status == Verdict(BatchRequest(part))
<1>1. /\ sent' = Append(sent, part) /\ refusal' = status /\ batch' = batch
      /\ batchPc' = IF status = 200 THEN "sending" ELSE "fallback"
      /\ Rest # <<>>
  BY DEF SendPart
<1>2. batch \in Seq(Measure) /\ sent \in Seq(Seq(Measure)) /\ batch \in BatchInputs
  BY BatchAssumption DEF BatchInv, BatchTypeOK
<1>3. flat \in Seq(Measure) /\ L \in Nat /\ L <= Len(batch) /\ SubSeq(flat, 1, L) = SubSeq(batch, 1, L)
  BY <1>2, FlattenAppends DEF BatchInv, RefusalIsTheTexts, IsPrefix
<1>4. Rest = SubSeq(batch, L + 1, Len(batch))
  BY DEF Rest
<1> HIDE DEF flat, L, m, part, status
<1>5. Rest \in Seq(Measure) /\ Len(Rest) = Len(batch) - L
  BY <1>2, <1>3, <1>4
<1>6. m \in 1 .. Len(Rest)
  BY <1>1, <1>5, NextPartHolds DEF m
<1>7. part \in Seq(Measure) /\ Len(part) = m
  BY <1>5, <1>6 DEF part
<1>8. sent' \in Seq(Seq(Measure)) /\ FlattenSeq(sent') = flat \o part /\ Last(sent') = part
  <2>1. Append(sent, part) \in Seq(Seq(Measure)) /\ Last(Append(sent, part)) = part
    BY <1>2, <1>7 DEF Last
  <2>2. FlattenSeq(Append(sent, part)) = flat \o part
    BY <1>2, <1>7, FlattenAppends DEF flat
  <2> QED
    BY <1>1, <2>1, <2>2
<1>9. status \in {200, 0, 400, 404, 413, 415, 421}
  BY <1>7, VerdictHolds DEF status
<1>10. m # 1 => status = 200
  BY <1>1, <1>5, PartPasses DEF m, status, part
<1>11. BatchTypeOK'
  BY <1>1, <1>2, <1>8, <1>9 DEF BatchTypeOK
<1>12. IsPrefix(flat \o part, batch)
  <2> DEFINE z == flat \o part
  <2>1. z \in Seq(Measure) /\ Len(z) = L + m
    BY <1>3, <1>7 DEF L
  <2>2. L + m <= Len(batch) /\ L + m \in Nat /\ m \in Nat
    BY <1>2, <1>3, <1>5, <1>6
  <2>3. ASSUME NEW i \in 1 .. L + m PROVE z[i] = batch[i]
    <3>1. CASE i <= L
      <4>1. i \in 1 .. L /\ z[i] = flat[i]
        BY <1>3, <1>7, <2>2, <3>1 DEF L
      <4>2. flat[i] = SubSeq(flat, 1, L)[i] /\ batch[i] = SubSeq(batch, 1, L)[i]
        BY <1>2, <1>3, <4>1 DEF L
      <4> QED
        BY <1>3, <4>1, <4>2
    <3>2. CASE ~ (i <= L)
      <4>1. i - L \in 1 .. m /\ z[i] = part[i - L]
        BY <1>3, <1>7, <2>2, <3>2 DEF L
      <4>2. part[i - L] = Rest[i - L]
        BY <1>5, <1>6, <4>1 DEF part
      <4>3. Rest[i - L] = batch[i]
        BY <1>2, <1>3, <1>4, <1>5, <1>6, <4>1
      <4> QED
        BY <4>1, <4>2, <4>3
    <3> QED
      BY <3>1, <3>2
  <2> HIDE DEF z
  <2>4. SubSeq(z, 1, L + m) = SubSeq(batch, 1, L + m)
    BY <1>2, <2>1, <2>2, <2>3
  <2>5. Len(z) <= Len(batch)
    BY <2>1, <2>2
  <2>6. IsPrefix(z, batch)
    BY <2>1, <2>4, <2>5 DEF IsPrefix
  <2> QED
    BY <2>6 DEF z
<1>13. RefusalIsTheTexts'
  BY <1>1, <1>7, <1>8, <1>10, <1>12 DEF RefusalIsTheTexts, status
<1> QED
  BY <1>1, <1>11, <1>13 DEF BatchInv

\* Every part has been sent.
LEMMA BatchDoneKeeps == BatchInv /\ BatchDone => BatchInv'
<1> SUFFICES ASSUME BatchInv, BatchDone PROVE BatchInv'
  OBVIOUS
<1> DEFINE flat == FlattenSeq(sent)
           L == Len(flat)
<1>1. /\ batch' = batch /\ sent' = sent /\ refusal' = refusal /\ batchPc' = "done"
      /\ batchPc = "sending" /\ Rest = <<>>
  BY DEF BatchDone
<1>2. batch \in Seq(Measure) /\ sent \in Seq(Seq(Measure))
  BY BatchAssumption DEF BatchInv, BatchTypeOK
<1>3. flat \in Seq(Measure) /\ L \in Nat /\ L <= Len(batch) /\ SubSeq(flat, 1, L) = SubSeq(batch, 1, L)
  <2>1. <<>> \in Seq(Measure)
    OBVIOUS
  <2> QED
    BY <1>2, <2>1, FlattenAppends DEF BatchInv, RefusalIsTheTexts, IsPrefix
<1>4. Rest = SubSeq(batch, L + 1, Len(batch))
  BY DEF Rest
<1> HIDE DEF flat, L
<1>5. L = Len(batch)
  <2>1. L < Len(batch) => Len(Rest) # 0
    BY <1>2, <1>3, <1>4
  <2> QED
    BY <1>1, <1>2, <1>3, <2>1
<1>6. flat = batch
  <2>1. SubSeq(flat, 1, L) = flat /\ SubSeq(batch, 1, L) = batch
    BY <1>2, <1>3, <1>5 DEF L
  <2> QED
    BY <1>3, <2>1
<1>7. BatchTypeOK' /\ RefusalIsTheTexts'
  BY <1>1, <1>6 DEF BatchInv, BatchTypeOK, RefusalIsTheTexts, flat
<1> QED
  BY <1>1, <1>7 DEF BatchInv

\* It holds at every request.
LEMMA BatchInvHolds == BatchSpec => []BatchInv
<1>1. BatchInv /\ UNCHANGED batchVars => BatchInv'
  BY DEF BatchInv, BatchTypeOK, RefusalIsTheTexts, batchVars
<1>2. BatchInv /\ [BatchNext]_batchVars => BatchInv'
  BY <1>1, SendPartKeeps, BatchDoneKeeps DEF BatchNext
<1> QED
  BY BatchInitial, <1>2, PTL DEF BatchSpec

\* Only a text that is over a limit by itself has a request of the client refused, and what
\* was sent is the batch's beginning, in order.
THEOREM RefusalsAreTheTexts == BatchSpec => [](BatchTypeOK /\ RefusalIsTheTexts)
<1>1. BatchInv => BatchTypeOK /\ RefusalIsTheTexts
  BY DEF BatchInv
<1> QED
  BY BatchInvHolds, <1>1, PTL

----------------------------------------------------------------------------
(* What the components of the upkeep promise together.                     *)

\* Whatever processes die and whatever writes are interrupted, what was sealed opens, what
\* was signed verifies, passwords are where they should be and keys in use are whole.
THEOREM SecretsAlwaysRecoverable ==
    KeySpec /\ FileSpec /\ ChainSpec => []SecretsRecoverable
<1>1. SealedOpens /\ SignedVerifies /\ PasswordReachable /\ KeyInUseIsWhole => SecretsRecoverable
  BY DEF SecretsRecoverable
<1> QED
  BY <1>1, OneKeySeals, OneKeySigns, PasswordStaysReachable, KeyAlwaysWhole, PTL

\* The keys tokens are verified with follow the provider's, both ways.
THEOREM KeysAlwaysFollowProvider == JwksSpec => KeysFollowProvider
BY KeysAlwaysFollow DEF KeysFollowProvider

\* No command changes an entry, a pair or a date it was not asked to change.
THEOREM NothingChangesUnasked == FileSpec /\ PairSpec /\ KbSpec => NothingUnasked
BY EntriesAlwaysSurvive, PruneAlwaysSpares, DatesMoveWithText DEF NothingUnasked

\* What a command reported is what is stored, whichever replies of the store are lost.
THEOREM StoredAsReported == DocSpec /\ HistorySpec => []StoredAsTold
<1>1. AsTold /\ KeptOrBegun /\ LastSetStored => StoredAsTold
  BY DEF StoredAsTold
<1> QED
  BY <1>1, ReportsAreTrue, KeptStaysOrBegins, LastSetStaysStored, PTL

\* Pages, executions and texts: nothing is lost, added or counted twice on the way.
THEOREM AllWholeAndOnce == ReadSpec /\ BatchSpec /\ HistorySpec => []WholeAndOnce
<1>1. /\ ReadTypeOK /\ WholeUnlessShrunk
      /\ BatchTypeOK /\ RefusalIsTheTexts
      /\ HistoryTypeOK /\ ExecutionsCountedOnce
      => WholeAndOnce
  BY DEF WholeAndOnce
<1> QED
  BY <1>1, ReadsAreWhole, RefusalsAreTheTexts, ExecutionsAlwaysCounted, PTL

\* What is shown as a person's word is one.
THEOREM HumanWordAlwaysHolds == PairSpec /\ KbSpec => []HumanWordHolds
<1>1. VouchedFor /\ HumanTextKept => HumanWordHolds
  BY DEF HumanWordHolds
<1> QED
  BY <1>1, PairsAreVouchedFor, HumanTextStays, PTL

\* A failure is no other operation's: not the next caller's of a session, not the next
\* attempt's at an index, not the log's that lost a line, not the daemon's that a command
\* would stop, however slowly a daemon starts.
THEOREM FailuresContained ==
    SchemaSpec /\ IndexSpec /\ AuditSpec /\ ProcessSpec => []FailureContained
<1>1. NothingInherited /\ IndexRetried /\ LossesKnown /\ LiveDaemonNamed => FailureContained
  BY DEF FailureContained
<1> QED
  BY <1>1, NothingEverInherited, IndexAlwaysRetried, LossesAreKnown, LiveDaemonStaysNamed, PTL

\* Whatever operators type and whichever process dies, each component beside a question
\* holds what its variables are declared to hold: no file, store or log has a value the
\* code has not written, and no counter passes what it counts.
THEOREM UpkeepTypesCorrect ==
    /\ JwksSpec /\ KeySpec /\ FileSpec /\ ChainSpec /\ ProcessSpec /\ BatchSpec /\ ReadSpec
    /\ DocSpec /\ KbSpec /\ HistorySpec /\ PairSpec /\ SchemaSpec /\ IndexSpec /\ AuditSpec
    /\ Spec
    => []UpkeepTypeOK
<1>1. /\ JwksTypeOK /\ KeyInv /\ FileInv /\ ChainInv /\ ProcessTypeOK
      /\ BatchTypeOK /\ RefusalIsTheTexts /\ ReadTypeOK /\ WholeUnlessShrunk
      /\ DocTypeOK /\ KbTypeOK /\ HistoryTypeOK /\ ExecutionsCountedOnce
      /\ PairTypeOK /\ SchemaTypeOK /\ IndexInv /\ AuditTypeOK /\ TypeOK
      => UpkeepTypeOK
  BY DEF UpkeepTypeOK, KeyInv, FileInv, ChainInv, IndexInv
<1> QED
  BY <1>1, JwksTypeCorrect, KeyInvariant, FileInvariant, ChainInvariant, ProcessTypeCorrect,
     RefusalsAreTheTexts, ReadsAreWhole, DocTypeCorrect, KbTypeCorrect,
     ExecutionsAlwaysCounted, PairTypeCorrect, SchemaTypeCorrect, IndexInvariant,
     AuditTypeCorrect, TypeCorrect, PTL
=============================================================================
