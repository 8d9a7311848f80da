------------------------------- MODULE Upkeep --------------------------------
(***************************************************************************)
(* The components that operators' commands and the services beside a       *)
(* question go through: keys, files, stores, imports and the audit log.    *)
(* Each has its own variables and none reads another's; what they promise  *)
(* together is stated here.                                                *)
(***************************************************************************)
EXTENDS JwksKeys, KeyFiles, ConnectorsFile, KeychainKey, EmbedProcess, EmbedBatch, ConfluenceRead,
        DocumentStore, KnowledgeBase, QueryHistory, VerifiedPairs, SchemaRead, CollectionIndexes,
        AuditLog, Admission

\* Every component's type invariant.
UpkeepTypeOK ==
    /\ JwksTypeOK /\ KeyTypeOK /\ FileTypeOK /\ ChainTypeOK /\ ProcessTypeOK
    /\ BatchTypeOK /\ ReadTypeOK /\ DocTypeOK /\ KbTypeOK /\ HistoryTypeOK
    /\ PairTypeOK /\ SchemaTypeOK /\ IndexTypeOK /\ AuditTypeOK /\ TypeOK

\* SAFETY. What was stored can be had again: what is sealed opens, what is signed
\* verifies, a password is where the entry says, a key in use is whole.
SecretsRecoverable == SealedOpens /\ SignedVerifies /\ PasswordReachable /\ KeyInUseIsWhole

\* SAFETY. A key withdrawn by the provider is refused in time, and a new one accepted.
KeysFollowProvider == WithdrawnKeyExpires /\ RotationPickedUp

\* SAFETY. A command changes only what it was asked to change: connector entries, verified
\* pairs, and the dates of descriptions.
NothingUnasked == EntriesSurvive /\ PruneSpares /\ OnlyChangeMovesDate

\* SAFETY. What a store holds after a command is what the command said it would: a
\* source's chunks, and a history's capsules.
StoredAsTold == AsTold /\ KeptOrBegun /\ LastSetStored

\* SAFETY. What takes several requests or runs is whole and counted once: the pages of a
\* space, the executions of a history, and the texts of a batch, of which only one that is
\* too long by itself can have it refused.
WholeAndOnce == WholeUnlessShrunk /\ ExecutionsCountedOnce /\ RefusalIsTheTexts

\* SAFETY. What is shown as a person's word is one: a verified pair, a description.
HumanWordHolds == VouchedFor /\ HumanTextKept

\* SAFETY. One failure stays one failure: a transaction that failed is not inherited,
\* an index that could not be made is tried again, a lost line of the audit log is
\* known, a running daemon has its name.
FailureContained == NothingInherited /\ IndexRetried /\ LossesKnown /\ LiveDaemonNamed
=============================================================================
