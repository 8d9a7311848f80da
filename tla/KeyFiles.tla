------------------------------ MODULE KeyFiles ------------------------------
(***************************************************************************)
(* The two keys generated on first use and kept in the state directory:    *)
(* the encryption key of cached answers and document text (at_rest.py) and *)
(* the signing key of cache entries and verified pairs (cache/             *)
(* envelope.py).  Processes that share the directory start together,       *)
(* crash between any two steps, and must arrive at one key of each kind.   *)
(*                                                                         *)
(* A generated key is abstracted to the process that generated it.         *)
(***************************************************************************)
EXTENDS Naturals, FiniteSets

CONSTANTS Processes, NoFileKey, Configured

ASSUME KeyAssumption == NoFileKey \notin Processes /\ Configured \notin Processes \cup {NoFileKey}

\* What a key file holds: a key, whole or still being written, or nothing of the kind.
File(k, whole) == [key |-> k, whole |-> whole]
Junk == File(Configured, FALSE)   \* content no process is writing
Contents == [key : Processes, whole : BOOLEAN] \cup {Junk}

ASSUME NoFileAssumption == NoFileKey \notin Contents

VARIABLES
    links,       \* the file system of the state directory has hard links
    writable,    \* and can be written
    configured,  \* NLQ_CACHE_ENCRYPTION_KEY or its file: "none", "key" or "bad"
    cipherFile,  \* cache_encryption_key
    signFile,    \* cache_signing_key
    keyPc,       \* where a process is in seal or in signing_key
    ephemeral,   \* it holds _ephemeral_key
    gaveUp,      \* _gave_up_waiting
    sealed,      \* the keys under which text has been sealed
    signed       \* the keys under which entries have been signed

keyVars == <<links, writable, configured, cipherFile, signFile, keyPc, ephemeral, gaveUp, sealed,
             signed>>
place == <<links, writable, configured>>
cipherSide == <<cipherFile, gaveUp, sealed>>
signSide == <<signFile, ephemeral, signed>>

KeyInit ==
    /\ links \in BOOLEAN /\ writable \in BOOLEAN
    /\ configured \in {"none", "key", "bad"}
    /\ cipherFile \in {NoFileKey, Junk} /\ signFile \in {NoFileKey, Junk}
    /\ keyPc = [p \in Processes |-> "idle"]
    /\ ephemeral = {} /\ gaveUp = {}
    /\ sealed = {} /\ signed = {}

KeyTo(p, step) == keyPc' = [keyPc EXCEPT ![p] = step]

----------------------------------------------------------------------------
(* seal.                                                                   *)

\* _key_file: only a whole generated key is one.
StoredKey == cipherFile # NoFileKey /\ cipherFile.whole

InProgress == cipherFile # NoFileKey /\ cipherFile # Junk /\ ~cipherFile.whole

\* The key as read: a prefix of it, read too early, is no process's key.
ReadKey == IF cipherFile.whole THEN cipherFile.key ELSE NoFileKey

SealWith(p, key) == sealed' = sealed \cup {key} /\ KeyTo(p, "idle")

\* _configured() or _stored() or _generated(): a key configured but unusable raises.
Seal(p) ==
    /\ keyPc[p] = "idle" /\ configured # "bad"
    /\ IF configured = "key" THEN SealWith(p, Configured)
       ELSE IF StoredKey THEN SealWith(p, ReadKey)
       ELSE /\ writable   \* the temporary file cannot be written: seal raises
            /\ KeyTo(p, "linking") /\ UNCHANGED sealed
    /\ UNCHANGED <<place, cipherFile, gaveUp, signSide>>

\* os.link fails when a key is there, or for want of hard links.
Link(p) ==
    /\ keyPc[p] = "linking"
    /\ IF ~links THEN KeyTo(p, "creating") /\ UNCHANGED <<cipherFile, sealed>>
       ELSE IF cipherFile = NoFileKey
       THEN cipherFile' = File(p, TRUE) /\ SealWith(p, p)
       ELSE KeyTo(p, "waiting") /\ UNCHANGED <<cipherFile, sealed>>
    /\ UNCHANGED <<place, gaveUp, signSide>>

\* Mutant: the file is opened without O_EXCL.
AlwaysCreates == TRUE

Creates == cipherFile = NoFileKey

\* Without links: O_CREAT | O_EXCL, then the key is written into the file.
CreateFile(p) ==
    /\ keyPc[p] = "creating"
    /\ IF Creates
       THEN cipherFile' = File(p, FALSE) /\ KeyTo(p, "writing")
       ELSE KeyTo(p, "waiting") /\ UNCHANGED cipherFile
    /\ UNCHANGED <<place, gaveUp, sealed, signSide>>

Write(p) ==
    /\ keyPc[p] = "writing"
    /\ \/ cipherFile' = File(p, TRUE) /\ SealWith(p, p)
       \/ KeyTo(p, "idle") /\ UNCHANGED <<cipherFile, sealed>>   \* the disk is full
    /\ UNCHANGED <<place, gaveUp, signSide>>

\* _winners_key: the winner's key once it is whole.  A wait for one that is being
\* written runs out after _KEY_WAIT_SECONDS, and once only in a process.
Await(p) ==
    /\ keyPc[p] = "waiting"
    /\ IF StoredKey THEN SealWith(p, ReadKey) /\ UNCHANGED gaveUp
       ELSE /\ KeyTo(p, "idle")
            /\ gaveUp' = IF InProgress THEN gaveUp \cup {p} ELSE gaveUp
            /\ UNCHANGED sealed
    /\ UNCHANGED <<place, cipherFile, signSide>>

----------------------------------------------------------------------------
(* signing_key, on behalf of sign.                                         *)

SignWith(p, key) == signed' = signed \cup {key} /\ KeyTo(p, "idle")

\* A stored key that is too short raises SigningKeyError.
UseStored(p) ==
    IF signFile.whole THEN SignWith(p, signFile.key) ELSE KeyTo(p, "idle") /\ UNCHANGED signed

\* A state directory that cannot be written leaves a key held in memory.
Sign(p) ==
    /\ keyPc[p] = "idle"
    /\ \/ /\ signFile # NoFileKey
          /\ UseStored(p) /\ UNCHANGED ephemeral
       \/ /\ signFile = NoFileKey /\ (p \in ephemeral \/ ~writable)
          /\ SignWith(p, p) /\ ephemeral' = ephemeral \cup {p}
       \/ /\ signFile = NoFileKey /\ p \notin ephemeral /\ writable
          /\ KeyTo(p, "publishing") /\ UNCHANGED <<signed, ephemeral>>
    /\ UNCHANGED <<place, cipherSide, signFile>>

\* A link fails when a key is there.
Publishes == signFile = NoFileKey

\* _publish_key: the key goes in place whole, or the one that won is used.
Publish(p) ==
    /\ keyPc[p] = "publishing"
    /\ CASE ~Publishes -> UseStored(p) /\ UNCHANGED signFile
         [] Publishes /\ links -> signFile' = File(p, TRUE) /\ SignWith(p, p)
         [] Publishes /\ ~links -> KeyTo(p, "replacing") /\ UNCHANGED <<signFile, signed>>
    /\ UNCHANGED <<place, cipherSide, ephemeral>>

\* Without links: os.replace after the check that no key was there, or, on Windows,
\* a refusal by the process that has just published one.
Replace(p) ==
    /\ keyPc[p] = "replacing"
    /\ \/ signFile' = File(p, TRUE) /\ SignWith(p, p)
       \/ signFile # NoFileKey /\ UseStored(p) /\ UNCHANGED signFile
    /\ UNCHANGED <<place, cipherSide, ephemeral>>

----------------------------------------------------------------------------

\* A process dies and is started again: what it held in memory is gone.
Dies(p) ==
    /\ KeyTo(p, "idle")
    /\ ephemeral' = ephemeral \ {p} /\ gaveUp' = gaveUp \ {p}
    /\ UNCHANGED <<place, cipherFile, signFile, sealed, signed>>

KeyNext ==
    \E p \in Processes :
        \/ Seal(p) \/ Link(p) \/ CreateFile(p) \/ Write(p) \/ Await(p)
        \/ Sign(p) \/ Publish(p) \/ Replace(p)
        \/ Dies(p)

KeySpec == KeyInit /\ [][KeyNext]_keyVars

----------------------------------------------------------------------------

KeyTypeOK ==
    /\ links \in BOOLEAN /\ writable \in BOOLEAN
    /\ configured \in {"none", "key", "bad"}
    /\ cipherFile \in Contents \cup {NoFileKey} /\ signFile \in Contents \cup {NoFileKey}
    /\ keyPc \in [Processes -> {"idle", "linking", "creating", "writing", "waiting",
                                "publishing", "replacing"}]
    /\ ephemeral \subseteq Processes /\ gaveUp \subseteq Processes
    /\ sealed \subseteq Processes \cup {Configured, NoFileKey}
    /\ signed \subseteq Processes

\* Whatever was sealed can be opened by every process that shares the directory, with
\* or without hard links and through crashes at any step: one key seals everything.
SealedOpens ==
    \A key \in sealed :
        IF configured = "key" THEN key = Configured ELSE cipherFile = File(key, TRUE)

\* Where hard links exist and the directory can be written, everything signed
\* verifies in every process: two that start together do not sign under two keys.
SignedVerifies == links /\ writable => \A key \in signed : signFile = File(key, TRUE)
=============================================================================
