--------------------------- MODULE AccessProofs ----------------------------
(***************************************************************************)
(* Keys, passwords and what is sealed with them, for any number of processes,*)
(* commands, writers and threads and any order and loss of their writes; and *)
(* the admission of tool calls, for any number of calls, subjects and      *)
(* grants, any limits and any window.                                      *)
(***************************************************************************)
EXTENDS KeyFiles, ConnectorsFile, KeychainKey, JwksKeys, Admission, FiniteSetTheorems,
        TLAPS

----------------------------------------------------------------------------
(* KeyFiles: one key seals and signs for all processes.                    *)

\* A file with a whole key holds a process's, and is the one written for it.
LEMMA FileIsWhole ==
    \A c \in Contents : c.whole => c.key \in Processes /\ c = File(c.key, TRUE)
<1> SUFFICES ASSUME NEW c \in Contents, c.whole PROVE c.key \in Processes /\ c = File(c.key, TRUE)
  OBVIOUS
<1>1. c # Junk
  BY DEF Junk, File
<1>2. c \in [key : Processes, whole : BOOLEAN]
  BY <1>1 DEF Contents
<1> QED
  BY <1>2 DEF File

\* What a process writes is content of a key file, and how much of it shows.
LEMMA FileIsContent ==
    \A p \in Processes :
        /\ File(p, TRUE) \in Contents /\ File(p, TRUE) # NoFileKey
        /\ File(p, FALSE) \in Contents /\ File(p, FALSE) # NoFileKey
        /\ File(p, TRUE).key = p /\ File(p, TRUE).whole
        /\ File(p, FALSE).key = p /\ ~File(p, FALSE).whole
<1> SUFFICES ASSUME NEW p \in Processes
             PROVE  /\ File(p, TRUE) \in Contents /\ File(p, FALSE) \in Contents
                    /\ File(p, TRUE).key = p /\ File(p, TRUE).whole
                    /\ File(p, FALSE).key = p /\ ~File(p, FALSE).whole
  BY NoFileAssumption
<1> QED
  BY DEF File, Contents

\* A key that is stored signs, or it is too short and nothing is signed.
LEMMA StoredSigns ==
    ASSUME KeyTypeOK, signFile # NoFileKey, NEW p \in Processes, UseStored(p)
    PROVE  \/ signed' = signed
           \/ \E key \in Processes : signFile = File(key, TRUE) /\ signed' = signed \cup {key}
<1>1. signFile \in Contents
  BY DEF KeyTypeOK
<1> QED
  BY <1>1, FileIsWhole DEF UseStored, SignWith

\* The keys that open what the others sealed, and the places where a process can be.
Opens(key) ==
    IF configured = "key" THEN key = Configured
    ELSE key \in Processes /\ cipherFile = File(key, TRUE)
\* What a process sealed opens with the key in the file.
AllOpens == \A key \in sealed : Opens(key)

\* Only where no key is configured is one generated; a file that is being written is
\* that of the process writing it.
OneGenerates ==
    \A p \in Processes :
        /\ keyPc[p] \in {"linking", "creating", "writing", "waiting"} => configured = "none"
        /\ keyPc[p] = "writing" => cipherFile = File(p, FALSE)

\* A key is held in memory only for want of a place to write it, and one is renamed
\* over another only for want of links.
HeldInMemory ==
    /\ writable => ephemeral = {}
    /\ \A p \in Processes : keyPc[p] = "replacing" => ~links

\* The inductive invariant.
KeyInv == KeyTypeOK /\ OneGenerates /\ HeldInMemory /\ AllOpens /\ SignedVerifies

\* Nothing has been sealed or signed when the processes start.
LEMMA KeyStart == KeyInit => KeyInv
<1>1. KeyInit => KeyTypeOK
  BY DEF KeyInit, KeyTypeOK, Contents
<1>2. KeyInit => OneGenerates /\ HeldInMemory /\ AllOpens /\ SignedVerifies
  BY DEF KeyInit, OneGenerates, HeldInMemory, AllOpens, SignedVerifies
<1> QED
  BY <1>1, <1>2 DEF KeyInv

\* seal takes a key.
LEMMA SealKeeps ==
    ASSUME KeyInv, NEW p \in Processes, Seal(p)
    PROVE  KeyInv'
<1>1. KeyTypeOK'
  <2>1. keyPc' \in [Processes -> {"idle", "linking", "creating", "writing", "waiting",
                                 "publishing", "replacing"}]
    BY DEF KeyInv, KeyTypeOK, Seal, KeyTo, SealWith
  <2>2. cipherFile' \in Contents \cup {NoFileKey} /\ signFile' \in Contents \cup {NoFileKey}
    BY DEF KeyInv, KeyTypeOK, Seal, signSide
  <2>3. sealed' \subseteq Processes \cup {Configured, NoFileKey}
    BY FileIsWhole DEF KeyInv, KeyTypeOK, Seal, SealWith, ReadKey, StoredKey
  <2>4. signed' \subseteq Processes
    BY DEF KeyInv, KeyTypeOK, Seal, signSide
  <2>5. /\ UNCHANGED place
        /\ ephemeral' \subseteq Processes /\ gaveUp' \subseteq Processes
    BY DEF KeyInv, KeyTypeOK, Seal, signSide
  <2> QED
    BY <2>1, <2>2, <2>3, <2>4, <2>5 DEF KeyInv, KeyTypeOK, place
<1>2. OneGenerates'
  <2> SUFFICES ASSUME NEW q \in Processes
               PROVE  (/\ keyPc[q] \in {"linking", "creating", "writing", "waiting"} => configured = "none"
                       /\ keyPc[q] = "writing" => cipherFile = File(q, FALSE))'
    BY DEF OneGenerates
  <2>1. keyPc'[q] = keyPc[q] \/ (q = p /\ (keyPc'[q] = "idle" \/ configured = "none")
                                 /\ keyPc'[q] # "writing")
    BY DEF KeyInv, KeyTypeOK, Seal, KeyTo, SealWith
  <2>2. UNCHANGED configured /\ UNCHANGED cipherFile
    BY DEF Seal, place
  <2> QED
    BY <2>1, <2>2 DEF KeyInv, OneGenerates
<1>3. HeldInMemory'
  BY DEF KeyInv, HeldInMemory, Seal, place, signSide, KeyTo, SealWith, KeyTypeOK
<1>4. AllOpens'
  <2> SUFFICES ASSUME NEW key \in sealed' PROVE Opens(key)'
    BY DEF AllOpens
  <2>1. key \in sealed => Opens(key)
    BY DEF KeyInv, AllOpens
  <2>2. key \in sealed \/ (configured = "key" /\ key = Configured)
                        \/ (configured # "key" /\ StoredKey /\ key = ReadKey)
    BY DEF Seal, SealWith
  <2> QED
    BY <2>1, <2>2, FileIsWhole DEF KeyInv, KeyTypeOK, Opens, Seal, place, StoredKey,
           ReadKey
<1>5. SignedVerifies'
  BY DEF KeyInv, SignedVerifies, Seal, place, signSide
<1> QED
  BY <1>1, <1>2, <1>3, <1>4, <1>5 DEF KeyInv

\* The key is linked into place.
LEMMA LinkKeeps ==
    ASSUME KeyInv, NEW p \in Processes, Link(p)
    PROVE  KeyInv'
<1>1. KeyTypeOK'
  <2>1. keyPc' \in [Processes -> {"idle", "linking", "creating", "writing", "waiting",
                                 "publishing", "replacing"}]
    BY DEF KeyInv, KeyTypeOK, Link, KeyTo, SealWith
  <2>2. cipherFile' \in Contents \cup {NoFileKey} /\ signFile' \in Contents \cup {NoFileKey}
    BY FileIsContent DEF KeyInv, KeyTypeOK, Link, signSide
  <2>3. sealed' \subseteq Processes \cup {Configured, NoFileKey}
    BY DEF KeyInv, KeyTypeOK, Link, SealWith
  <2>4. signed' \subseteq Processes
    BY DEF KeyInv, KeyTypeOK, Link, signSide
  <2>5. /\ UNCHANGED place
        /\ ephemeral' \subseteq Processes /\ gaveUp' \subseteq Processes
    BY DEF KeyInv, KeyTypeOK, Link, signSide
  <2> QED
    BY <2>1, <2>2, <2>3, <2>4, <2>5 DEF KeyInv, KeyTypeOK, place
<1>2. OneGenerates'
  <2> SUFFICES ASSUME NEW q \in Processes
               PROVE  (/\ keyPc[q] \in {"linking", "creating", "writing", "waiting"} => configured = "none"
                       /\ keyPc[q] = "writing" => cipherFile = File(q, FALSE))'
    BY DEF OneGenerates
  <2>1. keyPc'[q] = keyPc[q] \/ (q = p /\ keyPc'[q] # "writing" /\ configured = "none")
    BY DEF KeyInv, KeyTypeOK, OneGenerates, Link, KeyTo, SealWith
  <2>2. UNCHANGED configured /\ (cipherFile' = cipherFile \/ cipherFile = NoFileKey)
    BY DEF Link, place
  <2> QED
    BY <2>1, <2>2, FileIsContent DEF KeyInv, OneGenerates
<1>3. HeldInMemory'
  BY DEF KeyInv, HeldInMemory, Link, place, signSide, KeyTo, SealWith, KeyTypeOK
<1>4. AllOpens'
  <2> SUFFICES ASSUME NEW key \in sealed' PROVE Opens(key)'
    BY DEF AllOpens
  <2>1. key \in sealed => Opens(key)
    BY DEF KeyInv, AllOpens
  <2>2. key \in sealed \/ (cipherFile = NoFileKey /\ cipherFile' = File(p, TRUE) /\ key = p)
    BY DEF Link, SealWith
  <2> QED
    BY <2>1, <2>2, FileIsContent DEF KeyInv, OneGenerates, Opens, Link, place
<1>5. SignedVerifies'
  BY DEF KeyInv, SignedVerifies, Link, place, signSide
<1> QED
  BY <1>1, <1>2, <1>3, <1>4, <1>5 DEF KeyInv

\* The file is created.
LEMMA CreateFileKeeps ==
    ASSUME KeyInv, NEW p \in Processes, CreateFile(p)
    PROVE  KeyInv'
<1>1. KeyTypeOK'
  <2>1. keyPc' \in [Processes -> {"idle", "linking", "creating", "writing", "waiting",
                                 "publishing", "replacing"}]
    BY DEF KeyInv, KeyTypeOK, CreateFile, KeyTo
  <2>2. cipherFile' \in Contents \cup {NoFileKey} /\ signFile' \in Contents \cup {NoFileKey}
    BY FileIsContent DEF KeyInv, KeyTypeOK, CreateFile, signSide
  <2>3. sealed' \subseteq Processes \cup {Configured, NoFileKey}
    BY DEF KeyInv, KeyTypeOK, CreateFile
  <2>4. signed' \subseteq Processes
    BY DEF KeyInv, KeyTypeOK, CreateFile, signSide
  <2>5. /\ UNCHANGED place
        /\ ephemeral' \subseteq Processes /\ gaveUp' \subseteq Processes
    BY DEF KeyInv, KeyTypeOK, CreateFile, signSide
  <2> QED
    BY <2>1, <2>2, <2>3, <2>4, <2>5 DEF KeyInv, KeyTypeOK, place
<1>2. OneGenerates'
  <2> SUFFICES ASSUME NEW q \in Processes
               PROVE  (/\ keyPc[q] \in {"linking", "creating", "writing", "waiting"} => configured = "none"
                       /\ keyPc[q] = "writing" => cipherFile = File(q, FALSE))'
    BY DEF OneGenerates
  <2>1. keyPc'[q] = keyPc[q] \/ (q = p /\ configured = "none"
                                 /\ (keyPc'[q] = "writing" => cipherFile' = File(q, FALSE)))
    BY DEF KeyInv, KeyTypeOK, OneGenerates, CreateFile, KeyTo
  <2>2. UNCHANGED configured /\ (cipherFile' = cipherFile \/ cipherFile = NoFileKey)
    BY DEF CreateFile, Creates, place
  <2> QED
    BY <2>1, <2>2, FileIsContent DEF KeyInv, OneGenerates
<1>3. HeldInMemory'
  BY DEF KeyInv, HeldInMemory, CreateFile, place, signSide, KeyTo, KeyTypeOK
<1>4. AllOpens'
  <2> SUFFICES ASSUME NEW key \in sealed' PROVE Opens(key)'
    BY DEF AllOpens
  <2>1. key \in sealed => Opens(key)
    BY DEF KeyInv, AllOpens
  <2>2. key \in sealed \/ FALSE
    BY DEF CreateFile
  <2> QED
    BY <2>1, FileIsContent DEF Opens, CreateFile, Creates, place
<1>5. SignedVerifies'
  BY DEF KeyInv, SignedVerifies, CreateFile, place, signSide
<1> QED
  BY <1>1, <1>2, <1>3, <1>4, <1>5 DEF KeyInv

\* The key is written into it.
LEMMA WriteKeeps ==
    ASSUME KeyInv, NEW p \in Processes, Write(p)
    PROVE  KeyInv'
<1>1. KeyTypeOK'
  <2>1. keyPc' \in [Processes -> {"idle", "linking", "creating", "writing", "waiting",
                                 "publishing", "replacing"}]
    BY DEF KeyInv, KeyTypeOK, Write, KeyTo, SealWith
  <2>2. cipherFile' \in Contents \cup {NoFileKey} /\ signFile' \in Contents \cup {NoFileKey}
    BY FileIsContent DEF KeyInv, KeyTypeOK, Write, signSide
  <2>3. sealed' \subseteq Processes \cup {Configured, NoFileKey}
    BY DEF KeyInv, KeyTypeOK, Write, SealWith
  <2>4. signed' \subseteq Processes
    BY DEF KeyInv, KeyTypeOK, Write, signSide
  <2>5. /\ UNCHANGED place
        /\ ephemeral' \subseteq Processes /\ gaveUp' \subseteq Processes
    BY DEF KeyInv, KeyTypeOK, Write, signSide
  <2> QED
    BY <2>1, <2>2, <2>3, <2>4, <2>5 DEF KeyInv, KeyTypeOK, place
<1>2. OneGenerates'
  <2>1. keyPc' = [keyPc EXCEPT ![p] = "idle"] /\ UNCHANGED configured
    BY DEF Write, SealWith, KeyTo, place
  <2>2. \A q \in Processes : keyPc[q] = "writing" => cipherFile = File(q, FALSE)
    BY DEF KeyInv, OneGenerates
  <2>3. \A q \in Processes : keyPc[q] = "writing" => q = p
    BY <2>2 DEF Write, File
  <2> QED
    BY <2>1, <2>3 DEF KeyInv, KeyTypeOK, OneGenerates
<1>3. HeldInMemory'
  BY DEF KeyInv, HeldInMemory, Write, place, signSide, KeyTo, SealWith, KeyTypeOK
<1>4. AllOpens'
  <2> SUFFICES ASSUME NEW key \in sealed' PROVE Opens(key)'
    BY DEF AllOpens
  <2>1. key \in sealed => Opens(key)
    BY DEF KeyInv, AllOpens
  <2>2. key \in sealed \/ (cipherFile' = File(p, TRUE) /\ key = p)
    BY DEF Write, SealWith
  <2> QED
    BY <2>1, <2>2, FileIsContent DEF KeyInv, OneGenerates, Opens, Write, place
<1>5. SignedVerifies'
  BY DEF KeyInv, SignedVerifies, Write, place, signSide
<1> QED
  BY <1>1, <1>2, <1>3, <1>4, <1>5 DEF KeyInv

\* The winner's key is awaited.
LEMMA AwaitKeeps ==
    ASSUME KeyInv, NEW p \in Processes, Await(p)
    PROVE  KeyInv'
<1>1. KeyTypeOK'
  <2>1. keyPc' \in [Processes -> {"idle", "linking", "creating", "writing", "waiting",
                                 "publishing", "replacing"}]
    BY DEF KeyInv, KeyTypeOK, Await, KeyTo, SealWith
  <2>2. cipherFile' \in Contents \cup {NoFileKey} /\ signFile' \in Contents \cup {NoFileKey}
    BY DEF KeyInv, KeyTypeOK, Await, signSide
  <2>3. sealed' \subseteq Processes \cup {Configured, NoFileKey}
    <3>1. sealed \subseteq Processes \cup {Configured, NoFileKey}
      BY DEF KeyInv, KeyTypeOK
    <3>2. StoredKey => ReadKey \in Processes
      BY FileIsWhole DEF KeyInv, KeyTypeOK, ReadKey, StoredKey
    <3>3. sealed' = sealed \/ (StoredKey /\ sealed' = sealed \cup {ReadKey})
      BY DEF Await, SealWith
    <3> QED
      BY <3>1, <3>2, <3>3
  <2>4. signed' \subseteq Processes
    BY DEF KeyInv, KeyTypeOK, Await, signSide
  <2>5. /\ UNCHANGED place
        /\ ephemeral' \subseteq Processes /\ gaveUp' \subseteq Processes
    BY DEF KeyInv, KeyTypeOK, Await, signSide
  <2> QED
    BY <2>1, <2>2, <2>3, <2>4, <2>5 DEF KeyInv, KeyTypeOK, place
<1>2. OneGenerates'
  BY DEF KeyInv, OneGenerates, Await, place, KeyTo, SealWith, KeyTypeOK
<1>3. HeldInMemory'
  BY DEF KeyInv, HeldInMemory, Await, place, signSide, KeyTo, SealWith, KeyTypeOK
<1>4. AllOpens'
  <2> SUFFICES ASSUME NEW key \in sealed' PROVE Opens(key)'
    BY DEF AllOpens
  <2>1. key \in sealed => Opens(key)
    BY DEF KeyInv, AllOpens
  <2>2. key \in sealed \/ (StoredKey /\ key = ReadKey)
    BY DEF Await, SealWith
  <2> QED
    BY <2>1, <2>2, FileIsWhole DEF KeyInv, KeyTypeOK, OneGenerates, Opens, Await, place,
           StoredKey, ReadKey
<1>5. SignedVerifies'
  BY DEF KeyInv, SignedVerifies, Await, place, signSide
<1> QED
  BY <1>1, <1>2, <1>3, <1>4, <1>5 DEF KeyInv

\* sign takes a key.
LEMMA SignKeeps ==
    ASSUME KeyInv, NEW p \in Processes, Sign(p)
    PROVE  KeyInv'
<1>1. KeyTypeOK'
  <2>1. keyPc' \in [Processes -> {"idle", "linking", "creating", "writing", "waiting",
                                 "publishing", "replacing"}]
    BY DEF KeyInv, KeyTypeOK, Sign, KeyTo, SignWith, UseStored
  <2>2. cipherFile' \in Contents \cup {NoFileKey} /\ signFile' \in Contents \cup {NoFileKey}
    BY DEF KeyInv, KeyTypeOK, Sign, cipherSide
  <2>3. sealed' \subseteq Processes \cup {Configured, NoFileKey}
    BY DEF KeyInv, KeyTypeOK, Sign, cipherSide
  <2>4. signed' \subseteq Processes
    BY StoredSigns DEF KeyInv, KeyTypeOK, Sign, SignWith
  <2>5. /\ UNCHANGED place
        /\ ephemeral' \subseteq Processes /\ gaveUp' \subseteq Processes
    BY DEF KeyInv, KeyTypeOK, Sign, cipherSide
  <2> QED
    BY <2>1, <2>2, <2>3, <2>4, <2>5 DEF KeyInv, KeyTypeOK, place
<1>2. OneGenerates'
  <2> SUFFICES ASSUME NEW q \in Processes
               PROVE  (/\ keyPc[q] \in {"linking", "creating", "writing", "waiting"} => configured = "none"
                       /\ keyPc[q] = "writing" => cipherFile = File(q, FALSE))'
    BY DEF OneGenerates
  <2>1. keyPc'[q] = keyPc[q] \/ (q = p /\ keyPc'[q] \notin {"linking", "creating", "writing", "waiting"})
    BY DEF KeyInv, KeyTypeOK, Sign, KeyTo, SignWith, UseStored
  <2>2. UNCHANGED configured /\ UNCHANGED cipherFile
    BY DEF Sign, place, cipherSide
  <2> QED
    BY <2>1, <2>2 DEF KeyInv, OneGenerates
<1>3. HeldInMemory'
  BY DEF KeyInv, HeldInMemory, Sign, place, KeyTo, SignWith, UseStored, KeyTypeOK
<1>4. AllOpens'
  BY DEF KeyInv, AllOpens, Sign, place, cipherSide, Opens
<1>5. SignedVerifies'
  <2> SUFFICES ASSUME links', writable', NEW key \in signed'
               PROVE  signFile' = File(key, TRUE)
    BY DEF SignedVerifies
  <2>1. links /\ writable
    BY DEF Sign, place
  <2>2. key \in signed => signFile = File(key, TRUE) /\ key \in Processes
    BY <2>1 DEF KeyInv, SignedVerifies, KeyTypeOK
  <2>3. key \in signed \/ signFile = File(key, TRUE)
    BY <2>1, StoredSigns DEF KeyInv, HeldInMemory, Sign
  <2>4. signFile' = signFile
    BY DEF Sign
  <2> QED
    BY <2>2, <2>3, <2>4
<1> QED
  BY <1>1, <1>2, <1>3, <1>4, <1>5 DEF KeyInv

\* The signing key is put in place.
LEMMA PublishKeeps ==
    ASSUME KeyInv, NEW p \in Processes, Publish(p)
    PROVE  KeyInv'
<1>1. KeyTypeOK'
  <2>1. keyPc' \in [Processes -> {"idle", "linking", "creating", "writing", "waiting",
                                 "publishing", "replacing"}]
    BY DEF KeyInv, KeyTypeOK, Publish, KeyTo, SignWith, UseStored
  <2>2. cipherFile' \in Contents \cup {NoFileKey} /\ signFile' \in Contents \cup {NoFileKey}
    BY FileIsContent DEF KeyInv, KeyTypeOK, Publish, cipherSide
  <2>3. sealed' \subseteq Processes \cup {Configured, NoFileKey}
    BY DEF KeyInv, KeyTypeOK, Publish, cipherSide
  <2>4. signed' \subseteq Processes
    BY StoredSigns DEF KeyInv, KeyTypeOK, Publish, Publishes, SignWith
  <2>5. /\ UNCHANGED place
        /\ ephemeral' \subseteq Processes /\ gaveUp' \subseteq Processes
    BY DEF KeyInv, KeyTypeOK, Publish, cipherSide
  <2> QED
    BY <2>1, <2>2, <2>3, <2>4, <2>5 DEF KeyInv, KeyTypeOK, place
<1>2. OneGenerates'
  <2> SUFFICES ASSUME NEW q \in Processes
               PROVE  (/\ keyPc[q] \in {"linking", "creating", "writing", "waiting"} => configured = "none"
                       /\ keyPc[q] = "writing" => cipherFile = File(q, FALSE))'
    BY DEF OneGenerates
  <2>1. keyPc'[q] = keyPc[q] \/ (q = p /\ keyPc'[q] \notin {"linking", "creating", "writing", "waiting"})
    BY DEF KeyInv, KeyTypeOK, Publish, KeyTo, SignWith, UseStored
  <2>2. UNCHANGED configured /\ UNCHANGED cipherFile
    BY DEF Publish, place, cipherSide
  <2> QED
    BY <2>1, <2>2 DEF KeyInv, OneGenerates
<1>3. HeldInMemory'
  BY DEF KeyInv, HeldInMemory, Publish, place, KeyTo, SignWith, UseStored, KeyTypeOK
<1>4. AllOpens'
  BY DEF KeyInv, AllOpens, Publish, place, cipherSide, Opens
<1>5. SignedVerifies'
  <2> SUFFICES ASSUME links', writable', NEW key \in signed'
               PROVE  signFile' = File(key, TRUE)
    BY DEF SignedVerifies
  <2>1. links /\ writable
    BY DEF Publish, place
  <2>2. key \in signed => signFile = File(key, TRUE) /\ key \in Processes
    BY <2>1 DEF KeyInv, SignedVerifies, KeyTypeOK
  <2>3. key \in signed \/ (signFile = File(key, TRUE) /\ key \in Processes)
                        \/ (signFile = NoFileKey /\ signFile' = File(key, TRUE))
    BY StoredSigns DEF KeyInv, Publish, Publishes, SignWith
  <2>4. signFile' = signFile \/ signFile = NoFileKey
    BY DEF Publish, Publishes
  <2> QED
    BY <2>2, <2>3, <2>4, FileIsContent
<1> QED
  BY <1>1, <1>2, <1>3, <1>4, <1>5 DEF KeyInv

\* It is renamed into place.
LEMMA ReplaceKeeps ==
    ASSUME KeyInv, NEW p \in Processes, Replace(p)
    PROVE  KeyInv'
<1>1. KeyTypeOK'
  <2>1. keyPc' \in [Processes -> {"idle", "linking", "creating", "writing", "waiting",
                                 "publishing", "replacing"}]
    BY DEF KeyInv, KeyTypeOK, Replace, KeyTo, SignWith, UseStored
  <2>2. cipherFile' \in Contents \cup {NoFileKey} /\ signFile' \in Contents \cup {NoFileKey}
    BY FileIsContent DEF KeyInv, KeyTypeOK, Replace, cipherSide
  <2>3. sealed' \subseteq Processes \cup {Configured, NoFileKey}
    BY DEF KeyInv, KeyTypeOK, Replace, cipherSide
  <2>4. signed' \subseteq Processes
    BY StoredSigns DEF KeyInv, KeyTypeOK, Replace, SignWith
  <2>5. /\ UNCHANGED place
        /\ ephemeral' \subseteq Processes /\ gaveUp' \subseteq Processes
    BY DEF KeyInv, KeyTypeOK, Replace, cipherSide
  <2> QED
    BY <2>1, <2>2, <2>3, <2>4, <2>5 DEF KeyInv, KeyTypeOK, place
<1>2. OneGenerates'
  <2> SUFFICES ASSUME NEW q \in Processes
               PROVE  (/\ keyPc[q] \in {"linking", "creating", "writing", "waiting"} => configured = "none"
                       /\ keyPc[q] = "writing" => cipherFile = File(q, FALSE))'
    BY DEF OneGenerates
  <2>1. keyPc'[q] = keyPc[q] \/ (q = p /\ keyPc'[q] \notin {"linking", "creating", "writing", "waiting"})
    BY DEF KeyInv, KeyTypeOK, Replace, KeyTo, SignWith, UseStored
  <2>2. UNCHANGED configured /\ UNCHANGED cipherFile
    BY DEF Replace, place, cipherSide
  <2> QED
    BY <2>1, <2>2 DEF KeyInv, OneGenerates
<1>3. HeldInMemory'
  BY DEF KeyInv, HeldInMemory, Replace, place
<1>4. AllOpens'
  BY DEF KeyInv, AllOpens, Replace, place, cipherSide, Opens
<1>5. SignedVerifies'
  BY DEF KeyInv, SignedVerifies, Replace, place, HeldInMemory
<1> QED
  BY <1>1, <1>2, <1>3, <1>4, <1>5 DEF KeyInv

\* A process dies.
LEMMA DiesKeeps ==
    ASSUME KeyInv, NEW p \in Processes, Dies(p)
    PROVE  KeyInv'
<1>1. KeyTypeOK'
  <2>1. keyPc' \in [Processes -> {"idle", "linking", "creating", "writing", "waiting",
                                 "publishing", "replacing"}]
    BY DEF KeyInv, KeyTypeOK, Dies, KeyTo
  <2>2. cipherFile' \in Contents \cup {NoFileKey} /\ signFile' \in Contents \cup {NoFileKey}
    BY DEF KeyInv, KeyTypeOK, Dies
  <2>3. sealed' \subseteq Processes \cup {Configured, NoFileKey}
    BY DEF KeyInv, KeyTypeOK, Dies
  <2>4. signed' \subseteq Processes
    BY DEF KeyInv, KeyTypeOK, Dies
  <2>5. /\ UNCHANGED place
        /\ ephemeral' \subseteq Processes /\ gaveUp' \subseteq Processes
    BY DEF KeyInv, KeyTypeOK, Dies
  <2> QED
    BY <2>1, <2>2, <2>3, <2>4, <2>5 DEF KeyInv, KeyTypeOK, place
<1>2. OneGenerates'
  BY DEF KeyInv, OneGenerates, Dies, place, KeyTo, KeyTypeOK
<1>3. HeldInMemory'
  BY DEF KeyInv, HeldInMemory, Dies, place, KeyTo
<1>4. AllOpens'
  BY DEF KeyInv, AllOpens, Dies, place, Opens
<1>5. SignedVerifies'
  BY DEF KeyInv, SignedVerifies, Dies, place
<1> QED
  BY <1>1, <1>2, <1>3, <1>4, <1>5 DEF KeyInv

\* The five hold at every step of the processes, crashes among them.
THEOREM KeyInvariant == KeySpec => []KeyInv
<1>1. KeyInit => KeyInv
  BY KeyStart
<1>2. KeyInv /\ [KeyNext]_keyVars => KeyInv'
  <2>1. ASSUME KeyInv, UNCHANGED keyVars PROVE KeyInv'
    BY <2>1 DEF keyVars, KeyInv, KeyTypeOK, OneGenerates, HeldInMemory, AllOpens, Opens,
       SignedVerifies
  <2> QED
    BY <2>1, SealKeeps, LinkKeeps, CreateFileKeeps, WriteKeeps, AwaitKeeps, SignKeeps,
       PublishKeeps, ReplaceKeeps, DiesKeeps
    DEF KeyNext
<1> QED
  BY <1>1, <1>2, PTL DEF KeySpec

\* Whatever was sealed can be opened, with or without hard links, through crashes at
\* any step: one key seals everything.
THEOREM OneKeySeals == KeySpec => []SealedOpens
<1>1. KeyInv => SealedOpens
  BY DEF KeyInv, AllOpens, Opens, SealedOpens
<1> QED
  BY <1>1, KeyInvariant, PTL

\* Where there are links and the directory can be written, everything signed verifies
\* in every process.
THEOREM OneKeySigns == KeySpec => []SignedVerifies
<1>1. KeyInv => SignedVerifies
  BY DEF KeyInv
<1> QED
  BY <1>1, KeyInvariant, PTL

----------------------------------------------------------------------------
(* ConnectorsFile: passwords are where the entries say.                    *)

\* The fields of an entry and of a command, of those that name nothing too.
LEMMA Fields ==
    /\ \A e \in Entry : /\ e.storage \in {"url", "keychain", None}
                        /\ e.url \in Passwords \cup {None} /\ e.docs \subseteq DocumentSources
    /\ \A c \in CommandsGiven : /\ c.name \in {"none", "connect", "alias", "docs", "rotate"}
                                /\ c.id \in Ids \cup {None} /\ c.password \in Passwords \cup {None}
    /\ NoEntry \in Entry /\ NoEntry.docs = {} /\ NoEntry.storage = None
    /\ NoCommand \in CommandsGiven
<1>1. \A e \in Entry : /\ e.storage \in {"url", "keychain", None}
                       /\ e.url \in Passwords \cup {None} /\ e.docs \subseteq DocumentSources
  BY DEF Entry
<1>2. \A c \in CommandsGiven : /\ c.name \in {"none", "connect", "alias", "docs", "rotate"}
                               /\ c.id \in Ids \cup {None} /\ c.password \in Passwords \cup {None}
  BY DEF CommandsGiven
<1>3. NoEntry \in Entry /\ NoEntry.docs = {} /\ NoEntry.storage = None
  BY DEF NoEntry, Entry
<1>4. NoCommand \in CommandsGiven
  BY DEF NoCommand, CommandsGiven
<1> QED
  BY <1>1, <1>2, <1>3, <1>4

\* One field of an entry changed leaves an entry, and the others as they were.
LEMMA OneField ==
    ASSUME NEW e \in Entry
    PROVE  /\ \A n \in Names \cup {None} :
                 LET f == [e EXCEPT !.alias = n] IN
                 f \in Entry /\ f.storage = e.storage /\ f.url = e.url /\ f.docs = e.docs
           /\ \A d \in SUBSET DocumentSources :
                 LET f == [e EXCEPT !.docs = d] IN
                 f \in Entry /\ f.storage = e.storage /\ f.url = e.url /\ f.docs = d
           /\ \A s \in {"url", "keychain"}, u \in Passwords \cup {None} :
                 LET f == [e EXCEPT !.storage = s, !.url = u] IN
                 f \in Entry /\ f.storage = s /\ f.url = u /\ f.docs = e.docs
<1>1. \A n \in Names \cup {None} :
          LET f == [e EXCEPT !.alias = n] IN
          f \in Entry /\ f.storage = e.storage /\ f.url = e.url /\ f.docs = e.docs
  BY DEF Entry
<1>2. \A d \in SUBSET DocumentSources :
          LET f == [e EXCEPT !.docs = d] IN
          f \in Entry /\ f.storage = e.storage /\ f.url = e.url /\ f.docs = d
  BY DEF Entry
<1>3. \A s \in {"url", "keychain"}, u \in Passwords \cup {None} :
          LET f == [e EXCEPT !.storage = s, !.url = u] IN
          f \in Entry /\ f.storage = s /\ f.url = u /\ f.docs = e.docs
  BY DEF Entry
<1> QED
  BY <1>1, <1>2, <1>3

\* An entry that is one keeps its password somewhere.
RealEntries == \A id \in Ids : entries[id] # NoEntry => entries[id].storage # None

\* The entry that connect is about to write says where the password is, and what another
\* command is about to write where it was read to be, whatever becomes of the entry
\* meanwhile; an entry not edited since has its document sources kept.
OfCommand ==
    LET id == command.id IN
    /\ step # "idle" => id \in Ids
    /\ step \in {"test", "password", "previous", "key"} => command.name = "connect"
    /\ step = "save" => command.name \in {"connect", "alias", "docs", "rotate"}
    /\ command.name = "connect" /\ step \in {"previous", "key", "save"} =>
          \/ config.storage = "keychain" /\ keychain[id] = command.password
          \/ config.storage = "url" /\ config.url = command.password
    /\ command.name \in {"alias", "docs"} /\ step = "save" =>
          config.storage # None /\ Loaded(id, config) \in hopes[id]
    /\ command.name = "rotate" /\ step = "save" =>
          config.storage = "keychain" /\ keychain[id] = command.password
    /\ command.name # "docs" /\ step \in {"key", "save"} /\ root = "mapping" /\ ~ edited =>
          config.docs = entries[id].docs

\* The inductive invariant.
FileInv == FileTypeOK /\ OfCommand /\ RealEntries /\ PasswordReachable

\* No connector is registered at first.
LEMMA FileStart == FileInit => FileInv
<1>1. FileInit => FileTypeOK
  BY Fields DEF FileInit, FileTypeOK, Steps
<1>2. FileInit => OfCommand /\ RealEntries /\ PasswordReachable
  BY DEF FileInit, OfCommand, RealEntries, PasswordReachable, NoCommand
<1> QED
  BY <1>1, <1>2 DEF FileInv

\* connect is given its arguments.
LEMMA ConnectKeeps ==
    ASSUME FileInv, NEW id \in Ids, NEW kind \in Kinds, NEW pw \in Passwords \cup {None}, NEW key \in BOOLEAN,
           NEW alias \in Names \cup {None}, Connect(id, kind, pw, key, alias)
    PROVE  FileInv'
<1>1. FileTypeOK'
  <2>1. root' \in {"mapping", "other", "broken"}
    BY DEF FileInv, FileTypeOK, Connect
  <2>2. open' \in BOOLEAN
    BY DEF FileInv, FileTypeOK, Connect
  <2>3. signs' \in BOOLEAN /\ edited' \in BOOLEAN
    BY DEF FileInv, FileTypeOK, Connect
  <2>4. entries' \in [Ids -> Entry]
    BY DEF FileInv, FileTypeOK, Connect
  <2>5. keychain' \in [Ids -> Passwords \cup {None}]
    BY DEF FileInv, FileTypeOK, Connect
  <2>6. step' \in Steps
    BY DEF Connect, StepTo, Steps
  <2>7. command' \in CommandsGiven
    BY DEF Connect, CommandsGiven, KeptEntry
  <2>8. config' \in Entry
    BY DEF Connect, KeptEntry, Entry
  <2>9. hopes' \in [Ids -> SUBSET (Passwords \cup {None})]
    BY DEF FileInv, FileTypeOK, Connect
  <2> QED
    BY <2>1, <2>2, <2>3, <2>4, <2>5, <2>6, <2>7, <2>8, <2>9 DEF FileTypeOK
<1>2. OfCommand'
  BY DEF OfCommand, Connect, StepTo, Loaded
<1>3. RealEntries'
  BY DEF FileInv, RealEntries, Connect
<1>4. PasswordReachable'
  BY DEF FileInv, PasswordReachable, Connect, Loaded
<1> QED
  BY <1>1, <1>2, <1>3, <1>4 DEF FileInv

\* The connection is tried.
LEMMA TestConnectionKeeps ==
    ASSUME FileInv, TestConnection
    PROVE  FileInv'
<1>1. FileTypeOK'
  <2>1. root' \in {"mapping", "other", "broken"}
    BY DEF FileInv, FileTypeOK, TestConnection
  <2>2. open' \in BOOLEAN
    BY DEF FileInv, FileTypeOK, TestConnection
  <2>3. signs' \in BOOLEAN /\ edited' \in BOOLEAN
    BY DEF FileInv, FileTypeOK, TestConnection, Finished
  <2>4. entries' \in [Ids -> Entry]
    BY DEF FileInv, FileTypeOK, TestConnection
  <2>5. keychain' \in [Ids -> Passwords \cup {None}]
    BY DEF FileInv, FileTypeOK, TestConnection
  <2>6. step' \in Steps
    BY DEF TestConnection, Finished, StepTo, Steps
  <2>7. command' \in CommandsGiven
    BY Fields DEF FileInv, FileTypeOK, TestConnection, Finished
  <2>8. config' \in Entry
    BY Fields DEF FileInv, FileTypeOK, TestConnection, Finished
  <2>9. hopes' \in [Ids -> SUBSET (Passwords \cup {None})]
    BY DEF FileInv, FileTypeOK, TestConnection
  <2> QED
    BY <2>1, <2>2, <2>3, <2>4, <2>5, <2>6, <2>7, <2>8, <2>9 DEF FileTypeOK
<1>2. OfCommand'
  BY DEF FileInv, OfCommand, TestConnection, StepTo, Finished, Loaded
<1>3. RealEntries'
  BY DEF FileInv, RealEntries, TestConnection
<1>4. PasswordReachable'
  BY DEF FileInv, PasswordReachable, TestConnection, Loaded
<1> QED
  BY <1>1, <1>2, <1>3, <1>4 DEF FileInv

\* The password is kept.
LEMMA SavePasswordKeeps ==
    ASSUME FileInv, SavePassword
    PROVE  FileInv'
<1>1. FileTypeOK'
  <2>1. root' \in {"mapping", "other", "broken"}
    BY DEF FileInv, FileTypeOK, SavePassword
  <2>2. open' \in BOOLEAN
    BY DEF FileInv, FileTypeOK, SavePassword
  <2>3. signs' \in BOOLEAN /\ edited' \in BOOLEAN
    BY DEF FileInv, FileTypeOK, SavePassword
  <2>4. entries' \in [Ids -> Entry]
    BY DEF FileInv, FileTypeOK, SavePassword
  <2>5. keychain' \in [Ids -> Passwords \cup {None}]
    BY Fields DEF FileInv, FileTypeOK, SavePassword
  <2>6. step' \in Steps
    BY DEF SavePassword, StepTo, Steps
  <2>7. command' \in CommandsGiven
    BY DEF FileInv, FileTypeOK, SavePassword
  <2>8. config' \in Entry
    BY OneField, Fields DEF FileInv, FileTypeOK, SavePassword, StoredUrl
  <2>9. hopes' \in [Ids -> SUBSET (Passwords \cup {None})]
    BY Fields DEF FileInv, FileTypeOK, SavePassword, Hope, OfCommand
  <2> QED
    BY <2>1, <2>2, <2>3, <2>4, <2>5, <2>6, <2>7, <2>8, <2>9 DEF FileTypeOK
<1>2. OfCommand'
  BY DEF FileInv, OfCommand, SavePassword, StepTo, StoredUrl, FileTypeOK
<1>3. RealEntries'
  BY DEF FileInv, RealEntries, SavePassword
<1>4. PasswordReachable'
  BY DEF FileInv, PasswordReachable, SavePassword, Hope, FileTypeOK, Loaded
<1> QED
  BY <1>1, <1>2, <1>3, <1>4 DEF FileInv

\* The entry before is read.
LEMMA LoadPreviousKeeps ==
    ASSUME FileInv, LoadPrevious
    PROVE  FileInv'
<1>1. FileTypeOK'
  <2>1. root' \in {"mapping", "other", "broken"}
    BY DEF FileInv, FileTypeOK, LoadPrevious
  <2>2. open' \in BOOLEAN
    BY DEF FileInv, FileTypeOK, LoadPrevious
  <2>3. signs' \in BOOLEAN /\ edited' \in BOOLEAN
    BY DEF FileInv, FileTypeOK, LoadPrevious, Finished
  <2>4. entries' \in [Ids -> Entry]
    BY DEF FileInv, FileTypeOK, LoadPrevious
  <2>5. keychain' \in [Ids -> Passwords \cup {None}]
    BY DEF FileInv, FileTypeOK, LoadPrevious
  <2>6. step' \in Steps
    BY DEF LoadPrevious, Finished, StepTo, Steps
  <2>7. command' \in CommandsGiven
    BY Fields DEF FileInv, FileTypeOK, LoadPrevious, Finished
  <2>8. config' \in Entry
    <3>1. command.id \in Ids /\ Entries[command.id] \in Entry
      BY Fields DEF FileInv, FileTypeOK, OfCommand, Entries, LoadPrevious
    <3>2. Carried(Entries[command.id]) \in SUBSET DocumentSources
      BY <3>1, Fields DEF Carried
    <3>3. PICK d \in SUBSET DocumentSources : d = Carried(Entries[command.id])
      BY <3>2
    <3>4. config' \in {[config EXCEPT !.docs = d], NoEntry}
      BY <3>3 DEF LoadPrevious, Finished
    <3> QED
      BY <3>4, Fields DEF FileInv, FileTypeOK, Entry
  <2>9. hopes' \in [Ids -> SUBSET (Passwords \cup {None})]
    BY DEF FileInv, FileTypeOK, LoadPrevious
  <2> QED
    BY <2>1, <2>2, <2>3, <2>4, <2>5, <2>6, <2>7, <2>8, <2>9 DEF FileTypeOK
<1>2. OfCommand'
  <2>1. command.name = "connect" /\ command.id \in Ids /\ config \in Entry
    BY DEF LoadPrevious, FileInv, FileTypeOK, OfCommand
  <2>2. CASE step' = "idle"
    <3>1. command' = NoCommand
      BY <2>2 DEF LoadPrevious, Finished, StepTo
    <3> QED
      BY <2>2 DEF OfCommand
  <2>3. CASE step' # "idle"
    <3>1. /\ config' = [config EXCEPT !.docs = Carried(Entries[command.id])]
          /\ step' \in {"key", "save"} /\ UNCHANGED <<command, root, entries, keychain>>
      BY <2>3 DEF LoadPrevious, Finished, StepTo
    <3>2. root = "mapping" => Carried(Entries[command.id]) = entries[command.id].docs
      BY Fields DEF Carried, Entries
    <3>3. Carried(Entries[command.id]) \in SUBSET DocumentSources
      BY <2>1, Fields DEF FileInv, FileTypeOK, Carried, Entries
    <3>4. config'.docs = Carried(Entries[command.id]) /\ config'.storage = config.storage /\ config'.url = config.url
      <4>1. PICK d \in SUBSET DocumentSources : d = Carried(Entries[command.id])
        BY <3>3
      <4>2. config' = [config EXCEPT !.docs = d]
        BY <3>1, <4>1
      <4> QED
        BY <4>1, <4>2
    <3> QED
      BY <2>1, <3>1, <3>2, <3>4 DEF LoadPrevious, FileInv, OfCommand
  <2> QED
    BY <2>2, <2>3
<1>3. RealEntries'
  BY DEF FileInv, RealEntries, LoadPrevious
<1>4. PasswordReachable'
  BY DEF FileInv, PasswordReachable, LoadPrevious, Loaded
<1> QED
  BY <1>1, <1>2, <1>3, <1>4 DEF FileInv

\* The private key is kept.
LEMMA SaveKeyKeeps ==
    ASSUME FileInv, SaveKey
    PROVE  FileInv'
<1>1. FileTypeOK'
  <2>1. root' \in {"mapping", "other", "broken"}
    BY DEF FileInv, FileTypeOK, SaveKey
  <2>2. open' \in BOOLEAN
    BY DEF FileInv, FileTypeOK, SaveKey
  <2>3. signs' \in BOOLEAN /\ edited' \in BOOLEAN
    BY DEF FileInv, FileTypeOK, SaveKey, Finished
  <2>4. entries' \in [Ids -> Entry]
    BY DEF FileInv, FileTypeOK, SaveKey
  <2>5. keychain' \in [Ids -> Passwords \cup {None}]
    BY DEF FileInv, FileTypeOK, SaveKey
  <2>6. step' \in Steps
    BY DEF SaveKey, Finished, StepTo, Steps
  <2>7. command' \in CommandsGiven
    BY Fields DEF FileInv, FileTypeOK, SaveKey, Finished
  <2>8. config' \in Entry
    BY Fields DEF FileInv, FileTypeOK, SaveKey, Finished
  <2>9. hopes' \in [Ids -> SUBSET (Passwords \cup {None})]
    BY DEF FileInv, FileTypeOK, SaveKey
  <2> QED
    BY <2>1, <2>2, <2>3, <2>4, <2>5, <2>6, <2>7, <2>8, <2>9 DEF FileTypeOK
<1>2. OfCommand'
  BY DEF FileInv, OfCommand, SaveKey, Finished, StepTo, Loaded
<1>3. RealEntries'
  BY DEF FileInv, RealEntries, SaveKey
<1>4. PasswordReachable'
  BY DEF FileInv, PasswordReachable, SaveKey, Loaded
<1> QED
  BY <1>1, <1>2, <1>3, <1>4 DEF FileInv

\* An alias is given.
LEMMA SetAliasKeeps ==
    ASSUME FileInv, NEW id \in Ids, NEW name \in Names, SetAlias(id, name)
    PROVE  FileInv'
<1>1. FileTypeOK'
  <2>1. root' \in {"mapping", "other", "broken"}
    BY DEF FileInv, FileTypeOK, SetAlias
  <2>2. open' \in BOOLEAN
    BY DEF FileInv, FileTypeOK, SetAlias
  <2>3. signs' \in BOOLEAN /\ edited' \in BOOLEAN
    BY DEF FileInv, FileTypeOK, SetAlias
  <2>4. entries' \in [Ids -> Entry]
    BY DEF FileInv, FileTypeOK, SetAlias
  <2>5. keychain' \in [Ids -> Passwords \cup {None}]
    BY DEF FileInv, FileTypeOK, SetAlias
  <2>6. step' \in Steps
    BY DEF SetAlias, StepTo, Steps
  <2>7. command' \in CommandsGiven
    BY DEF SetAlias, CommandsGiven
  <2>8. config' \in Entry
    <3>1. Entries[id] \in Entry
      BY Fields DEF FileInv, FileTypeOK, Entries
    <3> QED
      BY <3>1, OneField DEF SetAlias
  <2>9. hopes' \in [Ids -> SUBSET (Passwords \cup {None})]
    BY DEF FileInv, FileTypeOK, SetAlias
  <2> QED
    BY <2>1, <2>2, <2>3, <2>4, <2>5, <2>6, <2>7, <2>8, <2>9 DEF FileTypeOK
<1>2. OfCommand'
  <2>1. entries[id] \in Entry /\ entries[id] # NoEntry /\ Entries[id] = entries[id] /\ root = "mapping"
    BY DEF SetAlias, Known, Entries, FileInv, FileTypeOK
  <2>2. /\ config' = [entries[id] EXCEPT !.alias = name] /\ step' = "save" /\ command'.id = id
        /\ command'.name = "alias" /\ UNCHANGED <<root, entries, keychain, hopes>>
    BY <2>1 DEF SetAlias, StepTo
  <2>3. /\ config'.storage = entries[id].storage /\ config'.url = entries[id].url
        /\ config'.docs = entries[id].docs
    BY <2>1, <2>2 DEF Entry
  <2>4. entries[id].storage # None /\ Loaded(id, entries[id]) \in hopes[id]
    BY <2>1 DEF FileInv, RealEntries, PasswordReachable
  <2> QED
    BY <2>2, <2>3, <2>4 DEF OfCommand, Loaded
<1>3. RealEntries'
  BY DEF FileInv, RealEntries, SetAlias
<1>4. PasswordReachable'
  BY DEF FileInv, PasswordReachable, SetAlias, Loaded
<1> QED
  BY <1>1, <1>2, <1>3, <1>4 DEF FileInv

\* Document sources are given.
LEMMA AgentDocsKeeps ==
    ASSUME FileInv, NEW id \in Ids, NEW docs \in SUBSET DocumentSources, AgentDocs(id, docs)
    PROVE  FileInv'
<1>1. FileTypeOK'
  <2>1. root' \in {"mapping", "other", "broken"}
    BY DEF FileInv, FileTypeOK, AgentDocs
  <2>2. open' \in BOOLEAN
    BY DEF FileInv, FileTypeOK, AgentDocs
  <2>3. signs' \in BOOLEAN /\ edited' \in BOOLEAN
    BY DEF FileInv, FileTypeOK, AgentDocs
  <2>4. entries' \in [Ids -> Entry]
    BY DEF FileInv, FileTypeOK, AgentDocs
  <2>5. keychain' \in [Ids -> Passwords \cup {None}]
    BY DEF FileInv, FileTypeOK, AgentDocs
  <2>6. step' \in Steps
    BY DEF AgentDocs, StepTo, Steps
  <2>7. command' \in CommandsGiven
    BY DEF AgentDocs, CommandsGiven
  <2>8. config' \in Entry
    <3>1. Entries[id] \in Entry
      BY Fields DEF FileInv, FileTypeOK, Entries
    <3> QED
      BY <3>1, OneField DEF AgentDocs
  <2>9. hopes' \in [Ids -> SUBSET (Passwords \cup {None})]
    BY DEF FileInv, FileTypeOK, AgentDocs
  <2> QED
    BY <2>1, <2>2, <2>3, <2>4, <2>5, <2>6, <2>7, <2>8, <2>9 DEF FileTypeOK
<1>2. OfCommand'
  <2>1. entries[id] \in Entry /\ entries[id] # NoEntry /\ Entries[id] = entries[id] /\ root = "mapping"
    BY DEF AgentDocs, Known, Entries, FileInv, FileTypeOK
  <2>2. /\ config' = [entries[id] EXCEPT !.docs = docs] /\ step' = "save" /\ command'.id = id
        /\ command'.name = "docs" /\ UNCHANGED <<root, entries, keychain, hopes>>
    BY <2>1 DEF AgentDocs, StepTo
  <2>3. config'.storage = entries[id].storage /\ config'.url = entries[id].url
    BY <2>1, <2>2 DEF Entry
  <2>4. entries[id].storage # None /\ Loaded(id, entries[id]) \in hopes[id]
    BY <2>1 DEF FileInv, RealEntries, PasswordReachable
  <2> QED
    BY <2>2, <2>3, <2>4 DEF OfCommand, Loaded
<1>3. RealEntries'
  BY DEF FileInv, RealEntries, AgentDocs
<1>4. PasswordReachable'
  BY DEF FileInv, PasswordReachable, AgentDocs, Loaded
<1> QED
  BY <1>1, <1>2, <1>3, <1>4 DEF FileInv

\* A password is rotated.
LEMMA UpdatePasswordKeeps ==
    ASSUME FileInv, NEW id \in Ids, NEW pw \in Passwords, NEW parses \in BOOLEAN, UpdatePassword(id, pw, parses)
    PROVE  FileInv'
<1>1. FileTypeOK'
  <2>1. root' \in {"mapping", "other", "broken"}
    BY DEF FileInv, FileTypeOK, UpdatePassword
  <2>2. open' \in BOOLEAN
    BY DEF UpdatePassword
  <2>3. signs' \in BOOLEAN /\ edited' \in BOOLEAN
    BY DEF FileInv, FileTypeOK, UpdatePassword, Finished
  <2>4. entries' \in [Ids -> Entry]
    BY DEF FileInv, FileTypeOK, UpdatePassword
  <2>5. keychain' \in [Ids -> Passwords \cup {None}]
    BY DEF FileInv, FileTypeOK, UpdatePassword
  <2>6. step' \in Steps
    BY DEF UpdatePassword, Finished, StepTo, Steps
  <2>7. command' \in CommandsGiven
    <3>1. [name |-> "rotate", id |-> id, password |-> pw] \in CommandsGiven
      BY DEF CommandsGiven
    <3> QED
      BY <3>1, Fields DEF UpdatePassword, Finished
  <2>8. config' \in Entry
    <3>1. Entries[id] \in Entry /\ Entries[id].url \in Passwords \cup {None}
      BY Fields DEF FileInv, FileTypeOK, Entries
    <3>2. PICK u \in Passwords \cup {None} : u = IF parses THEN None ELSE Entries[id].url
      BY <3>1
    <3>3. config' \in {[Entries[id] EXCEPT !.storage = "keychain", !.url = u], NoEntry}
      BY <3>2 DEF UpdatePassword, Finished
    <3>4. [Entries[id] EXCEPT !.storage = "keychain", !.url = u] \in Entry
      BY <3>1, <3>2, OneField
    <3> QED
      BY <3>3, <3>4, Fields
  <2>9. hopes' \in [Ids -> SUBSET (Passwords \cup {None})]
    BY DEF FileInv, FileTypeOK, UpdatePassword, Hope
  <2> QED
    BY <2>1, <2>2, <2>3, <2>4, <2>5, <2>6, <2>7, <2>8, <2>9 DEF FileTypeOK
<1>2. OfCommand'
  <2>1. CASE step' = "idle"
    <3>1. command' = NoCommand
      BY <2>1 DEF UpdatePassword, Finished, StepTo
    <3> QED
      BY <2>1 DEF OfCommand
  <2>2. CASE step' # "idle"
    <3>1. /\ command' = [name |-> "rotate", id |-> id, password |-> pw] /\ step' = "save"
          /\ config' = [Entries[id] EXCEPT !.storage = "keychain",
                                            !.url = IF parses THEN None ELSE @]
          /\ keychain' = [keychain EXCEPT ![id] = pw] /\ UNCHANGED <<root, entries>>
      BY <2>2 DEF UpdatePassword, Finished, StepTo
    <3>2. command'.name = "rotate" /\ command'.id = id /\ command'.password = pw
      BY <3>1
    <3>3. Entries[id] # NoEntry /\ root = "mapping" /\ Entries[id] = entries[id] /\ entries[id] \in Entry
      BY DEF UpdatePassword, Known, Entries, FileInv, FileTypeOK
    <3>4. config'.storage = "keychain" /\ config'.docs = entries[id].docs
      <4>1. PICK u \in Passwords \cup {None} : u = IF parses THEN None ELSE Entries[id].url
        BY <3>3, Fields
      <4>2. config' = [Entries[id] EXCEPT !.storage = "keychain", !.url = u]
        BY <3>1, <4>1
      <4> QED
        BY <3>3, <4>2
    <3>5. keychain'[id] = pw
      BY <3>1 DEF FileInv, FileTypeOK
    <3> QED
      BY <3>1, <3>2, <3>3, <3>4, <3>5 DEF OfCommand
  <2> QED
    BY <2>1, <2>2
<1>3. RealEntries'
  BY DEF FileInv, RealEntries, UpdatePassword
<1>4. PasswordReachable'
  BY DEF FileInv, PasswordReachable, UpdatePassword, Known, Entries, Hope, FileTypeOK,
         Loaded
<1> QED
  BY <1>1, <1>2, <1>3, <1>4 DEF FileInv

\* The entry is written.
LEMMA SaveKeeps ==
    ASSUME FileInv, Save
    PROVE  FileInv'
<1>1. FileTypeOK'
  <2>1. root' \in {"mapping", "other", "broken"}
    BY DEF FileInv, FileTypeOK, Save, SaveEntry
  <2>2. open' \in BOOLEAN
    BY DEF FileInv, FileTypeOK, Save
  <2>3. signs' \in BOOLEAN /\ edited' \in BOOLEAN
    BY DEF FileInv, FileTypeOK, Save, Finished
  <2>4. entries' \in [Ids -> Entry]
    BY Fields DEF FileInv, FileTypeOK, Save, SaveEntry, Entries
  <2>5. keychain' \in [Ids -> Passwords \cup {None}]
    BY DEF FileInv, FileTypeOK, Save
  <2>6. step' \in Steps
    BY DEF Save, Finished, Steps
  <2>7. command' \in CommandsGiven
    BY Fields DEF Save, Finished
  <2>8. config' \in Entry
    BY Fields DEF Save, Finished
  <2>9. hopes' \in [Ids -> SUBSET (Passwords \cup {None})]
    BY Fields DEF FileInv, FileTypeOK, Save
  <2> QED
    BY <2>1, <2>2, <2>3, <2>4, <2>5, <2>6, <2>7, <2>8, <2>9 DEF FileTypeOK
<1>2. OfCommand'
  BY DEF OfCommand, Save, Finished
<1>3. RealEntries'
  <2>1. CASE UNCHANGED entries
    BY <2>1 DEF FileInv, RealEntries
  <2>2. CASE root = "mapping" /\ entries' = [entries EXCEPT ![command.id] = config]
    <3>1. command.id \in Ids /\ config.storage # None
      <4>1. /\ step = "save" /\ command.id \in Ids
            /\ command.name \in {"connect", "alias", "docs", "rotate"}
        BY DEF Save, FileInv, OfCommand
      <4> QED
        BY <4>1 DEF FileInv, OfCommand, None
    <3> QED
      BY <2>2, <3>1 DEF FileInv, RealEntries
  <2> QED
    BY <2>1, <2>2 DEF Save, ReadForUpdate, SaveEntry, Entries
<1>4. PasswordReachable'
  BY DEF FileInv, PasswordReachable, Save, SaveEntry, Entries, FileTypeOK, OfCommand,
         Loaded
<1> QED
  BY <1>1, <1>2, <1>3, <1>4 DEF FileInv

\* The command is killed.
LEMMA CommandKilledKeeps ==
    ASSUME FileInv, CommandKilled
    PROVE  FileInv'
<1>1. FileTypeOK'
  <2>1. root' \in {"mapping", "other", "broken"}
    BY DEF FileInv, FileTypeOK, CommandKilled
  <2>2. open' \in BOOLEAN
    BY DEF FileInv, FileTypeOK, CommandKilled
  <2>3. signs' \in BOOLEAN /\ edited' \in BOOLEAN
    BY DEF FileInv, FileTypeOK, CommandKilled, Finished
  <2>4. entries' \in [Ids -> Entry]
    BY DEF FileInv, FileTypeOK, CommandKilled
  <2>5. keychain' \in [Ids -> Passwords \cup {None}]
    BY DEF FileInv, FileTypeOK, CommandKilled
  <2>6. step' \in Steps
    BY DEF CommandKilled, Finished, Steps
  <2>7. command' \in CommandsGiven
    BY Fields DEF CommandKilled, Finished
  <2>8. config' \in Entry
    BY Fields DEF CommandKilled, Finished
  <2>9. hopes' \in [Ids -> SUBSET (Passwords \cup {None})]
    BY DEF FileInv, FileTypeOK, CommandKilled
  <2> QED
    BY <2>1, <2>2, <2>3, <2>4, <2>5, <2>6, <2>7, <2>8, <2>9 DEF FileTypeOK
<1>2. OfCommand'
  BY DEF OfCommand, CommandKilled, Finished
<1>3. RealEntries'
  BY DEF FileInv, RealEntries, CommandKilled
<1>4. PasswordReachable'
  BY DEF FileInv, PasswordReachable, CommandKilled, Loaded
<1> QED
  BY <1>1, <1>2, <1>3, <1>4 DEF FileInv

\* The keychain or the file changes under the operator's hand.
LEMMA SurroundingsKeeps ==
    ASSUME FileInv, Surroundings
    PROVE  FileInv'
<1>1. FileTypeOK'
  BY DEF FileInv, FileTypeOK, Surroundings
<1>2. OfCommand'
  BY DEF FileInv, OfCommand, Surroundings, HasRead, Loaded
<1>3. RealEntries'
  BY DEF FileInv, RealEntries, Surroundings
<1>4. PasswordReachable'
  BY DEF FileInv, PasswordReachable, Surroundings, Loaded
<1> QED
  BY <1>1, <1>2, <1>3, <1>4 DEF FileInv

\* An entry is rewritten with its password where it was, or taken out.
LEMMA RewrittenKeeps ==
    ASSUME FileInv, NEW id \in Ids, NEW e \in Entry, Rewritten(id, e),
           e # NoEntry => e.storage = entries[id].storage /\ e.url = entries[id].url
    PROVE  FileInv'
<1>1. /\ entries' = [entries EXCEPT ![id] = e] /\ entries \in [Ids -> Entry]
      /\ entries[id] # NoEntry
      /\ UNCHANGED <<root, keychain, open, step, command, config, signs, hopes>>
  BY DEF Rewritten, FileInv, FileTypeOK
<1>2. FileTypeOK'
  BY <1>1 DEF FileInv, FileTypeOK, Rewritten
<1>3. OfCommand'
  BY <1>1 DEF FileInv, OfCommand, Rewritten, HasRead, Loaded
<1>4. RealEntries'
  BY <1>1 DEF FileInv, RealEntries
<1>5. PasswordReachable'
  BY <1>1 DEF FileInv, PasswordReachable, Loaded
<1> QED
  BY <1>2, <1>3, <1>4, <1>5 DEF FileInv

\* An operator edits an entry,
LEMMA HandEditKeeps ==
    ASSUME FileInv, NEW id \in Ids, NEW alias \in Names \cup {None},
           NEW docs \in SUBSET DocumentSources, HandEdit(id, alias, docs)
    PROVE  FileInv'
<1> DEFINE e == [entries[id] EXCEPT !.alias = alias, !.docs = docs]
<1>1. entries[id] \in Entry
  BY DEF FileInv, FileTypeOK
<1>2. e \in Entry /\ e.storage = entries[id].storage /\ e.url = entries[id].url
  BY <1>1 DEF Entry
<1> QED
  BY <1>2, RewrittenKeeps DEF HandEdit

\* or takes one out.
LEMMA TakeOutKeeps ==
    ASSUME FileInv, NEW id \in Ids, TakeOut(id)
    PROVE  FileInv'
  BY Fields, RewrittenKeeps DEF TakeOut

\* The four hold at every step of the commands, wherever one stops.
THEOREM FileInvariant == FileSpec => []FileInv
<1>1. FileInit => FileInv
  BY FileStart
<1>2. FileInv /\ [FileNext]_fileVars => FileInv'
  <2> SUFFICES ASSUME FileInv, [FileNext]_fileVars PROVE FileInv'
    OBVIOUS
  <2>1. CASE UNCHANGED fileVars
    BY <2>1 DEF fileVars, FileInv, FileTypeOK, OfCommand, RealEntries, PasswordReachable, Loaded
  <2>2. CASE FileNext
    <3>1. \A name \in Ids \cup Names : ResolveAlias(name) \subseteq Ids
      BY DEF ResolveAlias
    <3> QED
      BY <2>2, <3>1, ConnectKeeps, TestConnectionKeeps, SavePasswordKeeps, LoadPreviousKeeps,
         SaveKeyKeeps, SetAliasKeeps, AgentDocsKeeps, UpdatePasswordKeeps, SaveKeeps,
         CommandKilledKeeps, SurroundingsKeeps, HandEditKeeps, TakeOutKeeps
      DEF FileNext
  <2> QED
    BY <2>1, <2>2
<1> QED
  BY <1>1, <1>2, PTL DEF FileSpec

\* Wherever a command stops, a registered connector signs in with a password that it
\* was given and that its operator may expect it to use.
THEOREM PasswordStaysReachable == FileSpec => []PasswordReachable
<1>1. FileInv => PasswordReachable
  BY DEF FileInv
<1> QED
  BY <1>1, FileInvariant, PTL

\* A write keeps every other connector, as the file has it by then, and a connector's
\* document sources as they were read.
THEOREM EntriesAlwaysSurvive == FileSpec => EntriesSurvive
<1> DEFINE Survives ==
      step' # step =>
          \A id \in Ids : entries[id] # NoEntry /\ entries'[id] # entries[id] =>
              /\ command.id = id /\ entries'[id] # NoEntry
              /\ entries'[id].docs # entries[id].docs => command.name = "docs" \/ edited
<1>1. FileInv /\ [FileNext]_fileVars => [Survives]_fileVars
  <2> SUFFICES ASSUME FileInv, FileNext, step' # step, NEW id \in Ids,
                      entries[id] # NoEntry, entries'[id] # entries[id]
               PROVE  /\ command.id = id /\ entries'[id] # NoEntry
                      /\ entries'[id].docs # entries[id].docs => command.name = "docs" \/ edited
    OBVIOUS
  <2>1. Save
    BY DEF FileNext, Connect, TestConnection, SavePassword, LoadPrevious, SaveKey, SetAlias,
       AgentDocs, UpdatePassword, CommandKilled, Surroundings, HandEdit,
       TakeOut, Rewritten
  <2>2. root = "mapping" /\ entries' = [entries EXCEPT ![command.id] = config] /\ step = "save"
    BY <2>1 DEF Save, ReadForUpdate, SaveEntry, Entries
  <2>3. command.id = id /\ entries'[id] = config
    BY <2>2 DEF FileInv, FileTypeOK
  <2>4. entries'[id] # NoEntry
    BY <2>1, SaveKeeps, <2>2, <2>3, Fields DEF FileInv, OfCommand, RealEntries, None
  <2>5. config.docs # entries[id].docs => command.name = "docs" \/ edited
    BY <2>2, <2>3 DEF FileInv, OfCommand
  <2> QED
    BY <2>3, <2>4, <2>5
<1> QED
  BY <1>1, FileInvariant, PTL DEF FileSpec, EntriesSurvive

----------------------------------------------------------------------------
(* KeychainKey: a Snowflake connector's key is whole.                      *)

\* A writer has a generation from when it draws one, and nobody else's.
OwnGeneration ==
    \A w \in Writers :
        /\ writerPc[w] = "ready" <=> generation[w] = NoGeneration
        /\ writerPc[w] = "ready" => written[w] = 0
        /\ generation[w] # NoGeneration => generation[w] \in used
        /\ \A v \in Writers :
              generation[w] = generation[v] /\ generation[w] # NoGeneration => w = v

\* What a generation holds is of the writer that drew it.
EntriesOfOwner ==
    \A g \in Generations, i \in KeySlots, w \in Writers : store[g][i] = w => generation[w] = g

\* The entries counted as written are there.
WrittenSoFar ==
    \A w \in Writers : writerPc[w] = "writing" =>
        \A i \in 1 .. written[w] : store[generation[w]][i] = w

\* The generation in use is whole, and of a writer that has switched to it.
PointerWhole ==
    pointer # NoGeneration =>
        \E w \in Writers :
            /\ generation[w] = pointer /\ writerPc[w] \in {"removing", "done"}
            /\ \A i \in KeySlots : store[pointer][i] = w

\* The generation a writer will remove is one that was in use, and is no more when it
\* removes it.
PreviousInUse ==
    \A w \in Writers :
        /\ previous[w] # NoGeneration =>
              /\ previous[w] \in used
              /\ \A v \in Writers :
                    generation[v] = previous[w] => writerPc[v] \in {"removing", "done"}
        /\ writerPc[w] = "removing" => previous[w] \notin {NoGeneration, pointer}

\* An opening reads what one writer put under the generation it found.
ReadsOneKey ==
    \A r \in Readers :
        /\ readerPc[r] = "ready" => loaded[r] = {} /\ parts[r] = 0
        /\ readerPc[r] = "reading" => parts[r] < Passphrase
        /\ readerPc[r] \in {"reading", "loaded"} \/ loaded[r] # {} => found[r] # NoGeneration
        /\ found[r] # NoGeneration => \E w \in Writers : generation[w] = found[r]
        /\ \A w \in Writers : w \in loaded[r] => generation[w] = found[r]

\* Erasing an entry leaves every other entry as it was.
LEMMA EraseLeaves ==
    ASSUME ChainTypeOK, NEW g \in Generations, NEW i \in KeySlots, Erase(g, i)
    PROVE  /\ store' \in [Generations -> [KeySlots -> Held]]
           /\ \A h \in Generations, j \in KeySlots :
                 store'[h][j] = store[h][j] \/ (h = g /\ store'[h][j] = NoStoredKey)
<1>1. CASE store' = store
  BY <1>1 DEF ChainTypeOK
<1>2. CASE store' = [store EXCEPT ![g][i] = NoStoredKey]
  <2>1. NoStoredKey \in Held
    BY DEF Held
  <2> QED
    BY <1>2, <2>1 DEF ChainTypeOK
<1> QED
  BY <1>1, <1>2 DEF Erase

\* The inductive invariant.
ChainInv ==
    /\ ChainTypeOK /\ OwnGeneration /\ EntriesOfOwner /\ WrittenSoFar
    /\ PointerWhole /\ PreviousInUse /\ ReadsOneKey

\* Nothing is stored and nobody has begun.
LEMMA ChainStart == ChainInit => ChainInv
<1>1. ChainInit => ChainTypeOK
  BY PartsAssumption DEF ChainInit, ChainTypeOK, Held, Named, KeySlots, Passphrase
<1>2. ChainInit => OwnGeneration /\ WrittenSoFar /\ PointerWhole /\ PreviousInUse
  BY DEF ChainInit, OwnGeneration, WrittenSoFar, PointerWhole, PreviousInUse
<1>3. ChainInit => EntriesOfOwner
  BY NothingStored DEF ChainInit, EntriesOfOwner
<1>4. ChainInit => ReadsOneKey
  BY PartsAssumption DEF ChainInit, ReadsOneKey, Passphrase
<1> QED
  BY <1>1, <1>2, <1>3, <1>4 DEF ChainInv

\* A generation is drawn.
LEMMA DrawKeeps ==
    ASSUME ChainInv, NEW w \in Writers, Draw(w)
    PROVE  ChainInv'
<1>1. /\ writerPc[w] = "ready" /\ writerPc' = [writerPc EXCEPT ![w] = "writing"]
      /\ UNCHANGED <<store, pointer, written, readerVars>>
  BY DEF Draw, Moves
<1>2. PICK p \in {pointer, NoGeneration}, g \in Generations \ used :
         /\ previous' = [previous EXCEPT ![w] = p]
         /\ generation' = [generation EXCEPT ![w] = g]
         /\ used' = used \cup {g}
  BY DEF Draw, FreshNames
<1>3. /\ generation[w] = NoGeneration /\ p \in Named /\ g \in Named /\ g # NoGeneration
      /\ p # NoGeneration => p = pointer
      /\ g # pointer /\ \A v \in Writers : generation[v] # g /\ previous[v] # g
  BY <1>1, <1>2, NothingStored DEF ChainInv, ChainTypeOK, OwnGeneration, PointerWhole,
         PreviousInUse, Named
<1>4. ChainTypeOK'
  BY NothingStored, PartsAssumption, <1>1, <1>2, <1>3 DEF ChainInv, ChainTypeOK,
         FreshNames, readerVars
<1>5. OwnGeneration'
  BY NothingStored, PartsAssumption, <1>1, <1>2, <1>3 DEF ChainInv, OwnGeneration,
         FreshNames, readerVars, ChainTypeOK
<1>6. EntriesOfOwner'
  BY NothingStored, PartsAssumption, <1>1, <1>2, <1>3 DEF ChainInv, EntriesOfOwner,
         FreshNames, readerVars, ChainTypeOK, OwnGeneration
<1>7. WrittenSoFar'
  BY NothingStored, PartsAssumption, <1>1, <1>2, <1>3 DEF ChainInv, WrittenSoFar,
         FreshNames, readerVars, ChainTypeOK, OwnGeneration, PreviousInUse
<1>8. PointerWhole'
  BY NothingStored, PartsAssumption, <1>1, <1>2, <1>3 DEF ChainInv, PointerWhole,
         FreshNames, readerVars, ChainTypeOK, OwnGeneration, WrittenSoFar, PreviousInUse
<1>9. PreviousInUse'
  BY NothingStored, PartsAssumption, <1>1, <1>2, <1>3 DEF ChainInv, PreviousInUse,
         FreshNames, readerVars, ChainTypeOK, OwnGeneration, PointerWhole
<1>10. ReadsOneKey'
  BY NothingStored, PartsAssumption, <1>1, <1>2, <1>3 DEF ChainInv, ReadsOneKey,
         FreshNames, readerVars, ChainTypeOK, OwnGeneration, EntriesOfOwner,
         PointerWhole
<1> QED
  BY <1>4, <1>5, <1>6, <1>7, <1>8, <1>9, <1>10 DEF ChainInv

\* An entry is written.
LEMMA PutKeeps ==
    ASSUME ChainInv, NEW w \in Writers, Put(w)
    PROVE  ChainInv'
<1>1. /\ writerPc[w] = "writing" /\ written[w] < Passphrase
      /\ written' = [written EXCEPT ![w] = @ + 1]
      /\ UNCHANGED <<pointer, used, writerPc, previous, generation, readerVars>>
      /\ generation[w] \in Generations /\ written[w] + 1 \in KeySlots
  BY PartsAssumption DEF Put, ChainInv, ChainTypeOK, OwnGeneration, Named, KeySlots,
         Passphrase
<1>2. /\ store' \in [Generations -> [KeySlots -> Held]]
      /\ \A h \in Generations, i \in KeySlots :
            store'[h][i] = IF h = generation[w] /\ i = written[w] + 1 THEN w ELSE store[h][i]
  BY <1>1 DEF Put, ChainInv, ChainTypeOK, Held
<1>3. ChainTypeOK'
  BY NothingStored, PartsAssumption, <1>1, <1>2 DEF ChainInv, ChainTypeOK, Passphrase,
         readerVars, KeySlots
<1>4. OwnGeneration'
  BY NothingStored, PartsAssumption, <1>1, <1>2 DEF ChainInv, OwnGeneration, Passphrase,
         readerVars, KeySlots, ChainTypeOK
<1>5. EntriesOfOwner'
  BY NothingStored, PartsAssumption, <1>1, <1>2 DEF ChainInv, EntriesOfOwner,
         Passphrase, readerVars, KeySlots, ChainTypeOK, OwnGeneration
<1>6. WrittenSoFar'
  BY NothingStored, PartsAssumption, <1>1, <1>2 DEF ChainInv, WrittenSoFar, Passphrase,
         readerVars, KeySlots, ChainTypeOK, OwnGeneration, PreviousInUse
<1>7. PointerWhole'
  <2> SUFFICES ASSUME pointer # NoGeneration PROVE PointerWhole'
    BY <1>1 DEF PointerWhole
  <2>1. PICK v \in Writers :
           /\ generation[v] = pointer /\ writerPc[v] \in {"removing", "done"}
           /\ \A i \in KeySlots : store[pointer][i] = v
    BY DEF ChainInv, PointerWhole
  <2>2. pointer \in Generations /\ pointer # generation[w]
    BY <1>1, <2>1 DEF ChainInv, ChainTypeOK, OwnGeneration, PreviousInUse, Named
  <2>3. writerPc'[v] \in {"removing", "done"}
    BY <1>1, <1>1, <2>1 DEF ChainInv, ChainTypeOK
  <2>4. \A i \in KeySlots : store'[pointer][i] = v
    BY <1>2, <2>1, <2>2
  <2> QED
    BY <1>1, <2>1, <2>3, <2>4 DEF PointerWhole
<1>8. PreviousInUse'
  BY NothingStored, PartsAssumption, <1>1, <1>2 DEF ChainInv, PreviousInUse, Passphrase,
         readerVars, KeySlots, ChainTypeOK, OwnGeneration, PointerWhole
<1>9. ReadsOneKey'
  BY NothingStored, PartsAssumption, <1>1, <1>2 DEF ChainInv, ReadsOneKey, Passphrase,
         readerVars, KeySlots, ChainTypeOK, OwnGeneration, EntriesOfOwner, PointerWhole
<1> QED
  BY <1>3, <1>4, <1>5, <1>6, <1>7, <1>8, <1>9 DEF ChainInv

\* The pointer switches.
LEMMA SwitchKeeps ==
    ASSUME ChainInv, NEW w \in Writers, Switch(w)
    PROVE  ChainInv'
<1>1. ChainTypeOK'
  BY NothingStored, PartsAssumption DEF ChainInv, ChainTypeOK, Switch, Moves,
         ReaderMoves, writerVars, readerVars, Named, KeySlots, Passphrase, Held
<1>2. OwnGeneration'
  BY NothingStored, PartsAssumption DEF ChainInv, OwnGeneration, Switch, Moves,
         ReaderMoves, writerVars, readerVars, Named, KeySlots, Passphrase, Held,
         ChainTypeOK
<1>3. EntriesOfOwner'
  BY NothingStored, PartsAssumption DEF ChainInv, EntriesOfOwner, Switch, Moves,
         ReaderMoves, writerVars, readerVars, Named, KeySlots, Passphrase, Held,
         ChainTypeOK, OwnGeneration
<1>4. WrittenSoFar'
  BY NothingStored, PartsAssumption DEF ChainInv, WrittenSoFar, Switch, Moves,
         ReaderMoves, writerVars, readerVars, Named, KeySlots, Passphrase, Held,
         ChainTypeOK, OwnGeneration, PreviousInUse
<1>5. PointerWhole'
  BY NothingStored, PartsAssumption DEF ChainInv, PointerWhole, Switch, Moves,
         ReaderMoves, writerVars, readerVars, Named, KeySlots, Passphrase, Held,
         ChainTypeOK, OwnGeneration, WrittenSoFar, PreviousInUse
<1>6. PreviousInUse'
  BY NothingStored, PartsAssumption DEF ChainInv, PreviousInUse, Switch, Moves,
         ReaderMoves, writerVars, readerVars, Named, KeySlots, Passphrase, Held,
         ChainTypeOK, OwnGeneration, PointerWhole
<1>7. ReadsOneKey'
  BY NothingStored, PartsAssumption DEF ChainInv, ReadsOneKey, Switch, Moves,
         ReaderMoves, writerVars, readerVars, Named, KeySlots, Passphrase, Held,
         ChainTypeOK, OwnGeneration, EntriesOfOwner, PointerWhole
<1> QED
  BY <1>1, <1>2, <1>3, <1>4, <1>5, <1>6, <1>7 DEF ChainInv

\* The keychain refuses an entry.
LEMMA RefusedKeeps ==
    ASSUME ChainInv, NEW w \in Writers, Refused(w)
    PROVE  ChainInv'
<1>1. ChainTypeOK'
  BY NothingStored, PartsAssumption DEF ChainInv, ChainTypeOK, Refused, Moves,
         ReaderMoves, writerVars, readerVars, Named, KeySlots, Passphrase, Held
<1>2. OwnGeneration'
  BY NothingStored, PartsAssumption DEF ChainInv, OwnGeneration, Refused, Moves,
         ReaderMoves, writerVars, readerVars, Named, KeySlots, Passphrase, Held,
         ChainTypeOK
<1>3. EntriesOfOwner'
  BY NothingStored, PartsAssumption DEF ChainInv, EntriesOfOwner, Refused, Moves,
         ReaderMoves, writerVars, readerVars, Named, KeySlots, Passphrase, Held,
         ChainTypeOK, OwnGeneration
<1>4. WrittenSoFar'
  BY NothingStored, PartsAssumption DEF ChainInv, WrittenSoFar, Refused, Moves,
         ReaderMoves, writerVars, readerVars, Named, KeySlots, Passphrase, Held,
         ChainTypeOK, OwnGeneration, PreviousInUse
<1>5. PointerWhole'
  <2>0. /\ writerPc[w] = "writing" /\ writerPc' = [writerPc EXCEPT ![w] = "cleaning"]
        /\ UNCHANGED <<store, pointer, generation>>
    BY DEF Refused, Moves
  <2> SUFFICES ASSUME pointer # NoGeneration PROVE PointerWhole'
    BY <2>0 DEF PointerWhole
  <2>1. PICK v \in Writers :
           /\ generation[v] = pointer /\ writerPc[v] \in {"removing", "done"}
           /\ \A i \in KeySlots : store[pointer][i] = v
    BY DEF ChainInv, PointerWhole
  <2>2. pointer \in Generations /\ pointer # generation[w]
    BY <2>0, <2>1 DEF ChainInv, ChainTypeOK, OwnGeneration, PreviousInUse, Named
  <2>3. writerPc'[v] \in {"removing", "done"}
    BY <2>0, <2>0, <2>1 DEF ChainInv, ChainTypeOK
  <2>4. \A i \in KeySlots : store'[pointer][i] = v
    BY <2>0, <2>1, <2>2
  <2> QED
    BY <2>0, <2>1, <2>3, <2>4 DEF PointerWhole
<1>6. PreviousInUse'
  BY NothingStored, PartsAssumption DEF ChainInv, PreviousInUse, Refused, Moves,
         ReaderMoves, writerVars, readerVars, Named, KeySlots, Passphrase, Held,
         ChainTypeOK, OwnGeneration, PointerWhole
<1>7. ReadsOneKey'
  BY NothingStored, PartsAssumption DEF ChainInv, ReadsOneKey, Refused, Moves,
         ReaderMoves, writerVars, readerVars, Named, KeySlots, Passphrase, Held,
         ChainTypeOK, OwnGeneration, EntriesOfOwner, PointerWhole
<1> QED
  BY <1>1, <1>2, <1>3, <1>4, <1>5, <1>6, <1>7 DEF ChainInv

\* What was written is removed.
LEMMA CleanUpKeeps ==
    ASSUME ChainInv, NEW w \in Writers, CleanUp(w)
    PROVE  ChainInv'
<1>1. /\ writerPc[w] = "cleaning" /\ generation[w] \in Generations
      /\ UNCHANGED <<pointer, used, previous, generation, readerVars>>
  BY DEF CleanUp, ChainInv, ChainTypeOK, OwnGeneration, Named
<1>2. /\ writerPc' \in {writerPc, [writerPc EXCEPT ![w] = "done"]}
      /\ \/ written' = written
         \/ written[w] # 0 /\ written' = [written EXCEPT ![w] = @ - 1]
  BY DEF CleanUp, Moves
<1>3. /\ store' \in [Generations -> [KeySlots -> Held]]
      /\ \A h \in Generations, i \in KeySlots :
            store'[h][i] = store[h][i] \/ (h = generation[w] /\ store'[h][i] = NoStoredKey)
  <2>1. CASE UNCHANGED store
    BY <2>1 DEF ChainInv, ChainTypeOK
  <2>2. CASE written[w] \in KeySlots /\ Erase(generation[w], written[w])
    BY <1>1, <2>2, EraseLeaves DEF ChainInv
  <2> QED
    BY <2>1, <2>2, PartsAssumption DEF CleanUp, ChainInv, ChainTypeOK, KeySlots,
           Passphrase
<1>4. ChainTypeOK'
  <2>1. written' \in [Writers -> 0 .. Passphrase]
    BY <1>2, PartsAssumption DEF ChainInv, ChainTypeOK, Passphrase
  <2>2. writerPc' \in [Writers -> {"ready", "writing", "cleaning", "removing", "done"}]
    BY <1>2 DEF ChainInv, ChainTypeOK
  <2> QED
    BY <1>1, <1>3, <2>1, <2>2 DEF ChainInv, ChainTypeOK, readerVars
<1>5. OwnGeneration'
  BY NothingStored, PartsAssumption, <1>1, <1>2, <1>3 DEF ChainInv, OwnGeneration,
         readerVars, KeySlots, Passphrase, ChainTypeOK
<1>6. EntriesOfOwner'
  <2> SUFFICES ASSUME NEW g \in Generations, NEW i \in KeySlots, NEW v \in Writers,
                      store'[g][i] = v
               PROVE  generation'[v] = g
    BY DEF EntriesOfOwner, KeySlots, Passphrase
  <2>1. store[g][i] = v
    BY <1>3, NothingStored
  <2> QED
    BY <1>1, <2>1 DEF ChainInv, EntriesOfOwner
<1>7. WrittenSoFar'
  <2> SUFFICES ASSUME NEW v \in Writers, writerPc'[v] = "writing", NEW i \in 1 .. written'[v]
               PROVE  store'[generation'[v]][i] = v
    BY DEF WrittenSoFar
  <2>1. v # w /\ writerPc[v] = "writing" /\ written'[v] = written[v]
    BY <1>1, <1>2 DEF ChainInv, ChainTypeOK
  <2>2. generation[v] \in Generations /\ generation[v] # generation[w]
    BY <1>1, <2>1, NothingStored DEF ChainInv, ChainTypeOK, OwnGeneration,
           PreviousInUse, Named
  <2>3. i \in KeySlots
    BY <2>1, PartsAssumption DEF ChainInv, ChainTypeOK, KeySlots, Passphrase
  <2>4. store[generation[v]][i] = v
    BY <2>1 DEF ChainInv, WrittenSoFar
  <2> QED
    BY <1>1, <1>3, <2>2, <2>3, <2>4
<1>8. PointerWhole'
  <2> SUFFICES ASSUME pointer # NoGeneration PROVE PointerWhole'
    BY <1>1 DEF PointerWhole
  <2>1. PICK v \in Writers :
           /\ generation[v] = pointer /\ writerPc[v] \in {"removing", "done"}
           /\ \A i \in KeySlots : store[pointer][i] = v
    BY DEF ChainInv, PointerWhole
  <2>2. pointer \in Generations /\ pointer # generation[w]
    BY <1>1, <2>1 DEF ChainInv, ChainTypeOK, OwnGeneration, PreviousInUse, Named
  <2>3. writerPc'[v] \in {"removing", "done"}
    BY <1>1, <1>2, <2>1 DEF ChainInv, ChainTypeOK
  <2>4. \A i \in KeySlots : store'[pointer][i] = v
    BY <1>3, <2>1, <2>2
  <2> QED
    BY <1>1, <2>1, <2>3, <2>4 DEF PointerWhole
<1>9. PreviousInUse'
  <2>1. \A v \in Writers : writerPc[v] \in {"removing", "done"} => writerPc'[v] \in {"removing", "done"}
    BY <1>1, <1>2 DEF ChainInv, ChainTypeOK
  <2>2. \A v \in Writers : writerPc'[v] = "removing" => writerPc[v] = "removing"
    BY <1>1, <1>2 DEF ChainInv, ChainTypeOK
  <2> QED
    BY <1>1, <2>1, <2>2 DEF ChainInv, PreviousInUse
<1>10. ReadsOneKey'
  BY NothingStored, PartsAssumption, <1>1, <1>2, <1>3 DEF ChainInv, ReadsOneKey,
         readerVars, KeySlots, Passphrase, ChainTypeOK, OwnGeneration, EntriesOfOwner,
         PointerWhole
<1> QED
  BY <1>4, <1>5, <1>6, <1>7, <1>8, <1>9, <1>10 DEF ChainInv

\* The previous key is removed.
LEMMA RemovePreviousKeeps ==
    ASSUME ChainInv, NEW w \in Writers, RemovePrevious(w)
    PROVE  ChainInv'
<1>1. /\ writerPc[w] = "removing" /\ previous[w] \in Generations
      /\ UNCHANGED <<pointer, used, previous, generation, readerVars>>
  BY DEF RemovePrevious, ChainInv, ChainTypeOK, PreviousInUse, Named
<1>2. /\ writerPc' \in {writerPc, [writerPc EXCEPT ![w] = "done"]}
      /\ \/ written' = written
         \/ written[w] # Passphrase /\ written' = [written EXCEPT ![w] = @ + 1]
  BY DEF RemovePrevious, Moves
<1>3. /\ store' \in [Generations -> [KeySlots -> Held]]
      /\ \A h \in Generations, i \in KeySlots :
            store'[h][i] = store[h][i] \/ (h = previous[w] /\ store'[h][i] = NoStoredKey)
  <2>1. CASE UNCHANGED store
    BY <2>1 DEF ChainInv, ChainTypeOK
  <2>2. CASE written[w] + 1 \in KeySlots /\ Erase(previous[w], written[w] + 1)
    BY <1>1, <2>2, EraseLeaves DEF ChainInv
  <2> QED
    BY <2>1, <2>2, PartsAssumption DEF RemovePrevious, ChainInv, ChainTypeOK, KeySlots,
           Passphrase
<1>4. ChainTypeOK'
  BY NothingStored, PartsAssumption, <1>1, <1>2, <1>3 DEF ChainInv, ChainTypeOK,
         readerVars, KeySlots, Passphrase
<1>5. OwnGeneration'
  BY NothingStored, PartsAssumption, <1>1, <1>2, <1>3 DEF ChainInv, OwnGeneration,
         readerVars, KeySlots, Passphrase, ChainTypeOK
<1>6. EntriesOfOwner'
  <2>1. \A g \in Generations, i \in KeySlots, u \in Writers : store'[g][i] = u => store[g][i] = u
    BY <1>3, NothingStored
  <2> QED
    BY <1>1, <2>1 DEF ChainInv, EntriesOfOwner
<1>7. WrittenSoFar'
  <2> SUFFICES ASSUME NEW v \in Writers, writerPc'[v] = "writing", NEW i \in 1 .. written'[v]
               PROVE  store'[generation'[v]][i] = v
    BY DEF WrittenSoFar
  <2>1. v # w /\ writerPc[v] = "writing" /\ written'[v] = written[v]
    BY <1>1, <1>2 DEF ChainInv, ChainTypeOK
  <2>2. generation[v] \in Generations /\ generation[v] # previous[w]
    BY <1>1, <2>1, NothingStored DEF ChainInv, ChainTypeOK, OwnGeneration,
           PreviousInUse, Named
  <2>3. i \in KeySlots
    BY <2>1, PartsAssumption DEF ChainInv, ChainTypeOK, KeySlots, Passphrase
  <2>4. store[generation[v]][i] = v
    BY <2>1 DEF ChainInv, WrittenSoFar
  <2> QED
    BY <1>1, <1>3, <2>2, <2>3, <2>4
<1>8. PointerWhole'
  <2> SUFFICES ASSUME pointer # NoGeneration PROVE PointerWhole'
    BY <1>1 DEF PointerWhole
  <2>1. PICK v \in Writers :
           /\ generation[v] = pointer /\ writerPc[v] \in {"removing", "done"}
           /\ \A i \in KeySlots : store[pointer][i] = v
    BY DEF ChainInv, PointerWhole
  <2>2. pointer \in Generations /\ pointer # previous[w]
    BY <1>1, <2>1 DEF ChainInv, ChainTypeOK, OwnGeneration, PreviousInUse, Named
  <2>3. writerPc'[v] \in {"removing", "done"}
    BY <1>1, <1>2, <2>1 DEF ChainInv, ChainTypeOK
  <2>4. \A i \in KeySlots : store'[pointer][i] = v
    BY <1>3, <2>1, <2>2
  <2> QED
    BY <1>1, <2>1, <2>3, <2>4 DEF PointerWhole
<1>9. PreviousInUse'
  <2>1. \A v \in Writers : writerPc[v] \in {"removing", "done"} => writerPc'[v] \in {"removing", "done"}
    BY <1>1, <1>2 DEF ChainInv, ChainTypeOK
  <2>2. \A v \in Writers : writerPc'[v] = "removing" => writerPc[v] = "removing"
    BY <1>1, <1>2 DEF ChainInv, ChainTypeOK
  <2> QED
    BY <1>1, <2>1, <2>2 DEF ChainInv, PreviousInUse
<1>10. ReadsOneKey'
  BY NothingStored, PartsAssumption, <1>1, <1>2, <1>3 DEF ChainInv, ReadsOneKey,
         readerVars, KeySlots, Passphrase, ChainTypeOK, OwnGeneration, EntriesOfOwner,
         PointerWhole
<1> QED
  BY <1>4, <1>5, <1>6, <1>7, <1>8, <1>9, <1>10 DEF ChainInv

\* The writer is killed.
LEMMA StoreKilledKeeps ==
    ASSUME ChainInv, NEW w \in Writers, StoreKilled(w)
    PROVE  ChainInv'
<1>1. ChainTypeOK'
  BY NothingStored, PartsAssumption DEF ChainInv, ChainTypeOK, StoreKilled, Moves,
         ReaderMoves, writerVars, readerVars, Named, KeySlots, Passphrase, Held
<1>2. OwnGeneration'
  BY NothingStored, PartsAssumption DEF ChainInv, OwnGeneration, StoreKilled, Moves,
         ReaderMoves, writerVars, readerVars, Named, KeySlots, Passphrase, Held,
         ChainTypeOK
<1>3. EntriesOfOwner'
  BY NothingStored, PartsAssumption DEF ChainInv, EntriesOfOwner, StoreKilled, Moves,
         ReaderMoves, writerVars, readerVars, Named, KeySlots, Passphrase, Held,
         ChainTypeOK, OwnGeneration
<1>4. WrittenSoFar'
  BY NothingStored, PartsAssumption DEF ChainInv, WrittenSoFar, StoreKilled, Moves,
         ReaderMoves, writerVars, readerVars, Named, KeySlots, Passphrase, Held,
         ChainTypeOK, OwnGeneration, PreviousInUse
<1>5. PointerWhole'
  BY NothingStored, PartsAssumption DEF ChainInv, PointerWhole, StoreKilled, Moves,
         ReaderMoves, writerVars, readerVars, Named, KeySlots, Passphrase, Held,
         ChainTypeOK, OwnGeneration, WrittenSoFar, PreviousInUse
<1>6. PreviousInUse'
  BY NothingStored, PartsAssumption DEF ChainInv, PreviousInUse, StoreKilled, Moves,
         ReaderMoves, writerVars, readerVars, Named, KeySlots, Passphrase, Held,
         ChainTypeOK, OwnGeneration, PointerWhole
<1>7. ReadsOneKey'
  BY NothingStored, PartsAssumption DEF ChainInv, ReadsOneKey, StoreKilled, Moves,
         ReaderMoves, writerVars, readerVars, Named, KeySlots, Passphrase, Held,
         ChainTypeOK, OwnGeneration, EntriesOfOwner, PointerWhole
<1> QED
  BY <1>1, <1>2, <1>3, <1>4, <1>5, <1>6, <1>7 DEF ChainInv

\* The pointer is read.
LEMMA ReadPointerKeeps ==
    ASSUME ChainInv, NEW r \in Readers, ReadPointer(r)
    PROVE  ChainInv'
<1>1. ChainTypeOK'
  BY NothingStored, PartsAssumption DEF ChainInv, ChainTypeOK, ReadPointer, Moves,
         ReaderMoves, writerVars, readerVars, Named, KeySlots, Passphrase, Held
<1>2. OwnGeneration'
  BY NothingStored, PartsAssumption DEF ChainInv, OwnGeneration, ReadPointer, Moves,
         ReaderMoves, writerVars, readerVars, Named, KeySlots, Passphrase, Held,
         ChainTypeOK
<1>3. EntriesOfOwner'
  BY NothingStored, PartsAssumption DEF ChainInv, EntriesOfOwner, ReadPointer, Moves,
         ReaderMoves, writerVars, readerVars, Named, KeySlots, Passphrase, Held,
         ChainTypeOK, OwnGeneration
<1>4. WrittenSoFar'
  BY NothingStored, PartsAssumption DEF ChainInv, WrittenSoFar, ReadPointer, Moves,
         ReaderMoves, writerVars, readerVars, Named, KeySlots, Passphrase, Held,
         ChainTypeOK, OwnGeneration, PreviousInUse
<1>5. PointerWhole'
  BY NothingStored, PartsAssumption DEF ChainInv, PointerWhole, ReadPointer, Moves,
         ReaderMoves, writerVars, readerVars, Named, KeySlots, Passphrase, Held,
         ChainTypeOK, OwnGeneration, WrittenSoFar, PreviousInUse
<1>6. PreviousInUse'
  BY NothingStored, PartsAssumption DEF ChainInv, PreviousInUse, ReadPointer, Moves,
         ReaderMoves, writerVars, readerVars, Named, KeySlots, Passphrase, Held,
         ChainTypeOK, OwnGeneration, PointerWhole
<1>7. ReadsOneKey'
  BY NothingStored, PartsAssumption DEF ChainInv, ReadsOneKey, ReadPointer, Moves,
         ReaderMoves, writerVars, readerVars, Named, KeySlots, Passphrase, Held,
         ChainTypeOK, OwnGeneration, EntriesOfOwner, PointerWhole
<1> QED
  BY <1>1, <1>2, <1>3, <1>4, <1>5, <1>6, <1>7 DEF ChainInv

\* An entry is read.
LEMMA ReadPartKeeps ==
    ASSUME ChainInv, NEW r \in Readers, ReadPart(r)
    PROVE  ChainInv'
<1>1. /\ readerPc[r] = "reading" /\ UNCHANGED <<found, writerVars>>
      /\ found[r] \in Generations /\ parts[r] + 1 \in KeySlots
  BY PartsAssumption DEF ReadPart, ChainInv, ChainTypeOK, ReadsOneKey, Named, KeySlots,
         Passphrase
<1>2. PICK to \in {"reading", "missing", "loaded"} :
         /\ readerPc' = [readerPc EXCEPT ![r] = to]
         /\ to = "reading" => parts[r] + 1 < Passphrase
  BY DEF ReadPart, ReaderMoves
<1>3. PICK key \in Held :
         /\ key = store[found[r]][parts[r] + 1]
         /\ parts' = [parts EXCEPT ![r] = parts[r] + 1]
         /\ loaded' = [loaded EXCEPT ![r] = @ \cup {key}]
  BY <1>1 DEF ReadPart, ChainInv, ChainTypeOK
<1>4. ChainTypeOK'
  BY NothingStored, PartsAssumption, <1>1, <1>2, <1>3 DEF ChainInv, ChainTypeOK,
         writerVars, KeySlots, Passphrase
<1>5. OwnGeneration'
  BY NothingStored, PartsAssumption, <1>1, <1>2, <1>3 DEF ChainInv, OwnGeneration,
         writerVars, KeySlots, Passphrase, ChainTypeOK
<1>6. EntriesOfOwner'
  BY <1>1 DEF ChainInv, EntriesOfOwner, writerVars
<1>7. WrittenSoFar'
  BY NothingStored, PartsAssumption, <1>1, <1>2, <1>3 DEF ChainInv, WrittenSoFar,
         writerVars, KeySlots, Passphrase, ChainTypeOK, OwnGeneration, PreviousInUse
<1>8. PointerWhole'
  BY NothingStored, PartsAssumption, <1>1, <1>2, <1>3 DEF ChainInv, PointerWhole,
         writerVars, KeySlots, Passphrase, ChainTypeOK, OwnGeneration, WrittenSoFar,
         PreviousInUse
<1>9. PreviousInUse'
  BY NothingStored, PartsAssumption, <1>1, <1>2, <1>3 DEF ChainInv, PreviousInUse,
         writerVars, KeySlots, Passphrase, ChainTypeOK, OwnGeneration, PointerWhole
<1>10. ReadsOneKey'
  BY NothingStored, PartsAssumption, <1>1, <1>2, <1>3 DEF ChainInv, ReadsOneKey,
         writerVars, KeySlots, Passphrase, ChainTypeOK, OwnGeneration, EntriesOfOwner,
         PointerWhole
<1> QED
  BY <1>4, <1>5, <1>6, <1>7, <1>8, <1>9, <1>10 DEF ChainInv

\* The seven hold at every step of writers and readers, whoever fails or is killed.
THEOREM ChainInvariant == ChainSpec => []ChainInv
<1>1. ChainInit => ChainInv
  BY ChainStart
<1>2. ChainInv /\ [ChainNext]_chainVars => ChainInv'
  <2>1. ASSUME ChainInv, UNCHANGED chainVars PROVE ChainInv'
    BY <2>1 DEF chainVars, ChainInv, ChainTypeOK, OwnGeneration, EntriesOfOwner, WrittenSoFar,
       PointerWhole, PreviousInUse, ReadsOneKey
  <2> QED
    BY <2>1, DrawKeeps, PutKeeps, SwitchKeeps, RefusedKeeps, CleanUpKeeps, RemovePreviousKeeps,
       StoreKilledKeeps, ReadPointerKeeps, ReadPartKeeps
    DEF ChainNext
<1> QED
  BY <1>1, <1>2, PTL DEF ChainSpec

\* The generation in use is one whole key wherever a writer fails or is killed, and an
\* opening loads the parts of one key, whatever is written meanwhile.
THEOREM KeyAlwaysWhole == ChainSpec => []KeyInUseIsWhole
<1>1. ChainInv => KeyInUseIsWhole
  <2> SUFFICES ASSUME ChainInv PROVE KeyInUseIsWhole
    OBVIOUS
  <2>1. pointer # NoGeneration => \E w \in Writers : \A i \in KeySlots : store[pointer][i] = w
    BY DEF ChainInv, PointerWhole
  <2>2. ASSUME NEW r \in Readers, readerPc[r] = "loaded"
        PROVE  \E w \in Writers : loaded[r] \subseteq {w, NoStoredKey}
    <3>1. PICK w \in Writers : generation[w] = found[r]
      BY <2>2 DEF ChainInv, ReadsOneKey
    <3>2. ASSUME NEW k \in loaded[r] PROVE k \in {w, NoStoredKey}
      BY <2>2, <3>1, <3>2 DEF ChainInv, ChainTypeOK, Held, ReadsOneKey, OwnGeneration
    <3> QED
      BY <3>2
  <2> QED
    BY <2>1, <2>2 DEF KeyInUseIsWhole
<1> QED
  BY <1>1, ChainInvariant, PTL

----------------------------------------------------------------------------
(* JwksKeys: the signing keys in use are the provider's.                   *)

\* The times are natural numbers.
LEMMA HorizonIsNatural == Horizon \in Nat
  BY JwksTimeAssumption DEF Horizon

\* Where a look at keys, or the end of a call, takes a thread.
Outcomes == {"accepted", "refused", "unknown"}
Goes(t, p, tok) ==
    /\ jwkPc' = [jwkPc EXCEPT ![t] = p]
    /\ token' = [token EXCEPT ![t] = tok]
    /\ mode' = [mode EXCEPT ![t] = IF p = "unknown" THEN "forced" ELSE "scheduled"]
    /\ reply' = [reply EXCEPT ![t] = {}]

\* A call that ends goes there.
LEMMA EndGoes ==
    ASSUME NEW t \in Verifiers, NEW p \in {"accepted", "refused"}, CallEnds(t, p)
    PROVE  Goes(t, p, NoToken)
  BY DEF CallEnds, To, Goes

\* So does a look at keys, which ends in "unknown" only for want of the token's key.
LEMMA LookGoes ==
    ASSUME JwksTypeOK, NEW t \in Verifiers, NEW keys, LooksIn(t, keys)
    PROVE  \E p \in Outcomes, tok \in Token \cup {NoToken} :
              /\ Goes(t, p, tok)
              /\ p = "accepted" => token[t].kid \in keys
              /\ p = "refused" => \/ token[t].kid \in keys /\ ~token[t].holds
                                  \/ token[t].kid \notin keys /\ mode[t] = "forced"
<1>1. CASE token[t].kid \in keys
  <2>1. PICK p \in {"accepted", "refused"} :
           /\ CallEnds(t, p)
           /\ p = "refused" => ~token[t].holds
    BY <1>1 DEF LooksIn
  <2> QED
    BY <1>1, <2>1, EndGoes DEF Outcomes
<1>2. CASE token[t].kid \notin keys /\ mode[t] = "forced"
  <2>1. CallEnds(t, "refused")
    BY <1>2 DEF LooksIn
  <2> QED
    BY <1>2, <2>1, EndGoes DEF Outcomes
<1>3. CASE token[t].kid \notin keys /\ mode[t] # "forced"
  <2>1. /\ jwkPc' = [jwkPc EXCEPT ![t] = "unknown"] /\ mode' = [mode EXCEPT ![t] = "forced"]
        /\ reply' = [reply EXCEPT ![t] = {}] /\ UNCHANGED token
    BY <1>3 DEF LooksIn, To
  <2>2. token' = [token EXCEPT ![t] = token[t]] /\ token[t] \in Token \cup {NoToken}
    BY <2>1 DEF JwksTypeOK
  <2>3. Goes(t, "unknown", token[t])
    BY <2>1, <2>2 DEF Goes
  <2> QED
    BY <2>2, <2>3 DEF Outcomes
<1> QED
  BY <1>1, <1>2, <1>3

\* The lock is held from its acquisition to the end of the fetch, and how long is
\* counted from then.
LockHeld ==
    /\ \A t \in Verifiers : jwkPc[t] \in {"locked", "fetching", "replied"} <=> lock = t
    /\ lock = NoVerifier => fetchAge = 0
    /\ \A t \in Verifiers : jwkPc[t] = "locked" => fetchAge = 0

\* Only an unknown key forces a refresh, and a reply has keys.
ModeFits ==
    \A t \in Verifiers :
        /\ jwkPc[t] \in {"accepted", "refused", "get"} => mode[t] = "scheduled"
        /\ jwkPc[t] = "unknown" => mode[t] = "forced"
        /\ jwkPc[t] = "replied" => reply[t] # {}

\* A refresh is under way.
InFlight(t) == jwkPc[t] \in {"fetching", "replied"}

\* The last three fetches are the last forced one, the last of the others (n ago) and
\* one long ago.  While the other was less than an interval ago it is in flight, its
\* keys are fresh, or its failure is being waited out.
FetchesSpaced ==
    LET forced == Interval - forcedIn IN
    \E n \in 0..Interval :
        /\ asked[1] = IF n < forced THEN n ELSE forced
        /\ asked[2] = IF n < forced THEN forced ELSE n
        /\ asked[3] = Interval
        /\ n < Interval =>
              \/ \E t \in Verifiers : InFlight(t) /\ mode[t] # "forced"
              \/ retryIn >= Interval - n
              \/ cached # {} /\ cacheAge <= n

\* A reply holds what was published since the lock was taken: what has changed since
\* then changed no longer ago.
ReplyAge ==
    \A t \in Verifiers : jwkPc[t] = "replied" =>
        \A k \in Kids : (k \in reply[t]) # (k \in published) => since[k] <= fetchAge

\* A key still cached was withdrawn after the fetch that brought it began.
CachedAge == \A k \in cached \ published : since[k] <= cacheAge + FetchTime

\* Keys that a thread will look in without a fetch are usable, or were before the
\* fetch that failed.
LookedInAge ==
    \A t \in Verifiers :
        /\ jwkPc[t] \in {"acquire", "locked"} /\ mode[t] = "scheduled" => cacheAge <= MaxStale
        /\ InFlight(t) /\ mode[t] = "scheduled" => cacheAge <= MaxStale + fetchAge
        /\ \/ jwkPc[t] = "unknown"
           \/ jwkPc[t] \in {"acquire", "locked"} /\ mode[t] = "forced"
           => cacheAge <= MaxStale + FetchTime

\* The pause is one after a failure; and since the last forced refresh a fetch has
\* failed, or it is in flight, or its keys are cached.
RotationKnown ==
    /\ failedIn >= retryIn
    /\ forcedIn > 0 =>
          /\ fetchAge <= Interval - forcedIn
          /\ \/ failedIn >= forcedIn
             \/ \E t \in Verifiers : InFlight(t) /\ mode[t] = "forced"
             \/ \A k \in published \ cached : since[k] <= Interval - forcedIn

\* The inductive invariant.
JwksInv ==
    /\ JwksTypeOK /\ LockHeld /\ ModeFits /\ FetchesSpaced
    /\ ReplyAge /\ CachedAge /\ LookedInAge /\ RotationKnown

\* Nothing has been fetched when the server starts.
LEMMA JwksStart == JwksInit => JwksInv
<1> USE JwksNullAssumption, JwksTimeAssumption, HorizonIsNatural
<1>1. JwksInit => JwksTypeOK
  BY DEF JwksInit, JwksTypeOK, Fetches
<1>2. JwksInit => LockHeld /\ ModeFits
  BY DEF JwksInit, LockHeld, ModeFits
<1>3. JwksInit => FetchesSpaced
  BY DEF JwksInit, FetchesSpaced, Fetches
<1>4. JwksInit => ReplyAge /\ CachedAge /\ LookedInAge /\ RotationKnown
  BY DEF JwksInit, ReplyAge, CachedAge, LookedInAge, RotationKnown, InFlight
<1> QED
  BY <1>1, <1>2, <1>3, <1>4 DEF JwksInv

\* The provider changes its keys.
LEMMA RotateKeeps ==
    ASSUME JwksInv, NEW S \in SUBSET Kids, Rotate(S)
    PROVE  JwksInv'
<1>1. JwksTypeOK'
  BY JwksTimeAssumption, HorizonIsNatural DEF JwksInv, JwksTypeOK, Rotate, clocks,
         locals, keyHistory
<1>2. LockHeld'
  BY DEF JwksInv, LockHeld, Rotate, locals
<1>3. ModeFits'
  BY DEF JwksInv, ModeFits, Rotate, locals
<1>4. FetchesSpaced'
  BY DEF JwksInv, FetchesSpaced, Rotate, clocks, locals, keyHistory, InFlight
<1>5. ReplyAge'
  BY DEF JwksInv, ReplyAge, Rotate, locals, JwksTypeOK
<1>6. CachedAge'
  BY JwksTimeAssumption DEF JwksInv, CachedAge, Rotate, clocks, JwksTypeOK
<1>7. LookedInAge'
  BY DEF JwksInv, LookedInAge, Rotate, clocks, locals, InFlight
<1>8. RotationKnown'
  BY JwksTimeAssumption DEF JwksInv, RotationKnown, Rotate, clocks, locals, keyHistory,
         JwksTypeOK, InFlight
<1> QED
  BY <1>1, <1>2, <1>3, <1>4, <1>5, <1>6, <1>7, <1>8 DEF JwksInv

\* Time passes.
LEMMA JwksTickKeeps ==
    ASSUME JwksInv, JwksTick
    PROVE  JwksInv'
<1>1. JwksTypeOK'
  BY JwksTimeAssumption, HorizonIsNatural DEF JwksInv, JwksTypeOK, JwksTick, locals,
         Older, Left
<1>2. LockHeld'
  BY DEF JwksInv, LockHeld, JwksTick, locals, Waits
<1>3. ModeFits'
  BY DEF JwksInv, ModeFits, JwksTick, locals
<1>4. FetchesSpaced'
  <2>1. PICK n \in 0..Interval :
           LET forced == Interval - forcedIn IN
           /\ asked[1] = IF n < forced THEN n ELSE forced
           /\ asked[2] = IF n < forced THEN forced ELSE n
           /\ asked[3] = Interval
           /\ n < Interval =>
                 \/ \E u \in Verifiers : InFlight(u) /\ mode[u] # "forced"
                 \/ retryIn >= Interval - n
                 \/ cached # {} /\ cacheAge <= n
    BY DEF JwksInv, FetchesSpaced
  <2>2. PICK m \in 0..Interval : m = IF n < Interval THEN n + 1 ELSE Interval
    BY JwksTimeAssumption
  <2>3. /\ forcedIn \in 0..Interval /\ retryIn \in Nat /\ cacheAge \in 0..Horizon /\ Horizon \in Nat
        /\ forcedIn' = Left(forcedIn) /\ retryIn' = Left(retryIn) /\ cacheAge' = Older(cacheAge)
        /\ UNCHANGED <<cached, jwkPc, mode>>
    BY HorizonIsNatural DEF JwksTick, locals, JwksInv, JwksTypeOK
  <2>4. \A i \in Fetches : asked'[i] = IF asked[i] < Interval THEN asked[i] + 1 ELSE Interval
    BY DEF JwksTick
  <2>5. /\ asked'[1] = IF asked[1] < Interval THEN asked[1] + 1 ELSE Interval
        /\ asked'[2] = IF asked[2] < Interval THEN asked[2] + 1 ELSE Interval
        /\ asked'[3] = IF asked[3] < Interval THEN asked[3] + 1 ELSE Interval
    BY <2>4 DEF Fetches
  <2>6. LET forced == Interval - forcedIn' IN
        /\ asked'[1] = IF m < forced THEN m ELSE forced
        /\ asked'[2] = IF m < forced THEN forced ELSE m
        /\ asked'[3] = Interval
    BY <2>1, <2>2, <2>3, <2>5, JwksTimeAssumption DEF Left
  <2>7. ASSUME m < Interval
        PROVE  \/ \E u \in Verifiers : InFlight(u)' /\ mode'[u] # "forced"
               \/ retryIn' >= Interval - m
               \/ cached' # {} /\ cacheAge' <= m
    <3>1. n < Interval /\ m = n + 1
      BY <2>2, <2>7, JwksTimeAssumption
    <3>2. CASE \E u \in Verifiers : InFlight(u) /\ mode[u] # "forced"
      BY <3>2, <2>3 DEF InFlight
    <3>3. CASE retryIn >= Interval - n
      BY <3>3, <3>1, <2>3, JwksTimeAssumption DEF Left
    <3>4. CASE cached # {} /\ cacheAge <= n
      BY <3>4, <3>1, <2>3 DEF Older
    <3> QED
      BY <2>1, <3>1, <3>2, <3>3, <3>4
  <2> QED
    BY <2>6, <2>7 DEF FetchesSpaced
<1>5. ReplyAge'
  BY JwksNullAssumption DEF JwksInv, ReplyAge, JwksTick, locals, Older, JwksTypeOK,
         LockHeld
<1>6. CachedAge'
  BY JwksTimeAssumption, HorizonIsNatural DEF JwksInv, CachedAge, JwksTick, Older,
         JwksTypeOK
<1>7. LookedInAge'
  BY JwksNullAssumption, JwksTimeAssumption DEF JwksInv, LookedInAge, JwksTick, locals,
         Waits, Older, JwksTypeOK, LockHeld, InFlight
<1>8. RotationKnown'
  BY JwksTimeAssumption DEF JwksInv, RotationKnown, JwksTick, locals, Older, Left,
         JwksTypeOK, InFlight
<1> QED
  BY <1>1, <1>2, <1>3, <1>4, <1>5, <1>6, <1>7, <1>8 DEF JwksInv

\* A token is received.
LEMMA ReceiveKeeps ==
    ASSUME JwksInv, NEW t \in Verifiers, NEW tok \in Token, Receive(t, tok)
    PROVE  JwksInv'
<1>1. JwksTypeOK'
  BY DEF JwksInv, JwksTypeOK, Receive, provider, clocks, keyHistory, To
<1>2. LockHeld'
  BY DEF JwksInv, LockHeld, Receive, To
<1>3. ModeFits'
  BY DEF JwksInv, ModeFits, Receive, To
<1>4. FetchesSpaced'
  BY DEF JwksInv, FetchesSpaced, Receive, clocks, keyHistory, To, InFlight
<1>5. ReplyAge'
  BY DEF JwksInv, ReplyAge, Receive, provider, To
<1>6. CachedAge'
  BY DEF JwksInv, CachedAge, Receive, provider, clocks
<1>7. LookedInAge'
  BY DEF JwksInv, LookedInAge, Receive, clocks, To, InFlight
<1>8. RotationKnown'
  BY DEF JwksInv, RotationKnown, Receive, provider, clocks, keyHistory, To, InFlight
<1> QED
  BY <1>1, <1>2, <1>3, <1>4, <1>5, <1>6, <1>7, <1>8 DEF JwksInv

\* Keys are found without a fetch.
LEMMA GetWithoutFetchKeeps ==
    ASSUME JwksInv, NEW t \in Verifiers, GetWithoutFetch(t)
    PROVE  JwksInv'
<1>1. /\ jwkPc[t] = "get"
      /\ UNCHANGED <<provider, cached, clocks, lock, fetchAge, keyHistory>>
  BY DEF GetWithoutFetch
<1>2. PICK p \in Outcomes, tok \in Token \cup {NoToken} :
         Goes(t, p, tok) /\ (p = "unknown" => Usable)
  BY EndGoes, LookGoes DEF GetWithoutFetch, JwksInv, Outcomes
<1>3. JwksTypeOK'
  BY <1>1, <1>2 DEF JwksInv, JwksTypeOK, Goes, Outcomes, provider, clocks, keyHistory
<1>4. LockHeld'
  BY <1>1, <1>2 DEF JwksInv, LockHeld, Goes, Outcomes
<1>5. ModeFits'
  BY <1>2 DEF JwksInv, ModeFits, Goes, Outcomes, JwksTypeOK
<1>6. FetchesSpaced'
  BY <1>1, <1>2 DEF JwksInv, FetchesSpaced, Goes, InFlight, clocks, keyHistory
<1>7. ReplyAge'
  BY <1>1, <1>2 DEF JwksInv, ReplyAge, Goes, Outcomes, provider
<1>8. CachedAge'
  BY <1>1 DEF JwksInv, CachedAge, provider, clocks
<1>9. LookedInAge'
  BY JwksTimeAssumption, <1>1, <1>2 DEF JwksInv, LookedInAge, Goes, Outcomes, InFlight,
         clocks, Usable, JwksTypeOK
<1>10. RotationKnown'
  BY <1>1, <1>2 DEF JwksInv, RotationKnown, Goes, InFlight, provider, clocks, keyHistory
<1> QED
  BY <1>3, <1>4, <1>5, <1>6, <1>7, <1>8, <1>9, <1>10 DEF JwksInv

\* A fetch is called for.
LEMMA GetByFetchKeeps ==
    ASSUME JwksInv, NEW t \in Verifiers, GetByFetch(t)
    PROVE  JwksInv'
<1>1. JwksTypeOK'
  BY DEF JwksInv, JwksTypeOK, GetByFetch, provider, clocks, keyHistory, To
<1>2. LockHeld'
  BY DEF JwksInv, LockHeld, GetByFetch, To
<1>3. ModeFits'
  BY DEF JwksInv, ModeFits, GetByFetch, To, JwksTypeOK
<1>4. FetchesSpaced'
  BY DEF JwksInv, FetchesSpaced, GetByFetch, clocks, keyHistory, To, InFlight
<1>5. ReplyAge'
  BY DEF JwksInv, ReplyAge, GetByFetch, provider, To
<1>6. CachedAge'
  BY DEF JwksInv, CachedAge, GetByFetch, provider, clocks
<1>7. LookedInAge'
  BY DEF JwksInv, LookedInAge, GetByFetch, clocks, To, Usable, JwksTypeOK, InFlight
<1>8. RotationKnown'
  BY DEF JwksInv, RotationKnown, GetByFetch, provider, clocks, keyHistory, To, InFlight
<1> QED
  BY <1>1, <1>2, <1>3, <1>4, <1>5, <1>6, <1>7, <1>8 DEF JwksInv

\* A forced refresh was lately.
LEMMA ForcedLatelyKeeps ==
    ASSUME JwksInv, NEW t \in Verifiers, ForcedLately(t)
    PROVE  JwksInv'
<1>1. /\ jwkPc[t] = "unknown"
      /\ UNCHANGED <<provider, cached, clocks, lock, fetchAge, keyHistory>>
  BY DEF ForcedLately
<1>2. PICK p \in Outcomes, tok \in Token \cup {NoToken} :
         Goes(t, p, tok)
  BY LookGoes DEF ForcedLately, JwksInv
<1>3. JwksTypeOK'
  BY <1>1, <1>2 DEF JwksInv, JwksTypeOK, Goes, Outcomes, provider, clocks, keyHistory
<1>4. LockHeld'
  BY <1>1, <1>2 DEF JwksInv, LockHeld, Goes, Outcomes
<1>5. ModeFits'
  BY <1>2 DEF JwksInv, ModeFits, Goes, Outcomes, JwksTypeOK
<1>6. FetchesSpaced'
  BY <1>1, <1>2 DEF JwksInv, FetchesSpaced, Goes, InFlight, clocks, keyHistory
<1>7. ReplyAge'
  BY <1>1, <1>2 DEF JwksInv, ReplyAge, Goes, Outcomes, provider
<1>8. CachedAge'
  BY <1>1 DEF JwksInv, CachedAge, provider, clocks
<1>9. LookedInAge'
  BY <1>1, <1>2 DEF JwksInv, LookedInAge, Goes, Outcomes, InFlight, clocks
<1>10. RotationKnown'
  BY <1>1, <1>2 DEF JwksInv, RotationKnown, Goes, InFlight, provider, clocks, keyHistory
<1> QED
  BY <1>3, <1>4, <1>5, <1>6, <1>7, <1>8, <1>9, <1>10 DEF JwksInv

\* A refresh is forced.
LEMMA MayForceKeeps ==
    ASSUME JwksInv, NEW t \in Verifiers, MayForce(t)
    PROVE  JwksInv'
<1>1. JwksTypeOK'
  BY DEF JwksInv, JwksTypeOK, MayForce, provider, clocks, keyHistory, To
<1>2. LockHeld'
  BY DEF JwksInv, LockHeld, MayForce, To
<1>3. ModeFits'
  BY DEF JwksInv, ModeFits, MayForce, To
<1>4. FetchesSpaced'
  BY DEF JwksInv, FetchesSpaced, MayForce, clocks, keyHistory, To, InFlight
<1>5. ReplyAge'
  BY DEF JwksInv, ReplyAge, MayForce, provider, To
<1>6. CachedAge'
  BY DEF JwksInv, CachedAge, MayForce, provider, clocks
<1>7. LookedInAge'
  BY DEF JwksInv, LookedInAge, MayForce, clocks, To, ModeFits, InFlight
<1>8. RotationKnown'
  BY DEF JwksInv, RotationKnown, MayForce, clocks, keyHistory
<1> QED
  BY <1>1, <1>2, <1>3, <1>4, <1>5, <1>6, <1>7, <1>8 DEF JwksInv

\* The lock is taken.
LEMMA AcquireKeeps ==
    ASSUME JwksInv, NEW t \in Verifiers, Acquire(t)
    PROVE  JwksInv'
<1>1. JwksTypeOK'
  BY DEF JwksInv, JwksTypeOK, Acquire, provider, clocks, keyHistory, To
<1>2. LockHeld'
  BY JwksNullAssumption DEF JwksInv, LockHeld, Acquire, To, JwksTypeOK
<1>3. ModeFits'
  BY DEF JwksInv, ModeFits, Acquire, To
<1>4. FetchesSpaced'
  BY DEF JwksInv, FetchesSpaced, Acquire, clocks, keyHistory, To, InFlight
<1>5. ReplyAge'
  BY DEF JwksInv, ReplyAge, Acquire, provider, To
<1>6. CachedAge'
  BY DEF JwksInv, CachedAge, Acquire, provider, clocks
<1>7. LookedInAge'
  BY DEF JwksInv, LookedInAge, Acquire, clocks, To, InFlight
<1>8. RotationKnown'
  BY DEF JwksInv, RotationKnown, Acquire, provider, clocks, keyHistory, To, InFlight
<1> QED
  BY <1>1, <1>2, <1>3, <1>4, <1>5, <1>6, <1>7, <1>8 DEF JwksInv

\* The lock is another's.
LEMMA AcquireFailsKeeps ==
    ASSUME JwksInv, NEW t \in Verifiers, AcquireFails(t)
    PROVE  JwksInv'
<1>1. /\ jwkPc[t] = "acquire" /\ lock # NoVerifier
      /\ UNCHANGED <<provider, cached, clocks, lock, fetchAge, keyHistory>>
  BY DEF AcquireFails
<1>2. PICK p \in Outcomes, tok \in Token \cup {NoToken} :
         Goes(t, p, tok) /\ (p = "unknown" => mode[t] # "needed")
  BY EndGoes, LookGoes DEF AcquireFails, JwksInv, Outcomes
<1>3. JwksTypeOK'
  BY <1>1, <1>2 DEF JwksInv, JwksTypeOK, Goes, Outcomes, provider, clocks, keyHistory
<1>4. LockHeld'
  BY <1>1, <1>2 DEF JwksInv, LockHeld, Goes, Outcomes
<1>5. ModeFits'
  BY <1>2 DEF JwksInv, ModeFits, Goes, Outcomes, JwksTypeOK
<1>6. FetchesSpaced'
  BY <1>1, <1>2 DEF JwksInv, FetchesSpaced, Goes, InFlight, clocks, keyHistory
<1>7. ReplyAge'
  BY <1>1, <1>2 DEF JwksInv, ReplyAge, Goes, Outcomes, provider
<1>8. CachedAge'
  BY <1>1 DEF JwksInv, CachedAge, provider, clocks
<1>9. LookedInAge'
  BY JwksTimeAssumption, <1>1, <1>2 DEF JwksInv, LookedInAge, Goes, Outcomes, InFlight,
         clocks, JwksTypeOK
<1>10. RotationKnown'
  BY <1>1, <1>2 DEF JwksInv, RotationKnown, Goes, InFlight, provider, clocks, keyHistory
<1> QED
  BY <1>3, <1>4, <1>5, <1>6, <1>7, <1>8, <1>9, <1>10 DEF JwksInv

\* Under the lock a fetch is not called for any more.
LEMMA RecheckKeeps ==
    ASSUME JwksInv, NEW t \in Verifiers, Recheck(t)
    PROVE  JwksInv'
<1>1. /\ jwkPc[t] = "locked" /\ lock' = NoVerifier /\ fetchAge' = 0
      /\ UNCHANGED <<provider, cached, clocks, keyHistory>>
  BY DEF Recheck, Release
<1>2. PICK p \in Outcomes, tok \in Token \cup {NoToken} :
         Goes(t, p, tok) /\ (p = "unknown" => mode[t] # "needed" \/ FreshKeys)
  BY EndGoes, LookGoes DEF Recheck, JwksInv, Outcomes
<1>3. JwksTypeOK'
  BY JwksTimeAssumption, <1>1, <1>2 DEF JwksInv, JwksTypeOK, Goes, Outcomes, provider,
         clocks, keyHistory
<1>4. LockHeld'
  BY JwksNullAssumption, <1>1, <1>2 DEF JwksInv, LockHeld, Goes, Outcomes, JwksTypeOK
<1>5. ModeFits'
  BY <1>2 DEF JwksInv, ModeFits, Goes, Outcomes, JwksTypeOK
<1>6. FetchesSpaced'
  BY <1>1, <1>2 DEF JwksInv, FetchesSpaced, Goes, InFlight, clocks, keyHistory
<1>7. ReplyAge'
  BY <1>1, <1>2 DEF JwksInv, ReplyAge, Goes, Outcomes, LockHeld
<1>8. CachedAge'
  BY <1>1 DEF JwksInv, CachedAge, provider, clocks
<1>9. LookedInAge'
  BY JwksTimeAssumption, <1>1, <1>2 DEF JwksInv, LookedInAge, Goes, Outcomes, InFlight,
         clocks, FreshKeys, JwksTypeOK, LockHeld
<1>10. RotationKnown'
  BY JwksTimeAssumption, <1>1, <1>2 DEF JwksInv, RotationKnown, Goes, InFlight,
         provider, clocks, keyHistory, JwksTypeOK
<1> QED
  BY <1>3, <1>4, <1>5, <1>6, <1>7, <1>8, <1>9, <1>10 DEF JwksInv

\* A fetch begins.
LEMMA StartFetchKeeps ==
    ASSUME JwksInv, NEW t \in Verifiers, StartFetch(t)
    PROVE  JwksInv'
<1>1. JwksTypeOK'
  <2>1. asked' \in [Fetches -> 0..Interval]
    BY JwksTimeAssumption DEF JwksInv, JwksTypeOK, StartFetch, Fetches
  <2>2. forcedIn' \in 0..Interval
    BY JwksTimeAssumption DEF JwksInv, JwksTypeOK, StartFetch
  <2> QED
    BY <2>1, <2>2 DEF JwksInv, JwksTypeOK, StartFetch, To, provider
<1>2. LockHeld'
  BY DEF JwksInv, LockHeld, StartFetch, To
<1>3. ModeFits'
  BY DEF JwksInv, ModeFits, StartFetch, To
<1>4. FetchesSpaced'
  <2>1. PICK n \in 0..Interval :
           LET forced == Interval - forcedIn IN
           /\ asked[1] = IF n < forced THEN n ELSE forced
           /\ asked[2] = IF n < forced THEN forced ELSE n
           /\ asked[3] = Interval
           /\ n < Interval =>
                 \/ \E u \in Verifiers : InFlight(u) /\ mode[u] # "forced"
                 \/ retryIn >= Interval - n
                 \/ cached # {} /\ cacheAge <= n
    BY DEF JwksInv, FetchesSpaced
  <2>2. asked'[1] = 0 /\ asked'[2] = asked[1] /\ asked'[3] = asked[2]
    BY DEF StartFetch, Fetches
  <2>3. /\ forcedIn \in 0..Interval /\ retryIn \in Nat /\ cacheAge \in 0..Horizon /\ Horizon \in Nat
        /\ jwkPc[t] = "locked" /\ jwkPc' = [jwkPc EXCEPT ![t] = "fetching"]
        /\ UNCHANGED <<mode, retryIn, cached, cacheAge>>
    BY HorizonIsNatural DEF StartFetch, To, JwksInv, JwksTypeOK
  <2>4. \A u \in Verifiers : ~InFlight(u)
    BY <2>3 DEF InFlight, JwksInv, LockHeld
  <2>5. InFlight(t)'
    BY <2>3 DEF InFlight, JwksInv, JwksTypeOK
  <2>6. CASE mode[t] = "forced"
    <3>1. forcedIn = 0 /\ forcedIn' = Interval
      BY <2>3, <2>6 DEF StartFetch, Settled
    <3>2. /\ asked'[1] = 0 /\ asked'[2] = n /\ asked'[3] = Interval
      BY <2>1, <2>2, <3>1, JwksTimeAssumption
    <3> QED
      BY <2>1, <2>3, <2>4, <3>1, <3>2, JwksTimeAssumption DEF FetchesSpaced
  <2>7. CASE mode[t] # "forced"
    <3>1. n = Interval
      BY <2>1, <2>3, <2>4, <2>7, JwksTimeAssumption DEF StartFetch, Settled, FreshKeys
    <3>2. forcedIn' = forcedIn /\ asked'[2] = Interval - forcedIn /\ asked'[3] = Interval
      BY <2>1, <2>2, <2>3, <2>7, <3>1 DEF StartFetch
    <3> QED
      BY <2>2, <2>3, <2>5, <2>7, <3>2, JwksTimeAssumption DEF FetchesSpaced
  <2> QED
    BY <2>6, <2>7
<1>5. ReplyAge'
  BY DEF JwksInv, ReplyAge, StartFetch, provider, To
<1>6. CachedAge'
  BY DEF JwksInv, CachedAge, StartFetch, provider
<1>7. LookedInAge'
  BY JwksTimeAssumption DEF JwksInv, LookedInAge, StartFetch, To, JwksTypeOK, InFlight
<1>8. RotationKnown'
  BY JwksTimeAssumption DEF JwksInv, RotationKnown, StartFetch, provider, To,
         JwksTypeOK, LockHeld, InFlight
<1> QED
  BY <1>1, <1>2, <1>3, <1>4, <1>5, <1>6, <1>7, <1>8 DEF JwksInv

\* The provider answers.
LEMMA ReplyKeeps ==
    ASSUME JwksInv, NEW t \in Verifiers, Reply(t)
    PROVE  JwksInv'
<1>1. JwksTypeOK'
  BY DEF JwksInv, JwksTypeOK, Reply, provider, clocks, keyHistory, To
<1>2. LockHeld'
  BY DEF JwksInv, LockHeld, Reply, To
<1>3. ModeFits'
  BY DEF JwksInv, ModeFits, Reply, To, JwksTypeOK
<1>4. FetchesSpaced'
  BY DEF JwksInv, FetchesSpaced, Reply, clocks, keyHistory, To, InFlight
<1>5. ReplyAge'
  BY DEF JwksInv, ReplyAge, Reply, provider, To, JwksTypeOK
<1>6. CachedAge'
  BY DEF JwksInv, CachedAge, Reply, provider, clocks
<1>7. LookedInAge'
  BY DEF JwksInv, LookedInAge, Reply, clocks, To, InFlight
<1>8. RotationKnown'
  BY DEF JwksInv, RotationKnown, Reply, provider, clocks, keyHistory, To, InFlight
<1> QED
  BY <1>1, <1>2, <1>3, <1>4, <1>5, <1>6, <1>7, <1>8 DEF JwksInv

\* The keys are stored.
LEMMA StoreKeeps ==
    ASSUME JwksInv, NEW t \in Verifiers, Store(t)
    PROVE  JwksInv'
<1>1. /\ jwkPc[t] = "replied" /\ lock' = NoVerifier /\ fetchAge' = 0
      /\ cached' = reply[t] /\ cacheAge' = 0
      /\ UNCHANGED <<provider, retryIn, forcedIn, keyHistory>>
  BY DEF Store, Release
<1>2. PICK p \in Outcomes, tok \in Token \cup {NoToken} :
         Goes(t, p, tok)
  BY LookGoes DEF Store, JwksInv
<1>3. JwksTypeOK'
  BY JwksTimeAssumption, HorizonIsNatural, <1>1, <1>2 DEF JwksInv, JwksTypeOK, Goes,
         Outcomes, provider, keyHistory
<1>4. LockHeld'
  BY JwksNullAssumption, <1>1, <1>2 DEF JwksInv, LockHeld, Goes, Outcomes, JwksTypeOK
<1>5. ModeFits'
  BY <1>2 DEF JwksInv, ModeFits, Goes, Outcomes, JwksTypeOK
<1>6. FetchesSpaced'
  BY <1>1 DEF JwksInv, FetchesSpaced, keyHistory, ModeFits
<1>7. ReplyAge'
  BY <1>1, <1>2 DEF JwksInv, ReplyAge, Goes, Outcomes, JwksTypeOK, LockHeld
<1>8. CachedAge'
  BY JwksTimeAssumption, <1>1 DEF JwksInv, CachedAge, provider, JwksTypeOK, ReplyAge
<1>9. LookedInAge'
  BY JwksTimeAssumption, <1>1 DEF LookedInAge
<1>10. RotationKnown'
  <2>1. failedIn' >= retryIn'
    BY <1>1 DEF JwksInv, RotationKnown, keyHistory
  <2>2. ASSUME forcedIn' > 0
        PROVE  /\ fetchAge' <= Interval - forcedIn'
               /\ \A k \in published' \ cached' : since'[k] <= Interval - forcedIn'
    <3>1. /\ forcedIn' = forcedIn /\ forcedIn > 0 /\ forcedIn \in 0..Interval
          /\ fetchAge \in 0..FetchTime /\ published \subseteq Kids /\ \A k \in Kids : since[k] \in 0..Horizon
      BY <1>1, <2>2 DEF JwksInv, JwksTypeOK
    <3>2. fetchAge <= Interval - forcedIn
      BY <3>1 DEF JwksInv, RotationKnown
    <3>3. \A k \in published \ reply[t] : since[k] <= fetchAge
      BY <1>1, <3>1 DEF JwksInv, ReplyAge
    <3> QED
      BY <1>1, <3>1, <3>2, <3>3, JwksTimeAssumption DEF provider
  <2> QED
    BY <2>1, <2>2 DEF RotationKnown
<1> QED
  BY <1>3, <1>4, <1>5, <1>6, <1>7, <1>8, <1>9, <1>10 DEF JwksInv

\* The fetch fails.
LEMMA FetchFailsKeeps ==
    ASSUME JwksInv, NEW t \in Verifiers, FetchFails(t)
    PROVE  JwksInv'
<1>1. /\ InFlight(t) /\ lock' = NoVerifier /\ fetchAge' = 0
      /\ retryIn' = IF mode[t] = "forced" THEN retryIn ELSE Interval
      /\ failedIn' = Interval
      /\ UNCHANGED <<provider, cached, cacheAge, forcedIn, asked>>
  BY DEF FetchFails, Release, Pause, InFlight
<1>2. PICK p \in Outcomes, tok \in Token \cup {NoToken} :
         Goes(t, p, tok) /\ (p = "unknown" => mode[t] = "scheduled")
  BY EndGoes, LookGoes DEF FetchFails, JwksInv, Outcomes
<1>3. JwksTypeOK'
  BY JwksTimeAssumption, <1>1, <1>2 DEF JwksInv, JwksTypeOK, Goes, Outcomes, provider
<1>4. LockHeld'
  BY JwksNullAssumption, <1>1, <1>2 DEF JwksInv, LockHeld, Goes, Outcomes, InFlight,
         JwksTypeOK
<1>5. ModeFits'
  BY <1>2 DEF JwksInv, ModeFits, Goes, Outcomes, JwksTypeOK
<1>6. FetchesSpaced'
  BY JwksTimeAssumption, <1>1, <1>2 DEF JwksInv, FetchesSpaced, Goes, InFlight
<1>7. ReplyAge'
  BY <1>1, <1>2 DEF JwksInv, ReplyAge, Goes, Outcomes, InFlight, JwksTypeOK, LockHeld
<1>8. CachedAge'
  BY <1>1 DEF JwksInv, CachedAge, provider
<1>9. LookedInAge'
  BY JwksTimeAssumption, <1>1, <1>2 DEF JwksInv, LookedInAge, Goes, Outcomes, InFlight,
         JwksTypeOK, LockHeld
<1>10. RotationKnown'
  BY JwksTimeAssumption, <1>1 DEF JwksInv, RotationKnown, JwksTypeOK
<1> QED
  BY <1>3, <1>4, <1>5, <1>6, <1>7, <1>8, <1>9, <1>10 DEF JwksInv

\* The eight hold at every step of the threads, the provider and the clock.
THEOREM JwksInvariant == JwksSpec => []JwksInv
<1>1. JwksInit => JwksInv
  BY JwksStart
<1>2. JwksInv /\ [JwksNext]_jwkVars => JwksInv'
  <2> SUFFICES ASSUME JwksInv, [JwksNext]_jwkVars PROVE JwksInv'
    OBVIOUS
  <2>1. CASE UNCHANGED jwkVars
    BY <2>1 DEF jwkVars, provider, clocks, locals, keyHistory, JwksInv, JwksTypeOK, LockHeld,
       ModeFits, FetchesSpaced, ReplyAge, CachedAge, LookedInAge, RotationKnown, InFlight
  <2>2. CASE JwksNext
    BY <2>2, RotateKeeps, JwksTickKeeps, ReceiveKeeps, GetWithoutFetchKeeps, GetByFetchKeeps,
       ForcedLatelyKeeps, MayForceKeeps, AcquireKeeps, AcquireFailsKeeps, RecheckKeeps,
       StartFetchKeeps, ReplyKeeps, StoreKeeps, FetchFailsKeeps
    DEF JwksNext, VerifierStep
  <2> QED
    BY <2>1, <2>2
<1> QED
  BY <1>1, <1>2, PTL DEF JwksSpec

\* What the threads, the cache and the clocks can be, at every step.
THEOREM JwksTypeCorrect == JwksSpec => []JwksTypeOK
<1>1. JwksInv => JwksTypeOK
  BY DEF JwksInv
<1> QED
  BY <1>1, JwksInvariant, PTL

\* Whoever sends tokens, the provider is asked at most twice in any interval.
THEOREM ProviderAlwaysSpared == JwksSpec => []ProviderSpared
<1>1. JwksInv => ProviderSpared
  BY DEF JwksInv, FetchesSpaced, ProviderSpared
<1> QED
  BY <1>1, JwksInvariant, PTL

\* A call that ends accepted, or refused, was one of these steps.
LEMMA Verdicts ==
    ASSUME JwksInv, JwksNext, NEW t \in Verifiers, jwkPc'[t] # jwkPc[t],
           jwkPc'[t] \in {"accepted", "refused"}
    PROVE  \/ GetWithoutFetch(t) \/ ForcedLately(t) \/ AcquireFails(t)
           \/ Recheck(t) \/ Store(t) \/ FetchFails(t)
<1>1. PICK u \in Verifiers : VerifierStep(u)
  BY DEF JwksNext, JwksTick, Rotate, locals
<1>2. jwkPc \in [Verifiers -> {"accepted", "refused", "get", "unknown", "acquire",
                               "locked", "fetching", "replied"}]
  BY DEF JwksInv, JwksTypeOK
<1>3. ~\E tok \in Token : Receive(u, tok)
  BY <1>2 DEF Receive, To
<1>4. ~(GetByFetch(u) \/ MayForce(u) \/ Acquire(u) \/ StartFetch(u) \/ Reply(u))
  BY <1>2 DEF GetByFetch, MayForce, Acquire, StartFetch, Reply, To
<1>5. \/ GetWithoutFetch(u) \/ ForcedLately(u) \/ AcquireFails(u)
      \/ Recheck(u) \/ Store(u) \/ FetchFails(u)
  BY <1>1, <1>3, <1>4 DEF VerifierStep
<1>6. \E p \in Outcomes, tok \in Token \cup {NoToken} : Goes(u, p, tok)
  BY <1>5, EndGoes, LookGoes
  DEF GetWithoutFetch, ForcedLately, AcquireFails, Recheck, Store, FetchFails, JwksInv, Outcomes
<1>7. u = t
  BY <1>2, <1>6 DEF Goes
<1> QED
  BY <1>5, <1>7

\* A key that the provider has withdrawn is not accepted for longer than keys are
\* usable and two fetches, and a new one not refused for longer than an interval but
\* for a fetch that failed or is in flight.
THEOREM KeysAlwaysFollow == JwksSpec => WithdrawnKeyExpires /\ RotationPickedUp
<1> DEFINE Expires ==
      \A t \in Verifiers : Accepts(t) /\ token[t].kid \notin published
          => since[token[t].kid] <= MaxStale + 2 * FetchTime
<1> DEFINE PickedUp ==
      \A t \in Verifiers :
          /\ Refuses(t) /\ token[t].holds
          /\ token[t].kid \in published /\ since[token[t].kid] >= Interval
          => lock # NoVerifier \/ failedIn > 0
<1> USE JwksNullAssumption, JwksTimeAssumption, HorizonIsNatural
<1>1. JwksInv /\ [JwksNext]_jwkVars => [Expires]_jwkVars
  <2> SUFFICES ASSUME JwksInv, JwksNext, NEW t \in Verifiers, Accepts(t),
                      token[t].kid \notin published
               PROVE  since[token[t].kid] <= MaxStale + 2 * FetchTime
    OBVIOUS
  <2> DEFINE k == token[t].kid
  <2>1. /\ cacheAge \in 0..Horizon /\ fetchAge \in 0..FetchTime
        /\ cached \subseteq Kids /\ reply[t] \subseteq Kids
        /\ \A c \in Kids : since[c] \in 0..Horizon
        /\ jwkPc \in [Verifiers -> {"accepted", "refused", "get", "unknown", "acquire",
                                    "locked", "fetching", "replied"}]
        /\ mode[t] \in {"scheduled", "needed", "forced"}
    BY DEF JwksInv, JwksTypeOK
  <2>2. \/ GetWithoutFetch(t) \/ ForcedLately(t) \/ AcquireFails(t)
        \/ Recheck(t) \/ Store(t) \/ FetchFails(t)
    BY Verdicts DEF Accepts
  <2>3. \A S : LooksIn(t, S) => k \in S
    BY LookGoes, <2>1 DEF JwksInv, Goes, Accepts
  <2>4. ~CallEnds(t, "refused")
    BY EndGoes, <2>1 DEF Goes, Accepts
  <2>5. ASSUME k \in cached, cacheAge <= MaxStale + FetchTime
        PROVE  since[k] <= MaxStale + 2 * FetchTime
    <3>1. since[k] <= cacheAge + FetchTime
      BY <2>5 DEF JwksInv, CachedAge
    <3> QED
      BY <2>1, <2>5, <3>1
  <2>6. CASE GetWithoutFetch(t)
    BY <2>1, <2>3, <2>4, <2>5, <2>6 DEF GetWithoutFetch, Usable
  <2>7. CASE ForcedLately(t)
    BY <2>3, <2>5, <2>7 DEF ForcedLately, JwksInv, LookedInAge
  <2>8. CASE AcquireFails(t)
    BY <2>1, <2>3, <2>4, <2>5, <2>8 DEF AcquireFails, JwksInv, LookedInAge
  <2>9. CASE Recheck(t)
    BY <2>1, <2>3, <2>4, <2>5, <2>9 DEF Recheck, FreshKeys, JwksInv, LookedInAge
  <2>10. CASE Store(t)
    <3>1. k \in reply[t] /\ jwkPc[t] = "replied"
      BY <2>3, <2>10 DEF Store
    <3>2. since[k] <= fetchAge
      BY <2>1, <3>1 DEF JwksInv, ReplyAge
    <3> QED
      BY <2>1, <3>1, <3>2
  <2>11. CASE FetchFails(t)
    BY <2>1, <2>3, <2>4, <2>5, <2>11 DEF FetchFails, JwksInv, LookedInAge, InFlight
  <2> QED
    BY <2>2, <2>6, <2>7, <2>8, <2>9, <2>10, <2>11
<1>2. JwksInv /\ [JwksNext]_jwkVars => [PickedUp]_jwkVars
  <2> SUFFICES ASSUME JwksInv, JwksNext, NEW t \in Verifiers, Refuses(t), token[t].holds,
                      token[t].kid \in published, since[token[t].kid] >= Interval,
                      lock = NoVerifier
               PROVE  failedIn > 0
    OBVIOUS
  <2>1. /\ jwkPc \in [Verifiers -> {"accepted", "refused", "get", "unknown", "acquire",
                                    "locked", "fetching", "replied"}]
        /\ retryIn \in Nat /\ forcedIn \in 0..Interval /\ failedIn \in 0..Interval
        /\ cacheAge \in 0..Horizon /\ published \subseteq Kids /\ \A c \in Kids : since[c] \in 0..Horizon
    BY DEF JwksInv, JwksTypeOK
  <2>2. GetWithoutFetch(t) \/ ForcedLately(t)
    <3>1. ~(AcquireFails(t) \/ Recheck(t) \/ Store(t) \/ FetchFails(t))
      BY DEF AcquireFails, Recheck, Store, FetchFails, JwksInv, LockHeld
    <3> QED
      BY <3>1, Verdicts DEF Refuses
  <2>3. \A S : LooksIn(t, S) => token[t].kid \notin S /\ mode[t] = "forced"
    BY LookGoes, <2>1 DEF JwksInv, Goes, Refuses
  <2>4. CASE GetWithoutFetch(t)
    BY <2>1, <2>3, <2>4
    DEF GetWithoutFetch, FreshKeys, Usable, JwksInv, ModeFits, RotationKnown
  <2>5. CASE ForcedLately(t)
    <3>1. forcedIn > 0 /\ token[t].kid \in published \ cached
      BY <2>3, <2>5 DEF ForcedLately
    <3>2. ~\E u \in Verifiers : InFlight(u) /\ mode[u] = "forced"
      BY DEF JwksInv, LockHeld, InFlight
    <3> QED
      BY <2>1, <3>1, <3>2 DEF JwksInv, RotationKnown
  <2> QED
    BY <2>2, <2>4, <2>5
<1> QED
  BY <1>1, <1>2, JwksInvariant, PTL DEF JwksSpec, WithdrawnKeyExpires, RotationPickedUp

----------------------------------------------------------------------------
(* Admission: no more calls than the limits, and none past its grants.     *)

\* No window was opened in the future.
StartedBefore ==
    \A s \in Subjects : windows[s] # NoWindow => windows[s].started <= now

\* A call that _decide let through is covered.
DecidedCovered ==
    \A k \in Calls : pc[k] \in {"admit", "body"} =>
        ~Undetermined(call[k]) /\ Covers(call[k])

\* How a window in being relates to the history of its subject: its count is
\* the tail of the history, made since it started; what is older was made
\* before it started, and all but RateLimit of that a whole window before.
OpenWindow(s) ==
    windows[s] # NoWindow =>
        /\ windows[s].count <= Len(passed[s])
        /\ \A i \in DOMAIN passed[s] :
             /\ i + windows[s].count > Len(passed[s]) => passed[s][i] >= windows[s].started
             /\ i + windows[s].count <= Len(passed[s]) => passed[s][i] <= windows[s].started
             /\ i + windows[s].count + RateLimit <= Len(passed[s])
                    => passed[s][i] + Window <= windows[s].started

\* A subject without a window has made at most RateLimit calls in the last.
NoOpenWindow(s) ==
    windows[s] = NoWindow =>
        \A i \in DOMAIN passed[s] :
            i + RateLimit <= Len(passed[s]) => passed[s][i] + Window <= now

\* Nothing is in the future, and nothing is counted without a limit.
PastOnly(s) ==
    /\ \A i \in DOMAIN passed[s] : passed[s][i] <= now
    /\ RateLimit = 0 => passed[s] = <<>> /\ windows[s] = NoWindow

History == \A s \in Subjects : OpenWindow(s) /\ NoOpenWindow(s) /\ PastOnly(s)

\* The inductive invariant.
IInv ==
    /\ TypeOK
    /\ SlotsAreCalls
    /\ StartedBefore
    /\ KeptWindowsOverlap
    /\ DecidedCovered
    /\ History
    /\ BurstBound

USE LimitAssumption, NullAssumption, GrantAssumption

----------------------------------------------------------------------------
\* What acquire may do to the windows when it charges s (Charge): the window
\* of s is the one it had, not yet expired, or one opened now; another
\* subject's is as it was, or swept because it had expired.
LEMMA ChargedWindows ==
    ASSUME TypeOK, RateLimit > 0, NEW s \in Subjects, ~OverRate(s), Charge(s)
    PROVE  /\ windows' \in [Subjects -> RateWindow \cup {NoWindow}]
           /\ windows'[s] # NoWindow
           /\ \/ /\ windows[s] # NoWindow /\ ~Expired(windows[s])
                 /\ windows'[s].started = windows[s].started
                 /\ windows'[s].count = windows[s].count + 1
                 /\ \A t \in Subjects \ {s} : windows'[t] = windows[t]
              \/ /\ RollsOver(s)
                 /\ windows'[s].started = now
                 /\ windows'[s].count = 1
                 /\ \A t \in Subjects \ {s} :
                      \/ windows'[t] = windows[t] /\ (windows[t] # NoWindow => ~Expired(windows[t]))
                      \/ windows'[t] = NoWindow /\ windows[t] # NoWindow /\ Expired(windows[t])
<1>1. CASE RollsOver(s)
  <2> DEFINE fresh == [started |-> now, count |-> 0]
  <2>1. fresh \in RateWindow
    BY DEF RateWindow, TypeOK
  <2>2. Current(s) = [t \in Subjects |-> IF t = s THEN fresh ELSE Kept(t)]
    BY <1>1 DEF Current
  <2>3. Current(s) \in [Subjects -> RateWindow \cup {NoWindow}] /\ Current(s)[s] = fresh
    BY <2>1, <2>2 DEF TypeOK, Kept
  <2>4. windows' = [Current(s) EXCEPT ![s] = [fresh EXCEPT !.count = 1]]
    BY <2>3 DEF Charge
  <2>5. [fresh EXCEPT !.count = 1] = [started |-> now, count |-> 1]
    OBVIOUS
  <2>6. [started |-> now, count |-> 1] \in RateWindow
    BY DEF RateWindow, TypeOK
  <2>7. windows'[s] = [started |-> now, count |-> 1]
    BY <2>3, <2>4, <2>5
  <2>8. \A t \in Subjects \ {s} : windows'[t] = Kept(t)
    BY <2>2, <2>3, <2>4
  <2>9. windows' \in [Subjects -> RateWindow \cup {NoWindow}]
    BY <2>3, <2>4, <2>5, <2>6
  <2> QED
    BY <1>1, <2>6, <2>7, <2>8, <2>9 DEF Kept
<1>2. CASE ~RollsOver(s)
  <2>1. Current(s) = windows /\ windows[s] # NoWindow /\ ~Expired(windows[s])
    BY <1>2 DEF Current, RollsOver
  <2>2. windows[s] \in RateWindow /\ windows[s].count < RateLimit
    BY <2>1 DEF TypeOK, OverRate, RateWindow
  <2>3. [windows[s] EXCEPT !.count = @ + 1]
          = [started |-> windows[s].started, count |-> windows[s].count + 1]
    BY <2>2 DEF RateWindow
  <2>4. [started |-> windows[s].started, count |-> windows[s].count + 1] \in RateWindow
    BY <2>2 DEF RateWindow
  <2>5. windows' = [windows EXCEPT ![s] = [windows[s] EXCEPT !.count = @ + 1]]
    BY <2>1 DEF Charge
  <2> QED
    BY <2>1, <2>2, <2>3, <2>4, <2>5 DEF TypeOK
<1> QED
  BY <1>1, <1>2

\* A call that passes the rate limit keeps the types, the sweep's bound and
\* the history, whether it then gets a slot or not.
LEMMA PassedCall ==
    ASSUME IInv, NEW s \in Subjects, ~OverRate(s), Charge(s), Passed(s), now' = now
    PROVE  /\ windows' \in [Subjects -> RateWindow \cup {NoWindow}]
           /\ passed' \in [Subjects -> Seq(0..MaxTime)]
           /\ StartedBefore' /\ KeptWindowsOverlap' /\ History' /\ BurstBound'
<1> USE DEF IInv
<1>1. CASE RateLimit = 0
  <2>1. windows' = windows /\ passed' = passed
    BY <1>1 DEF Charge, Passed
  <2> QED
    BY <2>1 DEF TypeOK, StartedBefore, KeptWindowsOverlap, History, OpenWindow,
                NoOpenWindow, PastOnly, BurstBound
<1>2. CASE RateLimit > 0
  <2> USE <1>2
  <2>1. /\ windows' \in [Subjects -> RateWindow \cup {NoWindow}]
        /\ windows'[s] # NoWindow
    BY ChargedWindows
  <2>2. PICK kept \in BOOLEAN :
          /\ kept => /\ windows[s] # NoWindow /\ ~Expired(windows[s])
                     /\ windows'[s].started = windows[s].started
                     /\ windows'[s].count = windows[s].count + 1
                     /\ \A t \in Subjects \ {s} : windows'[t] = windows[t]
          /\ ~kept => /\ RollsOver(s)
                      /\ windows'[s].started = now
                      /\ windows'[s].count = 1
                      /\ \A t \in Subjects \ {s} :
                           \/ /\ windows'[t] = windows[t]
                              /\ windows[t] # NoWindow => ~Expired(windows[t])
                           \/ windows'[t] = NoWindow /\ windows[t] # NoWindow /\ Expired(windows[t])
    BY ChargedWindows
  <2>3. passed' = [passed EXCEPT ![s] = Append(@, now)]
    BY DEF Passed
  <2>4. passed' \in [Subjects -> Seq(0..MaxTime)]
    BY <2>3 DEF TypeOK
  <2> DEFINE n == Len(passed[s])
  <2>5. /\ passed[s] \in Seq(0..MaxTime) /\ n \in Nat /\ DOMAIN passed[s] = 1..n
        /\ passed'[s] = Append(passed[s], now)
        /\ Len(passed'[s]) = n + 1 /\ DOMAIN passed'[s] = 1..(n + 1)
        /\ passed'[s][n + 1] = now
        /\ \A i \in 1..n : passed'[s][i] = passed[s][i] /\ passed[s][i] \in 0..MaxTime
    BY <2>3 DEF TypeOK
  <2>6. \A t \in Subjects \ {s} : passed'[t] = passed[t]
    BY <2>3 DEF TypeOK
  <2>7. now \in 0..MaxTime /\ now \in Nat /\ RateLimit \in Nat /\ Window \in Nat
    BY DEF TypeOK
  <2>8. \A t \in Subjects : windows[t] # NoWindow =>
            windows[t].started \in 0..MaxTime /\ windows[t].count \in 0..RateLimit
    BY DEF TypeOK, RateWindow
  <2>9. StartedBefore'
    BY <2>2, <2>7 DEF StartedBefore
  <2>10. KeptWindowsOverlap'
    <3>1. CASE kept
      BY <2>2, <3>1 DEF KeptWindowsOverlap
    <3>2. CASE ~kept
      BY <2>2, <2>7, <2>8, <3>2 DEF KeptWindowsOverlap, StartedBefore, Expired
    <3> QED BY <3>1, <3>2
  <2> DEFINE w == windows[s]
             v == windows'[s]
             p == passed[s]
             q == passed'[s]
  <2>11. w # NoWindow =>
           /\ w.count <= n
           /\ \A i \in 1..n :
                /\ i + w.count > n => p[i] >= w.started
                /\ i + w.count <= n => p[i] <= w.started
                /\ i + w.count + RateLimit <= n => p[i] + Window <= w.started
    BY <2>5 DEF History, OpenWindow
  <2>12. w = NoWindow => \A i \in 1..n : i + RateLimit <= n => p[i] + Window <= now
    BY <2>5 DEF History, NoOpenWindow
  <2>13. \A i \in 1..n : p[i] <= now
    BY <2>5 DEF History, PastOnly
  <2>14. w # NoWindow => w.started \in Nat /\ w.started <= now /\ w.count \in 0..RateLimit
    BY <2>8 DEF StartedBefore
  <2>15. \A i \in 1..n : p[i] \in Nat
    BY <2>5
  <2>16. ~kept => \A i \in 1..n : i + RateLimit <= n => p[i] + Window <= now
    <3>1. CASE w = NoWindow
      BY <2>12, <3>1
    <3>2. ASSUME w # NoWindow, ~kept PROVE now - w.started >= Window
      BY <2>2, <3>2 DEF RollsOver, Expired
    <3>3. ASSUME w # NoWindow, ~kept, NEW i \in 1..n, i + RateLimit <= n
          PROVE  p[i] + Window <= now
      <4>1. i + w.count <= n
        <5> HIDE DEF w, p, q, v, n
        <5>1. n \in Nat /\ i \in Nat
          BY <2>5, <3>3 DEF n
        <5>2. w.count \in Nat /\ w.count <= RateLimit
          BY <2>14, <2>7, <3>3
        <5> QED
          BY <5>1, <5>2, <2>7, <3>3
      <4>2. p[i] <= w.started
        BY <2>11, <3>3, <4>1
      <4> QED
        BY <2>7, <2>14, <2>15, <3>2, <3>3, <4>2
    <3> QED BY <3>1, <3>3
  <2>17. /\ v.count <= n + 1
         /\ \A i \in 1..(n + 1) :
              /\ i + v.count > n + 1 => q[i] >= v.started
              /\ i + v.count <= n + 1 => q[i] <= v.started
              /\ i + v.count + RateLimit <= n + 1 => q[i] + Window <= v.started
    <3>1. CASE kept
      <4> HIDE DEF w, v, p, q, n
      <4>1. w # NoWindow /\ v.started = w.started /\ v.count = w.count + 1
        BY <2>2, <3>1 DEF w, v
      <4>2. /\ n \in Nat /\ q[n + 1] = now
            /\ \A i \in 1..n : q[i] = p[i]
        BY <2>5 DEF p, q, n
      <4> QED
        BY <2>7, <2>11, <2>14, <2>15, <4>1, <4>2
    <3>2. CASE ~kept
      <4> HIDE DEF w, v, p, q, n
      <4>1. v.started = now /\ v.count = 1
        BY <2>2, <3>2 DEF v
      <4>2. /\ n \in Nat /\ q[n + 1] = now
            /\ \A i \in 1..n : q[i] = p[i]
        BY <2>5 DEF p, q, n
      <4> QED
        BY <2>7, <2>13, <2>15, <2>16, <3>2, <4>1, <4>2
    <3> QED BY <3>1, <3>2
  <2>18. OpenWindow(s)' /\ NoOpenWindow(s)' /\ PastOnly(s)'
    <3>1. PastOnly(s)'
      BY <2>1, <2>5, <2>7, <2>13 DEF PastOnly
    <3>2. OpenWindow(s)'
      BY <2>5, <2>17 DEF OpenWindow
    <3>3. NoOpenWindow(s)'
      BY <2>1 DEF NoOpenWindow
    <3> QED BY <3>1, <3>2, <3>3
  <2>19. ASSUME NEW t \in Subjects \ {s}
         PROVE  OpenWindow(t)' /\ NoOpenWindow(t)' /\ PastOnly(t)'
    <3>1. PastOnly(t)'
      BY <2>6 DEF History, PastOnly
    <3>2. CASE windows'[t] = windows[t]
      BY <2>6, <3>1, <3>2 DEF History, OpenWindow, NoOpenWindow
    <3>3. CASE windows'[t] = NoWindow /\ windows[t] # NoWindow /\ Expired(windows[t])
      <4>1. passed[t] \in Seq(0..MaxTime)
        BY DEF TypeOK
      <4>2. Len(passed[t]) \in Nat /\ DOMAIN passed[t] = 1..Len(passed[t])
            /\ \A i \in 1..Len(passed[t]) : passed[t][i] \in Nat
        BY <4>1
      <4>3. windows[t].started \in Nat /\ windows[t].count \in 0..RateLimit
            /\ now - windows[t].started >= Window
        BY <2>8, <3>3 DEF Expired
      <4>4. \A i \in 1..Len(passed[t]) :
              i + windows[t].count <= Len(passed[t]) => passed[t][i] <= windows[t].started
        BY <3>3, <4>2 DEF History, OpenWindow
      <4>5. \A i \in 1..Len(passed[t]) :
              i + RateLimit <= Len(passed[t]) => passed[t][i] + Window <= now
        <5> SUFFICES ASSUME NEW i \in 1..Len(passed[t]), i + RateLimit <= Len(passed[t])
                     PROVE  passed[t][i] + Window <= now
          OBVIOUS
        <5>1. i + windows[t].count <= Len(passed[t])
          BY <2>7, <4>2, <4>3
        <5>2. passed[t][i] <= windows[t].started /\ passed[t][i] \in Nat
          BY <4>2, <4>4, <5>1
        <5> QED
          BY <2>7, <4>3, <5>2
      <4>6. NoOpenWindow(t)'
        BY <2>6, <4>2, <4>5 DEF NoOpenWindow
      <4> QED
        BY <3>1, <3>3, <4>6 DEF OpenWindow
    <3>4. \/ windows'[t] = windows[t]
          \/ windows'[t] = NoWindow /\ windows[t] # NoWindow /\ Expired(windows[t])
      BY <2>2
    <3> QED BY <3>2, <3>3, <3>4
  <2>20. BurstBound'
    <3>1. \A i \in 1..n : i + 2 * RateLimit <= n + 1 => p[i] + Window <= now
      <4>1. CASE kept
        <5>1. w # NoWindow /\ w.count + 1 <= RateLimit
          <6>1. v \in RateWindow
            BY <2>1
          <6>2. v.count \in 0..RateLimit
            BY <6>1 DEF RateWindow
          <6> QED
            BY <2>2, <2>7, <4>1, <6>2
        <5> HIDE DEF w, p, n
        <5>2. n \in Nat
          BY <2>5 DEF n
        <5> QED
          BY <2>7, <2>11, <2>14, <2>15, <5>1, <5>2
      <4>2. CASE ~kept
        BY <2>5, <2>7, <2>16, <4>2
      <4> QED BY <4>1, <4>2
    <3>2. \A i, j \in DOMAIN passed'[s] :
            j - i >= 2 * RateLimit => passed'[s][j] - passed'[s][i] >= Window
      <4>1. SUFFICES ASSUME NEW i \in 1..(n + 1), NEW j \in 1..(n + 1),
                            j - i >= 2 * RateLimit
                     PROVE  q[j] - q[i] >= Window
        BY <2>5
      <4>2. CASE j = n + 1
        <5>1. i \in 1..n /\ i + 2 * RateLimit <= n + 1
          <6>1. n \in Nat /\ RateLimit \in Nat \ {0}
            BY <2>5, <2>7
          <6> HIDE DEF n, p, q, w, v
          <6> QED
            BY <4>1, <4>2, <6>1
        <5>2. p[i] + Window <= now /\ q[i] = p[i] /\ q[j] = now /\ p[i] \in Nat
          BY <2>5, <2>15, <3>1, <4>2, <5>1
        <5> QED
          BY <2>7, <5>2
      <4>3. CASE j # n + 1
        <5>1. i \in 1..n /\ j \in 1..n
          BY <2>5, <2>7, <4>1, <4>3
        <5>2. p[j] - p[i] >= Window
          BY <2>5, <4>1, <5>1 DEF BurstBound
        <5> QED
          BY <2>5, <5>1, <5>2
      <4> QED BY <4>2, <4>3
    <3> QED
      BY <2>6, <3>2 DEF BurstBound
  <2> QED
    BY <2>1, <2>4, <2>9, <2>10, <2>18, <2>19, <2>20 DEF History
<1> QED
  BY <1>1, <1>2

\* acquire refused s for its rate: the windows it leaves are those it looked
\* at, and the window of s has not expired.
LEMMA RefusedWindows ==
    ASSUME IInv, NEW s \in Subjects, OverRate(s)
    PROVE  Current(s) = windows /\ ~RollsOver(s)
<1>1. CASE RollsOver(s)
  <2>1. Current(s)[s] = [started |-> now, count |-> 0]
    BY <1>1 DEF Current
  <2> QED
    BY <2>1 DEF OverRate
<1> QED
  BY <1>1 DEF Current

\* A call that enters or leaves its tool changes the running tools of its
\* own subject by that call, and nobody else's.
LEMMA RunningChanges ==
    ASSUME TypeOK, NEW k \in Calls, pc[k] # "idle", NEW s \in Subjects
    PROVE  /\ Running(s) \in SUBSET Calls /\ IsFiniteSet(Running(s))
           /\ pc' = [pc EXCEPT ![k] = "body"] /\ call' = call =>
                Running(s)' = IF s = call[k].subject THEN Running(s) \cup {k} ELSE Running(s)
           /\ Return(k) => Running(s)' = Running(s) \ {k}
<1>1. Running(s) \in SUBSET Calls /\ IsFiniteSet(Running(s))
  BY FiniteAssumption, FS_Subset DEF Running
<1>2. ASSUME pc' = [pc EXCEPT ![k] = "body"], call' = call
      PROVE  Running(s)' = IF s = call[k].subject THEN Running(s) \cup {k} ELSE Running(s)
  BY <1>2 DEF TypeOK, Running
<1>3. ASSUME Return(k) PROVE Running(s)' = Running(s) \ {k}
  BY <1>3 DEF TypeOK, Running, Return
<1> QED
  BY <1>1, <1>2, <1>3

\* A call that was not running its tool ends, and no slot changes hands.
LEMMA ReturnWithoutSlot ==
    ASSUME IInv, NEW k \in Calls, pc[k] # "body", Return(k), inFlight' = inFlight
    PROVE  /\ SlotsAreCalls' /\ DecidedCovered'
           /\ pc' \in [Calls -> {"idle", "decide", "admit", "body"}]
           /\ call' \in [Calls -> Call \cup {NoCall}]
           /\ \A j \in Calls : pc'[j] # "idle" => call'[j] \in Call
<1> USE DEF IInv
<1>1. \A s \in Subjects : Running(s)' = Running(s)
  BY DEF TypeOK, Running, Return
<1>2. SlotsAreCalls'
  BY <1>1 DEF SlotsAreCalls
<1>3. DecidedCovered'
  BY DEF DecidedCovered, Undetermined, Covers, Return, TypeOK
<1> QED
  BY <1>2, <1>3 DEF Return, TypeOK

----------------------------------------------------------------------------
\* Every initial state satisfies the invariant.
LEMMA InitEstablishes == Init => IInv
<1> SUFFICES ASSUME Init PROVE IInv
  OBVIOUS
<1>1. \A s \in Subjects : Running(s) = {}
  BY DEF Init, Running
<1>2. TypeOK
  BY DEF Init, TypeOK
<1>3. SlotsAreCalls
  <2>1. \A s \in Subjects : Cardinality(Running(s)) = 0
    BY <1>1, FS_EmptySet
  <2> QED
    BY <2>1 DEF Init, SlotsAreCalls
<1>4. History
  BY DEF Init, History, OpenWindow, NoOpenWindow, PastOnly
<1>5. StartedBefore /\ KeptWindowsOverlap /\ DecidedCovered /\ BurstBound
  BY DEF Init, StartedBefore, KeptWindowsOverlap, DecidedCovered, BurstBound
<1> QED
  BY <1>2, <1>3, <1>4, <1>5 DEF IInv

\* The clock may tick.
LEMMA TickPreserves == IInv /\ Tick => IInv'
<1> SUFFICES ASSUME IInv, Tick PROVE IInv'
  OBVIOUS
<1> USE DEF IInv, Tick
<1>1. now \in Nat /\ now + 1 \in 0..MaxTime
  BY DEF TypeOK
<1>2. TypeOK'
  BY <1>1 DEF TypeOK
<1>3. SlotsAreCalls' /\ KeptWindowsOverlap' /\ DecidedCovered' /\ BurstBound'
  BY DEF SlotsAreCalls, Running, KeptWindowsOverlap, DecidedCovered, Undetermined, Covers,
         BurstBound
<1>4. StartedBefore'
  BY <1>1 DEF StartedBefore, TypeOK, RateWindow
<1>5. ASSUME NEW s \in Subjects
      PROVE  OpenWindow(s)' /\ NoOpenWindow(s)' /\ PastOnly(s)'
  <2>1. passed[s] \in Seq(0..MaxTime)
    BY DEF TypeOK
  <2>2. \A i \in DOMAIN passed[s] : passed[s][i] \in Nat
    BY <2>1
  <2> QED
    BY <1>1, <2>2 DEF History, OpenWindow, NoOpenWindow, PastOnly
<1> QED
  BY <1>2, <1>3, <1>4, <1>5 DEF History

\* What a call does in guard keeps the invariant.
LEMMA CallPreserves ==
    ASSUME IInv, NEW k \in Calls, CallStep(k)
    PROVE  IInv'
<1> USE DEF IInv
<1> DEFINE Rest == StartedBefore /\ KeptWindowsOverlap /\ History /\ BurstBound
<1>1. ASSUME UNCHANGED <<now, windows, passed>> PROVE Rest'
  BY <1>1 DEF StartedBefore, KeptWindowsOverlap, History, OpenWindow, NoOpenWindow,
              PastOnly, BurstBound
<1>2. ASSUME NEW c \in Call, Arrive(k, c) PROVE IInv'
  <2>1. \A s \in Subjects : Running(s)' = Running(s)
    BY <1>2 DEF TypeOK, Running, Arrive
  <2>2. SlotsAreCalls'
    BY <1>2, <2>1 DEF SlotsAreCalls, Arrive
  <2>3. DecidedCovered'
    BY <1>2 DEF DecidedCovered, Undetermined, Covers, Arrive, TypeOK
  <2>4. TypeOK'
    BY <1>2 DEF TypeOK, Arrive
  <2> QED
    BY <1>1, <1>2, <2>2, <2>3, <2>4 DEF Arrive
<1>3. CASE DecideRefuses(k)
  BY <1>1, <1>3, ReturnWithoutSlot DEF DecideRefuses, TypeOK
<1>4. CASE DecideAllows(k)
  <2>1. \A s \in Subjects : Running(s)' = Running(s)
    BY <1>4 DEF TypeOK, Running, DecideAllows
  <2>2. SlotsAreCalls'
    BY <1>4, <2>1 DEF SlotsAreCalls, DecideAllows
  <2>3. DecidedCovered'
    BY <1>4 DEF DecidedCovered, Undetermined, Covers, DecideAllows, TypeOK
  <2>4. TypeOK'
    BY <1>4 DEF TypeOK, DecideAllows
  <2> QED
    BY <1>1, <1>4, <2>2, <2>3, <2>4 DEF DecideAllows
<1>5. CASE RefuseRate(k)
  <2> DEFINE s == call[k].subject
  <2>1. s \in Subjects
    BY <1>5 DEF RefuseRate, TypeOK, Call
  <2>2. windows' = windows
    BY <1>5, <2>1, RefusedWindows DEF RefuseRate
  <2> QED
    BY <1>1, <1>5, <2>2, ReturnWithoutSlot DEF RefuseRate, TypeOK
<1>6. CASE RefuseBusy(k)
  <2> DEFINE s == call[k].subject
  <2>1. s \in Subjects
    BY <1>6 DEF RefuseBusy, TypeOK, Call
  <2>2. /\ windows' \in [Subjects -> RateWindow \cup {NoWindow}]
        /\ passed' \in [Subjects -> Seq(0..MaxTime)]
        /\ Rest'
    BY <1>6, <2>1, PassedCall DEF RefuseBusy
  <2> QED
    BY <1>6, <2>2, ReturnWithoutSlot DEF RefuseBusy, TypeOK
<1>7. CASE Admit(k)
  <2> DEFINE s == call[k].subject
  <2>1. s \in Subjects /\ pc[k] = "admit"
    BY <1>7 DEF Admit, TypeOK, Call
  <2>2. /\ windows' \in [Subjects -> RateWindow \cup {NoWindow}]
        /\ passed' \in [Subjects -> Seq(0..MaxTime)]
        /\ Rest'
    BY <1>7, <2>1, PassedCall DEF Admit
  <2>3. SlotsAreCalls'
    <3>1. SUFFICES ASSUME MaxConcurrent > 0, NEW t \in Subjects
                   PROVE  /\ inFlight'[t] = Cardinality(Running(t)')
                          /\ inFlight'[t] <= MaxConcurrent
      BY DEF SlotsAreCalls
    <3>2. inFlight[t] = Cardinality(Running(t)) /\ inFlight[t] <= MaxConcurrent
          /\ inFlight[t] \in Nat
      BY <3>1 DEF SlotsAreCalls, TypeOK
    <3>3. CASE t = s
      <4>1. inFlight[t] < MaxConcurrent /\ inFlight'[t] = inFlight[t] + 1
        BY <1>7, <3>1, <3>2, <3>3 DEF Admit, Busy, TypeOK
      <4>2. Running(t)' = Running(t) \cup {k}
        BY <1>7, <2>1, <3>3, RunningChanges DEF Admit
      <4>3. k \notin Running(t) /\ IsFiniteSet(Running(t))
        BY <2>1, RunningChanges DEF Running
      <4>4. Cardinality(Running(t)') = Cardinality(Running(t)) + 1
        BY <4>2, <4>3, FS_AddElement
      <4> QED
        BY <3>1, <3>2, <4>1, <4>4
    <3>4. CASE t # s
      <4>1. inFlight'[t] = inFlight[t]
        BY <1>7, <3>4 DEF Admit, TypeOK
      <4>2. Running(t)' = Running(t)
        BY <1>7, <2>1, <3>4, RunningChanges DEF Admit
      <4> QED
        BY <3>2, <4>1, <4>2
    <3> QED BY <3>3, <3>4
  <2>4. DecidedCovered'
    BY <1>7 DEF DecidedCovered, Undetermined, Covers, Admit, TypeOK
  <2>5. TypeOK'
    <3>1. inFlight' \in [Subjects -> Nat]
      <4>1. inFlight \in [Subjects -> Nat] /\ inFlight[s] \in Nat
        BY <2>1 DEF TypeOK
      <4>2. inFlight' = inFlight \/ inFlight' = [inFlight EXCEPT ![s] = inFlight[s] + 1]
        BY <1>7, <4>1 DEF Admit
      <4> HIDE DEF s
      <4> QED
        BY <4>1, <4>2
    <3>2. /\ pc' \in [Calls -> {"idle", "decide", "admit", "body"}]
          /\ call' \in [Calls -> Call \cup {NoCall}] /\ now' \in 0..MaxTime
          /\ \A j \in Calls : pc'[j] # "idle" => call'[j] \in Call
      BY <1>7, <2>1 DEF Admit, TypeOK
    <3>3. /\ windows' \in [Subjects -> RateWindow \cup {NoWindow}]
          /\ passed' \in [Subjects -> Seq(0..MaxTime)]
      BY <2>2
    <3> QED
      BY ONLY <3>1, <3>2, <3>3 DEF TypeOK
  <2> QED
    BY <2>2, <2>3, <2>4, <2>5
<1>8. CASE Finish(k)
  <2> DEFINE s == call[k].subject
  <2>1. s \in Subjects /\ pc[k] = "body" /\ Return(k)
    BY <1>8 DEF Finish, TypeOK, Call
  <2>2. SlotsAreCalls'
    <3>1. SUFFICES ASSUME MaxConcurrent > 0, NEW t \in Subjects
                   PROVE  /\ inFlight'[t] = Cardinality(Running(t)')
                          /\ inFlight'[t] <= MaxConcurrent
      BY DEF SlotsAreCalls
    <3>2. inFlight[t] = Cardinality(Running(t)) /\ inFlight[t] <= MaxConcurrent
          /\ inFlight[t] \in Nat
      BY <3>1 DEF SlotsAreCalls, TypeOK
    <3>3. Running(t)' = Running(t) \ {k} /\ IsFiniteSet(Running(t))
      BY <2>1, RunningChanges
    <3>4. CASE t = s
      <4>1. k \in Running(t)
        BY <2>1, <3>4 DEF Running
      <4>2. Cardinality(Running(t)') = Cardinality(Running(t)) - 1
        BY <3>3, <4>1, FS_RemoveElement
      <4>3. inFlight[t] # 0
        BY <3>2, <3>3, <4>1, FS_EmptySet
      <4>4. inFlight'[t] = inFlight[t] - 1
        BY <1>8, <3>1, <3>2, <3>4, <4>3 DEF Finish, TypeOK
      <4> QED
        BY <3>1, <3>2, <4>2, <4>4
    <3>5. CASE t # s
      <4>1. inFlight'[t] = inFlight[t]
        BY <1>8, <3>5 DEF Finish, TypeOK
      <4>2. Running(t)' = Running(t)
        BY <3>3, <3>5 DEF Running
      <4> QED
        BY <3>2, <4>1, <4>2
    <3> QED BY <3>4, <3>5
  <2>3. DecidedCovered'
    BY <2>1 DEF DecidedCovered, Undetermined, Covers, Return, TypeOK
  <2>4. TypeOK'
    BY <1>8, <2>1 DEF Finish, Return, TypeOK
  <2> QED
    BY <1>1, <1>8, <2>2, <2>3, <2>4 DEF Finish
<1> QED
  BY <1>2, <1>3, <1>4, <1>5, <1>6, <1>7, <1>8 DEF CallStep

\* IInv is an invariant of the specification.
THEOREM InvariantHolds == Spec => []IInv
<1>1. IInv /\ [Next]_vars => IInv'
  <2> SUFFICES ASSUME IInv, [Next]_vars PROVE IInv'
    OBVIOUS
  <2>1. CASE UNCHANGED vars
    BY <2>1 DEF vars, IInv, TypeOK, SlotsAreCalls, Running, StartedBefore, KeptWindowsOverlap,
       DecidedCovered, Undetermined, Covers, History, OpenWindow, NoOpenWindow, PastOnly, BurstBound
  <2> QED
    BY <2>1, TickPreserves, CallPreserves DEF Next
<1> QED
  BY <1>1, InitEstablishes, PTL DEF Spec

\* The types of the variables, and that a window never counts past the limit.
THEOREM TypeCorrect == Spec => []TypeOK
BY InvariantHolds, PTL DEF IInv

\* A subject's slots are its running tools, and never more than the limit.
THEOREM SlotsCorrect == Spec => []SlotsAreCalls
BY InvariantHolds, PTL DEF IInv

\* At most twice the limit of a subject's calls get past the rate limit
\* within the length of a window.
THEOREM BurstBounded == Spec => []BurstBound
BY InvariantHolds, PTL DEF IInv

\* The windows kept are never a window apart.
THEOREM WindowsOverlap == Spec => []KeptWindowsOverlap
BY InvariantHolds, PTL DEF IInv

\* A running tool is covered by one grant.
THEOREM ToolsGranted == Spec => []GrantedOnly
<1>1. IInv => GrantedOnly
  BY DEF IInv, DecidedCovered, GrantedOnly, Covers
<1> QED
  BY <1>1, InvariantHolds, PTL

\* A subject is refused for its rate only when it has itself made RateLimit
\* calls less than a window ago.
THEOREM RefusalsEarned == Spec => RefusedOnlyWhenSpent
<1>1. ASSUME IInv, NEW k \in Calls, RefuseRate(k)
      PROVE  Cardinality(Recent(call[k].subject)) >= RateLimit
  <2> DEFINE s == call[k].subject
             n == Len(passed[s])
             tail == (n - RateLimit + 1)..n
  <2>1. s \in Subjects /\ OverRate(s) /\ TypeOK
    BY <1>1 DEF IInv, RefuseRate, TypeOK, Call
  <2>2. /\ windows[s] # NoWindow
        /\ ~Expired(windows[s])
        /\ windows[s].count >= RateLimit
    BY <1>1, <2>1, RefusedWindows DEF RollsOver, OverRate
  <2>3. windows[s].count = RateLimit /\ windows[s].started \in Nat /\ now \in Nat
    BY <2>1, <2>2 DEF TypeOK, RateWindow
  <2>4. n \in Nat /\ DOMAIN passed[s] = 1..n /\ \A i \in 1..n : passed[s][i] \in Nat
    <3>1. passed[s] \in Seq(0..MaxTime)
      BY <2>1 DEF TypeOK
    <3> QED
      BY <3>1
  <2>5. n >= RateLimit /\ \A i \in tail : passed[s][i] >= windows[s].started
    <3>1. OpenWindow(s)
      BY <1>1, <2>1 DEF IInv, History
    <3>2. n >= RateLimit
      BY <2>2, <2>3, <3>1 DEF OpenWindow
    <3>3. \A i \in 1..n : i + RateLimit > n => passed[s][i] >= windows[s].started
      BY <2>2, <2>3, <2>4, <3>1 DEF OpenWindow
    <3>4. \A i \in tail : i \in 1..n /\ i + RateLimit > n
      BY <2>4, <3>2
    <3> QED
      BY <3>2, <3>3, <3>4
  <2>6. tail \subseteq Recent(s)
    <3>1. SUFFICES ASSUME NEW i \in tail PROVE i \in Recent(s)
      OBVIOUS
    <3>2. i \in 1..n
      BY <2>4, <2>5
    <3>3. now - passed[s][i] < Window
      <4>1. passed[s][i] >= windows[s].started /\ passed[s][i] \in Nat
        BY <2>4, <2>5, <3>2
      <4>2. ~(now - windows[s].started >= Window)
        BY <2>2 DEF Expired
      <4>3. \A x, y, z \in Nat : x >= y /\ ~(z - y >= Window) => z - x < Window
        OBVIOUS
      <4> HIDE DEF s
      <4> QED
        BY <2>3, <4>1, <4>2, <4>3
    <3> QED
      BY <2>4, <3>2, <3>3 DEF Recent
  <2>7. IsFiniteSet(Recent(s))
    <3>1. Recent(s) \subseteq 1..n
      BY <2>4 DEF Recent
    <3> QED
      <4>1. IsFiniteSet(1..n)
        BY <2>4, FS_Interval
      <4> QED
        BY <3>1, <4>1, FS_Subset
  <2>8. Cardinality(tail) = RateLimit
    <3>1. n - RateLimit + 1 \in Int /\ n \in Int
      BY <2>4
    <3>2. Cardinality(tail) = IF n - RateLimit + 1 > n THEN 0 ELSE n - (n - RateLimit + 1) + 1
      BY <3>1, FS_Interval
    <3> HIDE DEF n, tail
    <3>3. n \in Nat
      BY <2>4
    <3> QED
      BY <3>2, <3>3
  <2>9. Cardinality(tail) <= Cardinality(Recent(s))
    BY <2>6, <2>7, FS_Subset
  <2>10. Cardinality(Recent(s)) \in Nat
    BY <2>7, FS_CardinalityType
  <2> QED
    BY <2>8, <2>9, <2>10
<1>2. IInv => [\A k \in Calls : RefuseRate(k) =>
                   Cardinality(Recent(call[k].subject)) >= RateLimit]_vars
  BY <1>1
<1> QED
  BY <1>2, InvariantHolds, PTL DEF RefusedOnlyWhenSpent
=============================================================================
