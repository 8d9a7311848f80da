------------------------------ MODULE KeychainKey -------------------------------
(***************************************************************************)
(* A Snowflake connector's private key in the OS keychain: too long for    *)
(* one of its entries, so it is split into parts under a fresh generation, *)
(* and the connector's own entry, the pointer, switches to it last.        *)
(* connect writes it, openings of the connector read it, and neither waits *)
(* for the other; a writer may fail or be killed at any entry.             *)
(***************************************************************************)
EXTENDS Integers

CONSTANTS Writers,      \* runs of connect for one connector, each with its key
          Readers,      \* openings of that connector
          Parts,        \* the entries of a key
          Generations   \* secrets.token_hex

ASSUME PartsAssumption == Parts \in Nat \ {0}

NoStoredKey == "no key"
NoGeneration == "no generation"
ASSUME NothingStored == NoStoredKey \notin Writers /\ NoGeneration \notin Generations
Passphrase == Parts + 1         \* the entry after the parts

VARIABLES store,     \* the entries, by generation and part: whose key they hold
          pointer,   \* the generation the connector's own entry names
          used,      \* the generations drawn so far
          writerPc, previous, generation, written,   \* store_in_keychain
          readerPc, found, parts, loaded             \* load_from_keychain

chainVars == <<store, pointer, used, writerPc, previous, generation, written,
               readerPc, found, parts, loaded>>
writerVars == <<store, pointer, used, writerPc, previous, generation, written>>
readerVars == <<readerPc, found, parts, loaded>>

Held == Writers \cup {NoStoredKey}
Named == Generations \cup {NoGeneration}
KeySlots == 1 .. Passphrase

ChainTypeOK ==
    /\ store \in [Generations -> [KeySlots -> Held]]
    /\ pointer \in Named /\ used \subseteq Generations
    /\ writerPc \in [Writers -> {"ready", "writing", "cleaning", "removing", "done"}]
    /\ previous \in [Writers -> Named] /\ generation \in [Writers -> Named]
    /\ written \in [Writers -> 0 .. Passphrase]
    /\ readerPc \in [Readers -> {"ready", "reading", "loaded", "missing"}]
    /\ found \in [Readers -> Named] /\ parts \in [Readers -> 0 .. Passphrase]
    /\ loaded \in [Readers -> SUBSET Held]

ChainInit ==
    /\ store = [g \in Generations |-> [i \in KeySlots |-> NoStoredKey]]
    /\ pointer = NoGeneration /\ used = {}
    /\ writerPc = [w \in Writers |-> "ready"]
    /\ previous = [w \in Writers |-> NoGeneration] /\ generation = [w \in Writers |-> NoGeneration]
    /\ written = [w \in Writers |-> 0]
    /\ readerPc = [r \in Readers |-> "ready"]
    /\ found = [r \in Readers |-> NoGeneration] /\ parts = [r \in Readers |-> 0]
    /\ loaded = [r \in Readers |-> {}]

Moves(w, from, to) == writerPc[w] = from /\ writerPc' = [writerPc EXCEPT ![w] = to]

\* The generation a key goes under: never the one in use, which
\* would be lost part by part.
FreshNames(w) == Generations \ used

\* The previous pointer is read; a keychain that refuses counts as having none.
Draw(w) ==
    /\ Moves(w, "ready", "writing")
    /\ \E p \in {pointer, NoGeneration}, g \in FreshNames(w) :
          /\ previous' = [previous EXCEPT ![w] = p]
          /\ generation' = [generation EXCEPT ![w] = g]
          /\ used' = used \cup {g}
    /\ UNCHANGED <<store, pointer, written, readerVars>>

Put(w) ==
    /\ writerPc[w] = "writing" /\ written[w] < Passphrase
    /\ store' = [store EXCEPT ![generation[w]][written[w] + 1] = w]
    /\ written' = [written EXCEPT ![w] = @ + 1]
    /\ UNCHANGED <<pointer, used, writerPc, previous, generation, readerVars>>

Switch(w) ==
    /\ written[w] = Passphrase
    /\ Moves(w, "writing", IF previous[w] = NoGeneration THEN "done" ELSE "removing")
    /\ pointer' = generation[w]
    /\ written' = [written EXCEPT ![w] = 0]
    /\ UNCHANGED <<store, used, previous, generation, readerVars>>

\* The keychain refuses an entry: what was written is removed and the command
\* goes on without the key.
Refused(w) ==
    /\ Moves(w, "writing", "cleaning")
    /\ UNCHANGED <<store, pointer, used, previous, generation, written, readerVars>>

\* _delete_entries, one entry at a time, and an entry that stays is unused.
Erase(g, i) ==
    store' \in {store, [store EXCEPT ![g][i] = NoStoredKey]}

CleanUp(w) ==
    /\ writerPc[w] = "cleaning"
    /\ IF written[w] = 0 THEN Moves(w, "cleaning", "done") /\ UNCHANGED <<store, written>>
       ELSE /\ Erase(generation[w], written[w])
            /\ written' = [written EXCEPT ![w] = @ - 1]
            /\ UNCHANGED writerPc
    /\ UNCHANGED <<pointer, used, previous, generation, readerVars>>

RemovePrevious(w) ==
    /\ writerPc[w] = "removing"
    /\ IF written[w] = Passphrase THEN Moves(w, "removing", "done") /\ UNCHANGED <<store, written>>
       ELSE /\ Erase(previous[w], written[w] + 1)
            /\ written' = [written EXCEPT ![w] = @ + 1]
            /\ UNCHANGED writerPc
    /\ UNCHANGED <<pointer, used, previous, generation, readerVars>>

StoreKilled(w) ==
    /\ writerPc[w] \notin {"ready", "done"}
    /\ writerPc' = [writerPc EXCEPT ![w] = "done"]
    /\ UNCHANGED <<store, pointer, used, previous, generation, written, readerVars>>

ReaderMoves(r, to) == readerPc' = [readerPc EXCEPT ![r] = to]

ReadPointer(r) ==
    /\ readerPc[r] = "ready"
    /\ found' = [found EXCEPT ![r] = pointer]
    /\ ReaderMoves(r, IF pointer = NoGeneration THEN "missing" ELSE "reading")
    /\ UNCHANGED <<parts, loaded, writerVars>>

\* The parts, then the passphrase, which a key need not have: only a missing part
\* is a missing key.
ReadPart(r) ==
    /\ readerPc[r] = "reading"
    /\ LET i == parts[r] + 1
           key == store[found[r]][i] IN
       /\ parts' = [parts EXCEPT ![r] = i]
       /\ loaded' = [loaded EXCEPT ![r] = @ \cup {key}]
       /\ ReaderMoves(r, IF i < Passphrase THEN "reading"
                         ELSE IF NoStoredKey \in loaded[r] THEN "missing" ELSE "loaded")
    /\ UNCHANGED <<found, writerVars>>

ChainNext ==
    \/ \E w \in Writers :
          Draw(w) \/ Put(w) \/ Switch(w) \/ Refused(w) \/ CleanUp(w) \/ RemovePrevious(w) \/ StoreKilled(w)
    \/ \E r \in Readers : ReadPointer(r) \/ ReadPart(r)
ChainSpec == ChainInit /\ [][ChainNext]_chainVars

\* SAFETY. The generation in use is one whole key with its passphrase, wherever
\* a writer failed or was killed ("a write that fails part-way leaves the
\* previous key and its passphrase as they were", snowflake_keys.py:112); and what
\* an opening loads is the parts of one key.
KeyInUseIsWhole ==
    /\ pointer # NoGeneration => \E w \in Writers : \A i \in KeySlots : store[pointer][i] = w
    /\ \A r \in Readers : readerPc[r] = "loaded" => \E w \in Writers : loaded[r] \subseteq {w, NoStoredKey}
=============================================================================
