----------------------------- MODULE ConnectorsFile -----------------------------
(***************************************************************************)
(* The connectors file and the OS keychain, as the commands connect,       *)
(* alias, agent docs add and remove and update-password write them and the *)
(* loader reads them back.  A command changes the keychain first and the   *)
(* file last, and may fail or be killed between the two; the keychain may  *)
(* refuse.  At any time, in the middle of a command too, an operator may   *)
(* edit an entry's alias or document sources by hand, take an entry out,   *)
(* or leave the file unreadable.                                           *)
(*                                                                         *)
(* The file is replaced whole (write_private), so a reader meets it before *)
(* or after a write, and a write reads it again first: the two are one     *)
(* step here.  Commands do not overlap: two of them at once would each     *)
(* write back the entry it read, and the later one would win.              *)
(***************************************************************************)
EXTENDS Integers

CONSTANTS Ids,        \* connector ids
          Passwords,  \* the passwords an operator gives
          Names,      \* aliases
          DocumentSources     \* document sources

None == "none"
Kinds == {"server", "snowflake", "sqlalchemy", "file"}   \* by what they take
NoPassword == {"file"}                                   \* _TAKES_NO_PASSWORD
Entry == [storage : {"url", "keychain", None}, url : Passwords \cup {None},
          alias : Names \cup {None}, docs : SUBSET DocumentSources]
NoEntry == [storage |-> None, url |-> None, alias |-> None, docs |-> {}]

VARIABLES root,      \* what the file parses to: a mapping, something else, or nothing
          entries,   \* its entries, those an unreadable file holds included
          keychain,  \* the passwords the keychain holds
          open,      \* the keychain takes values
          step,      \* where the command is
          command,   \* the command
          config,    \* the entry it will write
          signs,     \* connect: a private key is to be kept
          edited,    \* history: the entry was edited after the command read it
          hopes      \* history: the passwords a connector may be expected to use

fileVars == <<root, entries, keychain, open, step, command, config, signs, edited, hopes>>

CommandsGiven == [name : {"none", "connect", "alias", "docs", "rotate"}, id : Ids \cup {None},
                  password : Passwords \cup {None}]
NoCommand == [name |-> "none", id |-> None, password |-> None]
Steps == {"idle", "test", "password", "previous", "key", "save"}

FileTypeOK ==
    /\ root \in {"mapping", "other", "broken"}
    /\ entries \in [Ids -> Entry]
    /\ keychain \in [Ids -> Passwords \cup {None}]
    /\ open \in BOOLEAN
    /\ step \in Steps
    /\ command \in CommandsGiven
    /\ config \in Entry /\ signs \in BOOLEAN /\ edited \in BOOLEAN
    /\ hopes \in [Ids -> SUBSET (Passwords \cup {None})]

FileInit ==
    /\ root = "mapping" /\ entries = [i \in Ids |-> NoEntry]
    /\ keychain = [i \in Ids |-> None] /\ open = TRUE
    /\ step = "idle" /\ command = NoCommand /\ config = NoEntry /\ signs = FALSE
    /\ edited = FALSE /\ hopes = [i \in Ids |-> {}]

StepTo(to) == step' = to
Finished ==
    /\ step' = "idle" /\ command' = NoCommand /\ config' = NoEntry /\ signs' = FALSE
    /\ edited' = FALSE

\* _load_connectors answers nothing for a root that is no mapping, and raises on
\* a file it cannot parse; load_connectors_for_update raises on both.
Readable == root # "broken"
Entries == IF root = "mapping" THEN entries ELSE [i \in Ids |-> NoEntry]
ReadLeniently == root # "broken"
ReadForUpdate == root = "mapping"

\* _save_connector: one entry merged into what the file holds.
SaveEntry(id, e) ==
    /\ entries' = [Entries EXCEPT ![id] = e]
    /\ root' = "mapping"

\* _resolve_alias: an id before an alias.
ResolveAlias(name) ==
    IF name \in Ids THEN {name}
    ELSE {i \in Ids : Entries[i] # NoEntry /\ Entries[i].alias = name}

---------------------------------------------------------------------------
(* connect *)

Secrets(kind) == IF kind = "server" THEN Passwords ELSE Passwords \cup {None}

\* The arguments: a server wants a password, Snowflake a password or a key, and
\* not both; what takes no password ignores one.
Given(kind, pw, key) ==
    /\ pw \in Secrets(kind)
    /\ key => kind = "snowflake" /\ pw = None
    /\ kind = "snowflake" => key \/ pw # None

KeptEntry(kind, pw) == IF kind \in NoPassword THEN None ELSE pw

\* The URL as it is written: the password stays in it unless the keychain has it.
StoredUrl(pw, stored) == IF stored THEN None ELSE pw

Connect(id, kind, pw, key, alias) ==
    /\ step = "idle" /\ Given(kind, pw, key)
    /\ command' = [name |-> "connect", id |-> id, password |-> KeptEntry(kind, pw)]
    /\ config' = [storage |-> "url", url |-> KeptEntry(kind, pw), alias |-> alias, docs |-> {}]
    /\ signs' = key
    /\ StepTo("test")
    /\ UNCHANGED <<root, entries, keychain, open, edited, hopes>>

\* The connection is tried before anything is kept.
TestConnection ==
    /\ step = "test"
    /\ \/ StepTo("password") /\ UNCHANGED <<command, config, signs, edited>>
       \/ Finished
    /\ UNCHANGED <<root, entries, keychain, open, hopes>>

Hope(id, pw) == hopes' = [hopes EXCEPT ![id] = @ \cup {pw}]

SavePassword ==
    /\ step = "password"
    /\ LET id == command.id
           pw == command.password
           stored == pw # None /\ open IN
       /\ keychain' = IF stored THEN [keychain EXCEPT ![id] = pw] ELSE keychain
       /\ config' = [config EXCEPT !.storage = IF stored THEN "keychain" ELSE "url",
                                   !.url = StoredUrl(pw, stored)]
       /\ Hope(id, pw)
    /\ StepTo("previous")
    /\ UNCHANGED <<root, entries, open, command, signs, edited>>

\* What is not a connection setting carries over from the entry before.
Carried(e) == IF e = NoEntry THEN {} ELSE e.docs

LoadPrevious ==
    /\ step = "previous"
    /\ IF ReadLeniently
       THEN /\ config' = [config EXCEPT !.docs = Carried(Entries[command.id])]
            /\ StepTo(IF signs THEN "key" ELSE "save")
            /\ UNCHANGED <<command, signs, edited>>
       ELSE Finished
    /\ UNCHANGED <<root, entries, keychain, open, hopes>>

\* The private key goes to the keychain (KeychainKey); refused, its path is recorded, unless
\* its passphrase was typed and has nowhere to be kept.
SaveKey ==
    /\ step = "key"
    /\ \/ StepTo("save") /\ UNCHANGED <<command, config, signs, edited>>
       \/ ~open /\ Finished
    /\ UNCHANGED <<root, entries, keychain, open, hopes>>

---------------------------------------------------------------------------
(* The other commands read an entry, change it and write it back. *)

Known(id) == Readable /\ Entries[id] # NoEntry

SetAlias(id, name) ==
    /\ step = "idle" /\ Known(id)
    /\ command' = [name |-> "alias", id |-> id, password |-> None]
    /\ config' = [Entries[id] EXCEPT !.alias = name]
    /\ StepTo("save")
    /\ UNCHANGED <<root, entries, keychain, open, signs, edited, hopes>>

AgentDocs(id, docs) ==
    /\ step = "idle" /\ Known(id)
    /\ command' = [name |-> "docs", id |-> id, password |-> None]
    /\ config' = [Entries[id] EXCEPT !.docs = docs]
    /\ StepTo("save")
    /\ UNCHANGED <<root, entries, keychain, open, signs, edited, hopes>>

\* update-password: the keychain, then the entry if it did not say so yet.  A URL
\* that does not parse keeps the old password in the file, with a warning.
UpdatePassword(id, pw, parses) ==
    /\ step = "idle" /\ Known(id) /\ open
    /\ keychain' = [keychain EXCEPT ![id] = pw]
    /\ LET e == Entries[id] IN
       IF e.storage = "keychain"
       THEN Finished /\ hopes' = [hopes EXCEPT ![id] = {pw}]
       ELSE /\ command' = [name |-> "rotate", id |-> id, password |-> pw]
            /\ config' = [e EXCEPT !.storage = "keychain", !.url = IF parses THEN None ELSE @]
            /\ StepTo("save")
            /\ Hope(id, pw)
            /\ UNCHANGED <<signs, edited>>
    /\ UNCHANGED <<root, entries, open>>

Save ==
    /\ step = "save"
    /\ IF ReadForUpdate
       THEN /\ SaveEntry(command.id, config)
            /\ hopes' = IF command.name \in {"connect", "rotate"}
                        THEN [hopes EXCEPT ![command.id] = {command.password}] ELSE hopes
       ELSE UNCHANGED <<root, entries, hopes>>
    /\ Finished
    /\ UNCHANGED <<keychain, open>>

CommandKilled ==
    /\ step # "idle"
    /\ Finished
    /\ UNCHANGED <<root, entries, keychain, open, hopes>>

\* The command has read the entry it will write back.
HasRead == step \in {"key", "save"}

\* The keychain locks and unlocks; an operator breaks and mends the file.
Surroundings ==
    /\ \/ open' = ~open /\ UNCHANGED <<root, edited>>
       \/ /\ root' \in {"mapping", "other", "broken"} \ {root}
          /\ edited' = (edited \/ HasRead)
          /\ UNCHANGED open
    /\ UNCHANGED <<entries, keychain, step, command, config, signs, hopes>>

\* An operator edits what is no connection setting, or takes an entry out.
Rewritten(id, e) ==
    /\ entries[id] # NoEntry
    /\ entries' = [entries EXCEPT ![id] = e]
    /\ edited' = (edited \/ (HasRead /\ command.id = id))
    /\ UNCHANGED <<root, keychain, open, step, command, config, signs, hopes>>

HandEdit(id, alias, docs) == Rewritten(id, [entries[id] EXCEPT !.alias = alias, !.docs = docs])
TakeOut(id) == Rewritten(id, NoEntry)

FileNext ==
    \/ \E id \in Ids, k \in Kinds, pw \in Passwords \cup {None}, key \in BOOLEAN, a \in Names \cup {None} :
          Connect(id, k, pw, key, a)
    \/ TestConnection \/ SavePassword \/ LoadPrevious \/ SaveKey \/ Save \/ CommandKilled \/ Surroundings
    \/ \E id \in Ids, a \in Names \cup {None}, docs \in SUBSET DocumentSources : HandEdit(id, a, docs)
    \/ \E id \in Ids : TakeOut(id)
    \/ \E name \in Ids \cup Names : \E id \in ResolveAlias(name) :
          \/ \E n \in Names : SetAlias(id, n)
          \/ \E docs \in SUBSET DocumentSources : AgentDocs(id, docs)
          \/ \E pw \in Passwords, parses \in BOOLEAN : UpdatePassword(id, pw, parses)

FileSpec == FileInit /\ [][FileNext]_fileVars

\* _load_password, of the entry that is read.
Loaded(id, e) == IF e.storage = "keychain" THEN keychain[id] ELSE e.url

\* SAFETY. Wherever a command stops, a registered connector signs in with the
\* password it was last registered with, or with one that a command since then
\* was given and did not finish: never with one nobody gave, and never without
\* one it was given (connect and update-password store in the keychain before
\* the file says so, and strip the URL only then).
PasswordReachable ==
    \A id \in Ids : entries[id] # NoEntry => Loaded(id, entries[id]) \in hopes[id]

\* ACTION. What a command writes leaves every other connector as the file has
\* it by then, whatever was edited since the command read it and whatever the
\* file has become; and of its own connector it keeps the document sources,
\* which only agent docs changes, unless they were edited after it read them
\* (_save_connector, which reads the file again; load_connectors_for_update's
\* refusal; connect's carrying over).
EntriesSurvive ==
    [][step' # step =>
          \A id \in Ids : entries[id] # NoEntry /\ entries'[id] # entries[id] =>
              /\ command.id = id /\ entries'[id] # NoEntry
              /\ entries'[id].docs # entries[id].docs => command.name = "docs" \/ edited]_fileVars
=============================================================================
