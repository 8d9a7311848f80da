----------------------------- MODULE MCOperator -----------------------------
(***************************************************************************)
(* An instance for TLC of the components that operators' commands and the  *)
(* services beside a question go through: keys, files, stores, imports and *)
(* the audit log.  None reads another's variables; focus says which one of *)
(* Foci moves, and the others stay where an initial state puts them.       *)
(***************************************************************************)
EXTENDS Upkeep, TLC

CONSTANTS Foci, c1, s1, s2, query, listing, t1

VARIABLE focus

\* Texts that fit beside others, fill a body, fill the characters, or exceed either.
Chunk(chars, bytes) == [chars |-> chars, bytes |-> bytes]
MCTexts == {Chunk(1, 1), Chunk(1, 6), Chunk(3, 3), Chunk(5, 5), Chunk(2, 12)}
MCBatchInputs == UNION {[1..n -> MCTexts] : n \in 0..4}

\* Versions of a source: more than a batch of chunks, then more, none, and few.
MCLengths == <<3, 5, 0, 2>>

\* A table that dbt documents in its schema and in none, and one of its name elsewhere.
Slot(schema, table, column) == [schema |-> schema, name |-> table, column |-> column]
MCKbSlots == {Slot("raw", "orders", ""), Slot("mart", "orders", ""), Slot("raw", "users", "city")}
MCModels == {[schema |-> "raw", name |-> "orders"], [schema |-> "dev", name |-> "users"],
             [schema |-> "raw", name |-> "users"]}
MCSchemas == <<"dev", "mart", "raw">>

\* Two spellings of one statement, another of their cluster, a write, a catalog query.
Logged(norm, shape, body, class, generalized) ==
    [norm |-> norm, print |-> shape, body |-> body, kind |-> class, templates |-> generalized]
MCStatements ==
    {Logged("a1", "a", "A", "select", TRUE), Logged("a2", "a", "A", "select", TRUE),
     Logged("b", "b", "A", "select", TRUE), Logged("w", "w", "W", "select", FALSE),
     Logged("s", "s", "S", "system", TRUE)}

\* Bound: the passwords, aliases and keychain are c1's.  The other connectors are there to be
\* kept: they are registered without a password, have document sources, and are edited.  An
\* alias is only given by alias.
Plain(e) == e.storage # "keychain" /\ e.url = None /\ e.alias = None
MCFileStep ==
    /\ \A id \in Ids \ {c1} : Plain(entries'[id])
    /\ command'.id # c1 => Plain(config') /\ command'.password = None
    /\ command'.name = "connect" => config'.alias = None
    /\ entries'[c1].alias # entries[c1].alias => step = "save" \/ entries'[c1] = NoEntry

\* Two statements that a promoter can know, each of a table of its own.
MCPairStatements == {[text |-> "one", sound |-> TRUE, tables |-> {"t"}],
                     [text |-> "two", sound |-> TRUE, tables |-> {"u"}]}

\* s1 may query t1, but not list.
MCGrants == (s1 :> {[actions |-> {query}, agents |-> {t1}]})
         @@ (s2 :> {[actions |-> {query, listing}, agents |-> {t1}]})
MCAgentless == {listing}

\* Bound: s1 makes every call there is, s2 the one it is granted on an agent, and as many
\* as its limit: enough for a window that s1's calls sweep out.
MCCallStep ==
    /\ \A k \in Calls : call'[k] # NoCall => call'[k].subject = s1 \/ call'[k].agent = t1
    /\ Len(passed'[s2]) <= RateLimit

\* The calls, the verifying threads and the passwords are alike.
Symmetry == Permutations(Calls) \cup Permutations(Verifiers) \cup Permutations(Passwords)

\* The initial state of a component that is not in focus, where it has several.
Park(component, state) == IF focus = component THEN TRUE ELSE state
Parked ==
    /\ published \in SUBSET Kids \ {{}} /\ Park("jwks", published = Kids)
    /\ Park("keys", /\ links = TRUE /\ writable = TRUE /\ configured = "none"
                    /\ cipherFile = NoFileKey /\ signFile = NoFileKey)
    /\ Park("batch", batch = <<>>)
    /\ Park("wiki", space = {} /\ paging = "cursor" /\ totals = TRUE)
    /\ Park("documents", legacy = FALSE)
    /\ Park("kb", kb = <<>>)
    /\ Park("pairs", verified = {})
    /\ Park("schema", database = CHOOSE d \in Databases : TRUE)
    /\ Park("index", made = FALSE)

MCInit ==
    /\ focus \in Foci
    /\ Parked
    /\ JwksInit /\ KeyInit /\ FileInit /\ ChainInit /\ ProcessInit /\ BatchInit /\ ReadInit
    /\ DocInit /\ KbInit /\ HistoryInit /\ PairInit /\ SchemaInit /\ IndexInit /\ AuditInit /\ Init

MCNext ==
    /\ UNCHANGED focus
    /\ \/ /\ focus = "jwks" /\ JwksNext
          /\ UNCHANGED <<keyVars, fileVars, chainVars, processVars, batchVars, readVars,
                         docVars, kbVars, historyVars, pairVars, schemaVars, indexVars,
                         auditVars, vars>>
       \/ /\ focus = "keys" /\ KeyNext
          /\ UNCHANGED <<jwkVars, fileVars, chainVars, processVars, batchVars, readVars,
                         docVars, kbVars, historyVars, pairVars, schemaVars, indexVars,
                         auditVars, vars>>
       \/ /\ focus = "connectors" /\ FileNext /\ MCFileStep
          /\ UNCHANGED <<jwkVars, keyVars, chainVars, processVars, batchVars, readVars,
                         docVars, kbVars, historyVars, pairVars, schemaVars, indexVars,
                         auditVars, vars>>
       \/ /\ focus = "keychain" /\ ChainNext
          /\ UNCHANGED <<jwkVars, keyVars, fileVars, processVars, batchVars, readVars,
                         docVars, kbVars, historyVars, pairVars, schemaVars, indexVars,
                         auditVars, vars>>
       \/ /\ focus = "process" /\ ProcessNext
          /\ UNCHANGED <<jwkVars, keyVars, fileVars, chainVars, batchVars, readVars,
                         docVars, kbVars, historyVars, pairVars, schemaVars, indexVars,
                         auditVars, vars>>
       \/ /\ focus = "batch" /\ BatchNext
          /\ UNCHANGED <<jwkVars, keyVars, fileVars, chainVars, processVars, readVars,
                         docVars, kbVars, historyVars, pairVars, schemaVars, indexVars,
                         auditVars, vars>>
       \/ /\ focus = "wiki" /\ ReadNext
          /\ UNCHANGED <<jwkVars, keyVars, fileVars, chainVars, processVars, batchVars,
                         docVars, kbVars, historyVars, pairVars, schemaVars, indexVars,
                         auditVars, vars>>
       \/ /\ focus = "documents" /\ DocNext
          /\ UNCHANGED <<jwkVars, keyVars, fileVars, chainVars, processVars, batchVars,
                         readVars, kbVars, historyVars, pairVars, schemaVars, indexVars,
                         auditVars, vars>>
       \/ /\ focus = "kb" /\ KbNext
          /\ UNCHANGED <<jwkVars, keyVars, fileVars, chainVars, processVars, batchVars,
                         readVars, docVars, historyVars, pairVars, schemaVars, indexVars,
                         auditVars, vars>>
       \/ /\ focus = "history" /\ HistoryNext
          /\ UNCHANGED <<jwkVars, keyVars, fileVars, chainVars, processVars, batchVars,
                         readVars, docVars, kbVars, pairVars, schemaVars, indexVars,
                         auditVars, vars>>
       \/ /\ focus = "pairs" /\ PairNext
          /\ UNCHANGED <<jwkVars, keyVars, fileVars, chainVars, processVars, batchVars,
                         readVars, docVars, kbVars, historyVars, schemaVars, indexVars,
                         auditVars, vars>>
       \/ /\ focus = "schema" /\ SchemaNext
          /\ UNCHANGED <<jwkVars, keyVars, fileVars, chainVars, processVars, batchVars,
                         readVars, docVars, kbVars, historyVars, pairVars, indexVars,
                         auditVars, vars>>
       \/ /\ focus = "index" /\ IndexNext
          /\ UNCHANGED <<jwkVars, keyVars, fileVars, chainVars, processVars, batchVars,
                         readVars, docVars, kbVars, historyVars, pairVars, schemaVars,
                         auditVars, vars>>
       \/ /\ focus = "audit" /\ AuditNext
          /\ UNCHANGED <<jwkVars, keyVars, fileVars, chainVars, processVars, batchVars,
                         readVars, docVars, kbVars, historyVars, pairVars, schemaVars,
                         indexVars, vars>>
       \/ /\ focus = "admission" /\ Next /\ MCCallStep
          /\ UNCHANGED <<jwkVars, keyVars, fileVars, chainVars, processVars, batchVars,
                         readVars, docVars, kbVars, historyVars, pairVars, schemaVars,
                         indexVars, auditVars>>

MCVars == <<focus, jwkVars, keyVars, fileVars, chainVars, processVars, batchVars, readVars,
            docVars, kbVars, historyVars, pairVars, schemaVars, indexVars, auditVars, vars>>

MCSpec == MCInit /\ [][MCNext]_MCVars
=============================================================================
