# A TLA+ model of nlqueries

nlqueries answers questions asked in natural language. A turn routes the
question to an agent, looks it up in a semantic cache, has a language model write
SQL (or reads documents), validates and repairs the statement, runs it through a
pooled database connector, looks twice at the rows, and stores what was learnt.
An MCP server exposes this to remote clients behind an OIDC verifier, an
authorizer and an admission control. Most of the code is sequential Python in
worker threads (`asyncio.to_thread`) of one process; several processes share a
vector store, a configuration directory and a key file.

This directory holds TLA+ modules for the parts whose correctness depends on
order: what is checked by TLC, what is proved by TLAPS, and what is left out.

* [Inventory](#inventory): the parts, their state, their hard behaviours
* [Modules](#modules): what each module says, and how it corresponds to the code
* [Runs](#runs): what each run checks, its bounds, and why they are enough
* [Fairness](#fairness), [Proofs](#proofs), [Findings](#findings)
* [Not modelled](#not-modelled), [Plan](#plan)

Paths are relative to `nlqueries/` in the repository.

## Inventory

### Connector pool: `connectors/loader.py`, `connectors/base.py`

*State.* `_cache`, an `OrderedDict` of connector id to connector, fingerprint and
time, under `_cache_lock`; in every connector the use state (`count`, `closing`,
`deferred`) under a lock of its own, and the session it holds; in every
per-request `PermittedConnector` the connector it wraps and the id it is pinned
to. Outside: the connectors file and the stored passwords.

*Operations.* `open_connector_for_agent`, `reopen_connector`, `_cache_get`,
`_cache_put`, `invalidate_connector_cache`, `in_use`, `close`, `_release`,
`PermittedConnector._active`.

*Hard.* Any number of threads open, evict, invalidate and query at once;
everything popped under the cache lock is closed outside it; a session must not
be closed under a running statement nor left open for good; the file, the password
and the cache are read at three different times.

*Correct when* a running statement keeps its session; a session asked to close
is closed once the last statement has left; every session has one owner; the
order and the bound of the pool hold; a rotation reaches the next open; a wrapper
keeps to its database; a degraded resolution serves one request only.

### Admission and authorization: `auth/admission.py`, `enforcement.py`, `authorizer.py`

*State.* A rate window per subject, a number of calls in flight per subject,
under one lock; the grants, fixed.

*Operations.* `guard` (decide, admit, run, release), `acquire`, `release`,
`_evict_expired`, `authorize`.

*Hard.* A slot must come back on every way out and only where one was taken; one
subject's rollover sweeps the windows of all; a burst at both sides of a boundary.

*Correct when* slots are running calls; at most twice the limit passes within a
window's length; nobody is refused but for calls of its own; a tool runs by one
grant that covers both its action and its agent.

### SQL turn: `orchestrator/orchestrator.py`, `sql_generation.py`, `plan_check.py`, `grain_check.py`, `result_checks.py`

*State.* Of one turn: the statement in hand and whether it is valid, the
ambiguities collected, the budget, the last result, the frame to send.

*Operations.* Generation and its repairs, literal grounding, the grain check, the
plan check and its rewrite, the run, one correction after an error, one second
look at doubtful rows; each may ask the model, which takes unbounded time, and
each may raise. The caller may stop waiting at any moment.

*Hard.* Five places replace the statement; each must validate again, keep the
frame about one run, and fit into what is left of the caller's deadline; a
statement left behind by a cancelled turn runs on in its thread.

*Correct when* only valid statements reach the database; the SQL shown is the SQL
behind the rows; rows once received are not lost; nothing starts too late; a value
the user is to choose is not guessed.

### Semantic cache: `cache/semantic_cache.py`, `cache/envelope.py`

*State.* A collection per agent in the vector store, shared by processes: points
of answers and of templates, signed for the binding (agent, connector, dialect,
knowledge base, policy, settings) they were made under. In each process the memory
of which collections exist and of which do not, and when it last swept.

*Operations.* `get` (the point of the question's own id, the nearest answers, the
templates of the masked question), `put`, `invalidate`, `_prune_expired`.

*Hard.* Lookups and writes run in threads of several processes; what a call found is
remembered after it; invalidation forgets, deletes and forgets again while others
create and fill; the binding is computed long before the entry is written.

*Correct when* an answer is replayed only under the binding it was produced under,
and not beyond its time; what a process has stored it finds again; a sweep takes
only what nobody would be served.

### Turn orchestration: `orchestrator/multi_agent_orchestrator.py`, `sync_runner.py`

*State.* The set of background tasks, one for the process; of one turn, what its
agents ended with and the final frame. *Operations.* Follow-up resolution, routing,
cache lookup, the SQL, document or hybrid turn, the merge, the write scheduled after
the answer, `drain_background_tasks`, `run_query_sync`, the reading of the frame.
*Hard.* The two sides of a hybrid turn run together and either may raise or ask; the
set of tasks is shared by threads with event loops of their own; a loop that ends
cancels its tasks. *Correct when* values the user must choose come before any rows,
a returned `run_query_sync` has stored its answer, and an answer found is not lost.

### Prompt and model: `orchestrator/prompt_assembly.py`, `llm/`, `config.py`

*State.* The examples found; per context, whether the last reply was cut off; the
settings, resolved once. *Operations.* The searches for pairs and capsules, one after
the other or together; a model's blocking and streamed calls, retries, the charge for
a reply; the choice of client, provider and model. *Hard.* Any batch of an embedder
may fail; a flag in a context outlives the call that set it; provider, base URL, key
and override may contradict each other. *Correct when* only this agent's signed
examples are shown, a caller reads its own call's flag, and a prompt is sent only to
the provider that was configured.

### Lookup session of literal grounding: `orchestrator/literal_grounding.py`

*State.* A lazily opened connector, a budget, daemon threads, a memory of outcomes.
*Operations.* Look up, abandon, close. *Hard.* A lookup that outlives its budget goes
on in its thread and may open a connector after the session was closed. *Correct when*
nothing is closed under a lookup, the connector is released in the end, and an outcome
is served under the row filter it was computed under.

### Database connectors: `connectors/*.py`

*State.* A session kept for the connector's life, or one per call; a lock or none; the
transaction a statement opens; a timer. *Operations.* `execute_query`,
`extract_schema`, `extract_query_history`, `connection_problem`. *Hard.* Two threads on
one session; a rollback that fails; a timer that fires late; DDL that the database
commits by itself; a dialect without a statement timeout; a statement refused inside a
transaction. *Correct when* nothing a statement writes is committed but what the database
itself commits around, every call that anything can stop returns, and one refused
statement does not cost the next.

### Verifier and signing keys: `auth/oidc_token.py`, `mcp_verifier.py`

*State.* The cached key set and when it was fetched and last forced. *Operations.*
`_get_keys`, `_refresh_for_unknown_kid`, the verification of a token. *Hard.* Many
threads find the keys stale at once; a provider that is down; rotation. *Correct
when* a withdrawn key expires, a new one is picked up, and the provider is asked no
more often than the interval allows.

### Keys and private files: `at_rest.py`, `cache/envelope.py`, `cli/main.py`, `connectors/snowflake_keys.py`

*State.* Two key files; `connectors.yaml`; the OS keychain. *Operations.* Generate or
read a key, seal, sign; `connect`, `update-password`, `set-alias`,
`configure-agent-docs`; store a private key in parts and read it back. *Hard.* Two
processes generate at once; a command is killed between the keychain and the file, or
the keychain locks; a reader comes between two parts. *Correct when* what was sealed
opens, a password is where its entry says, a key in use is whole, and other entries
survive.

### Vector store and documents: `embeddings/qdrant_store.py`, `document_connectors/`

*State.* Collections of points, on a server; which fields this process indexed; a
parser in a child process. *Operations.* `ensure_collection`, deletion, upserts,
`replace_chunks`; the reading of a space; the parsing of one file under limits. *Hard.*
Creation and deletion race; a replacement fails half way; the space changes under the
read; four clocks may end a parser. *Correct when* the store holds what the command
said, a space is read whole or refused, and a parser that ended has ended.

### Embedding service: `embeddings/embedder.py`, `embed_server.py`

*State.* In the daemon a gate, a pool of encode threads and a queue; in the client the
memory of what the daemon is; a PID file. *Operations.* Accept or refuse a request,
encode, give up, shut down; ask the daemon, fall back or raise; start, stop, status.
*Hard.* A request that gives up while its job is queued, taken or done; threads that do
not start; a daemon replaced by another; a PID file that outlives its process. *Correct
when* nothing is encoded for a request that has gone, every request is answered, slots
come back, and a daemon that serves the right model is used again.

### What operators' commands keep: `knowledge/`, `processing/`, `feedback/`, `audit.py`

*State.* The knowledge base file, the stored capsules, the feedback log and the
verified pairs, the audit file. *Operations.* `export-kb`, `import-dbt`,
`process-history`, `submit_feedback`, `promote-feedback`, pruning, appending an event.
*Hard.* A person edits between two runs; stores and files fail one at a time; an upsert
may be carried out and reported failed; several processes append to one file. *Correct
when* a person's text is kept, a pair has somebody who vouched for it, executions are
counted once, and a lost event is known to be lost.

### The other parts

The SQL policy (`sql_policy.py`: a predicate over a parsed statement), the document
parsers, login identity, the analytics of the knowledge base, the verbalizer. Each is
listed with what is done about it in `PROJECT.json`, under `components`.

### How they interact

```
client -> MCP server -> guard (Admission) -> turn orchestration
                                              |-> semantic cache -> vector store
                                              |-> SQL turn -> lookup session -+
                                              |      |-> language model       v
                                              |      '-> connector pool -> database
                                              '-> document retrieval -> vector store
```

Calls go down; nothing calls back. What is shared between requests is the pool,
the admission maps, the key set, the vector store and the process's memories of
it. The pool is used from worker threads, so its locks are real; the admission
control and the orchestration run on the event loop, but the admission lock is
taken nevertheless, and one action of the model is what happens under it.

## Modules

| module | models |
| --- | --- |
| `ConnectorPool` | the pool, the wrapper and the use count, in full |
| `SessionLease` | what the pool promises of a session: the abstract specification |
| `Admission` | `guard`, the admission control, the grants |
| `McpServing` | how the server may start, who a caller is, one tool call and its audit event |
| `SqlTurn` | one SQL turn, from generation to the frame |
| `StreamedSql` | the splitting of a streamed reply into what is shown and the statement |
| `LookupSession` | the lookups of literal grounding, their threads and their memory |
| `AgentTurn` | one question: routes, sub-agents, frame, cache write, `run_query_sync` |
| `ExampleSearch` | the examples of a prompt |
| `LlmCalls`, `LlmRouting` | calls of the model clients; which client, model and endpoint |
| `SemanticCache` | the cache of one agent and the turns that use it |
| `ConnectorQuery`, `SchemaRead` | `execute_query` of eight connectors, in twelve designs; their schema, history and probe |
| `EmbedServer`, `EmbedWire`, `EmbedBatch` | the daemon's threads; what it accepts; a batch cut into requests |
| `EmbedClient`, `EmbedProcess` | the client's memory and fallback; start, stop and status |
| `JwksKeys`, `KeyFiles` | the provider's keys; the two key files |
| `ConnectorsFile`, `KeychainKey` | `connectors.yaml` and passwords; a private key in parts |
| `DocumentStore`, `ConfluenceRead`, `ParseChild` | a source's chunks; a space read whole; a parser in a process |
| `CollectionIndexes` | payload indexes and what a process remembers of them |
| `KnowledgeBase`, `QueryHistory`, `VerifiedPairs` | descriptions; capsules; feedback and pairs |
| `AuditLog` | the file several processes append to |
| `Question`, `Upkeep` | what the components of a question, and of the upkeep, promise together |
| `MC*` | sets and settings for the runs |

The theorems are in modules of their own: `ConnectorPoolProofs`, `SemanticCacheProofs`;
`ReplyProofs` (`LlmCalls`, `LlmRouting`, `StreamedSql`), `TurnProofs` (`SqlTurn`,
`AgentTurn`, `McpServing`, `ExampleSearch`, `Question`), `WaitingProofs` (`LookupSession`,
`EmbedServer`, `EmbedClient`, `ParseChild`, `ConnectorQuery`, and what `MCLive` conjoins),
`AccessProofs` (`KeyFiles`, `ConnectorsFile`, `KeychainKey`, `JwksKeys`, `Admission`) and
`StoresProofs` (`CollectionIndexes`, `DocumentStore`, `VerifiedPairs`, `EmbedProcess`,
`SchemaRead`, `KnowledgeBase`, `AuditLog`, `QueryHistory`, `ConfluenceRead`, `EmbedBatch`,
`Upkeep`). `FoldLemmas` holds what they share about recursion: folds, sums, ranks.

`MCTurn`, `MCLive` and `MCOperator` each hold several components that share no
variable: a constant set `Foci` names those to explore, `focus` is chosen in the
initial state, and only the component in focus moves, the others staying in one of
their initial states (`Parked`). The states are the sum of the components' states, not
their product. To explore one alone, give `Foci` that one value. Properties that
belong together are conjoined under one name (`NothingLost` in `Question`,
`SecretsRecoverable` in `Upkeep`, ...), whose comment says what its parts are.

A definition named after a defect (`LeavesFirst`, `KeptNone`, ...) with a comment
that begins "Mutant of" is a plausible mistake in the code, listed in
`PROJECT.json`: put in place of the definition it is a mutant of, it breaks the
property named there. No specification uses it.

### ConnectorPool

A thread is a request or a caller of `invalidate_connector_cache`. `pc` says
where it is between two locks:

| `pc` | the code |
| --- | --- |
| `lookup` | fingerprint computed, before `_cache_get` |
| `drop` | `_cache_get` popped a stale entry, to be disposed outside the lock |
| `build` | before `credentials_for` and `connect` |
| `put`, `evict` | before `_cache_put`; disposing what it replaced |
| `ready` | the request has its wrapper |
| `enter`, `reread` | `_active` before `in_use`; `_reopen` before it reads the file |
| `running`, `leave` | inside `in_use`; releasing what was deferred |
| `sweep` | `invalidate_connector_cache` disposing what it popped |

`OpenRead` reads the file and the fingerprint; `CacheHit`, `CacheMiss` and
`CacheStale` are the three ways through `_cache_get`; `Build` reads the password,
later, and connects; `CachePut` stores and pops. `todo` is what a thread has popped
and must still close. `CloseDeferred` and `CloseNow` are `close` under the use
lock; `Release` is `_release`, which runs outside it, so a thread that has decided
to release holds the connector as `victim`. `EnterUse`, `EnterReopens` and
`EnterRaises` are the three outcomes of an attempt in `_active`; `Leave` is the end
of `in_use`.

A password, the entry of the file and the fingerprint of both are one number per
id, the version last stored (`cred`), so that "as fresh as" can be said. The file
and the keyring are one read in `OpenRead` and another in `Build`. The build of a
fingerprint reads the entry before the password; a rotation between the two is a
rotation between `OpenRead` and `Build` for every property here. `Age` stands for
the clock: it makes an entry older than the TTL.

`_active` says of itself that it recovers "exactly once"; the code tries
`_REOPEN_ATTEMPTS` (3) times, and the model follows the code.

### SessionLease

For each connector with a raw handle: absent, open, retired, closed, and the set of
its users. A statement starts only on an open session; a session is retired while
it may still be in use; it closes only without users. `ConnectorPool` implements it
under the mapping `LeaseState`, `LeaseUsers`.

### Admission

`pc` of a call: `idle`, `decide` (in `_decide`), `admit` (before `acquire`), `body`.
`DecideRefuses`/`DecideAllows` are `_decide`; `RefuseRate`, `RefuseBusy` and `Admit`
the three ways out of `acquire` (a call refused for concurrency has been charged to
its rate window, as the code says); `Finish` is `guard`'s `finally`, for a tool
that answers, raises, times out or is cancelled. `passed` is a history: when each
call that the rate limit let through was made.

### SqlTurn

`pc` names what the coroutine waits for: `generate`; the loop of
`validate_and_repair` (`repair`, `mend`, `ground`, `reground`, `literal`); `grain`
and `askGrain`; `clear`, `open`; `plan`, `explain`, `askPlan`, `explainDraft`;
`start`, `running`; `askFix`, `refixing`; `look`, `askLook`, `relooking`; and the
ends `done`, `failed` and `gone` (the caller left). A statement is one of a few
values, valid or not, with or without an ambiguous value; what the model writes, what
the database answers and what a check thinks of the rows are arbitrary. Rows are
a set: "keeps every row" is set inclusion.

Time passes between any two steps, so a model call or a statement takes any
time. A statement never outlives its own timeout. The unit is
`_MIN_CORRECTION_SECONDS`.

Computing a clamped timeout and the start of the worker thread that uses it are one
step. Self-consistency candidates are one choice of the generated statement; the
streaming of tokens, provenance and spans are left out. `result.attempts` is
`attempt_count`: the code counts every rewrite, so it reaches six where its docstring says
three (`AttemptsAtMostThree`, among the [refuted claims](#claims-the-models-also-refute)).

### SemanticCache

`pc` of a turn: `idle`; the lookup (`memory`, `forget`, `list`, `present` and
`absent` in `_collection_exists`, `exact`, `search` and `template` for the three
tiers); `served` (a hit, to be replayed); `generate`, or `alone` for a turn that does
not use the cache; `drain`, `gather` and `stop` in `run_query_sync`; `raised`. A
caller in `Turns` has one turn after another. `write` is where the background write
of its answer is: `queued`, `create` (in `ensure_collection`), `mark` (before the
memories are updated and the entry is signed), `upsert`, `prune`, `ended` (the task's
done callback is to come). A clearer is between forgetting the collection and
deleting it, or at rest.

One action is one call of the vector store, or what a thread does between two of
them. Every call may fail, and a call that writes may fail after it was carried out.
What a failure does is the code's: tier 0 suppresses it, tiers 1 and 2 and an
exception out of `get` are a miss, a failed write is dropped, a failed sweep counts
as done.

A version stands for what the binding hashes: the knowledge base and the connector
entry. `Change` puts another in force, possibly an old one. An entry records the
binding it is signed for, the binding its turn began with (`asked`) and the version
its answer was generated from (`kb`); a lookup reads the first only. The questions
that tier 1 may take for each other are a relation (`Alike`), the masked form of a
question a function (`ShapeOf`); that tier 1 confirms a candidate, or that a template's
values can be bound, is a choice.

`wrote` and `promised` are history: has the process written since it last
invalidated, and which answer waited for a lookup when it began.

### StreamedSql

The loop of `Orchestrator.handle_question` over the tokens of a reply. A reply is a
sequence of symbols and arrives in tokens that end anywhere, also inside a tag; `Hold`
is how many characters are held back because they may begin one.

### LookupSession

One `_Session` per call of `ground_literals`. `coPc` is where the coroutine is,
`thread` what its one call on a thread does; the call is abandoned at the deadline and
goes on. `running` and `isClosed` are the session's own fields: `close` closes the
connector if no thread runs, else the last thread does. `key` is the source's key, read
when the source was made, and `entry` what `connectors.yaml` names now. An outcome is
what it was computed from, so that a stale or foreign one can be told.

### AgentTurn

`turnPc` follows `handle_question` and `run_query_sync`. What the SQL agent ends with is
the last frame of `SqlTurn` as seen from outside (`sqlEnd`); for a hybrid answer both
agents go on until both have ended. `task` is the background write, and `frame` the
final chunk, from which `Parse` reads `agentResult` as `_parse_final_chunk` does.

### ExampleSearch

A stored point is one of a few kinds: signed for this agent and near the question by
its own text, unsigned, repointed (its text is not what its vector says) or too far.
The two paths are `_build_dynamic_context` and its asynchronous form.

### LlmCalls, LlmRouting

`LlmCalls`: two tasks call either client, blocking or streamed; `cutOff` is the context
variable, one per task, which outlives the call. `LlmRouting` has no steps to speak of:
the environment and an override are inputs, `config.py`'s resolution and
`get_llm_client` are its one action. The base URL of Anthropic is part of `base`.

### McpServing

`Start` is `main` with its refusals, for every transport, host and way to
authenticate; `Call` one tool call, from the principal to the answer and the event.

### ConnectorQuery

A connector is a record: where a statement runs (the one session or its own), what it
waits for, the transaction it opens, how it ends, what its database does with DDL, and who
stops a statement that outlasts its budget. There are twelve records. Seven are read off
one connector's `_execute_query` each; the other five are the generic SQLAlchemy
connector, which sets a read-only mode and a timeout only where it knows the dialect:
PostgreSQL and Redshift, MariaDB, MySQL (whose timeout stops a SELECT only), Oracle (no
timeout, and a second attempt after ORA-01466) and any other (neither).

A statement may write although it reads like a SELECT, or be a CREATE or DROP (`alters`).
The first goes into the open transaction, if that is not read-only; the second does where
DDL joins the transaction, and else ends what is open, read-only or not, commits it and
stands (`CommitsAround`): Snowflake, MySQL, MariaDB, Oracle, and for safety's sake any
dialect nobody named. `written` is what was committed and `altered` which schema changes
stood. Two calls overlap.

### SchemaRead

For each connector a plan: the statements of `extract_schema` and of
`extract_query_history` in order, on one session that may be clean, in a transaction,
aborted or gone, with what may be omitted and what is read instead.

### EmbedServer, EmbedWire, EmbedBatch, EmbedClient, EmbedProcess

`EmbedWire` holds the limits both sides share; a text is its length in characters and
in bytes. `EmbedServer` is `do_POST`, the gate and the pool: a request waits for a
slot, submits, waits for the future and may give up. Threads are started as work
arrives and may fail to start; shutdown puts a poison for each. `EmbedBatch` sends the
parts of one batch through those checks. `EmbedClient` has the module's globals, shared
by its threads without a lock, against a daemon that stops, comes back and changes
model. `EmbedProcess` is the PID file, between `serve` and the three commands, with
`start --foreground` and `python -m` beside them. `opened` says which daemons have this
very file open: what they write after it was unlinked is in no file. `raced` is history: a
command read the file before a daemon had written its PID, or one was run by hand where
another was up or a command under way, and some daemon has been up ever since.

### JwksKeys, KeyFiles

Times in `JwksKeys` are ages, moved by `JwksTick`; a fetch takes time, the other steps
of a thread do not, though they interleave; `asked` is history, the ages of the last
three fetches, none counted beyond an interval; at the start every key counts as published
long ago. `FetchTime` is not `http_timeout`, which httpx applies to each operation on the
network (`oidc_token.py:110`): it is a bound that whole fetches keep, and the time after
which a withdrawn key is refused is stated in terms of it. `KeyFiles` has one action per system call
of the creation of a key: link or exclusive create, write, read back; a file is a key,
whole or not. A process may crash at any of them.

### ConnectorsFile, KeychainKey

`step` is where the command is between its writes: the password to the keychain, the
previous entry, the private key, the file. `CommandKilled` may take any of them. At any
time, in the middle of a command too, `Surroundings` locks the keychain or breaks or mends
the file, `HandEdit` changes an entry's alias or document sources and `TakeOut` removes an
entry; `_save_connector` reads the file again and writes it in one step, so an edit falls
before or after. `hopes` and `edited` are history: the passwords an operator may expect to
be used, and whether the command's own entry was edited after it was read. In `KeychainKey` a key has parts under a fresh
generation and a pointer that switches last; an opening may come between, and may read
the old key without its passphrase, which then fails to open and is not used.

### DocumentStore, ConfluenceRead, ParseChild, CollectionIndexes

A chunk is its position and the version it was cut from; a command stores batches,
removes the tail and the copy under the raw id, and says how it ended (`told`). A page
of Confluence is its rank by creation. `ParseChild` has the caller and the child, the
caller's deadline, the watchdog (which needs the interpreter lock), the alarm behind it
(which does not), the CPU limit and the kernel. `CollectionIndexes` has one action per
call of `ensure_collection` and of the two deletions.

### KnowledgeBase, QueryHistory, VerifiedPairs, AuditLog

A description is its author and what it was written about, with source and date. A
statement of a history is its normalised text, fingerprint and body. A pair is a
question and a statement, plain if promotion wrote it. A line of the audit file goes
out in parts, and other processes' parts come between.

## Runs

| run | question | states |
| --- | --- | --- |
| `pool` | are sessions, credentials and databases right, whatever races? | 1.1 million |
| `pool_live` | does a session asked to close get closed, and every turn end? | 31 000 |
| `semantic_cache` | what is served, found again, stored and swept? | 2.9 million |
| `turn` | what a question may run, show, send, lose and close on its way | 703 000 |
| `live` | does whoever waits get an answer, and nothing run on? | 144 000 |
| `operator` | what keys, files, stores and admission hold, whatever fails? | 716 000 |
| `pool_retired` | is a retired credential ever queried? (violation) | - |
| `cache_drain` | does `run_query_sync` return its answer? (violation) | - |
| `sql_outlives` | does a statement stop with the tool? (violation) | - |
| `hybrid_sql` | does a hybrid result report its statement? (violation) | - |
| `duckdb_rows` | does a call return its own rows? (violation) | - |
| `confluence_whole` | does a read that returns hold the whole space? (violation) | - |

**`pool`.** Two requests, one caller of the invalidation, two ids (a raw handle and an
engine), three connector objects, a pool of one entry, one rotation, one degraded
build, one statement per request, any number of expiries, one rebinding of an agent
per request. Two requests are what it takes for one to evict, replace or share the
other's connector; a third party that closes is the caller. Three objects allow
each request one and one to be reopened; when none is left, opening is
refused as a connection that fails. A pool of one entry evicts at every second id.
`TypeOK` holds the bound on reopen attempts; `StatementKeepsSession` that nothing
closes a session under its statement; `CacheHolds` that a session open has exactly one
place or thread that will close it (`OneCustodian`), that order, entries and bound agree
(`PoolOrder`) and that a degraded build is not shared (`DegradedNotShared`);
`OpensAsAsked` that a wrapper keeps to its database and a credential is as fresh as its
fingerprint; `ImplementsLease` the refinement.

**`pool_live`.** The raw-handle id alone, under fairness: `PoolSettles`, which is
`ClosesInTheEnd` (a session asked to close is closed) and `TurnEnds`. Without rotations
and degraded builds; expiries and invalidations go on.

**`semantic_cache`.** Two callers, one driven by `run_query_sync` and one by a
server's loop, and a clearer, in one or two processes, with three turns and
invalidations between them; one question with one shape; two versions and one change
of them; one tick, with a time to live of zero and a negative memory of one. Three
operations let one turn list the collections, another create and fill the collection
and note it, and a third look up after the first has noted its late "absent"; two
processes let one delete or sweep what the other has filled. One tick is enough to be
at the limit of the time to live and past it, and to expire a memory. A second
question doubles the states and shows nothing new: the keys of an answer and of its
template are already two.

**`turn`.** `SqlTurn` with four statements (two sound, one with an ambiguous value, one
invalid), two rows, a clock to five against a deadline of four and a timeout of two,
and seven settings; two rows are enough for "fewer", "more" and "other".
`AgentTurn` with every route, override, agent's end and failure: one turn, as turns meet
only in the cache. `StreamedSql` with every reply of up to five symbols in every
division into tokens: five hold both tags and a symbol between or beside them.
`LlmCalls` with two tasks and the code's own three retries. `LlmRouting` over every
environment. `ExampleSearch` with three hits, two examples wanted and candidates of twice
that: a hit past the candidates, and one that must be skipped within them.
`McpServing` over every setup, two agents and three grant files, among them one that grants
a subject an action on one agent and another action on the other, which must not combine,
and one with wildcards. `LookupSession` with
two sessions, one of two calls, two databases and one edit, the unfiltered scope and an
undeclared one, one thread that cannot start.
`FrameIsOneRun` says the SQL shown is the SQL behind the rows; `OnlyValidRun` that only
valid statements reach the database; `ChoiceComesFirst` that a turn that asks shows no
rows and caches nothing; `CorrectionsHaveRoom` that a correction begins and
ends in time; `OnlyOwnShown` that an example shown is this agent's own, signed and near;
`NothingLost`, `RepliesUsable` and `OnlyWhereAllowed` are explained in `Question`;
`FlagOfOwnCall` that a caller reads its own call's flag; `QuestionTypeOK` is every
component's type invariant;
`NoCloseUnderQuery` and `ServedUnderOwnFilter` are the lookup session's.

**`live`.** The liveness of `LookupSession`, `EmbedServer` (three requests, two slots:
one runs, one is queued or waits, one gives up), `EmbedClient` (two threads),
`ConnectorQuery` (two statements, either of them a schema change or not, on each of eleven
designs, bounded or not) and `ParseChild`. `NothingCommitted` says of every design that
opens a transaction that nothing a statement writes lasts. It does not speak of what the
documentation exempts, the schema change itself where the database commits around it; nor,
on Snowflake's one session, of what a failed rollback had left open when such a change came
(`LeftOpenIsUndone`, which the code's warning claims, is refuted). `CallsReturn`, in
`WaitsEnd`, is about calls that something can stop: where no timeout applies (it is
disabled, or the dialect is Oracle or one nobody named, or it is DDL on MySQL) a statement
may run for ever, and only those who wait behind it are claimed to return. `ParseEnded` that nothing of a parse
is left when it returns, and a document it returned is whole; `WaitsEnd` is explained in
`MCLive`; `GoneNeverEncoded` that no encode starts for a request that gave up;
`EmbeddingSettles` that every request is answered (`EveryRequestAnswered`), idle threads
end (`IdleThreadsEnd`), and a daemon of the right model is used again although a wrong
one was met before (`RightDaemonUsedAgain`).

**`operator`.** Fifteen components. Two processes or threads wherever they share (key
files, audit log, indexes with four threads, verifiers), one reader and two writers of a
private key, three daemons, a source of four versions (three chunks, five, none, two, in
batches of two; any request may be carried out and reported failed), five pages in requests
of two with two changes, three slots of two schemas, two records of five statements, two
ratings, batches of four texts. Two of each is what a race needs.

Admission has two calls under way at most, two subjects, a rate limit of two, one call at a
time, a window of two and a clock to four. So a window opens, fills, rolls over at its very
instant and is swept by the other subject; and a subject passes twice its limit around a
boundary, and then as many again as would break `BurstBound` if a window were forgotten.
One subject makes every call there is; the other one kind only, and no more than its limit
of them (`MCCallStep`): it is there to be swept and to sweep. The provider publishes any set
of its two keys at first and changes it once, so that a key appears, one is withdrawn, or
both. `connectors.yaml` has two connectors; passwords, aliases and the keychain are the
first one's, and the second, with document sources and hand edits, is there to be kept
(`MCFileStep`). The calls, the verifiers and the passwords are interchangeable
(`SYMMETRY`); no liveness is checked here.
`SlotsAreCalls` and `BurstBound` are admission's, `ProviderSpared` says how often the
provider may be asked; its other properties are explained in `Upkeep`.

**The violations.** `cache_drain` has one process and both turns in `run_query_sync`;
`pool_retired` the instance of `pool`; the others explore one component of their MC
module, `sql_outlives` with the two settings only that the MCP tool uses, a statement
timeout and a wall clock.

`CHECK_DEADLOCK FALSE` stands where the system stops: the turns of the requests are
over, or the bound on operations is reached.

## Fairness

`pool_live` and `live` need it. In the pool: weak fairness of each request's next step
and of each thread's disposals. A thread that can run does, and a statement ends, by
its answer or by its timeout. Nothing is assumed of operators, of the clock, of
eviction or of rebinding, none of which the code controls.

In `live` each module states its own, and `MCLive` says it again of the behaviours in
which the module is in focus. `LookupSession`: a coroutine that may go on does, as does
a thread; a database call returns, with rows or an error. `EmbedServer`: request threads
and encode threads go on and the daemon is shut down; an encode that has begun need not
end, since a model may hang, so only idle threads are claimed to end. `EmbedClient`: the
embedding threads go on, and the memory of an absent daemon expires with time.
`ConnectorQuery`: a call acquires what is free, gives up when its wait is over, and the
timer and the server's own limit act; a statement without a timeout need not end, and there
is none on Oracle and unknown dialects whatever the setting, nor for DDL on MySQL.
`ParseChild`: the caller, the child's start, time and the kernel's alarm; nothing is
assumed of the parser, nor of the watchdog, which a parser that holds the interpreter
lock keeps from running.

## Proofs

For every value of the constants, from the assumptions the modules name. These are of
four kinds: requests, calls and the like are finitely many; null values are not members
of what they are null for (`NoToken` is no subject, `NoFileKey` no content of a key
file, `NoStoredKey` no writer), and callers that are not requests are not among them;
limits and bounds are natural numbers, those a loop counts down from at least one; and
data has its form (the slots of a knowledge base are of its schemas, a statement's
tables are tables, a source reports whole numbers of executions, a statement of a
history is known by its normalised text). Two say something of the code's own settings:
at least one reopen attempt is made (`_REOPEN_ATTEMPTS` is 3), and an unknown key may
force a refresh no more often than keys are refreshed anyway (`Interval <= MaxAge`: 60
and 3600 seconds).

**The pool.** `TypeCorrect`, `SessionsAreKept` (`[]StatementKeepsSession`) and
`PoolImplementsLease` (`ImplementsLease`). None of them is inductive. A statement's
session could be closed by a thread that has already decided to release it, so
`IInv` says of such a `victim` that it is closing and has no users (`VictimIsIdle`);
that needs the use count to be the number of statements running (`CountsUsers`), a
deferred close to be one that refuses newcomers (`DeferredIsClosing`), and a
session that nobody asked to close to be open (`OpenUntilClosing`), which gives
`UsedIsHeld`. The rest (`HasConnector`, `HasId`, `RefersToBuilt`, `NoEarlyAttempt`,
`ReleasesBetween`) says what the program's control points imply of its
variables. `StepPreserves` has one lemma per action. The refinement maps each action
that touches a use count or a session to one of the lease's actions, and every other
step to a stutter.

`CacheIsSound` (`[]CacheHolds`) and `AlwaysOpensAsAsked` (`[]OpensAsAsked`) rest on a second
invariant, `CustodyInv`, proved on top of the first. It goes through the hands a
connector may be in (the cache, a request that is about to store it, a thread that has
popped it, one that releases it, a statement that owes its release) and says of each that
nobody else has it: `CachedIsAlone`, `NewIsAlone`, `PoppedIsAlone`, `VictimIsAlone`.
`HandleIsOwed` says that an open raw handle is in some hand, so together it is in one.
That the recency order lists the cache without repetition and within its bound is an
invariant of its own (`OrderInvariant`), with lemmas on what dropping an id and cutting off
the excess leave (`WithoutDrops`, `CutDrops`). Freshness
needs that a fingerprint is taken before the password is read (`FingerprintFirst`), and so
is never newer than what was built with it (`EntriesTrue`).

**Admission.** `TypeCorrect`, `SlotsCorrect`, `BurstBounded`, `WindowsOverlap`,
`ToolsGranted`, `RefusalsEarned`: every property of admission. The invariant ties each
window to the history: an open window's count is the number of calls that passed since
it started, all of them in a row at the end of the history, and whatever passed
before it passed before its start (`OpenWindow`); without a window everything that
passed lies a window's length back (`NoOpenWindow`), which is why the sweep may drop
it. The burst bound follows: of more than twice the limit of calls, two fall in
windows that are not neighbours.

**The semantic cache.** `TypeCorrect`, `ServedCorrect` (`[]ServedBeganHere`),
`ReadsCorrect` (`[]ReadsOwnWrites`), `ReturnedStored` (`[]ReturnedIsStored`) and
`SweepSafe` (`SweepSparesLive`): every property of the run. That a hit began where
its reader did needs that every entry stored or on its way is signed for the binding
its turn began with (`SignedAsAsked`), and that a write still has its entry while it is
under way, though its turn has gone on (`Writing`). That a process finds what it wrote
needs that it remembers the collection (`WroteIsKnown`), so that a negative answer
recorded late is never asked; that as long as it is promised, an answer at least as
young as the one promised is where tier 0 will look (`Waits`), whatever is written over
it or swept; and that a lookup past tier 0 has seen a call fail or the answer expire
(`Kept`). `StepPreserves` has one lemma per action.

**The SQL turn.** `FrameShowsItsRun` (`[]FrameIsOneRun`), `OnlyValidRuns`
(`[]OnlyValidRun`), `RowsNeverLost` (`RowsKept` and `ReplacedByBetter`),
`CorrectionsAlwaysHaveRoom` (`CorrectionsHaveRoom`, from one
theorem for each of its parts) and `TurnTypeCorrect`, which bounds what one turn runs and
replaces (`PassedOnce`). `TurnInv` follows the statement through the turn: what is called
valid is, from clearance on and in every draft (`ValidInHand`); the database works where
the turn awaits it, on what the turn has in hand, and otherwise only for a caller that
has gone (`WorksWhereAwaited`); and the result in hand is that of the statement in hand,
and the first with rows if there was one (`ResultInHand`), so that only a better one can
take its place.

**The answer.** `ChoiceAlwaysFirst` (`[]ChoiceComesFirst`), `WritesOutlive` and
`AnswerTypeCorrect`, for every route, override and end of the agents. The route says which
agents were set to work and that neither outlives the process (`AgentsOfRoute`); nothing of
an answer exists before one of the steps that give it (`NothingEarly`), so what is cached
is the frame in hand; and no process ends before the write it scheduled (`NoneLost`).
`NothingIsLost` (`[]NothingLost`) joins the turn's two parts with the answer's.

**Tool calls.** `GrantsAlwaysDecide`: a server that runs is one whose setup was not
refused, with the authorizer that setup calls for (`AsSetUp`), and what a call comes to is
that server's answer to its token (`CallsAnswered`). That a call over HTTP needs a grant
is then a lemma about `Answer` alone, without the assumption that a grant file grants
little. With `PromptsStayHome` of `LlmRouting` it is `NothingGoesAstray`
(`[]OnlyWhereAllowed`).

**A model's reply.** `FlagIsOfOwnCall` (`[]FlagOfOwnCall`): a call under way has no
finish to show (`NoFinishYet`), so the flag and the record at its return are its own.
`PromptsStayHome` and `FastTierAlwaysWorks` hold of every environment, override and tier,
by cases on the settings that are there. `SplitsAsWritten` (`[]SplitAsWritten`) is proved
for a reply of any length and any cut into tokens. A stream is in one of three phases:
before the first opening tag all that was received is shown or held back (`Prose`);
between the tags the buffer is the reply from that tag on (`Inside`); after the closing tag
what was shown stays, and only another opening tag could change the statement (`Past`).
The lemmas on sequences it rests on (a part of a part, the first place of a tag in a
part) come first, and are about parts of a given reply, so that none needs induction.
`RepliesAlwaysUsable` (`[]RepliesUsable`) joins the two.

**Lookups in threads.** `NeverClosedUnderQuery` (`[]NoCloseUnderQuery`) and
`AlwaysServedUnderOwnFilter` (`ServedUnderOwnFilter`). `_running` exceeds the calls on
threads by the threads that could not be started, and by no more (`CountsThreads`); so a
`close` that finds it zero finds no thread, and of two that may release, only the one
who came last does (`ThreadOfCoroutine`). A session's connector has its request's filter
from the first statement on (`HoldsItsConnector`), and so has what is kept under it
(`KeptUnderItsFilter`).

**The embedding daemon.** `NeverEncodedWhenGone` (`GoneNeverEncoded`), for any number of
requests and encode threads. A job is queued once, and has not begun while it is
(`QueuedOnce`); a request that is answered leaves no pending future (`FutureOfRequest`);
and what a thread encodes is running on it alone (`EncodedOnce`), so that its end cannot
touch what is queued.

**Parsing in a child.** `ParsesEnd` (`[]ParseEnded`), whichever of the clocks came first:
the caller goes on only when the child is reaped and the group it leads is ended
(`ReapedFirst`), and a child that left by itself had its whole result out first
(`ResultThenExit`).

**Statements that overlap.** `NothingIsCommitted` (`[]NothingCommitted`), for any number
of calls on a connector of any design that opens a transaction, schema changes among them, with
the one exemption that the property states. What the designs share is a lemma
(`DesignsAgree`): a session with a transaction is waited for, and one that is not read-only
is rolled back and never tried again. From it, calls on one session are kept
apart from BEGIN to the end (`OneAtATime`), a statement runs in the transaction its
connector opens, if only one that a failed rollback left behind (`InItsTransaction`), and
only one that is not read-only holds writes (`HeldWrites`). A call with a session of its
own finds it fresh and leaves it so (`OwnIsFresh`), so that a change that commits what is
open there commits nothing of anybody's.

**Secrets.** `SecretsAlwaysRecoverable` (`[]SecretsRecoverable`), from four theorems on
three components. *Key files* (`OneKeySeals`, `OneKeySigns`), for any number of processes:
a process generates only where no key is configured, and the file that is being written
is its own (`OneGenerates`); a key is held in memory only where nothing can be written, and
replaced by renaming only where there are no links (`HeldInMemory`).
*`connectors.yaml`* (`PasswordStaysReachable`): what a command is about to save agrees with
the keychain as the command left it, step by step (`OfCommand`), so that it may be killed
at any of them, and the file edited between any two. *Keychain* (`KeyAlwaysWhole`), for any number of parts, writers and
readers: a generation has one owner (`OwnGeneration`, `EntriesOfOwner`), who has written
what it counted (`WrittenSoFar`); the pointer names a whole generation (`PointerWhole`)
and nobody erases the one it names (`PreviousInUse`); and what a reader has collected is of
one key, or it will know (`ReadsOneKey`).

**Signing keys.** `ProviderAlwaysSpared` (`[]ProviderSpared`) and `KeysAlwaysFollowProvider`
(`KeysFollowProvider`: a withdrawn key is refused when the keys are too old, a new one is
found). The three last fetches are the last forced one, the last of the others and one
long ago, and while that other was less than an interval ago it is in flight, its keys
are fresh, or its failure is being waited out (`FetchesSpaced`); here `Interval <= MaxAge`
is needed. The ages of keys are bounded along the way from the provider to the reader:
in a reply (`ReplyAge`), in the cache (`CachedAge`), in the hands of a thread that will not
fetch (`LookedInAge`).

**Stores.** `StoredAsReported` (`[]StoredAsTold`): a source's command has stored what it
counted and nothing before that (`DocHolds`), for any versions, lengths and batches, whether
or not failed requests were carried out; where it says that the earlier version was kept,
nothing was removed, and nothing written over but by a first batch whose reply was lost
(`KeptStaysOrBegins`). Before old capsules are removed the new ones are in (`NewSetIn`). `HumanWordAlwaysHolds`
(`[]HumanWordHolds`): what is selected for promotion is what may be (`ChosenAllowed`), and
what a person wrote and marked is what the file says (`OwnKept`), for any schemas and any
order of commands. `NothingChangesUnasked` (`NothingUnasked`) says of steps that a command
leaves other entries, sound pairs and the dates of unchanged descriptions alone
(`EntriesAlwaysSurvive`, `PruneAlwaysSpares`, `DatesMoveWithText`).

**Failures.** `FailuresContained` (`[]FailureContained`) joins four: a session is never
left aborted for the next caller (`NothingEverInherited`); an index about to be recorded is
in its collection, or that was deleted since (`RecordedIsThere`); every audit event is
whole in the file, in hand, or lost and counted (`LossesCounted`), for any number of
writers and parts of a line; and as long as nothing raced, one daemon at a time is up
(`OneBusy`), which the file names from the moment it has written it (`ProcessNamed`). A
race that has ended leaves no daemon behind, so the invariant starts anew (`RaceKeeps`).

**Data.** Some of what the code computes is a loop over a list, in the model a fold or a
sum. The library's induction takes an operator as a parameter, which no prover here can
instantiate; `FoldLemmas` gets by with sets and functions. Induction on numbers and on
finite sets is about a set of numbers or of sets (`ByInduction`, `SetInduction`). That a
fold is what its loop computes is proved by showing that a run of the loop exists
(`FoldExists`, `FoldLeftRuns`), a function from lengths to values; then a fact about the
fold is a fact about each step. Sums may be taken apart in any order (`SumOfParts`), and
what is listed by rank is each element once (`ListedByRank`).

*Examples* (`OnlyOwnAlwaysShown`, `[]OnlyOwnShown`), for stores of any content and any
limits: what each loop keeps of a batch is good (`GaveGood`), and the prompt names each
under its own place in its store (`IsOfStore`).

*The history* (`ExecutionsAlwaysCounted`, `[]ExecutionsCountedOnce`): every stage from the
filter to the capsules gives a list that carries the executions of the one before and
shows none but its statements (`Carries`), so that where the limit leaves room for all and
each has a template, the capsules' frequencies sum to the executions of what passed the
filter.

*A space* (`ReadsAreWhole`, `[]WholeUnlessShrunk`), for any pages, page size and
changes, either API and a server that tells a total or does not. As long as nothing is
deleted, what was read is in the space, and without a total every page that stayed and
ranks below the next request's first is among it (`ReadSofar`); that a page has a rank,
and that so many pages have been passed, needs the lemmas on ranks. With a total, what
was read is of the space and as many, so it is the space.

*A batch* (`RefusalsAreTheTexts`, `[]RefusalIsTheTexts`), for any texts and limits: a
part of more than one text is within every limit of the daemon, as the client's budget
counts a comma more than the body has; so a part that is refused is one text that is
over a limit alone, and what was sent is the batch's beginning in order.
`AllWholeAndOnce` (`[]WholeAndOnce`) joins the three.

**Types.** `QuestionTypesCorrect`, `WaitingTypesCorrect` and `UpkeepTypesCorrect` say
that every component keeps its types, and with them the bounds that types state. Some
need more than what the other theorems rest on. The daemon's free slots and the requests
inside add up to the limit, so none is lost or given back twice (`GateInv`). What a
streamed reply holds back and what it shows is no more than was received (`StreamFits`).
A process has lost no more events than it published (`CountsFit`).

**Model-checked only.** Liveness (`PoolSettles`, `EmbeddingSettles`, `WaitsEnd`), which
is beyond the prover. Every invariant, every action property and the refinement passing runs check has a theorem.

## Findings

1. **A retired credential may be queried** (`pool_retired`). `close` makes only a
   connector with a raw handle refuse newcomers (`connectors/base.py:519`). A wrapper
   opened before `invalidate_connector_cache` on an engine-only connector starts its
   next statement on the disposed engine, which connects again with the credential it
   was built with. The code has its reasons for not refusing there; its documentation
   (`loader.py:104`, `base.py:754`) claims more.
2. **A first statement may outlive the tool** (`sql_outlives`). Only after a rewrite
   was asked for is the statement's timeout reduced to what the deadline leaves
   (`orchestrator/orchestrator.py:682`). A statement that begins late otherwise runs
   on after the client was told of a timeout, which `mcp_server/server.py:229` says it
   does not. The tool passes a timeout with every statement (`server.py:329`), and the run
   has no setting without one.
3. **Two `run_query_sync` in two threads lose an answer** (`cache_drain`). The set of
   background tasks is the process's, `drain_background_tasks` gathers all of it
   (`orchestrator/multi_agent_orchestrator.py:241`), and a task of another thread's
   event loop makes `gather`, or the await of it, raise, `return_exceptions` or not.
   The answer that `run_query_sync` was about to return is lost.
4. **A hybrid result has no statement** (`hybrid_sql`). `_parse_final_chunk` takes the
   statement only from a chunk of type `sql` (`orchestrator/sync_runner.py:140`); the
   field is said to hold it for `hybrid` too (`sync_runner.py:60`).
5. **Two calls on one DuckDB connector take each other's rows** (`duckdb_rows`). The
   connection, and the result it holds, are shared by all threads without a lock
   (`connectors/duckdb.py:428`), where SQLite's connector takes one.
6. **A space may be read short of a page** (`confluence_whole`). When a page already read
   is deleted during a read by offset, the next request skips one
   (`document_connectors/confluence.py:216`). If the server tells no total, the read ends
   at a response without a next link and nothing is compared; if it does, the count of
   distinct pages reaches the new, smaller total. Either is a trace of the run. The sync
   then removes the chunks of a page that is still there. A read that only grew or
   was reordered is read whole or refused (`WholeUnlessShrunk`, in `operator`).

### Claims the models also refute

Each is a property of the module named, in no run; TLC shows it violated when a
configuration of the MC module lists it alone (with `Foci` that component, and the
constants in brackets).

| property | module | what happens |
| --- | --- | --- |
| `NothingRunsPending` | `SqlTurn` | what awaits the user's choice is computed once (`orchestrator.py:655`); a later correction may bring the ambiguous value back and is run |
| `EntryOfItsSchema` | `SemanticCache` | the binding is computed before the knowledge base is read (`multi_agent_orchestrator.py:684`); an entry may be signed for another file than it came from (`envelope.py:529`) |
| `KeptUnderItsDatabase` | `LookupSession` | the agent's entry may change between the source's key and the connector's opening: outcomes of one database are kept under the other's key [`Rebinds = 1`] |
| `TakenWholeIsClosed` | `StreamedSql` | a reply cut off after a second opening tag is taken for whole (`orchestrator.py:571`) [`MaxReply = 6`] |
| `NeverQueuesWhole` | `EmbedServer` | with every thread started a job may still queue: a request that gave up frees its slot while its encode goes on (`embed_server.py:699`) |
| `OneWindowLeft` | `EmbedClient` | the one window that the comment leaves is not the only one: threads race on the flags (`embedder.py:320`) |
| `GoneIsRaised` | `SchemaRead` | a connection that has gone may be a `DatabaseError`, and costs the keys only (`mssql.py:402`) |
| `ComesBackIndexed` | `CollectionIndexes` | an index recorded after its collection was deleted keeps the next one from being made (`semantic_cache.py:1781`) [`Retirers = {}`, `Elsewhere = FALSE`] |
| `OneLineEach` | `AuditLog` | lines that take two writes may be interleaved by another process (`audit.py:384`) |
| `SameExamples` | `ExampleSearch` | the two paths do not always give the same examples (`prompt_assembly.py:1363`) |
| `AnnotationPreserved` | `KnowledgeBase` | a description a person typed without marking it is replaced (docs/getting-started.md:205) |
| `FrequentClusterKept` | `QueryHistory` | the minimum is applied to statements before they are merged (docs/cli-reference.md:197) |
| `ReplacedWhole` | `QueryHistory` | an embedding that fails half way leaves old and new capsules (`cli/main.py:2180`) |
| `KeptIsUntouched` | `DocumentStore` | a first batch that is stored and reported failed is taken for "nothing written yet" (`qdrant_store.py:1037`) |
| `AttemptsAtMostThree` | `SqlTurn` | `attempt_count` is said to be at most 3 (`sql_generation.py:68-71`); rewrites after the grain check, the plan check and the second look are counted too, and it reaches 6 |
| `LeftOpenIsUndone` | `ConnectorQuery` | what a failed rollback leaves open on Snowflake's session was "not committed" (`snowflake.py:715-717`); if the next statement is DDL, it is |

## Not modelled

* The pool with `CONNECTOR_CACHE_ENABLED=false`: every request then owns its connector
  and nothing is shared.
* What drivers, Qdrant, the keychain, the kernel and a language model do inside a call;
  they answer, fail, or are carried out and reported failed. They appear as external
  definitions.
* Logging, provenance, spans; what an audit event holds.
* The text of statements, prompts and results: the SQL policy, the wording of prompts,
  the verbalizer, the parsing of documents, profiles and statistics of the knowledge
  base. These are functions of their inputs, with no state and nobody to race with; what
  depends on their outcome takes it as a choice.
* `connect` of the connectors and login identity: driver arguments and one statement's
  answer.
* Of the cache: hit counts, listing and statistics, more than one cache context (it is
  part of every point id and of every filter).
* The commands that only print, and two commands of one operator at the same time.
* The components with status `not_modelled` in `PROJECT.json`, each with its reason.

## Plan

Done: the modules above, and a theorem for every safety property of the passing runs.
Left, in this order.

1. An abstract specification of the lookup session's connector (opened at most once,
   closed once, by one) and of a source's chunks (old, new, or said to be between), with
   the refinements.
2. The composition of `AgentTurn` with `SqlTurn`: the frame of one as the other's end.
