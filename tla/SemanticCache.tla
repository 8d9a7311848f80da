--------------------------- MODULE SemanticCache ---------------------------
(***************************************************************************)
(* The semantic cache of one agent (cache/semantic_cache.py) as the turns  *)
(* of several processes use it (orchestrator/multi_agent_orchestrator.py): *)
(* a lookup through three tiers in a worker thread, an answer written      *)
(* after it was given, the invalidation of the whole collection, and what  *)
(* each process remembers of the vector store.                             *)
(*                                                                         *)
(* A turn is driven by run_query_sync, which has an event loop of its own  *)
(* and drains the background writes before it returns, or by the loop of a *)
(* server. One action is one call of the vector store or what a thread     *)
(* does between two of them; any call may fail, one that writes also after *)
(* it was carried out.                                                     *)
(*                                                                         *)
(* A version is what the knowledge base and the agent's configuration      *)
(* hold: the binding of an entry is their hash, and a version may come     *)
(* back. One cache context is modelled: it is part of every point id and   *)
(* of every filter, so entries of two contexts never meet. Payload indexes *)
(* and hit counts decide no answer and are left out.                       *)
(***************************************************************************)
EXTENDS Naturals

CONSTANTS
    Procs,          \* processes that share the vector store
    Turns,          \* callers of an agent, each with a turn after the other
    Clearers,       \* threads that call invalidate
    Questions,      \* normalized questions
    Alike,          \* pairs close enough for tier 1 that ask the same
    Shapes, NoShape,
    ShapeOf,        \* the masked form of each question
    Tiers,          \* CACHE_ANSWER_TIERS
    Ttl, NegativeTtl, PruneInterval,
    MaxTime,        \* bound on the clock
    Versions,       \* of the knowledge base and the agent's configuration
    MaxChanges,     \* bound on their changes
    MaxOperations,  \* bound on the turns and invalidations begun
    NoQuestion, NoVersion, NoEntry, Never

ASSUME QuestionAssumption == /\ NoQuestion \notin Questions
                             /\ NoShape \notin Questions \cup Shapes
                             /\ Questions \cap Shapes = {}
                             /\ ShapeOf \in [Questions -> Shapes \cup {NoShape}]
ASSUME TimeAssumption == /\ Ttl \in Nat /\ NegativeTtl \in Nat /\ PruneInterval \in Nat
                         /\ MaxTime \in Nat /\ MaxChanges \in Nat /\ MaxOperations \in Nat
                         /\ Never \notin Nat

\* A question is the id of an answer point, a shape that of a template point.
Keys == Questions \cup Shapes
\* binding: what it is signed for; asked: the binding its turn began with;
\* kb: the version its answer was generated from.
Entry == [binding : Versions, asked : Versions, kb : Versions, createdAt : 0..MaxTime]
ASSUME NullAssumption == NoEntry \notin Entry /\ NoVersion \notin Versions
ASSUME CallerAssumption == Turns \cap Clearers = {}

VARIABLES
    now,
    version,    \* in force
    changes,    \* how often it has changed
    begun,      \* turns and invalidations begun
    exists,     \* the vector store: the collection
    points,     \* and its points
    known,      \* _known_collections of each process
    missing,    \* _missing_collections: when to stop trusting it, or Never
    lastPrune,  \* _last_prune_at, or Never
    tasks,      \* _background_tasks of all processes
    home,       \* the process of each turn and clearer
    pc,         \* where each turn and each clearer is
    sync,       \* is the turn driven by run_query_sync?
    question,   \* what it asks
    binding,    \* the binding its SemanticCache was made with
    entry,      \* the entry it is served, or the one it writes
    write,      \* where its background write is
    fault,      \* did a call of its lookup fail?
    wrote,      \* history: has the process written since it last invalidated?
    promised    \* history: the answer that waited for a lookup when it began

clock == <<now, version, changes, begun>>
storeVars == <<exists, points>>
memoryVars == <<known, missing, lastPrune>>
turnVars == <<sync, question, binding, entry, fault>>
history == <<wrote, promised>>
vars == <<clock, storeVars, memoryVars, tasks, home, pc, turnVars, write, history>>

Lookups == {"memory", "forget", "list", "present", "absent", "exact", "search", "template"}
TurnPCs == {"idle"} \cup Lookups \cup
           {"generate", "alone", "drain", "gather", "stop", "served", "raised"}
ClearPCs == {"clear", "delete"}
WritePCs == {"none", "queued", "create", "mark", "upsert", "prune", "ended"}

Goto(t, p) == pc' = [pc EXCEPT ![t] = p]

----------------------------------------------------------------------------
Init ==
    /\ now = 0
    /\ version \in Versions
    /\ changes = 0
    /\ begun = 0
    /\ exists = FALSE
    /\ points = [k \in Keys |-> NoEntry]
    /\ known = [p \in Procs |-> FALSE]
    /\ missing = [p \in Procs |-> Never]
    /\ lastPrune = [p \in Procs |-> Never]
    /\ tasks = {}
    /\ home \in [Turns \cup Clearers -> Procs]
    /\ pc = [t \in Turns \cup Clearers |-> IF t \in Turns THEN "idle" ELSE "clear"]
    /\ sync \in [Turns -> BOOLEAN]
    /\ question = [t \in Turns |-> NoQuestion]
    /\ binding = [t \in Turns |-> NoVersion]
    /\ entry = [t \in Turns |-> NoEntry]
    /\ write = [t \in Turns |-> "none"]
    /\ fault = [t \in Turns |-> FALSE]
    /\ wrote = [p \in Procs |-> FALSE]
    /\ promised = [t \in Turns |-> NoEntry]

Tick ==
    /\ now < MaxTime
    /\ now' = now + 1
    /\ UNCHANGED <<version, changes, begun, storeVars, memoryVars, tasks, home, pc, turnVars, write, history>>

\* The knowledge base is exported again or restored, or the connector is
\* repointed.
Change ==
    /\ changes < MaxChanges
    /\ changes' = changes + 1
    /\ \E v \in Versions \ {version} : version' = v
    /\ UNCHANGED <<now, begun, storeVars, memoryVars, tasks, home, pc, turnVars, write, history>>

----------------------------------------------------------------------------
(* The lookup: SemanticCache.get, in a worker thread.                      *)

\* _verified_entry: signed for this binding, and not older than the TTL.
Expired(e) == now - e.createdAt > Ttl
ServedTo(b, e) == e # NoEntry /\ e.binding = b /\ ~Expired(e)
Verified(t, e) == ServedTo(binding[t], e)

\* handle_question makes a cache for the binding in force; with use_cache
\* off, or a value the user chose, it neither reads nor writes it.
Begin(t, q) ==
    /\ pc[t] \in {"idle", "raised"}
    /\ write[t] = "none"
    /\ begun < MaxOperations
    /\ begun' = begun + 1
    /\ question' = [question EXCEPT ![t] = q]
    /\ binding' = [binding EXCEPT ![t] = version]
    /\ Goto(t, "memory") \/ Goto(t, "alone")
    /\ promised' = [promised EXCEPT ![t] =
           IF 0 \in Tiers /\ wrote[home[t]] /\ ServedTo(version, points[q]) THEN points[q] ELSE NoEntry]
    /\ UNCHANGED <<now, version, changes, storeVars, memoryVars, tasks, home, sync, entry, write, fault, wrote>>

LookupStep(t) ==
    UNCHANGED <<clock, storeVars, tasks, home, sync, question, binding, write, history>>

Trusted(p) == missing[p] # Never /\ now < missing[p]

\* Mutant of Remembered: the negative memory is asked first.
MissingFirst(t) ==
    /\ pc[t] = "memory"
    /\ LET p == home[t] IN
         \/ Trusted(p) /\ Goto(t, "generate")
         \/ known[p] /\ ~Trusted(p) /\ Goto(t, "exact")
         \/ ~known[p] /\ missing[p] # Never /\ ~Trusted(p) /\ Goto(t, "forget")
         \/ ~known[p] /\ missing[p] = Never /\ Goto(t, "list")
    /\ UNCHANGED <<memoryVars, entry, fault>>
    /\ LookupStep(t)

\* _collection_exists: what the process remembers.
Remembered(t) ==
    /\ pc[t] = "memory"
    /\ LET p == home[t] IN
         \/ known[p] /\ Goto(t, "exact")
         \/ ~known[p] /\ Trusted(p) /\ Goto(t, "generate")
         \/ ~known[p] /\ missing[p] # Never /\ ~Trusted(p) /\ Goto(t, "forget")
         \/ ~known[p] /\ missing[p] = Never /\ Goto(t, "list")
    /\ UNCHANGED <<memoryVars, entry, fault>>
    /\ LookupStep(t)

\* The expired memory is deleted; the deletion raises when another thread has
\* been faster, and handle_question takes the exception for a miss.
ForgetMissing(t) ==
    /\ pc[t] = "forget"
    /\ IF missing[home[t]] = Never
       THEN Goto(t, "generate") /\ fault' = [fault EXCEPT ![t] = TRUE]
       ELSE Goto(t, "list") /\ UNCHANGED fault
    /\ missing' = [missing EXCEPT ![home[t]] = Never]
    /\ UNCHANGED <<known, lastPrune, entry>>
    /\ LookupStep(t)

\* get_collections: the answer is recorded a step later.
ListCollections(t) ==
    /\ pc[t] = "list"
    /\ \/ exists /\ Goto(t, "present") /\ UNCHANGED fault
       \/ ~exists /\ Goto(t, "absent") /\ UNCHANGED fault
       \/ Goto(t, "generate") /\ fault' = [fault EXCEPT ![t] = TRUE]
    /\ UNCHANGED <<memoryVars, entry>>
    /\ LookupStep(t)

RecordPresent(t) ==
    /\ pc[t] = "present"
    /\ known' = [known EXCEPT ![home[t]] = TRUE]
    /\ Goto(t, "exact")
    /\ UNCHANGED <<missing, lastPrune, entry, fault>>
    /\ LookupStep(t)

\* Mutant of RecordAbsent: the time to live is taken off.
RecordBackwards(t) ==
    /\ pc[t] = "absent"
    /\ missing' = [missing EXCEPT ![home[t]] = now - NegativeTtl]
    /\ Goto(t, "generate")
    /\ UNCHANGED <<known, lastPrune, entry, fault>>
    /\ LookupStep(t)

RecordAbsent(t) ==
    /\ pc[t] = "absent"
    /\ missing' = [missing EXCEPT ![home[t]] = now + NegativeTtl]
    /\ Goto(t, "generate")
    /\ UNCHANGED <<known, lastPrune, entry, fault>>
    /\ LookupStep(t)

Serve(t, e) ==
    /\ entry' = [entry EXCEPT ![t] = e]
    /\ Goto(t, "served")

\* Tier 0: the point of the question's own id. A failed call is suppressed.
Exact(t) ==
    /\ pc[t] = "exact"
    /\ LET e == points[question[t]] IN
         \/ 0 \in Tiers /\ Verified(t, e) /\ Serve(t, e) /\ UNCHANGED fault
         \/ (0 \notin Tiers \/ ~Verified(t, e)) /\ Goto(t, "search") /\ UNCHANGED <<entry, fault>>
         \/ 0 \in Tiers /\ Goto(t, "search") /\ UNCHANGED entry
            /\ fault' = [fault EXCEPT ![t] = TRUE]
    /\ UNCHANGED memoryVars
    /\ LookupStep(t)

\* Tier 1: the first candidate that verifies, is found by its own text and
\* asks the same. A candidate may be cut off, or not be confirmed because its
\* question cannot be embedded.
Search(t) ==
    /\ pc[t] = "search"
    /\ \/ /\ 1 \in Tiers
          /\ \E q \in Questions :
               <<question[t], q>> \in Alike /\ Verified(t, points[q]) /\ Serve(t, points[q])
          /\ UNCHANGED fault
       \/ Goto(t, "template") /\ UNCHANGED <<entry, fault>>
       \/ 1 \in Tiers /\ Goto(t, "generate") /\ UNCHANGED entry
          /\ fault' = [fault EXCEPT ![t] = TRUE]
    /\ UNCHANGED memoryVars
    /\ LookupStep(t)

\* Tier 2: a template of the same shape, bound to the question's values; the
\* binding may fail.
Template(t) ==
    /\ pc[t] = "template"
    /\ LET s == ShapeOf[question[t]] IN
         \/ /\ 2 \in Tiers /\ s # NoShape
            /\ Verified(t, points[s])
            /\ Serve(t, points[s])
         \/ Goto(t, "generate") /\ UNCHANGED entry
    /\ UNCHANGED <<memoryVars, fault>>
    /\ LookupStep(t)

----------------------------------------------------------------------------
(* The turn.                                                               *)

TurnStep(t) == UNCHANGED <<clock, storeVars, memoryVars, home, sync, wrote>>

\* What follows the last frame of a turn, with the lookup behind it.
Return(t) ==
    /\ Goto(t, IF sync[t] THEN "drain" ELSE "idle")
    /\ binding' = [binding EXCEPT ![t] = NoVersion]
    /\ fault' = [fault EXCEPT ![t] = FALSE]
    /\ promised' = [promised EXCEPT ![t] = NoEntry]

\* A hit is replayed: its statement runs again, its text is not regenerated.
Replay(t) ==
    /\ pc[t] = "served"
    /\ Return(t)
    /\ question' = [question EXCEPT ![t] = NoQuestion]
    /\ entry' = [entry EXCEPT ![t] = NoEntry]
    /\ UNCHANGED <<tasks, write>>
    /\ TurnStep(t)

\* Generation reads the knowledge base, and an answer that leaves nothing to
\* choose is scheduled to be written.
Generate(t) ==
    /\ pc[t] \in {"generate", "alone"}
    /\ \/ /\ pc[t] = "generate"
          /\ entry' = [entry EXCEPT ![t] =
                 [binding |-> binding[t], asked |-> binding[t], kb |-> version, createdAt |-> 0]]
          /\ write' = [write EXCEPT ![t] = "queued"]
          /\ tasks' = tasks \cup {t}
          /\ UNCHANGED question
       \/ question' = [question EXCEPT ![t] = NoQuestion] /\ UNCHANGED <<entry, write, tasks>>
    /\ Return(t)
    /\ TurnStep(t)

DrainStep(t) == UNCHANGED <<binding, fault, promised>> /\ TurnStep(t)

\* The writes of this process, whatever the loop they belong to.
Known(t) == {u \in tasks : home[u] = home[t]}

\* Mutant of Drain: nothing is awaited.
DrainNothing(t) ==
    /\ pc[t] = "drain"
    /\ Goto(t, "idle")
    /\ UNCHANGED <<tasks, question, entry, write>>
    /\ DrainStep(t)

\* drain_background_tasks gathers every task of the process. A task of another
\* loop makes gather, or the await of it, raise; asyncio.run then cancels the
\* loop's own task, whose put goes on in its thread.
Drain(t) ==
    /\ pc[t] = "drain"
    /\ \/ Known(t) = {} /\ Goto(t, "idle") /\ UNCHANGED tasks
       \/ Known(t) = {t} /\ Goto(t, "gather") /\ UNCHANGED tasks
       \/ Known(t) \ {t} # {} /\ Goto(t, "stop") /\ tasks' = tasks \ {t}
    /\ UNCHANGED <<question, entry, write>>
    /\ DrainStep(t)

Gathered(t) ==
    /\ pc[t] = "gather"
    /\ t \notin tasks
    /\ Goto(t, "idle")
    /\ UNCHANGED <<tasks, question, entry, write>>
    /\ DrainStep(t)

\* The write is over.
Written(t) ==
    /\ write' = [write EXCEPT ![t] = "none"]
    /\ question' = [question EXCEPT ![t] = NoQuestion]
    /\ entry' = [entry EXCEPT ![t] = NoEntry]

\* asyncio.run waits for the threads of the loop's executor.
Raise(t) ==
    /\ pc[t] = "stop"
    /\ write[t] \in {"none", "ended"}
    /\ Goto(t, "raised")
    /\ Written(t)
    /\ UNCHANGED tasks
    /\ DrainStep(t)

----------------------------------------------------------------------------
(* The background write: SemanticCache.put in a thread of the executor.    *)

WriteGoto(t, w) == write' = [write EXCEPT ![t] = w]
WriteStep(t) == UNCHANGED <<clock, home, pc, sync, question, binding, fault>>

\* An answer with a fault of its own, or not worth it, is refused; otherwise
\* ensure_collection asks the store for its collections.
EnsureList(t) ==
    /\ write[t] = "queued"
    /\ WriteGoto(t, IF exists THEN "mark" ELSE "create") \/ WriteGoto(t, "ended")
    /\ UNCHANGED <<storeVars, memoryVars, tasks, entry, history>>
    /\ WriteStep(t)

EnsureCreate(t) ==
    /\ write[t] = "create"
    /\ \/ ~exists /\ exists' = TRUE /\ (WriteGoto(t, "mark") \/ WriteGoto(t, "ended"))
       \/ UNCHANGED exists /\ WriteGoto(t, "ended")
    /\ UNCHANGED <<points, memoryVars, tasks, entry, history>>
    /\ WriteStep(t)

\* Mutant of Mark: the entry is signed for the binding in force by now.
MarkSignsLate(t) ==
    /\ write[t] = "mark"
    /\ missing' = [missing EXCEPT ![home[t]] = Never]
    /\ known' = [known EXCEPT ![home[t]] = TRUE]
    /\ entry' = [entry EXCEPT ![t].createdAt = now, ![t].binding = version]
    /\ WriteGoto(t, "upsert")
    /\ wrote' = [wrote EXCEPT ![home[t]] = TRUE]
    /\ UNCHANGED <<storeVars, lastPrune, tasks, promised>>
    /\ WriteStep(t)

\* The collection is there: remembered, then the points are made and signed,
\* unless embedding or the signing key fails.
Mark(t) ==
    /\ write[t] = "mark"
    /\ missing' = [missing EXCEPT ![home[t]] = Never]
    /\ known' = [known EXCEPT ![home[t]] = TRUE]
    /\ entry' = [entry EXCEPT ![t].createdAt = now]
    /\ WriteGoto(t, "upsert") \/ WriteGoto(t, "ended")
    /\ wrote' = [wrote EXCEPT ![home[t]] = TRUE]
    /\ UNCHANGED <<storeVars, lastPrune, tasks, promised>>
    /\ WriteStep(t)

\* One upsert of the answer and, when the statement has parameters, of its
\* template.
Upsert(t) ==
    /\ write[t] = "upsert"
    /\ \/ /\ exists
          /\ \E keys \in {{question[t]}, {question[t], ShapeOf[question[t]]} \cap Keys} :
               points' = [k \in Keys |-> IF k \in keys THEN entry[t] ELSE points[k]]
          /\ promised' = [u \in Turns |->
                 CASE promised[u] = NoEntry \/ question[u] # question[t] -> promised[u]
                   [] ~ServedTo(binding[u], entry[t]) -> NoEntry
                   [] OTHER -> IF entry[t].createdAt < promised[u].createdAt
                               THEN entry[t] ELSE promised[u]]
          /\ WriteGoto(t, "prune") \/ WriteGoto(t, "ended")
       \/ UNCHANGED <<points, promised>> /\ WriteGoto(t, "ended")
    /\ UNCHANGED <<exists, memoryVars, tasks, entry, wrote>>
    /\ WriteStep(t)

\* Mutant of Stale: the sweep takes entries that are as old as the TTL.
StaleAtTtl(e) == e # NoEntry /\ now - e.createdAt >= Ttl

\* What a sweep deletes.
Stale(e) == e # NoEntry /\ now - e.createdAt > Ttl

Sweeps(p) ==
    PruneInterval > 0 /\ (lastPrune[p] = Never \/ now - lastPrune[p] >= PruneInterval)

\* _prune_expired, once per interval and process.
Prune(t) ==
    /\ write[t] = "prune"
    /\ LET p == home[t] IN
         IF Sweeps(p)
         THEN /\ lastPrune' = [lastPrune EXCEPT ![p] = now]
              /\ \/ points' = [k \in Keys |-> IF Stale(points[k]) THEN NoEntry ELSE points[k]]
                 \/ UNCHANGED points
         ELSE UNCHANGED <<lastPrune, points>>
    /\ WriteGoto(t, "ended")
    /\ UNCHANGED <<exists, known, missing, tasks, entry, history>>
    /\ WriteStep(t)

\* The task's done callback, on the task's loop.
Discard(t) ==
    /\ write[t] = "ended"
    /\ t \in tasks
    /\ tasks' = tasks \ {t}
    /\ Written(t)
    /\ UNCHANGED <<clock, storeVars, memoryVars, home, pc, sync, binding, fault, history>>

----------------------------------------------------------------------------
(* SemanticCache.invalidate.                                               *)

ClearStep(i) == UNCHANGED <<now, version, changes, tasks, home, turnVars, write>>

ForgetKnown(i) ==
    /\ pc[i] = "clear"
    /\ begun < MaxOperations
    /\ begun' = begun + 1
    /\ known' = [known EXCEPT ![home[i]] = FALSE]
    /\ Goto(i, "delete")
    /\ wrote' = [wrote EXCEPT ![home[i]] = FALSE]
    /\ promised' = [t \in Turns |-> IF home[t] = home[i] THEN NoEntry ELSE promised[t]]
    /\ UNCHANGED <<storeVars, missing, lastPrune>>
    /\ ClearStep(i)

\* delete_collection; a failure is suppressed.
DeleteCollection(i) ==
    /\ pc[i] = "delete"
    /\ \/ /\ exists' = FALSE
          /\ points' = [k \in Keys |-> NoEntry]
          /\ promised' = [t \in Turns |-> NoEntry]
       \/ UNCHANGED <<storeVars, promised>>
    /\ Goto(i, "clear")
    /\ UNCHANGED <<begun, memoryVars, wrote>>
    /\ ClearStep(i)

----------------------------------------------------------------------------
Lookup(t) ==
    \/ Remembered(t) \/ ForgetMissing(t) \/ ListCollections(t)
    \/ RecordPresent(t) \/ RecordAbsent(t)
    \/ Exact(t) \/ Search(t) \/ Template(t)
Drive(t) == Replay(t) \/ Generate(t) \/ Drain(t) \/ Gathered(t) \/ Raise(t)
Write(t) ==
    \/ EnsureList(t) \/ EnsureCreate(t)
    \/ Mark(t) \/ Upsert(t) \/ Prune(t) \/ Discard(t)
Clear(i) == ForgetKnown(i) \/ DeleteCollection(i)

Next ==
    \/ Tick \/ Change
    \/ \E t \in Turns : (\E q \in Questions : Begin(t, q)) \/ Lookup(t) \/ Drive(t) \/ Write(t)
    \/ \E i \in Clearers : Clear(i)

Spec == Init /\ [][Next]_vars

----------------------------------------------------------------------------
ClockTypeOK ==
    /\ now \in 0..MaxTime /\ version \in Versions
    /\ changes \in 0..MaxChanges /\ begun \in 0..MaxOperations
StoreTypeOK ==
    /\ exists \in BOOLEAN
    /\ points \in [Keys -> Entry \cup {NoEntry}]
    /\ ~exists => \A k \in Keys : points[k] = NoEntry
MemoryTypeOK ==
    /\ known \in [Procs -> BOOLEAN]
    /\ missing \in [Procs -> Nat \cup {Never}]
    /\ lastPrune \in [Procs -> 0..MaxTime \cup {Never}]
TurnTypeOK ==
    /\ home \in [Turns \cup Clearers -> Procs]
    /\ pc \in [Turns \cup Clearers -> TurnPCs \cup ClearPCs]
    /\ sync \in [Turns -> BOOLEAN]
    /\ question \in [Turns -> Questions \cup {NoQuestion}]
    /\ binding \in [Turns -> Versions \cup {NoVersion}]
    /\ entry \in [Turns -> Entry \cup {NoEntry}]
    /\ fault \in [Turns -> BOOLEAN]
WriteTypeOK ==
    /\ tasks \subseteq Turns
    /\ write \in [Turns -> WritePCs]
HistoryTypeOK ==
    /\ wrote \in [Procs -> BOOLEAN]
    /\ promised \in [Turns -> Entry \cup {NoEntry}]
TypeOK ==
    ClockTypeOK /\ StoreTypeOK /\ MemoryTypeOK /\ TurnTypeOK /\ WriteTypeOK /\ HistoryTypeOK

\* An answer is replayed only to a turn that begins under the very knowledge
\* base and configuration the answer's own turn began under, however late it
\* was written and whatever other processes write meanwhile.
ServedBeganHere ==
    \A t \in Turns : pc[t] = "served" => entry[t].asked = binding[t]

\* Once a process has written, its lookups find what is stored: a lookup that
\* begins when a servable answer to its very question waits there does not
\* generate another, unless a call failed, the answer has expired, the cache
\* was cleared or the answer replaced by one it is not served. Neither a
\* negative answer recorded late nor another process's sweep gets in between.
ReadsOwnWrites ==
    \A t \in Turns :
        pc[t] = "generate" /\ ~fault[t] => promised[t] = NoEntry \/ Expired(promised[t])

\* When run_query_sync returns, the write of its answer is over: its process
\* may exit without losing it.
ReturnedIsStored ==
    \A t \in Turns : sync[t] /\ pc[t] = "idle" => write[t] = "none"

\* A point is lost only to invalidate, or when no reader would be served it
\* any more: a sweep takes nothing that is still in its time to live.
SweepSparesLive ==
    [][\A k \in Keys :
          points[k] # NoEntry /\ points'[k] = NoEntry => Expired(points[k]) \/ ~exists']_vars

\* run_query_sync returns the answer it collected, whatever else its process
\* is doing.
AnswerSurvives == \A t \in Turns : pc[t] # "raised"

\* An entry stops verifying once the knowledge base and configuration it was
\* generated against change: whoever is served while his own are in force is
\* served an answer generated from them.
EntryOfItsSchema ==
    \A t \in Turns :
        pc[t] = "served" /\ version = binding[t] => entry[t].kb = version
=============================================================================
