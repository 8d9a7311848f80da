--------------------------- MODULE ConnectorPool ---------------------------
(***************************************************************************)
(* The pool of database connectors (connectors/loader.py, connectors/      *)
(* base.py): a cache of live connectors shared by every request of the     *)
(* process, the per-request view that re-opens a connector the cache has   *)
(* released under it, and the use count that defers a release until the    *)
(* last running statement has left.                                        *)
(*                                                                         *)
(* A thread is a request (its turn runs in asyncio.to_thread) or a caller  *)
(* of invalidate_connector_cache. One action is what a thread does under   *)
(* one lock, or between two: the cache lock, a connector's own use lock,   *)
(* and the disposals that both functions leave for after the lock.         *)
(*                                                                         *)
(* Passwords, configuration and fingerprints are one natural number per    *)
(* connector id: the version an operator last stored.                      *)
(***************************************************************************)
EXTENDS Naturals, FiniteSets, SequencesExt

CONSTANTS
    Ids,            \* connector ids of the connectors file
    EngineOnly,     \* those whose connector holds a SQLAlchemy engine, no raw handle
    Requests,       \* requests, one turn each
    Callers,        \* callers of invalidate_connector_cache
    Conns,          \* connector objects the process may build (bound)
    NoConn, NoId, NoEntry,
    MaxEntries,     \* CONNECTOR_CACHE_MAX_ENTRIES
    ReopenAttempts, \* _REOPEN_ATTEMPTS
    MaxCred,        \* bound on the rotations of one credential
    MaxDegraded,    \* bound on the builds whose class resolution degrades
    MaxStatements   \* bound on the statements of one turn

ASSUME FiniteAssumption == IsFiniteSet(Requests)
ASSUME NullAssumption == NoConn \notin Conns /\ NoId \notin Ids
ASSUME ThreadAssumption == Requests \cap Callers = {} /\ EngineOnly \subseteq Ids
ASSUME BoundAssumption == /\ MaxEntries \in Nat
                          /\ ReopenAttempts \in Nat \ {0}
                          /\ MaxCred \in Nat
                          /\ MaxStatements \in Nat

VARIABLES
    cred,       \* the credential version of each id, as the file and keyring hold it
    binding,    \* the connector id each request's agent resolves to
    cache,      \* _cache: id -> entry
    lru,        \* the order of the OrderedDict, least recently used first
    made,       \* what each connector object was built from
    held,       \* does the object hold a session of the database open?
    count, deferred, closing,           \* _use_state of each connector
    pc,         \* where each thread is
    want,       \* the id a request's wrapper is pinned to (_connector_id)
    fp,         \* the fingerprint of the open or reopen under way, else 0
    inner,      \* PermittedConnector._inner
    attempt,    \* reopen attempts of the statement being started (_active)
    todo,       \* connectors a thread has popped and must still close
    victim,     \* connector a thread has decided to _release, outside the lock
    stmts       \* statements the turn has begun

poolVars == <<cache, lru, made, held, count, deferred, closing>>
turnVars == <<want, fp, inner, attempt, stmts>>
vars == <<cred, binding, poolVars, pc, turnVars, todo, victim>>

Threads == Requests \cup Callers
Entry == [conn : Conns, fp : 0..MaxCred, degraded : BOOLEAN, old : BOOLEAN]
ASSUME EntryAssumption == NoEntry \notin Entry

Made == [id : Ids, cred : 0..MaxCred, degraded : BOOLEAN]
Unbuilt == [id |-> NoId, cred |-> 0, degraded |-> FALSE]

RequestPCs == {"idle", "lookup", "drop", "build", "put", "evict", "ready",
               "enter", "reread", "running", "leave", "done"}
CallerPCs == {"idle", "sweep"}

\* Connectors with a raw handle, which a release destroys.
IsHandle(c) == made[c].id \in Ids \ EngineOnly
Built(c) == made[c].id \in Ids

Cached == {i \in Ids : cache[i] # NoEntry}
Users(c) == {r \in Requests : pc[r] = "running" /\ inner[r] = c}

----------------------------------------------------------------------------
Init ==
    /\ cred = [i \in Ids |-> 0]
    /\ binding \in [Requests -> Ids]
    /\ cache = [i \in Ids |-> NoEntry]
    /\ lru = <<>>
    /\ made = [c \in Conns |-> Unbuilt]
    /\ held = [c \in Conns |-> FALSE]
    /\ count = [c \in Conns |-> 0]
    /\ deferred = [c \in Conns |-> FALSE]
    /\ closing = [c \in Conns |-> FALSE]
    /\ pc = [t \in Threads |-> "idle"]
    /\ want = [r \in Requests |-> NoId]
    /\ fp = [r \in Requests |-> 0]
    /\ inner = [r \in Requests |-> NoConn]
    /\ attempt = [r \in Requests |-> 0]
    /\ todo = [t \in Threads |-> {}]
    /\ victim = [t \in Threads |-> NoConn]
    /\ stmts = [r \in Requests |-> 0]

----------------------------------------------------------------------------
(* The world outside: operators and the clock.                             *)

\* A credential or the configuration of i is replaced.
Rotate(i) ==
    /\ cred[i] < MaxCred
    /\ cred' = [cred EXCEPT ![i] = @ + 1]
    /\ UNCHANGED <<binding, poolVars, pc, turnVars, todo, victim>>

\* An agent is bound to another connector while its request is under way,
\* once; what it was bound to before the request began is arbitrary.
Rebind(r, i) ==
    /\ binding[r] = want[r]
    /\ binding[r] # i
    /\ binding' = [binding EXCEPT ![r] = i]
    /\ UNCHANGED <<cred, poolVars, pc, turnVars, todo, victim>>

\* The entry of i passes CONNECTOR_CACHE_TTL_SECONDS.
Age(i) ==
    /\ i \in Cached
    /\ ~cache[i].old
    /\ cache' = [cache EXCEPT ![i].old = TRUE]
    /\ UNCHANGED <<cred, binding, lru, made, held, count, deferred, closing,
                   pc, turnVars, todo, victim>>

----------------------------------------------------------------------------
(* Opening: open_connector_for_agent, and reopen_connector from _active.   *)

\* Where an open that has its connector goes: a reopen returns to _active.
Resume(r) == IF attempt[r] = 0 THEN "ready" ELSE "enter"

\* open_connector_for_agent reads the file, resolves the agent and
\* computes the fingerprint, before credentials_for reads the password.
OpenRead(r) ==
    /\ pc[r] = "idle"
    /\ want' = [want EXCEPT ![r] = binding[r]]
    /\ fp' = [fp EXCEPT ![r] = cred[binding[r]]]
    /\ pc' = [pc EXCEPT ![r] = "lookup"]
    /\ UNCHANGED <<cred, binding, poolVars, inner, attempt, stmts, todo, victim>>

\* reopen_connector: pinned to the id, never to the agent.
ReopenRead(r) ==
    /\ pc[r] = "reread"
    /\ fp' = [fp EXCEPT ![r] = cred[want[r]]]
    /\ pc' = [pc EXCEPT ![r] = "lookup"]
    /\ UNCHANGED <<cred, binding, poolVars, want, inner, attempt, stmts, todo, victim>>

\* The entry is missing, its class is unknown, or connect raises: an open
\* yields None and the turn has no connector; a reopen yields None and
\* _active raises ConnectorClosed, which ends the statement.
OpenFails(r) ==
    /\ pc[r] \in {"idle", "reread", "build"}
    /\ pc' = [pc EXCEPT ![r] = IF attempt[r] = 0 THEN "done" ELSE "ready"]
    /\ attempt' = [attempt EXCEPT ![r] = 0]
    /\ fp' = [fp EXCEPT ![r] = 0]
    /\ want' = [want EXCEPT ![r] = IF attempt[r] = 0 THEN NoId ELSE @]
    /\ UNCHANGED <<cred, binding, poolVars, inner, stmts, todo, victim>>

\* The order without i, which it lists once at most (PoolOrder).
Without(order, i) ==
    IF \E k \in 1..Len(order) : order[k] = i
    THEN RemoveAt(order, CHOOSE k \in 1..Len(order) : order[k] = i)
    ELSE order

\* May the entry serve a request with r's fingerprint? A degraded one was
\* stored under a fingerprint no open computes.
Fresh(r, e) == e.fp = fp[r] /\ ~e.degraded /\ ~e.old

CacheMiss(r) ==
    /\ pc[r] = "lookup"
    /\ want[r] \notin Cached
    /\ pc' = [pc EXCEPT ![r] = "build"]
    /\ UNCHANGED <<cred, binding, poolVars, turnVars, todo, victim>>

CacheHit(r) ==
    /\ pc[r] = "lookup"
    /\ want[r] \in Cached
    /\ Fresh(r, cache[want[r]])
    /\ lru' = Append(Without(lru, want[r]), want[r])
    /\ inner' = [inner EXCEPT ![r] = cache[want[r]].conn]
    /\ fp' = [fp EXCEPT ![r] = 0]
    /\ pc' = [pc EXCEPT ![r] = Resume(r)]
    /\ UNCHANGED <<cred, binding, cache, made, held, count, deferred, closing,
                   want, attempt, stmts, todo, victim>>

CacheStale(r) ==
    /\ pc[r] = "lookup"
    /\ want[r] \in Cached
    /\ ~Fresh(r, cache[want[r]])
    /\ cache' = [cache EXCEPT ![want[r]] = NoEntry]
    /\ lru' = Without(lru, want[r])
    /\ todo' = [todo EXCEPT ![r] = {cache[want[r]].conn}]
    /\ pc' = [pc EXCEPT ![r] = "drop"]
    /\ UNCHANGED <<cred, binding, made, held, count, deferred, closing, turnVars, victim>>

\* credentials_for reads the password as it is now, then connect: a raw
\* handle opens a session, an engine opens none until it is used. degraded:
\* the class came from a resolution that failed over.
Build(r) ==
    /\ pc[r] = "build"
    /\ \E c \in Conns, d \in BOOLEAN :
         /\ ~Built(c)
         /\ d => Cardinality({b \in Conns : made[b].degraded}) < MaxDegraded
         /\ made' = [made EXCEPT ![c] = [id |-> want[r], cred |-> cred[want[r]], degraded |-> d]]
         /\ held' = [held EXCEPT ![c] = want[r] \notin EngineOnly]
         /\ inner' = [inner EXCEPT ![r] = c]
    /\ pc' = [pc EXCEPT ![r] = "put"]
    /\ UNCHANGED <<cred, binding, cache, lru, count, deferred, closing, want, fp,
                   attempt, stmts, todo, victim>>

\* Mutant of EntryFor: the fingerprint is taken when the entry is stored.
EntryForNow(r) ==
    [conn |-> inner[r], fp |-> cred[want[r]], degraded |-> made[inner[r]].degraded,
     old |-> FALSE]

EntryFor(r) ==
    [conn |-> inner[r], fp |-> fp[r], degraded |-> made[inner[r]].degraded, old |-> FALSE]

Limit == IF MaxEntries < 1 THEN 1 ELSE MaxEntries

\* How many entries are popped from the front of the order.
Excess(order) == IF Len(order) > Limit THEN Len(order) - Limit ELSE 0

Overflow(order) == {order[k] : k \in 1..Excess(order)}

\* Mutant of CachePut: the replaced entry is dropped and not disposed.
CachePutForgetsReplaced(r) ==
    LET order == Append(Without(lru, want[r]), want[r])
        out == Overflow(order)
    IN
    /\ pc[r] = "put"
    /\ cache' = [i \in Ids |-> IF i = want[r] THEN EntryFor(r)
                               ELSE IF i \in out THEN NoEntry ELSE cache[i]]
    /\ lru' = SubSeq(order, Excess(order) + 1, Len(order))
    /\ todo' = [todo EXCEPT ![r] = {cache[i].conn : i \in Cached \cap out}]
    /\ fp' = [fp EXCEPT ![r] = 0]
    /\ pc' = [pc EXCEPT ![r] = IF todo'[r] = {} THEN Resume(r) ELSE "evict"]
    /\ UNCHANGED <<cred, binding, made, held, count, deferred, closing, want, inner,
                   attempt, stmts, victim>>

CachePut(r) ==
    LET order == Append(Without(lru, want[r]), want[r])
        out == Overflow(order)
    IN
    /\ pc[r] = "put"
    /\ cache' = [i \in Ids |-> IF i = want[r] THEN EntryFor(r)
                               ELSE IF i \in out THEN NoEntry ELSE cache[i]]
    /\ lru' = SubSeq(order, Excess(order) + 1, Len(order))
    /\ todo' = [todo EXCEPT ![r] = {cache[i].conn : i \in Cached \cap (out \cup {want[r]})}]
    /\ fp' = [fp EXCEPT ![r] = 0]
    /\ pc' = [pc EXCEPT ![r] = IF todo'[r] = {} THEN Resume(r) ELSE "evict"]
    /\ UNCHANGED <<cred, binding, made, held, count, deferred, closing, want, inner,
                   attempt, stmts, victim>>

\* invalidate_connector_cache of one id.
Invalidate(t, i) ==
    /\ pc[t] = "idle"
    /\ i \in Cached
    /\ cache' = [cache EXCEPT ![i] = NoEntry]
    /\ lru' = Without(lru, i)
    /\ todo' = [todo EXCEPT ![t] = {cache[i].conn}]
    /\ pc' = [pc EXCEPT ![t] = "sweep"]
    /\ UNCHANGED <<cred, binding, made, held, count, deferred, closing, turnVars, victim>>

\* invalidate_connector_cache of everything.
InvalidateAll(t) ==
    /\ pc[t] = "idle"
    /\ Cached # {}
    /\ cache' = [i \in Ids |-> NoEntry]
    /\ lru' = <<>>
    /\ todo' = [todo EXCEPT ![t] = {cache[i].conn : i \in Cached}]
    /\ pc' = [pc EXCEPT ![t] = "sweep"]
    /\ UNCHANGED <<cred, binding, made, held, count, deferred, closing, turnVars, victim>>

----------------------------------------------------------------------------
(* Disposing: DatabaseConnector.close, and _release outside the use lock.  *)

Disposing(t) == pc[t] \in {"drop", "evict", "sweep"}

\* Where a thread goes after its last disposal.
After(t) == CASE pc[t] = "drop" -> "build"
              [] pc[t] = "evict" -> Resume(t)
              [] pc[t] = "sweep" -> "idle"
              [] OTHER -> "ready"

\* Mutant of CloseMarks: closing is recomputed by the release, when the
\* handle is already cleared, and so never set here.
NeverMarked(c) == closing[c]

\* The new value of closing: monotone, and set only where a handle is held.
CloseMarks(c) == closing[c] \/ (IsHandle(c) /\ held[c])

\* Somebody is mid-call: leave the release to whoever leaves last.
CloseDeferred(t, c) ==
    /\ Disposing(t) /\ victim[t] = NoConn /\ c \in todo[t]
    /\ count[c] > 0
    /\ closing' = [closing EXCEPT ![c] = CloseMarks(c)]
    /\ deferred' = [deferred EXCEPT ![c] = TRUE]
    /\ todo' = [todo EXCEPT ![t] = @ \ {c}]
    /\ pc' = [pc EXCEPT ![t] = IF todo'[t] = {} THEN After(t) ELSE @]
    /\ UNCHANGED <<cred, binding, cache, lru, made, held, count, turnVars, victim>>

CloseNow(t, c) ==
    /\ Disposing(t) /\ victim[t] = NoConn /\ c \in todo[t]
    /\ count[c] = 0
    /\ closing' = [closing EXCEPT ![c] = CloseMarks(c)]
    /\ todo' = [todo EXCEPT ![t] = @ \ {c}]
    /\ victim' = [victim EXCEPT ![t] = c]
    /\ UNCHANGED <<cred, binding, cache, lru, made, held, count, deferred, pc, turnVars>>

\* _release: the handle is cleared and closed; an engine's pool is
\* disposed, which leaves a connection that is checked out alone.
Release(t) ==
    /\ victim[t] # NoConn
    /\ held' = [held EXCEPT ![victim[t]] = @ /\ ~IsHandle(victim[t]) /\ count[victim[t]] > 0]
    /\ victim' = [victim EXCEPT ![t] = NoConn]
    /\ pc' = [pc EXCEPT ![t] = IF todo[t] = {} THEN After(t) ELSE @]
    /\ UNCHANGED <<cred, binding, cache, lru, made, count, deferred, closing, turnVars, todo>>

----------------------------------------------------------------------------
(* Using: PermittedConnector._active around one statement.                 *)

BeginStatement(r) ==
    /\ pc[r] = "ready"
    /\ stmts[r] < MaxStatements
    /\ stmts' = [stmts EXCEPT ![r] = @ + 1]
    /\ pc' = [pc EXCEPT ![r] = "enter"]
    /\ UNCHANGED <<cred, binding, poolVars, want, fp, inner, attempt, todo, victim>>

\* in_use: counted under the use lock. Using an engine fills its pool.
EnterUse(r) ==
    /\ pc[r] = "enter"
    /\ ~closing[inner[r]]
    /\ count' = [count EXCEPT ![inner[r]] = @ + 1]
    /\ held' = [held EXCEPT ![inner[r]] = @ \/ ~IsHandle(inner[r])]
    /\ attempt' = [attempt EXCEPT ![r] = 0]
    /\ pc' = [pc EXCEPT ![r] = "running"]
    /\ UNCHANGED <<cred, binding, cache, lru, made, deferred, closing, want, fp, inner,
                   stmts, todo, victim>>

\* Mutant of EnterReopens: the attempts are not bounded.
EnterReopensUnbounded(r) ==
    /\ pc[r] = "enter"
    /\ closing[inner[r]]
    /\ attempt' = [attempt EXCEPT ![r] = @ + 1]
    /\ pc' = [pc EXCEPT ![r] = "reread"]
    /\ UNCHANGED <<cred, binding, poolVars, want, fp, inner, stmts, todo, victim>>

\* ConnectorClosed with an attempt to spare: reopen the same id.
EnterReopens(r) ==
    /\ pc[r] = "enter"
    /\ closing[inner[r]]
    /\ attempt[r] < ReopenAttempts - 1
    /\ attempt' = [attempt EXCEPT ![r] = @ + 1]
    /\ pc' = [pc EXCEPT ![r] = "reread"]
    /\ UNCHANGED <<cred, binding, poolVars, want, fp, inner, stmts, todo, victim>>

\* ConnectorClosed on the last attempt reaches the caller.
EnterRaises(r) ==
    /\ pc[r] = "enter"
    /\ closing[inner[r]]
    /\ attempt[r] = ReopenAttempts - 1
    /\ attempt' = [attempt EXCEPT ![r] = 0]
    /\ pc' = [pc EXCEPT ![r] = "ready"]
    /\ UNCHANGED <<cred, binding, poolVars, want, fp, inner, stmts, todo, victim>>

\* Mutant of LeavesLast: anyone who leaves releases.
LeavesFirst(c) == deferred[c]

\* Mutant of LeavesLast: the count is tested before it is decremented.
LeavesLastBeforeDecrement(c) == count[c] <= 0 /\ deferred[c]

\* Does the statement leaving c owe it the deferred release?
LeavesLast(c) == count[c] - 1 <= 0 /\ deferred[c]

\* The statement ends, with rows or an error.
Leave(r) ==
    LET c == inner[r] IN
    /\ pc[r] = "running"
    /\ count' = [count EXCEPT ![c] = @ - 1]
    /\ deferred' = [deferred EXCEPT ![c] = @ /\ ~LeavesLast(c)]
    /\ victim' = [victim EXCEPT ![r] = IF LeavesLast(c) THEN c ELSE NoConn]
    /\ pc' = [pc EXCEPT ![r] = IF LeavesLast(c) THEN "leave" ELSE "ready"]
    /\ UNCHANGED <<cred, binding, cache, lru, made, held, closing, turnVars, todo>>

\* The turn is over and its wrapper out of scope: its close() is a no-op.
Finish(r) ==
    /\ pc[r] = "ready"
    /\ pc' = [pc EXCEPT ![r] = "done"]
    /\ want' = [want EXCEPT ![r] = NoId]
    /\ inner' = [inner EXCEPT ![r] = NoConn]
    /\ stmts' = [stmts EXCEPT ![r] = 0]
    /\ UNCHANGED <<cred, binding, poolVars, fp, attempt, todo, victim>>

----------------------------------------------------------------------------
RequestStep(r) ==
    \/ OpenRead(r) \/ ReopenRead(r) \/ OpenFails(r)
    \/ CacheMiss(r) \/ CacheHit(r) \/ CacheStale(r)
    \/ Build(r) \/ CachePut(r)
    \/ BeginStatement(r) \/ EnterUse(r) \/ EnterReopens(r) \/ EnterRaises(r)
    \/ Leave(r) \/ Finish(r)

DisposeStep(t) ==
    \/ \E c \in Conns : CloseDeferred(t, c) \/ CloseNow(t, c)
    \/ Release(t)

Outside ==
    \/ \E i \in Ids : Rotate(i) \/ Age(i)
    \/ \E r \in Requests, i \in Ids : Rebind(r, i)
    \/ \E t \in Callers, i \in Ids : Invalidate(t, i)
    \/ \E t \in Callers : InvalidateAll(t)

Next ==
    \/ \E r \in Requests : RequestStep(r)
    \/ \E t \in Threads : DisposeStep(t)
    \/ Outside

\* A thread that can take a step takes one: statements end, by their answer
\* or their timeout. Nothing is assumed of operators or of the clock.
Fairness ==
    /\ \A r \in Requests : WF_vars(RequestStep(r))
    /\ \A t \in Threads : WF_vars(DisposeStep(t))

Spec == Init /\ [][Next]_vars
FairSpec == Spec /\ Fairness

----------------------------------------------------------------------------
(* Properties.                                                             *)

PoolTypeOK ==
    /\ cache \in [Ids -> Entry \cup {NoEntry}]
    /\ lru \in Seq(Ids)
    /\ made \in [Conns -> Made \cup {Unbuilt}]
    /\ held \in [Conns -> BOOLEAN]
    /\ count \in [Conns -> Nat]
    /\ deferred \in [Conns -> BOOLEAN]
    /\ closing \in [Conns -> BOOLEAN]

ThreadTypeOK ==
    /\ pc \in [Threads -> RequestPCs \cup CallerPCs]
    /\ \A r \in Requests : pc[r] \in RequestPCs
    /\ \A t \in Callers : pc[t] \in CallerPCs
    /\ todo \in [Threads -> SUBSET Conns]
    /\ victim \in [Threads -> Conns \cup {NoConn}]

TurnTypeOK ==
    /\ want \in [Requests -> Ids \cup {NoId}]
    /\ fp \in [Requests -> 0..MaxCred]
    /\ inner \in [Requests -> Conns \cup {NoConn}]
    /\ attempt \in [Requests -> 0..(ReopenAttempts - 1)]
    /\ stmts \in [Requests -> 0..MaxStatements]

\* The types of the variables; a statement never makes more than
\* ReopenAttempts attempts.
TypeOK ==
    /\ cred \in [Ids -> 0..MaxCred]
    /\ binding \in [Requests -> Ids]
    /\ PoolTypeOK /\ ThreadTypeOK /\ TurnTypeOK

\* An eviction, a replacement or an invalidation never closes the session a
\* running statement is using (in_use and close of base.py).
StatementKeepsSession ==
    \A r \in Requests : pc[r] = "running" => held[inner[r]]

\* Who will close connector c: the cache, a request about to store it, a
\* thread that has popped it, the last statement running on it, or a thread
\* that is releasing it now.
Custodians(c) ==
    {<<"cache", i>> : i \in {i \in Cached : cache[i].conn = c}}
    \cup {<<"put", r>> : r \in {r \in Requests : pc[r] = "put" /\ inner[r] = c}}
    \cup {<<"todo", t>> : t \in {t \in Threads : c \in todo[t]}}
    \cup {<<"victim", t>> : t \in {t \in Threads : victim[t] = c}}
    \cup (IF deferred[c] THEN {<<"deferred", c>>} ELSE {})

\* Every session that is open is somebody's to close, and nothing is closed
\* twice: at any moment one place at most owes a connector its close, and a
\* raw handle nobody owes a close to is closed already (_cache_put and
\* _cache_get dispose outside the lock what they popped under it).
OneCustodian ==
    \A c \in Conns :
        /\ Cardinality(Custodians(c)) <= 1
        /\ held[c] /\ IsHandle(c) => Custodians(c) # {}

\* The recency order and the entries agree, and the pool keeps its size.
PoolOrder ==
    /\ Len(lru) = Cardinality(Cached)
    /\ {lru[k] : k \in DOMAIN lru} = Cached
    /\ Len(lru) <= Limit

Wrapped(r) == pc[r] \in {"put", "evict", "ready", "enter", "running", "leave"}

\* A wrapper is never handed a credential older than the one stored when the
\* open (or reopen) that hands it over read the file: a rotation reaches the
\* next open, whatever opens were under way when it came, because each of
\* them took its fingerprint before it read its password.
CredentialAsFresh ==
    [][\A r \in Requests :
           inner'[r] \notin {inner[r], NoConn}
               => made'[inner'[r]].cred >= fp[r]]_vars

\* A connector of a class resolved by default is never handed to a second
\* request.
DegradedNotShared ==
    \A r, s \in Requests :
        r # s /\ Wrapped(r) /\ Wrapped(s) /\ inner[r] = inner[s]
            => ~made[inner[r]].degraded

\* A wrapper that reopens stays on the database it was opened for, whatever
\* its agent has been bound to since.
PinnedDatabase ==
    [][\A r \in Requests : inner[r] # NoConn /\ inner'[r] # NoConn
           => made'[inner'[r]].id = made[inner[r]].id]_vars

\* The cache is what its callers take it for: it alone closes what it holds, its
\* order is that of its entries, and a connector that could not tell its database
\* apart is nobody else's.
CacheHolds == OneCustodian /\ PoolOrder /\ DegradedNotShared

\* A turn runs on the database its agent had when it began, with the credential
\* in force when its connector was last looked up.
OpensAsAsked == PinnedDatabase /\ CredentialAsFresh

\* A connector the pool has closed: built, and neither cached nor waiting
\* to be stored, disposed or released.
Retired(c) ==
    /\ Built(c)
    /\ \A i \in Cached : cache[i].conn # c
    /\ \A r \in Requests : ~(pc[r] = "put" /\ inner[r] = c)
    /\ \A t \in Threads : c \notin todo[t] /\ victim[t] # c

\* "Never a silent fall back to the released connector, which would mean
\* querying with a credential the cache has already retired": no statement
\* starts on a connector the pool has closed and whose credential has been
\* replaced.
RetiredCredentialNeverQueried ==
    [][\A r \in Requests :
           pc[r] = "enter" /\ pc'[r] = "running" /\ Retired(inner[r])
               => made[inner[r]].cred = cred[made[inner[r]].id]]_vars

\* A handle somebody asked to close is closed in the end, however many
\* statements were running on it.
ClosesInTheEnd == \A c \in Conns : closing[c] ~> ~held[c]

\* Every turn ends: reopening is bounded, and no thread waits for another.
TurnEnds == \A r \in Requests : <>(pc[r] = "done")

\* LIVENESS. Whatever is closed under whomever, the pool comes to rest: connectors are
\* released and turns end.
PoolSettles == ClosesInTheEnd /\ TurnEnds

----------------------------------------------------------------------------
\* The pool as a lease on database sessions (SessionLease.tla).
LeaseState == [c \in Conns |->
    IF ~IsHandle(c) THEN "absent"
    ELSE IF ~held[c] THEN "closed"
    ELSE IF closing[c] THEN "retired" ELSE "open"]
LeaseUsers == [c \in Conns |-> IF IsHandle(c) THEN Users(c) ELSE {}]

Lease == INSTANCE SessionLease WITH state <- LeaseState, users <- LeaseUsers

\* For connectors with a raw handle the pool implements the lease.
ImplementsLease == Lease!Spec
=============================================================================
