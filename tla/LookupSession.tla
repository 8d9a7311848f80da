--------------------------- MODULE LookupSession ---------------------------
(***************************************************************************)
(* The value lookups of literal grounding (orchestrator/                   *)
(* literal_grounding.py): one _Session per call of ground_literals, whose  *)
(* database calls run on daemon threads and are abandoned at a deadline,   *)
(* and one cache of outcomes all sessions share.  A session has a          *)
(* coroutine, at most one call on a thread, and a connector opened from    *)
(* the LookupSource that connectors/loader.py made for it.                 *)
(*                                                                         *)
(* A literal's outcome is abstracted to what it was computed from: the     *)
(* database, and the rows the connector's row filter lets through.         *)
(***************************************************************************)
EXTENDS Naturals, FiniteSets

CONSTANTS
    Sessions,    \* calls of ground_literals
    Databases,   \* what the agent's entry in connectors.yaml may name
    Filters,     \* the row filters of the requests; Unfiltered is core's wrapper
    Unfiltered,
    Undeclared,  \* the filters whose wrapper declares no cache_scope
    MaxCalls,    \* of each session: the literals and further statements it may take
                 \* (_MAX_LITERALS, and at most four statements for each)
    Rebinds,     \* bound on the edits of the agent's entry
    Refusals,    \* bound on the threads that cannot be started
    NoAnswer

AnswerLook == [db : Databases, filter : Filters]

ASSUME LookupAssumption ==
    /\ Databases # {} /\ Unfiltered \in Filters /\ Undeclared \subseteq Filters \ {Unfiltered}
    /\ MaxCalls \in [Sessions -> Nat] /\ Rebinds \in Nat /\ Refusals \in Nat
    /\ NoAnswer \notin AnswerLook

VARIABLES
    entry,     \* the database of the agent's entry now
    rebinds, refusals,
    lookMemory,    \* _cache: the outcome kept under a source key and a scope
    key,       \* LookupSource.key, which names the database of the entry read
    filter,    \* the row filter of the request
    coPc,      \* where the coroutine is in ground_literals
    left,      \* literals still to look at
    thread,    \* the session's call: what its thread does
    succeeded, \* what the call came back with: rows or a connector, or an error
    connector, \* what the connector was opened on; NoAnswer for _connector = None
    life,      \* the connector object: "absent", "open" or "closed"
    running, isClosed \* _running, _closed

lookVars == <<entry, rebinds, refusals, lookMemory, key, filter, coPc, left, thread, succeeded,
              connector, life, running, isClosed>>
shared == <<entry, rebinds, refusals, lookMemory>>
request == <<key, filter>>
flags == <<running, isClosed>>

Scopes == Filters \ Undeclared

LookInit ==
    /\ entry = CHOOSE d \in Databases : TRUE
    /\ rebinds = 0 /\ refusals = 0
    /\ lookMemory = [k \in Databases \X Scopes |-> NoAnswer]
    /\ key = [s \in Sessions |-> entry]
    /\ filter = [s \in Sessions |-> Unfiltered]
    /\ coPc = [s \in Sessions |-> "idle"]
    /\ left = MaxCalls
    /\ thread = [s \in Sessions |-> "none"]
    /\ succeeded = [s \in Sessions |-> FALSE]
    /\ connector = [s \in Sessions |-> NoAnswer]
    /\ life = [s \in Sessions |-> "absent"]
    /\ running = [s \in Sessions |-> 0]
    /\ isClosed = [s \in Sessions |-> FALSE]

CoTo(s, place) == coPc' = [coPc EXCEPT ![s] = place]
ThreadTo(s, place) == thread' = [thread EXCEPT ![s] = place]

----------------------------------------------------------------------------
(* The agent's entry, and the outcomes kept for _CACHE_TTL_S.              *)

RebindLook(d) ==
    /\ rebinds < Rebinds /\ d # entry
    /\ entry' = d
    /\ rebinds' = rebinds + 1
    /\ UNCHANGED <<refusals, lookMemory, request, coPc, left, thread, succeeded, connector, life,
                   flags>>

\* An outcome grows too old, or is the one least recently used of _MAX_CACHED.
Forget(d, f) ==
    /\ lookMemory[<<d, f>>] # NoAnswer
    /\ lookMemory' = [lookMemory EXCEPT ![<<d, f>>] = NoAnswer]
    /\ UNCHANGED <<entry, rebinds, refusals, request, coPc, left, thread, succeeded, connector,
                   life, flags>>

----------------------------------------------------------------------------
(* The coroutine.                                                          *)

\* lookup_source reads the entry; grounding begins once the statement parses.
Begin(s) ==
    /\ coPc[s] = "idle"
    /\ key' = [key EXCEPT ![s] = entry]
    /\ \E f \in Filters : filter' = [filter EXCEPT ![s] = f]
    /\ CoTo(s, "next")
    /\ UNCHANGED <<shared, left, thread, succeeded, connector, life, flags>>

\* _in_thread counts the call and starts its thread, and waits for it.
SubmitLook(s, call, place) ==
    /\ ThreadTo(s, call)
    /\ running' = [running EXCEPT ![s] = @ + 1]
    /\ CoTo(s, place)

\* The next literal: its column's stored values decide it without the
\* database, or the connector is opened to learn the scope.
NextLiteral(s) ==
    /\ coPc[s] = "next"
    /\ left[s] > 0
    /\ left' = [left EXCEPT ![s] = @ - 1]
    /\ \/ UNCHANGED <<coPc, thread, running>>
       \/ connector[s] = NoAnswer /\ SubmitLook(s, "opening", "opening")
       \/ connector[s] # NoAnswer /\ CoTo(s, "scoped") /\ UNCHANGED <<thread, running>>
    /\ UNCHANGED <<shared, request, succeeded, connector, life, isClosed>>

Declares(s) == filter[s] \notin Undeclared

\* Mutant of Cacheable: a wrapper that declares no scope is taken for core's.
CacheableAnyway(s) == TRUE

\* cache_scope is not None.
Cacheable(s) == Declares(s)

\* The scope the outcome is kept under; `scope or ""` of a wrapper that
\* declares none would be core's.
ScopeOf(s) == IF Declares(s) THEN filter[s] ELSE Unfiltered

Kept(s) == IF Cacheable(s) THEN lookMemory[<<key[s], ScopeOf(s)>>] ELSE NoAnswer

\* _cached has the outcome, which is applied.
Hit(s) ==
    /\ coPc[s] = "scoped"
    /\ Kept(s) # NoAnswer
    /\ CoTo(s, "next")
    /\ UNCHANGED <<shared, request, left, thread, succeeded, connector, life, flags>>

\* The first statement of _look_up.
Miss(s) ==
    /\ coPc[s] = "scoped"
    /\ Kept(s) = NoAnswer
    /\ SubmitLook(s, "querying", "querying")
    /\ UNCHANGED <<shared, request, left, succeeded, connector, life, isClosed>>

\* Between the count and the thread: the call raises and is never counted
\* down. An open that raises ends the session's lookups, a query does not.
ThreadRefused(s) ==
    /\ coPc[s] \in {"next", "scoped"} /\ refusals < Refusals
    /\ coPc[s] = "next" => left[s] > 0 /\ connector[s] = NoAnswer
    /\ coPc[s] = "scoped" => Kept(s) = NoAnswer
    /\ refusals' = refusals + 1
    /\ running' = [running EXCEPT ![s] = @ + 1]
    /\ CoTo(s, IF coPc[s] = "next" THEN "done" ELSE "next")
    /\ UNCHANGED <<entry, rebinds, lookMemory, request, left, thread, succeeded, connector, life,
                   isClosed>>

LookAnswered(s) == thread[s] = "returned"

\* The open came back: the scope is asked for, or nothing more is tried.
Opened(s) ==
    /\ coPc[s] = "opening" /\ LookAnswered(s)
    /\ CoTo(s, IF succeeded[s] THEN "scoped" ELSE "done")
    /\ ThreadTo(s, "none")
    /\ UNCHANGED <<shared, request, left, succeeded, connector, life, running, isClosed>>

\* A query's rows call for another one (exact, loose, containing, every value).
AnotherQuery(s) ==
    /\ coPc[s] = "querying" /\ LookAnswered(s) /\ succeeded[s]
    /\ left[s] > 0
    /\ left' = [left EXCEPT ![s] = @ - 1]
    /\ SubmitLook(s, "querying", "querying")
    /\ UNCHANGED <<shared, request, succeeded, connector, life, isClosed>>

\* The outcome is remembered when it may be, and applied; an error gives none.
Concluded(s) ==
    /\ coPc[s] = "querying" /\ LookAnswered(s)
    /\ lookMemory' = IF succeeded[s] /\ Cacheable(s)
                 THEN [lookMemory EXCEPT ![<<key[s], ScopeOf(s)>>] = connector[s]]
                 ELSE lookMemory
    /\ CoTo(s, "next")
    /\ ThreadTo(s, "none")
    /\ UNCHANGED <<entry, rebinds, refusals, request, left, succeeded, connector, life, flags>>

\* The deadline passes while a call runs, which is abandoned; the session
\* takes no more lookups.
Abandon(s) ==
    /\ coPc[s] \in {"opening", "querying"} /\ ~LookAnswered(s)
    /\ CoTo(s, "done")
    /\ UNCHANGED <<shared, request, left, thread, succeeded, connector, life, running, isClosed>>

\* No literal is left, the session is not usable, the deadline has passed
\* between two literals, or the request is cancelled.
LeaveLook(s) ==
    /\ coPc[s] \in {"next", "scoped", "opening", "querying"}
    /\ CoTo(s, "done")
    /\ ThreadTo(s, IF LookAnswered(s) THEN "none" ELSE thread[s])
    /\ UNCHANGED <<shared, request, left, succeeded, connector, life, flags>>

\* Mutant of SessionIdle: close does not look for a call still running.
AlwaysIdle(s) == TRUE

SessionIdle(s) == running[s] = 0

\* close: what was opened is released now if no call is running.
Close(s) ==
    /\ coPc[s] = "done"
    /\ isClosed' = [isClosed EXCEPT ![s] = TRUE]
    /\ CoTo(s, IF SessionIdle(s) THEN "releasing" ELSE "over")
    /\ UNCHANGED <<shared, request, left, thread, succeeded, connector, life, running>>

\* _release takes the connector from the session, and closes it.
Released(s) ==
    /\ connector' = [connector EXCEPT ![s] = NoAnswer]
    /\ life' = [life EXCEPT ![s] = IF connector[s] # NoAnswer THEN "closed" ELSE @]

CloseReleases(s) ==
    /\ coPc[s] = "releasing"
    /\ Released(s)
    /\ CoTo(s, "over")
    /\ UNCHANGED <<shared, request, left, thread, succeeded, flags>>

----------------------------------------------------------------------------
(* The thread: _counted around _open and _execute.                         *)

\* The seam resolves the agent's entry as it is when it is called; the
\* connector comes from the request's own wrapper. Or it cannot be opened.
OpenReturns(s) ==
    /\ thread[s] = "opening"
    /\ \/ /\ connector' = [connector EXCEPT ![s] = [db |-> entry, filter |-> filter[s]]]
          /\ life' = [life EXCEPT ![s] = "open"]
          /\ succeeded' = [succeeded EXCEPT ![s] = TRUE]
       \/ succeeded' = [succeeded EXCEPT ![s] = FALSE] /\ UNCHANGED <<connector, life>>
    /\ ThreadTo(s, "counting")
    /\ UNCHANGED <<shared, request, coPc, left, flags>>

QueryReturns(s) ==
    /\ thread[s] = "querying"
    /\ \E ok \in BOOLEAN : succeeded' = [succeeded EXCEPT ![s] = ok]
    /\ ThreadTo(s, "counting")
    /\ UNCHANGED <<shared, request, coPc, left, connector, life, flags>>

\* The session was closed while this, its last call, was running.
LastOne(s) == isClosed[s] /\ running[s] = 1

CountDown(s) ==
    /\ thread[s] = "counting"
    /\ running' = [running EXCEPT ![s] = @ - 1]
    /\ ThreadTo(s, IF LastOne(s) THEN "releasing"
                   ELSE IF coPc[s] \in {"opening", "querying"} THEN "returned" ELSE "none")
    /\ UNCHANGED <<shared, request, coPc, left, succeeded, connector, life, isClosed>>

ThreadReleases(s) ==
    /\ thread[s] = "releasing"
    /\ Released(s)
    /\ ThreadTo(s, "none")
    /\ UNCHANGED <<shared, request, coPc, left, succeeded, flags>>

CoStep(s) ==
    \/ Begin(s) \/ NextLiteral(s) \/ Hit(s) \/ Miss(s) \/ ThreadRefused(s)
    \/ Opened(s) \/ AnotherQuery(s) \/ Concluded(s)
    \/ Abandon(s) \/ LeaveLook(s) \/ Close(s) \/ CloseReleases(s)

ThreadStep(s) == OpenReturns(s) \/ QueryReturns(s) \/ CountDown(s) \/ ThreadReleases(s)

LookNext ==
    \/ \E d \in Databases : RebindLook(d) \/ \E f \in Scopes : Forget(d, f)
    \/ \E s \in Sessions : CoStep(s) \/ ThreadStep(s)

\* The event loop runs what is ready and fires the deadline's timer, and a
\* call on a thread returns, if only by its driver's timeout.
LookFairness(s) == WF_lookVars(coPc[s] # "idle" /\ CoStep(s)) /\ WF_lookVars(ThreadStep(s))

LookSpec == LookInit /\ [][LookNext]_lookVars /\ \A s \in Sessions : LookFairness(s)

----------------------------------------------------------------------------
(* Properties.                                                             *)

\* The types of the variables; a session has at most one call running.
LookTypeOK ==
    /\ entry \in Databases /\ rebinds \in 0..Rebinds /\ refusals \in 0..Refusals
    /\ lookMemory \in [Databases \X Scopes -> AnswerLook \cup {NoAnswer}]
    /\ key \in [Sessions -> Databases] /\ filter \in [Sessions -> Filters]
    /\ coPc \in [Sessions -> {"idle", "next", "opening", "scoped", "querying", "done",
                             "releasing", "over"}]
    /\ left \in [Sessions -> Nat] /\ \A s \in Sessions : left[s] <= MaxCalls[s]
    /\ thread \in [Sessions -> {"none", "opening", "querying", "counting", "returned",
                               "releasing"}]
    /\ succeeded \in [Sessions -> BOOLEAN]
    /\ connector \in [Sessions -> AnswerLook \cup {NoAnswer}]
    /\ life \in [Sessions -> {"absent", "open", "closed"}]
    /\ running \in [Sessions -> 0..(1 + Refusals)]
    /\ isClosed \in [Sessions -> BOOLEAN]

\* No connector is closed under a statement still running on it, whoever
\* comes last, close or the abandoned call (the docstring of _Session).
NoCloseUnderQuery ==
    \A s \in Sessions : thread[s] = "querying" => life[s] = "open" /\ connector[s] # NoAnswer

\* No request is given a value it could not see: an outcome another request
\* left behind was computed under this one's row filter.
ServedUnderOwnFilter ==
    [][\A s \in Sessions : Hit(s) => Kept(s).filter = filter[s]]_lookVars

\* Two databases never share an answer (the comment on _CacheKey): every
\* outcome kept under a source's key was computed on the database it names.
KeptUnderItsDatabase ==
    \A d \in Databases, f \in Scopes : lookMemory[<<d, f>>] # NoAnswer => lookMemory[<<d, f>>].db = d

\* What was opened is released in the end, an open that outlives its session
\* included, unless a thread could not be started: its call stays counted.
ConnectorReleased ==
    \A s \in Sessions : life[s] = "open" ~> life[s] = "closed" \/ refusals > 0
=============================================================================
