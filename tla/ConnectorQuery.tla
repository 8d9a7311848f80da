--------------------------- MODULE ConnectorQuery ---------------------------
(***************************************************************************)
(* Calls of execute_query that overlap on one pooled connector             *)
(* (connectors/*.py).  A connector is described by how it runs a query:    *)
(* one session for its lifetime or a connection of the engine's pool per   *)
(* call, what it waits for, the transaction it opens, how that ends, what  *)
(* the database does with a schema change, and who stops a statement that  *)
(* outlasts its budget.                                                    *)
(*                                                                         *)
(* A statement may write although it reads like a SELECT: it calls a       *)
(* volatile function.  Or it is a CREATE or DROP, which some databases     *)
(* commit whatever the transaction does.  Rows, columns and times are not  *)
(* modelled, nor :memory: databases and engines without transactions.      *)
(***************************************************************************)
EXTENDS Naturals

CONSTANTS
    Queries,    \* the calls; each is one execute_query
    Connectors, \* the designs below that are checked
    NoQuery

\* Where a statement runs: the connector's one session, or the call's own.
Shared == "the session"
ServerSessions == Queries \cup {Shared}

ASSUME QueryAssumption == NoQuery \notin ServerSessions /\ Shared \notin Queries

----------------------------------------------------------------------------
(* The designs.                                                            *)

\* Mutant: timeout= instead of _statement_params, which the 5.x driver never reads.
TimeoutNotSent == [shared |-> TRUE, wait |-> "bounded", opens |-> "plain", ends |-> "rollback",
                   ddl |-> "commits", stops |-> "nothing", result |-> "cursor", retries |-> FALSE]

\* One session; a lock held from BEGIN to ROLLBACK, waited for a bounded time.
Snowflake == [shared |-> TRUE, wait |-> "bounded", opens |-> "plain", ends |-> "rollback",
              ddl |-> "commits", stops |-> "any", result |-> "cursor", retries |-> FALSE]

\* The same around SET TRANSACTION READ ONLY ... rollback, which refuses a CREATE too.
Redshift == [Snowflake EXCEPT !.opens = "readonly", !.ddl = "joins"]

\* One connection opened mode=ro, one thread at a time; a timer interrupts it.
SQLite == [shared |-> TRUE, wait |-> "forever", opens |-> "file", ends |-> "nothing",
           ddl |-> "joins", stops |-> "watchdog", result |-> "cursor", retries |-> FALSE]

\* The same without the lock; the result is read from the connection itself.
DuckDB == [SQLite EXCEPT !.wait = "none", !.result = "connection"]

\* engine.begin(): read-only, and committed when the block ends well.
Postgres == [shared |-> FALSE, wait |-> "none", opens |-> "readonly", ends |-> "commit",
             ddl |-> "joins", stops |-> "any", result |-> "cursor", retries |-> FALSE]

\* Mutant: engine.begin() where there is no read-only mode.
Begins == [Postgres EXCEPT !.opens = "plain"]

\* engine.connect() and an unconditional rollback, which undoes a DROP.  The timeout is
\* the driver's, set when it connects; a call's own is not read.
MSSQL == [Postgres EXCEPT !.opens = "plain", !.ends = "rollback"]

\* The generic connector (_run_once) on postgresql and redshift.
GenericPostgres == [Postgres EXCEPT !.ends = "rollback"]

\* On mariadb: START TRANSACTION READ ONLY, which DDL commits before it runs.
GenericMariaDB == [GenericPostgres EXCEPT !.ddl = "commits"]

\* On mysql: the same, and max_execution_time stops a SELECT only.
GenericMySQL == [GenericMariaDB EXCEPT !.stops = "selects"]

\* On oracle: no statement timeout, and one more try after ORA-01466.
GenericOracle == [GenericMariaDB EXCEPT !.stops = "nothing", !.retries = TRUE]

\* On any other dialect: the rollback alone.  Where DDL joins the transaction less can
\* happen than here.
GenericOther == [GenericMariaDB EXCEPT !.opens = "plain", !.stops = "nothing"]

\* A query job: there is no transaction.
BigQuery == [Postgres EXCEPT !.opens = "none", !.ends = "nothing"]

Designs == {Snowflake, Redshift, SQLite, DuckDB, Postgres, MSSQL, BigQuery, GenericPostgres,
            GenericMariaDB, GenericMySQL, GenericOracle, GenericOther}

\* Dialects for which _apply_statement_timeout only logs that there is none.
WithoutTimeout == {GenericOracle, GenericOther}

ASSUME ConnectorAssumption == Connectors \subseteq Designs

----------------------------------------------------------------------------

VARIABLES
    design,    \* the connector
    bounded,   \* a statement timeout applies; 0 disables it
    alters,    \* the calls whose statement is a CREATE or DROP
    queryPc,   \* [Queries -> where the call is]
    answer,    \* [Queries -> "none", "rows", "error" or "busy"]
    got,       \* [Queries -> the query whose rows it returned, or NoQuery]
    txnLock,   \* who holds _txn_lock (_lock in SQLite), or NoQuery
    tx,        \* [ServerSessions -> the transaction open on it]
    unsaved,   \* [ServerSessions -> queries whose writes are in that transaction]
    written,   \* queries whose writes were committed
    altered,   \* schema changes before which the database committed what was open
    current,   \* the query whose result the connection itself holds
    watchdog,  \* [Queries -> "off", "armed", or "due": its timer is about to interrupt]
    tries      \* [Queries -> attempts begun]

queryVars == <<design, bounded, alters, queryPc, answer, got, txnLock, tx, unsaved, written,
               altered, current, watchdog, tries>>

SessionOf(q) == IF design.shared THEN Shared ELSE q
Active(q) == queryPc[q] \in {"running", "reading"}

QueryInit ==
    /\ design \in Connectors
    /\ bounded \in BOOLEAN
    /\ alters \in SUBSET Queries
    /\ queryPc = [q \in Queries |-> "called"]
    /\ answer = [q \in Queries |-> "none"]
    /\ got = [q \in Queries |-> NoQuery]
    /\ txnLock = NoQuery
    /\ tx = [s \in ServerSessions |-> "none"]
    /\ unsaved = [s \in ServerSessions |-> {}]
    /\ written = {} /\ altered = {}
    /\ current = NoQuery
    /\ watchdog = [q \in Queries |-> "off"]
    /\ tries = [q \in Queries |-> 1]

Goes(q, step) == queryPc' = [queryPc EXCEPT ![q] = step]
Answers(q, what) == answer' = [answer EXCEPT ![q] = what]
data == <<tx, unsaved, written, altered>>
config == <<design, bounded, alters>>

----------------------------------------------------------------------------

\* execute_query, once the policy allows it: the lock, where there is one.
Acquire(q) ==
    /\ queryPc[q] = "called"
    /\ design.wait # "none" => txnLock = NoQuery
    /\ txnLock' = IF design.wait # "none" THEN q ELSE txnLock
    /\ Goes(q, "held")
    /\ UNCHANGED <<config, answer, got, data, current, watchdog, tries>>

\* acquire(timeout=lock_wait) gave up.
TurnGivenUp(q) ==
    /\ queryPc[q] = "called" /\ design.wait = "bounded" /\ txnLock # NoQuery
    /\ Answers(q, "busy") /\ Goes(q, "done")
    /\ UNCHANGED <<config, got, txnLock, data, current, watchdog, tries>>

\* BEGIN, SET TRANSACTION READ ONLY or the transaction the first statement opens.
\* One left open by a failed rollback makes BEGIN a no-op, and SET TRANSACTION, no
\* longer the first statement of its transaction, an error.
Open(q) ==
    /\ queryPc[q] = "held"
    /\ LET open == tx[SessionOf(q)] IN
       \/ /\ design.opens \in {"plain", "readonly"}
          /\ open = "none" \/ design.opens = "plain"
          /\ tx' = [tx EXCEPT ![SessionOf(q)] = IF open = "none" THEN design.opens ELSE open]
          /\ Goes(q, "opened") /\ UNCHANGED answer
       \/ /\ design.opens \in {"none", "file"}
          /\ Goes(q, "opened") /\ UNCHANGED <<tx, answer>>
       \/ Answers(q, "error") /\ Goes(q, "ending") /\ UNCHANGED tx
    /\ watchdog' = [watchdog EXCEPT ![q] =
                       IF bounded /\ design.stops = "watchdog" THEN "armed" ELSE "off"]
    /\ UNCHANGED <<config, got, txnLock, unsaved, written, altered, current, tries>>

\* A session runs one statement at a time.
Start(q) ==
    /\ queryPc[q] = "opened"
    /\ \A p \in Queries : queryPc[p] = "running" => SessionOf(p) # SessionOf(q)
    /\ Goes(q, "running")
    /\ UNCHANGED <<config, answer, got, txnLock, data, current, watchdog, tries>>

\* Where a write goes: nowhere in a read-only transaction or file, into the open
\* transaction, or into the database when the statement commits by itself.
Write(q) ==
    LET open == tx[SessionOf(q)] IN
    /\ design.opens # "file" /\ open # "readonly"
    /\ unsaved' = IF open = "plain"
                  THEN [unsaved EXCEPT ![SessionOf(q)] = @ \cup {q}] ELSE unsaved
    /\ written' = IF open = "none" THEN written \cup {q} ELSE written
    /\ UNCHANGED <<tx, altered>>

\* DDL where the database commits around it: what is open ends, read-only or not, with
\* what others left in it, and the change stands.  Of Snowflake the code only says that
\* it stands; that its server ends the open transaction as well is external.
CommitsAround(q) ==
    LET s == SessionOf(q) IN
    /\ tx' = [tx EXCEPT ![s] = "none"]
    /\ unsaved' = [unsaved EXCEPT ![s] = {}]
    /\ written' = written \cup unsaved[s]
    /\ altered' = altered \cup {q}

Execute(q) ==
    /\ queryPc[q] = "running"
    /\ IF q \in alters /\ design.ddl = "commits" THEN CommitsAround(q)
       ELSE Write(q) \/ UNCHANGED data
    /\ current' = q
    /\ Goes(q, "reading")
    /\ UNCHANGED <<config, answer, got, txnLock, watchdog, tries>>

\* The database refuses or fails the statement, or a write in a read-only one.
Fail(q) ==
    /\ Active(q)
    /\ Answers(q, "error") /\ Goes(q, "ending")
    /\ UNCHANGED <<config, got, txnLock, data, current, watchdog, tries>>

\* The statement timeout of the server, of the driver or of the job.
CancelledByServer(q) ==
    /\ bounded
    /\ design.stops = "any" \/ (design.stops = "selects" /\ q \notin alters)
    /\ Fail(q)

\* Mutant of SnapshotRefused: every refusal is retried.
RetriedAgain(q) ==
    /\ queryPc[q] = "running" /\ design.retries
    /\ tries' = [tries EXCEPT ![q] = @ + 1]
    /\ tx' = [tx EXCEPT ![SessionOf(q)] = "none"]
    /\ Goes(q, "held")
    /\ UNCHANGED <<config, answer, got, txnLock, unsaved, written, altered, current, watchdog>>

\* ORA-01466 in the first attempt: rolled back, slept, then once more.
SnapshotRefused(q) ==
    /\ queryPc[q] = "running" /\ design.retries /\ tries[q] = 1
    /\ tries' = [tries EXCEPT ![q] = 2]
    /\ tx' = [tx EXCEPT ![SessionOf(q)] = "none"]
    /\ Goes(q, "held")
    /\ UNCHANGED <<config, answer, got, txnLock, unsaved, written, altered, current, watchdog>>

\* collect(): from the call's cursor, or from whatever the connection holds.
Read(q) ==
    /\ queryPc[q] = "reading"
    /\ got' = [got EXCEPT ![q] = IF design.result = "cursor" THEN q ELSE current]
    /\ Answers(q, "rows") /\ Goes(q, "ending")
    /\ UNCHANGED <<config, txnLock, data, current, watchdog, tries>>

\* cancel() stops a timer that waits; one that is past its wait interrupts anyway.
Disarmed(q) == [watchdog EXCEPT ![q] = IF @ = "armed" THEN "off" ELSE @]

\* The finally: the transaction ends.  A rollback may fail, which leaves the one of
\* a session open; the pool resets a connection it takes back.
End(q) ==
    LET s == SessionOf(q) IN
    /\ queryPc[q] = "ending"
    /\ \/ /\ tx' = [tx EXCEPT ![s] = "none"]
          /\ unsaved' = [unsaved EXCEPT ![s] = {}]
          /\ written' = IF design.ends = "commit" /\ answer[q] = "rows"
                        THEN written \cup unsaved[s] ELSE written
          /\ UNCHANGED altered
       \/ design.shared /\ design.ends = "rollback" /\ UNCHANGED data
    /\ watchdog' = Disarmed(q)
    /\ Goes(q, "releasing")
    /\ UNCHANGED <<config, answer, got, txnLock, current, tries>>

ReleaseTurn(q) ==
    /\ queryPc[q] = "releasing"
    /\ txnLock' = IF txnLock = q THEN NoQuery ELSE txnLock
    /\ Goes(q, "done")
    /\ UNCHANGED <<config, answer, got, data, current, watchdog, tries>>

----------------------------------------------------------------------------
(* threading.Timer: its wait is over, and then conn.interrupt().           *)

\* The wait is far longer than a step of the call: only a statement outlasts it, the
\* call's own or, where nothing keeps calls apart, the one it waits behind.
Due(q) ==
    /\ watchdog[q] = "armed"
    /\ Active(q) \/ \E p \in Queries : queryPc[p] = "running"
    /\ watchdog' = [watchdog EXCEPT ![q] = "due"]
    /\ UNCHANGED <<config, queryPc, answer, got, txnLock, data, current, tries>>

\* It stops whatever statement the connection runs, and is lost if none runs.
Interrupt(q) ==
    /\ watchdog[q] = "due"
    /\ watchdog' = [watchdog EXCEPT ![q] = "off"]
    /\ \/ \E p \in Queries : Active(p) /\ Answers(p, "error") /\ Goes(p, "ending")
       \/ (\A p \in Queries : ~Active(p)) /\ UNCHANGED <<answer, queryPc>>
    /\ UNCHANGED <<config, got, txnLock, data, current, tries>>

----------------------------------------------------------------------------

QueryStep(q) ==
    \/ Acquire(q) \/ TurnGivenUp(q) \/ Open(q) \/ Start(q) \/ Execute(q) \/ Fail(q)
    \/ CancelledByServer(q) \/ SnapshotRefused(q) \/ Read(q) \/ End(q) \/ ReleaseTurn(q)
    \/ Due(q) \/ Interrupt(q)

QueryNext == \E q \in Queries : QueryStep(q)

\* A statement need not end by itself; everything the connector does, the timers
\* and the server's timeout happen.
ThreadRuns(q) == Open(q) \/ Start(q) \/ Read(q) \/ End(q) \/ ReleaseTurn(q)
TimerRuns(q) == Due(q) \/ Interrupt(q)

QueryFairness ==
    \A q \in Queries :
        /\ WF_queryVars(Acquire(q)) /\ WF_queryVars(TurnGivenUp(q))
        /\ WF_queryVars(ThreadRuns(q)) /\ WF_queryVars(TimerRuns(q))
        /\ WF_queryVars(CancelledByServer(q))

QuerySpec == QueryInit /\ [][QueryNext]_queryVars /\ QueryFairness

----------------------------------------------------------------------------

QueryTypeOK ==
    /\ design \in Connectors /\ bounded \in BOOLEAN /\ alters \subseteq Queries
    /\ queryPc \in [Queries -> {"called", "held", "opened", "running", "reading", "ending",
                                "releasing", "done"}]
    /\ answer \in [Queries -> {"none", "rows", "error", "busy"}]
    /\ got \in [Queries -> Queries \cup {NoQuery}]
    /\ txnLock \in Queries \cup {NoQuery}
    /\ tx \in [ServerSessions -> {"none", "plain", "readonly"}]
    /\ unsaved \in [ServerSessions -> SUBSET Queries] /\ written \subseteq Queries
    /\ altered \subseteq Queries
    /\ current \in Queries \cup {NoQuery}
    /\ watchdog \in [Queries -> {"off", "armed", "due"}]
    /\ tries \in [Queries -> 1..2]

\* Nothing a statement writes outlives its call, even when calls overlap on one session,
\* a rollback failed before, or the transaction is committed: wherever the connector
\* opens a transaction at all (docs/database-hardening.md:524-665).  Not covered is what
\* the document exempts, a schema change where the database commits around it; and with
\* it goes what a failed rollback left open on the one session.
NothingCommitted ==
    design.opens # "none" => written = {} \/ (design.shared /\ altered # {})

\* After a failed ROLLBACK "Nothing was committed", and "a transaction may remain open
\* ... until the next query ends it" (snowflake.py:715-717): that query may commit it.
LeftOpenIsUndone == design.opens # "none" => written = {}

\* Nothing but its own end ends the statement.
Unstopped(q) ==
    \/ ~bounded
    \/ design \in WithoutTimeout
    \/ design = GenericMySQL /\ q \in alters

\* A call returns although the statement ahead of it, or its own, never ends: with a
\* statement timeout every call; where none applies, those not in their statement, if
\* they wait for a bounded time.
CallsReturn ==
    \A q \in Queries :
        <>(\/ queryPc[q] = "done"
           \/ Active(q) /\ Unstopped(q)
           \/ ~bounded /\ design.wait = "forever")

\* "Execute ``sql`` and return a QueryResult" (duckdb.py:403, sqlite.py:280): the rows a
\* call returns are those of the statement it was given.
OwnRows == \A q \in Queries : got[q] \in {q, NoQuery}
=============================================================================
