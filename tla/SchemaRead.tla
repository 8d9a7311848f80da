------------------------------ MODULE SchemaRead ------------------------------
(***************************************************************************)
(* What the connectors read of a database besides a user's query: its      *)
(* schema (extract_schema), the statements it has run                      *)
(* (extract_query_history) and whether it answers (connection_problem).    *)
(* Each is a fixed plan of statements on one session; the server answers,  *)
(* refuses one, lacks the view it reads, or the connection is lost.        *)
(*                                                                         *)
(* A connector that reads in transactions keeps the one a refused          *)
(* statement has left aborted until it rolls back, and the connectors are  *)
(* kept across calls (loader._cache).                                      *)
(***************************************************************************)
EXTENDS Naturals, Sequences, SequencesExt

Databases == {"bigquery", "duckdb", "mssql", "postgres", "redshift", "snowflake",
              "sqlalchemy", "sqlite"}

VARIABLES
    database,  \* the kind of connector this is
    session,   \* its session: "clean", "open" (a transaction), "aborted", "gone"
    reading,      \* the operation it is in, or "none"
    plan,      \* the statements the call has yet to send
    refused,   \* history: what the server itself refused in this call
    omitted,   \* what the call goes on without
    got        \* what the last call returned or raised

schemaVars == <<database, session, reading, plan, refused, omitted, got>>

Failures == {"missing", "denied", "lost"}

\* The drivers that open a transaction of their own at a statement, and those
\* whose transaction a refused statement aborts.
Transactional == {"mssql", "postgres", "redshift"}
AbortsOnError == {"postgres", "redshift"}
\* Those whose session is checked out of an engine, or opened, at each call.
PerCall == {"mssql", "postgres", "sqlalchemy", "sqlite"}

----------------------------------------------------------------------------
(* The plans.  A statement is what it reads; of the tables of a database   *)
(* one stands for all of them.                                             *)

BigQuerySchema == <<"names", "columns">>
DuckDBSchema == <<"counts", "columns", "primary keys">>
MSSQLSchema == <<"names", "columns", "primary keys", "foreign keys">>
PostgresSchema == <<"names", "columns", "primary keys", "foreign keys">>
RedshiftSchema == <<"counts", "columns", "primary keys", "foreign keys">>
SnowflakeSchema == <<"names", "columns", "keys">>
SQLAlchemySchema == <<"names", "columns", "primary keys", "foreign keys">>
SQLiteSchema == <<"names", "foreign keys", "columns", "counts">>

SchemaPlan ==
    [bigquery |-> BigQuerySchema, duckdb |-> DuckDBSchema, mssql |-> MSSQLSchema,
     postgres |-> PostgresSchema, redshift |-> RedshiftSchema,
     snowflake |-> SnowflakeSchema, sqlalchemy |-> SQLAlchemySchema,
     sqlite |-> SQLiteSchema]

\* DuckDB, SQLAlchemy and SQLite keep no history of statements.
NoHistory == <<>>
BigQueryHistory == <<"history">>
MSSQLHistory == <<"history">>
PostgresHistory == <<"extension", "history">>
RedshiftHistory == <<"history">>
SnowflakeHistory == <<"account history">>

HistoryPlan ==
    [bigquery |-> BigQueryHistory, duckdb |-> NoHistory, mssql |-> MSSQLHistory,
     postgres |-> PostgresHistory, redshift |-> RedshiftHistory,
     snowflake |-> SnowflakeHistory, sqlalchemy |-> NoHistory, sqlite |-> NoHistory]

PlanOf == [schema  |-> SchemaPlan,
           history |-> HistoryPlan,
           probe   |-> [d \in Databases |-> <<"probe">>]]

\* What is read in place of a statement that failed.
Instead(what) ==
    CASE what = "counts" /\ database \in {"duckdb", "redshift"} -> <<"names">>
      [] what = "account history" -> <<"history">>
      [] OTHER -> <<>>

\* The statements whose failure costs the schema only what they read.  A
\* Snowflake role has keys unless their views are missing (an imported
\* database); SQLAlchemy leaves a table out whose columns cannot be read.  A
\* SQL Server connection that is lost may be a DatabaseError like any other
\* (pymssql's OperationalError), until a statement is sent on it.
MayOmit(what, how) ==
    CASE database = "mssql" -> what \in {"primary keys", "foreign keys"} /\ session # "gone"
      [] database = "redshift" -> what \in {"primary keys", "foreign keys"}
      [] database = "sqlalchemy" -> what \in {"columns", "primary keys", "foreign keys"}
      [] database = "snowflake" -> what = "keys" /\ how = "missing"
      [] database = "duckdb" -> what = "primary keys"
      [] database = "sqlite" -> what = "counts"
      [] OTHER -> FALSE

----------------------------------------------------------------------------
(* The session.                                                            *)

\* What a statement leaves of the session it was sent on.  SQLAlchemy's
\* inspector takes a connection of its own for each thing it reads, as
\* BigQuery's client does for each job.
After(how) ==
    CASE database \in {"bigquery", "sqlalchemy"} -> "clean"
      [] how = "lost" -> "gone"
      [] how # "answered" /\ database \in AbortsOnError -> "aborted"
      [] database \in Transactional -> "open"
      [] OTHER -> session

\* What may come of a statement: on an aborted transaction, or a connection
\* that is gone, none runs.
Possible ==
    CASE session = "gone" -> {"lost"}
      [] session = "aborted" -> {"denied"}
      [] OTHER -> {"answered", "missing", "denied", "lost"}

RolledBack(s) == IF s = "gone" THEN s ELSE "clean"

\* A call that goes on after a failed statement: Redshift's rolls back
\* (_end_transaction, and the rollback of _fetch_row_counts).
GoneOnFrom(s) == IF database = "redshift" THEN RolledBack(s) ELSE s

\* The way out of a call: the `with` block of an engine's connection,
\* Redshift's `finally`.
CallLeaves(s) == RolledBack(s)

----------------------------------------------------------------------------
SchemaInit ==
    /\ database \in Databases
    /\ session = "clean"
    /\ reading = "none" /\ plan = <<>>
    /\ refused = {} /\ omitted = {}
    /\ got = "nothing"

Returns == [schema |-> "schema", history |-> "history", probe |-> "no problem"]
Raises == [schema |-> "raised", history |-> "unavailable", probe |-> "problem"]

\* A call begins, on a session of its own where the connector opens one; the
\* connectors without a history answer at once that it is empty.
BeginCall(what) ==
    /\ reading = "none"
    /\ refused' = {} /\ omitted' = {}
    /\ IF PlanOf[what][database] = <<>>
       THEN got' = Returns[what] /\ UNCHANGED <<reading, plan, session>>
       ELSE /\ reading' = what
            /\ plan' = PlanOf[what][database]
            /\ session' = IF database \in PerCall THEN "clean" ELSE session
            /\ UNCHANGED got
    /\ UNCHANGED database

Sends(how) ==
    /\ reading # "none"
    /\ how \in Possible
    /\ refused' = IF how # "answered" /\ session # "aborted"
                  THEN refused \cup {Head(plan)} ELSE refused
    /\ UNCHANGED database

Ends(result, s) ==
    /\ reading' = "none" /\ plan' = <<>>
    /\ session' = CallLeaves(s)
    /\ got' = result

Continues(rest, s) ==
    IF rest = <<>> THEN Ends(Returns[reading], s)
    ELSE /\ plan' = rest
         /\ session' = s
         /\ UNCHANGED <<reading, got>>

\* The statement is answered.
ReadAnswered ==
    /\ Sends("answered")
    /\ Continues(Tail(plan), After("answered"))
    /\ UNCHANGED omitted

\* pg_stat_statements is not installed: the answer has no row.
NotInstalled ==
    /\ Sends("answered")
    /\ Head(plan) = "extension"
    /\ Ends("unavailable", After("answered"))
    /\ UNCHANGED omitted

\* The statement fails, and another is sent in its place.
FallsBack(how) ==
    /\ how # "answered"
    /\ Sends(how)
    /\ Instead(Head(plan)) # <<>>
    /\ Continues(Instead(Head(plan)) \o Tail(plan), GoneOnFrom(After(how)))
    /\ UNCHANGED omitted

\* The statement fails, and the schema does without what it reads: SQLAlchemy
\* leaves out a table whose columns it cannot read, and does not read its keys.
GoesWithout(how) ==
    /\ how # "answered"
    /\ Sends(how)
    /\ MayOmit(Head(plan), how)
    /\ omitted' = omitted \cup {Head(plan)}
    /\ Continues(IF Head(plan) = "columns" THEN <<>> ELSE Tail(plan), GoneOnFrom(After(how)))

\* The statement fails, and the call raises, or says what the problem is.
GivesUp(how) ==
    /\ how # "answered"
    /\ Sends(how)
    /\ Instead(Head(plan)) = <<>>
    /\ MayOmit(Head(plan), how) => database = "mssql" /\ how = "lost"
    /\ Ends(Raises[reading], After(how))
    /\ UNCHANGED omitted

SchemaNext ==
    \/ \E what \in {"schema", "history", "probe"} : BeginCall(what)
    \/ ReadAnswered
    \/ NotInstalled
    \/ \E how \in Failures : FallsBack(how)
    \/ \E how \in Failures : GoesWithout(how)
    \/ \E how \in Failures : GivesUp(how)

SchemaSpec == SchemaInit /\ [][SchemaNext]_schemaVars

----------------------------------------------------------------------------
SchemaTypeOK ==
    /\ database \in Databases
    /\ session \in {"clean", "open", "aborted", "gone"}
    /\ reading \in {"none", "schema", "history", "probe"}
    /\ (reading = "none") = (plan = <<>>)
    /\ got \in {"nothing", "schema", "history", "no problem", "raised", "unavailable",
                "problem"}

\* A statement that fails costs no other: whatever a schema does without was
\* refused for its own sake, and a call leaves no transaction behind it, so
\* the next query's SET TRANSACTION READ ONLY is the first of its transaction.
NothingInherited ==
    /\ omitted \subseteq refused
    /\ reading = "none" => session \in {"clean", "gone"}

\* SQL Server's connector raises when its connection has gone, and omits keys
\* only for what the login may not read (mssql.py:402-405).
GoneIsRaised ==
    database = "mssql" /\ reading = "none" /\ session = "gone" => got # "schema"
=============================================================================
