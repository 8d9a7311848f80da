------------------------------ MODULE SqlTurn ------------------------------
(***************************************************************************)
(* One turn of the SQL agent (orchestrator/orchestrator.py                 *)
(* handle_question): a statement is generated, validated, repaired and     *)
(* grounded (sql_generation.py), held against its plan line                *)
(* (grain_check.py) and against the database's plan (plan_check.py), run,  *)
(* corrected once if the database refuses it, and corrected once more if   *)
(* its rows look wrong. The caller may stop waiting at a deadline; the     *)
(* statement then runs on in its worker thread.                            *)
(*                                                                         *)
(* A statement is a model value. What the model, the database and the      *)
(* checks answer is nondeterministic; time passes between any two steps.   *)
(* The clock starts with the turn (attempt_started = 0) and one unit is    *)
(* _MIN_CORRECTION_SECONDS. A deadline or a stop of Never is none.         *)
(***************************************************************************)
EXTENDS Naturals

CONSTANTS
    Stmts,          \* statements the model may write
    Valid,          \* those that pass _validate_sql
    Pending,        \* those that hold a value stored values leave ambiguous
    Rows,           \* distinct rows a result may hold
    Confs,          \* the settings and the caller's budget a turn may have
    ExplainTimeout, \* _EXPLAIN_TIMEOUT_SECONDS
    Ceiling,        \* _NO_TIMEOUT_CEILING_SECONDS
    MaxTime,        \* bound on the clock
    NoStmt, NoJob, NoResult, NoTable

Never == MaxTime + 1

Conf == [mayExecute : BOOLEAN,   \* ExecutionPolicy.may_execute
         grounds : BOOLEAN,      \* grounds_literals, with lookups available
         ask : BOOLEAN,          \* NLQ_AMBIGUITY=ask
         grainCheck : BOOLEAN, planCheck : BOOLEAN, resultChecks : BOOLEAN,
         timeout : Nat,          \* of one statement; 0 is none
         deadline : Nat \ {0},   \* of the turn
         wall : BOOLEAN]         \* does the caller cancel the turn at it?

ASSUME StmtAssumption == Valid \subseteq Stmts /\ Pending \subseteq Stmts /\ NoStmt \notin Stmts
ASSUME ConfAssumption == Confs \subseteq Conf
ASSUME TimeAssumption == MaxTime \in Nat /\ ExplainTimeout \in Nat \ {0} /\ Ceiling \in Nat

Job == [sql : Stmts, begun : 0..MaxTime, stop : Nat]
Result == [sql : Stmts, outcome : {"rows", "refused", "named"},
           concern : {"none", "note", "repeats", "doubt"},
           whole : BOOLEAN, rows : SUBSET Rows]
Table == [kind : {"rows", "error"}, by : Stmts \cup {NoStmt}]

ASSUME NullAssumption == NoJob \notin Job /\ NoResult \notin Result /\ NoTable \notin Table

VARIABLES
    conf,   \* fixed for the turn
    now,
    pc,
    result, \* SQLGenerationResult: sql, valid, attempts
    choice, \* a choice was collected while grounding
    asked,  \* grain.asked_model \/ plan.asked_model
    draft,  \* the rewrite or correction being checked or run
    job,    \* the statement the database is running
    qr,     \* the QueryResult to report
    table,  \* sql_table of the frame
    runs,   \* history: statements run, EXPLAINs apart
    first   \* history: the first result of the turn that had rows

vars == <<conf, now, pc, result, choice, asked, draft, job, qr, table, runs, first>>

Final == {"done", "failed", "gone"}

Init ==
    /\ conf \in Confs
    /\ now = 0
    /\ pc = "generate"
    /\ result = [sql |-> NoStmt, valid |-> FALSE, attempts |-> 1]
    /\ choice = FALSE
    /\ asked = FALSE
    /\ draft = NoStmt
    /\ job = NoJob
    /\ qr = NoResult
    /\ table = NoTable
    /\ runs = 0
    /\ first = NoResult

Goto(p) == pc' = p
dbVars == <<job, qr, table, runs, first>>

----------------------------------------------------------------------------
(* The clock, and the caller.                                              *)

\* The database ends a statement at its timeout, so time does not pass it.
Tick ==
    /\ now < MaxTime
    /\ pc \notin Final \/ job # NoJob
    /\ job # NoJob => now < job.stop
    /\ now' = now + 1
    /\ UNCHANGED <<conf, pc, result, choice, asked, draft, dbVars>>

\* A caller with its own wall clock (the MCP tool's fail_after) cancels the
\* turn at the deadline; a statement in its worker thread runs on.
Cancel ==
    /\ pc \notin Final
    /\ conf.wall
    /\ now >= conf.deadline
    /\ Goto("gone")
    /\ UNCHANGED <<conf, now, result, choice, asked, draft, dbVars>>

JobEndsUnseen ==
    /\ pc = "gone"
    /\ job # NoJob
    /\ job' = NoJob
    /\ UNCHANGED <<conf, now, pc, result, choice, asked, draft, qr, table, runs, first>>

\* A model call outside any handler raises, and the turn with it.
TurnFails ==
    /\ pc \in {"generate", "repair"}
    /\ Goto("failed")
    /\ UNCHANGED <<conf, now, result, choice, asked, draft, dbVars>>

----------------------------------------------------------------------------
(* Budgets.                                                                *)

HasDeadline == conf.deadline # Never
Sooner(a, b) == IF a <= b THEN a ELSE b

\* _correction_budget: is there a unit left, and when the database stops a
\* statement given the smaller of its own timeout and the time left.
Runnable == HasDeadline => conf.deadline - now >= 1
OwnStop == IF conf.timeout = 0 THEN Never ELSE now + conf.timeout

ClampedStop == IF HasDeadline THEN Sooner(OwnStop, conf.deadline) ELSE OwnStop

\* _explain_timeout, where Runnable.
ExplainStop == Sooner(now + ExplainTimeout, IF HasDeadline THEN conf.deadline ELSE Never)

\* _room_for_rewrite: what is left must cover what the turn has cost so far.
RoomForRewrite == HasDeadline => conf.deadline - now >= 1 /\ conf.deadline - now >= now

----------------------------------------------------------------------------
(* Generation, validation and grounding: validate_and_repair.              *)

\* A reply cut off by the output budget is not complete, whatever it parses as.
Generate ==
    /\ pc = "generate"
    /\ \E s \in Stmts, cut \in BOOLEAN :
         /\ result' = [sql |-> s, valid |-> s \in Valid /\ ~cut, attempts |-> 1]
         /\ Goto(IF s \in Valid /\ ~cut THEN "ground" ELSE IF cut THEN "repair" ELSE "mend")
    /\ UNCHANGED <<conf, now, choice, asked, draft, dbVars>>

\* _try_mechanical_repair, which may find a valid statement.
Mend ==
    /\ pc = "mend"
    /\ \/ Goto("repair") /\ UNCHANGED result
       \/ \E s \in Valid : /\ result' = [result EXCEPT !.sql = s, !.valid = TRUE]
                           /\ Goto("ground")
    /\ UNCHANGED <<conf, now, choice, asked, draft, dbVars>>

\* The model's one repair, of one call or of several candidates.
Repair ==
    /\ pc = "repair"
    /\ \E s \in Stmts, cut \in BOOLEAN :
         /\ result' = [sql |-> s, valid |-> s \in Valid /\ ~cut, attempts |-> 2]
         /\ Goto(IF s \in Valid /\ ~cut THEN "reground" ELSE "clear")
    /\ UNCHANGED <<conf, now, choice, asked, draft, dbVars>>

\* What grounding may make of a valid statement: literals replaced by stored
\* values. With ask, an ambiguous one is left as it is, for the user.
Grounded(s) == {t \in Valid : conf.ask => (t \in Pending <=> s \in Pending)}

\* ground_literals; "ground" may go on to ask the model about literals that
\* match no stored value, "reground" may not. A lookup may fail.
Ground ==
    /\ pc \in {"ground", "reground"}
    /\ IF conf.grounds
       THEN \E s \in Grounded(result.sql), found \in BOOLEAN :
              /\ result' = [result EXCEPT !.sql = s]
              /\ choice' = (choice \/ (conf.ask /\ found /\ s \in Pending))
              /\ pc' \in IF pc = "ground" THEN {"literal", "grain"} ELSE {"grain"}
       ELSE Goto("grain") /\ UNCHANGED <<result, choice>>
    /\ UNCHANGED <<conf, now, asked, draft, dbVars>>

\* _repair_literals: a correction may change only literals grounding flagged,
\* never an ambiguous one, and is grounded in turn.
RepairLiterals ==
    /\ pc = "literal"
    /\ \/ Goto("grain") /\ UNCHANGED result
       \/ \E s \in {t \in Valid : t \in Pending <=> result.sql \in Pending} :
              result' = [result EXCEPT !.sql = s] /\ Goto("reground")
    /\ UNCHANGED <<conf, now, choice, asked, draft, dbVars>>

----------------------------------------------------------------------------
(* check_grain.                                                            *)

CheckGrain ==
    /\ pc = "grain"
    /\ \/ Goto("clear")
       \/ conf.grainCheck /\ RoomForRewrite /\ Goto("askGrain")
    /\ UNCHANGED <<conf, now, result, choice, asked, draft, dbVars>>

\* Replaced by a statement that is valid, different and on its plan line.
Replaces(s) ==
    result' = [sql |-> s, valid |-> TRUE, attempts |-> result.attempts + 1]

RepairToPlan ==
    /\ pc = "askGrain"
    /\ asked' = TRUE
    /\ \/ UNCHANGED result
       \/ \E s \in Valid \ {result.sql} : Replaces(s)
    /\ Goto("clear")
    /\ UNCHANGED <<conf, now, choice, draft, dbVars>>

----------------------------------------------------------------------------
(* Clearance, and the connector.                                           *)

Awaiting == choice /\ result.sql \in Pending

\* Mutant of Cleared: the statement's validity is not asked about.
ClearedByPolicy == conf.mayExecute /\ ~Awaiting

Cleared == result.valid /\ conf.mayExecute /\ ~Awaiting

Clear ==
    /\ pc = "clear"
    /\ Goto(IF Cleared THEN "open" ELSE "done")
    /\ UNCHANGED <<conf, now, result, choice, asked, draft, dbVars>>

\* Whatever raises in the execution block ends it with an error and no rows.
Raised ==
    /\ table' = [kind |-> "error", by |-> NoStmt]
    /\ Goto("done")

\* open_connector_for_agent: a connector, None, or an exception.
Open ==
    /\ pc = "open"
    /\ \/ Goto("plan") /\ UNCHANGED table
       \/ Goto("done") /\ UNCHANGED table
       \/ Raised
    /\ UNCHANGED <<conf, now, result, choice, asked, draft, job, qr, runs, first>>

----------------------------------------------------------------------------
(* check_plan.                                                             *)

Run(s, stop) ==
    /\ job' = [sql |-> s, begun |-> now, stop |-> stop]
    /\ runs' = runs + 1

Explain(s) ==
    /\ job' = [sql |-> s, begun |-> now, stop |-> ExplainStop]
    /\ UNCHANGED runs

CheckPlan ==
    /\ pc = "plan"
    /\ IF conf.planCheck /\ Runnable
       THEN Explain(result.sql) /\ Goto("explain")
       ELSE Goto("start") /\ UNCHANGED <<job, runs>>
    /\ UNCHANGED <<conf, now, result, choice, asked, draft, qr, table, first>>

\* The plan is read, or cannot be; a subquery run per row calls for a rewrite.
PlanRead ==
    /\ pc = "explain"
    /\ job' = NoJob
    /\ \/ Goto("start")
       \/ RoomForRewrite /\ Goto("askPlan")
    /\ UNCHANGED <<conf, now, result, choice, asked, draft, qr, table, runs, first>>

\* The model's rewrite; one that is valid and different has its own plan read.
RewritePlan ==
    /\ pc = "askPlan"
    /\ asked' = TRUE
    /\ \/ Goto("start") /\ UNCHANGED <<draft, job, runs>>
       \/ \E s \in Valid \ {result.sql} :
            /\ Runnable
            /\ draft' = s
            /\ Explain(s)
            /\ Goto("explainDraft")
    /\ UNCHANGED <<conf, now, result, choice, qr, table, first>>

RewriteRead ==
    /\ pc = "explainDraft"
    /\ job' = NoJob
    /\ draft' = NoStmt
    /\ \/ UNCHANGED result
       \/ Replaces(draft)
    /\ Goto("start")
    /\ UNCHANGED <<conf, now, choice, asked, qr, table, runs, first>>

----------------------------------------------------------------------------
(* The statement, and its one correction after a database error.           *)

\* Nothing runs late after a call that was not in the caller's plan.
StartStatement ==
    /\ pc = "start"
    /\ IF asked /\ ~Runnable
       THEN Raised /\ UNCHANGED <<job, runs>>
       ELSE /\ Run(result.sql, IF asked THEN ClampedStop ELSE OwnStop)
            /\ Goto("running")
            /\ UNCHANGED table
    /\ UNCHANGED <<conf, now, result, choice, asked, draft, qr, first>>

\* What the database may answer to the statement it is running: rows (a
\* repeat needs rows to repeat), an error of no known wording, or one known
\* for a permission or a timeout.
Answers ==
    {r \in Result : /\ r.sql = job.sql
                    /\ r.outcome # "rows" => r.concern = "none" /\ r.rows = {} /\ ~r.whole
                    /\ r.concern = "repeats" => r.rows # {}
                    /\ r.concern # "repeats" => ~r.whole}

Received(r) ==
    /\ qr' = r
    /\ first' = IF first = NoResult /\ r.outcome = "rows" THEN r ELSE first

\* _retry_after_error: not a permission or a timeout the driver names, not
\* with less left than was used, not after most of the statement's timeout.
RetryAfterError(r) ==
    /\ r.outcome = "refused"
    /\ HasDeadline => conf.deadline - now >= now
    /\ IF conf.timeout > 0 THEN 10 * (now - job.begun) < 9 * conf.timeout
       ELSE now - job.begun < Ceiling

StatementEnds ==
    /\ pc = "running"
    /\ \/ \E r \in Answers : /\ Received(r)
                             /\ Goto(IF RetryAfterError(r) THEN "askFix" ELSE "look")
                             /\ UNCHANGED table
       \/ Raised /\ UNCHANGED <<qr, first>>
    /\ job' = NoJob
    /\ UNCHANGED <<conf, now, result, choice, asked, draft, runs>>

\* repair_after_execution_error. One that raises, is refused by validation,
\* repeats what ran, or comes too late leaves the error to be reported.
Fix ==
    /\ pc = "askFix"
    /\ \/ Goto("look") /\ UNCHANGED <<draft, job, runs>>
       \/ \E s \in Valid \ {result.sql} :
            /\ Runnable
            /\ draft' = s
            /\ Run(s, ClampedStop)
            /\ Goto("refixing")
    /\ UNCHANGED <<conf, now, result, choice, asked, qr, table, first>>

\* Mutant of FixEnds: the frame keeps the statement that was corrected.
FixEndsKeepsStatement ==
    /\ pc = "refixing"
    /\ \E r \in Answers : Received(r)
    /\ job' = NoJob
    /\ draft' = NoStmt
    /\ Goto("look")
    /\ UNCHANGED <<conf, now, result, choice, asked, table, runs>>

\* The correction that ran is reported, with its rows or its own error.
FixEnds ==
    /\ pc = "refixing"
    /\ \/ \E r \in Answers : Received(r) /\ Replaces(draft)
       \/ UNCHANGED <<qr, first, result>>
    /\ job' = NoJob
    /\ draft' = NoStmt
    /\ Goto("look")
    /\ UNCHANGED <<conf, now, choice, asked, table, runs>>

----------------------------------------------------------------------------
(* _second_look.                                                           *)

\* sql_table_chunk of what is in hand.
Report(r) ==
    /\ table' = [kind |-> IF r.outcome = "rows" THEN "rows" ELSE "error", by |-> r.sql]
    /\ Goto("done")

Repairable(r) == r.concern \in {"repeats", "doubt"}
OnlyRepeats(r) == r.concern = "repeats"

\* Mutant of LooksAgain: the time left is not looked at.
LooksAgainLate(r) == conf.resultChecks /\ Repairable(r) /\ (OnlyRepeats(r) => r.whole)

\* May the model be asked to correct the statement for what r shows?
LooksAgain(r) ==
    /\ conf.resultChecks
    /\ Repairable(r)
    /\ Runnable
    /\ OnlyRepeats(r) => r.whole

\* A check that raises reports the rows as they ran.
Look ==
    /\ pc = "look"
    /\ \/ Report(qr)
       \/ LooksAgain(qr) /\ Goto("askLook") /\ UNCHANGED table
    /\ UNCHANGED <<conf, now, result, choice, asked, draft, job, qr, runs, first>>

AskLook ==
    /\ pc = "askLook"
    /\ \/ Report(qr) /\ UNCHANGED <<draft, job, runs>>
       \/ \E s \in Valid \ {result.sql} :
            /\ Runnable
            /\ draft' = s
            /\ Run(s, ClampedStop)
            /\ Goto("relooking")
            /\ UNCHANGED table
    /\ UNCHANGED <<conf, now, result, choice, asked, qr, first>>

\* Does the correction's result replace the one in hand?
Better(r) ==
    /\ r.outcome = "rows"
    /\ ~Repairable(r)
    /\ OnlyRepeats(qr) => qr.rows \subseteq r.rows

LookEnds ==
    /\ pc = "relooking"
    /\ \/ \E r \in Answers : Better(r) /\ qr' = r /\ Replaces(draft) /\ Report(r)
       \/ UNCHANGED <<qr, result>> /\ Report(qr)
    /\ job' = NoJob
    /\ draft' = NoStmt
    /\ UNCHANGED <<conf, now, choice, asked, runs, first>>

----------------------------------------------------------------------------
Step ==
    \/ Generate \/ Mend \/ Repair \/ Ground \/ RepairLiterals \/ TurnFails
    \/ CheckGrain \/ RepairToPlan \/ Clear \/ Open
    \/ CheckPlan \/ PlanRead \/ RewritePlan \/ RewriteRead
    \/ StartStatement \/ StatementEnds \/ Fix \/ FixEnds
    \/ Look \/ AskLook \/ LookEnds

Next == Step \/ Tick \/ Cancel \/ JobEndsUnseen

Spec == Init /\ [][Next]_vars

----------------------------------------------------------------------------
(* Properties.                                                             *)

ModelCalls == {"askGrain", "askPlan", "askFix", "askLook"}

\* The types of the variables, and the bounds of a turn: three statements,
\* however many of them the database refuses, and six attempts (AttemptsAtMostThree is
\* what the code says of them).
TypeOK ==
    /\ conf \in Confs
    /\ now \in 0..MaxTime
    /\ pc \in {"generate", "repair", "mend", "ground", "reground", "literal", "grain",
               "clear", "open", "plan", "explain", "explainDraft", "start", "running",
               "refixing", "look", "relooking"} \cup ModelCalls \cup Final
    /\ result \in [sql : Stmts \cup {NoStmt}, valid : BOOLEAN, attempts : 1..6]
    /\ choice \in BOOLEAN
    /\ asked \in BOOLEAN
    /\ draft \in Stmts \cup {NoStmt}
    /\ job \in Job \cup {NoJob}
    /\ qr \in Result \cup {NoResult}
    /\ table \in Table \cup {NoTable}
    /\ runs \in 0..3
    /\ first \in Result \cup {NoResult}

\* The SQL the frame shows is the SQL behind the rows or the error beside it,
\* whichever of its corrections ran, was refused, raised or came too late.
FrameIsOneRun ==
    pc = "done" /\ table # NoTable /\ table.by # NoStmt => table.by = result.sql

\* Nothing reaches the database, an EXPLAIN or a correction included, but a
\* statement that passed validation, for a caller that may execute.
OnlyValidRun == job # NoJob => job.sql \in Valid /\ conf.mayExecute

\* Whatever starts once the model has been asked to rewrite or to correct a
\* statement stops by the deadline, and so does every EXPLAIN: none of them
\* is left running with no one waiting for it (_correction_budget).
CorrectionsFit ==
    [][job' \notin {job, NoJob} /\ HasDeadline /\ (asked' \/ pc' # "running")
           => job'.stop <= conf.deadline]_vars

\* No correction starts on a turn whose deadline has passed.
NoLateCorrection ==
    [][pc \notin ModelCalls /\ pc' \in ModelCalls /\ HasDeadline => now < conf.deadline]_vars

\* A model call that costs about what the turn has cost so far is not begun
\* with less than that left.
RewritesHaveRoom ==
    [][pc \notin ModelCalls /\ pc' \in ModelCalls \ {"askLook"} /\ HasDeadline
           => conf.deadline - now >= now]_vars

\* A correction, what it runs included, begins in time and ends in time.
CorrectionsHaveRoom == NoLateCorrection /\ CorrectionsFit /\ RewritesHaveRoom

\* Rows once received are never lost to a later failure: a second look that
\* goes wrong leaves an answer, never an error.
RowsKept == pc = "done" /\ first # NoResult => table # NoTable /\ table.kind = "rows"

\* A result replaced by a second look is replaced by one that shows no sign a
\* correction could be asked for, and that, when all that was wrong with the
\* first was repeats, holds each of its rows.
ReplacedByBetter ==
    pc = "done" /\ first # NoResult /\ qr # first =>
        /\ ~Repairable(qr)
        /\ OnlyRepeats(first) => first.rows \subseteq qr.rows

\* attempt_count is "1 when the first attempt succeeded, plus one for each correction ...
\* So at most 3" (sql_generation.py:68-71): refuted, as the rewrites after the grain check,
\* the plan check and the second look are counted too.
AttemptsAtMostThree == result.attempts <= 3

\* "So it stops when the tool gives up rather than running on after the
\* client has been told the query timed out": the database's own limit on a
\* statement falls within the deadline of a caller that stops waiting then.
StopsWithTheTool == job # NoJob /\ conf.wall => job.stop <= conf.deadline

\* "Nothing runs until they have, since any value taken for them would be a
\* guess": a statement that holds a value whose choice the turn has noted
\* for the user does not run. Reading its plan is not running it.
NothingRunsPending ==
    job # NoJob /\ pc \in {"running", "refixing", "relooking"} /\ job.sql \in Pending
        => ~choice
=============================================================================
