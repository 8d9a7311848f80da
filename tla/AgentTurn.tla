----------------------------- MODULE AgentTurn -----------------------------
(***************************************************************************)
(* One question answered by run_query_sync (orchestrator/sync_runner.py)   *)
(* through MultiAgentOrchestrator.handle_question: follow-up resolution,   *)
(* the cache lookup, the route, the SQL and the document agent (both at    *)
(* once for a hybrid answer), the merge, the cache write scheduled after   *)
(* the answer, and the result read back from the frames.                   *)
(*                                                                         *)
(* What the SQL agent ends with is the final frame of module SqlTurn seen  *)
(* from outside: a statement or none, valid or refused, run or not, or     *)
(* values the user must choose between first.  Text is not modelled.       *)
(***************************************************************************)
EXTENDS Naturals

Types == {"sql", "document", "hybrid"}
Routes == Types \cup {"unclear"}

\* The SQL agent's final frame.  Only a valid statement runs, and none runs while
\* values wait to be chosen or when the request only generates.
NoSql == [sql |-> "none", table |-> "none", choices |-> FALSE]
SqlEnds(mayRun) ==
    {NoSql} \cup
    {f \in [sql : {"valid", "refused"}, table : {"none", "rows", "error"}, choices : BOOLEAN] :
        f.table # "none" => mayRun /\ f.sql = "valid" /\ ~f.choices}

\* The final frame of the whole turn.  "statement" is a table of one cell that holds
\* the statement's text.
FinalFrames == [type : Routes \cup {"none"}, sql : BOOLEAN, valid : {"absent", "yes", "no"},
                table : {"none", "rows", "error", "statement"}, choices : BOOLEAN, cached : BOOLEAN]
NoFrame == [type |-> "none", sql |-> FALSE, valid |-> "absent", table |-> "none",
            choices |-> FALSE, cached |-> FALSE]

VARIABLES
    offered,    \* available_types
    override,   \* intent_override, "none" or not a type ("other")
    refersBack, \* the question reads like a follow-up and there is a history
    mayRun,     \* execution.may_execute
    useCache,   \* use_cache, with no value chosen by the caller
    turnPc,
    question,   \* "asked" or "rewritten"
    hit,        \* the cached answer: "none", "sql", "template", "document" or "hybrid"
    route,
    sqlAgent,   \* "idle", "running", "ended" or "failed"
    docAgent,
    sqlEnd,     \* the SQL agent's final frame
    cited,      \* the document agent cited something
    frame,      \* the final frame
    agentResult,     \* AgentQueryResult, as far as it says what ran
    task        \* the cache write: "none", "scheduled", "written" or "lost"

turnVars == <<offered, override, refersBack, mayRun, useCache, turnPc, question, hit, route,
              sqlAgent, docAgent, sqlEnd, cited, frame, agentResult, task>>
inputs == <<offered, override, refersBack, mayRun, useCache>>
agents == <<sqlAgent, docAgent, sqlEnd, cited>>

AgentResults == [type : Routes \cup {"none"}, sql : BOOLEAN, valid : BOOLEAN,
                 rows : {"none", "rows", "error", "statement"}, choices : BOOLEAN]
NoAgentResult == [type |-> "none", sql |-> FALSE, valid |-> TRUE, rows |-> "none", choices |-> FALSE]

\* answer_types_for: the document types with a listed source; or what an embedder offers.
TurnInit ==
    /\ offered \in {{"sql"}, {"document"}, Types}
    /\ override \in {"none", "other"} \cup Routes
    /\ refersBack \in BOOLEAN /\ mayRun \in BOOLEAN /\ useCache \in BOOLEAN
    /\ turnPc = "resolving" /\ question = "asked" /\ hit = "none" /\ route = "unclear"
    /\ sqlAgent = "idle" /\ docAgent = "idle" /\ sqlEnd = NoSql /\ cited = FALSE
    /\ frame = NoFrame /\ agentResult = NoAgentResult /\ task = "none"

TurnTo(step) == turnPc' = step

\* resolve_followup: only a question that refers back costs the model a call, and a
\* call that fails leaves the question as it was.
Resolve ==
    /\ turnPc = "resolving"
    /\ question' \in IF refersBack THEN {"asked", "rewritten"} ELSE {"asked"}
    /\ TurnTo("lookup")
    /\ UNCHANGED <<inputs, hit, route, agents, frame, agentResult, task>>

\* _embed_and_lookup: a lookup that fails is a miss.
Lookup ==
    /\ turnPc = "lookup"
    /\ hit' \in {"none"} \cup (IF useCache THEN {"sql", "template", "document", "hybrid"} ELSE {})
    /\ TurnTo(IF hit' = "none" THEN "routing" ELSE "replaying")
    /\ UNCHANGED <<inputs, question, route, agents, frame, agentResult, task>>

\* A cached statement is checked again and run again; the rows are never cached.
Replay ==
    /\ turnPc = "replaying"
    /\ \E table \in IF ~mayRun \/ hit \in {"document", "hybrid"} THEN {"none"}
                    ELSE {"none", "rows", "error"} :
         frame' = [NoFrame EXCEPT
                      !.type = IF hit = "template" THEN "sql" ELSE hit,
                      !.sql = hit \in {"sql", "template"}, !.table = table, !.cached = TRUE]
    /\ TurnTo("parsing")
    /\ UNCHANGED <<inputs, question, hit, route, agents, agentResult, task>>

\* coerce_intent: an offered type, else the nearest one, else none.
Coerced(intent) ==
    IF intent \in offered \cup {"unclear"} THEN intent
    ELSE IF intent = "hybrid" /\ "sql" \in offered THEN "sql"
    ELSE IF intent = "hybrid" /\ "document" \in offered THEN "document"
    ELSE "unclear"

\* One type offered leaves nothing to classify; an override is coerced, and one that
\* is not a type ignored; the classifier's reply may be anything.
Route ==
    /\ turnPc = "routing"
    /\ \E intent \in Routes :
         route' = IF offered \in {{"sql"}, {"document"}} THEN CHOOSE t \in offered : TRUE
                  ELSE IF override \in Routes THEN Coerced(override)
                  ELSE Coerced(intent)
    /\ sqlAgent' = IF route' \in {"sql", "hybrid"} THEN "running" ELSE "idle"
    /\ docAgent' = IF route' \in {"document", "hybrid"} THEN "running" ELSE "idle"
    /\ TurnTo("answering")
    /\ UNCHANGED <<inputs, question, hit, sqlEnd, cited, frame, agentResult, task>>

----------------------------------------------------------------------------
(* The agents.                                                             *)

SqlEnd ==
    /\ sqlAgent = "running"
    /\ \/ sqlAgent' = "ended" /\ sqlEnd' \in SqlEnds(mayRun)
       \/ sqlAgent' = "failed" /\ UNCHANGED sqlEnd
    /\ UNCHANGED <<inputs, turnPc, question, hit, route, docAgent, cited, frame, agentResult, task>>

\* No source could be searched, or the model failed: it raises.
DocEnd ==
    /\ docAgent = "running"
    /\ \/ docAgent' = "ended" /\ cited' \in BOOLEAN
       \/ docAgent' = "failed" /\ UNCHANGED cited
    /\ UNCHANGED <<inputs, turnPc, question, hit, route, sqlAgent, sqlEnd, frame, agentResult, task>>

\* An exception ends the turn; in a hybrid one it leaves gather() while the other
\* agent runs on.
Raise ==
    /\ turnPc = "answering"
    /\ "failed" \in {sqlAgent, docAgent}
    /\ TurnTo("raised")
    /\ UNCHANGED <<inputs, question, hit, route, agents, frame, agentResult, task>>

SqlFrame ==
    [type |-> "sql", sql |-> sqlEnd.sql # "none",
     valid |-> IF sqlEnd.sql = "valid" THEN "yes" ELSE "no",
     table |-> sqlEnd.table, choices |-> sqlEnd.choices, cached |-> FALSE]

\* Mutant: an answer that waits for a choice is cached like any other.
CachedEvenAsking == useCache

\* Not when values wait to be chosen: a hit would run what the user never picked.
CachesTurn == useCache /\ ~sqlEnd.choices

AnswerSql ==
    /\ turnPc = "answering" /\ route = "sql" /\ sqlAgent = "ended"
    /\ frame' = SqlFrame
    /\ task' = IF CachesTurn THEN "scheduled" ELSE task
    /\ TurnTo("parsing")
    /\ UNCHANGED <<inputs, question, hit, route, agents, agentResult>>

AnswerDocument ==
    /\ turnPc = "answering" /\ route = "document" /\ docAgent = "ended"
    /\ frame' = [NoFrame EXCEPT !.type = "document"]
    /\ TurnTo("parsing")
    /\ UNCHANGED <<inputs, question, hit, route, agents, agentResult, task>>

\* _extract_sql_query_result: the executed table, else the statement as a table.
Extracted ==
    IF sqlEnd.sql = "none" THEN "none"
    ELSE IF sqlEnd.table = "rows" THEN "rows" ELSE "statement"

\* Both results reach the reader; while values wait to be chosen, neither does.
Merged == IF sqlEnd.choices THEN "none" ELSE Extracted

\* The model that merges both may fail, and the turn with it.  Hybrid answers are
\* never cached.
AnswerHybrid ==
    /\ turnPc = "answering" /\ route = "hybrid" /\ sqlAgent = "ended" /\ docAgent = "ended"
    /\ \/ /\ frame' = [type |-> "hybrid", sql |-> sqlEnd.sql # "none", valid |-> "absent",
                       table |-> Merged, choices |-> sqlEnd.choices, cached |-> FALSE]
          /\ TurnTo("parsing")
       \/ /\ sqlEnd.sql # "none" /\ cited /\ ~sqlEnd.choices
          /\ TurnTo("raised") /\ UNCHANGED frame
    /\ UNCHANGED <<inputs, question, hit, route, agents, agentResult, task>>

AnswerUnclear ==
    /\ turnPc = "answering" /\ route = "unclear"
    /\ frame' = [NoFrame EXCEPT !.type = "unclear"]
    /\ TurnTo("parsing")
    /\ UNCHANGED <<inputs, question, hit, route, agents, agentResult, task>>

----------------------------------------------------------------------------
(* run_query_sync.                                                         *)

\* _parse_final_chunk and the AgentQueryResult made of it: only a "sql" frame gives
\* the statement, and a frame that does not say counts as valid.
Parse ==
    /\ turnPc = "parsing"
    /\ agentResult' = [type |-> frame.type,
                  sql |-> frame.type = "sql" /\ frame.sql,
                  valid |-> frame.valid # "no",
                  rows |-> frame.table,
                  choices |-> frame.choices]
    /\ TurnTo("draining")
    /\ UNCHANGED <<inputs, question, hit, route, agents, frame, task>>

\* The write runs in an executor; its failure is logged.
WriteRuns ==
    /\ task = "scheduled"
    /\ task' = "written"
    /\ UNCHANGED <<inputs, turnPc, question, hit, route, agents, frame, agentResult>>

\* Mutant: the process ends with the answer.
NeverWaits == TRUE

\* drain_background_tasks.
Drained == task # "scheduled"

\* asyncio.run ends, and cancels what still runs.
Exit ==
    /\ turnPc = "raised" \/ (turnPc = "draining" /\ Drained)
    /\ task' = IF task = "scheduled" THEN "lost" ELSE task
    /\ sqlAgent' = IF sqlAgent = "running" THEN "failed" ELSE sqlAgent
    /\ docAgent' = IF docAgent = "running" THEN "failed" ELSE docAgent
    /\ TurnTo("exited")
    /\ UNCHANGED <<inputs, question, hit, route, sqlEnd, cited, frame, agentResult>>

TurnNext ==
    \/ Resolve \/ Lookup \/ Replay \/ Route
    \/ SqlEnd \/ DocEnd \/ Raise
    \/ AnswerSql \/ AnswerDocument \/ AnswerHybrid \/ AnswerUnclear
    \/ Parse \/ WriteRuns \/ Exit

TurnSpec == TurnInit /\ [][TurnNext]_turnVars

----------------------------------------------------------------------------

TurnTypeOK ==
    /\ offered \subseteq Types /\ override \in {"none", "other"} \cup Routes
    /\ refersBack \in BOOLEAN /\ mayRun \in BOOLEAN /\ useCache \in BOOLEAN
    /\ turnPc \in {"resolving", "lookup", "replaying", "routing", "answering", "raised",
                   "parsing", "draining", "exited"}
    /\ question \in {"asked", "rewritten"}
    /\ hit \in {"none", "sql", "template", "document", "hybrid"}
    /\ route \in Routes
    /\ sqlAgent \in {"idle", "running", "ended", "failed"}
    /\ docAgent \in {"idle", "running", "ended", "failed"}
    /\ sqlEnd \in SqlEnds(TRUE) /\ cited \in BOOLEAN
    /\ frame \in FinalFrames /\ agentResult \in AgentResults
    /\ task \in {"none", "scheduled", "written", "lost"}

\* While values wait for the user to choose ("when not [empty], no statement ran",
\* sync_runner.py:91), the turn shows nothing that looks like an answer and
\* leaves nothing in the cache to be served for the question later.
ChoiceComesFirst ==
    (sqlEnd.choices /\ turnPc \in {"parsing", "draining", "exited"}) =>
        /\ frame.table = "none" /\ agentResult.rows = "none"
        /\ task = "none"

\* The answer of a command that ended well is in the cache, if it was to be: no write
\* is lost because the process ended first.
WriteOutlivesAnswer == agentResult.type # "none" => task # "lost"

\* "sql: generated SQL if agent_type in ("sql", "hybrid")" (sync_runner.py:60).
StatementReported == agentResult.type \in {"sql", "hybrid"} => agentResult.sql = frame.sql
=============================================================================
