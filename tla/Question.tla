------------------------------ MODULE Question -------------------------------
(***************************************************************************)
(* The components a question passes through, from the MCP server that is   *)
(* asked it to the statement that answers it, and what they promise        *)
(* together.  Each has its own variables and none reads another's: what    *)
(* one hands to the next is among the inputs the next one enumerates.      *)
(***************************************************************************)
EXTENDS SqlTurn, AgentTurn, StreamedSql, LlmCalls, LlmRouting, ExampleSearch, McpServing,
        LookupSession

\* Every component's type invariant; LookupSession's is checked with what waits for it.
QuestionTypeOK ==
    /\ TypeOK /\ TurnTypeOK /\ StreamTypeOK /\ CallsTypeOK /\ RouteTypeOK
    /\ ExampleTypeOK /\ ServingTypeOK

\* SAFETY. Nothing a turn has is lost on its way out: rows once received, to a correction
\* that shows less, and the cache write that run_query_sync waits for.
NothingLost == RowsKept /\ ReplacedByBetter /\ WriteOutlivesAnswer

\* SAFETY. A model's reply can be used: the streamed one is split as the model wrote it,
\* and a tier that is asked for is one the provider in use serves.
RepliesUsable == SplitAsWritten /\ FastTierWorks

\* SAFETY. Nothing goes where it was not meant to: a prompt to another provider than
\* the one configured, a tool call past the grants of the subject that made it.
OnlyWhereAllowed == PromptStaysHome /\ OnlyAsGranted
=============================================================================
