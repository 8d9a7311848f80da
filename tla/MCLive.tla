------------------------------- MODULE MCLive -------------------------------
(***************************************************************************)
(* An instance for TLC of the components that wait for somebody: the       *)
(* session that looks values up, the daemon that embeds, its client, the   *)
(* statement on a connection, and the parser in its own process.  None     *)
(* reads another's variables; focus says which one of Foci moves.          *)
(***************************************************************************)
EXTENDS LookupSession, EmbedServer, EmbedClient, ConnectorQuery, ParseChild, TLC

CONSTANTS Foci, s1, s2

VARIABLE focus

\* One session takes a literal and a further statement, the other one literal.
MCMaxCalls == s1 :> 2 @@ s2 :> 1

\* A request that fits, and one whose body is cut off; the other refusals are
\* MCOperator's.
Fit == BatchRequest(<<[chars |-> 1, bytes |-> 1]>>)
MCRequestInputs == {Fit, [Fit EXCEPT !.body = "cut"]}

\* Every design but DuckDB's, whose calls share a result.
MCConnectors == Designs \ {DuckDB}
MCDuckDB == {DuckDB}

\* The initial state of a component that is not in focus, where it has several.
Park(component, state) == IF focus = component THEN TRUE ELSE state
Parked ==
    /\ Park("client", required = FALSE)
    /\ Park("query", bounded = TRUE /\ alters = {} /\ design = CHOOSE c \in Connectors : TRUE)

MCInit ==
    /\ focus \in Foci
    /\ Parked
    /\ LookInit /\ ServerInit /\ ClientInit /\ QueryInit /\ ParseInit

MCNext ==
    /\ UNCHANGED focus
    /\ \/ /\ focus = "lookup" /\ LookNext
          /\ UNCHANGED <<serverVars, clientVars, queryVars, parseVars>>
       \/ /\ focus = "server" /\ ServerNext
          /\ UNCHANGED <<lookVars, clientVars, queryVars, parseVars>>
       \/ /\ focus = "client" /\ ClientNext
          /\ UNCHANGED <<lookVars, serverVars, queryVars, parseVars>>
       \/ /\ focus = "query" /\ QueryNext
          /\ UNCHANGED <<lookVars, serverVars, clientVars, parseVars>>
       \/ /\ focus = "parse" /\ ParseNext
          /\ UNCHANGED <<lookVars, serverVars, clientVars, queryVars>>

(***************************************************************************)
(* Fairness: each module's own, of the behaviours in which it moves.       *)
(***************************************************************************)
MCLookFairness ==
    \A s \in Sessions :
        /\ WF_lookVars(focus = "lookup" /\ coPc[s] # "idle" /\ CoStep(s))
        /\ WF_lookVars(focus = "lookup" /\ ThreadStep(s))

MCServerFairness ==
    /\ \A h \in HttpRequests : WF_serverVars(focus = "server" /\ ServeStep(h))
    /\ \A w \in 1..SlotLimit : WF_serverVars(focus = "server" /\ Take(w))
    /\ WF_serverVars(focus = "server" /\ ShutDown)

MCClientFairness ==
    /\ WF_clientVars(focus = "client" /\ AbsenceForgotten)
    /\ \A t \in Embedders : WF_clientVars(focus = "client" /\ ThreadEmbeds(t))

MCQueryFairness ==
    \A q \in Queries :
        /\ WF_queryVars(focus = "query" /\ Acquire(q))
        /\ WF_queryVars(focus = "query" /\ TurnGivenUp(q))
        /\ WF_queryVars(focus = "query" /\ ThreadRuns(q))
        /\ WF_queryVars(focus = "query" /\ TimerRuns(q))
        /\ WF_queryVars(focus = "query" /\ CancelledByServer(q))

MCParseFairness ==
    /\ WF_parseVars(focus = "parse" /\ CallerStep)
    /\ WF_parseVars(focus = "parse" /\ ReadInstructions)
    /\ WF_parseVars(focus = "parse" /\ TimePasses)
    /\ WF_parseVars(focus = "parse" /\ Alarm)

MCSpec ==
    /\ MCInit
    /\ [][MCNext]_<<focus, lookVars, serverVars, clientVars, queryVars, parseVars>>
    /\ MCLookFairness /\ MCServerFairness /\ MCClientFairness
    /\ MCQueryFairness /\ MCParseFairness

----------------------------------------------------------------------------

\* Every component's type invariant.
MCTypeOK ==
    /\ LookTypeOK /\ ServerTypeOK /\ ClientTypeOK /\ QueryTypeOK /\ ParseTypeOK

\* Whoever waits is let go, whatever the one waited for does: the call of a
\* statement returns, a parse settles, and a lookup's connector is released.
WaitsEnd ==
    /\ ConnectorReleased
    /\ focus = "query" => CallsReturn
    /\ focus = "parse" => ParseSettles

\* LIVENESS. The embedding service comes to rest and is used: the daemon answers every
\* request it took, its threads end with it, and a client comes back to the right daemon.
EmbeddingSettles == EveryRequestAnswered /\ IdleThreadsEnd /\ RightDaemonUsedAgain
=============================================================================
