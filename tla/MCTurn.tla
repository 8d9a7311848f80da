------------------------------- MODULE MCTurn -------------------------------
(***************************************************************************)
(* An instance for TLC of the components a question passes through.  Each  *)
(* has its own variables and none reads another's, so they are explored    *)
(* one at a time: focus says which component of Foci moves, and the others *)
(* stay where one of their initial states puts them.  The states are the   *)
(* sum of the components' states, not their product.                       *)
(***************************************************************************)
EXTENDS Question, TLC

CONSTANTS Foci, a, b, amb, bad, x, y, t1, t2, a1, a2, s1, s2, g1, g2

VARIABLE focus

Base == [mayExecute |-> TRUE, grounds |-> TRUE, ask |-> TRUE, grainCheck |-> TRUE,
         planCheck |-> TRUE, resultChecks |-> TRUE, timeout |-> 2, deadline |-> 4, wall |-> TRUE]

\* The MCP tool; a library caller with a deadline and no wall clock; one with
\* neither; a statement without a timeout; checks turned off; and a caller that
\* may not execute.
MCConfs == {Base,
            [Base EXCEPT !.wall = FALSE, !.ask = FALSE],
            [Base EXCEPT !.wall = FALSE, !.deadline = Never],
            [Base EXCEPT !.timeout = 0, !.grainCheck = FALSE],
            [Base EXCEPT !.grounds = FALSE, !.planCheck = FALSE],
            [Base EXCEPT !.resultChecks = FALSE, !.ask = FALSE],
            [Base EXCEPT !.mayExecute = FALSE]}

\* The MCP tool: its statements have a timeout, its turns a wall clock.
MCToolConfs == {c \in MCConfs : c.timeout > 0 /\ c.wall}

\* Grant files: exact names, wildcards, two subjects, and grants of one subject whose
\* actions and agents must not combine.
Granted(s, which, acts) == [subject |-> s, agents |-> which, actions |-> acts]
MCGrantFiles ==
    {{Granted(s1, {a1}, {"query:execute"}), Granted(s1, {a2}, {"schema:read"}),
      Granted(s2, {a2}, {"query:execute"})},
     {Granted(s1, {"*"}, {"health:read"}), Granted(s1, {a1}, {"agents:list"})},
     {Granted(s1, {a1}, {"*"}), Granted(s2, {a1, a2}, {"health:read", "schema:read"})}}

\* One session takes a literal and a further statement, the other one literal.
MCMaxCalls == g1 :> 2 @@ g2 :> 1

\* The initial state of a component that is not in focus, where it has several.
Park(component, state) == IF focus = component THEN TRUE ELSE state
Parked ==
    /\ Park("sql", conf = Base)
    /\ Park("turn", /\ offered = {"sql"} /\ override = "none"
                    /\ refersBack = FALSE /\ mayRun = TRUE /\ useCache = TRUE)
    /\ Park("stream", text = <<>> /\ spent = FALSE)
    /\ Park("route", env = CHOOSE e \in Environment : TRUE)
    /\ Park("serving", setup = CHOOSE s \in Setups : TRUE)

MCInit ==
    /\ focus \in Foci
    /\ Parked
    /\ Init /\ TurnInit /\ StreamInit /\ CallsInit /\ RouteInit /\ ExampleInit /\ ServingInit
    /\ LookInit

MCNext ==
    /\ UNCHANGED focus
    /\ \/ /\ focus = "sql" /\ Next
          /\ UNCHANGED <<turnVars, streamVars, callVars, routeVars, exampleVars, servingVars,
                         lookVars>>
       \/ /\ focus = "turn" /\ TurnNext
          /\ UNCHANGED <<vars, streamVars, callVars, routeVars, exampleVars, servingVars,
                         lookVars>>
       \/ /\ focus = "stream" /\ StreamNext
          /\ UNCHANGED <<vars, turnVars, callVars, routeVars, exampleVars, servingVars,
                         lookVars>>
       \/ /\ focus = "calls" /\ CallsNext
          /\ UNCHANGED <<vars, turnVars, streamVars, routeVars, exampleVars, servingVars,
                         lookVars>>
       \/ /\ focus = "route" /\ RouteNext
          /\ UNCHANGED <<vars, turnVars, streamVars, callVars, exampleVars, servingVars,
                         lookVars>>
       \/ /\ focus = "examples" /\ ExampleNext
          /\ UNCHANGED <<vars, turnVars, streamVars, callVars, routeVars, servingVars, lookVars>>
       \/ /\ focus = "serving" /\ ServingNext
          /\ UNCHANGED <<vars, turnVars, streamVars, callVars, routeVars, exampleVars, lookVars>>
       \/ /\ focus = "lookup" /\ LookNext
          /\ UNCHANGED <<vars, turnVars, streamVars, callVars, routeVars, exampleVars,
                         servingVars>>

MCSpec ==
    MCInit /\ [][MCNext]_<<focus, vars, turnVars, streamVars, callVars, routeVars,
                           exampleVars, servingVars, lookVars>>
=============================================================================
