----------------------------- MODULE McpServing -----------------------------
(***************************************************************************)
(* Who may run what over MCP: the start of the server (mcp_server/         *)
(* server.py), the ways to authenticate (auth/mcp_verifier.py), the grants *)
(* (auth/authorizer.py) and one tool call, from its principal to its       *)
(* answer and to the event the audit log gets.  The application of a       *)
(* server that is not networked can still be mounted under HTTP by other   *)
(* code.  Concurrent calls and their limits are Admission's.               *)
(***************************************************************************)
EXTENDS FiniteSets

CONSTANTS Agents, Subjects,
          Operator,      \* the owner of the process
          GrantFiles     \* what the grants file may list, as sets of grants

VARIABLES setup,    \* the command, its environment and its files
          server,   \* what runs: what it needs of whom
          toolCall, \* the call: how it came, by whom, for what
          done,     \* what came of it
          trail     \* the authorization events of the call

servingVars == <<setup, server, toolCall, done, trail>>

Wildcard == "*"
NoServer == [authorizer |-> "none", grants |-> {}]
Anonymous == "anonymous"
NoToken == "no token"
NoToolCall == [http |-> FALSE, token |-> NoToken, action |-> "none", agent |-> "none",
               long |-> FALSE]

\* TOOL_ACTIONS, two tools of each kind: over no agent, of which health looks at a
\* second action for what it shows, and over one, of which query takes free text.
Agentless == {"agents:list", "health:read"}
Actions == Agentless \cup {"query:execute", "schema:read"}

\* A grant of the file, as load_grants accepts it.
Grants == [subject : Subjects, agents : (SUBSET (Agents \cup {Wildcard})) \ {{}},
           actions : (SUBSET (Actions \cup {Wildcard})) \ {{}}]

ASSUME ServingAssumption ==
    /\ Operator \notin Subjects \cup {Anonymous} /\ NoToken \notin Subjects
    /\ GrantFiles \subseteq SUBSET Grants

Setups ==
    [transport : {"stdio", "http"}, host : {"loopback", "wildcard"}, key : BOOLEAN,
     discovery : BOOLEAN, static : {"none", "short", "long"}, client : BOOLEAN,
     resource : BOOLEAN, open : BOOLEAN, exposed : BOOLEAN, grants : {"none", "unusable", "read"}]

ServingInit ==
    /\ setup \in Setups
    /\ server = NoServer /\ toolCall = NoToolCall /\ done = "none" /\ trail = {}

----------------------------------------------------------------------------
(* The start: main and _build_server.                                      *)

\* build_verifier: McpAuthConfigError is "invalid".
Verifier(s) ==
    CASE ~s.discovery /\ s.static = "none" -> "none"
      [] s.discovery /\ s.static # "none" -> "invalid"
      [] ~s.resource -> "invalid"
      [] s.discovery -> IF s.client THEN "oidc" ELSE "invalid"
      [] OTHER -> IF s.static = "long" THEN "static" ELSE "invalid"

Networked(s) == s.transport = "http"
Authenticated(s) == Networked(s) /\ Verifier(s) \in {"oidc", "static"}

\* _require_authentication, _refuse_unauthenticated_exposure, _resolve_authorizer.
StartRefused(s) ==
    \/ ~s.key
    \/ Networked(s) /\ Verifier(s) = "invalid"
    \/ Networked(s) /\ Verifier(s) = "none" /\ ~s.open
    \/ Networked(s) /\ s.host = "wildcard" /\ ~s.exposed
    \/ Authenticated(s) /\ s.grants # "read"

Authorizer(s) ==
    IF Authenticated(s) THEN "allowlist" ELSE IF Networked(s) THEN "allow all" ELSE "local"

Start ==
    /\ server = NoServer /\ ~StartRefused(setup)
    /\ \E file \in IF Authenticated(setup) THEN GrantFiles ELSE {{}} :
          server' = [authorizer |-> Authorizer(setup), grants |-> file]
    /\ UNCHANGED <<setup, toolCall, done, trail>>

----------------------------------------------------------------------------
(* A call: audited_tool(guard(_bounded(tool))).                            *)

\* The tokens the middleware lets through; without a verifier there is none.
Tokens == IF Authenticated(setup) THEN Subjects ELSE {NoToken}

Arrives ==
    /\ server # NoServer /\ toolCall = NoToolCall
    /\ \E http \in BOOLEAN, token \in Tokens, action \in Actions,
          agent \in Agents \cup {"none"}, long \in BOOLEAN :
          /\ Networked(setup) => http
          /\ action \in Agentless => agent = "none"
          /\ long => action = "query:execute"
          /\ toolCall' = [http |-> http, token |-> token, action |-> action,
                          agent |-> agent, long |-> long]
    /\ UNCHANGED <<setup, server, done, trail>>

\* Mutant: only the transport of the server is looked at, as the fallback once did.
PrincipalByTransport(c) ==
    IF c.token # NoToken THEN c.token ELSE IF Networked(setup) THEN Anonymous ELSE Operator

\* _principal_for_call.
PrincipalOf(c) ==
    IF c.token # NoToken THEN c.token
    ELSE IF Networked(setup) \/ c.http THEN Anonymous ELSE Operator

Covers(g, action, agent) ==
    /\ g.actions \cap {Wildcard, action} # {}
    /\ agent = "none" \/ g.agents \cap {Wildcard, agent} # {}

\* Mutant: the action by one grant of the subject, the agent by another.
AuthorizeAcross(principal, action, agent) ==
    CASE server.authorizer = "allow all" -> TRUE
      [] server.authorizer = "local" -> principal = Operator
      [] OTHER -> LET own == {g \in server.grants : g.subject = principal} IN
                  /\ \E g \in own : g.actions \cap {Wildcard, action} # {}
                  /\ agent = "none" \/ \E g \in own : g.agents \cap {Wildcard, agent} # {}

\* authorize, of the authorizer the server was built with.
Authorize(principal, action, agent) ==
    CASE server.authorizer = "allow all" -> TRUE
      [] server.authorizer = "local" -> principal = Operator
      [] OTHER -> \E g \in server.grants : g.subject = principal /\ Covers(g, action, agent)

\* _decide: an action on an agent nobody named is refused.
Decide(c) ==
    /\ c.action \in Agentless \/ c.agent # "none"
    /\ Authorize(PrincipalOf(c), c.action, c.agent)

\* _health_tool: the agents' names are for those who may list them.
ShowsAgents(c) == c.action = "health:read" /\ Authorize(PrincipalOf(c), "agents:list", "none")

Answer(c) ==
    IF ~Decide(c) THEN "denied"
    ELSE IF c.long THEN "refused"
    ELSE IF ShowsAgents(c) \/ c.action = "agents:list" THEN "ran, naming agents" ELSE "ran"

Call ==
    /\ toolCall # NoToolCall /\ done = "none"
    /\ done' = Answer(toolCall)
    /\ trail' = {[principal |-> PrincipalOf(toolCall), action |-> toolCall.action,
                  agent |-> toolCall.agent, allowed |-> Decide(toolCall)]}
    /\ UNCHANGED <<setup, server, toolCall>>

Returned ==
    /\ done # "none"
    /\ toolCall' = NoToolCall /\ done' = "none" /\ trail' = {}
    /\ UNCHANGED <<setup, server>>

ServingNext == Start \/ Arrives \/ Call \/ Returned
ServingSpec == ServingInit /\ [][ServingNext]_servingVars

----------------------------------------------------------------------------

ToolCalls == [http : BOOLEAN, token : Subjects \cup {NoToken}, action : Actions,
              agent : Agents \cup {"none"}, long : BOOLEAN]

ServingTypeOK ==
    /\ setup \in Setups
    /\ server \in [authorizer : {"none", "allowlist", "allow all", "local"},
                   grants : GrantFiles \cup {{}}]
    /\ toolCall \in ToolCalls \cup {NoToolCall}
    /\ done \in {"none", "denied", "refused", "ran", "ran, naming agents"}
    /\ \A e \in trail : e.principal \in Subjects \cup {Anonymous, Operator}

Ran == done \in {"ran", "ran, naming agents"}

\* What one grant permits: each of its actions, over each of its agents.
OrAll(named, all) == IF Wildcard \in named THEN all ELSE named
Permits(g) == OrAll(g.actions, Actions) \X (OrAll(g.agents, Agents) \cup {"none"})
PermittedTo(subject) == UNION {Permits(g) : g \in {h \in server.grants : h.subject = subject}}

\* However the server was configured and started, what a call that came over HTTP
\* runs, and the agents' names it is shown, are what a single grant of its token's subject
\* permits; or the operator said that the transport needs no authentication.
OnlyAsGranted ==
    Ran /\ toolCall.http =>
        \/ setup.open /\ Verifier(setup) = "none" /\ Networked(setup)
        \/ /\ <<toolCall.action, toolCall.agent>> \in PermittedTo(toolCall.token)
           /\ done = "ran, naming agents" =>
                 <<"agents:list", "none">> \in PermittedTo(toolCall.token)
=============================================================================
