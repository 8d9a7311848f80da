------------------------------- MODULE LlmRouting -------------------------------
(***************************************************************************)
(* Which client, provider and model an LLM call gets: config.py resolves   *)
(* the environment once, when it is imported, and llm.get_llm_client       *)
(* decides each call from that and from the override of its request.  What *)
(* is at stake is where the prompt, with the schema in it, is sent.        *)
(*                                                                         *)
(* A model id stands for the provider its prefix names; "bare" is an id    *)
(* without a prefix, which api.anthropic.com and LiteLLM both accept.      *)
(***************************************************************************)
EXTENDS Integers

VARIABLES env,      \* what the operator set before the process started
          wanted,    \* the override and the tier of the call
          client    \* what the call was given

routeVars == <<env, wanted, client>>

Unset == ""
Providers == {Unset, "anthropic", "litellm", "bedrock"}
Models == {Unset, "bare", "openai", "bedrock"}
Environment == [provider : Providers, model : Models, fast : Models, openai : BOOLEAN, anthropic : BOOLEAN]
Override == [provider : Providers, model : Models, fast : Models, base : BOOLEAN, extra : BOOLEAN]
NoOverride == [provider |-> Unset, model |-> Unset, fast |-> Unset, base |-> FALSE, extra |-> FALSE]
Tiers == {"default", "fast"}
WantedCalls == [override : Override, tier : Tiers \cup {"none"}]
LlmClients == [kind : {"none", "refused", "anthropic", "litellm"}, model : Models, base : BOOLEAN]
NoCall == [override |-> NoOverride, tier |-> "none"]
NoClient == [kind |-> "none", model |-> Unset, base |-> FALSE]
Refused == [NoClient EXCEPT !.kind = "refused"]

Or(a, b) == IF a # Unset THEN a ELSE b

\* Import time: an explicit provider, then the model's prefix, then the keys.
\* "bedrock" is a route through LiteLLM, not a client of its own.
DetectProvider(e) ==
    IF e.provider # Unset THEN (IF e.provider = "bedrock" THEN "litellm" ELSE e.provider)
    ELSE IF e.model = "bedrock" \/ (~e.anthropic /\ e.openai) THEN "litellm" ELSE "anthropic"

DetectModel(e) ==
    Or(e.model, IF DetectProvider(e) = "litellm" /\ e.openai THEN "openai" ELSE "bare")

\* On Bedrock the fast tier is the default model: no other id is valid there.
DetectFastModel(e) ==
    Or(e.fast, IF e.model = "bedrock" THEN e.model
               ELSE IF DetectProvider(e) = "litellm" /\ e.openai THEN "openai" ELSE "bare")

NamedModel(e, o) == Or(o.provider, e.provider)
DefaultModel(e, o) == Or(o.model, DetectModel(e))
TierModel(e, o, tier) ==
    IF tier = "fast" THEN Or(Or(o.fast, o.model), DetectFastModel(e)) ELSE DefaultModel(e, o)

\* "On Bedrock", as get_llm_client reads it: by the provider's name or the default's.
OnBedrock(e, o) == NamedModel(e, o) = "bedrock" \/ DefaultModel(e, o) = "bedrock"

Provider(e, o, tier) ==
    IF NamedModel(e, o) = "bedrock" \/ TierModel(e, o, tier) = "bedrock" THEN "litellm"
    ELSE Or(o.provider, DetectProvider(e))

\* A default endpoint serves Anthropic's models only, and the client checks no id.
Foreign(e, o, tier) ==
    \E m \in {DefaultModel(e, o), TierModel(e, o, tier)} : m # "bare"

\* The id as AnthropicClient sends it: without its prefix.
Sent(e, o, tier) == IF Provider(e, o, tier) = "anthropic" THEN "bare" ELSE TierModel(e, o, tier)

Contradiction(e, o, tier) ==
    \/ OnBedrock(e, o) /\ TierModel(e, o, tier) # "bedrock"
    \/ TierModel(e, o, tier) = "bedrock" /\ NamedModel(e, o) \notin {Unset, "bedrock", "litellm"}
    \/ Provider(e, o, tier) = "anthropic" /\ ~o.base /\ Foreign(e, o, tier)
    \/ Provider(e, o, tier) = "anthropic" /\ o.extra

ClientFor(e, o, tier) ==
    IF Contradiction(e, o, tier) THEN Refused
    ELSE [kind |-> Provider(e, o, tier), model |-> Sent(e, o, tier), base |-> o.base]

RouteTypeOK ==
    /\ env \in Environment
    /\ wanted \in WantedCalls /\ client \in LlmClients

RouteInit ==
    /\ env \in Environment
    /\ wanted = NoCall
    /\ client = NoClient

GetLlmClient(o, tier) ==
    /\ wanted = NoCall
    /\ wanted' = [override |-> o, tier |-> tier]
    /\ client' = ClientFor(env, o, tier)
    /\ UNCHANGED env

\* The call is over: the next one is decided anew.
CallOver ==
    /\ wanted # NoCall
    /\ wanted' = NoCall
    /\ client' = NoClient
    /\ UNCHANGED env

RouteNext == (\E o \in Override, t \in Tiers : GetLlmClient(o, t)) \/ CallOver
RouteSpec == RouteInit /\ [][RouteNext]_routeVars

\* Where a client's requests go.
Destination(c) == IF c.base THEN "given" ELSE IF c.kind = "anthropic" THEN "anthropic" ELSE c.model
Effective(e, o, tier) == {DefaultModel(e, o), TierModel(e, o, tier)}

\* SAFETY. A prompt leaves for the provider the configuration names: nothing
\* goes outside Bedrock when the provider or a model in force is Bedrock's, in
\* either tier, and nothing goes to api.anthropic.com under a model that another
\* provider's prefix names (get_llm_client's refusals, together with what
\* config.py fills in for the settings left unset).
PromptStaysHome ==
    client.kind \in {"anthropic", "litellm"} =>
        LET o == wanted.override
            used == Effective(env, o, wanted.tier) IN
        /\ NamedModel(env, o) = "bedrock" \/ "bedrock" \in used =>
              client.kind = "litellm" /\ client.model = "bedrock"
        /\ Destination(client) = "anthropic" => used = {"bare"}

\* SAFETY. Unsetting the fast tier never breaks it: whenever the default tier
\* gets a client from the environment, so does the fast one (config.py: a
\* Bedrock deployment's fast calls would fail while the main model keeps
\* working).
FastTierWorks ==
    env.fast = Unset /\ wanted.override = NoOverride /\ wanted.tier = "fast" =>
        (client = Refused => ClientFor(env, NoOverride, "default") = Refused)
=============================================================================
