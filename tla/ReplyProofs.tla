---------------------------- MODULE ReplyProofs ----------------------------
(***************************************************************************)
(* What comes of a call of the model, for any reply, any number of calls   *)
(* and retries, and any configuration of the providers: whose cut-off flag *)
(* is read, which provider is asked, and how a streamed reply is split.    *)
(***************************************************************************)
EXTENDS StreamedSql, LlmCalls, LlmRouting, SequenceTheorems, WellFoundedInduction,
        TLAPS

----------------------------------------------------------------------------
(* LlmCalls: the cut-off flag is of its own call.                          *)

\* A call under way has no finish to show yet: neither the one before it in its
\* task, nor one of its own that a failure could leave half-noted.
NoFinishYet ==
    \A t \in Tasks :
        callPc[t] \in {"sent", "backoff", "streaming"} => reply[t].finish = "unknown"

\* Whoever waits to ask again still has an attempt left.
AttemptLeft == \A t \in Tasks : callPc[t] = "backoff" => attempt[t] < MaxRetries

\* The inductive invariant.
CallsInv == CallsTypeOK /\ NoFinishYet /\ AttemptLeft /\ FlagOfOwnCall

\* The invariant holds before any call is made.
LEMMA CallsStart == CallsInit => CallsInv
<1> SUFFICES ASSUME CallsInit PROVE CallsInv
    OBVIOUS
<1>1. CallsTypeOK
    BY CallsAssumption DEF CallsInit, CallsTypeOK, Calls, CallPCs, Reply, Finishes, NoReply
<1>2. NoFinishYet /\ AttemptLeft /\ FlagOfOwnCall
    BY DEF CallsInit, NoFinishYet, AttemptLeft, FlagOfOwnCall
<1> QED
    BY <1>1, <1>2 DEF CallsInv

\* A new call forgets the reply before it.
LEMMA AskKeeps == ASSUME CallsInv, NEW t \in Tasks, NEW c \in Calls, Ask(t, c) PROVE CallsInv'
<1> USE DEF CallsInv, Ask, AtCall
<1>1. CallsTypeOK'
    BY CallsAssumption DEF CallsTypeOK, CallPCs, Reply, Finishes, NoReply
<1>2. (NoFinishYet /\ AttemptLeft)'
    BY DEF CallsTypeOK, NoFinishYet, AttemptLeft, NoReply
<1>3. FlagOfOwnCall'
    BY DEF CallsTypeOK, FlagOfOwnCall, NoReply, PartWay
<1> QED
    BY <1>1, <1>2, <1>3

\* A call that waits, asks again, begins to speak, fails or is done with has no
\* more to show than before.
LEMMA WaitsKeep ==
    ASSUME CallsInv, NEW t \in Tasks,
           RateLimited(t) \/ SendAgain(t) \/ CallFails(t) \/ FirstToken(t) \/ Proceed(t)
    PROVE CallsInv'
<1> USE DEF CallsInv, AtCall
<1>1. CASE RateLimited(t)
  <2>1. CallsTypeOK'
      BY <1>1 DEF RateLimited, CallsTypeOK, CallPCs
  <2>2. (NoFinishYet /\ AttemptLeft)'
      BY <1>1 DEF RateLimited, Retries, CallsTypeOK, NoFinishYet, AttemptLeft
  <2>3. FlagOfOwnCall'
      BY <1>1 DEF RateLimited, CallsTypeOK, NoFinishYet, FlagOfOwnCall, PartWay
  <2> QED
      BY <2>1, <2>2, <2>3
<1>2. CASE SendAgain(t)
  <2>1. CallsTypeOK'
      BY <1>2, CallsAssumption DEF SendAgain, CallsTypeOK, CallPCs, AttemptLeft
  <2>2. (NoFinishYet /\ AttemptLeft)'
      BY <1>2 DEF SendAgain, CallsTypeOK, NoFinishYet, AttemptLeft
  <2>3. FlagOfOwnCall'
      BY <1>2 DEF SendAgain, CallsTypeOK, FlagOfOwnCall, PartWay
  <2> QED
      BY <2>1, <2>2, <2>3
<1>3. CASE CallFails(t)
  <2>1. CallsTypeOK'
      BY <1>3 DEF CallFails, CallsTypeOK, CallPCs
  <2>2. (NoFinishYet /\ AttemptLeft)'
      BY <1>3 DEF CallFails, CallsTypeOK, NoFinishYet, AttemptLeft
  <2>3. FlagOfOwnCall'
      BY <1>3 DEF CallFails, CallsTypeOK, NoFinishYet, FlagOfOwnCall, PartWay
  <2> QED
      BY <2>1, <2>2, <2>3
<1>4. CASE FirstToken(t)
  <2>1. CallsTypeOK'
      BY <1>4 DEF FirstToken, CallsTypeOK, CallPCs, Reply
  <2>2. (NoFinishYet /\ AttemptLeft)'
      BY <1>4 DEF FirstToken, CallsTypeOK, NoFinishYet, AttemptLeft, Reply
  <2>3. FlagOfOwnCall'
      BY <1>4 DEF FirstToken, CallsTypeOK, FlagOfOwnCall, PartWay, Reply
  <2> QED
      BY <2>1, <2>2, <2>3
<1>5. CASE Proceed(t)
  <2>1. CallsTypeOK'
      BY <1>5 DEF Proceed, CallsTypeOK, CallPCs
  <2>2. (NoFinishYet /\ AttemptLeft)'
      BY <1>5 DEF Proceed, CallsTypeOK, NoFinishYet, AttemptLeft
  <2>3. FlagOfOwnCall'
      BY <1>5 DEF Proceed, CallsTypeOK, FlagOfOwnCall, PartWay
  <2> QED
      BY <2>1, <2>2, <2>3
<1> QED
    BY <1>1, <1>2, <1>3, <1>4, <1>5

\* A reply is recorded first, then raised as having said nothing or noted as cut
\* off or whole; the two forms of a call end alike.
LEMMA RepliesKeep ==
    ASSUME CallsInv, NEW t \in Tasks, NEW r \in Reply, Complete(t, r) \/ EndOfStream(t, r)
    PROVE CallsInv'
<1>1. EndOfReply(t, r)
    BY DEF Complete, EndOfStream
<1>2. r.finish = "budget" => recorded'[t]
    BY <1>1 DEF EndOfReply, Recorded, CallsInv, CallsTypeOK
<1>3. CallsTypeOK'
    BY <1>1 DEF EndOfReply, Recorded, NoteFinish, PartWay, CallsInv, CallsTypeOK, CallPCs, Reply
<1>4. (NoFinishYet /\ AttemptLeft)'
    BY <1>1 DEF EndOfReply, CallsInv, CallsTypeOK, NoFinishYet, AttemptLeft
<1>5. callPc'[t] = "returned" => cutOff'[t] = PartWay(reply'[t])
    BY <1>1 DEF EndOfReply, NoteFinish, CallsInv, CallsTypeOK, PartWay
<1>6. \A u \in Tasks \ {t} : callPc'[u] = callPc[u] /\ reply'[u] = reply[u]
                               /\ cutOff'[u] = cutOff[u] /\ recorded'[u] = recorded[u]
    BY <1>1 DEF EndOfReply, Recorded, NoteFinish, CallsInv, CallsTypeOK
<1>7. reply'[t] = r
    BY <1>1 DEF EndOfReply, CallsInv, CallsTypeOK
<1>8. FlagOfOwnCall'
    BY <1>2, <1>5, <1>6, <1>7 DEF FlagOfOwnCall, CallsInv, PartWay
<1> QED
    BY <1>3, <1>4, <1>8 DEF CallsInv

\* The invariant is kept by every step of every call.
LEMMA CallsKeep == ASSUME CallsInv, [CallsNext]_callVars PROVE CallsInv'
<1>1. CASE CallsNext
    BY <1>1, AskKeeps, WaitsKeep, RepliesKeep DEF CallsNext
<1>2. CASE UNCHANGED callVars
    BY <1>2
    DEF callVars, CallsInv, CallsTypeOK, NoFinishYet, AttemptLeft, FlagOfOwnCall, PartWay
<1> QED
    BY <1>1, <1>2

\* The invariant of the calls, at every step of every behaviour.
THEOREM CallsInvariant == CallsSpec => []CallsInv
<1>1. CallsInit => CallsInv
    BY CallsStart
<1>2. CallsInv /\ [CallsNext]_callVars => CallsInv'
    BY CallsKeep
<1> QED
    BY <1>1, <1>2, PTL DEF CallsSpec

\* No task asks more often than _MAX_RETRIES allows, whatever its replies.
THEOREM CallsTypeCorrect == CallsSpec => []CallsTypeOK
<1>1. CallsInv => CallsTypeOK
    BY DEF CallsInv
<1> QED
    BY <1>1, CallsInvariant, PTL

\* A caller that reads output_was_cut_off after its own call learns of that call,
\* and what a spent budget cost is on record, however many tasks call at once.
THEOREM FlagIsOfOwnCall == CallsSpec => []FlagOfOwnCall
<1>1. CallsInv => FlagOfOwnCall
    BY DEF CallsInv
<1> QED
    BY <1>1, CallsInvariant, PTL

----------------------------------------------------------------------------
(* LlmRouting: where a prompt goes.                                        *)

\* A call's client is decided by what is in force for that call alone.
RouteInv ==
    /\ RouteTypeOK
    /\ wanted = NoCall => client = NoClient
    /\ wanted # NoCall => wanted.tier \in Tiers /\ client = ClientFor(env, wanted.override, wanted.tier)

\* Resolved at import or not, a call has one of two clients, and a model.
LEMMA ClientsAre ==
    ASSUME NEW e \in Environment, NEW o \in Override, NEW tier \in Tiers
    PROVE  /\ DetectProvider(e) \in {"anthropic", "litellm"}
           /\ Provider(e, o, tier) \in {"anthropic", "litellm"}
           /\ {DefaultModel(e, o), TierModel(e, o, tier)} \subseteq Models \ {Unset}
<1>1. e.provider \in Providers /\ {e.model, e.fast} \subseteq Models
  BY DEF Environment
<1>2. o.provider \in Providers /\ {o.model, o.fast} \subseteq Models
  BY DEF Override
<1>3. DetectProvider(e) \in {"anthropic", "litellm"}
  BY <1>1 DEF DetectProvider, Providers, Unset
<1>4. {DetectModel(e), DetectFastModel(e)} \subseteq Models \ {Unset}
  BY <1>1 DEF DetectModel, DetectFastModel, Or, Models, Unset
<1>5. Provider(e, o, tier) \in {"anthropic", "litellm"}
  BY <1>2, <1>3 DEF Provider, NamedModel, Or, Providers, Unset
<1>6. {DefaultModel(e, o), TierModel(e, o, tier)} \subseteq Models \ {Unset}
  BY <1>2, <1>4 DEF DefaultModel, TierModel, Or, Models, Unset
<1> QED BY <1>3, <1>5, <1>6

\* Neither is anything between two calls.
LEMMA NothingTyped == NoOverride \in Override /\ NoCall \in WantedCalls /\ NoClient \in LlmClients
<1>1. Unset \in Providers /\ Unset \in Models
  BY DEF Providers, Models
<1>2. NoOverride \in Override
  BY <1>1 DEF NoOverride, Override
<1>3. NoCall \in WantedCalls
  BY <1>2 DEF NoCall, WantedCalls
<1>4. NoClient \in LlmClients
  BY <1>1 DEF NoClient, LlmClients
<1> QED BY <1>2, <1>3, <1>4

\* A client is of the type of its variable, whatever was asked for.
LEMMA ClientIsTyped ==
    ASSUME NEW e \in Environment, NEW o \in Override, NEW tier \in Tiers
    PROVE  ClientFor(e, o, tier) \in LlmClients
<1>1. Refused \in LlmClients
  BY NothingTyped DEF Refused, LlmClients
<1>2. o.base \in BOOLEAN /\ Sent(e, o, tier) \in Models
  BY ClientsAre DEF Override, Sent, Models
<1> QED BY <1>1, <1>2, ClientsAre DEF ClientFor, LlmClients

\* The clients that are given: none past Bedrock, none to api.anthropic.com for
\* another provider's model.
LEMMA ClientStaysHome ==
    ASSUME NEW e \in Environment, NEW o \in Override, NEW tier \in Tiers,
           ClientFor(e, o, tier).kind \in {"anthropic", "litellm"}
    PROVE  /\ NamedModel(e, o) = "bedrock" \/ "bedrock" \in Effective(e, o, tier) =>
                 ClientFor(e, o, tier).kind = "litellm" /\ ClientFor(e, o, tier).model = "bedrock"
           /\ Destination(ClientFor(e, o, tier)) = "anthropic" => Effective(e, o, tier) = {"bare"}
<1> DEFINE c == ClientFor(e, o, tier)
<1>1. ~Contradiction(e, o, tier)
  BY DEF ClientFor, Refused, NoClient
<1>2. c = [kind |-> Provider(e, o, tier), model |-> Sent(e, o, tier), base |-> o.base]
  BY <1>1 DEF ClientFor
<1>3. NamedModel(e, o) = "bedrock" \/ "bedrock" \in Effective(e, o, tier) =>
         TierModel(e, o, tier) = "bedrock"
  BY <1>1 DEF Contradiction, OnBedrock, Effective
<1>4. TierModel(e, o, tier) = "bedrock" => Provider(e, o, tier) = "litellm" /\ Sent(e, o, tier) = "bedrock"
  BY DEF Provider, Sent
<1>5. Destination(c) = "anthropic" => Effective(e, o, tier) = {"bare"}
  <2> SUFFICES ASSUME Destination(c) = "anthropic" PROVE Effective(e, o, tier) = {"bare"}
    OBVIOUS
  <2>1. ~o.base /\ Provider(e, o, tier) = "anthropic"
    BY <1>2, ClientsAre DEF Destination, Sent, Models
  <2> QED BY <1>1, <2>1 DEF Contradiction, Foreign, Effective
<1> QED BY <1>2, <1>3, <1>4, <1>5

\* With nothing overridden, what refuses the fast tier refuses the default one.
LEMMA FastAsDefault ==
    ASSUME NEW e \in Environment, e.fast = Unset, ClientFor(e, NoOverride, "fast") = Refused
    PROVE  ClientFor(e, NoOverride, "default") = Refused
<1> DEFINE o == NoOverride
<1>1. o.provider = Unset /\ o.model = Unset /\ o.fast = Unset /\ o.base = FALSE /\ o.extra = FALSE
  BY DEF NoOverride
<1> HIDE DEF o
<1>2. o \in Override
  BY NothingTyped DEF o
<1>3. /\ NamedModel(e, o) = e.provider /\ DefaultModel(e, o) = DetectModel(e)
      /\ TierModel(e, o, "fast") = DetectFastModel(e) /\ TierModel(e, o, "default") = DetectModel(e)
  BY <1>1 DEF NamedModel, DefaultModel, TierModel, Or, Unset
<1>4. Contradiction(e, o, "fast")
  <2>1. Refused.kind = "refused"
    BY DEF Refused, NoClient
  <2> QED BY <2>1, <1>2, ClientsAre DEF ClientFor, o, Tiers
<1>5. e.provider \in Providers /\ e.model \in Models
  BY DEF Environment
<1>6. DetectFastModel(e) = DetectModel(e) \/ (e.model \notin {Unset, "bedrock"} /\ DetectFastModel(e) # "bedrock")
  BY <1>5 DEF DetectFastModel, DetectModel, Or, Unset
<1>7. CASE DetectFastModel(e) = DetectModel(e)
  <2>1. Provider(e, o, "fast") = Provider(e, o, "default")
    BY <1>3, <1>7 DEF Provider
  <2>2. Contradiction(e, o, "default")
    BY <1>3, <1>4, <1>7, <2>1 DEF Contradiction, Foreign
  <2> QED BY <2>2 DEF ClientFor, o
<1>8. CASE e.model \notin {Unset, "bedrock"} /\ DetectFastModel(e) # "bedrock"
  <2>1. DetectModel(e) = e.model
    BY <1>8 DEF DetectModel, Or
  <2>2. Provider(e, o, "fast") = Provider(e, o, "default")
    BY <1>3, <1>8, <2>1 DEF Provider
  <2>3. DetectFastModel(e) \in {"openai", "bare"}
    BY <1>8 DEF DetectFastModel, Or, Unset, Environment
  <2>4. OnBedrock(e, o) => Contradiction(e, o, "default")
    BY <1>3, <1>8, <2>1 DEF Contradiction
  <2>5. Provider(e, o, "fast") = "anthropic" /\ Foreign(e, o, "fast") => Foreign(e, o, "default")
    <3> SUFFICES ASSUME Provider(e, o, "fast") = "anthropic", Foreign(e, o, "fast")
                 PROVE  Foreign(e, o, "default")
      OBVIOUS
    <3>1. e.model # "bare" \/ DetectFastModel(e) = "openai"
      BY <1>3, <2>1, <2>3 DEF Foreign
    <3>2. DetectProvider(e) # "litellm"
      BY <1>1, <1>3 DEF Provider, Or
    <3> QED BY <1>3, <1>8, <2>1, <3>1, <3>2 DEF Foreign, DetectFastModel, Or
  <2>6. Contradiction(e, o, "default")
    BY <1>1, <1>3, <1>4, <1>8, <2>2, <2>3, <2>4, <2>5 DEF Contradiction
  <2> QED BY <2>6 DEF ClientFor, o
<1> QED BY <1>6, <1>7, <1>8

\* The client in use is always the one its call asks for.
THEOREM RouteInvariant == RouteSpec => []RouteInv
<1>1. RouteInit => RouteInv
  BY NothingTyped DEF RouteInit, RouteInv, RouteTypeOK
<1>2. ASSUME RouteInv, [RouteNext]_routeVars PROVE RouteInv'
  <2>1. ASSUME NEW o \in Override, NEW t \in Tiers, GetLlmClient(o, t) PROVE RouteInv'
    <3>1. wanted'.tier = t /\ wanted'.override = o /\ env' = env
      BY <2>1 DEF GetLlmClient
    <3>2. wanted' # NoCall
      BY <3>1 DEF NoCall, Tiers
    <3>3. wanted' \in WantedCalls
      BY <2>1 DEF GetLlmClient, WantedCalls
    <3> QED BY <1>2, <2>1, <3>1, <3>2, <3>3, ClientIsTyped
            DEF GetLlmClient, RouteInv, RouteTypeOK
  <2>2. CASE CallOver
    BY <1>2, <2>2, NothingTyped DEF CallOver, RouteInv, RouteTypeOK
  <2>3. CASE UNCHANGED routeVars
    BY <1>2, <2>3 DEF routeVars, RouteInv, RouteTypeOK
  <2> QED BY <1>2, <2>1, <2>2, <2>3 DEF RouteNext
<1> QED BY <1>1, <1>2, PTL DEF RouteSpec

\* A prompt leaves for the provider the operator named, and for no other.
THEOREM PromptsStayHome == RouteSpec => []PromptStaysHome
<1>1. RouteInv => PromptStaysHome
  <2> DEFINE o == wanted.override
             used == Effective(env, o, wanted.tier)
  <2> SUFFICES ASSUME RouteInv, client.kind \in {"anthropic", "litellm"}
               PROVE  /\ NamedModel(env, o) = "bedrock" \/ "bedrock" \in used =>
                            client.kind = "litellm" /\ client.model = "bedrock"
                      /\ Destination(client) = "anthropic" => used = {"bare"}
    BY DEF PromptStaysHome
  <2>1. wanted # NoCall
    BY DEF RouteInv, NoClient
  <2> QED BY <2>1, ClientStaysHome DEF RouteInv, RouteTypeOK, WantedCalls
<1> QED BY <1>1, RouteInvariant, PTL

\* A call of the fast tier asks for a model its provider serves.
THEOREM FastTierAlwaysWorks == RouteSpec => []FastTierWorks
<1>1. RouteInv => FastTierWorks
  <2>1. NoCall.tier = "none"
    BY DEF NoCall
  <2> QED BY <2>1, FastAsDefault DEF RouteInv, RouteTypeOK, FastTierWorks
<1> QED BY <1>1, RouteInvariant, PTL

----------------------------------------------------------------------------
(* StreamedSql: a reply is split as the model wrote it.                    *)

----------------------------------------------------------------------------
(* Positions of the reply.                                                 *)

\* What stands from one position to another.
Cut(t, i, j) == SubSeq(t, i, j)

\* A tag begins at p; none lies between two positions; the first one from i on.
TagAt(t, tag, p) == p \in 1 .. Len(t) - 1 /\ t[p] = tag[1] /\ t[p + 1] = tag[2]
NoTag(t, tag, i, j) == \A p \in i .. j - 1 : ~ TagAt(t, tag, p)
FirstTag(t, tag, i, p) == p \in Nat /\ p >= i /\ TagAt(t, tag, p) /\ NoTag(t, tag, i, p)

\* The two tags.
Tags == {OpenTag, CloseTag}

\* A set of natural numbers that is not empty has a least element.
LEMMA LeastOf ==
    ASSUME NEW T, T \subseteq Nat, T # {}
    PROVE  \E x \in T : \A y \in T : x <= y
<1>1. PICK x \in T : \A y \in T : ~ (<<y, x>> \in OpToRel(<, Nat))
  BY WFMin, NatLessThanWellFounded
<1>2. \A y \in T : ~ (y < x)
  BY <1>1 DEF OpToRel
<1> QED
  BY <1>2

\* The symbols of a piece.
LEMMA CutIs ==
    ASSUME NEW t \in Seq(Symbols), NEW i \in Nat, NEW j \in Nat, 1 <= i, i <= j + 1, j <= Len(t)
    PROVE  /\ Cut(t, i, j) \in Seq(Symbols) /\ Len(Cut(t, i, j)) = j - i + 1
           /\ \A k \in 1 .. j - i + 1 : Cut(t, i, j)[k] = t[i + k - 1]
<1>1. \A k \in i .. j : t[k] \in Symbols
  OBVIOUS
<1>2. /\ SubSeq(t, i, j) \in Seq(Symbols)
      /\ Len(SubSeq(t, i, j)) = IF i <= j THEN j - i + 1 ELSE 0
      /\ \A k \in 1 .. j - i + 1 : SubSeq(t, i, j)[k] = t[i + k - 1]
  BY <1>1, SubSeqProperties
<1> QED
  BY <1>2 DEF Cut

\* str.find says where a tag first begins in a piece of the reply.
LEMMA FindIs ==
    ASSUME NEW t \in Seq(Symbols), NEW i \in Nat, NEW j \in Nat, 1 <= i, i <= j + 1, j <= Len(t),
           NEW tag \in Tags
    PROVE  /\ Find(Cut(t, i, j), tag) \in Nat
           /\ Find(Cut(t, i, j), tag) = 0 => NoTag(t, tag, i, j)
           /\ Find(Cut(t, i, j), tag) # 0 =>
                 /\ FirstTag(t, tag, i, i + Find(Cut(t, i, j), tag) - 1)
                 /\ i + Find(Cut(t, i, j), tag) <= j
<1> DEFINE s == Cut(t, i, j)
           places == {k \in 1 .. Len(s) - 1 : SubSeq(s, k, k + 1) = tag}
<1>1. s \in Seq(Symbols) /\ Len(s) = j - i + 1 /\ \A k \in 1 .. j - i + 1 : s[k] = t[i + k - 1]
  BY CutIs
<1>2. tag \in Seq(Symbols) /\ Len(tag) = 2
  <2>1. "<" \in Symbols /\ "s" \in Symbols /\ "/" \in Symbols
    BY StreamAssumption
  <2>2. OpenTag \in Seq(Symbols) /\ Len(OpenTag) = 2
    BY <2>1 DEF OpenTag
  <2>3. CloseTag \in Seq(Symbols) /\ Len(CloseTag) = 2
    BY <2>1 DEF CloseTag
  <2> QED
    BY <2>2, <2>3 DEF Tags
<1> HIDE DEF s
<1>3. ASSUME NEW k \in 1 .. Len(s) - 1
      PROVE  SubSeq(s, k, k + 1) = tag <=> TagAt(t, tag, i + k - 1)
  <2>1. /\ SubSeq(s, k, k + 1) \in Seq(Symbols) /\ Len(SubSeq(s, k, k + 1)) = 2
        /\ SubSeq(s, k, k + 1)[1] = s[k] /\ SubSeq(s, k, k + 1)[2] = s[k + 1]
    <3>1. k \in Int /\ k + 1 \in Int /\ \A m \in k .. k + 1 : s[m] \in Symbols
      BY <1>1
    <3>2. PICK u : u = SubSeq(s, k, k + 1)
      OBVIOUS
    <3>3. /\ u \in Seq(Symbols)
          /\ Len(u) = IF k <= k + 1 THEN k + 1 - k + 1 ELSE 0
          /\ \A m \in 1 .. k + 1 - k + 1 : u[m] = s[k + m - 1]
      BY <3>1, <3>2, SubSeqProperties
    <3>4. /\ (IF k <= k + 1 THEN k + 1 - k + 1 ELSE 0) = 2
          /\ 1 \in 1 .. k + 1 - k + 1 /\ 2 \in 1 .. k + 1 - k + 1
          /\ k + 1 - 1 = k /\ k + 2 - 1 = k + 1
      BY ONLY k \in Int
    <3>5. Len(u) = 2
      BY ONLY <3>3, <3>4
    <3>6. u[1] = s[k] /\ u[2] = s[k + 1]
      BY ONLY <3>3, <3>4
    <3> QED
      BY ONLY <3>2, <3>3, <3>5, <3>6
  <2>2. SubSeq(s, k, k + 1) = tag <=> s[k] = tag[1] /\ s[k + 1] = tag[2]
    <3>1. \A u, v \in Seq(Symbols) : Len(u) = 2 /\ Len(v) = 2 /\ u[1] = v[1] /\ u[2] = v[2] => u = v
      BY SeqEqual
    <3> QED
      BY <1>2, <2>1, <3>1
  <2>3. s[k] = t[i + k - 1] /\ s[k + 1] = t[i + k] /\ i + k - 1 \in 1 .. Len(t) - 1
    BY <1>1
  <2>4. i + k - 1 + 1 = i + k
    BY <1>1
  <2> QED
    BY <2>2, <2>3, <2>4 DEF TagAt
<1>4. Find(s, tag) = IF places = {} THEN 0 ELSE CHOOSE k \in places : \A m \in places : k <= m
  BY DEF Find
<1>5. CASE places = {}
  <2>1. \A p \in i .. j - 1 : p - i + 1 \in 1 .. Len(s) - 1 /\ i + (p - i + 1) - 1 = p
    BY <1>1
  <2>2. ASSUME NEW p \in i .. j - 1 PROVE ~ TagAt(t, tag, p)
    <3>1. p - i + 1 \notin places
      BY <1>5
    <3> QED
      BY <1>3, <2>1, <3>1
  <2> QED
    BY <1>4, <1>5, <2>2 DEF NoTag, s
<1>6. CASE places # {}
  <2>1. places \subseteq Nat
    OBVIOUS
  <2>2. PICK f \in places : \A m \in places : f <= m
    BY <1>6, <2>1, LeastOf
  <2>3. PICK g : g = Find(s, tag)
    OBVIOUS
  <2>4. g \in places /\ \A m \in places : g <= m
    BY <1>4, <1>6, <2>2, <2>3
  <2>5. g \in 1 .. Len(s) - 1 /\ TagAt(t, tag, i + g - 1)
    BY <1>3, <2>4
  <2>6. ASSUME NEW p \in i .. i + g - 2 PROVE ~ TagAt(t, tag, p)
    <3>1. p - i + 1 \in 1 .. Len(s) - 1 /\ i + (p - i + 1) - 1 = p /\ p - i + 1 < g
      BY <1>1, <2>5
    <3>2. p - i + 1 \notin places
      <4>1. ~ (g <= p - i + 1)
        BY <3>1, <2>5
      <4> QED
        BY <2>4, <4>1
    <3> HIDE DEF places
    <3>3. ~ SubSeq(s, p - i + 1, p - i + 1 + 1) = tag
      BY <3>1, <3>2 DEF places
    <3> QED
      BY <1>3, <3>1, <3>3
  <2>7. i + g - 1 \in Nat /\ i + g - 1 >= i /\ i + g <= j /\ g \in Nat /\ g # 0
    BY <1>1, <2>5
  <2>8. i + g - 1 - 1 = i + g - 2
    BY <2>7
  <2>9. FirstTag(t, tag, i, i + g - 1)
    BY <2>5, <2>6, <2>7, <2>8 DEF FirstTag, NoTag
  <2> QED
    BY <2>3, <2>7, <2>9 DEF s
<1> QED
  BY <1>5, <1>6

\* The first tag is one only.
LEMMA FirstIsOne ==
    ASSUME NEW t, NEW i \in Nat, NEW tag, NEW p, FirstTag(t, tag, i, p), NEW q, FirstTag(t, tag, i, q)
    PROVE  p = q
  BY DEF FirstTag, NoTag

\* Pieces of a piece are pieces.
PiecesOf(t, i, j) ==
    \A m, n \in Nat : 1 <= m /\ m <= n + 1 /\ n <= j - i + 1 =>
       SubSeq(Cut(t, i, j), m, n) = Cut(t, i + m - 1, i + n - 1)

\* They are, of whatever stands in a sequence.
LEMMA CutOfCut ==
    ASSUME NEW t \in Seq(Symbols), NEW i \in Nat, NEW j \in Nat, 1 <= i, i <= j + 1, j <= Len(t)
    PROVE  PiecesOf(t, i, j)
<1> SUFFICES ASSUME NEW m \in Nat, NEW n \in Nat, 1 <= m, m <= n + 1, n <= j - i + 1
             PROVE  SubSeq(Cut(t, i, j), m, n) = Cut(t, i + m - 1, i + n - 1)
  BY DEF PiecesOf
<1>0. PICK a \in Nat, b \in Nat : a = i + m - 1 /\ b = i + n - 1
  OBVIOUS
<1> DEFINE s == Cut(t, i, j)
<1>1. s \in Seq(Symbols) /\ Len(s) = j - i + 1 /\ \A k \in 1 .. j - i + 1 : s[k] = t[i + k - 1]
  BY CutIs
<1>2. 1 <= a /\ a <= b + 1 /\ b <= Len(t) /\ b - a + 1 = n - m + 1
  BY <1>0
<1>3. /\ Cut(t, a, b) \in Seq(Symbols) /\ Len(Cut(t, a, b)) = n - m + 1
      /\ \A k \in 1 .. n - m + 1 : Cut(t, a, b)[k] = t[a + k - 1]
  <2>2. /\ Cut(t, a, b) \in Seq(Symbols) /\ Len(Cut(t, a, b)) = b - a + 1
        /\ \A k \in 1 .. b - a + 1 : Cut(t, a, b)[k] = t[a + k - 1]
    BY <1>2, CutIs
  <2> QED
    BY <1>2, <2>2
<1> HIDE DEF s
<1>4. /\ SubSeq(s, m, n) \in Seq(Symbols) /\ Len(SubSeq(s, m, n)) = n - m + 1
      /\ \A k \in 1 .. n - m + 1 : SubSeq(s, m, n)[k] = s[m + k - 1]
  <2>1. \A k \in m .. n : s[k] \in Symbols
    BY <1>1
  <2>2. /\ SubSeq(s, m, n) \in Seq(Symbols)
        /\ Len(SubSeq(s, m, n)) = IF m <= n THEN n - m + 1 ELSE 0
        /\ \A k \in 1 .. n - m + 1 : SubSeq(s, m, n)[k] = s[m + k - 1]
    BY <2>1, SubSeqProperties
  <2>3. ~ (m <= n) => n - m + 1 = 0
    OBVIOUS
  <2> QED
    BY <2>2, <2>3
<1>5. \A k \in 1 .. n - m + 1 : /\ m + k - 1 \in 1 .. j - i + 1
                                /\ i + (m + k - 1) - 1 = a + k - 1
  BY <1>0
<1>6. \A k \in 1 .. n - m + 1 : SubSeq(s, m, n)[k] = Cut(t, a, b)[k]
  BY <1>1, <1>3, <1>4, <1>5
<1>7. SubSeq(s, m, n) = Cut(t, a, b)
  BY <1>3, <1>4, <1>6, SeqEqual
<1> QED
  BY <1>0, <1>7 DEF s

\* What precedes a place in a piece, and what follows the tag there.
LEMMA CutBefore ==
    ASSUME NEW t \in Seq(Symbols), NEW i \in Nat, NEW j \in Nat, 1 <= i, j <= Len(t),
           NEW f \in Nat, 1 <= f, i + f <= j + 1
    PROVE  Before(Cut(t, i, j), f) = Cut(t, i, i + f - 2)
<1>1. PICK m \in Nat, n \in Nat : m = 1 /\ n = f - 1
  OBVIOUS
<1>2. 1 <= m /\ m <= n + 1 /\ n <= j - i + 1 /\ i <= j + 1
  BY <1>1
<1>3. SubSeq(Cut(t, i, j), m, n) = Cut(t, i + m - 1, i + n - 1)
  <2>1. PiecesOf(t, i, j)
    BY <1>2, CutOfCut
  <2> QED
    BY <1>2, <2>1 DEF PiecesOf
<1>4. i + m - 1 = i /\ i + n - 1 = i + f - 2
  BY <1>1
<1> QED
  BY <1>1, <1>3, <1>4 DEF Before

\* What follows a tag in a cut.
LEMMA CutAfter ==
    ASSUME NEW t \in Seq(Symbols), NEW i \in Nat, NEW j \in Nat, 1 <= i, j <= Len(t),
           NEW f \in Nat, 1 <= f, i + f <= j
    PROVE  After(Cut(t, i, j), f) = Cut(t, i + f + 1, j)
<1>1. PICK m \in Nat, n \in Nat : m = f + 2 /\ n = j - i + 1
  OBVIOUS
<1>2. 1 <= m /\ m <= n + 1 /\ n <= j - i + 1 /\ i <= j + 1
  BY <1>1
<1>3. SubSeq(Cut(t, i, j), m, n) = Cut(t, i + m - 1, i + n - 1)
  <2>1. PiecesOf(t, i, j)
    BY <1>2, CutOfCut
  <2> QED
    BY <1>2, <2>1 DEF PiecesOf
<1>4. i + m - 1 = i + f + 1 /\ i + n - 1 = j
  BY <1>1
<1>5. Len(Cut(t, i, j)) = n
  BY <1>1, <1>2, CutIs
<1> QED
  BY <1>1, <1>3, <1>4, <1>5 DEF After

\* The length of a piece, and its last symbol.
LEMMA LastOf ==
    ASSUME NEW t \in Seq(Symbols), NEW i \in Nat, NEW r \in Nat, 1 <= i, i <= r, r <= Len(t),
           NEW m \in Nat, m = r - i + 1
    PROVE  Len(Cut(t, i, r)) = m /\ SubSeq(Cut(t, i, r), m, m) = Cut(t, r, r)
<1>1. 1 <= m /\ m <= m + 1 /\ m <= r - i + 1 /\ i <= r + 1
  OBVIOUS
<1>2. PiecesOf(t, i, r)
  BY <1>1, CutOfCut
<1>3. SubSeq(Cut(t, i, r), m, m) = Cut(t, i + m - 1, i + m - 1)
  BY <1>1, <1>2 DEF PiecesOf
<1>4. i + m - 1 = r
  OBVIOUS
<1>5. Len(Cut(t, i, r)) = r - i + 1
  BY <1>1, CutIs
<1> QED
  BY <1>3, <1>4, <1>5

\* Neighbouring pieces make one.
LEMMA CutsJoin ==
    ASSUME NEW t \in Seq(Symbols)
    PROVE  \A i, k, j \in Nat : 1 <= i /\ i <= k + 1 /\ k <= j /\ j <= Len(t) =>
              Cut(t, i, k) \o Cut(t, k + 1, j) = Cut(t, i, j)
<1> SUFFICES ASSUME NEW i \in Nat, NEW k \in Nat, NEW j \in Nat,
                    1 <= i, i <= k + 1, k <= j, j <= Len(t)
             PROVE  Cut(t, i, k) \o Cut(t, k + 1, j) = Cut(t, i, j)
  OBVIOUS
<1>1. i \in 1 .. Len(t) + 1 /\ k \in i - 1 .. Len(t) /\ j \in k .. Len(t)
  OBVIOUS
<1> QED
  BY <1>1, ConcatAdjacentSubSeq DEF Cut

\* The whole reply, and nothing of it.
LEMMA CutWhole ==
    ASSUME NEW t \in Seq(Symbols)
    PROVE  Cut(t, 1, Len(t)) = t /\ \A i \in Nat : Cut(t, i + 1, i) = <<>>
<1>1. Cut(t, 1, Len(t)) = t
  BY SubSeqFull DEF Cut
<1>2. ASSUME NEW i \in Nat PROVE Cut(t, i + 1, i) = <<>>
  <2>1. i + 1 \in Int /\ i \in Int /\ i < i + 1
    OBVIOUS
  <2> QED
    BY <2>1, SubSeqEmpty DEF Cut
<1> QED
  BY <1>1, <1>2

\* A tag is found inside a sequence or not at all.
LEMMA FindPlace ==
    ASSUME NEW s \in Seq(Symbols), NEW tag
    PROVE  Find(s, tag) = 0 \/ Find(s, tag) \in 1 .. Len(s) - 1
<1> DEFINE places == {k \in 1 .. Len(s) - 1 : SubSeq(s, k, k + 1) = tag}
<1>1. Find(s, tag) = IF places = {} THEN 0 ELSE CHOOSE k \in places : \A m \in places : k <= m
  BY DEF Find
<1>2. places \subseteq Nat /\ places \subseteq 1 .. Len(s) - 1
  OBVIOUS
<1> HIDE DEF places
<1>3. CASE places # {}
  <2>1. PICK f \in places : \A m \in places : f <= m
    BY <1>2, <1>3, LeastOf
  <2> QED
    BY <1>1, <1>2, <1>3, <2>1
<1> QED
  BY <1>1, <1>3

\* What was shown stays shown when more is.
LEMMA PrefixKept ==
    ASSUME NEW p \in Seq(Symbols), NEW s \in Seq(Symbols), NEW more \in Seq(Symbols)
    PROVE  /\ IsPrefix(p, s) => IsPrefix(p, s \o more)
           /\ IsPrefix(p, p \o more) /\ IsPrefix(p, p)
           /\ s \o more \in Seq(Symbols)
<1>1. ASSUME NEW a \in Seq(Symbols), IsPrefix(p, a)
      PROVE  IsPrefix(p, a \o more)
  <2>1. Len(p) \in Nat /\ Len(a) \in Nat /\ Len(more) \in Nat /\ Len(p) <= Len(a)
    BY <1>1 DEF IsPrefix
  <2>2. /\ a \o more \in Seq(Symbols) /\ Len(a \o more) = Len(a) + Len(more)
        /\ \A k \in 1 .. Len(a) + Len(more) :
              (a \o more)[k] = IF k <= Len(a) THEN a[k] ELSE more[k - Len(a)]
    BY ConcatProperties
  <2>3. \A k \in 1 .. Len(p) : k \in 1 .. Len(a) /\ k \in 1 .. Len(a) + Len(more)
    BY <2>1
  <2>4. \A k \in 1 .. Len(p) : (a \o more)[k] = a[k]
    BY <2>2, <2>3
  <2>5. SubSeq(a, 1, Len(p)) = SubSeq(a \o more, 1, Len(p))
    <3>1. \A k \in 1 .. Len(p) : a[k] \in Symbols /\ (a \o more)[k] \in Symbols
      BY <2>3, <2>4
    <3>2. PICK m \in Nat : m = Len(p)
      BY <2>1
    <3>3. /\ SubSeq(a, 1, m) \in Seq(Symbols)
          /\ Len(SubSeq(a, 1, m)) = IF 1 <= m THEN m - 1 + 1 ELSE 0
          /\ \A k \in 1 .. m - 1 + 1 : SubSeq(a, 1, m)[k] = a[1 + k - 1]
      BY <3>1, <3>2, SubSeqProperties
    <3>4. PICK b : b = a \o more /\ \A k \in 1 .. m : b[k] \in Symbols
      BY <3>1, <3>2
    <3>9. \A k \in 1 .. m : b[k] \in Symbols
      BY <3>4
    <3>10. m \in Int /\ 1 \in Int
      OBVIOUS
    <3>5. /\ SubSeq(b, 1, m) \in Seq(Symbols)
          /\ Len(SubSeq(b, 1, m)) = IF 1 <= m THEN m - 1 + 1 ELSE 0
          /\ \A k \in 1 .. m - 1 + 1 : SubSeq(b, 1, m)[k] = b[1 + k - 1]
      BY ONLY <3>9, <3>10, SubSeqProperties
    <3>6. Len(SubSeq(a, 1, m)) = m /\ Len(SubSeq(b, 1, m)) = m
      BY <3>3, <3>5
    <3>7. \A k \in 1 .. m : SubSeq(a, 1, m)[k] = SubSeq(b, 1, m)[k]
      <4>1. \A k \in 1 .. m : k \in 1 .. m - 1 + 1 /\ 1 + k - 1 = k
        OBVIOUS
      <4> QED
        BY <2>4, <3>2, <3>3, <3>4, <3>5, <4>1
    <3>8. SubSeq(a, 1, m) = SubSeq(b, 1, m)
      BY <3>3, <3>5, <3>6, <3>7, SeqEqual
    <3> QED
      BY <3>2, <3>4, <3>8
  <2> QED
    BY <1>1, <2>1, <2>2, <2>5 DEF IsPrefix
<1>2. IsPrefix(p, p)
  BY DEF IsPrefix
<1>3. s \o more \in Seq(Symbols)
  BY ConcatProperties
<1> QED
  BY <1>1, <1>2, <1>3

----------------------------------------------------------------------------
(* The three phases of a stream.                                           *)

\* Before the opening tag: all but what is held back is shown.
Prose(t, r, in, found, out, held, buf) ==
    /\ in = FALSE /\ found = FALSE
    /\ \E h \in Nat : /\ h < r \/ h = 0
                      /\ h <= r
                      /\ out = Cut(t, 1, h) /\ held = Cut(t, h + 1, r)
                      /\ NoTag(t, OpenTag, 1, r)

\* Inside the statement, whose opening tag stands at o.
Inside(t, r, in, found, out, held, buf) ==
    /\ in = TRUE /\ found = FALSE /\ held = <<>>
    /\ \E o \in Nat : /\ FirstTag(t, OpenTag, 1, o) /\ o + 1 <= r
                      /\ out = Cut(t, 1, o - 1) /\ buf = Cut(t, o + 2, r)
                      /\ NoTag(t, CloseTag, o + 2, r)

\* After the closing tag, which stands at c: only another opening tag would
\* change the statement.
Past(t, r, in, found, out, held, buf) ==
    /\ found = TRUE
    /\ \E o, c \in Nat :
          /\ FirstTag(t, OpenTag, 1, o) /\ FirstTag(t, CloseTag, o + 2, c) /\ c + 1 <= r
          /\ IsPrefix(Cut(t, 1, o - 1), out)
          /\ NoTag(t, OpenTag, c + 2, Len(t)) =>
                /\ in = FALSE /\ buf = Cut(t, o + 2, c - 1)
                /\ \E h \in Nat : c + 1 <= h /\ h <= r /\ held = Cut(t, h + 1, r)

\* A reply is in one of the three phases.
Phase(t, r, in, found, out, held, buf) ==
    \/ Prose(t, r, in, found, out, held, buf)
    \/ Inside(t, r, in, found, out, held, buf)
    \/ Past(t, r, in, found, out, held, buf)

\* The inductive invariant: the phase while the reply streams, the promise after.
StreamInvariant ==
    /\ text \in Seq(Symbols) /\ received \in Nat /\ received <= Len(text)
    /\ shown \in Seq(Symbols) /\ pending \in Seq(Symbols)
    /\ verdict = "streaming" => Phase(text, received, inSql, foundSql, shown, pending, sqlBuf)
    /\ verdict # "streaming" => SplitAsWritten

\* What is in the buffer after the opening tag: the statement so far, or all
\* of it.
LEMMA Closes ==
    ASSUME NEW t \in Seq(Symbols), NEW r \in Nat, r <= Len(t),
           NEW o \in Nat, FirstTag(t, OpenTag, 1, o), o + 1 <= r
    PROVE  /\ Find(Cut(t, o + 2, r), CloseTag) = 0 => NoTag(t, CloseTag, o + 2, r)
           /\ Find(Cut(t, o + 2, r), CloseTag) # 0 =>
                 \E c \in Nat : /\ FirstTag(t, CloseTag, o + 2, c) /\ c + 1 <= r
                                /\ c = o + 1 + Find(Cut(t, o + 2, r), CloseTag)
                                /\ Before(Cut(t, o + 2, r), Find(Cut(t, o + 2, r), CloseTag))
                                      = Cut(t, o + 2, c - 1)
<1>1. o >= 1 /\ CloseTag \in Tags
  BY DEF FirstTag, TagAt, Tags
<1>2. PICK i \in Nat : i = o + 2 /\ 1 <= i /\ i <= r + 1
  BY <1>1
<1>3. PICK f : f = Find(Cut(t, i, r), CloseTag)
  OBVIOUS
<1>4. /\ f \in Nat
      /\ f = 0 => NoTag(t, CloseTag, i, r)
      /\ f # 0 => FirstTag(t, CloseTag, i, i + f - 1) /\ i + f <= r
  BY <1>1, <1>2, <1>3, FindIs
<1>5. ASSUME f # 0
      PROVE  \E c \in Nat : /\ FirstTag(t, CloseTag, i, c) /\ c + 1 <= r
                            /\ c = o + 1 + f
                            /\ Before(Cut(t, i, r), f) = Cut(t, i, c - 1)
  <2>1. PICK c \in Nat : c = i + f - 1
    BY <1>2, <1>4
  <2>2. FirstTag(t, CloseTag, i, c) /\ c + 1 <= r /\ c = o + 1 + f
    BY <1>2, <1>4, <1>5, <2>1
  <2>3. f \in Nat /\ 1 <= f /\ i + f <= r + 1 /\ 1 <= i
    BY <1>2, <1>4, <1>5
  <2>4. Before(Cut(t, i, r), f) = Cut(t, i, i + f - 2)
    BY <2>3, CutBefore
  <2>5. i + f - 2 = c - 1
    BY <2>1, <2>3
  <2> QED
    BY <2>2, <2>4, <2>5
<1> QED
  BY <1>2, <1>3, <1>4, <1>5

\* A token while prose is shown.
LEMMA ProseTaken ==
    ASSUME StreamInvariant, verdict = "streaming", NEW n \in Nat \ {0}, received + n <= Len(text),
           Prose(text, received, inSql, foundSql, shown, pending, sqlBuf),
           NEW r \in Nat, r = received + n,
           NEW token, token = Cut(text, received + 1, r),
           OpensStatement(token) \/ InProse(token)
    PROVE  Phase(text, r, inSql', foundSql', shown', pending', sqlBuf')
<1> DEFINE t == text
<1>1. /\ t \in Seq(Symbols) /\ received \in Nat /\ received < r /\ r <= Len(t)
      /\ OpenTag \in Tags /\ inSql = FALSE /\ foundSql = FALSE
  BY DEF StreamInvariant, Prose, Tags
<1>2. PICK h \in Nat : /\ h < received \/ h = 0
                       /\ h <= received
                       /\ shown = Cut(t, 1, h) /\ pending = Cut(t, h + 1, received)
                       /\ NoTag(t, OpenTag, 1, received)
  BY DEF Prose
<1>0. \A a, k, j \in Nat : 1 <= a /\ a <= k + 1 /\ k <= j /\ j <= Len(t) =>
              Cut(t, a, k) \o Cut(t, k + 1, j) = Cut(t, a, j)
  BY <1>1, CutsJoin
<1>3. PICK i \in Nat : i = h + 1 /\ 1 <= i /\ i <= received + 1 /\ i <= r /\ i <= r + 1
  BY <1>1, <1>2
<1>4. pending \o token = Cut(t, i, r)
  <2>1. received <= r
    BY <1>1
  <2>2. Cut(t, i, received) \o Cut(t, received + 1, r) = Cut(t, i, r)
    BY <1>1, <1>3, <1>0, <2>1
  <2> QED
    BY <1>2, <1>3, <2>2
<1>5. PICK f : f = Find(Cut(t, i, r), OpenTag)
  OBVIOUS
<1>6. /\ f \in Nat
      /\ f = 0 => NoTag(t, OpenTag, i, r)
      /\ f # 0 => FirstTag(t, OpenTag, i, i + f - 1) /\ i + f <= r
  BY <1>1, <1>3, <1>5, FindIs
<1>7. f # 0 => FirstTag(t, OpenTag, 1, i + f - 1)
  BY <1>1, <1>2, <1>3, <1>6 DEF FirstTag, NoTag
<1>8. f = 0 => NoTag(t, OpenTag, 1, r)
  BY <1>1, <1>2, <1>3, <1>6 DEF NoTag
<1>9. CASE OpensStatement(token) /\ f # 0
  <2>1. PICK o \in Nat : o = h + f /\ o >= 1
    BY <1>6, <1>9
  <2>2. FirstTag(t, OpenTag, 1, o) /\ o + 1 <= r /\ i + f - 1 = o
    BY <1>3, <1>6, <1>7, <1>9, <2>1
  <2>3. Before(Cut(t, i, r), f) = Cut(t, i, i + f - 2)
    <3>1. 1 <= f /\ i + f <= r + 1
      BY <1>6, <1>9
    <3> QED
      BY <1>1, <1>3, <1>6, <3>1, CutBefore
  <2>4. i + f - 2 = o - 1 /\ i + f + 1 = o + 2
    BY <1>3, <1>6, <2>1
  <2>5. shown' = Cut(t, 1, o - 1)
    <3>1. shown' = Cut(t, 1, h) \o Cut(t, h + 1, o - 1)
      BY <1>2, <1>3, <1>4, <1>5, <1>9, <2>3, <2>4 DEF OpensStatement
    <3>2. PICK x \in Nat : x = o - 1
      BY <2>1
    <3>3. 1 <= h + 1 /\ h <= x /\ x <= Len(t)
      BY <1>1, <1>6, <1>9, <2>1, <2>2, <3>2
    <3>4. Cut(t, 1, h) \o Cut(t, h + 1, x) = Cut(t, 1, x)
      <4>1. 1 <= 1
        OBVIOUS
      <4> QED
        BY <1>0, <3>3, <4>1
    <3> QED
      BY <3>1, <3>2, <3>4
  <2>6. After(Cut(t, i, r), f) = Cut(t, o + 2, r)
    <3>1. After(Cut(t, i, r), f) = Cut(t, i + f + 1, r)
      BY <1>1, <1>3, <1>6, <1>9, CutAfter
    <3> QED
      BY <2>4, <3>1
  <2>7. PICK close : close = Find(Cut(t, o + 2, r), CloseTag)
    OBVIOUS
  <2>8. /\ sqlBuf' = IF close = 0 THEN Cut(t, o + 2, r) ELSE Before(Cut(t, o + 2, r), close)
        /\ inSql' = (close = 0) /\ foundSql' = (close # 0) /\ pending' = <<>>
    BY <1>1, <1>4, <1>5, <1>9, <2>6, <2>7 DEF OpensStatement
  <2>9. CASE close = 0
    <3>1. NoTag(t, CloseTag, o + 2, r)
      BY <1>1, <2>2, <2>7, <2>9, Closes
    <3>2. inSql' = TRUE /\ foundSql' = FALSE /\ pending' = <<>> /\ sqlBuf' = Cut(t, o + 2, r)
      BY <2>8, <2>9
    <3> QED
      BY <2>2, <2>5, <3>1, <3>2 DEF Phase, Inside
  <2>10. CASE close # 0
    <3>1. PICK c \in Nat : /\ FirstTag(t, CloseTag, o + 2, c) /\ c + 1 <= r
                           /\ Before(Cut(t, o + 2, r), close) = Cut(t, o + 2, c - 1)
      BY <1>1, <2>2, <2>7, <2>10, Closes
    <3>2. pending' = Cut(t, r + 1, r)
      BY <1>1, <2>8, CutWhole
    <3>3. IsPrefix(Cut(t, 1, o - 1), shown')
      BY <2>5 DEF IsPrefix
    <3>4. \E hh \in Nat : c + 1 <= hh /\ hh <= r /\ pending' = Cut(t, hh + 1, r)
      BY <3>1, <3>2
    <3>5. inSql' = FALSE /\ foundSql' = TRUE /\ sqlBuf' = Cut(t, o + 2, c - 1)
      BY <2>8, <2>10, <3>1
    <3> QED
      BY <2>2, <3>1, <3>3, <3>4, <3>5 DEF Phase, Past
  <2> QED
    BY <2>9, <2>10
<1>10. CASE InProse(token) /\ f = 0
  <2>1. PICK x \in Nat, m \in Nat : x = r - 1 /\ m = r - h /\ m >= 1
    BY <1>1, <1>2
  <2>2. Len(Cut(t, i, r)) = m
    <3>1. Len(Cut(t, i, r)) = r - i + 1
      BY <1>1, <1>3, CutIs
    <3> QED
      BY <1>1, <1>3, <2>1, <3>1
  <2>3. Hold = 1
    BY DEF Hold, OpenTag
  <2>4. (IF m > Hold THEN m - Hold ELSE 0) = m - 1
    BY <2>1, <2>3
  <2>5. /\ shown' = shown \o SubSeq(Cut(t, i, r), 1, m - 1)
        /\ pending' = SubSeq(Cut(t, i, r), m - 1 + 1, m)
        /\ inSql' = FALSE /\ foundSql' = FALSE
    BY <1>1, <1>4, <1>10, <2>2, <2>4 DEF InProse
  <2>6. PICK y \in Nat : y = m - 1
    BY <2>1
  <2>7. PiecesOf(t, i, r)
    <3>1. 1 <= i /\ i <= r + 1 /\ r <= Len(t) /\ t \in Seq(Symbols) /\ i \in Nat /\ r \in Nat
      BY <1>1, <1>3
    <3> HIDE DEF t
    <3> QED
      BY ONLY <3>1, CutOfCut
  <2>8. SubSeq(Cut(t, i, r), 1, y) = Cut(t, i, x)
    <3>1. y <= r - i + 1 /\ i + 1 - 1 = i /\ i + y - 1 = x
      BY <1>1, <1>3, <2>1, <2>6
    <3>2. SubSeq(Cut(t, i, r), 1, y) = Cut(t, i + 1 - 1, i + y - 1)
      <4>1. 1 <= 1 /\ 1 <= y + 1 /\ 1 \in Nat
        OBVIOUS
      <4> QED
        BY ONLY <2>7, <3>1, <4>1, y \in Nat DEF PiecesOf
    <3> QED
      BY <3>1, <3>2
  <2>9. SubSeq(Cut(t, i, r), m, m) = Cut(t, x + 1, r)
    <3>1. m <= r - i + 1 /\ i + m - 1 = r /\ x + 1 = r
      BY <1>1, <1>3, <2>1
    <3>2. SubSeq(Cut(t, i, r), m, m) = Cut(t, i + m - 1, i + m - 1)
      <4>1. 1 <= m /\ m <= m + 1 /\ m \in Nat
        BY <2>1
      <4> QED
        BY ONLY <2>7, <3>1, <4>1 DEF PiecesOf
    <3> QED
      BY <3>1, <3>2
  <2>10. shown' = Cut(t, 1, x)
    <3>1. h <= x /\ x <= Len(t)
      BY <1>1, <1>2, <2>1
    <3>2. Cut(t, 1, h) \o Cut(t, h + 1, x) = Cut(t, 1, x)
      <4>1. 1 <= h + 1 /\ 1 <= 1
        OBVIOUS
      <4> QED
        BY <1>0, <3>1, <4>1
    <3> QED
      BY <1>2, <1>3, <2>5, <2>6, <2>8, <3>2
  <2>11. pending' = Cut(t, x + 1, r)
    <3>1. m - 1 + 1 = m
      BY <2>1
    <3> QED
      BY <2>5, <2>9, <3>1
  <2>12. x < r /\ x <= r
    BY <2>1
  <2>13. NoTag(t, OpenTag, 1, r)
    BY <1>8, <1>10
  <2>14. \E y2 \in Nat : /\ y2 < r \/ y2 = 0
                         /\ y2 <= r
                         /\ shown' = Cut(t, 1, y2) /\ pending' = Cut(t, y2 + 1, r)
                         /\ NoTag(t, OpenTag, 1, r)
    BY <2>10, <2>11, <2>12, <2>13
  <2> QED
    BY <2>5, <2>14 DEF Phase, Prose
<1> QED
  BY <1>4, <1>5, <1>9, <1>10 DEF OpensStatement, InProse

\* A token inside the statement.
LEMMA InsideTaken ==
    ASSUME StreamInvariant, verdict = "streaming", NEW n \in Nat \ {0}, received + n <= Len(text),
           Inside(text, received, inSql, foundSql, shown, pending, sqlBuf),
           NEW r \in Nat, r = received + n,
           NEW token, token = Cut(text, received + 1, r),
           InStatement(token)
    PROVE  Phase(text, r, inSql', foundSql', shown', pending', sqlBuf')
<1> DEFINE t == text
<1>1. /\ t \in Seq(Symbols) /\ received \in Nat /\ received <= r /\ r <= Len(t)
      /\ inSql = TRUE /\ foundSql = FALSE
  BY DEF StreamInvariant, Inside
<1>2. PICK o \in Nat : /\ FirstTag(t, OpenTag, 1, o) /\ o + 1 <= received
                       /\ shown = Cut(t, 1, o - 1) /\ sqlBuf = Cut(t, o + 2, received)
  BY DEF Inside
<1>3. PICK i \in Nat : i = o + 2 /\ 1 <= i /\ i <= received + 1 /\ o + 1 <= r
  BY <1>1, <1>2
<1>4. sqlBuf \o token = Cut(t, i, r)
  <2>1. \A a, k, j \in Nat : 1 <= a /\ a <= k + 1 /\ k <= j /\ j <= Len(t) =>
              Cut(t, a, k) \o Cut(t, k + 1, j) = Cut(t, a, j)
    BY <1>1, CutsJoin
  <2>2. Cut(t, i, received) \o Cut(t, received + 1, r) = Cut(t, i, r)
    BY <1>1, <1>3, <2>1
  <2> QED
    BY <1>2, <1>3, <2>2
<1>5. PICK close : close = Find(Cut(t, o + 2, r), CloseTag)
  OBVIOUS
<1>6. /\ sqlBuf' = IF close = 0 THEN Cut(t, o + 2, r) ELSE Before(Cut(t, o + 2, r), close)
      /\ inSql' = (close = 0) /\ foundSql' = (close # 0)
      /\ pending' = pending /\ shown' = shown
  BY <1>1, <1>3, <1>4, <1>5 DEF InStatement
<1>7. CASE close = 0
  <2>1. NoTag(t, CloseTag, o + 2, r)
    BY <1>1, <1>2, <1>3, <1>5, <1>7, Closes
  <2>2. pending' = <<>>
    BY <1>6 DEF Inside
  <2> QED
    BY <1>2, <1>3, <1>6, <1>7, <2>1, <2>2 DEF Phase, Inside
<1>8. CASE close # 0
  <2>1. PICK c \in Nat : /\ FirstTag(t, CloseTag, o + 2, c) /\ c + 1 <= r
                         /\ Before(Cut(t, o + 2, r), close) = Cut(t, o + 2, c - 1)
    BY <1>1, <1>2, <1>3, <1>5, <1>8, Closes
  <2>2. pending' = Cut(t, r + 1, r)
    <3>1. pending' = <<>>
      BY <1>6 DEF Inside
    <3> QED
      BY <1>1, <3>1, CutWhole
  <2>3. IsPrefix(Cut(t, 1, o - 1), shown')
    BY <1>2, <1>6 DEF IsPrefix
  <2>4. \E hh \in Nat : c + 1 <= hh /\ hh <= r /\ pending' = Cut(t, hh + 1, r)
    BY <2>1, <2>2
  <2>5. inSql' = FALSE /\ foundSql' = TRUE /\ sqlBuf' = Cut(t, o + 2, c - 1)
    BY <1>6, <1>8, <2>1
  <2> QED
    BY <1>2, <2>1, <2>3, <2>4, <2>5 DEF Phase, Past
<1> QED
  BY <1>7, <1>8

\* What a token leaves to be shown and what is shown stay replies' symbols, and
\* nothing shown is taken back.
LEMMA ShownGrows ==
    ASSUME shown \in Seq(Symbols), pending \in Seq(Symbols), NEW token \in Seq(Symbols),
           InStatement(token) \/ OpensStatement(token) \/ InProse(token)
    PROVE  /\ shown' \in Seq(Symbols) /\ pending' \in Seq(Symbols)
           /\ \A p \in Seq(Symbols) : IsPrefix(p, shown) => IsPrefix(p, shown')
<1> DEFINE Grows(more) == more \in Seq(Symbols) /\ shown' = shown \o more
<1>1. ASSUME NEW more, Grows(more)
      PROVE  /\ shown' \in Seq(Symbols)
             /\ \A p \in Seq(Symbols) : IsPrefix(p, shown) => IsPrefix(p, shown')
  BY <1>1, PrefixKept
<1>2. ASSUME InStatement(token)
      PROVE  shown' = shown /\ pending' = pending
  BY <1>2 DEF InStatement
<1>3. PICK buf \in Seq(Symbols) : buf = pending \o token
  BY PrefixKept
<1>4. Len(buf) \in Nat /\ \A k \in 1 .. Len(buf) : buf[k] \in Symbols
  BY <1>3
<1>5. ASSUME NEW a \in Nat, NEW b \in Nat, 1 <= a, b <= Len(buf)
      PROVE  SubSeq(buf, a, b) \in Seq(Symbols)
  <2>1. \A k \in a .. b : buf[k] \in Symbols
    BY <1>4, <1>5
  <2> QED
    BY <2>1, SubSeqProperties
<1>6. ASSUME OpensStatement(token)
      PROVE  (\E more : Grows(more)) /\ pending' \in Seq(Symbols)
  <2>1. PICK f : f = Find(buf, OpenTag)
    OBVIOUS
  <2>2. f \in 1 .. Len(buf) - 1
    BY <1>3, <1>6, <2>1, FindPlace DEF OpensStatement
  <2>3. PICK e \in Nat : e = f - 1 /\ e <= Len(buf)
    BY <1>4, <2>2
  <2>4. SubSeq(buf, 1, e) \in Seq(Symbols)
    BY <1>5, <2>3
  <2>5. shown' = shown \o SubSeq(buf, 1, e) /\ pending' = <<>>
    BY <1>3, <1>6, <2>1, <2>3 DEF OpensStatement, Before
  <2>6. <<>> \in Seq(Symbols)
    OBVIOUS
  <2> QED
    BY <2>4, <2>5, <2>6
<1>7. ASSUME InProse(token)
      PROVE  (\E more : Grows(more)) /\ pending' \in Seq(Symbols)
  <2>1. PICK safe \in Nat : safe = (IF Len(buf) > Hold THEN Len(buf) - Hold ELSE 0) /\ safe <= Len(buf)
    <3>1. Hold = 1
      BY DEF Hold, OpenTag
    <3>2. PICK l \in Nat : l = Len(buf)
      BY <1>4
    <3>3. (IF l > 1 THEN l - 1 ELSE 0) \in Nat /\ (IF l > 1 THEN l - 1 ELSE 0) <= l
      BY <3>2
    <3> QED
      BY <3>1, <3>2, <3>3
  <2>2. shown' = shown \o SubSeq(buf, 1, safe) /\ pending' = SubSeq(buf, safe + 1, Len(buf))
    BY <1>3, <1>7, <2>1 DEF InProse
  <2>3. SubSeq(buf, 1, safe) \in Seq(Symbols)
    BY <1>5, <2>1
  <2>4. SubSeq(buf, safe + 1, Len(buf)) \in Seq(Symbols)
    BY <1>4, <1>5, <2>1
  <2> QED
    BY <2>2, <2>3, <2>4
<1>8. CASE InStatement(token)
  BY <1>2, <1>8
<1>9. CASE OpensStatement(token) \/ InProse(token)
  BY <1>1, <1>6, <1>7, <1>9
<1> QED
  BY <1>8, <1>9

\* A token after the statement.
LEMMA PastTaken ==
    ASSUME StreamInvariant, verdict = "streaming", NEW n \in Nat \ {0}, received + n <= Len(text),
           Past(text, received, inSql, foundSql, shown, pending, sqlBuf),
           NEW r \in Nat, r = received + n,
           NEW token \in Seq(Symbols), token = Cut(text, received + 1, r),
           InStatement(token) \/ OpensStatement(token) \/ InProse(token)
    PROVE  Phase(text, r, inSql', foundSql', shown', pending', sqlBuf')
<1> DEFINE t == text
<1>1. /\ t \in Seq(Symbols) /\ received \in Nat /\ received < r /\ r <= Len(t) /\ Len(t) \in Nat
      /\ OpenTag \in Tags /\ foundSql = TRUE /\ shown \in Seq(Symbols) /\ pending \in Seq(Symbols)
  BY DEF StreamInvariant, Past, Tags
<1>2. PICK o \in Nat, c \in Nat :
          /\ FirstTag(t, OpenTag, 1, o) /\ FirstTag(t, CloseTag, o + 2, c) /\ c + 1 <= received
          /\ IsPrefix(Cut(t, 1, o - 1), shown)
          /\ NoTag(t, OpenTag, c + 2, Len(t)) =>
                /\ inSql = FALSE /\ sqlBuf = Cut(t, o + 2, c - 1)
                /\ \E h \in Nat : c + 1 <= h /\ h <= received /\ pending = Cut(t, h + 1, received)
  BY DEF Past
<1>3. foundSql' = TRUE
  BY <1>1 DEF InStatement, OpensStatement, InProse
<1>4. IsPrefix(Cut(t, 1, o - 1), shown')
  <2>1. PICK x \in Nat : x = o - 1 /\ 1 <= x + 1 /\ x <= Len(t)
    BY <1>1, <1>2 DEF FirstTag, TagAt
  <2>2. Cut(t, 1, x) \in Seq(Symbols)
    <3>1. \A k \in 1 .. x : t[k] \in Symbols
      BY <1>1, <2>1
    <3> QED
      BY <3>1, SubSeqProperties DEF Cut
  <2> QED
    BY <1>1, <1>2, <2>1, <2>2, ShownGrows
<1>5. ASSUME NoTag(t, OpenTag, c + 2, Len(t))
      PROVE  /\ inSql' = FALSE /\ sqlBuf' = Cut(t, o + 2, c - 1)
             /\ \E h \in Nat : c + 1 <= h /\ h <= r /\ pending' = Cut(t, h + 1, r)
  <2>1. PICK h \in Nat : c + 1 <= h /\ h <= received /\ pending = Cut(t, h + 1, received)
    BY <1>2, <1>5
  <2>2. inSql = FALSE /\ sqlBuf = Cut(t, o + 2, c - 1)
    BY <1>2, <1>5
  <2>3. PICK i \in Nat : i = h + 1 /\ 1 <= i /\ i <= received + 1 /\ i <= r + 1 /\ c + 2 <= i /\ i <= r
    BY <1>1, <2>1
  <2>4. pending \o token = Cut(t, i, r)
    <3>1. \A a, k, j \in Nat : 1 <= a /\ a <= k + 1 /\ k <= j /\ j <= Len(t) =>
                Cut(t, a, k) \o Cut(t, k + 1, j) = Cut(t, a, j)
      BY <1>1, CutsJoin
    <3>2. /\ i \in Nat /\ received \in Nat /\ r \in Nat
          /\ 1 <= i /\ i <= received + 1 /\ received <= r /\ r <= Len(t)
      BY <1>1, <2>3
    <3>3. Cut(t, i, received) \o Cut(t, received + 1, r) = Cut(t, i, r)
      BY ONLY <3>1, <3>2
    <3> QED
      BY <2>1, <2>3, <3>3
  <2>5. PICK f : f = Find(Cut(t, i, r), OpenTag)
    OBVIOUS
  <2>6. /\ f \in Nat
        /\ f # 0 => FirstTag(t, OpenTag, i, i + f - 1) /\ i + f <= r
    BY <1>1, <2>3, <2>5, FindIs
  <2>7. f = 0
    <3>1. SUFFICES ASSUME f # 0 PROVE FALSE
      OBVIOUS
    <3>2. TagAt(t, OpenTag, i + f - 1) /\ i + f - 1 \in c + 2 .. Len(t) - 1
      BY <1>1, <2>3, <2>6, <3>1 DEF FirstTag
    <3> QED
      BY <1>5, <3>2 DEF NoTag
  <2>8. InProse(token)
    BY <2>2, <2>4, <2>5, <2>7 DEF InStatement, OpensStatement
  <2>9. PICK m \in Nat : m = r - h /\ m >= 1
    BY <1>1, <2>1
  <2>10. Len(Cut(t, i, r)) = m /\ SubSeq(Cut(t, i, r), m, m) = Cut(t, r, r)
    <3>1. /\ 1 <= i /\ i <= r /\ r <= Len(t) /\ m = r - i + 1
          /\ t \in Seq(Symbols) /\ i \in Nat /\ r \in Nat /\ m \in Nat
      BY <1>1, <2>3, <2>9
    <3> HIDE DEF t
    <3>2. \A j \in Nat : j = r - i + 1 =>
              Len(Cut(t, i, r)) = j /\ SubSeq(Cut(t, i, r), j, j) = Cut(t, r, r)
      BY ONLY <3>1, LastOf
    <3> QED
      BY ONLY <3>1, <3>2
  <2>11. (IF m > Hold THEN m - Hold ELSE 0) = m - 1
    <3>1. Hold = 1
      BY DEF Hold, OpenTag
    <3> QED
      BY <2>9, <3>1
  <2>12. /\ pending' = SubSeq(Cut(t, i, r), m - 1 + 1, m)
         /\ inSql' = FALSE /\ sqlBuf' = sqlBuf
    BY <2>2, <2>4, <2>8, <2>10, <2>11 DEF InProse
  <2>14. PICK x \in Nat : x + 1 = r /\ c + 1 <= x /\ x <= r
    BY <1>1, <1>2
  <2>15. pending' = Cut(t, x + 1, r)
    <3>1. m - 1 + 1 = m
      BY <2>9
    <3> QED
      BY <2>10, <2>12, <2>14, <3>1
  <2> QED
    BY <2>2, <2>12, <2>14, <2>15
<1>6. c + 1 <= r
  BY <1>1, <1>2
<1> QED
  BY <1>2, <1>3, <1>4, <1>5, <1>6 DEF Phase, Past

\* The first tag of the reply is where str.find says, and what SplitAsWritten
\* names stands where the phases have it.
LEMMA WhereTagsAre ==
    ASSUME text \in Seq(Symbols)
    PROVE  /\ Opening \in Nat
           /\ Opening = 0 => NoTag(text, OpenTag, 1, Len(text))
           /\ \A o \in Nat : FirstTag(text, OpenTag, 1, o) =>
                 /\ Opening = o
                 /\ Before(text, Opening) = Cut(text, 1, o - 1)
                 /\ Closing \in Nat
                 /\ Closing = 0 => NoTag(text, CloseTag, o + 2, Len(text))
                 /\ \A c \in Nat : FirstTag(text, CloseTag, o + 2, c) =>
                       /\ Closing # 0
                       /\ Before(After(text, Opening), Closing) = Cut(text, o + 2, c - 1)
                       /\ OneBlock => NoTag(text, OpenTag, c + 2, Len(text))
<1> DEFINE t == text
           l == Len(text)
<1>1. t \in Seq(Symbols) /\ l \in Nat /\ OpenTag \in Tags /\ CloseTag \in Tags /\ Cut(t, 1, l) = t
  BY CutWhole DEF Tags
<1> HIDE DEF t, l
<1>2. PICK one \in Nat : one = 1 /\ 1 <= one /\ one <= l + 1 /\ l <= Len(t)
  BY <1>1 DEF t, l
<1>3. PICK f : f = Find(Cut(t, one, l), OpenTag)
  OBVIOUS
<1>4. f = Opening
  BY <1>1, <1>2, <1>3 DEF t, Opening
<1>5. /\ f \in Nat
      /\ f = 0 => NoTag(t, OpenTag, one, l)
      /\ f # 0 => FirstTag(t, OpenTag, one, one + f - 1) /\ one + f <= l
  BY <1>1, <1>2, <1>3, FindIs
<1>6. one + f - 1 = f
  BY <1>2, <1>5
<1>7. ASSUME NEW o \in Nat, FirstTag(t, OpenTag, 1, o)
      PROVE  /\ Opening = o
             /\ Before(t, Opening) = Cut(t, 1, o - 1)
             /\ Closing \in Nat
             /\ Closing = 0 => NoTag(t, CloseTag, o + 2, l)
             /\ \A c \in Nat : FirstTag(t, CloseTag, o + 2, c) =>
                   /\ Closing # 0
                   /\ Before(After(t, Opening), Closing) = Cut(t, o + 2, c - 1)
                   /\ OneBlock => NoTag(t, OpenTag, c + 2, l)
  <2>1. f # 0
    <3>1. TagAt(t, OpenTag, o) /\ o \in one .. l - 1
      BY <1>1, <1>2, <1>7 DEF FirstTag, TagAt, t, l
    <3> QED
      BY <1>5, <3>1 DEF NoTag
  <2>2. f = o
    <3>1. FirstTag(t, OpenTag, one, f) /\ FirstTag(t, OpenTag, one, o)
      BY <1>2, <1>5, <1>6, <1>7, <2>1
    <3> QED
      BY <1>2, <3>1, FirstIsOne
  <2>3. 1 <= o /\ one + o <= l /\ one + o <= l + 1 /\ o + 1 <= l
    BY <1>1, <1>2, <1>5, <2>1, <2>2
  <2>4. Before(t, o) = Cut(t, 1, o - 1)
    <3>1. Before(Cut(t, one, l), o) = Cut(t, one, one + o - 2)
      BY <1>1, <1>2, <2>3, CutBefore
    <3>2. one + o - 2 = o - 1
      BY <1>2
    <3> QED
      BY <1>1, <1>2, <3>1, <3>2
  <2>5. After(t, o) = Cut(t, o + 2, l)
    <3>1. After(Cut(t, one, l), o) = Cut(t, one + o + 1, l)
      BY <1>1, <1>2, <2>3, CutAfter
    <3>2. one + o + 1 = o + 2
      BY <1>2
    <3> QED
      BY <1>1, <1>2, <3>1, <3>2
  <2>6. PICK i \in Nat : i = o + 2 /\ 1 <= i /\ i <= l + 1
    BY <1>1, <2>3
  <2>7. PICK g : g = Find(Cut(t, i, l), CloseTag)
    OBVIOUS
  <2>8. g = Closing
    BY <1>4, <2>2, <2>5, <2>6, <2>7 DEF t, Closing
  <2>9. /\ g \in Nat
        /\ g = 0 => NoTag(t, CloseTag, i, l)
        /\ g # 0 => FirstTag(t, CloseTag, i, i + g - 1) /\ i + g <= l
    BY <1>1, <1>2, <2>6, <2>7, FindIs
  <2>10. ASSUME NEW c \in Nat, FirstTag(t, CloseTag, i, c)
         PROVE  /\ g # 0
                /\ Before(Cut(t, i, l), g) = Cut(t, i, c - 1)
                /\ OneBlock => NoTag(t, OpenTag, c + 2, l)
    <3>1. g # 0
      <4>1. TagAt(t, CloseTag, c) /\ c \in i .. l - 1
        BY <1>1, <2>6, <2>10 DEF FirstTag, TagAt, t, l
      <4> QED
        BY <2>9, <4>1 DEF NoTag
    <3>2. i + g - 1 = c
      BY <2>6, <2>9, <2>10, <3>1, FirstIsOne
    <3>3. 1 <= g /\ i + g <= l /\ i + g <= l + 1
      BY <1>1, <2>6, <2>9, <3>1
    <3>4. Before(Cut(t, i, l), g) = Cut(t, i, c - 1)
      <4>1. Before(Cut(t, i, l), g) = Cut(t, i, i + g - 2)
        BY <1>1, <1>2, <2>6, <2>9, <3>3, CutBefore
      <4>2. i + g - 2 = c - 1
        BY <2>6, <2>9, <3>2
      <4> QED
        BY <4>1, <4>2
    <3>5. After(Cut(t, i, l), g) = Cut(t, c + 2, l)
      <4>1. After(Cut(t, i, l), g) = Cut(t, i + g + 1, l)
        BY <1>1, <1>2, <2>6, <2>9, <3>3, CutAfter
      <4>2. i + g + 1 = c + 2
        BY <2>6, <2>9, <3>2
      <4> QED
        BY <4>1, <4>2
    <3>6. ASSUME OneBlock PROVE NoTag(t, OpenTag, c + 2, l)
      <4>1. Find(Cut(t, c + 2, l), OpenTag) = 0
        BY <1>4, <2>2, <2>5, <2>6, <2>8, <3>5, <3>6 DEF OneBlock, t
      <4>2. PICK e \in Nat : e = c + 2 /\ 1 <= e /\ e <= l + 1
        BY <1>1, <2>6, <2>9, <3>2, <3>3
      <4>3. Find(Cut(t, e, l), OpenTag) = 0 => NoTag(t, OpenTag, e, l)
        BY <1>1, <1>2, <4>2, FindIs
      <4> QED
        BY <4>1, <4>2, <4>3
    <3> QED
      BY <3>1, <3>4, <3>6
  <2> QED
    BY <1>4, <2>2, <2>4, <2>5, <2>6, <2>8, <2>9, <2>10
<1> QED
  BY <1>2, <1>4, <1>5, <1>7 DEF t, l

\* The split is as written at every moment of a stream.
LEMMA SplitHolds ==
    ASSUME StreamInvariant
    PROVE  SplitAsWritten
<1>1. CASE verdict # "streaming"
  BY <1>1 DEF StreamInvariant
<1>2. CASE verdict = "streaming"
  <2>1. /\ Phase(text, received, inSql, foundSql, shown, pending, sqlBuf)
        /\ text \in Seq(Symbols) /\ received \in Nat /\ received <= Len(text) /\ Len(text) \in Nat
    BY <1>2 DEF StreamInvariant
  <2>2. ASSUME NEW x \in Nat, x <= Len(text), shown = Cut(text, 1, x)
        PROVE  IsPrefix(shown, text)
    <3>1. Len(shown) = x
      <4>1. 1 \in Nat /\ 1 <= 1 /\ 1 <= x + 1
        OBVIOUS
      <4>2. Len(Cut(text, 1, x)) = x - 1 + 1
        BY <2>1, <2>2, <4>1, CutIs
      <4> QED
        BY <2>2, <4>2
    <3>2. SubSeq(shown, 1, x) = shown
      <4>1. shown \in Seq(Symbols)
        BY DEF StreamInvariant
      <4> QED
        BY <3>1, <4>1, SubSeqFull
    <3> QED
      BY <2>1, <2>2, <3>1, <3>2 DEF IsPrefix, Cut
  <2>3. CASE Prose(text, received, inSql, foundSql, shown, pending, sqlBuf)
    <3>1. PICK h \in Nat : h <= received /\ shown = Cut(text, 1, h)
      BY <2>3 DEF Prose
    <3> QED
      BY <1>2, <2>1, <2>2, <3>1 DEF SplitAsWritten
  <2>4. CASE Inside(text, received, inSql, foundSql, shown, pending, sqlBuf)
    <3>1. PICK o \in Nat : FirstTag(text, OpenTag, 1, o) /\ shown = Cut(text, 1, o - 1)
      BY <2>4 DEF Inside
    <3>2. PICK x \in Nat : x = o - 1 /\ x <= Len(text)
      BY <2>1, <3>1 DEF FirstTag, TagAt
    <3> QED
      BY <1>2, <2>2, <3>1, <3>2 DEF SplitAsWritten
  <2>5. CASE Past(text, received, inSql, foundSql, shown, pending, sqlBuf)
    <3>1. PICK o \in Nat : FirstTag(text, OpenTag, 1, o) /\ IsPrefix(Cut(text, 1, o - 1), shown)
      BY <2>5 DEF Past
    <3>2. Opening = o /\ Before(text, Opening) = Cut(text, 1, o - 1)
      BY <2>1, <3>1, WhereTagsAre
    <3>3. o # 0
      BY <3>1 DEF FirstTag
    <3> QED
      BY <1>2, <3>1, <3>2, <3>3 DEF SplitAsWritten
  <2> QED
    BY <2>1, <2>3, <2>4, <2>5 DEF Phase
<1> QED
  BY <1>1, <1>2

\* The end of a stream: what was held back is shown, and a statement without
\* its tags is looked for in the whole reply.
LEMMA EndsWell ==
    ASSUME StreamInvariant, StreamEnds
    PROVE  SplitAsWritten'
<1> DEFINE t == text
<1>1. /\ t \in Seq(Symbols) /\ received = Len(t) /\ Len(t) \in Nat
      /\ Phase(t, received, inSql, foundSql, shown, pending, sqlBuf)
      /\ shown \in Seq(Symbols) /\ pending \in Seq(Symbols)
      /\ text' = text /\ verdict' # "streaming"
  BY DEF StreamInvariant, StreamEnds
<1>2. Opening' = Opening /\ Closing' = Closing /\ OneBlock' = OneBlock
  BY <1>1 DEF Opening, Closing, OneBlock
<1>3. SUFFICES /\ \/ IsPrefix(shown', t)
                  \/ Opening # 0 /\ IsPrefix(Before(t, Opening), shown')
               /\ OneBlock => sqlBuf' = Before(After(t, Opening), Closing)
               /\ Opening # 0 /\ Closing = 0 => shown' = Before(t, Opening)
  BY <1>1, <1>2 DEF SplitAsWritten
<1>4. CASE Prose(t, received, inSql, foundSql, shown, pending, sqlBuf)
  <2>1. PICK h \in Nat : /\ h <= received
                         /\ shown = Cut(t, 1, h) /\ pending = Cut(t, h + 1, received)
                         /\ NoTag(t, OpenTag, 1, received)
    BY <1>4 DEF Prose
  <2>2. shown' = Cut(t, 1, h) \o Cut(t, h + 1, received)
    BY <1>4, <2>1 DEF StreamEnds, Prose
  <2>3. Cut(t, 1, h) \o Cut(t, h + 1, received) = Cut(t, 1, received)
    <3>1. \A a, k, j \in Nat : 1 <= a /\ a <= k + 1 /\ k <= j /\ j <= Len(t) =>
                Cut(t, a, k) \o Cut(t, k + 1, j) = Cut(t, a, j)
      BY <1>1, CutsJoin
    <3>2. 1 <= 1 /\ 1 <= h + 1 /\ h <= received /\ received <= Len(t) /\ received \in Nat
      BY <1>1, <2>1
    <3> QED
      BY ONLY <3>1, <3>2, h \in Nat
  <2>4. shown' = t
    BY <1>1, <2>2, <2>3, CutWhole
  <2>5. Opening = 0
    <3>1. SUFFICES ASSUME Opening # 0 PROVE FALSE
      OBVIOUS
    <3>2. PICK o \in Nat : FirstTag(t, OpenTag, 1, o)
      <4>1. PICK one \in Nat : one = 1 /\ 1 <= one /\ one <= received + 1 /\ received <= Len(t) /\ received \in Nat
        BY <1>1
      <4>2. Cut(t, one, received) = t /\ OpenTag \in Tags
        BY <1>1, <4>1, CutWhole DEF Tags
      <4>3. Find(Cut(t, one, received), OpenTag) # 0 =>
                FirstTag(t, OpenTag, one, one + Find(Cut(t, one, received), OpenTag) - 1)
        BY <1>1, <4>1, <4>2, FindIs
      <4>4. FirstTag(t, OpenTag, one, one + Opening - 1)
        BY <3>1, <4>2, <4>3 DEF Opening
      <4> QED
        BY <4>1, <4>4 DEF FirstTag
    <3> QED
      BY <1>1, <2>1, <3>2 DEF FirstTag, NoTag, TagAt
  <2>6. IsPrefix(t, t)
    BY DEF IsPrefix
  <2> QED
    BY <2>4, <2>5, <2>6 DEF OneBlock
<1>5. CASE Inside(t, received, inSql, foundSql, shown, pending, sqlBuf)
  <2>1. PICK o \in Nat : /\ FirstTag(t, OpenTag, 1, o) /\ shown = Cut(t, 1, o - 1)
                         /\ NoTag(t, CloseTag, o + 2, Len(t))
    BY <1>1, <1>5 DEF Inside
  <2>2. /\ Opening = o /\ Before(t, Opening) = Cut(t, 1, o - 1)
        /\ \A c \in Nat : FirstTag(t, CloseTag, o + 2, c) => Closing # 0
    BY <1>1, <2>1, WhereTagsAre
  <2>3. shown' = Before(t, Opening) /\ IsPrefix(shown', shown')
    <3>1. shown' = shown /\ shown = Before(t, Opening)
      BY <1>5, <2>1, <2>2 DEF StreamEnds, Inside
    <3> QED
      BY <1>1, <3>1 DEF IsPrefix
  <2>4. Closing = 0
    <3>1. PICK i \in Nat : i = o + 2 /\ 1 <= i /\ i <= Len(t) + 1 /\ 1 <= o /\ 1 + o <= Len(t)
      BY <1>1, <2>1 DEF FirstTag, TagAt
    <3>2. After(t, o) = Cut(t, i, Len(t))
      <4>1. PICK one \in Nat : one = 1 /\ 1 <= one /\ one + o <= Len(t)
        BY <3>1
      <4>2. After(Cut(t, one, Len(t)), o) = Cut(t, one + o + 1, Len(t))
        <5>1. Len(t) <= Len(t)
          BY <1>1
        <5> QED
          BY <1>1, <3>1, <4>1, <5>1, CutAfter
      <4>3. one + o + 1 = i /\ Cut(t, one, Len(t)) = t
        BY <1>1, <3>1, <4>1, CutWhole
      <4> QED
        BY <4>2, <4>3
    <3>3. PICK g : g = Find(Cut(t, i, Len(t)), CloseTag)
      OBVIOUS
    <3>4. g \in Nat /\ (g # 0 => FirstTag(t, CloseTag, i, i + g - 1) /\ i + g <= Len(t))
      <4>1. Len(t) <= Len(t) /\ CloseTag \in Tags
        BY <1>1 DEF Tags
      <4> QED
        BY <1>1, <3>1, <3>3, <4>1, FindIs
    <3>5. g = 0
      BY <2>1, <3>1, <3>4 DEF FirstTag, NoTag
    <3> QED
      BY <2>2, <3>2, <3>3, <3>5 DEF Closing
  <2>5. Opening # 0
    BY <2>1, <2>2 DEF FirstTag
  <2> QED
    BY <2>3, <2>4, <2>5 DEF OneBlock
<1>6. CASE Past(t, received, inSql, foundSql, shown, pending, sqlBuf)
  <2>1. PICK o \in Nat, c \in Nat :
          /\ FirstTag(t, OpenTag, 1, o) /\ FirstTag(t, CloseTag, o + 2, c)
          /\ IsPrefix(Cut(t, 1, o - 1), shown)
          /\ NoTag(t, OpenTag, c + 2, Len(t)) => sqlBuf = Cut(t, o + 2, c - 1)
    BY <1>6 DEF Past
  <2>2. /\ Opening = o /\ Before(t, Opening) = Cut(t, 1, o - 1)
        /\ Closing # 0 /\ Before(After(t, Opening), Closing) = Cut(t, o + 2, c - 1)
        /\ OneBlock => NoTag(t, OpenTag, c + 2, Len(t))
    BY <1>1, <2>1, WhereTagsAre
  <2>3. o # 0
    BY <2>1 DEF FirstTag
  <2>4. IsPrefix(Cut(t, 1, o - 1), shown')
    <3>1. shown' = shown \/ shown' = shown \o pending
      BY DEF StreamEnds
    <3>2. Cut(t, 1, o - 1) \in Seq(Symbols)
      <4>1. PICK x \in Nat : x = o - 1 /\ x <= Len(t)
        BY <1>1, <2>1 DEF FirstTag, TagAt
      <4>2. \A k \in 1 .. x : t[k] \in Symbols
        BY <1>1, <4>1
      <4> QED
        BY <4>1, <4>2, SubSeqProperties DEF Cut
    <3> QED
      BY <1>1, <2>1, <3>1, <3>2, PrefixKept
  <2>5. sqlBuf' = sqlBuf
    BY <1>6 DEF StreamEnds, Past
  <2>6. OneBlock => sqlBuf' = Before(After(t, Opening), Closing)
    BY <2>1, <2>2, <2>5
  <2>7. Opening # 0 /\ IsPrefix(Before(t, Opening), shown')
    BY <2>2, <2>3, <2>4
  <2> QED
    BY <2>2, <2>6, <2>7
<1> QED
  BY <1>1, <1>4, <1>5, <1>6 DEF Phase

\* SAFETY. However the tokens cut a reply, what is shown before the statement
\* is exactly what precedes it, and a reply with one statement yields it
\* (Orchestrator.handle_question, its loop over the stream).
THEOREM SplitsAsWritten == StreamSpec => []SplitAsWritten
<1>1. ASSUME StreamInit
      PROVE  StreamInvariant
  <2>1. text \in Seq(Symbols)
    BY <1>1 DEF StreamInit, BoundedSeq, SeqOf
  <2>2. /\ received = 0 /\ shown = <<>> /\ pending = <<>> /\ verdict = "streaming"
        /\ inSql = FALSE /\ foundSql = FALSE
    BY <1>1 DEF StreamInit
  <2>3. received \in Nat /\ received <= Len(text) /\ shown \in Seq(Symbols) /\ pending \in Seq(Symbols)
    BY <2>1, <2>2
  <2>4. Prose(text, received, inSql, foundSql, shown, pending, sqlBuf)
    <3>1. \A i \in Nat : Cut(text, i + 1, i) = <<>>
      BY <2>1, CutWhole
    <3>2. 0 + 1 = 1 /\ 0 \in Nat
      OBVIOUS
    <3>3. Cut(text, 1, 0) = <<>>
      BY <3>1, <3>2
    <3>4. NoTag(text, OpenTag, 1, 0)
      BY DEF NoTag
    <3> QED
      BY <2>2, <3>2, <3>3, <3>4 DEF Prose
  <2> QED
    BY <2>1, <2>2, <2>3, <2>4 DEF StreamInvariant, Phase
<1>2. ASSUME StreamInvariant, [StreamNext]_streamVars
      PROVE  StreamInvariant'
  <2>1. ASSUME NEW n \in 1 .. MaxReply, Token(n)
        PROVE  StreamInvariant'
    <3>1. /\ text \in Seq(Symbols) /\ received \in Nat /\ Len(text) \in Nat
          /\ shown \in Seq(Symbols) /\ pending \in Seq(Symbols)
          /\ verdict = "streaming" /\ verdict' = verdict /\ text' = text
          /\ received + n <= Len(text) /\ received' = received + n
          /\ n \in Nat \ {0}
      BY <1>2, <2>1, StreamAssumption DEF StreamInvariant, Token
    <3>2. PICK r \in Nat : r = received + n /\ r <= Len(text) /\ 1 <= received + 1
      BY <3>1
    <3>3. PICK token : token = Cut(text, received + 1, r)
      OBVIOUS
    <3>4. InStatement(token) \/ OpensStatement(token) \/ InProse(token)
      BY <2>1, <3>2, <3>3 DEF Token, Cut
    <3>5. token \in Seq(Symbols)
      <4>1. \A k \in received + 1 .. r : text[k] \in Symbols
        BY <3>1, <3>2
      <4> QED
        BY <3>1, <3>2, <3>3, <4>1, SubSeqProperties DEF Cut
    <3>6. shown' \in Seq(Symbols) /\ pending' \in Seq(Symbols)
      BY <3>1, <3>4, <3>5, ShownGrows
    <3>7. Phase(text, r, inSql', foundSql', shown', pending', sqlBuf')
      <4>1. CASE Prose(text, received, inSql, foundSql, shown, pending, sqlBuf)
        <5>1. OpensStatement(token) \/ InProse(token)
          BY <3>4, <4>1 DEF InStatement, Prose
        <5> QED
          BY <1>2, <3>1, <3>2, <3>3, <4>1, <5>1, ProseTaken
      <4>2. CASE Inside(text, received, inSql, foundSql, shown, pending, sqlBuf)
        <5>1. InStatement(token)
          BY <3>4, <4>2 DEF OpensStatement, InProse, Inside
        <5> QED
          BY <1>2, <3>1, <3>2, <3>3, <4>2, <5>1, InsideTaken
      <4>3. CASE Past(text, received, inSql, foundSql, shown, pending, sqlBuf)
        BY <1>2, <3>1, <3>2, <3>3, <3>4, <3>5, <4>3, PastTaken
      <4> QED
        BY <1>2, <3>1, <4>1, <4>2, <4>3 DEF StreamInvariant, Phase
    <3>8. Phase(text', received', inSql', foundSql', shown', pending', sqlBuf')
      BY <3>1, <3>2, <3>7
    <3> QED
      BY <3>1, <3>2, <3>6, <3>8 DEF StreamInvariant
  <2>2. ASSUME StreamEnds
        PROVE  StreamInvariant'
    <3>1. SplitAsWritten'
      BY <1>2, <2>2, EndsWell
    <3>2. /\ text' = text /\ received' = received /\ pending' = pending
          /\ shown' = shown \/ shown' = shown \o pending
          /\ verdict' # "streaming"
      BY <2>2 DEF StreamEnds
    <3>3. shown' \in Seq(Symbols)
      BY <1>2, <3>2, PrefixKept DEF StreamInvariant
    <3> QED
      BY <1>2, <3>1, <3>2, <3>3 DEF StreamInvariant
  <2>3. ASSUME UNCHANGED streamVars
        PROVE  StreamInvariant'
    <3>1. /\ text' = text /\ received' = received /\ pending' = pending /\ sqlBuf' = sqlBuf
          /\ inSql' = inSql /\ foundSql' = foundSql /\ shown' = shown /\ verdict' = verdict
      BY <2>3 DEF streamVars
    <3>2. SplitAsWritten <=> SplitAsWritten'
      BY <3>1 DEF SplitAsWritten, OneBlock, Closing, Opening
    <3> QED
      BY <1>2, <3>1, <3>2 DEF StreamInvariant
  <2> QED
    BY <1>2, <2>1, <2>2, <2>3 DEF StreamNext
<1> QED
  BY <1>1, <1>2, SplitHolds, PTL DEF StreamSpec

\* How long sequences of symbols are.
LEMMA LengthIs == \A s : s \in Seq(Symbols) => Len(s) \in Nat
  OBVIOUS

\* Two texts joined.
LEMMA JoinIs ==
    \A s, t : s \in Seq(Symbols) /\ t \in Seq(Symbols)
        => s \o t \in Seq(Symbols) /\ Len(s \o t) = Len(s) + Len(t)
  OBVIOUS

\* The length of what is cut out of a text.
LEMMA CutLength ==
    ASSUME NEW s \in Seq(Symbols), NEW i \in Nat, NEW n \in Nat, i + n <= Len(s)
    PROVE  Cut(s, i + 1, i + n) \in Seq(Symbols) /\ Len(Cut(s, i + 1, i + n)) = n
<1>1. \A a, b \in Nat : 1 <= a /\ a <= b + 1 /\ b <= Len(s) =>
          Cut(s, a, b) \in Seq(Symbols) /\ Len(Cut(s, a, b)) = b - a + 1
  BY CutIs
<1>2. PICK a \in Nat, b \in Nat : a = i + 1 /\ b = i + n
  OBVIOUS
<1>3. 1 <= a /\ a <= b + 1 /\ b <= Len(s) /\ b - a + 1 = n
  BY <1>2
<1> QED
  BY <1>1, <1>2, <1>3

\* No piece is longer than what it was cut from.
LEMMA PiecesFit ==
    ASSUME NEW s \in Seq(Symbols), NEW i \in 1 .. Len(s) - 1
    PROVE  /\ Before(s, i) \in Seq(Symbols) /\ Len(Before(s, i)) \in Nat
           /\ Len(Before(s, i)) <= Len(s)
           /\ After(s, i) \in Seq(Symbols) /\ Len(After(s, i)) \in Nat
           /\ Len(After(s, i)) <= Len(s)
<1>1. Len(s) \in Nat /\ i \in Nat /\ i - 1 \in Nat /\ i + 2 \in Nat /\ 1 \in Nat
  OBVIOUS
<1>2. \A a, b \in Nat : 1 <= a /\ a <= b + 1 /\ b <= Len(s) =>
          Cut(s, a, b) \in Seq(Symbols) /\ Len(Cut(s, a, b)) = b - a + 1
  BY CutIs
<1>3. Before(s, i) \in Seq(Symbols) /\ Len(Before(s, i)) = i - 1 - 1 + 1
  BY <1>1, <1>2 DEF Before, Cut
<1>4. After(s, i) \in Seq(Symbols) /\ Len(After(s, i)) = Len(s) - (i + 2) + 1
  BY <1>1, <1>2 DEF After, Cut
<1> QED
  BY <1>1, <1>3, <1>4

\* A statement that is closed is a piece, and so is one that is not.
LEMMA ClosedFits ==
    ASSUME NEW s \in Seq(Symbols)
    PROVE  LET found == Find(s, CloseTag)
               closed == IF found = 0 THEN s ELSE Before(s, found) IN
           closed \in Seq(Symbols) /\ Len(closed) \in Nat /\ Len(closed) <= Len(s)
<1>1. Len(s) \in Nat /\ (Find(s, CloseTag) = 0 \/ Find(s, CloseTag) \in 1 .. Len(s) - 1)
  BY FindPlace
<1> QED
  BY <1>1, PiecesFit

\* A sequence of symbols that is no longer than the bound.
LEMMA WithinBound ==
    ASSUME NEW s
    PROVE  s \in BoundedSeq(Symbols, MaxReply)
              <=> s \in Seq(Symbols) /\ Len(s) \in Nat /\ Len(s) <= MaxReply
<1>1. MaxReply \in Nat
  BY StreamAssumption
<1>2. ASSUME s \in BoundedSeq(Symbols, MaxReply)
      PROVE  s \in Seq(Symbols) /\ Len(s) \in Nat /\ Len(s) <= MaxReply
  <2>1. PICK m \in 0 .. MaxReply : s \in [1 .. m -> Symbols]
    BY <1>2 DEF BoundedSeq, SeqOf
  <2> QED
    BY <1>1, <2>1
<1>3. ASSUME s \in Seq(Symbols), Len(s) \in Nat, Len(s) <= MaxReply
      PROVE  s \in BoundedSeq(Symbols, MaxReply)
  <2>1. s \in [1 .. Len(s) -> Symbols] /\ Len(s) \in 0 .. MaxReply
    BY <1>1, <1>3
  <2> QED
    BY <2>1 DEF BoundedSeq, SeqOf
<1> QED
  BY <1>2, <1>3

\* The buffers share what has been received.
Buffered ==
    /\ shown \in Seq(Symbols) /\ pending \in Seq(Symbols) /\ sqlBuf \in Seq(Symbols)
    /\ verdict = "streaming" =>
          Len(shown) + Len(pending) <= received /\ Len(sqlBuf) <= received
    /\ Len(shown) <= Len(text) /\ Len(pending) <= Len(text) /\ Len(sqlBuf) <= Len(text)

\* The inductive invariant of the types: what is buffered is no longer than what was received.
StreamFits ==
    /\ text \in Seq(Symbols) /\ Len(text) <= MaxReply
    /\ received \in 0 .. Len(text)
    /\ {spent, inSql, foundSql} \subseteq BOOLEAN
    /\ verdict \in {"streaming", "whole", "cut off"}
    /\ Buffered

\* It says more than the types.
LEMMA FitsIsTyped == ASSUME StreamFits PROVE StreamTypeOK
<1>1. text \in Seq(Symbols) /\ Len(text) \in Nat /\ Len(text) <= MaxReply /\ MaxReply \in Nat
  BY StreamAssumption, LengthIs DEF StreamFits
<1>2. /\ shown \in Seq(Symbols) /\ pending \in Seq(Symbols) /\ sqlBuf \in Seq(Symbols)
      /\ Len(shown) \in Nat /\ Len(pending) \in Nat /\ Len(sqlBuf) \in Nat
      /\ Len(shown) <= Len(text) /\ Len(pending) <= Len(text) /\ Len(sqlBuf) <= Len(text)
  BY LengthIs DEF StreamFits, Buffered
<1>3. Len(shown) <= MaxReply /\ Len(pending) <= MaxReply /\ Len(sqlBuf) <= MaxReply
  BY <1>1, <1>2
<1>4. {text, shown, pending, sqlBuf} \subseteq BoundedSeq(Symbols, MaxReply)
  BY <1>1, <1>2, <1>3, WithinBound
<1> QED
  BY <1>4 DEF StreamFits, StreamTypeOK

\* Nothing has been received at first.
LEMMA StreamStarts == ASSUME StreamInit PROVE StreamFits
<1>1. text \in Seq(Symbols) /\ Len(text) \in Nat /\ Len(text) <= MaxReply
  BY WithinBound DEF StreamInit
<1>2. /\ received = 0 /\ shown = <<>> /\ pending = <<>> /\ sqlBuf = <<>>
      /\ spent \in BOOLEAN /\ inSql = FALSE /\ foundSql = FALSE /\ verdict = "streaming"
  BY DEF StreamInit
<1>3. \A e : e = <<>> => e \in Seq(Symbols) /\ Len(e) = 0
  OBVIOUS
<1>4. /\ shown \in Seq(Symbols) /\ pending \in Seq(Symbols) /\ sqlBuf \in Seq(Symbols)
      /\ Len(shown) = 0 /\ Len(pending) = 0 /\ Len(sqlBuf) = 0
  BY ONLY <1>2, <1>3
<1>5. Buffered
  BY <1>1, <1>2, <1>4 DEF Buffered
<1>6. received \in 0 .. Len(text)
  BY ONLY <1>1, <1>2
<1>7. {spent, inSql, foundSql} \subseteq BOOLEAN
  BY ONLY <1>2
<1> QED
  BY ONLY <1>1, <1>2, <1>5, <1>6, <1>7 DEF StreamFits

\* A token of the reply arrives.
LEMMA TokenFits ==
    ASSUME StreamFits, NEW n \in 1 .. MaxReply, Token(n)
    PROVE  StreamFits'
<1>1. /\ text \in Seq(Symbols) /\ received \in Nat /\ Len(text) \in Nat /\ n \in Nat /\ 1 <= n
      /\ verdict = "streaming" /\ verdict' = verdict /\ text' = text /\ spent' = spent
      /\ received + n <= Len(text) /\ received' = received + n
  BY StreamAssumption DEF StreamFits, Token
<1>2. PICK token : /\ token = SubSeq(text, received + 1, received + n)
                   /\ InStatement(token) \/ OpensStatement(token) \/ InProse(token)
  BY DEF Token
<1>3. token \in Seq(Symbols) /\ Len(token) = n
  <2>1. Cut(text, received + 1, received + n) \in Seq(Symbols)
        /\ Len(Cut(text, received + 1, received + n)) = n
    BY <1>1, CutLength
  <2> QED
    BY <1>2, <2>1 DEF Cut
<1>4. /\ shown \in Seq(Symbols) /\ pending \in Seq(Symbols) /\ sqlBuf \in Seq(Symbols)
      /\ Len(shown) \in Nat /\ Len(pending) \in Nat /\ Len(sqlBuf) \in Nat
      /\ Len(shown) + Len(pending) <= received /\ Len(sqlBuf) <= received
  BY <1>1 DEF StreamFits, Buffered
<1>5. SUFFICES /\ shown' \in Seq(Symbols) /\ pending' \in Seq(Symbols) /\ sqlBuf' \in Seq(Symbols)
               /\ Len(shown') + Len(pending') <= received + n /\ Len(sqlBuf') <= received + n
               /\ inSql' \in BOOLEAN /\ foundSql' \in BOOLEAN
  <2>1. ASSUME /\ shown' \in Seq(Symbols) /\ pending' \in Seq(Symbols)
               /\ sqlBuf' \in Seq(Symbols)
               /\ Len(shown') + Len(pending') <= received + n /\ Len(sqlBuf') <= received + n
               /\ inSql' \in BOOLEAN /\ foundSql' \in BOOLEAN
        PROVE  StreamFits'
    <3>1. /\ Len(shown') \in Nat /\ Len(pending') \in Nat /\ Len(sqlBuf') \in Nat
          /\ Len(shown') <= Len(text) /\ Len(pending') <= Len(text) /\ Len(sqlBuf') <= Len(text)
      BY <1>1, <2>1
    <3>2. Buffered'
      BY <1>1, <2>1, <3>1 DEF Buffered
    <3> QED
      BY <1>1, <2>1, <3>2 DEF StreamFits
  <2> QED
    BY <2>1
<1>6. CASE InStatement(token)
  <2>1. PICK buf : buf = sqlBuf \o token
    OBVIOUS
  <2>2. buf \in Seq(Symbols) /\ Len(buf) = Len(sqlBuf) + n
    BY ONLY <1>3, <1>4, <2>1, JoinIs
  <2>3. /\ sqlBuf' = IF Find(buf, CloseTag) = 0 THEN buf ELSE Before(buf, Find(buf, CloseTag))
        /\ inSql' \in BOOLEAN /\ foundSql' \in BOOLEAN
        /\ pending' = pending /\ shown' = shown
    BY <1>6, <2>1 DEF InStatement, StreamFits
  <2>4. sqlBuf' \in Seq(Symbols) /\ Len(sqlBuf') \in Nat /\ Len(sqlBuf') <= Len(buf)
    BY <2>2, <2>3, ClosedFits
  <2> QED
    BY <1>1, <1>4, <2>2, <2>3, <2>4
<1>7. CASE OpensStatement(token)
  <2>1. PICK buf : buf = pending \o token
    OBVIOUS
  <2>2. buf \in Seq(Symbols) /\ Len(buf) = Len(pending) + n
    BY ONLY <1>3, <1>4, <2>1, JoinIs
  <2>3. PICK open : open = Find(buf, OpenTag) /\ open \in 1 .. Len(buf) - 1
    BY <1>7, <2>1, <2>2, FindPlace DEF OpensStatement
  <2>4. PICK rest : rest = After(buf, open)
    OBVIOUS
  <2>5. /\ shown' = shown \o Before(buf, open)
        /\ sqlBuf' = IF Find(rest, CloseTag) = 0 THEN rest ELSE Before(rest, Find(rest, CloseTag))
        /\ inSql' \in BOOLEAN /\ foundSql' \in BOOLEAN /\ pending' = <<>>
    BY <1>7, <2>1, <2>3, <2>4 DEF OpensStatement, StreamFits
  <2>6. /\ Before(buf, open) \in Seq(Symbols) /\ Len(Before(buf, open)) \in Nat
        /\ Len(Before(buf, open)) <= Len(buf)
        /\ rest \in Seq(Symbols) /\ Len(rest) \in Nat /\ Len(rest) <= Len(buf)
    BY <2>2, <2>3, <2>4, PiecesFit
  <2>7. sqlBuf' \in Seq(Symbols) /\ Len(sqlBuf') \in Nat /\ Len(sqlBuf') <= Len(rest)
    BY <2>5, <2>6, ClosedFits
  <2>8. shown' \in Seq(Symbols) /\ Len(shown') = Len(shown) + Len(Before(buf, open))
    BY <1>4, <2>5, <2>6
  <2>9. pending' \in Seq(Symbols) /\ Len(pending') = 0
    BY <2>5
  <2> QED
    BY <1>1, <1>4, <2>2, <2>5, <2>6, <2>7, <2>8, <2>9
<1>8. CASE InProse(token)
  <2>1. PICK buf : buf = pending \o token
    OBVIOUS
  <2>2. buf \in Seq(Symbols) /\ Len(buf) = Len(pending) + n
    BY ONLY <1>3, <1>4, <2>1, JoinIs
  <2>3. PICK safe \in Nat : safe = IF Len(buf) > Hold THEN Len(buf) - Hold ELSE 0
    <3>1. Hold = 1
      BY DEF Hold, OpenTag
    <3>2. Len(buf) \in Nat
      BY <2>2, LengthIs
    <3> QED
      BY ONLY <3>1, <3>2
  <2>4. safe \in Nat /\ safe <= Len(buf) /\ Len(buf) \in Nat
    <3>1. Hold = 1
      BY DEF Hold, OpenTag
    <3>2. Len(buf) \in Nat
      BY <2>2, LengthIs
    <3> QED
      BY ONLY <2>3, safe \in Nat, <3>1, <3>2
  <2>5. /\ shown' = shown \o Cut(buf, 1, safe) /\ pending' = Cut(buf, safe + 1, Len(buf))
        /\ sqlBuf' = sqlBuf /\ inSql' = inSql /\ foundSql' = foundSql
    BY <1>8, <2>1, <2>3 DEF InProse, Cut
  <2>6. /\ Cut(buf, 1, safe) \in Seq(Symbols) /\ Len(Cut(buf, 1, safe)) = safe - 1 + 1
        /\ Cut(buf, safe + 1, Len(buf)) \in Seq(Symbols)
        /\ Len(Cut(buf, safe + 1, Len(buf))) = Len(buf) - (safe + 1) + 1
    <3>1. \A a, b \in Nat : 1 <= a /\ a <= b + 1 /\ b <= Len(buf) =>
              Cut(buf, a, b) \in Seq(Symbols) /\ Len(Cut(buf, a, b)) = b - a + 1
      BY <2>2, CutIs
    <3>2. PICK a \in Nat, b \in Nat, one \in Nat : a = safe + 1 /\ b = Len(buf) /\ one = 1
      BY <2>4
    <3>3. /\ 1 <= one /\ one <= safe + 1 /\ safe <= Len(buf)
          /\ 1 <= a /\ a <= b + 1 /\ b <= Len(buf)
      BY <2>4, <3>2
    <3>4. Cut(buf, one, safe) \in Seq(Symbols) /\ Len(Cut(buf, one, safe)) = safe - one + 1
      BY <2>4, <3>1, <3>3
    <3>5. Cut(buf, a, b) \in Seq(Symbols) /\ Len(Cut(buf, a, b)) = b - a + 1
      BY <2>4, <3>1, <3>3
    <3> QED
      BY <3>2, <3>4, <3>5
  <2>7. shown' \in Seq(Symbols) /\ Len(shown') = Len(shown) + Len(Cut(buf, 1, safe))
    BY ONLY <1>4, <2>5, <2>6, JoinIs
  <2>8. inSql' \in BOOLEAN /\ foundSql' \in BOOLEAN
    BY <2>5 DEF StreamFits
  <2>9. Len(shown') + Len(pending') = Len(shown) + Len(pending) + n
    <3> DEFINE k == Len(buf)
    <3>1. Len(shown') = Len(shown) + (safe - 1 + 1) /\ Len(pending') = k - (safe + 1) + 1
      BY ONLY <2>5, <2>6, <2>7
    <3>2. k = Len(pending) + n
      BY <2>2
    <3> HIDE DEF k
    <3> QED
      BY ONLY <1>1, <1>4, <2>4, <3>1, <3>2
  <2>10. pending' \in Seq(Symbols) /\ sqlBuf' = sqlBuf
    BY <2>5, <2>6
  <2> QED
    BY ONLY <1>1, <1>4, <2>7, <2>8, <2>9, <2>10
<1> QED
  BY <1>2, <1>6, <1>7, <1>8

\* The reply ends, or is cut off.
LEMMA EndFits == ASSUME StreamFits, StreamEnds PROVE StreamFits'
<1>1. /\ text \in Seq(Symbols) /\ Len(text) \in Nat /\ received \in Nat
      /\ verdict = "streaming" /\ received <= Len(text)
  <2>1. text \in Seq(Symbols) /\ received \in 0 .. Len(text) /\ verdict = "streaming"
    BY DEF StreamFits, StreamEnds
  <2>2. Len(text) \in Nat
    BY <2>1, LengthIs
  <2> QED
    BY <2>1, <2>2
<1>2. /\ text' = text /\ received' = received /\ pending' = pending /\ spent' = spent
      /\ inSql' = inSql /\ foundSql' = foundSql
      /\ verdict' \in {"whole", "cut off"}
      /\ shown' = IF inSql THEN shown ELSE shown \o pending
      /\ sqlBuf' = IF foundSql THEN sqlBuf ELSE ExtractedWhole(text)
  BY DEF StreamEnds
<1>3. ExtractedWhole(text) \in Seq(Symbols) /\ Len(ExtractedWhole(text)) <= Len(text)
  <2>1. PICK open : open = Find(text, OpenTag) /\ (open = 0 \/ open \in 1 .. Len(text) - 1)
    BY <1>1, FindPlace
  <2>2. PICK rest : rest = After(text, open)
    OBVIOUS
  <2>3. PICK close : close = Find(rest, CloseTag)
    OBVIOUS
  <2>4. ExtractedWhole(text) = IF open # 0 /\ close # 0 THEN Before(rest, close) ELSE text
    BY <2>1, <2>2, <2>3 DEF ExtractedWhole
  <2>5. CASE open # 0 /\ close # 0
    <3>1. rest \in Seq(Symbols) /\ Len(rest) \in Nat /\ Len(rest) <= Len(text)
      BY <1>1, <2>1, <2>2, <2>5, PiecesFit
    <3>2. close \in 1 .. Len(rest) - 1
      BY <2>3, <2>5, <3>1, FindPlace
    <3>3. Before(rest, close) \in Seq(Symbols) /\ Len(Before(rest, close)) \in Nat
          /\ Len(Before(rest, close)) <= Len(rest)
      BY <3>1, <3>2, PiecesFit
    <3> QED
      BY <1>1, <2>4, <2>5, <3>1, <3>3
  <2> QED
    BY <1>1, <2>4, <2>5
<1>4. /\ shown \in Seq(Symbols) /\ pending \in Seq(Symbols) /\ sqlBuf \in Seq(Symbols)
      /\ Len(shown) \in Nat /\ Len(pending) \in Nat /\ Len(sqlBuf) \in Nat
      /\ Len(shown) + Len(pending) <= received
      /\ Len(shown) <= Len(text) /\ Len(pending) <= Len(text) /\ Len(sqlBuf) <= Len(text)
  BY <1>1, LengthIs DEF StreamFits, Buffered
<1>5. sqlBuf' \in Seq(Symbols) /\ Len(sqlBuf') <= Len(text)
  BY <1>2, <1>3, <1>4
<1>6. /\ shown' \in Seq(Symbols) /\ pending' \in Seq(Symbols)
      /\ Len(shown') <= Len(text) /\ Len(pending') <= Len(text)
  <2>1. shown \o pending \in Seq(Symbols) /\ Len(shown \o pending) = Len(shown) + Len(pending)
    BY ONLY <1>4, JoinIs
  <2>2. Len(shown \o pending) <= Len(text)
    BY ONLY <1>1, <1>4, <2>1
  <2> QED
    BY ONLY <1>2, <1>4, <2>1, <2>2
<1>7. Buffered'
  BY <1>2, <1>5, <1>6 DEF Buffered
<1> QED
  BY <1>2, <1>7 DEF StreamFits

\* Whatever the reply and the tokens, the buffers hold symbols, and no more of them than
\* the reply has (Orchestrator.handle_question, its loop over the stream).
THEOREM StreamTypeCorrect == StreamSpec => []StreamTypeOK
<1>1. StreamInit => StreamFits
  BY StreamStarts
<1>2. StreamFits /\ [StreamNext]_streamVars => StreamFits'
  <2>1. ASSUME StreamFits, UNCHANGED streamVars PROVE StreamFits'
    BY <2>1 DEF streamVars, StreamFits, Buffered
  <2> QED
    BY <2>1, TokenFits, EndFits DEF StreamNext
<1>3. StreamFits => StreamTypeOK
  BY FitsIsTyped
<1> QED
  BY <1>1, <1>2, <1>3, PTL DEF StreamSpec
=============================================================================
