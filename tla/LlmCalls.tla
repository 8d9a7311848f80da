-------------------------------- MODULE LlmCalls --------------------------------
(***************************************************************************)
(* The calls made to a language model: the retries of a rate-limited call, *)
(* its deadline, the usage it is charged with, and the flag that tells its *)
(* caller that the reply stopped at the output budget.                     *)
(*                                                                         *)
(* The flag is a context variable: each task has its own, and it outlives  *)
(* the call that set it.  A caller reads it after its own call, so a call  *)
(* that leaves it alone would answer for an earlier one.  AnthropicClient  *)
(* and LiteLLMClient each have a blocking and an asynchronous form of the  *)
(* two calls, which do the same.  A reply is reduced to how it finished    *)
(* and whether it carried text.                                            *)
(***************************************************************************)
EXTENDS Integers

CONSTANTS Tasks,       \* the tasks, each with a context of its own
          MaxRetries   \* _MAX_RETRIES

ASSUME CallsAssumption == MaxRetries \in Nat

VARIABLES callPc,    \* where a task's call is
          call,      \* the client and the form of the call under way
          attempt,   \* the attempt of complete's loop
          reply,     \* how the reply finished and whether it carried text
          cutOff,    \* _cut_off
          recorded   \* the sink has the usage of the call's reply

callVars == <<callPc, call, attempt, reply, cutOff, recorded>>

Calls == [client : {"anthropic", "litellm"}, form : {"complete", "stream"}]
Finishes == {"stop", "budget", "unknown"}
Reply == [finish : Finishes, text : BOOLEAN]
NoReply == [finish |-> "unknown", text |-> FALSE]
CallPCs == {"idle", "sent", "backoff", "streaming", "returned", "raised"}

CallsTypeOK ==
    /\ callPc \in [Tasks -> CallPCs]
    /\ call \in [Tasks -> Calls]
    /\ attempt \in [Tasks -> 0 .. MaxRetries]
    /\ reply \in [Tasks -> Reply]
    /\ cutOff \in [Tasks -> BOOLEAN]
    /\ recorded \in [Tasks -> BOOLEAN]

CallsInit ==
    /\ callPc = [t \in Tasks |-> "idle"]
    /\ call \in [Tasks -> {[client |-> "anthropic", form |-> "complete"]}]
    /\ attempt = [t \in Tasks |-> 0]
    /\ reply = [t \in Tasks |-> NoReply]
    /\ cutOff = [t \in Tasks |-> FALSE]
    /\ recorded = [t \in Tasks |-> FALSE]

AtCall(t, from, to) == callPc[t] = from /\ callPc' = [callPc EXCEPT ![t] = to]
Streams(t) == call[t].form = "stream"

\* The budget ran out: before any text, which is exhausted(), or part-way.
Exhausted(r) == r.finish = "budget" /\ ~r.text
PartWay(r) == r.finish = "budget" /\ r.text

Ask(t, c) ==
    /\ AtCall(t, "idle", "sent")
    /\ call' = [call EXCEPT ![t] = c]
    /\ attempt' = [attempt EXCEPT ![t] = 0]
    /\ reply' = [reply EXCEPT ![t] = NoReply]
    /\ recorded' = [recorded EXCEPT ![t] = FALSE]
    /\ UNCHANGED cutOff

\* Retries, one attempt too many.
RetriesAtLimit(t) ==
    call[t] = [client |-> "anthropic", form |-> "complete"] /\ attempt[t] <= MaxRetries

\* RateLimitError: AnthropicClient's complete waits and asks again, the last
\* attempt and every other form of call raise it.
Retries(t) ==
    call[t] = [client |-> "anthropic", form |-> "complete"] /\ attempt[t] < MaxRetries

RateLimited(t) ==
    /\ IF Retries(t) THEN AtCall(t, "sent", "backoff") ELSE AtCall(t, "sent", "raised")
    /\ UNCHANGED <<call, attempt, reply, cutOff, recorded>>

SendAgain(t) ==
    /\ AtCall(t, "backoff", "sent")
    /\ attempt' = [attempt EXCEPT ![t] = @ + 1]
    /\ UNCHANGED <<call, reply, cutOff, recorded>>

\* The deadline, a lost connection or any other error: raised, as LLMTimeout or
\* as it is.  Part of a stream's text may have been handed out by then.
CallFails(t) ==
    /\ AtCall(t, "sent", "raised") \/ AtCall(t, "streaming", "raised")
    /\ UNCHANGED <<call, attempt, reply, cutOff, recorded>>

\* note_finish, were the flag set only when a reply is cut off.
NoteCutOnly(t, r) == cutOff' = [cutOff EXCEPT ![t] = @ \/ PartWay(r)]

\* note_finish sets the flag on every reply, cut off or not.
NoteFinish(t, r) == cutOff' = [cutOff EXCEPT ![t] = PartWay(r)]

\* Every provider's reply is recorded, estimated if it came without its usage;
\* AnthropicClient has no estimate for a stream whose final message it cannot read.
Recorded(t, r) ==
    recorded' = [recorded EXCEPT ![t] =
        ~(Streams(t) /\ call[t].client = "anthropic" /\ r.finish = "unknown")]

\* Usage is recorded before an exhausted reply is raised: it was paid for.
EndOfReply(t, r) ==
    /\ reply' = [reply EXCEPT ![t] = r]
    /\ Recorded(t, r)
    /\ \/ Exhausted(r) /\ callPc' = [callPc EXCEPT ![t] = "raised"] /\ UNCHANGED cutOff
       \/ ~Exhausted(r) /\ callPc' = [callPc EXCEPT ![t] = "returned"] /\ NoteFinish(t, r)
    /\ UNCHANGED <<call, attempt>>

Complete(t, r) == callPc[t] = "sent" /\ ~Streams(t) /\ EndOfReply(t, r)

FirstToken(t) ==
    /\ Streams(t) /\ AtCall(t, "sent", "streaming")
    /\ reply' = [reply EXCEPT ![t].text = TRUE]
    /\ UNCHANGED <<call, attempt, cutOff, recorded>>

EndOfStream(t, r) ==
    /\ Streams(t)
    /\ callPc[t] \in {"sent", "streaming"} /\ r.text = (callPc[t] = "streaming")
    /\ EndOfReply(t, r)

\* The caller reads the flag, or handles what was raised, and goes on.
Proceed(t) ==
    /\ AtCall(t, "returned", "idle") \/ AtCall(t, "raised", "idle")
    /\ UNCHANGED <<call, attempt, reply, cutOff, recorded>>

CallsNext ==
    \E t \in Tasks :
        \/ \E c \in Calls : Ask(t, c)
        \/ RateLimited(t) \/ SendAgain(t) \/ CallFails(t) \/ FirstToken(t) \/ Proceed(t)
        \/ \E r \in Reply : Complete(t, r) \/ EndOfStream(t, r)

CallsSpec == CallsInit /\ [][CallsNext]_callVars

\* SAFETY. A caller that reads output_was_cut_off after its own call returned
\* learns of that call, whatever calls came before in its task and however they
\* ended; and a reply that spent its budget is on record, also when it is raised
\* as having said nothing (client.py's promises; the repair of a statement and
\* the size of its budget hang on the first).
FlagOfOwnCall ==
    \A t \in Tasks :
        /\ callPc[t] = "returned" => cutOff[t] = PartWay(reply[t])
        /\ callPc[t] \in {"returned", "raised"} /\ reply[t].finish = "budget" => recorded[t]
=============================================================================
