---------------------------- MODULE EmbedClient ----------------------------
(***************************************************************************)
(* A process that embeds (embeddings/embedder.py): its threads ask the     *)
(* daemon, which may be down, busy, restarted, or on another model, and    *)
(* fall back to the process's own model.  The threads share what the       *)
(* module remembers of the daemon, without a lock: that its model agrees,  *)
(* that it does not, that nothing listens, and that the own model is       *)
(* refused.                                                                *)
(***************************************************************************)
EXTENDS Naturals, FiniteSets

CONSTANT Embedders   \* threads of the process

Models == {"mine", "other", "unnamed"}  \* an older daemon reports no model

VARIABLES
    daemon,      \* the model of the daemon that listens, or "down"
    busy,        \* it may leave a request unanswered, or answer with an error
    required,    \* EMBED_SERVER_REQUIRED
    checked,     \* _daemon_model_checked
    mismatch,    \* _daemon_model_mismatch is set
    absent,      \* now is before _daemon_absent_until
    own,         \* "unloaded", "loaded", or "refused": _model and _model_refusal
    embPc,       \* where a thread's call is
    reported,    \* the model /healthz answered it with
    outcome,     \* what its call has come to: the model of the vector, "own" or "error"
    attempted    \* since the daemon went down, a call found no daemon

clientVars == <<daemon, busy, required, checked, mismatch, absent, own, embPc, reported,
                outcome, attempted>>
world == <<daemon, busy, required>>
remembered == <<checked, mismatch, absent>>

ClientInit ==
    /\ daemon = "down" /\ busy = FALSE
    /\ required \in BOOLEAN
    /\ checked = FALSE /\ mismatch = FALSE /\ absent = FALSE
    /\ own = "unloaded"
    /\ embPc = [t \in Embedders |-> "idle"]
    /\ reported = [t \in Embedders |-> "none"]
    /\ outcome = [t \in Embedders |-> "none"]
    /\ attempted = TRUE

EmbTo(t, place) == embPc' = [embPc EXCEPT ![t] = place]
EndsWith(t, what) == EmbTo(t, "idle") /\ outcome' = [outcome EXCEPT ![t] = what]

----------------------------------------------------------------------------
(* The daemon, and the time an absence is remembered for.                  *)

DaemonStarts(m) ==
    /\ daemon = "down"
    /\ daemon' = m /\ busy' = FALSE
    /\ UNCHANGED <<required, remembered, own, embPc, reported, outcome, attempted>>

DaemonStops ==
    /\ daemon # "down"
    /\ daemon' = "down" /\ busy' = FALSE /\ attempted' = FALSE
    /\ UNCHANGED <<required, remembered, own, embPc, reported, outcome>>

DaemonStalls ==
    /\ daemon # "down"
    /\ busy' = ~busy
    /\ UNCHANGED <<daemon, required, remembered, own, embPc, reported, outcome, attempted>>

\* EMBED_CLIENT_ABSENT_RECHECK_SECONDS have passed.
AbsenceForgotten ==
    /\ absent
    /\ absent' = FALSE
    /\ UNCHANGED <<world, checked, mismatch, own, embPc, reported, outcome, attempted>>

----------------------------------------------------------------------------
(* _daemon_send and _daemon_exchange.                                      *)

\* A request ends in a reply, or with why there was none.
Replies == IF absent \/ daemon = "down" THEN {"absent"}
           ELSE IF busy THEN {"failing", "answer"} ELSE {"answer"}

\* An absence is remembered, unless the daemon is required.
AbsentAfter(reply) == absent \/ (reply = "absent" /\ ~required)

\* _fall_back_or_raise: the agreement is forgotten on every failure; the call raises
\* when the daemon is required, and embeds with the process's own model otherwise.
Fails(t, reply) ==
    /\ checked' = FALSE
    /\ absent' = AbsentAfter(reply)
    /\ attempted' = (attempted \/ daemon = "down")
    /\ IF required THEN EndsWith(t, "error") ELSE EmbTo(t, "own") /\ UNCHANGED outcome

----------------------------------------------------------------------------
(* A call of embed_text or embed_batch.                                    *)

\* Agreement is remembered, a mismatch asked again.
MustAsk == ~checked \/ mismatch

\* _require_daemon_model_agreement, up to its request.
Call(t) ==
    /\ embPc[t] = "idle"
    /\ EmbTo(t, IF MustAsk THEN "asking" ELSE "agreed")
    /\ outcome' = [outcome EXCEPT ![t] = "none"]
    /\ UNCHANGED <<world, remembered, own, reported, attempted>>

AskHealth(t) ==
    /\ embPc[t] = "asking"
    /\ \E reply \in Replies :
          IF reply = "answer"
          THEN /\ reported' = [reported EXCEPT ![t] = daemon]
               /\ EmbTo(t, "comparing")
               /\ UNCHANGED <<remembered, outcome, attempted>>
          ELSE Fails(t, reply) /\ UNCHANGED <<mismatch, reported>>
    /\ UNCHANGED <<world, own>>

\* A daemon that reports no model is taken to agree.
MismatchAfter(model) == model = "other"

\* The reply is compared and remembered.
Compare(t) ==
    /\ embPc[t] = "comparing"
    /\ checked' = TRUE
    /\ mismatch' = MismatchAfter(reported[t])
    /\ reported' = [reported EXCEPT ![t] = "none"]
    /\ EmbTo(t, "agreed")
    /\ UNCHANGED <<world, absent, own, outcome, attempted>>

\* The mismatch is read again: it may by now be what another thread found.
Agree(t) ==
    /\ embPc[t] = "agreed"
    /\ IF mismatch
       THEN Fails(t, "mismatched") /\ UNCHANGED mismatch
       ELSE EmbTo(t, "sending") /\ UNCHANGED <<remembered, outcome, attempted>>
    /\ UNCHANGED <<world, own, reported>>

\* One request of the call: of a batch, each of its parts.
Send(t) ==
    /\ embPc[t] = "sending"
    /\ \E reply \in Replies :
          IF reply = "answer"
          THEN /\ \E next \in {"sending", "idle"} : EmbTo(t, next)
               /\ outcome' = [outcome EXCEPT ![t] = daemon]
               /\ UNCHANGED <<remembered, attempted>>
          ELSE Fails(t, reply) /\ UNCHANGED mismatch
    /\ UNCHANGED <<world, own, reported>>

\* _get_model: loaded once, and a width that does not fit refused once; two threads
\* may load it side by side.
EmbedOwn(t) ==
    /\ embPc[t] = "own"
    /\ own' \in IF own = "unloaded" THEN {"loaded", "refused"} ELSE {own}
    /\ EndsWith(t, IF own' = "loaded" THEN "own" ELSE "error")
    /\ UNCHANGED <<world, remembered, reported, attempted>>

ThreadEmbeds(t) ==
    Call(t) \/ AskHealth(t) \/ Compare(t) \/ Agree(t) \/ Send(t) \/ EmbedOwn(t)

ClientNext ==
    \/ \E m \in Models : DaemonStarts(m)
    \/ DaemonStops \/ DaemonStalls \/ AbsenceForgotten
    \/ \E t \in Embedders : ThreadEmbeds(t)

----------------------------------------------------------------------------
(* Fairness: calls keep coming and run, and time passes.                   *)

ClientFairness ==
    /\ WF_clientVars(AbsenceForgotten)
    /\ \A t \in Embedders : WF_clientVars(ThreadEmbeds(t))

ClientSpec == ClientInit /\ [][ClientNext]_clientVars /\ ClientFairness

----------------------------------------------------------------------------

ClientTypeOK ==
    /\ daemon \in Models \cup {"down"}
    /\ busy \in BOOLEAN /\ required \in BOOLEAN /\ checked \in BOOLEAN
    /\ mismatch \in BOOLEAN /\ absent \in BOOLEAN
    /\ attempted \in BOOLEAN
    /\ own \in {"unloaded", "loaded", "refused"}
    /\ embPc \in [Embedders -> {"idle", "asking", "comparing", "agreed", "sending", "own"}]
    /\ reported \in [Embedders -> Models \cup {"none"}]
    /\ outcome \in [Embedders -> Models \cup {"none", "own", "error"}]

\* A daemon restarted on this process's model, the remedy a mismatch names, is used
\* again: once it stays up and answers, in the end every vector comes from it,
\* whatever was remembered of the daemons before it.
RightDaemonUsedAgain ==
    <>[](daemon = "mine" /\ ~busy) =>
        \A t \in Embedders : <>[](outcome[t] \in {"mine", "none"}) /\ []<>(outcome[t] = "mine")

\* "One window is left [...]: a daemon that restarts onto another model without a
\* single embed being attempted while it is down keeps its agreement"
\* (embedder.py:320): nothing is sent to a daemon of another model once a call has
\* failed while it was down.
OneWindowLeft ==
    \A t \in Embedders : embPc[t] = "sending" /\ daemon = "other" => ~attempted
=============================================================================
