----------------------------- MODULE EmbedBatch -----------------------------
(***************************************************************************)
(* One call of embed_batch (embeddings/embedder.py, _try_daemon_batch): a  *)
(* batch cut into parts and sent one after the other to the daemon, whose  *)
(* checks are those of EmbedWire.                                          *)
(***************************************************************************)
EXTENDS EmbedWire

CONSTANT BatchInputs   \* the sequences of texts callers give embed_batch

ASSUME BatchAssumption == \A texts \in BatchInputs : texts \in Seq(Measure)

VARIABLES
    batch,    \* the texts of the call
    sent,     \* the parts sent so far, in order
    refusal,  \* the status the daemon refused a part with, or 200
    batchPc

batchVars == <<batch, sent, refusal, batchPc>>

Rest == SubSeq(batch, Len(FlattenSeq(sent)) + 1, Len(batch))

BatchInit ==
    /\ batch \in BatchInputs
    /\ sent = <<>> /\ refusal = 200 /\ batchPc = "sending"

\* One turn of the loop in _try_daemon_batch: a refusal falls back for the whole batch.
SendPart ==
    /\ batchPc = "sending" /\ Rest # <<>>
    /\ LET part == SubSeq(Rest, 1, NextPart(Rest))
           status == Verdict(BatchRequest(part))
       IN /\ sent' = Append(sent, part)
          /\ refusal' = status
          /\ batchPc' = IF status = 200 THEN "sending" ELSE "fallback"
    /\ UNCHANGED batch

BatchDone ==
    /\ batchPc = "sending" /\ Rest = <<>>
    /\ batchPc' = "done"
    /\ UNCHANGED <<batch, sent, refusal>>

BatchNext == SendPart \/ BatchDone

BatchSpec == BatchInit /\ [][BatchNext]_batchVars

----------------------------------------------------------------------------

BatchTypeOK ==
    /\ batch \in BatchInputs
    /\ sent \in Seq(Seq(Measure))
    /\ refusal \in {200, 0, 400, 404, 413, 415, 421}
    /\ batchPc \in {"sending", "done", "fallback"}

\* The daemon refuses a part of the client only for a text that is over a limit
\* alone: the split never causes a refusal, and what arrived is the batch's
\* beginning, in order, so a vector sits against its own text.
RefusalIsTheTexts ==
    /\ IsPrefix(FlattenSeq(sent), batch)
    /\ refusal # 200 =>
          /\ Len(Last(sent)) = 1
          /\ Verdict(BatchRequest(Last(sent))) = refusal
    /\ batchPc = "done" => FlattenSeq(sent) = batch
=============================================================================
