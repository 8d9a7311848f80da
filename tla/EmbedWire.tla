----------------------------- MODULE EmbedWire -----------------------------
(***************************************************************************)
(* What the embedding daemon accepts (embeddings/embed_server.py, do_POST) *)
(* and how its client cuts a batch into requests (embeddings/embedder.py,  *)
(* _daemon_parts).  The two are different processes that share the limits  *)
(* of config.py and nothing else.                                          *)
(*                                                                         *)
(* A text is abstracted to its length and to its size as sent.             *)
(***************************************************************************)
EXTENDS Naturals, Sequences, FiniteSetsExt, SequencesExt

CONSTANTS
    MaxTexts,    \* EMBED_MAX_BATCH_TEXTS
    MaxChars,    \* EMBED_MAX_BATCH_CHARS
    MaxBody,     \* EMBED_MAX_BODY_BYTES
    Envelope     \* _BATCH_ENVELOPE_BYTES: {"texts":[]}

Measure == [chars : Nat, bytes : Nat]

ASSUME WireAssumption ==
    /\ MaxTexts \in Nat \ {0} /\ MaxChars \in Nat /\ MaxBody \in Nat /\ Envelope \in Nat

Chars(texts) == SumFunction([i \in DOMAIN texts |-> texts[i].chars])
Bytes(texts) == SumFunction([i \in DOMAIN texts |-> texts[i].bytes])

----------------------------------------------------------------------------
(* The daemon.  A request is [path, loopback, json, body, typed, texts];   *)
(* body is "whole", "cut" when the socket fails while it is read, or       *)
(* "bad" for a Content-Length or a body that is not as declared.           *)

\* The bytes of a request's body as the client serialises it: a comma between texts.
BodySize(texts) == Envelope + Bytes(texts) + (IF texts = <<>> THEN 0 ELSE Len(texts) - 1)

\* The tests of do_POST in its order, each with the status of the early return;
\* 0 is a connection closed without a reply.
Checks(r) ==
    << <<404, r.path \notin {"/embed", "/embed-batch"}>>,
       <<421, ~r.loopback>>,
       <<415, ~r.json>>,
       <<0,   r.body = "cut">>,
       <<400, r.body = "bad" \/ BodySize(r.texts) > MaxBody>>,
       <<400, ~r.typed>>,
       <<413, Len(r.texts) > MaxTexts>>,
       <<413, Chars(r.texts) > MaxChars>> >>

\* The status do_POST answers before it encodes: 200 when the request is encoded.
Verdict(r) ==
    LET failed == {i \in DOMAIN Checks(r) : Checks(r)[i][2]}
    IN IF failed = {} THEN 200 ELSE Checks(r)[Min(failed)][1]

BatchRequest(texts) == [path |-> "/embed-batch", loopback |-> TRUE, json |-> TRUE,
                        body |-> "whole", typed |-> TRUE, texts |-> texts]

----------------------------------------------------------------------------
(* The client.                                                             *)

\* _daemon_parts counts a comma for every text.
Budget(part) == Envelope + Bytes(part) + Len(part)

\* A next text starts a part of its own.
Full(part, text) ==
    /\ part # <<>>
    /\ \/ Len(part) = MaxTexts
       \/ Chars(part) + text.chars > MaxChars
       \/ Budget(part) + text.bytes + 1 > MaxBody

\* The part sent next: the texts up to the first that does not fit, as a length.
NextPart(texts) ==
    Max({n \in 1..Len(texts) : \A i \in 1..(n - 1) : ~Full(SubSeq(texts, 1, i), texts[i + 1])})
=============================================================================
