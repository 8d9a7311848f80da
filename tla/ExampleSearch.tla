------------------------------ MODULE ExampleSearch ------------------------------
(***************************************************************************)
(* The example queries of a prompt: verified pairs and query capsules      *)
(* found in Qdrant near the question, and the knowledge base's own         *)
(* capsules when neither search gives one.  One path searches in turn, the *)
(* other all at once.  What is stored may be unsigned, another agent's, or *)
(* under a vector its own text does not match, and an embedder may fail at *)
(* any batch.                                                              *)
(***************************************************************************)
EXTENDS Integers, Sequences, SequencesExt

CONSTANTS TopK,           \* examples wanted (top_k)
          PairsWanted,    \* verified pairs wanted
          CapsuleFactor,  \* candidates read for each capsule wanted
          PairFactor,     \* candidates read for each pair wanted
          MaxHits         \* bound on what is near a question

ASSUME ExampleAssumption ==
    {TopK, PairsWanted, CapsuleFactor, PairFactor, MaxHits} \subseteq Nat

\* A stored point, as a search meets it: signed for this agent, and near the
\* question by its own text too; one of the two only; a pair may be too far.
Kinds == {"good", "unsigned", "repointed", "far"}
Point == [id : 1 .. MaxHits, kind : Kinds]
Stores == UNION {{[i \in 1 .. n |-> [id |-> i, kind |-> kinds[i]]] : kinds \in [1 .. n -> Kinds]} :
                    n \in 0 .. MaxHits}
CapsuleStores == {s \in Stores : \A i \in DOMAIN s : s[i].kind # "far"}
\* Nearest first: what is too far comes last.
PairStores == {s \in Stores : \A i, j \in DOMAIN s : i < j /\ s[i].kind = "far" => s[j].kind = "far"}

VARIABLES examplePc,        \* "idle", "asked", "shown"
          path,      \* "turn" or "together"
          capsules,  \* the agent's capsules near the question, nearest first
          pairs,     \* the pairs near it
          own,       \* the knowledge base's capsules
          fails,     \* the batch of capsules the embedder fails at, or 0
          gotPairs,  \* what the searches gave, FALSE before they end
          gotCapsules,
          examples   \* the examples of the prompt: [from, id]

exampleVars == <<examplePc, path, capsules, pairs, own, fails, gotPairs, gotCapsules, examples>>

Example == [from : {"pair", "capsule", "kb"}, id : 1 .. MaxHits]
NotYet == [state |-> "none", hits |-> <<>>]
Got(hits) == [state |-> "answered", hits |-> hits]
SearchRaised == [state |-> "raised", hits |-> <<>>]

ExampleTypeOK ==
    /\ examplePc \in {"idle", "asked", "shown"} /\ path \in {"turn", "together"}
    /\ capsules \in CapsuleStores /\ pairs \in PairStores
    /\ own \in 0 .. MaxHits /\ fails \in 0 .. 2
    /\ \A g \in {gotPairs, gotCapsules} : g.state \in {"none", "answered", "raised"} /\ Range(g.hits) \subseteq Point
    /\ Range(examples) \subseteq Example

ExampleInit ==
    /\ examplePc = "idle" /\ path = "turn" /\ capsules = <<>> /\ pairs = <<>> /\ own = 0 /\ fails = 0
    /\ gotPairs = NotYet /\ gotCapsules = NotYet /\ examples = <<>>

First(n, s) == SubSeq(s, 1, IF Len(s) < n THEN Len(s) ELSE n)
AtLeastOne(n) == IF n < 1 THEN 1 ELSE n

---------------------------------------------------------------------------
(* The searches *)

\* Mutant of Signed: the search takes whatever the collection holds.
SignedOrNot == Point

Signed == {p \in Point : p.kind # "unsigned"}
OwnText == {p \in Point : p.kind # "repointed"}
Near == {p \in Point : p.kind # "far"}

Those(s, hits) == FoldLeft(LAMBDA kept, p : IF p \in hits THEN Append(kept, p) ELSE kept, <<>>, s)

\* qdrant_store.search: the signed ones among k * factor candidates, checked by
\* their own text k at a time until k are confirmed or the embedder fails.
Batches(s, k) == [b \in 1 .. (Len(s) + k - 1) \div k |->
                    SubSeq(s, (b - 1) * k + 1, IF b * k < Len(s) THEN b * k ELSE Len(s))]
Confirm(acc, batch, k, failsAt) ==
    IF acc.stopped \/ Len(acc.kept) >= k THEN acc
    ELSE IF acc.batch = failsAt THEN [acc EXCEPT !.stopped = TRUE]
    ELSE [acc EXCEPT !.kept = @ \o Those(batch, OwnText), !.batch = @ + 1]
Confirmed(batches, k, failsAt) ==
    FoldLeft(LAMBDA acc, batch : Confirm(acc, batch, k, failsAt),
             [kept |-> <<>>, batch |-> 1, stopped |-> FALSE], batches).kept
CapsuleHits(store, k, failsAt) ==
    LET signed == Those(First(k * CapsuleFactor, store), Signed)
    IN  First(k, Confirmed(Batches(signed, AtLeastOne(k)), k, failsAt))

\* _search_verified: one batch; no pair when it cannot be embedded, when there
\* is no collection, or when Qdrant does not answer.
PairHits(store) ==
    LET near == Those(First(PairsWanted * PairFactor, store), Near)
    IN  First(PairsWanted, Those(Those(near, Signed), OwnText))

Remaining(hits) == AtLeastOne(TopK - Len(hits))

---------------------------------------------------------------------------
(* One question *)

AskStores ==
    /\ examplePc = "idle" /\ examplePc' = "asked"
    /\ path' \in {"turn", "together"}
    /\ capsules' \in CapsuleStores
    /\ pairs' \in {s \in PairStores : Len(s) <= PairsWanted * PairFactor}   \* no more are read
    /\ own' \in {0, MaxHits} /\ fails' \in 0 .. 2
    /\ UNCHANGED <<gotPairs, gotCapsules, examples>>

SearchPairs ==
    /\ examplePc = "asked" /\ gotPairs = NotYet
    /\ \/ gotPairs' = Got(PairHits(pairs))
       \/ gotPairs' = SearchRaised
    /\ UNCHANGED <<examplePc, path, capsules, pairs, own, fails, gotCapsules, examples>>

\* _build_dynamic_context knows how many pairs there are; its concurrent variant
\* asks for all and cuts.  A search that raises gives none.
InTurn == path = "turn" /\ gotPairs # NotYet
Together == path = "together"
SearchCapsules ==
    /\ examplePc = "asked" /\ gotCapsules = NotYet
    /\ \/ InTurn /\ gotCapsules' = Got(CapsuleHits(capsules, Remaining(gotPairs.hits), fails))
       \/ Together /\ gotCapsules' = Got(CapsuleHits(capsules, TopK, fails))
       \/ (InTurn \/ Together) /\ gotCapsules' = SearchRaised
    /\ UNCHANGED <<examplePc, path, capsules, pairs, own, fails, gotPairs, examples>>

NamedExamples(from, hits) == [i \in DOMAIN hits |-> [from |-> from, id |-> hits[i].id]]
OwnExamples == [i \in 1 .. (IF own < TopK THEN own ELSE TopK) |-> [from |-> "kb", id |-> i]]

\* _format_dynamic_context: pairs, then capsules; the file's when there is none.
Formatted(pairHits, capsuleHits) ==
    LET found == NamedExamples("pair", pairHits)
                 \o NamedExamples("capsule", First(Remaining(pairHits), capsuleHits))
    IN  IF found = <<>> THEN OwnExamples ELSE found

FormatDynamicContext ==
    /\ examplePc = "asked" /\ gotPairs # NotYet /\ gotCapsules # NotYet
    /\ examplePc' = "shown"
    /\ examples' = Formatted(gotPairs.hits, gotCapsules.hits)
    /\ UNCHANGED <<path, capsules, pairs, own, fails, gotPairs, gotCapsules>>

ExampleNext == AskStores \/ SearchPairs \/ SearchCapsules \/ FormatDynamicContext
ExampleSpec == ExampleInit /\ [][ExampleNext]_exampleVars

---------------------------------------------------------------------------

\* An example of Qdrant's reaches the prompt only signed for the agent and near
\* the question by its own text, however many others stand nearer.
OnlyOwnShown ==
    \A e \in Range(examples) :
        /\ e.from = "pair" => pairs[e.id].kind = "good"
        /\ e.from = "capsule" => capsules[e.id].kind = "good"

\* "this is equivalent because results are returned in relevance order, so
\* requesting more and truncating yields the same prefix as requesting the
\* smaller count directly" (prompt_assembly.py): with the embedder answering,
\* both paths show the same examples.
SameExamples ==
    examplePc = "shown" /\ path = "turn" /\ fails = 0 /\ gotCapsules # SearchRaised =>
        examples = Formatted(gotPairs.hits, CapsuleHits(capsules, TopK, 0))
==================================================================================
