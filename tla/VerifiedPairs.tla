------------------------------ MODULE VerifiedPairs ------------------------------
(***************************************************************************)
(* Feedback and the verified pairs made of it: ratings are appended to the *)
(* agent's log, promote-feedback stores the thumbs-up ones as pairs in     *)
(* Qdrant and then removes the stored pairs that would not be promoted     *)
(* today, and export-kb writes a new knowledge base and does the same.     *)
(* Qdrant or the embedder may fail at each step and a command may be       *)
(* killed.  Commands on one agent do not overlap.                          *)
(***************************************************************************)
EXTENDS Integers, Sequences

CONSTANTS PairStatements,  \* [text, sound, tables]: sound is all but the tables
          Questions,
          Tables,      \* what a knowledge base may list
          MaxLog,      \* bound on the ratings
          MaxChanges   \* bound on the exports

ASSUME StatementsAssumption == \A s \in PairStatements : s.tables \subseteq Tables
ASSUME BoundsAssumption == MaxLog \in Nat /\ MaxChanges \in Nat

Attributed == {"cli", "api"}                   \* ATTRIBUTED_SOURCES
SourcesOf == Attributed \cup {"mcp"}           \* and what cannot be established
Feedback == [question : Questions, sql : PairStatements, rating : {"up", "down"}, source : SourcesOf]
Pair == [question : Questions, sql : PairStatements, plain : BOOLEAN]

VARIABLES log,       \* the agent's feedback, oldest first
          known,        \* the tables of the knowledge base; none before an export
          verified,  \* the pairs stored; plain: as promotion writes them
          pairPc,    \* where the command is
          chosen,    \* the pairs selected for promotion
          doomed,    \* the pairs a prune will remove
          allowed,   \* pairs an operator's command may have stored
          kbChanges    \* exports so far

pairVars == <<log, known, verified, pairPc, chosen, doomed, allowed, kbChanges>>

PairTypeOK ==
    /\ log \in Seq(Feedback) /\ Len(log) <= MaxLog
    /\ known \subseteq Tables
    /\ \A set \in {verified, chosen, doomed, allowed} : set \subseteq Pair
    /\ pairPc \in {"idle", "upsert", "prune", "delete"}
    /\ kbChanges \in 0 .. MaxChanges

\* An older release stored pairs as they were typed, over looser checks.
PairInit ==
    /\ log = <<>> /\ known = {} /\ kbChanges = 0
    /\ verified \in SUBSET [question : Questions, sql : PairStatements, plain : {FALSE}]
    /\ pairPc = "idle" /\ chosen = {} /\ doomed = {} /\ allowed = verified

\* _why_not_kept: the policy, the shape, and the tables it names.
Qualifies(s, tables) == s.sound /\ s.tables # {} /\ s.tables \subseteq tables
KeptPair(p, tables) == Qualifies(p.sql, tables) /\ p.plain

Submit(f) ==
    /\ pairPc = "idle" /\ Len(log) < MaxLog
    /\ log' = Append(log, f)
    /\ UNCHANGED <<known, verified, pairPc, chosen, doomed, allowed, kbChanges>>

\* promote_feedback: thumbs-up of a known origin, or of any when the operator
\* says so; of the ratings of one statement the first; then the checks.
EveryOrigin(f, anonymous) == TRUE
OfKnownOrigin(f, anonymous) == f.source \in Attributed \/ anonymous
Positive(anonymous) == {i \in DOMAIN log : log[i].rating = "up" /\ OfKnownOrigin(log[i], anonymous)}
FirstOfEach(rated) == {i \in rated : \A j \in rated : j < i => log[j].sql.text # log[i].sql.text}
Promotable(anonymous) ==
    {[question |-> log[i].question, sql |-> log[i].sql, plain |-> TRUE] :
        i \in {i \in FirstOfEach(Positive(anonymous)) : Qualifies(log[i].sql, known')}}

Select(anonymous) ==
    LET found == IF known' = {} THEN {} ELSE Promotable(anonymous) IN
    /\ chosen' = found
    /\ allowed' = allowed \cup
                  {p \in found : \E i \in DOMAIN log :
                      /\ log[i].rating = "up" /\ log[i].sql = p.sql /\ log[i].question = p.question
                      /\ anonymous \/ log[i].source \in Attributed}
    /\ pairPc' = IF found = {} THEN "prune" ELSE "upsert"

PromoteFeedback(anonymous) ==
    /\ pairPc = "idle"
    /\ known' = known /\ Select(anonymous)
    /\ UNCHANGED <<log, verified, doomed, kbChanges>>

\* export-kb: the file, then the promotion without anonymous ratings.
Export(tables) ==
    /\ pairPc = "idle" /\ kbChanges < MaxChanges
    /\ known' = tables /\ kbChanges' = kbChanges + 1
    /\ Select(FALSE)
    /\ UNCHANGED <<log, verified, doomed>>

\* A failure to embed or store is logged, and the prune follows all the same.
UpsertPairs ==
    /\ pairPc = "upsert" /\ pairPc' = "prune"
    /\ verified' \in {verified, verified \cup chosen}
    /\ UNCHANGED <<log, known, chosen, doomed, allowed, kbChanges>>

\* prune_verified: not without a schema, and not when every pair fails at once.
UnlessAllFail(failing) == IF failing = verified THEN {} ELSE failing
Unqualified == IF known = {} THEN {} ELSE UnlessAllFail({p \in verified : ~KeptPair(p, known)})
Scan ==
    /\ pairPc = "prune"
    /\ doomed' = Unqualified
    /\ pairPc' = IF doomed' = {} THEN "idle" ELSE "delete"
    /\ UNCHANGED <<log, known, verified, chosen, allowed, kbChanges>>

Delete ==
    /\ pairPc = "delete" /\ pairPc' = "idle"
    /\ verified' \in {verified, verified \ doomed}
    /\ UNCHANGED <<log, known, chosen, doomed, allowed, kbChanges>>

PairKilled ==
    /\ pairPc # "idle" /\ pairPc' = "idle"
    /\ UNCHANGED <<log, known, verified, chosen, doomed, allowed, kbChanges>>

PairNext ==
    \/ \E f \in Feedback : Submit(f)
    \/ \E anonymous \in BOOLEAN : PromoteFeedback(anonymous)
    \/ \E tables \in SUBSET Tables : Export(tables)
    \/ UpsertPairs \/ Scan \/ Delete \/ PairKilled

PairSpec == PairInit /\ [][PairNext]_pairVars

---------------------------------------------------------------------------

\* A prune removes no pair that would be promoted today, and never the last of
\* them: whatever the knowledge base became, some pair that was there is left.
PruneSpares ==
    [][/\ \A p \in verified \ verified' : ~KeptPair(p, known)
       /\ verified # {} => verified' # {}]_pairVars

\* A rating of no known origin makes no verified pair unless an operator asked
\* for it, whichever commands and failures come between.
VouchedFor == verified \subseteq allowed
==================================================================================
