------------------------------- MODULE QueryHistory -------------------------------
(***************************************************************************)
(* process-history: a connector's query history is filtered, deduplicated, *)
(* clustered and turned into capsules, which are saved in a file and, with *)
(* --embed, made the agent's capsules in Qdrant.  The command may fail or  *)
(* be killed between any two of its writes, and a write may take effect    *)
(* though its reply is lost.                                               *)
(*                                                                         *)
(* A statement is known by its normalised text, its fingerprint (the text  *)
(* without its values), its body (the fingerprint with the columns in      *)
(* order; statements of one body read the same tables), and what the       *)
(* filter and the parser make of it.  Commands on one agent do not         *)
(* overlap.                                                                *)
(***************************************************************************)
EXTENDS Integers, Sequences, FiniteSets, SequencesExt

CONSTANTS Statements,     \* [norm, print, body, kind, templates]
          Counts,         \* the execution counts a record reports
          MaxRecords,     \* bound on the records of a history
          MinExecutions,  \* --min-executions
          MaxQueries,     \* --max-queries
          Commands        \* bound on the commands

\* Only whole numbers of executions are reported, and what the filter lets pass is known
\* by its normalised text.
ASSUME HistoryAssumption ==
    /\ Counts \subseteq Nat /\ MaxRecords \in Nat /\ MaxQueries \in Nat
    /\ MinExecutions \in Nat /\ Commands \in Nat
    /\ \A s, t \in Statements : s.norm = t.norm /\ s.kind = t.kind => s = t

Record == [of : Statements, count : Counts]

VARIABLES historyPc,  \* where the command is
          history,    \* the records the connector returned
          capsules,   \* the capsules made of them
          embeds,     \* --embed
          file,       \* the saved capsules
          storedCapsules,     \* the agent's capsules in Qdrant
          settled,    \* the capsules of the last command that stored its own
          reported,   \* what the command said it embedded: a number, or -1
          commands    \* how many commands have started

historyVars == <<historyPc, history, capsules, embeds, file, storedCapsules, settled, reported, commands>>

Capsule == [index : 1 .. MaxRecords, print : {s.print : s \in Statements}, frequency : Nat]

HistoryTypeOK ==
    /\ historyPc \in {"idle", "extracted", "made", "saved", "upserted"}
    /\ history \in Seq(Record) /\ Len(history) <= MaxRecords
    /\ \A set \in {capsules, file, storedCapsules, settled} : set \subseteq Capsule
    /\ embeds \in BOOLEAN
    /\ reported \in -1 .. MaxRecords
    /\ commands \in 0 .. Commands

HistoryInit ==
    /\ historyPc = "idle" /\ history = <<>> /\ capsules = {} /\ embeds = FALSE
    /\ file = {} /\ storedCapsules = {} /\ settled = {} /\ reported = -1 /\ commands = 0

---------------------------------------------------------------------------
(* The pipeline *)

\* The elements of a list at some of its positions, in their order.
InOrder(set) == [n \in 1 .. Cardinality(set) |->
                    CHOOSE i \in set : Cardinality({j \in set : j <= i}) = n]
Sublist(list, set) == [n \in 1 .. Cardinality(set) |-> list[InOrder(set)[n]]]

Executions(list) == SumFunction([i \in DOMAIN list |-> list[i].count])

\* The positions of what is the same as an item by its norm, its print or its body.
Same(list, item, by) == {i \in DOMAIN list : list[i].of[by] = item.of[by]}

\* An item joins the first that is the same, or comes last; the more frequent is shown.
Joined(a, b) == [of |-> IF a.count >= b.count THEN a.of ELSE b.of, count |-> a.count + b.count]
AddTo(list, item, by) ==
    IF Same(list, item, by) = {} THEN Append(list, item)
    ELSE [list EXCEPT ![Min(Same(list, item, by))] = Joined(@, item)]
Collected(items, by) == FoldLeft(LAMBDA list, item : AddTo(list, item, by), <<>>, items)

\* filter_and_deduplicate: a record too rare, or no SELECT of the user's own,
\* is dropped; the others of one normalised text are added up.
Useful(r) == r.count >= MinExecutions /\ r.of.kind = "select"
Filtered(records) == Sublist(records, {i \in DOMAIN records : Useful(records[i])})
Deduplicated(records) == Collected(Filtered(records), "norm")

\* cluster_queries: one cluster a fingerprint, shown by its most frequent member.
Members(queries, i) == Same(queries, queries[i], "print")
Firsts(queries) == {i \in DOMAIN queries : \A j \in Members(queries, i) : i <= j}
Most(list, set) ==
    CHOOSE i \in set : \A j \in set : \/ list[i].count > list[j].count
                                      \/ list[i].count = list[j].count /\ i <= j
Cluster(queries, i) ==
    [of |-> queries[Most(queries, Members(queries, i))].of,
     count |-> SumFunctionOnSet([j \in DOMAIN queries |-> queries[j].count], Members(queries, i))]
Grouped(queries) ==
    [n \in 1 .. Cardinality(Firsts(queries)) |-> Cluster(queries, InOrder(Firsts(queries))[n])]

\* _merge_near_duplicates: clusters that differ in the order of columns only.
Merged(clusters) == Collected(clusters, "body")

\* The most frequent first, and of the same frequency as they were.
Ahead(list, i) ==
    {j \in DOMAIN list : \/ list[j].count > list[i].count
                         \/ list[j].count = list[i].count /\ j <= i}
ByFrequency(list) ==
    [n \in DOMAIN list |-> list[CHOOSE i \in DOMAIN list : Cardinality(Ahead(list, i)) = n]]
Clusters(queries) == ByFrequency(Merged(Grouped(queries)))

\* parameterize_clusters: a cluster whose statement makes no template is left out.
Parameterized(clusters) == Sublist(clusters, {i \in DOMAIN clusters : clusters[i].of.templates})

\* The limit is on the useful queries; three times as many records are read.
Limited(queries) == SubSeq(queries, 1, IF Len(queries) < MaxQueries THEN Len(queries) ELSE MaxQueries)
Pipeline(records) == Parameterized(Clusters(Limited(Deduplicated(records))))

---------------------------------------------------------------------------
(* The command *)

HistoryEnds == historyPc' = "idle"

\* The checks before: credentials for --annotate, Qdrant for --embed.  The
\* history may not be available, and then nothing is changed.
Extract ==
    /\ historyPc = "idle" /\ commands < Commands
    /\ \E n \in 0 .. MaxRecords : history' \in [1 .. n -> Record]
    /\ Len(history') <= 3 * MaxQueries
    /\ embeds' \in BOOLEAN
    /\ commands' = commands + 1 /\ reported' = -1
    /\ historyPc' = "extracted"
    /\ UNCHANGED <<capsules, file, storedCapsules, settled>>

MakeCapsules ==
    /\ historyPc = "extracted"
    /\ LET kept == Pipeline(history) IN
       capsules' = {[index |-> i, print |-> kept[i].of.print, frequency |-> kept[i].count] :
                        i \in DOMAIN kept}
    /\ historyPc' = "made"
    /\ UNCHANGED <<history, embeds, file, storedCapsules, settled, reported, commands>>

\* save_capsules replaces the file; without capsules --embed then does nothing.
SaveCapsules ==
    /\ historyPc = "made"
    /\ file' = capsules
    /\ IF embeds /\ capsules # {}
       THEN historyPc' = "saved" /\ UNCHANGED reported
       ELSE HistoryEnds /\ reported' = IF embeds THEN 0 ELSE -1
    /\ UNCHANGED <<history, capsules, embeds, storedCapsules, settled, commands>>

Point(c) == <<c.index, c.print>>
Points(set) == {Point(c) : c \in set}
Upserted == capsules \cup {c \in storedCapsules : Point(c) \notin Points(capsules)}

\* replace_capsules: the new ones first, then the others removed.
OwnPoints == {c \in storedCapsules : Point(c) \in Points(capsules)}

StoreCapsules ==
    /\ historyPc = "saved"
    /\ storedCapsules' = Upserted
    /\ \/ historyPc' = "upserted"
       \/ HistoryEnds                                       \* done, and its reply lost
    /\ settled' = IF capsules \subseteq storedCapsules' THEN capsules ELSE settled
    /\ UNCHANGED <<history, capsules, embeds, file, reported, commands>>

RemoveOthers ==
    /\ historyPc = "upserted"
    /\ storedCapsules' = OwnPoints
    /\ \/ historyPc' = "idle" /\ reported' = Cardinality(capsules)
       \/ HistoryEnds /\ UNCHANGED reported
    /\ settled' = capsules
    /\ UNCHANGED <<history, capsules, embeds, file, commands>>

\* A schema read only for its types, a model that does not answer, a key that
\* does not sign, an embedder or a store out of reach; or the process killed.
Fails ==
    /\ historyPc # "idle" /\ HistoryEnds
    /\ UNCHANGED <<history, capsules, embeds, file, storedCapsules, settled, reported, commands>>

HistoryNext == Extract \/ MakeCapsules \/ SaveCapsules \/ StoreCapsules \/ RemoveOthers \/ Fails
HistorySpec == HistoryInit /\ [][HistoryNext]_historyVars

---------------------------------------------------------------------------

\* Every execution of a useful statement is counted once, whatever is merged
\* with what (with room for all and a template for each).
ExecutionsCountedOnce ==
    historyPc = "made" /\ Len(Deduplicated(history)) <= MaxQueries
        /\ (\A r \in Range(history) : r.of.templates)
    => SumFunction([c \in capsules |-> c.frequency]) = Executions(Filtered(history))

\* "so a failure before the store leaves the previous set in place"
\* (qdrant_store.py): at any moment, whatever failed or was killed, the store
\* holds whole the last set of capsules a command stored.
LastSetStored == settled \subseteq storedCapsules

\* "Minimum executions for a query cluster to be kept" (docs/cli-reference.md).
FrequentClusterKept ==
    historyPc = "made" =>
        \A s \in Statements :
            LET of == {i \in DOMAIN history : history[i].of.print = s.print} IN
            /\ s.kind = "select" /\ s.templates
            /\ Executions(Sublist(history, of)) >= MinExecutions
            => \E c \in capsules : \E t \in Statements : t.print = c.print /\ t.body = s.body

\* "Replace the agent's capsules in Qdrant" (main.py): when the command says how
\* many it embedded, those are what Qdrant holds.
ReplacedWhole == reported # -1 => storedCapsules = file
==================================================================================
