------------------------------ MODULE KnowledgeBase ------------------------------
(***************************************************************************)
(* The descriptions of a knowledge base: export-kb builds them anew from   *)
(* the database and the file it replaces, import-dbt merges dbt's docs     *)
(* into the file, and a person annotates it between the two.  A            *)
(* description is known by its author and by what it was written about.    *)
(*                                                                         *)
(* A slot is a table (column = "") or one of its columns.  Column values,  *)
(* profiles and query capsules are not part of this module.                *)
(***************************************************************************)
EXTENDS Integers, FiniteSets, Sequences

CONSTANTS KbSlots,    \* what the database may hold: [schema, name, column]
          Opaque,   \* the slots no model describes: keys and the like
          Models,   \* the relations dbt documents: [schema, name]
          Schemas,  \* the schemas, in the order the file lists their tables
          Runs      \* bound on exports, imports and annotations

Authors == {"person", "dbt", "schema", "llm"}
Sources == {"manual", "dbt", "schema", "llm", ""}
Text == [by : Authors, of : KbSlots]
NoText == [by |-> "", of |-> ""]
Description == [text : Text \cup {NoText}, source : Sources, stamp : 0 .. Runs]

\* Every slot is of a schema the file lists.
ASSUME SlotsAssumption ==
    \A s \in KbSlots :
        /\ s = [schema |-> s.schema, name |-> s.name, column |-> s.column]
        /\ \E i \in DOMAIN Schemas : Schemas[i] = s.schema

ASSUME SchemasAssumption == Schemas \in Seq(STRING) /\ Runs \in Nat

VARIABLES kb,    \* the file: the slots it holds, each with its description
          runs,  \* the clock: one tick a run
          own    \* the slots whose text a person wrote and marked as theirs

kbVars == <<kb, runs, own>>

KbTypeOK ==
    /\ \E held \in SUBSET KbSlots : kb \in [held -> Description]
    /\ runs \in 0 .. Runs
    /\ own \subseteq KbSlots

\* A file of an older release: descriptions with neither source nor date.
Legacy(s) == [text |-> [by |-> "person", of |-> s], source |-> "", stamp |-> 0]
Blank == [text |-> NoText, source |-> "", stamp |-> 0]

KbInit ==
    /\ \E held \in {{}, KbSlots} :
           kb \in {[s \in held |-> Blank], [s \in held |-> Legacy(s)]}
    /\ runs = 0
    /\ own = {s \in DOMAIN kb : kb[s].text # NoText}

NextDay == runs < Runs /\ runs' = runs + 1

Relation(s) == [schema |-> s.schema, name |-> s.name]
TablesOf(slots) == {Relation(s) : s \in slots}

---------------------------------------------------------------------------
(* generate_knowledge_base *)

\* The file is read by the tables' bare names: of two tables of one name, the
\* later one's entry is the one kept (its columns' entries all together).
SourceRank(s) == CHOOSE i \in DOMAIN Schemas : Schemas[i] = s.schema
LatestOf(slots) == CHOOSE s \in slots : \A t \in slots : SourceRank(t) <= SourceRank(s)
SameName(s) == {t \in DOMAIN kb : t.name = s.name /\ (t.column = "") = (s.column = "")}
Described(s) == {t \in SameName(s) : kb[t].text # NoText}
Existing(s) ==
    LET t == [s EXCEPT !.schema = LatestOf(Described(s)).schema] IN
    IF Described(s) # {} /\ t \in DOMAIN kb THEN kb[t] ELSE Blank

\* The dates are read the same way, from entries without a description too.
Dated(s) ==
    LET same == {t \in SameName(s) : t.column = s.column} IN
    IF same = {} THEN Blank ELSE kb[LatestOf(same)]

Manual == {"manual", ""}

\* A person's description stays; else the best fresh one; else what there was.
FreshDescription(s, comments, described) ==
    IF s \in comments THEN [text |-> [by |-> "schema", of |-> s], source |-> "schema"]
    ELSE IF s \in described THEN [text |-> [by |-> "llm", of |-> s], source |-> "llm"]
    ELSE [text |-> NoText, source |-> ""]

ResolveDescription(old, fresh) ==
    IF old.text # NoText /\ old.source \in Manual
    THEN [text |-> old.text, source |-> "manual"]
    ELSE IF fresh.text # NoText THEN fresh
    ELSE [text |-> old.text, source |-> old.source]

\* _stamp_one: text that did not change keeps its date, or its lack of one.
Stamped(text, old) ==
    IF text = NoText THEN 0
    ELSE IF text = old.text THEN old.stamp
    ELSE runs'

Generated(s, fresh) ==
    LET d == ResolveDescription(Existing(s), fresh)
    IN  [text |-> d.text, source |-> d.source, stamp |-> Stamped(d.text, Dated(s))]

---------------------------------------------------------------------------
(* The commands *)

\* describe_columns: columns a model can describe, and those it answers for;
\* a table whose sample failed, or whose reply was refused, has none.
Describable(held) == {s \in held : s.column # "" /\ s \notin Opaque}

ExportKb(tables, comments, described) ==
    LET held == {s \in KbSlots : Relation(s) \in tables}
    IN  /\ NextDay
        /\ comments \subseteq held /\ described \subseteq Describable(held)
        /\ kb' = [s \in held |-> Generated(s, FreshDescription(s, comments, described))]
        /\ own' = own \cap held

\* match_dbt_docs: the model of the table's own schema and name, or the only
\* one of its name that no other table of the file took that way.
Claimed(models) == models \cap TablesOf(DOMAIN kb)
DbtCandidates(t, models) == {m \in models \ Claimed(models) : m.name = t.name}
DbtDoc(t, models) ==
    IF t \in models THEN {t}
    ELSE IF Cardinality(DbtCandidates(t, models)) = 1 THEN DbtCandidates(t, models)
    ELSE {}

\* The manifest documents some of the models, and some of their columns.
ImportDbt(models, undocumented) ==
    LET source(s) == {d \in KbSlots : /\ Relation(d) \in DbtDoc(Relation(s), models)
                                    /\ d.column = s.column /\ d \notin undocumented}
        takes(s) == source(s) # {} /\ ~(kb[s].text # NoText /\ kb[s].source \in Manual)
    IN  /\ NextDay
        /\ kb' = [s \in DOMAIN kb |->
                    IF takes(s)
                    THEN [kb[s] EXCEPT !.text = [by |-> "dbt", of |-> CHOOSE d \in source(s) : TRUE],
                                       !.source = "dbt"]
                    ELSE kb[s]]
        /\ UNCHANGED own

\* A person writes a description, and says that it is theirs or does not.
Annotate(s, marked) ==
    /\ NextDay
    /\ kb' = [kb EXCEPT ![s].text = [by |-> "person", of |-> s],
                        ![s].source = IF marked THEN "manual" ELSE @]
    /\ own' = IF kb'[s].source \in Manual THEN own \cup {s} ELSE own

KbNext ==
    \/ \E tables \in SUBSET TablesOf(KbSlots), comments, described \in SUBSET KbSlots :
           ExportKb(tables, comments, described)
    \/ \E models \in SUBSET Models, undocumented \in SUBSET KbSlots : ImportDbt(models, undocumented)
    \/ \E s \in DOMAIN kb, marked \in BOOLEAN : Annotate(s, marked)

KbSpec == KbInit /\ [][KbNext]_kbVars

---------------------------------------------------------------------------

Alone(s) == \A t \in KbSlots : t.name = s.name => t.schema = s.schema

\* "A human edit is never overwritten" (docs/cli-reference.md): through any
\* exports, imports and further edits, what a person wrote and the file records
\* as theirs is what the file says, wherever its table's name is its own.
HumanTextKept ==
    \A s \in own : Alone(s) => kb[s].text = [by |-> "person", of |-> s]

\* "Only a real change moves the date" (description_dates.py): a run that leaves
\* a description as it was leaves its date.
OnlyChangeMovesDate ==
    [][\A s \in DOMAIN kb \cap DOMAIN kb' :
          Alone(s) /\ kb'[s].text = kb[s].text => kb'[s].stamp = kb[s].stamp]_kbVars

\* "you can manually annotate tables and columns (`description:` fields) ...
\* Re-run `export-kb` after edits; manual annotations are preserved"
\* (docs/getting-started.md): a run keeps a person's text while its table is there.
AnnotationPreserved ==
    [][\A s \in DOMAIN kb \cap DOMAIN kb' :
          kb[s].text.by = "person" => kb'[s].text = kb[s].text]_kbVars
==================================================================================
