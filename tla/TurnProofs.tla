----------------------------- MODULE TurnProofs ----------------------------
(***************************************************************************)
(* What runs, what is shown and what is kept in a turn, for any statements,*)
(* settings, deadlines and answers of the model and of the database; that a*)
(* tool call runs under a grant; and what the components of a question     *)
(* promise together.                                                       *)
(***************************************************************************)
EXTENDS Question, ReplyProofs, FoldLemmas, TLAPS

----------------------------------------------------------------------------
(* SqlTurn.                                                                *)

----------------------------------------------------------------------------
(* The inductive invariant.                                                *)

\* Where the statement in hand has passed validation, and the caller may
\* execute; where a second statement is being planned or run.
Validated == {"ground", "reground", "literal", "grain", "askGrain"}
BeforeRun == {"open", "plan", "explain", "askPlan", "explainDraft", "start", "running"}
AfterRun == {"askFix", "refixing", "look", "askLook", "relooking"}
Drafting == {"explainDraft", "refixing", "relooking"}
Working == Drafting \cup {"explain", "running"}

\* Each place a statement can be replaced at is passed once, and so is each
\* place a statement is run from.
PassedOnce ==
    /\ pc \in {"generate", "mend", "repair", "ground"} => result.attempts <= 1
    /\ pc \in {"reground", "literal", "grain", "askGrain"} => result.attempts <= 2
    /\ pc \in {"clear", "open", "plan", "explain", "askPlan", "explainDraft"} => result.attempts <= 3
    /\ pc \in {"start", "running", "askFix", "refixing"} => result.attempts <= 4
    /\ pc \in {"look", "askLook", "relooking"} => result.attempts <= 5
    /\ pc \in Validated \cup (BeforeRun \ {"running"}) \cup {"generate", "mend", "repair", "clear"}
           => runs = 0
    /\ pc \in {"running", "askFix"} => runs <= 1
    /\ pc \in {"refixing", "look", "askLook"} => runs <= 2

\* What is called valid is valid, and so is a rewrite or a correction that runs.
ValidInHand ==
    /\ result.valid => result.sql \in Valid
    /\ pc \in Validated => result.valid
    /\ pc \in BeforeRun \cup AfterRun => result.valid /\ conf.mayExecute
    /\ pc \in Drafting => draft \in Valid

\* The database works where the turn waits for it, on what the turn has in
\* hand, and otherwise only for a caller that has gone.
WorksWhereAwaited ==
    /\ pc \in Working => job # NoJob
    /\ pc \notin Working \cup {"gone"} => job = NoJob
    /\ pc \in {"explain", "running"} => job.sql = result.sql
    /\ pc \in Drafting => job.sql = draft

\* The result in hand is that of the statement in hand, and the first with rows
\* if there was one.
ResultInHand ==
    /\ pc \in {"generate", "mend", "repair", "clear", "askFix", "refixing"} \cup Validated \cup BeforeRun
           => first = NoResult
    /\ pc \in AfterRun =>
           /\ qr # NoResult /\ qr.sql = result.sql
           /\ first # NoResult => qr = first /\ qr.outcome = "rows"
           /\ first = NoResult => qr.outcome # "rows"

\* The frame is filled at the end alone.
Reported ==
    /\ pc # "done" => table = NoTable
    /\ FrameIsOneRun /\ RowsKept /\ ReplacedByBetter

\* The inductive invariant.
TurnInv ==
    /\ TypeOK /\ PassedOnce /\ ValidInHand /\ WorksWhereAwaited
    /\ ResultInHand /\ Reported /\ OnlyValidRun

\* The invariant holds when a question arrives.
LEMMA TurnStarts == Init => TurnInv
<1> SUFFICES ASSUME Init PROVE TurnInv
    OBVIOUS
<1>1. now \in 0..MaxTime /\ runs \in 0..3
    BY TimeAssumption DEF Init
<1>2. result \in [sql : Stmts \cup {NoStmt}, valid : BOOLEAN, attempts : 1..6]
    BY DEF Init
<1>3. TypeOK
    BY <1>1, <1>2 DEF Init, TypeOK
<1>4. PassedOnce /\ ValidInHand /\ WorksWhereAwaited /\ ResultInHand
    BY DEF Init, PassedOnce, ValidInHand, WorksWhereAwaited, ResultInHand, Validated, BeforeRun,
           AfterRun, Drafting, Working
<1>5. Reported /\ OnlyValidRun
    BY DEF Init, Reported, FrameIsOneRun, RowsKept, ReplacedByBetter, OnlyValidRun
<1> QED
    BY <1>3, <1>4, <1>5 DEF TurnInv

\* A statement is given a stop, whatever the timeouts and the deadline.
LEMMA StopsAreTimes ==
    ASSUME TypeOK
    PROVE  ExplainStop \in Nat /\ OwnStop \in Nat /\ ClampedStop \in Nat
<1>1. conf.timeout \in Nat /\ conf.deadline \in Nat /\ now \in Nat
    BY ConfAssumption, TimeAssumption DEF TypeOK, Conf
<1> QED
    BY <1>1, TimeAssumption DEF ExplainStop, OwnStop, ClampedStop, Sooner, Never, HasDeadline

\* What the database is given is a statement with a start and a stop.
LEMMA GivenJob ==
    ASSUME TypeOK, NEW s \in Stmts, NEW stop \in Nat
    PROVE  /\ [sql |-> s, begun |-> now, stop |-> stop] \in Job
           /\ [sql |-> s, begun |-> now, stop |-> stop] # NoJob
BY NullAssumption DEF TypeOK, Job

\* What the frame shows is a table.
LEMMA ShownTable == ASSUME NEW r \in Result, Report(r) PROVE table' \in Table
BY DEF Report, Table, Result

\* A statement that is replaced is counted.
LEMMA Counted ==
    ASSUME TypeOK, result.attempts <= 5, NEW s \in Stmts, Replaces(s)
    PROVE  result' \in [sql : Stmts \cup {NoStmt}, valid : BOOLEAN, attempts : 1..6]
<1>1. result.attempts + 1 \in 1..6
    BY DEF TypeOK
<1> QED
    BY <1>1 DEF Replaces

\* The turn has a statement wherever one may run.
LEMMA HasStatement ==
    ASSUME TurnInv
    PROVE  /\ pc \in BeforeRun \cup AfterRun => result.sql \in Stmts
           /\ pc \in Drafting => draft \in Stmts
           /\ pc \in AfterRun => qr \in Result
BY StmtAssumption DEF TurnInv, ValidInHand, ResultInHand, TypeOK

----------------------------------------------------------------------------
(* Each step keeps the invariant.                                          *)

USE StmtAssumption, NullAssumption

\* Time passes.
LEMMA TickKeeps == ASSUME TurnInv, Tick PROVE TurnInv'
<1>1. TypeOK'
    BY TimeAssumption DEF TurnInv, TypeOK, Tick, dbVars
<1>2. PassedOnce'
    BY DEF TurnInv, PassedOnce, Tick, dbVars
<1>3. ValidInHand'
    BY DEF TurnInv, ValidInHand, Tick
<1>4. WorksWhereAwaited'
    BY DEF TurnInv, WorksWhereAwaited, Tick, dbVars
<1>5. ResultInHand'
    BY DEF TurnInv, ResultInHand, Tick, dbVars
<1>6. Reported'
    BY DEF TurnInv, Reported, Tick, dbVars, FrameIsOneRun, RowsKept, ReplacedByBetter
<1>7. OnlyValidRun'
    BY DEF TurnInv, OnlyValidRun, Tick, dbVars
<1> QED
    BY <1>1, <1>2, <1>3, <1>4, <1>5, <1>6, <1>7 DEF TurnInv

\* The caller stops waiting.
LEMMA CancelKeeps == ASSUME TurnInv, Cancel PROVE TurnInv'
<1>1. TypeOK'
    BY DEF TurnInv, TypeOK, Cancel, Final, Goto, dbVars
<1>2. PassedOnce'
    BY DEF PassedOnce, Cancel, Goto, Validated, BeforeRun
<1>3. ValidInHand'
    BY DEF TurnInv, ValidInHand, Cancel, Goto, Validated, BeforeRun, AfterRun, Drafting
<1>4. WorksWhereAwaited'
    BY DEF WorksWhereAwaited, Cancel, Goto, Drafting, Working
<1>5. ResultInHand'
    BY DEF ResultInHand, Cancel, Goto, Validated, BeforeRun, AfterRun
<1>6. Reported'
    BY DEF TurnInv, Reported, Cancel, Final, Goto, dbVars, FrameIsOneRun, RowsKept,
           ReplacedByBetter
<1>7. OnlyValidRun'
    BY DEF TurnInv, OnlyValidRun, Cancel, dbVars
<1> QED
    BY <1>1, <1>2, <1>3, <1>4, <1>5, <1>6, <1>7 DEF TurnInv

\* A statement ends with no one waiting for it.
LEMMA JobEndsUnseenKeeps == ASSUME TurnInv, JobEndsUnseen PROVE TurnInv'
<1>1. TypeOK'
    BY DEF TurnInv, TypeOK, JobEndsUnseen
<1>2. PassedOnce'
    BY DEF TurnInv, PassedOnce, JobEndsUnseen
<1>3. ValidInHand'
    BY DEF TurnInv, ValidInHand, JobEndsUnseen
<1>4. WorksWhereAwaited'
    BY DEF WorksWhereAwaited, JobEndsUnseen, Drafting, Working
<1>5. ResultInHand'
    BY DEF TurnInv, ResultInHand, JobEndsUnseen
<1>6. Reported'
    BY DEF TurnInv, Reported, JobEndsUnseen, FrameIsOneRun, RowsKept, ReplacedByBetter
<1>7. OnlyValidRun'
    BY DEF OnlyValidRun, JobEndsUnseen
<1> QED
    BY <1>1, <1>2, <1>3, <1>4, <1>5, <1>6, <1>7 DEF TurnInv

\* A model call outside any handler raises.
LEMMA TurnFailsKeeps == ASSUME TurnInv, TurnFails PROVE TurnInv'
<1>1. TypeOK'
    BY DEF TurnInv, TypeOK, TurnFails, Goto, dbVars, Final
<1>2. PassedOnce'
    BY DEF TurnInv, PassedOnce, TurnFails, Goto, dbVars
<1>3. ValidInHand'
    BY DEF TurnInv, ValidInHand, TurnFails, Goto, Validated, BeforeRun, AfterRun,
           Drafting
<1>4. WorksWhereAwaited'
    BY DEF TurnInv, WorksWhereAwaited, TurnFails, Goto, dbVars, Drafting, Working
<1>5. ResultInHand'
    BY DEF TurnInv, ResultInHand, TurnFails, Goto, dbVars, AfterRun
<1>6. Reported'
    BY DEF TurnInv, Reported, TurnFails, Goto, dbVars, FrameIsOneRun, RowsKept,
           ReplacedByBetter
<1>7. OnlyValidRun'
    BY DEF TurnInv, OnlyValidRun, TurnFails, dbVars
<1> QED
    BY <1>1, <1>2, <1>3, <1>4, <1>5, <1>6, <1>7 DEF TurnInv

\* The model writes a statement.
LEMMA GenerateKeeps == ASSUME TurnInv, Generate PROVE TurnInv'
<1>1. TypeOK'
    BY DEF TurnInv, TypeOK, Generate, Goto, dbVars
<1>2. PassedOnce'
    BY DEF TurnInv, PassedOnce, Generate, dbVars
<1>3. ValidInHand'
  <2>1. PICK s \in Stmts, cut \in BOOLEAN :
            /\ result' = [sql |-> s, valid |-> s \in Valid /\ ~cut, attempts |-> 1]
            /\ pc' = IF s \in Valid /\ ~cut THEN "ground" ELSE IF cut THEN "repair" ELSE "mend"
      BY DEF Generate, Goto
  <2> QED
      BY <2>1 DEF ValidInHand, Validated, BeforeRun, AfterRun, Drafting
<1>4. WorksWhereAwaited'
    BY DEF TurnInv, WorksWhereAwaited, Generate, Goto, dbVars, Drafting, Working
<1>5. ResultInHand'
    BY DEF TurnInv, ResultInHand, Generate, Goto, dbVars, AfterRun
<1>6. Reported'
    BY DEF TurnInv, Reported, Generate, Goto, dbVars, FrameIsOneRun, RowsKept,
           ReplacedByBetter
<1>7. OnlyValidRun'
    BY DEF TurnInv, OnlyValidRun, Generate, dbVars
<1> QED
    BY <1>1, <1>2, <1>3, <1>4, <1>5, <1>6, <1>7 DEF TurnInv

\* A statement is repaired mechanically.
LEMMA MendKeeps == ASSUME TurnInv, Mend PROVE TurnInv'
<1>1. TypeOK'
    BY DEF TurnInv, TypeOK, Mend, Goto, dbVars
<1>2. PassedOnce'
    BY DEF TurnInv, PassedOnce, Mend, Goto, dbVars, TypeOK
<1>3. ValidInHand'
    BY DEF TurnInv, ValidInHand, Mend, Goto, TypeOK, Validated, BeforeRun, AfterRun,
           Drafting
<1>4. WorksWhereAwaited'
    BY DEF TurnInv, WorksWhereAwaited, Mend, Goto, dbVars, Drafting, Working
<1>5. ResultInHand'
    BY DEF TurnInv, ResultInHand, Mend, Goto, dbVars, AfterRun
<1>6. Reported'
    BY DEF TurnInv, Reported, Mend, Goto, dbVars, FrameIsOneRun, RowsKept,
           ReplacedByBetter
<1>7. OnlyValidRun'
    BY DEF TurnInv, OnlyValidRun, Mend, dbVars
<1> QED
    BY <1>1, <1>2, <1>3, <1>4, <1>5, <1>6, <1>7 DEF TurnInv

\* The model repairs a statement.
LEMMA RepairKeeps == ASSUME TurnInv, Repair PROVE TurnInv'
<1>1. TypeOK'
    BY DEF TurnInv, TypeOK, Repair, Goto, dbVars
<1>2. PassedOnce'
    BY DEF TurnInv, PassedOnce, Repair, Goto, dbVars
<1>3. ValidInHand'
  <2>1. PICK s \in Stmts, cut \in BOOLEAN :
            /\ result' = [sql |-> s, valid |-> s \in Valid /\ ~cut, attempts |-> 2]
            /\ pc' = IF s \in Valid /\ ~cut THEN "reground" ELSE "clear"
      BY DEF Repair, Goto
  <2> QED
      BY <2>1 DEF ValidInHand, Validated, BeforeRun, AfterRun, Drafting
<1>4. WorksWhereAwaited'
    BY DEF TurnInv, WorksWhereAwaited, Repair, Goto, dbVars, Drafting, Working
<1>5. ResultInHand'
    BY DEF TurnInv, ResultInHand, Repair, Goto, dbVars, AfterRun
<1>6. Reported'
    BY DEF TurnInv, Reported, Repair, Goto, dbVars, FrameIsOneRun, RowsKept,
           ReplacedByBetter
<1>7. OnlyValidRun'
    BY DEF TurnInv, OnlyValidRun, Repair, dbVars
<1> QED
    BY <1>1, <1>2, <1>3, <1>4, <1>5, <1>6, <1>7 DEF TurnInv

\* A statement's literals are grounded.
LEMMA GroundKeeps == ASSUME TurnInv, Ground PROVE TurnInv'
<1>1. TypeOK'
    BY DEF TurnInv, TypeOK, Ground, Grounded, Goto, dbVars
<1>2. PassedOnce'
    BY DEF TurnInv, PassedOnce, Ground, Goto, dbVars, TypeOK, Validated
<1>3. ValidInHand'
    BY DEF TurnInv, ValidInHand, Ground, Grounded, Goto, TypeOK, Validated, BeforeRun,
           AfterRun, Drafting
<1>4. WorksWhereAwaited'
    BY DEF TurnInv, WorksWhereAwaited, Ground, Goto, dbVars, Drafting, Working
<1>5. ResultInHand'
    BY DEF TurnInv, ResultInHand, Ground, Goto, dbVars, Validated, AfterRun
<1>6. Reported'
    BY DEF TurnInv, Reported, Ground, Goto, dbVars, FrameIsOneRun, RowsKept,
           ReplacedByBetter
<1>7. OnlyValidRun'
    BY DEF TurnInv, OnlyValidRun, Ground, dbVars
<1> QED
    BY <1>1, <1>2, <1>3, <1>4, <1>5, <1>6, <1>7 DEF TurnInv

\* The model corrects literals.
LEMMA RepairLiteralsKeeps == ASSUME TurnInv, RepairLiterals PROVE TurnInv'
<1>1. TypeOK'
    BY DEF TurnInv, TypeOK, RepairLiterals, Goto, dbVars
<1>2. PassedOnce'
    BY DEF TurnInv, PassedOnce, RepairLiterals, Goto, dbVars, TypeOK, Validated
<1>3. ValidInHand'
    BY DEF TurnInv, ValidInHand, RepairLiterals, Goto, TypeOK, Validated, BeforeRun,
           AfterRun, Drafting
<1>4. WorksWhereAwaited'
    BY DEF TurnInv, WorksWhereAwaited, RepairLiterals, Goto, dbVars, Drafting, Working
<1>5. ResultInHand'
    BY DEF TurnInv, ResultInHand, RepairLiterals, Goto, dbVars, Validated, AfterRun
<1>6. Reported'
    BY DEF TurnInv, Reported, RepairLiterals, Goto, dbVars, FrameIsOneRun, RowsKept,
           ReplacedByBetter
<1>7. OnlyValidRun'
    BY DEF TurnInv, OnlyValidRun, RepairLiterals, dbVars
<1> QED
    BY <1>1, <1>2, <1>3, <1>4, <1>5, <1>6, <1>7 DEF TurnInv

\* The statement is held against its plan line.
LEMMA CheckGrainKeeps == ASSUME TurnInv, CheckGrain PROVE TurnInv'
<1>1. TypeOK'
    BY DEF TurnInv, TypeOK, CheckGrain, Goto, dbVars, ModelCalls
<1>2. PassedOnce'
    BY DEF TurnInv, PassedOnce, CheckGrain, Goto, dbVars, TypeOK, Validated
<1>3. ValidInHand'
    BY DEF TurnInv, ValidInHand, CheckGrain, Goto, Validated, BeforeRun, AfterRun,
           Drafting
<1>4. WorksWhereAwaited'
    BY DEF TurnInv, WorksWhereAwaited, CheckGrain, Goto, dbVars, Drafting, Working
<1>5. ResultInHand'
    BY DEF TurnInv, ResultInHand, CheckGrain, Goto, dbVars, Validated, AfterRun
<1>6. Reported'
    BY DEF TurnInv, Reported, CheckGrain, Goto, dbVars, FrameIsOneRun, RowsKept,
           ReplacedByBetter
<1>7. OnlyValidRun'
    BY DEF TurnInv, OnlyValidRun, CheckGrain, dbVars
<1> QED
    BY <1>1, <1>2, <1>3, <1>4, <1>5, <1>6, <1>7 DEF TurnInv

\* The model rewrites the statement to its plan line.
LEMMA RepairToPlanKeeps == ASSUME TurnInv, RepairToPlan PROVE TurnInv'
<1>1. TypeOK'
  <2>1. result' \in [sql : Stmts \cup {NoStmt}, valid : BOOLEAN, attempts : 1..6]
      BY Counted DEF TurnInv, TypeOK, PassedOnce, RepairToPlan
  <2> QED
      BY <2>1 DEF TurnInv, TypeOK, RepairToPlan, Goto, dbVars
<1>2. PassedOnce'
    BY DEF TurnInv, PassedOnce, RepairToPlan, Replaces, Goto, dbVars, TypeOK, Validated
<1>3. ValidInHand'
    BY DEF TurnInv, ValidInHand, RepairToPlan, Replaces, Goto, Validated, BeforeRun,
           AfterRun, Drafting
<1>4. WorksWhereAwaited'
    BY DEF TurnInv, WorksWhereAwaited, RepairToPlan, Goto, dbVars, Drafting, Working
<1>5. ResultInHand'
    BY DEF TurnInv, ResultInHand, RepairToPlan, Goto, dbVars, Validated, AfterRun
<1>6. Reported'
    BY DEF TurnInv, Reported, RepairToPlan, Goto, dbVars, FrameIsOneRun, RowsKept,
           ReplacedByBetter
<1>7. OnlyValidRun'
    BY DEF TurnInv, OnlyValidRun, RepairToPlan, dbVars
<1> QED
    BY <1>1, <1>2, <1>3, <1>4, <1>5, <1>6, <1>7 DEF TurnInv

\* Only what is cleared goes on.
LEMMA ClearKeeps == ASSUME TurnInv, Clear PROVE TurnInv'
<1>1. TypeOK'
    BY DEF TurnInv, TypeOK, Clear, Goto, dbVars, Final
<1>2. PassedOnce'
    BY DEF TurnInv, PassedOnce, Clear, Goto, dbVars
<1>3. ValidInHand'
    BY DEF TurnInv, ValidInHand, Clear, Cleared, Goto, Validated, BeforeRun, AfterRun,
           Drafting
<1>4. WorksWhereAwaited'
    BY DEF TurnInv, WorksWhereAwaited, Clear, Goto, dbVars, Drafting, Working
<1>5. ResultInHand'
    BY DEF TurnInv, ResultInHand, Clear, Goto, dbVars, AfterRun
<1>6. Reported'
    BY DEF TurnInv, Reported, Clear, dbVars, FrameIsOneRun, RowsKept, ReplacedByBetter,
           ResultInHand
<1>7. OnlyValidRun'
    BY DEF TurnInv, OnlyValidRun, Clear, dbVars
<1> QED
    BY <1>1, <1>2, <1>3, <1>4, <1>5, <1>6, <1>7 DEF TurnInv

\* A connector is opened, or is not.
LEMMA OpenKeeps == ASSUME TurnInv, Open PROVE TurnInv'
<1>1. TypeOK'
    BY DEF TurnInv, TypeOK, Open, Raised, Goto, Table, Final
<1>2. PassedOnce'
    BY DEF TurnInv, PassedOnce, Open, Raised, Goto, BeforeRun
<1>3. ValidInHand'
    BY DEF TurnInv, ValidInHand, Open, Raised, Goto, BeforeRun, Drafting
<1>4. WorksWhereAwaited'
    BY DEF TurnInv, WorksWhereAwaited, Open, Raised, Goto, Drafting, Working
<1>5. ResultInHand'
    BY DEF TurnInv, ResultInHand, Open, Raised, Goto, BeforeRun, AfterRun
<1>6. Reported'
    BY DEF TurnInv, Reported, Open, Raised, Goto, FrameIsOneRun, RowsKept,
           ReplacedByBetter, ResultInHand, BeforeRun
<1>7. OnlyValidRun'
    BY DEF TurnInv, OnlyValidRun, Open
<1> QED
    BY <1>1, <1>2, <1>3, <1>4, <1>5, <1>6, <1>7 DEF TurnInv

\* The plan is asked for.
LEMMA CheckPlanKeeps == ASSUME TurnInv, CheckPlan PROVE TurnInv'
<1>1. TypeOK'
  <2>1. job' = job \/ (job' \in Job /\ job' # NoJob)
      BY StopsAreTimes, GivenJob, HasStatement DEF TurnInv, BeforeRun, CheckPlan,
             Explain
  <2> QED
      BY <2>1 DEF TurnInv, TypeOK, CheckPlan, Goto, Explain
<1>2. PassedOnce'
    BY DEF TurnInv, PassedOnce, CheckPlan, Explain, Goto, TypeOK, BeforeRun
<1>3. ValidInHand'
    BY DEF TurnInv, ValidInHand, CheckPlan, Goto, BeforeRun, Drafting
<1>4. WorksWhereAwaited'
  <2>1. pc' \in Working => job' # NoJob
      BY StopsAreTimes, GivenJob, HasStatement DEF TurnInv, BeforeRun, CheckPlan,
             Explain, Goto, Working, Drafting
  <2> QED
      BY <2>1 DEF TurnInv, WorksWhereAwaited, CheckPlan, Goto, Explain, Working,
             Drafting
<1>5. ResultInHand'
    BY DEF TurnInv, ResultInHand, CheckPlan, Goto, BeforeRun, AfterRun
<1>6. Reported'
    BY DEF TurnInv, Reported, CheckPlan, Goto, FrameIsOneRun, RowsKept, ReplacedByBetter
<1>7. OnlyValidRun'
    BY DEF TurnInv, OnlyValidRun, CheckPlan, Explain, ValidInHand, BeforeRun
<1> QED
    BY <1>1, <1>2, <1>3, <1>4, <1>5, <1>6, <1>7 DEF TurnInv

\* The plan is read.
LEMMA PlanReadKeeps == ASSUME TurnInv, PlanRead PROVE TurnInv'
<1>1. TypeOK'
    BY DEF TurnInv, TypeOK, PlanRead, Goto, ModelCalls
<1>2. PassedOnce'
    BY DEF TurnInv, PassedOnce, PlanRead, Goto, TypeOK, BeforeRun
<1>3. ValidInHand'
    BY DEF TurnInv, ValidInHand, PlanRead, Goto, BeforeRun, Drafting
<1>4. WorksWhereAwaited'
    BY DEF WorksWhereAwaited, PlanRead, Goto, Drafting, Working
<1>5. ResultInHand'
    BY DEF TurnInv, ResultInHand, PlanRead, Goto, BeforeRun, AfterRun
<1>6. Reported'
    BY DEF TurnInv, Reported, PlanRead, Goto, FrameIsOneRun, RowsKept, ReplacedByBetter
<1>7. OnlyValidRun'
    BY DEF OnlyValidRun, PlanRead
<1> QED
    BY <1>1, <1>2, <1>3, <1>4, <1>5, <1>6, <1>7 DEF TurnInv

\* The model rewrites the statement for its plan.
LEMMA RewritePlanKeeps == ASSUME TurnInv, RewritePlan PROVE TurnInv'
<1>1. TypeOK'
    BY StopsAreTimes DEF TurnInv, TypeOK, RewritePlan, Explain, Goto, Job
<1>2. PassedOnce'
    BY DEF TurnInv, PassedOnce, RewritePlan, Explain, Goto, TypeOK, BeforeRun
<1>3. ValidInHand'
    BY DEF TurnInv, ValidInHand, RewritePlan, Goto, BeforeRun, Drafting
<1>4. WorksWhereAwaited'
  <2>1. pc' \in Working => job' # NoJob
      BY StopsAreTimes, GivenJob DEF TurnInv, RewritePlan, Explain, Goto, Working,
             Drafting
  <2> QED
      BY <2>1 DEF TurnInv, WorksWhereAwaited, RewritePlan, Goto, Explain, Working,
             Drafting
<1>5. ResultInHand'
    BY DEF TurnInv, ResultInHand, RewritePlan, Goto, BeforeRun, AfterRun
<1>6. Reported'
    BY DEF TurnInv, Reported, RewritePlan, Goto, FrameIsOneRun, RowsKept,
           ReplacedByBetter
<1>7. OnlyValidRun'
    BY DEF TurnInv, OnlyValidRun, RewritePlan, Explain, ValidInHand, BeforeRun
<1> QED
    BY <1>1, <1>2, <1>3, <1>4, <1>5, <1>6, <1>7 DEF TurnInv

\* The rewrite's plan is read.
LEMMA RewriteReadKeeps == ASSUME TurnInv, RewriteRead PROVE TurnInv'
<1>1. TypeOK'
  <2>1. result' \in [sql : Stmts \cup {NoStmt}, valid : BOOLEAN, attempts : 1..6]
      BY Counted, HasStatement DEF TurnInv, TypeOK, PassedOnce, RewriteRead, Drafting
  <2> QED
      BY <2>1 DEF TurnInv, TypeOK, RewriteRead, Goto
<1>2. PassedOnce'
    BY DEF TurnInv, PassedOnce, RewriteRead, Replaces, Goto, TypeOK, BeforeRun
<1>3. ValidInHand'
    BY DEF TurnInv, ValidInHand, RewriteRead, Replaces, Goto, BeforeRun, Drafting
<1>4. WorksWhereAwaited'
    BY DEF WorksWhereAwaited, RewriteRead, Goto, Drafting, Working
<1>5. ResultInHand'
    BY DEF TurnInv, ResultInHand, RewriteRead, Goto, BeforeRun, AfterRun
<1>6. Reported'
    BY DEF TurnInv, Reported, RewriteRead, Goto, FrameIsOneRun, RowsKept,
           ReplacedByBetter
<1>7. OnlyValidRun'
    BY DEF OnlyValidRun, RewriteRead
<1> QED
    BY <1>1, <1>2, <1>3, <1>4, <1>5, <1>6, <1>7 DEF TurnInv

\* The statement starts, or is too late.
LEMMA StartStatementKeeps == ASSUME TurnInv, StartStatement PROVE TurnInv'
<1>1. TypeOK'
  <2>1. job' = job \/ (job' \in Job /\ job' # NoJob)
      BY StopsAreTimes, GivenJob, HasStatement DEF TurnInv, BeforeRun, StartStatement,
             Run
  <2> QED
      BY <2>1 DEF TurnInv, TypeOK, StartStatement, Goto, Run, Raised, Table, PassedOnce,
             BeforeRun, Final
<1>2. PassedOnce'
    BY DEF TurnInv, PassedOnce, StartStatement, Raised, Run, Goto, Validated, BeforeRun
<1>3. ValidInHand'
    BY DEF TurnInv, ValidInHand, StartStatement, Raised, Goto, BeforeRun, Drafting
<1>4. WorksWhereAwaited'
  <2>1. pc' \in Working => job' # NoJob
      BY StopsAreTimes, GivenJob, HasStatement DEF TurnInv, BeforeRun, StartStatement,
             Run, Goto, Raised, Working, Drafting
  <2> QED
      BY <2>1 DEF TurnInv, WorksWhereAwaited, StartStatement, Goto, Run, Working,
             Drafting
<1>5. ResultInHand'
    BY DEF TurnInv, ResultInHand, StartStatement, Raised, Goto, BeforeRun, AfterRun
<1>6. Reported'
    BY DEF TurnInv, Reported, StartStatement, Raised, Goto, FrameIsOneRun, RowsKept,
           ReplacedByBetter, ResultInHand, BeforeRun
<1>7. OnlyValidRun'
    BY DEF TurnInv, OnlyValidRun, StartStatement, Run, ValidInHand, BeforeRun
<1> QED
    BY <1>1, <1>2, <1>3, <1>4, <1>5, <1>6, <1>7 DEF TurnInv

\* The database answers.
LEMMA StatementEndsKeeps == ASSUME TurnInv, StatementEnds PROVE TurnInv'
<1>1. TypeOK'
    BY DEF TurnInv, TypeOK, StatementEnds, Answers, Received, Raised, Goto, Table,
           Final, ModelCalls
<1>2. PassedOnce'
    BY DEF TurnInv, PassedOnce, StatementEnds, Raised, Goto, TypeOK, Validated,
           BeforeRun
<1>3. ValidInHand'
    BY DEF TurnInv, ValidInHand, StatementEnds, Raised, Goto, BeforeRun, Drafting
<1>4. WorksWhereAwaited'
    BY DEF WorksWhereAwaited, StatementEnds, Raised, Goto, Drafting, Working
<1>5. ResultInHand'
    BY DEF TurnInv, ResultInHand, StatementEnds, Answers, Received, Raised,
           RetryAfterError, Goto, WorksWhereAwaited, Validated, BeforeRun, AfterRun
<1>6. Reported'
    BY DEF TurnInv, Reported, StatementEnds, Raised, Goto, FrameIsOneRun, RowsKept,
           ReplacedByBetter, ResultInHand, BeforeRun
<1>7. OnlyValidRun'
    BY DEF OnlyValidRun, StatementEnds
<1> QED
    BY <1>1, <1>2, <1>3, <1>4, <1>5, <1>6, <1>7 DEF TurnInv

\* The model corrects what was refused.
LEMMA FixKeeps == ASSUME TurnInv, Fix PROVE TurnInv'
<1>1. TypeOK'
    BY StopsAreTimes DEF TurnInv, TypeOK, Fix, Run, Goto, Job, PassedOnce
<1>2. PassedOnce'
    BY DEF TurnInv, PassedOnce, Fix, Run, Goto, TypeOK, Validated, BeforeRun
<1>3. ValidInHand'
    BY DEF TurnInv, ValidInHand, Fix, Goto, AfterRun, Drafting
<1>4. WorksWhereAwaited'
  <2>1. pc' \in Working => job' # NoJob
      BY StopsAreTimes, GivenJob DEF TurnInv, Fix, Run, Goto, Working, Drafting
  <2> QED
      BY <2>1 DEF TurnInv, WorksWhereAwaited, Fix, Goto, Run, Working, Drafting
<1>5. ResultInHand'
    BY DEF TurnInv, ResultInHand, Fix, AfterRun
<1>6. Reported'
    BY DEF TurnInv, Reported, Fix, Goto, FrameIsOneRun, RowsKept, ReplacedByBetter
<1>7. OnlyValidRun'
    BY DEF TurnInv, OnlyValidRun, Fix, Run, ValidInHand, AfterRun
<1> QED
    BY <1>1, <1>2, <1>3, <1>4, <1>5, <1>6, <1>7 DEF TurnInv

\* The database answers the correction.
LEMMA FixEndsKeeps == ASSUME TurnInv, FixEnds PROVE TurnInv'
<1>1. TypeOK'
  <2>1. result' \in [sql : Stmts \cup {NoStmt}, valid : BOOLEAN, attempts : 1..6]
      BY Counted, HasStatement DEF TurnInv, TypeOK, PassedOnce, FixEnds, Drafting
  <2>2. qr' \in Result \cup {NoResult} /\ first' \in Result \cup {NoResult}
      BY DEF TurnInv, TypeOK, FixEnds, Answers, Received
  <2> QED
      BY <2>1, <2>2 DEF TurnInv, TypeOK, FixEnds, Goto
<1>2. PassedOnce'
    BY DEF TurnInv, PassedOnce, FixEnds, Replaces, Goto, TypeOK, Validated, BeforeRun
<1>3. ValidInHand'
    BY DEF TurnInv, ValidInHand, FixEnds, Replaces, Goto, AfterRun, Drafting
<1>4. WorksWhereAwaited'
    BY DEF WorksWhereAwaited, FixEnds, Goto, Drafting, Working
<1>5. ResultInHand'
  <2>1. pc = "refixing" /\ pc' = "look" /\ job.sql = draft /\ result'.sql \in {result.sql, draft}
      BY DEF TurnInv, FixEnds, Goto, Replaces, WorksWhereAwaited, Drafting
  <2>2. CASE UNCHANGED <<qr, first, result>>
      BY <2>1, <2>2 DEF TurnInv, ResultInHand, AfterRun
  <2>3. CASE \E r \in Answers : Received(r) /\ Replaces(draft)
    <3>1. PICK r \in Answers : Received(r) /\ Replaces(draft)
        BY <2>3
    <3>2. r \in Result /\ r # NoResult /\ r.sql = draft
        BY <2>1 DEF Answers
    <3>3. first = NoResult
        BY <2>1 DEF TurnInv, ResultInHand
    <3>4. qr' = r /\ first' = (IF r.outcome = "rows" THEN r ELSE NoResult)
        BY <3>1, <3>3 DEF Received
    <3>5. result'.sql = draft
        BY <3>1 DEF Replaces
    <3> QED
        BY <2>1, <3>2, <3>4, <3>5 DEF ResultInHand, Validated, BeforeRun
  <2> QED
      BY <2>2, <2>3 DEF FixEnds
<1>6. Reported'
    BY DEF TurnInv, Reported, FixEnds, Goto, FrameIsOneRun, RowsKept, ReplacedByBetter
<1>7. OnlyValidRun'
    BY DEF OnlyValidRun, FixEnds
<1> QED
    BY <1>1, <1>2, <1>3, <1>4, <1>5, <1>6, <1>7 DEF TurnInv

\* The result is looked at.
LEMMA LookKeeps == ASSUME TurnInv, Look PROVE TurnInv'
<1>1. TypeOK'
  <2>1. table' \in Table \cup {NoTable}
      BY ShownTable, HasStatement DEF TurnInv, TypeOK, Look, AfterRun
  <2> QED
      BY <2>1 DEF TurnInv, TypeOK, Look, Goto, Report, ModelCalls, Final
<1>2. PassedOnce'
    BY DEF TurnInv, PassedOnce, Look, Report, Goto, Validated, BeforeRun
<1>3. ValidInHand'
    BY DEF TurnInv, ValidInHand, Look, Report, Goto, AfterRun, Drafting
<1>4. WorksWhereAwaited'
    BY DEF TurnInv, WorksWhereAwaited, Look, Report, Goto, Drafting, Working
<1>5. ResultInHand'
    BY DEF TurnInv, ResultInHand, Look, Report, Goto, Validated, BeforeRun, AfterRun
<1>6. Reported'
    BY DEF TurnInv, Reported, Look, Report, Goto, FrameIsOneRun, RowsKept,
           ReplacedByBetter, ResultInHand, TypeOK, Table, AfterRun
<1>7. OnlyValidRun'
    BY DEF TurnInv, OnlyValidRun, Look
<1> QED
    BY <1>1, <1>2, <1>3, <1>4, <1>5, <1>6, <1>7 DEF TurnInv

\* The model corrects what looks wrong.
LEMMA AskLookKeeps == ASSUME TurnInv, AskLook PROVE TurnInv'
<1>1. TypeOK'
  <2>1. job' = job \/ job' \in Job
      BY StopsAreTimes, GivenJob DEF TurnInv, AskLook, Run
  <2>2. table' \in Table \cup {NoTable}
      BY ShownTable, HasStatement DEF TurnInv, TypeOK, AskLook, AfterRun
  <2>3. runs' \in 0..3 /\ draft' \in Stmts \cup {NoStmt}
      BY DEF TurnInv, TypeOK, AskLook, Run, PassedOnce
  <2>4. pc' \in {"done", "relooking"}
      BY DEF AskLook, Goto, Report
  <2> QED
      BY <2>1, <2>2, <2>3, <2>4 DEF TurnInv, TypeOK, AskLook, Final
<1>2. PassedOnce'
    BY DEF TurnInv, PassedOnce, AskLook, Report, Goto, Validated, BeforeRun
<1>3. ValidInHand'
    BY DEF TurnInv, ValidInHand, AskLook, Report, Goto, AfterRun, Drafting
<1>4. WorksWhereAwaited'
  <2>1. pc' \in Working => job' # NoJob
      BY StopsAreTimes, GivenJob DEF TurnInv, AskLook, Run, Goto, Report, Working,
             Drafting
  <2> QED
      BY <2>1 DEF TurnInv, WorksWhereAwaited, AskLook, Goto, Run, Working, Drafting
<1>5. ResultInHand'
    BY DEF TurnInv, ResultInHand, AskLook, Report, Goto, Validated, BeforeRun, AfterRun
<1>6. Reported'
    BY DEF TurnInv, Reported, AskLook, Report, Goto, FrameIsOneRun, RowsKept,
           ReplacedByBetter, ResultInHand, TypeOK, Table, AfterRun
<1>7. OnlyValidRun'
    BY DEF TurnInv, OnlyValidRun, AskLook, Run, ValidInHand, AfterRun
<1> QED
    BY <1>1, <1>2, <1>3, <1>4, <1>5, <1>6, <1>7 DEF TurnInv

\* The database answers the second correction.
LEMMA LookEndsKeeps == ASSUME TurnInv, LookEnds PROVE TurnInv'
<1>1. TypeOK'
  <2>1. result' \in [sql : Stmts \cup {NoStmt}, valid : BOOLEAN, attempts : 1..6]
      BY Counted, HasStatement DEF TurnInv, TypeOK, PassedOnce, LookEnds, Drafting
  <2>2. qr' \in Result \cup {NoResult} /\ first' \in Result \cup {NoResult}
      BY DEF TurnInv, TypeOK, LookEnds, Answers
  <2>3. table' \in Table \cup {NoTable}
      BY ShownTable, HasStatement DEF LookEnds, Answers, AfterRun
  <2> QED
      BY <2>1, <2>2, <2>3 DEF TurnInv, TypeOK, LookEnds, Goto, Report, Final
<1>2. PassedOnce'
    BY DEF PassedOnce, LookEnds, Report, Goto, Validated, BeforeRun
<1>3. ValidInHand'
    BY DEF TurnInv, ValidInHand, LookEnds, Replaces, Report, Goto, AfterRun, Drafting
<1>4. WorksWhereAwaited'
    BY DEF WorksWhereAwaited, LookEnds, Report, Goto, Drafting, Working
<1>5. ResultInHand'
    BY DEF ResultInHand, LookEnds, Report, Goto, Validated, BeforeRun, AfterRun
<1>6. Reported'
    BY DEF TurnInv, Reported, LookEnds, Answers, Better, Replaces, Report, Goto,
           FrameIsOneRun, RowsKept, ReplacedByBetter, ResultInHand, WorksWhereAwaited,
           TypeOK, Table, AfterRun, Drafting
<1>7. OnlyValidRun'
    BY DEF OnlyValidRun, LookEnds
<1> QED
    BY <1>1, <1>2, <1>3, <1>4, <1>5, <1>6, <1>7 DEF TurnInv

----------------------------------------------------------------------------
(* The specification.                                                      *)

\* Every step of a turn keeps the invariant.
LEMMA TurnKeeps == ASSUME TurnInv, [Next]_vars PROVE TurnInv'
<1>1. CASE Step
    BY <1>1, TurnFailsKeeps, GenerateKeeps, MendKeeps, RepairKeeps, GroundKeeps,
           RepairLiteralsKeeps, CheckGrainKeeps, RepairToPlanKeeps, ClearKeeps,
           OpenKeeps, CheckPlanKeeps, PlanReadKeeps, RewritePlanKeeps, RewriteReadKeeps,
           StartStatementKeeps, StatementEndsKeeps, FixKeeps, FixEndsKeeps, LookKeeps,
           AskLookKeeps, LookEndsKeeps DEF Step
<1>2. CASE UNCHANGED vars
    BY <1>2 DEF vars, TurnInv, TypeOK, PassedOnce, ValidInHand, WorksWhereAwaited,
           ResultInHand, Reported, FrameIsOneRun, RowsKept, ReplacedByBetter,
           OnlyValidRun
<1> QED
    BY <1>1, <1>2, TickKeeps, CancelKeeps, JobEndsUnseenKeeps DEF Next

\* The invariant of a turn, at every step of every behaviour.
THEOREM TurnInvariant == Spec => []TurnInv
<1>1. Init => TurnInv
    BY TurnStarts
<1>2. TurnInv /\ [Next]_vars => TurnInv'
    BY TurnKeeps
<1> QED
    BY <1>1, <1>2, PTL DEF Spec

\* A turn runs at most three statements and replaces one at most five times,
\* whatever the database refuses and the model answers.
THEOREM TurnTypeCorrect == Spec => []TypeOK
<1>1. TurnInv => TypeOK
    BY DEF TurnInv
<1> QED
    BY <1>1, TurnInvariant, PTL

\* The SQL a turn shows is the SQL behind the rows or the error beside it.
THEOREM FrameShowsItsRun == Spec => []FrameIsOneRun
<1>1. TurnInv => FrameIsOneRun
    BY DEF TurnInv, Reported
<1> QED
    BY <1>1, TurnInvariant, PTL

\* Nothing but a validated statement of a caller that may execute reaches the
\* database: no rewrite, correction or EXPLAIN either.
THEOREM OnlyValidRuns == Spec => []OnlyValidRun
<1>1. TurnInv => OnlyValidRun
    BY DEF TurnInv
<1> QED
    BY <1>1, TurnInvariant, PTL

\* Rows once received are shown, or rows that show more than they did.
THEOREM RowsNeverLost == Spec => [](RowsKept /\ ReplacedByBetter)
<1>1. TurnInv => RowsKept /\ ReplacedByBetter
    BY DEF TurnInv, Reported
<1> QED
    BY <1>1, TurnInvariant, PTL

\* The times of a turn are numbers, and its deadline lies ahead of its start.
LEMMA TimesOfTurn ==
    ASSUME TypeOK
    PROVE  now \in Nat /\ conf.timeout \in Nat /\ conf.deadline \in Nat \ {0}
BY ConfAssumption, TimeAssumption DEF TypeOK, Conf

\* A step that asks the model for a rewrite or a correction finds the time it
\* needs, the plan's and the grain's as the database's.
LEMMA AsksInTime ==
    ASSUME TurnInv, [Next]_vars, HasDeadline, pc \notin ModelCalls, pc' \in ModelCalls
    PROVE  now < conf.deadline /\ (pc' # "askLook" => conf.deadline - now >= now)
<1>1. CheckGrain \/ PlanRead \/ StatementEnds \/ Look
    BY
    DEF Next, Step, vars, ModelCalls, Final, Tick, Cancel, JobEndsUnseen, TurnFails, Generate,
       Mend,
           Repair, Ground, RepairLiterals, RepairToPlan, Clear, Open, CheckPlan, RewritePlan,
           RewriteRead, StartStatement, Fix, FixEnds, AskLook, LookEnds, Goto, Raised, Report
<1>2. CASE CheckGrain \/ PlanRead
    BY <1>2, TimesOfTurn DEF TurnInv, CheckGrain, PlanRead, Goto, ModelCalls, RoomForRewrite
<1>3. CASE StatementEnds
  <2>1. conf.deadline - now >= now
      BY <1>3 DEF StatementEnds, Goto, Raised, ModelCalls, RetryAfterError
  <2> QED
      BY <2>1, TimesOfTurn DEF TurnInv
<1>4. CASE Look
  <2>1. pc' = "askLook" /\ conf.deadline - now >= 1
      BY <1>4 DEF Look, Goto, Report, ModelCalls, LooksAgain, Runnable
  <2> QED
      BY <2>1, TimesOfTurn DEF TurnInv
<1> QED
    BY <1>1, <1>2, <1>3, <1>4

\* What is started after the model has been asked stops by the deadline.
LEMMA StopsByDeadline ==
    ASSUME TurnInv, [Next]_vars, job' \notin {job, NoJob}, HasDeadline,
           asked' \/ pc' # "running"
    PROVE  job'.stop <= conf.deadline
<1>1. ClampedStop \in Nat /\ ClampedStop <= conf.deadline
    BY TimesOfTurn, StopsAreTimes DEF TurnInv, ClampedStop, Sooner
<1>2. ExplainStop \in Nat /\ ExplainStop <= conf.deadline
    BY TimesOfTurn, StopsAreTimes, TimeAssumption DEF TurnInv, ExplainStop, Sooner
<1>3. CheckPlan \/ RewritePlan \/ StartStatement \/ Fix \/ AskLook
    BY
    DEF Next, Step, vars, dbVars, Tick, Cancel, JobEndsUnseen, TurnFails, Generate, Mend,
       Repair,
           Ground, RepairLiterals, CheckGrain, RepairToPlan, Clear, Open, PlanRead, RewriteRead,
           StatementEnds, FixEnds, Look, LookEnds
<1>4. CASE CheckPlan \/ RewritePlan
    BY <1>2, <1>4 DEF CheckPlan, RewritePlan, Explain
<1>5. CASE StartStatement \/ Fix \/ AskLook
    BY <1>1, <1>5 DEF StartStatement, Fix, AskLook, Run, Raised, Report, Goto
<1> QED
    BY <1>3, <1>4, <1>5

\* No correction is asked for after the deadline.
THEOREM CorrectionsInTime == Spec => NoLateCorrection
<1>1. TurnInv /\ [Next]_vars =>
          (pc \notin ModelCalls /\ pc' \in ModelCalls /\ HasDeadline => now < conf.deadline)
    BY AsksInTime
<1> QED
    BY <1>1, TurnInvariant, PTL DEF Spec, NoLateCorrection

\* A rewrite is asked for with as much time left as the turn has taken.
THEOREM RewritesInTime == Spec => RewritesHaveRoom
<1>1. TurnInv /\ [Next]_vars =>
          (pc \notin ModelCalls /\ pc' \in ModelCalls \ {"askLook"} /\ HasDeadline
               => conf.deadline - now >= now)
    BY AsksInTime
<1> QED
    BY <1>1, TurnInvariant, PTL DEF Spec, RewritesHaveRoom

\* Whatever a correction runs is stopped by the deadline at the latest.
THEOREM CorrectionsStopInTime == Spec => CorrectionsFit
<1>1. TurnInv /\ [Next]_vars =>
          (job' \notin {job, NoJob} /\ HasDeadline /\ (asked' \/ pc' # "running")
               => job'.stop <= conf.deadline)
    BY StopsByDeadline
<1> QED
    BY <1>1, TurnInvariant, PTL DEF Spec, CorrectionsFit

\* A correction begins and ends in time, for any deadline, timeouts and delays.
THEOREM CorrectionsAlwaysHaveRoom == Spec => CorrectionsHaveRoom
BY CorrectionsInTime, RewritesInTime, CorrectionsStopInTime DEF CorrectionsHaveRoom

----------------------------------------------------------------------------
(* AgentTurn: the choice comes first, and the write outlives the answer.   *)

\* Before the agents run there is nothing of theirs, and until one of the Answer
\* actions nothing of an answer.
NothingEarly ==
    /\ turnPc \in {"resolving", "lookup", "replaying", "routing"} =>
          sqlAgent = "idle" /\ docAgent = "idle" /\ sqlEnd = NoSql
    /\ turnPc \notin {"parsing", "draining", "exited"} => frame = NoFrame /\ task = "none"
    /\ turnPc \notin {"draining", "exited"} => agentResult = NoAgentResult

\* The route says which agents were set to work, an answer waits for them, and none
\* outlives the process.
AgentsOfRoute ==
    /\ turnPc = "answering" => /\ sqlAgent # "idle" <=> route \in {"sql", "hybrid"}
                               /\ docAgent # "idle" <=> route \in {"document", "hybrid"}
    /\ turnPc \in {"parsing", "draining", "exited"} => "running" \notin {sqlAgent, docAgent}

\* No process ends before the write it scheduled.
NoneLost == task # "lost" /\ (turnPc = "exited" => task # "scheduled")

\* The inductive invariant.
AnswerInv == TurnTypeOK /\ NothingEarly /\ AgentsOfRoute /\ NoneLost /\ ChoiceComesFirst

\* What an agent's final frame says of its statement.
LEMMA SqlEndsAre ==
    ASSUME NEW f \in SqlEnds(TRUE)
    PROVE  /\ f.sql \in {"none", "valid", "refused"} /\ f.table \in {"none", "rows", "error"}
           /\ f.choices \in BOOLEAN
<1>1. NoSql.sql = "none" /\ NoSql.table = "none" /\ NoSql.choices = FALSE
  BY DEF NoSql
<1> QED
  BY <1>1 DEF SqlEnds

\* Nothing has happened to a question just asked.
LEMMA AnswerStart == TurnInit => AnswerInv
<1>1. /\ NoFrame \in FinalFrames /\ NoAgentResult \in AgentResults /\ NoSql \in SqlEnds(TRUE)
      /\ {{"sql"}, {"document"}, Types} \subseteq SUBSET Types /\ "unclear" \in Routes
  BY DEF NoFrame, FinalFrames, NoAgentResult, AgentResults, SqlEnds, Types, Routes
<1>2. TurnInit => TurnTypeOK
  BY <1>1 DEF TurnInit, TurnTypeOK
<1>3. TurnInit => NothingEarly /\ AgentsOfRoute /\ NoneLost /\ ChoiceComesFirst
  BY DEF TurnInit, NothingEarly, AgentsOfRoute, NoneLost, ChoiceComesFirst, NoSql
<1> QED
  BY <1>2, <1>3 DEF AnswerInv

\* A follow-up is resolved.
LEMMA ResolveKeeps ==
    ASSUME AnswerInv, Resolve
    PROVE  AnswerInv'
<1>1. TurnTypeOK'
  BY DEF AnswerInv, TurnTypeOK, Resolve, inputs, agents, TurnTo, SqlEnds
<1>2. NothingEarly'
  BY DEF AnswerInv, NothingEarly, Resolve, agents
<1>3. AgentsOfRoute'
  BY DEF AgentsOfRoute, Resolve, TurnTo
<1>4. NoneLost'
  BY DEF AnswerInv, NoneLost, Resolve, TurnTo
<1>5. ChoiceComesFirst'
  BY DEF ChoiceComesFirst, Resolve, TurnTo
<1> QED
  BY <1>1, <1>2, <1>3, <1>4, <1>5 DEF AnswerInv

\* The cache is looked up.
LEMMA LookupKeeps ==
    ASSUME AnswerInv, Lookup
    PROVE  AnswerInv'
<1>1. TurnTypeOK'
  BY DEF AnswerInv, TurnTypeOK, Lookup, inputs, agents, TurnTo, SqlEnds
<1>2. NothingEarly'
  BY DEF AnswerInv, NothingEarly, Lookup, agents
<1>3. AgentsOfRoute'
  BY DEF AgentsOfRoute, Lookup, TurnTo
<1>4. NoneLost'
  BY DEF AnswerInv, NoneLost, Lookup, TurnTo
<1>5. ChoiceComesFirst'
  BY DEF ChoiceComesFirst, Lookup, TurnTo
<1> QED
  BY <1>1, <1>2, <1>3, <1>4, <1>5 DEF AnswerInv

\* A cached answer is replayed.
LEMMA ReplayKeeps ==
    ASSUME AnswerInv, Replay
    PROVE  AnswerInv'
<1>1. TurnTypeOK'
  <2>1. PICK shows \in {"none", "rows", "error"} :
          frame' = [type |-> IF hit = "template" THEN "sql" ELSE hit,
                    sql |-> hit \in {"sql", "template"}, valid |-> "absent", table |-> shows,
                    choices |-> FALSE, cached |-> TRUE]
    BY DEF Replay, NoFrame
  <2>2. frame' \in FinalFrames
    BY <2>1 DEF AnswerInv, TurnTypeOK, FinalFrames, Routes, Types
  <2> QED
    BY <2>2 DEF AnswerInv, TurnTypeOK, SqlEnds, inputs, agents, TurnTo, Replay
<1>2. NothingEarly'
  BY DEF AnswerInv, NothingEarly, Replay, TurnTo
<1>3. AgentsOfRoute'
  BY DEF AnswerInv, AgentsOfRoute, Replay, agents, TurnTo, NothingEarly
<1>4. NoneLost'
  BY DEF AnswerInv, NoneLost, Replay, TurnTo
<1>5. ChoiceComesFirst'
  BY DEF AnswerInv, ChoiceComesFirst, Replay, agents, NothingEarly, NoSql
<1> QED
  BY <1>1, <1>2, <1>3, <1>4, <1>5 DEF AnswerInv

\* A question is routed.
LEMMA RouteKeeps ==
    ASSUME AnswerInv, Route
    PROVE  AnswerInv'
<1>1. TurnTypeOK'
  BY DEF AnswerInv, TurnTypeOK, Route, Coerced, inputs, TurnTo, SqlEnds, Routes
<1>2. NothingEarly'
  BY DEF AnswerInv, NothingEarly, Route, TurnTo
<1>3. AgentsOfRoute'
  BY DEF AgentsOfRoute, Route, TurnTo
<1>4. NoneLost'
  BY DEF AnswerInv, NoneLost, Route, TurnTo
<1>5. ChoiceComesFirst'
  BY DEF ChoiceComesFirst, Route, TurnTo
<1> QED
  BY <1>1, <1>2, <1>3, <1>4, <1>5 DEF AnswerInv

\* The SQL agent ends.
LEMMA SqlEndKeeps ==
    ASSUME AnswerInv, SqlEnd
    PROVE  AnswerInv'
<1>1. TurnTypeOK'
  BY DEF AnswerInv, TurnTypeOK, SqlEnd, inputs, SqlEnds
<1>2. NothingEarly'
  BY DEF AnswerInv, NothingEarly, SqlEnd
<1>3. AgentsOfRoute'
  BY DEF AnswerInv, AgentsOfRoute, SqlEnd
<1>4. NoneLost'
  BY DEF AnswerInv, NoneLost, SqlEnd
<1>5. ChoiceComesFirst'
  BY DEF AnswerInv, ChoiceComesFirst, SqlEnd, AgentsOfRoute
<1> QED
  BY <1>1, <1>2, <1>3, <1>4, <1>5 DEF AnswerInv

\* The document agent ends.
LEMMA DocEndKeeps ==
    ASSUME AnswerInv, DocEnd
    PROVE  AnswerInv'
<1>1. TurnTypeOK'
  BY DEF AnswerInv, TurnTypeOK, DocEnd, inputs, SqlEnds
<1>2. NothingEarly'
  BY DEF AnswerInv, NothingEarly, DocEnd
<1>3. AgentsOfRoute'
  BY DEF AnswerInv, AgentsOfRoute, DocEnd
<1>4. NoneLost'
  BY DEF AnswerInv, NoneLost, DocEnd
<1>5. ChoiceComesFirst'
  BY DEF AnswerInv, ChoiceComesFirst, DocEnd
<1> QED
  BY <1>1, <1>2, <1>3, <1>4, <1>5 DEF AnswerInv

\* An agent's failure ends the turn.
LEMMA RaiseKeeps ==
    ASSUME AnswerInv, Raise
    PROVE  AnswerInv'
<1>1. TurnTypeOK'
  BY DEF AnswerInv, TurnTypeOK, Raise, inputs, agents, TurnTo, SqlEnds
<1>2. NothingEarly'
  BY DEF AnswerInv, NothingEarly, Raise, TurnTo
<1>3. AgentsOfRoute'
  BY DEF AgentsOfRoute, Raise, TurnTo
<1>4. NoneLost'
  BY DEF AnswerInv, NoneLost, Raise, TurnTo
<1>5. ChoiceComesFirst'
  BY DEF ChoiceComesFirst, Raise, TurnTo
<1> QED
  BY <1>1, <1>2, <1>3, <1>4, <1>5 DEF AnswerInv

\* The SQL agent's frame is the answer.
LEMMA AnswerSqlKeeps ==
    ASSUME AnswerInv, AnswerSql
    PROVE  AnswerInv'
<1>1. TurnTypeOK'
  <2>1. frame' \in FinalFrames
    BY SqlEndsAre DEF AnswerSql, SqlFrame, AnswerInv, TurnTypeOK, FinalFrames
  <2> QED
    BY <2>1 DEF AnswerInv, TurnTypeOK, SqlEnds, inputs, agents, TurnTo, AnswerSql
<1>2. NothingEarly'
  BY DEF AnswerInv, NothingEarly, AnswerSql, TurnTo
<1>3. AgentsOfRoute'
  BY DEF AnswerInv, AgentsOfRoute, AnswerSql, agents
<1>4. NoneLost'
  BY DEF AnswerInv, NoneLost, AnswerSql, TurnTo
<1>5. ChoiceComesFirst'
  BY DEF AnswerInv, ChoiceComesFirst, AnswerSql, SqlFrame, CachesTurn, NoAgentResult,
         agents, TurnTypeOK, NothingEarly, SqlEnds, NoSql
<1> QED
  BY <1>1, <1>2, <1>3, <1>4, <1>5 DEF AnswerInv

\* The document agent's answer is the answer.
LEMMA AnswerDocumentKeeps ==
    ASSUME AnswerInv, AnswerDocument
    PROVE  AnswerInv'
<1>1. TurnTypeOK'
  <2>1. frame' \in FinalFrames
    BY DEF AnswerDocument, NoFrame, AnswerInv, TurnTypeOK, FinalFrames
  <2> QED
    BY <2>1 DEF AnswerInv, TurnTypeOK, SqlEnds, inputs, agents, TurnTo, AnswerDocument
<1>2. NothingEarly'
  BY DEF AnswerInv, NothingEarly, AnswerDocument, TurnTo
<1>3. AgentsOfRoute'
  BY DEF AnswerInv, AgentsOfRoute, AnswerDocument, agents
<1>4. NoneLost'
  BY DEF AnswerInv, NoneLost, AnswerDocument, TurnTo
<1>5. ChoiceComesFirst'
  BY DEF AnswerInv, ChoiceComesFirst, AnswerDocument, NoFrame, NoAgentResult,
         NothingEarly
<1> QED
  BY <1>1, <1>2, <1>3, <1>4, <1>5 DEF AnswerInv

\* Both agents' results are merged.
LEMMA AnswerHybridKeeps ==
    ASSUME AnswerInv, AnswerHybrid
    PROVE  AnswerInv'
<1>1. TurnTypeOK'
  <2>1. Merged \in {"none", "rows", "statement"} /\ sqlEnd.choices \in BOOLEAN
    BY SqlEndsAre DEF AnswerInv, TurnTypeOK, Merged, Extracted
  <2>2. [type |-> "hybrid", sql |-> sqlEnd.sql # "none", valid |-> "absent", table |-> Merged,
         choices |-> sqlEnd.choices, cached |-> FALSE] \in FinalFrames
    BY <2>1 DEF FinalFrames, Routes, Types
  <2>3. frame' \in FinalFrames
    BY <2>2 DEF AnswerInv, TurnTypeOK, AnswerHybrid
  <2> QED
    BY <2>3 DEF AnswerInv, TurnTypeOK, SqlEnds, inputs, agents, TurnTo, AnswerHybrid
<1>2. NothingEarly'
  BY DEF AnswerInv, NothingEarly, AnswerHybrid, TurnTo
<1>3. AgentsOfRoute'
  BY DEF AgentsOfRoute, AnswerHybrid, agents
<1>4. NoneLost'
  BY DEF AnswerInv, NoneLost, AnswerHybrid, TurnTo
<1>5. ChoiceComesFirst'
  BY DEF AnswerInv, ChoiceComesFirst, AnswerHybrid, Merged, NoAgentResult, agents,
         NothingEarly
<1> QED
  BY <1>1, <1>2, <1>3, <1>4, <1>5 DEF AnswerInv

\* Nothing was asked that an agent answers.
LEMMA AnswerUnclearKeeps ==
    ASSUME AnswerInv, AnswerUnclear
    PROVE  AnswerInv'
<1>1. TurnTypeOK'
  <2>1. frame' \in FinalFrames
    BY DEF AnswerUnclear, NoFrame, AnswerInv, TurnTypeOK, FinalFrames
  <2> QED
    BY <2>1 DEF AnswerInv, TurnTypeOK, SqlEnds, inputs, agents, TurnTo, AnswerUnclear
<1>2. NothingEarly'
  BY DEF AnswerInv, NothingEarly, AnswerUnclear, TurnTo
<1>3. AgentsOfRoute'
  BY DEF AnswerInv, AgentsOfRoute, AnswerUnclear, agents
<1>4. NoneLost'
  BY DEF AnswerInv, NoneLost, AnswerUnclear, TurnTo
<1>5. ChoiceComesFirst'
  BY DEF AnswerInv, ChoiceComesFirst, AnswerUnclear, NoFrame, NoAgentResult,
         NothingEarly
<1> QED
  BY <1>1, <1>2, <1>3, <1>4, <1>5 DEF AnswerInv

\* The frame is read.
LEMMA ParseKeeps ==
    ASSUME AnswerInv, Parse
    PROVE  AnswerInv'
<1>1. TurnTypeOK'
  <2>1. agentResult' \in AgentResults
    BY DEF AnswerInv, TurnTypeOK, Parse, FinalFrames, AgentResults
  <2> QED
    BY <2>1 DEF AnswerInv, TurnTypeOK, SqlEnds, inputs, agents, TurnTo, Parse
<1>2. NothingEarly'
  BY DEF NothingEarly, Parse, TurnTo
<1>3. AgentsOfRoute'
  BY DEF AnswerInv, AgentsOfRoute, Parse, agents, TurnTo
<1>4. NoneLost'
  BY DEF AnswerInv, NoneLost, Parse, TurnTo
<1>5. ChoiceComesFirst'
  BY DEF AnswerInv, ChoiceComesFirst, Parse, agents
<1> QED
  BY <1>1, <1>2, <1>3, <1>4, <1>5 DEF AnswerInv

\* The cache write runs.
LEMMA WriteRunsKeeps ==
    ASSUME AnswerInv, WriteRuns
    PROVE  AnswerInv'
<1>1. TurnTypeOK'
  BY DEF AnswerInv, TurnTypeOK, WriteRuns, inputs, agents, SqlEnds
<1>2. NothingEarly'
  BY DEF AnswerInv, NothingEarly, WriteRuns
<1>3. AgentsOfRoute'
  BY DEF AnswerInv, AgentsOfRoute, WriteRuns, agents
<1>4. NoneLost'
  BY DEF NoneLost, WriteRuns
<1>5. ChoiceComesFirst'
  BY DEF AnswerInv, ChoiceComesFirst, WriteRuns, agents
<1> QED
  BY <1>1, <1>2, <1>3, <1>4, <1>5 DEF AnswerInv

\* The process ends.
LEMMA ExitKeeps ==
    ASSUME AnswerInv, Exit
    PROVE  AnswerInv'
<1>1. TurnTypeOK'
  BY DEF AnswerInv, TurnTypeOK, Exit, inputs, TurnTo
<1>2. NothingEarly'
  BY DEF NothingEarly, Exit, TurnTo
<1>3. AgentsOfRoute'
  BY DEF AgentsOfRoute, Exit, TurnTo
<1>4. NoneLost'
  BY DEF AnswerInv, NoneLost, Exit, Drained, NothingEarly
<1>5. ChoiceComesFirst'
  BY DEF AnswerInv, ChoiceComesFirst, Exit, NothingEarly, NoFrame, NoAgentResult
<1> QED
  BY <1>1, <1>2, <1>3, <1>4, <1>5 DEF AnswerInv

\* What a turn shows, schedules and leaves running, at every step of it.
THEOREM AnswerInvariant == TurnSpec => []AnswerInv
<1>1. TurnInit => AnswerInv
  BY AnswerStart
<1>2. AnswerInv /\ [TurnNext]_turnVars => AnswerInv'
  <2>1. ASSUME AnswerInv, UNCHANGED turnVars PROVE AnswerInv'
    BY <2>1 DEF turnVars, AnswerInv, TurnTypeOK, NothingEarly, AgentsOfRoute, NoneLost,
       ChoiceComesFirst, SqlEnds
  <2> QED
    BY <2>1, ResolveKeeps, LookupKeeps, ReplayKeeps, RouteKeeps, SqlEndKeeps, DocEndKeeps,
       RaiseKeeps, AnswerSqlKeeps, AnswerDocumentKeeps, AnswerHybridKeeps, AnswerUnclearKeeps,
       ParseKeeps, WriteRunsKeeps, ExitKeeps
    DEF TurnNext
<1> QED
  BY <1>1, <1>2, PTL DEF TurnSpec

\* The offered types, whatever an embedder offers, and the frames of an agent.
THEOREM AnswerTypeCorrect == TurnSpec => []TurnTypeOK
<1>1. AnswerInv => TurnTypeOK
  BY DEF AnswerInv
<1> QED
  BY <1>1, AnswerInvariant, PTL

\* While values wait for the user to choose, nothing that looks like an answer is
\* shown and nothing is cached, whichever agents took part and whichever failed.
THEOREM ChoiceAlwaysFirst == TurnSpec => []ChoiceComesFirst
<1>1. AnswerInv => ChoiceComesFirst
  BY DEF AnswerInv
<1> QED
  BY <1>1, AnswerInvariant, PTL

\* No process ends before the cache write its answer scheduled.
THEOREM WritesOutlive == TurnSpec => []WriteOutlivesAnswer
<1>1. AnswerInv => WriteOutlivesAnswer
  BY DEF AnswerInv, NoneLost, WriteOutlivesAnswer
<1> QED
  BY <1>1, AnswerInvariant, PTL

----------------------------------------------------------------------------
(* McpServing: grants decide.                                              *)

\* A server that runs was not refused, and decides as its setup says.
AsSetUp ==
    server # NoServer =>
        /\ ~StartRefused(setup)
        /\ server.authorizer = Authorizer(setup)

\* A call reaches a server with a token its verifier lets through, and over HTTP
\* where the server listens there; what came of it is the server's answer.
CallsAnswered ==
    /\ toolCall # NoToolCall => server # NoServer /\ toolCall.token \in Tokens
    /\ done # "none" => toolCall # NoToolCall /\ done = Answer(toolCall)

\* The inductive invariant.
ServingInv == ServingTypeOK /\ AsSetUp /\ CallsAnswered

\* Before the server starts nothing is called.
LEMMA ServingStart == ServingInit => ServingInv
BY DEF ServingInit, ServingInv, ServingTypeOK, AsSetUp, CallsAnswered, NoServer

\* A server that starts takes the authorizer its setup calls for.
LEMMA StartKeeps == ASSUME ServingInv, Start PROVE ServingInv'
<1>1. PICK file \in GrantFiles \cup {{}} :
        server' = [authorizer |-> Authorizer(setup), grants |-> file]
  BY DEF Start
<1>2. Authorizer(setup) \in {"allowlist", "allow all", "local"}
  BY DEF Authorizer
<1>3. ServingTypeOK'
  BY <1>1, <1>2 DEF Start, ServingInv, ServingTypeOK
<1>4. AsSetUp'
  BY <1>1 DEF Start, AsSetUp
<1>5. CallsAnswered'
  BY DEF Start, ServingInv, CallsAnswered
<1> QED BY <1>3, <1>4, <1>5 DEF ServingInv

\* A call that arrives has a token the verifier lets through.
LEMMA ArrivesKeeps == ASSUME ServingInv, Arrives PROVE ServingInv'
<1>1. toolCall' \in ToolCalls /\ toolCall'.token \in Tokens
  BY DEF Arrives, ToolCalls, Tokens
<1>2. ServingTypeOK'
  BY <1>1 DEF Arrives, ServingInv, ServingTypeOK
<1>3. AsSetUp'
  BY DEF Arrives, ServingInv, AsSetUp, StartRefused, Authorizer
<1>4. CallsAnswered'
  BY <1>1 DEF Arrives, ServingInv, CallsAnswered, Tokens
<1> QED BY <1>2, <1>3, <1>4 DEF ServingInv

\* What a call comes to is the answer of the server that runs.
LEMMA CallKeeps == ASSUME ServingInv, Call PROVE ServingInv'
<1>1. Answer(toolCall) \in {"denied", "refused", "ran", "ran, naming agents"}
  BY DEF Answer
<1>2. PrincipalOf(toolCall) \in Subjects \cup {Anonymous, Operator}
  BY DEF PrincipalOf, Call, ServingInv, ServingTypeOK, ToolCalls
<1>3. ServingTypeOK'
  <2>1. \A e \in trail' : e.principal = PrincipalOf(toolCall)
    BY DEF Call
  <2> QED BY <1>1, <1>2, <2>1 DEF Call, ServingInv, ServingTypeOK
<1>4. AsSetUp'
  BY DEF Call, ServingInv, AsSetUp
<1>5. Answer(toolCall)' = Answer(toolCall)
  BY DEF Call, Answer, Decide, Authorize, PrincipalOf, ShowsAgents
<1>6. CallsAnswered'
  BY <1>1, <1>5 DEF Call, ServingInv, CallsAnswered, Tokens
<1> QED BY <1>3, <1>4, <1>6 DEF ServingInv

\* A call that returned leaves the server as it was.
LEMMA ReturnedKeeps == ASSUME ServingInv, Returned PROVE ServingInv'
BY DEF Returned, ServingInv, ServingTypeOK, AsSetUp, CallsAnswered

\* The invariant holds of every server, its calls and its audit trail.
THEOREM ServingInvariant == ServingSpec => []ServingInv
<1>1. ServingInit => ServingInv
  BY ServingStart
<1>2. ServingInv /\ [ServingNext]_servingVars => ServingInv'
  <2>1. ASSUME ServingInv, UNCHANGED servingVars PROVE ServingInv'
    BY <2>1
    DEF servingVars, ServingInv, ServingTypeOK, AsSetUp, CallsAnswered, Tokens, Answer, Decide,
       Authorize, PrincipalOf, ShowsAgents
  <2> QED BY <2>1, StartKeeps, ArrivesKeeps, CallKeeps, ReturnedKeeps DEF ServingNext
<1> QED BY <1>1, <1>2, PTL DEF ServingSpec

\* A call that came over HTTP is nobody's unless its token says whose it is, and the
\* owner of the process is nobody's subject.
LEMMA GrantsDecide ==
    ASSUME ServingInv, toolCall # NoToolCall, toolCall.http,
           NEW action, NEW agent, Authorize(PrincipalOf(toolCall), action, agent)
    PROVE  \/ setup.open /\ Verifier(setup) = "none" /\ Networked(setup)
           \/ \E g \in server.grants : g.subject = toolCall.token /\ Covers(g, action, agent)
<1>1. /\ ~StartRefused(setup) /\ server.authorizer = Authorizer(setup)
      /\ toolCall.token \in Tokens
  BY DEF ServingInv, AsSetUp, CallsAnswered
<1>2. CASE Authenticated(setup)
  <2>1. PrincipalOf(toolCall) = toolCall.token
    BY <1>1, <1>2, ServingAssumption DEF Tokens, PrincipalOf
  <2> QED BY <1>1, <1>2, <2>1 DEF Authorizer, Authorize
<1>3. CASE ~Authenticated(setup) /\ Networked(setup)
  BY <1>1, <1>3 DEF StartRefused, Authenticated, Verifier
<1>4. CASE ~Networked(setup)
  <2>1. PrincipalOf(toolCall) = Anonymous
    BY <1>1, <1>4 DEF Tokens, Authenticated, PrincipalOf
  <2> QED BY <1>1, <1>4, <2>1, ServingAssumption DEF Authorizer, Authenticated, Authorize
<1> QED BY <1>2, <1>3, <1>4

\* What a grant of its subject covers is permitted to that subject.
LEMMA CoveredIsPermitted ==
    ASSUME NEW subject, NEW action \in Actions, NEW agent \in Agents \cup {"none"},
           NEW g \in server.grants, g.subject = subject, Covers(g, action, agent)
    PROVE  <<action, agent>> \in PermittedTo(subject)
<1>1. action \in OrAll(g.actions, Actions) /\ agent \in OrAll(g.agents, Agents) \cup {"none"}
  BY DEF Covers, OrAll
<1>2. <<action, agent>> \in Permits(g)
  BY <1>1 DEF Permits
<1> QED BY <1>2 DEF PermittedTo

\* A call over HTTP runs only under one grant of its token's subject, unless the operator
\* opened a server without a verifier: the run's OnlyAsGranted, for any grants.
THEOREM GrantsAlwaysDecide == ServingSpec => []OnlyAsGranted
<1>1. ServingInv => OnlyAsGranted
  <2> SUFFICES ASSUME ServingInv, Ran, toolCall.http,
                      ~(setup.open /\ Verifier(setup) = "none" /\ Networked(setup))
               PROVE  /\ <<toolCall.action, toolCall.agent>> \in PermittedTo(toolCall.token)
                      /\ done = "ran, naming agents" =>
                            <<"agents:list", "none">> \in PermittedTo(toolCall.token)
    BY DEF OnlyAsGranted
  <2>1. /\ toolCall # NoToolCall /\ done = Answer(toolCall)
        /\ toolCall.action \in Actions /\ toolCall.agent \in Agents \cup {"none"}
    BY DEF ServingInv, ServingTypeOK, ToolCalls, CallsAnswered, Ran
  <2>2. Authorize(PrincipalOf(toolCall), toolCall.action, toolCall.agent)
    BY <2>1 DEF Answer, Decide, Ran
  <2>3. PICK g \in server.grants :
          g.subject = toolCall.token /\ Covers(g, toolCall.action, toolCall.agent)
    BY <2>1, <2>2, GrantsDecide
  <2>4. CASE done = "ran, naming agents" /\ ShowsAgents(toolCall)
    <3>1. \E h \in server.grants : h.subject = toolCall.token /\ Covers(h, "agents:list", "none")
      BY <2>1, <2>4, GrantsDecide DEF ShowsAgents
    <3> QED BY <2>1, <2>3, <3>1, CoveredIsPermitted DEF Actions, Agentless
  <2>5. CASE done = "ran, naming agents" /\ ~ShowsAgents(toolCall)
    <3>1. toolCall.action = "agents:list"
      BY <2>1, <2>5 DEF Answer
    <3>2. Covers(g, "agents:list", "none")
      BY <2>3, <3>1 DEF Covers
    <3> QED BY <2>1, <2>3, <3>2, CoveredIsPermitted DEF Actions, Agentless
  <2> QED BY <2>1, <2>3, <2>4, <2>5, CoveredIsPermitted
<1> QED BY <1>1, ServingInvariant, PTL

----------------------------------------------------------------------------
(* What the components of a question promise together.                     *)

\* No row, correction or cache write a turn has is lost on its way out.
THEOREM NothingIsLost == Spec /\ TurnSpec => []NothingLost
<1>1. Spec => []RowsKept /\ []ReplacedByBetter
  BY RowsNeverLost
<1>2. RowsKept /\ ReplacedByBetter /\ WriteOutlivesAnswer => NothingLost
  BY DEF NothingLost
<1> QED
  BY <1>1, <1>2, WritesOutlive, PTL

\* Whatever the model writes, however its reply is cut into tokens and whatever providers
\* are configured, its reply can be used.
THEOREM RepliesAlwaysUsable == StreamSpec /\ RouteSpec => []RepliesUsable
<1>1. SplitAsWritten /\ FastTierWorks => RepliesUsable
  BY DEF RepliesUsable
<1> QED
  BY <1>1, SplitsAsWritten, FastTierAlwaysWorks, PTL

\* No prompt and no tool call goes where the operator did not allow it.
THEOREM NothingGoesAstray == RouteSpec /\ ServingSpec => []OnlyWhereAllowed
<1>1. PromptStaysHome /\ OnlyAsGranted => OnlyWhereAllowed
  BY DEF OnlyWhereAllowed
<1> QED
  BY <1>1, PromptsStayHome, GrantsAlwaysDecide, PTL

----------------------------------------------------------------------------
(* ExampleSearch: nothing is shown that is not the agent's own.            *)

\* What is chosen of a sequence is in it and is what was asked for.
LEMMA ThoseAreOf ==
    ASSUME NEW D, NEW s \in Seq(D), NEW hits
    PROVE  Those(s, hits) \in Seq(D \cap hits)
<1> DEFINE n == Len(s)
           V == Seq(D \cap hits)
           g == [p \in V \X D |-> IF p[2] \in hits THEN Append(p[1], p[2]) ELSE p[1]]
           F(i) == [t \in SUBSET DOMAIN s |->
                      IF t = {} THEN <<>>
                      ELSE IF s[Max(t)] \in hits THEN Append(i[t \ {Max(t)}], s[Max(t)])
                                                 ELSE i[t \ {Max(t)}]]
           iter == CHOOSE i : i = F(i)
<1>1. n \in Nat /\ s \in [1 .. n -> D] /\ DOMAIN s = 1 .. n
  OBVIOUS
<1>2. g \in [V \X D -> V]
  <2>1. \A kept \in V, p \in D : p \in hits => Append(kept, p) \in V
    OBVIOUS
  <2> QED
    BY <2>1
<1>3. <<>> \in V
  OBVIOUS
<1>4. \A kept \in V, p \in D : g[<<kept, p>>] = IF p \in hits THEN Append(kept, p) ELSE kept
  OBVIOUS
<1>5. \A t \in SUBSET (1 .. n) : t # {} => s[Max(t)] \in D
  BY <1>1, GreatestIsIn
<1>6. iter = F(iter)
  <2>1. PICK h : LeftFold(h, n, s, V, <<>>, g)
    <3> HIDE DEF n, V, g
    <3> QED
      BY <1>1, <1>2, <1>3, FoldLeftExists
  <2>2. h = F(h)
    <3>1. h \in [SUBSET (1 .. n) -> V]
      BY <2>1 DEF LeftFold
    <3>2. ASSUME NEW t \in SUBSET (1 .. n), t # {}
          PROVE  h[t] = IF s[Max(t)] \in hits THEN Append(h[t \ {Max(t)}], s[Max(t)])
                                              ELSE h[t \ {Max(t)}]
      <4>1. h[t] = g[<<h[t \ {Max(t)}], s[Max(t)]>>]
        BY <2>1, <3>2 DEF LeftFold
      <4>2. h[t \ {Max(t)}] \in V /\ s[Max(t)] \in D
        BY <1>5, <3>1, <3>2
      <4> HIDE DEF g, V
      <4> QED
        BY <1>4, <4>1, <4>2
    <3>3. h[{}] = <<>>
      BY <2>1 DEF LeftFold
    <3> HIDE DEF g, V
    <3> QED
      BY <1>1, <3>1, <3>2, <3>3
  <2> QED
    BY <2>2
<1>7. Those(s, hits) = iter[1 .. n]
  BY <1>1 DEF Those, FoldLeft, MapThenFoldSet
<1>8. RunsTo(iter[1 .. n], n, s, V, <<>>, g)
  <2> HIDE DEF iter
  <2>1. iter[{}] = <<>>
    BY <1>6
  <2>2. ASSUME NEW t \in SUBSET (1 .. n), t # {}, iter[t \ {Max(t)}] \in V
        PROVE  iter[t] = g[<<iter[t \ {Max(t)}], s[Max(t)]>>]
    <3>1. iter[t] = IF s[Max(t)] \in hits THEN Append(iter[t \ {Max(t)}], s[Max(t)])
                                          ELSE iter[t \ {Max(t)}]
      BY <1>1, <1>6, <2>2
    <3> HIDE DEF g, V
    <3> QED
      BY <1>4, <1>5, <2>2, <3>1
  <2>3. Recurs(iter, n, s, V, <<>>, g)
    <3> HIDE DEF n, V, g
    <3> QED
      BY <2>1, <2>2 DEF Recurs
  <2> HIDE DEF n, V, g
  <2> QED
    BY ONLY <1>1, <1>2, <1>3, <2>3, FoldLeftRuns
<1>9. iter[1 .. n] \in V
  <2> HIDE DEF V, g, n
  <2> QED
    BY <1>1, <1>8 DEF FoldRun, RunsTo
<1> QED
  BY <1>7, <1>9

\* The points of a store that are signed for the agent and near by their own text.
GoodOf(store) == {p \in ToSet(store) : p.kind = "good"}

\* A store lists points by their place.
LEMMA StoreFits ==
    ASSUME NEW store \in Stores
    PROVE  /\ store \in Seq(Point) /\ Len(store) \in 0 .. MaxHits
           /\ \A p \in ToSet(store) : p \in Point /\ store[p.id] = p
<1> DEFINE StoresOf(n) == {[i \in 1 .. n |-> [id |-> i, kind |-> kinds[i]]] : kinds \in [1 .. n -> Kinds]}
<1>a. PICK n \in 0 .. MaxHits : store \in StoresOf(n)
  <2>1. Stores = UNION {StoresOf(n) : n \in 0 .. MaxHits}
    BY DEF Stores
  <2> HIDE DEF StoresOf
  <2> QED
    BY <2>1
<1>1. PICK kinds \in [1 .. n -> Kinds] : store = [i \in 1 .. n |-> [id |-> i, kind |-> kinds[i]]]
  BY <1>a
<1> HIDE DEF StoresOf
<1>2. n \in Nat /\ MaxHits \in Nat
  BY ExampleAssumption
<1>3. \A i \in 1 .. n : [id |-> i, kind |-> kinds[i]] \in Point
  BY <1>2 DEF Point
<1>4. store \in [1 .. n -> Point]
  BY <1>1, <1>3
<1>5. store \in Seq(Point) /\ Len(store) = n /\ DOMAIN store = 1 .. n
  BY <1>2, <1>4
<1>6. \A i \in 1 .. n : store[i].id = i
  BY <1>1
<1> QED
  BY <1>5, <1>6 DEF ToSet

\* A good point is the one at its place in its store.
LEMMA GoodIsInPlace ==
    ASSUME NEW store \in Stores, NEW p \in GoodOf(store)
    PROVE  p.id \in 1 .. MaxHits /\ store[p.id].kind = "good"
<1>1. p \in ToSet(store) /\ p.kind = "good"
  BY DEF GoodOf
<1>2. p \in Point /\ store[p.id] = p
  BY <1>1, StoreFits
<1> QED
  BY <1>1, <1>2 DEF Point

\* The first of a sequence are a sequence of the same.
LEMMA FirstIsOf ==
    ASSUME NEW D, NEW s \in Seq(D), NEW n \in Int
    PROVE  First(n, s) \in Seq(D)
<1>1. IF Len(s) < n THEN Len(s) \in 0 .. Len(s) ELSE n <= Len(s)
  OBVIOUS
<1> QED
  BY DEF First

\* Cut into batches, a sequence gives sequences of the same.
LEMMA BatchesAreOf ==
    ASSUME NEW D, NEW s \in Seq(D), NEW k \in Nat \ {0}
    PROVE  Batches(s, k) \in Seq(Seq(D))
<1>1. (Len(s) + k - 1) \div k \in Nat
  OBVIOUS
<1>2. \A b \in 1 .. (Len(s) + k - 1) \div k :
         SubSeq(s, (b - 1) * k + 1, IF b * k < Len(s) THEN b * k ELSE Len(s)) \in Seq(D)
  <2> TAKE b \in 1 .. (Len(s) + k - 1) \div k
  <2> DEFINE from == (b - 1) * k + 1
             to == IF b * k < Len(s) THEN b * k ELSE Len(s)
  <2>1. from \in Int /\ to \in Int /\ from >= 1 /\ to <= Len(s)
    <3>1. b \in Nat \ {0} /\ k \in Nat
      BY <1>1
    <3>2. (b - 1) * k \in Nat /\ b * k \in Nat
      BY ONLY <3>1
    <3> QED
      BY <3>2
  <2> HIDE DEF from, to
  <2>2. SubSeq(s, from, to) \in Seq(D)
    BY <2>1
  <2> QED
    BY <2>2 DEF from, to
<1> DEFINE many == (Len(s) + k - 1) \div k
           part(b) == SubSeq(s, (b - 1) * k + 1, IF b * k < Len(s) THEN b * k ELSE Len(s))
           E == Seq(D)
<1>3. many \in Nat /\ \A b \in 1 .. many : part(b) \in E
  BY <1>1, <1>2
<1>4. [b \in 1 .. many |-> part(b)] \in Seq(E)
  <2> HIDE DEF many, part, E
  <2> QED
    BY <1>3
<1> QED
  BY <1>4 DEF Batches

\* What the confirmation of batches has at any time.
Confirming(D) == [kept : Seq(D), batch : Int, stopped : BOOLEAN]

\* Confirming a batch adds to what is kept only points that match by their own text.
LEMMA ConfirmKeeps ==
    ASSUME NEW D, NEW acc \in Confirming(D \cap OwnText), NEW batch \in Seq(D), NEW k, NEW failsAt
    PROVE  Confirm(acc, batch, k, failsAt) \in Confirming(D \cap OwnText)
<1>1. Those(batch, OwnText) \in Seq(D \cap OwnText)
  BY ThoseAreOf
<1> DEFINE E == D \cap OwnText
<1> HIDE DEF E
<1>2. acc.kept \in Seq(E) /\ acc.batch \in Int
  BY DEF Confirming, E
<1>3. acc.kept \o Those(batch, OwnText) \in Seq(E) /\ acc.batch + 1 \in Int
  BY <1>1, <1>2 DEF E
<1>4. acc \in Confirming(E)
  BY DEF E
<1>5. Confirm(acc, batch, k, failsAt) \in Confirming(E)
  BY <1>3, <1>4 DEF Confirm, Confirming
<1> QED
  BY <1>5 DEF E

\* What is confirmed of signed capsules is near by its own text.
LEMMA ConfirmedAreOf ==
    ASSUME NEW D, NEW s \in Seq(Seq(D)), NEW k, NEW failsAt
    PROVE  Confirmed(s, k, failsAt) \in Seq(D \cap OwnText)
<1> DEFINE n == Len(s)
           V == Confirming(D \cap OwnText)
           base == [kept |-> <<>>, batch |-> 1, stopped |-> FALSE]
           g == [p \in V \X Seq(D) |-> Confirm(p[1], p[2], k, failsAt)]
           F(i) == [t \in SUBSET DOMAIN s |->
                      IF t = {} THEN base ELSE Confirm(i[t \ {Max(t)}], s[Max(t)], k, failsAt)]
           iter == CHOOSE i : i = F(i)
<1>1. n \in Nat /\ s \in [1 .. n -> Seq(D)] /\ DOMAIN s = 1 .. n
  OBVIOUS
<1>2. g \in [V \X Seq(D) -> V]
  BY ConfirmKeeps
<1>3. base \in V
  BY DEF Confirming
<1>4. \A acc \in V, batch \in Seq(D) : g[<<acc, batch>>] = Confirm(acc, batch, k, failsAt)
  OBVIOUS
<1>5. \A t \in SUBSET (1 .. n) : t # {} => s[Max(t)] \in Seq(D)
  BY <1>1, GreatestIsIn
<1>6. Confirmed(s, k, failsAt) = iter[1 .. n].kept
  BY <1>1 DEF Confirmed, FoldLeft, MapThenFoldSet
<1> HIDE DEF base, g, V, n
<1>7. iter = F(iter)
  <2>1. PICK h : LeftFold(h, n, s, V, base, g)
    BY <1>1, <1>2, <1>3, FoldLeftExists
  <2>2. h = F(h)
    <3>1. h \in [SUBSET (1 .. n) -> V] /\ h[{}] = base
      BY <2>1 DEF LeftFold
    <3>2. ASSUME NEW t \in SUBSET (1 .. n), t # {}
          PROVE  h[t] = Confirm(h[t \ {Max(t)}], s[Max(t)], k, failsAt)
      <4>1. h[t] = g[<<h[t \ {Max(t)}], s[Max(t)]>>]
        BY <2>1, <3>2 DEF LeftFold
      <4>2. h[t \ {Max(t)}] \in V /\ s[Max(t)] \in Seq(D)
        BY <1>5, <3>1, <3>2
      <4> QED
        BY <1>4, <4>1, <4>2
    <3> QED
      BY <1>1, <3>1, <3>2
  <2> QED
    BY <2>2
<1>8. Recurs(iter, n, s, V, base, g)
  <2> HIDE DEF iter
  <2>1. iter[{}] = base
    BY <1>7
  <2>2. ASSUME NEW t \in SUBSET (1 .. n), t # {}, iter[t \ {Max(t)}] \in V
        PROVE  iter[t] = g[<<iter[t \ {Max(t)}], s[Max(t)]>>]
    <3>1. iter[t] = Confirm(iter[t \ {Max(t)}], s[Max(t)], k, failsAt)
      BY <1>1, <1>7, <2>2
    <3> QED
      BY <1>4, <1>5, <2>2, <3>1
  <2> QED
    BY <2>1, <2>2 DEF Recurs
<1>9. iter[1 .. n] \in V
  <2> HIDE DEF iter
  <2>1. RunsTo(iter[1 .. n], n, s, V, base, g)
    BY ONLY <1>1, <1>2, <1>3, <1>8, FoldLeftRuns
  <2> QED
    BY <1>1, <2>1 DEF FoldRun, RunsTo
<1> HIDE DEF iter
<1>10. iter[1 .. n].kept \in Seq(D \cap OwnText)
  BY <1>9 DEF V, Confirming
<1> QED
  BY <1>6, <1>10

\* What a search for capsules gives is good, for any number wanted and any batch the
\* embedder fails at.
LEMMA CapsulesAreGood ==
    ASSUME NEW store \in CapsuleStores, NEW k \in Int, NEW failsAt
    PROVE  CapsuleHits(store, k, failsAt) \in Seq(GoodOf(store))
<1> DEFINE signed == Those(First(k * CapsuleFactor, store), Signed)
           D == ToSet(store) \cap Signed
           kept == Confirmed(Batches(signed, AtLeastOne(k)), k, failsAt)
<1>1. store \in Stores /\ \A i \in DOMAIN store : store[i].kind # "far"
  BY DEF CapsuleStores
<1>2. store \in Seq(ToSet(store))
  BY <1>1, StoreFits DEF ToSet
<1>3. k * CapsuleFactor \in Int
  BY ExampleAssumption
<1>4. First(k * CapsuleFactor, store) \in Seq(ToSet(store))
  BY <1>2, <1>3, FirstIsOf
<1>5. signed \in Seq(D)
  BY <1>4, ThoseAreOf
<1>6. AtLeastOne(k) \in Nat \ {0}
  BY DEF AtLeastOne
<1>7. Batches(signed, AtLeastOne(k)) \in Seq(Seq(D))
  <2> HIDE DEF signed, D
  <2> QED
    BY <1>5, <1>6, BatchesAreOf
<1>8. kept \in Seq(D \cap OwnText)
  <2> HIDE DEF D, signed
  <2> QED
    BY <1>7, ConfirmedAreOf
<1>9. First(k, kept) \in Seq(D \cap OwnText)
  <2> HIDE DEF D, kept
  <2> QED
    BY <1>8, FirstIsOf
<1>10. D \cap OwnText \subseteq GoodOf(store)
  <2> SUFFICES ASSUME NEW p \in D \cap OwnText PROVE p.kind = "good"
    BY DEF GoodOf
  <2>1. p.kind # "unsigned" /\ p.kind # "repointed"
    BY DEF Signed, OwnText
  <2>2. p.kind \in Kinds
    BY DEF Signed, Point
  <2>3. p.kind # "far"
    BY <1>1 DEF ToSet
  <2> QED
    BY <2>1, <2>2, <2>3 DEF Kinds
<1>11. First(k, kept) \in Seq(GoodOf(store))
  <2> HIDE DEF D, kept
  <2> QED
    BY <1>9, <1>10
<1>12. CapsuleHits(store, k, failsAt) = First(k, kept)
  BY DEF CapsuleHits
<1> QED
  BY <1>11, <1>12

\* So is what a search for pairs gives.
LEMMA PairsAreGood ==
    ASSUME NEW store \in PairStores
    PROVE  PairHits(store) \in Seq(GoodOf(store))
<1> DEFINE D == ToSet(store)
           near == Those(First(PairsWanted * PairFactor, store), Near)
           signed == Those(near, Signed)
           kept == Those(signed, OwnText)
<1>1. store \in Stores
  BY DEF PairStores
<1>2. store \in Seq(D)
  BY <1>1, StoreFits DEF ToSet
<1>3. PairsWanted * PairFactor \in Int /\ PairsWanted \in Int
  BY ExampleAssumption
<1> HIDE DEF D
<1>4. First(PairsWanted * PairFactor, store) \in Seq(D)
  BY <1>2, <1>3, FirstIsOf
<1>5. near \in Seq(D \cap Near)
  BY <1>4, ThoseAreOf
<1> HIDE DEF near
<1>6. signed \in Seq((D \cap Near) \cap Signed)
  BY <1>5, ThoseAreOf
<1> HIDE DEF signed
<1>7. kept \in Seq(((D \cap Near) \cap Signed) \cap OwnText)
  BY <1>6, ThoseAreOf
<1> DEFINE E == ((D \cap Near) \cap Signed) \cap OwnText
<1> HIDE DEF kept
<1>8. First(PairsWanted, kept) \in Seq(E)
  <2> HIDE DEF E
  <2>1. kept \in Seq(E)
    BY <1>7 DEF E
  <2> QED
    BY <2>1, <1>3, FirstIsOf
<1>9. E \subseteq GoodOf(store)
  <2> SUFFICES ASSUME NEW p \in E PROVE p \in D /\ p.kind = "good"
    BY DEF GoodOf, D
  <2> QED
    BY DEF Signed, OwnText, Near, Point, Kinds
<1>10. First(PairsWanted, kept) \in Seq(GoodOf(store))
  <2> HIDE DEF E
  <2> QED
    BY <1>8, <1>9
<1>11. PairHits(store) = First(PairsWanted, kept)
  BY DEF PairHits, kept, signed, near
<1> QED
  BY <1>10, <1>11

\* What a search gave is good, of the store it was asked of.
GaveGood(got, store) ==
    /\ got.state \in {"none", "answered", "raised"}
    /\ got.hits \in Seq(GoodOf(store))

\* Nothing is known of the stores before they are asked.
NothingBeforeAsked ==
    examplePc = "idle" => gotPairs = NotYet /\ gotCapsules = NotYet /\ examples = <<>>

\* An example stands in the prompt under the place it has in its store.
IsOfStore(e) ==
    /\ e \in Example
    /\ e.from = "pair" => pairs[e.id].kind = "good"
    /\ e.from = "capsule" => capsules[e.id].kind = "good"

\* The inductive invariant: what each search gave, and what is shown, is good of its store.
ExampleInv ==
    /\ examplePc \in {"idle", "asked", "shown"} /\ path \in {"turn", "together"}
    /\ capsules \in CapsuleStores /\ pairs \in PairStores
    /\ own \in 0 .. MaxHits /\ fails \in 0 .. 2
    /\ GaveGood(gotPairs, pairs) /\ GaveGood(gotCapsules, capsules)
    /\ NothingBeforeAsked
    /\ examplePc # "shown" => examples = <<>>
    /\ \A e \in Range(examples) : IsOfStore(e)

\* A store without points is one.
LEMMA EmptyStore == <<>> \in CapsuleStores /\ <<>> \in PairStores
<1> DEFINE StoresOf(n) == {[i \in 1 .. n |-> [id |-> i, kind |-> kinds[i]]] : kinds \in [1 .. n -> Kinds]}
           kinds == [i \in 1 .. 0 |-> "good"]
<1>1. kinds \in [1 .. 0 -> Kinds] /\ <<>> = [i \in 1 .. 0 |-> [id |-> i, kind |-> kinds[i]]]
  OBVIOUS
<1>2. <<>> \in StoresOf(0)
  BY <1>1
<1>3. 0 \in 0 .. MaxHits
  BY ExampleAssumption
<1>4. <<>> \in UNION {StoresOf(n) : n \in 0 .. MaxHits}
  <2> HIDE DEF StoresOf
  <2> QED
    BY <1>2, <1>3
<1>5. <<>> \in Stores
  BY <1>4 DEF Stores
<1> QED
  BY <1>5 DEF CapsuleStores, PairStores

\* A search that has not answered, or raised, gave nothing.
LEMMA NotYetGood == \A store : GaveGood(NotYet, store) /\ GaveGood(SearchRaised, store)
  BY DEF GaveGood, NotYet, SearchRaised

\* One that answered gave what it found.
LEMMA GotGood ==
    ASSUME NEW store, NEW hits \in Seq(GoodOf(store))
    PROVE  GaveGood(Got(hits), store)
  BY DEF GaveGood, Got

\* Nothing has been asked at first.
LEMMA ExampleInitial == ExampleInit => ExampleInv
<1> SUFFICES ASSUME ExampleInit PROVE ExampleInv
  OBVIOUS
<1>1. 0 \in 0 .. MaxHits
  BY ExampleAssumption
<1> USE DEF ExampleInit
<1>2. Range(examples) = {}
  BY DEF Range
<1> QED
  BY <1>1, <1>2, EmptyStore, NotYetGood DEF ExampleInv, NothingBeforeAsked

\* A question asks the stores, whatever they hold.
LEMMA AskStoresKeeps == ExampleInv /\ AskStores => ExampleInv'
<1> SUFFICES ASSUME ExampleInv, AskStores PROVE ExampleInv'
  OBVIOUS
<1>1. gotPairs' = NotYet /\ gotCapsules' = NotYet /\ examples' = <<>>
  BY DEF ExampleInv, AskStores, NothingBeforeAsked
<1>2. (Range(examples))' = {}
  BY <1>1 DEF Range
<1>3. own' \in 0 .. MaxHits
  BY ExampleAssumption DEF AskStores
<1>4. capsules' \in CapsuleStores /\ pairs' \in PairStores /\ fails' \in 0 .. 2
  BY DEF AskStores
<1>5. GaveGood(gotPairs', pairs') /\ GaveGood(gotCapsules', capsules')
  BY <1>1, NotYetGood
<1> QED
  BY <1>1, <1>2, <1>3, <1>4, <1>5 DEF ExampleInv, AskStores, NothingBeforeAsked

\* The verified pairs are searched.
LEMMA SearchPairsKeeps == ExampleInv /\ SearchPairs => ExampleInv'
<1> SUFFICES ASSUME ExampleInv, SearchPairs PROVE ExampleInv'
  OBVIOUS
<1>1. GaveGood(gotPairs', pairs)
  BY PairsAreGood, GotGood, NotYetGood DEF ExampleInv, SearchPairs
<1>2. \A e : IsOfStore(e) => IsOfStore(e)'
  BY DEF IsOfStore, SearchPairs
<1> QED
  BY <1>1, <1>2 DEF ExampleInv, SearchPairs, NothingBeforeAsked

\* What is left of the places is a number.
LEMMA RemainingIsInt ==
    ASSUME NEW D, NEW s \in Seq(D)
    PROVE  Remaining(s) \in Int
  BY ExampleAssumption DEF Remaining, AtLeastOne

\* The capsules are searched for the places that are left.
LEMMA SearchCapsulesKeeps == ExampleInv /\ SearchCapsules => ExampleInv'
<1> SUFFICES ASSUME ExampleInv, SearchCapsules PROVE ExampleInv'
  OBVIOUS
<1>1. GaveGood(gotCapsules', capsules)
  <2>1. Remaining(gotPairs.hits) \in Int /\ TopK \in Int
    BY RemainingIsInt, ExampleAssumption DEF ExampleInv, GaveGood
  <2>2. \A k \in Int : GaveGood(Got(CapsuleHits(capsules, k, fails)), capsules)
    BY CapsulesAreGood, GotGood DEF ExampleInv
  <2> QED
    BY <2>1, <2>2, NotYetGood DEF SearchCapsules
<1>2. \A e : IsOfStore(e) => IsOfStore(e)'
  BY DEF IsOfStore, SearchCapsules
<1> QED
  BY <1>1, <1>2 DEF ExampleInv, SearchCapsules, NothingBeforeAsked

\* The examples named after good hits of a store stand under their places in it.
LEMMA NamedInPlace ==
    ASSUME NEW store \in Stores, NEW from \in {"pair", "capsule"}, NEW hits \in Seq(GoodOf(store))
    PROVE  NamedExamples(from, hits)
              \in Seq({e \in Example : e.from = from /\ store[e.id].kind = "good"})
<1> DEFINE E == {e \in Example : e.from = from /\ store[e.id].kind = "good"}
<1>1. ASSUME NEW i \in DOMAIN hits PROVE [from |-> from, id |-> hits[i].id] \in E
  <2>1. hits[i].id \in 1 .. MaxHits /\ store[hits[i].id].kind = "good"
    BY GoodIsInPlace
  <2> QED
    BY <2>1 DEF Example
<1>2. DOMAIN hits = 1 .. Len(hits) /\ Len(hits) \in Nat
  OBVIOUS
<1>3. NamedExamples(from, hits) \in Seq(E)
  <2> HIDE DEF E
  <2> QED
    BY <1>1, <1>2 DEF NamedExamples
<1> QED
  BY <1>3

\* The knowledge base's own examples are of the knowledge base.
LEMMA OwnExamplesFit ==
    ASSUME own \in 0 .. MaxHits
    PROVE  \A e \in Range(OwnExamples) : e \in Example /\ e.from = "kb"
<1>1. MaxHits \in Nat /\ TopK \in Nat
  BY ExampleAssumption
<1>2. \A i \in 1 .. (IF own < TopK THEN own ELSE TopK) : i \in 1 .. MaxHits
  BY <1>1
<1>3. \A i \in 1 .. (IF own < TopK THEN own ELSE TopK) :
         [from |-> "kb", id |-> i] \in Example
  BY <1>2 DEF Example
<1> DEFINE many == IF own < TopK THEN own ELSE TopK
<1> HIDE DEF many
<1>4. \A e \in Range([i \in 1 .. many |-> [from |-> "kb", id |-> i]]) :
         \E i \in 1 .. many : e = [from |-> "kb", id |-> i]
  BY DEF Range
<1> QED
  BY <1>3, <1>4 DEF OwnExamples, many

\* The prompt is formatted.
LEMMA FormatKeeps == ExampleInv /\ FormatDynamicContext => ExampleInv'
<1> SUFFICES ASSUME ExampleInv, FormatDynamicContext PROVE ExampleInv'
  OBVIOUS
<1> DEFINE P == {e \in Example : e.from = "pair" /\ pairs[e.id].kind = "good"}
           C == {e \in Example : e.from = "capsule" /\ capsules[e.id].kind = "good"}
           few == First(Remaining(gotPairs.hits), gotCapsules.hits)
           found == NamedExamples("pair", gotPairs.hits) \o NamedExamples("capsule", few)
<1>1. pairs \in Stores /\ capsules \in Stores
  BY DEF ExampleInv, PairStores, CapsuleStores
<1>2. gotPairs.hits \in Seq(GoodOf(pairs)) /\ gotCapsules.hits \in Seq(GoodOf(capsules))
  BY DEF ExampleInv, GaveGood
<1>3. few \in Seq(GoodOf(capsules))
  BY <1>2, RemainingIsInt, FirstIsOf
<1>4. NamedExamples("pair", gotPairs.hits) \in Seq(P)
  BY <1>1, <1>2, NamedInPlace
<1>5. NamedExamples("capsule", few) \in Seq(C)
  <2> HIDE DEF few
  <2> QED
    BY <1>1, <1>3, NamedInPlace
<1>6. found \in Seq(P \cup C)
  <2> HIDE DEF P, C, few
  <2> QED
    BY <1>4, <1>5
<1>7. \A e \in Range(found) : IsOfStore(e)
  <2>1. Range(found) \subseteq P \cup C
    <3> HIDE DEF P, C, found
    <3> QED
      BY <1>6 DEF Range
  <2> HIDE DEF found
  <2> QED
    BY <2>1 DEF IsOfStore
<1>8. \A e \in Range(OwnExamples) : IsOfStore(e)
  BY OwnExamplesFit DEF ExampleInv, IsOfStore
<1>9. examples' = IF found = <<>> THEN OwnExamples ELSE found
  BY DEF FormatDynamicContext, Formatted
<1>10. \A e \in Range(examples') : IsOfStore(e)
  <2> HIDE DEF found
  <2> QED
    BY <1>7, <1>8, <1>9
<1>11. \A e : IsOfStore(e) => IsOfStore(e)'
  BY DEF IsOfStore, FormatDynamicContext
<1> HIDE DEF found
<1> QED
  BY <1>10, <1>11 DEF ExampleInv, FormatDynamicContext, NothingBeforeAsked

\* A step of nobody.
LEMMA ExampleStays == ExampleInv /\ UNCHANGED exampleVars => ExampleInv'
<1> SUFFICES ASSUME ExampleInv, UNCHANGED exampleVars PROVE ExampleInv'
  OBVIOUS
<1>1. \A e : IsOfStore(e) => IsOfStore(e)'
  BY DEF IsOfStore, exampleVars
<1> QED
  BY <1>1 DEF ExampleInv, exampleVars, NothingBeforeAsked

\* It holds at every search and every failure of the embedder.
LEMMA ExampleInvHolds == ExampleSpec => []ExampleInv
<1>1. ExampleInv /\ [ExampleNext]_exampleVars => ExampleInv'
  BY AskStoresKeeps, SearchPairsKeeps, SearchCapsulesKeeps, FormatKeeps, ExampleStays
     DEF ExampleNext
<1> QED
  BY ExampleInitial, <1>1, PTL DEF ExampleSpec

\* What the searches gave are points, and what is shown are examples, through every failure
\* of the embedder and whatever the stores hold.
THEOREM ExamplesTypeCorrect == ExampleSpec => []ExampleTypeOK
<1>1. ExampleInv => ExampleTypeOK
  <2> SUFFICES ASSUME ExampleInv PROVE ExampleTypeOK
    OBVIOUS
  <2>1. \A store \in Stores : GoodOf(store) \subseteq Point
    BY StoreFits DEF GoodOf
  <2>2. Range(gotPairs.hits) \subseteq Point /\ Range(gotCapsules.hits) \subseteq Point
    <3>1. pairs \in Stores /\ capsules \in Stores
      BY DEF ExampleInv, PairStores, CapsuleStores
    <3> QED
      BY <2>1, <3>1 DEF ExampleInv, GaveGood, Range
  <2>3. Range(examples) \subseteq Example
    BY DEF ExampleInv, IsOfStore
  <2> QED
    BY <2>2, <2>3 DEF ExampleInv, ExampleTypeOK, GaveGood
<1> QED
  BY ExampleInvHolds, <1>1, PTL

\* An example of Qdrant's is shown only when it is signed for the agent and near the
\* question by its own text, whatever else is stored and wherever the embedder fails.
THEOREM OnlyOwnAlwaysShown == ExampleSpec => []OnlyOwnShown
<1>1. ExampleInv => OnlyOwnShown
  BY DEF ExampleInv, IsOfStore, OnlyOwnShown
<1> QED
  BY ExampleInvHolds, <1>1, PTL

----------------------------------------------------------------------------
(* What every component of a question keeps to.                            *)

\* Through every question, budget, timeout and failure, each component a question passes
\* through holds what its variables are declared to hold: no reply is longer than the
\* model's, no step of a turn is one the code has not, nobody's call is of nobody.
THEOREM QuestionTypesCorrect ==
    Spec /\ TurnSpec /\ StreamSpec /\ CallsSpec /\ RouteSpec /\ ExampleSpec /\ ServingSpec
    => []QuestionTypeOK
<1>1. /\ TypeOK /\ TurnTypeOK /\ StreamTypeOK /\ CallsTypeOK /\ RouteInv
      /\ ExampleTypeOK /\ ServingInv
      => QuestionTypeOK
  BY DEF QuestionTypeOK, RouteInv, ServingInv
<1> QED
  BY <1>1, TurnTypeCorrect, AnswerTypeCorrect, StreamTypeCorrect, CallsTypeCorrect,
     RouteInvariant, ExamplesTypeCorrect, ServingInvariant, PTL
=============================================================================
