------------------------------ MODULE AuditLog ------------------------------
(***************************************************************************)
(* The audit log's file: _write and _report of audit.py.  Several          *)
(* processes append to one file, each a line at a time under its own lock; *)
(* a line goes out in as many writes as it takes.  The disk may fill and   *)
(* be freed, and the file may be one the writer refuses.                   *)
(***************************************************************************)
EXTENDS Naturals, FiniteSets, Sequences, SequencesExt

CONSTANTS AuditWriters,     \* the processes that log to the file
          LineParts,       \* writes a line takes at most
          MaxEvents    \* bound on the events a process publishes

ASSUME LinesAssumption == LineParts \in Nat \ {0} /\ MaxEvents \in Nat

VARIABLES lines,     \* the file: the parts of lines, in order
          disk,      \* is there room?
          fit,       \* is it a regular file, of its owner alone?
          auditPc,   \* [Writers -> where _write is]
          sentParts,      \* [Writers -> parts of its line written]
          events,    \* [Writers -> events it published]
          dropped,   \* [Writers -> _dropped]
          lossReported,  \* [Writers -> is the path in _reported?]
          toldLosses       \* [Writers -> events it said were lost, once written again]

auditVars == <<lines, disk, fit, auditPc, sentParts, events, dropped, lossReported, toldLosses>>
auditFile == <<lines, disk, fit>>

AuditInit ==
    /\ lines = <<>> /\ disk = TRUE /\ fit = TRUE
    /\ auditPc = [w \in AuditWriters |-> "idle"] /\ sentParts = [w \in AuditWriters |-> 0]
    /\ events = [w \in AuditWriters |-> 0] /\ dropped = [w \in AuditWriters |-> 0]
    /\ lossReported = [w \in AuditWriters |-> FALSE] /\ toldLosses = [w \in AuditWriters |-> 0]

DiskChanges == disk' = ~disk /\ UNCHANGED <<lines, fit, auditPc, sentParts, events, dropped, lossReported, toldLosses>>
FileChanges == fit' = ~fit /\ UNCHANGED <<lines, disk, auditPc, sentParts, events, dropped, lossReported, toldLosses>>

PublishEvent(w) ==
    /\ auditPc[w] = "idle" /\ events[w] < MaxEvents
    /\ events' = [events EXCEPT ![w] = @ + 1]
    /\ auditPc' = [auditPc EXCEPT ![w] = "opening"]
    /\ UNCHANGED <<auditFile, sentParts, dropped, lossReported, toldLosses>>

\* _report: every loss is counted, whether or not it is said at once.
Lost(w) == dropped[w] + 1

Report(w) ==
    /\ dropped' = [dropped EXCEPT ![w] = Lost(w)]
    /\ lossReported' = [lossReported EXCEPT ![w] = TRUE]
    /\ auditPc' = [auditPc EXCEPT ![w] = "idle"] /\ sentParts' = [sentParts EXCEPT ![w] = 0]
    /\ UNCHANGED <<auditFile, events, toldLosses>>

\* os.open and _refusal, which may narrow the mode of a file of one's own.
Open(w) ==
    /\ auditPc[w] = "opening"
    /\ IF fit THEN /\ auditPc' = [auditPc EXCEPT ![w] = "writing"]
                   /\ UNCHANGED <<auditFile, sentParts, events, dropped, lossReported, toldLosses>>
       ELSE Report(w)

\* One os.write: some or all of what is left, or no room for any of it.
WriteSome(w) ==
    /\ auditPc[w] = "writing" /\ sentParts[w] < LineParts /\ disk
    /\ \E n \in 1 .. LineParts - sentParts[w] :
          /\ sentParts' = [sentParts EXCEPT ![w] = @ + n]
          /\ lines' = lines \o [i \in 1 .. n |->
                          [by |-> w, event |-> events[w], part |-> sentParts[w] + i]]
    /\ UNCHANGED <<disk, fit, auditPc, events, dropped, lossReported, toldLosses>>

WriteFails(w) == auditPc[w] = "writing" /\ sentParts[w] < LineParts /\ ~disk /\ Report(w)

\* Written again: what was lost since is said, once.
WrittenAgain(w) ==
    /\ auditPc[w] = "writing" /\ sentParts[w] = LineParts
    /\ toldLosses' = [toldLosses EXCEPT ![w] = @ + dropped[w]]
    /\ dropped' = [dropped EXCEPT ![w] = 0] /\ lossReported' = [lossReported EXCEPT ![w] = FALSE]
    /\ auditPc' = [auditPc EXCEPT ![w] = "idle"] /\ sentParts' = [sentParts EXCEPT ![w] = 0]
    /\ UNCHANGED <<auditFile, events>>

AuditNext ==
    \/ DiskChanges \/ FileChanges
    \/ \E w \in AuditWriters : PublishEvent(w) \/ Open(w) \/ WriteSome(w) \/ WriteFails(w) \/ WrittenAgain(w)
AuditSpec == AuditInit /\ [][AuditNext]_auditVars

----------------------------------------------------------------------------

AuditTypeOK ==
    /\ lines \in Seq([by : AuditWriters, event : 1 .. MaxEvents, part : 1 .. LineParts])
    /\ {disk, fit} \subseteq BOOLEAN /\ lossReported \in [AuditWriters -> BOOLEAN]
    /\ auditPc \in [AuditWriters -> {"idle", "opening", "writing"}] /\ sentParts \in [AuditWriters -> 0 .. LineParts]
    /\ \A counts \in {events, dropped, toldLosses} : counts \in [AuditWriters -> 0 .. MaxEvents]

WholeOf(w) == {e \in 1 .. MaxEvents : [by |-> w, event |-> e, part |-> LineParts] \in ToSet(lines)}

\* Every event a process published is in the file, or the process has counted it
\* lost: to be said once the file is written again, or said already; and a process
\* that has losses has reported the file.
LossesKnown ==
    \A w \in AuditWriters :
        /\ auditPc[w] = "idle" =>
              events[w] = Cardinality(WholeOf(w)) + dropped[w] + toldLosses[w]
        /\ dropped[w] > 0 <=> lossReported[w]

\* "each event is appended to it as one JSON line" (docs/configuration.md): the
\* parts of a line follow one another in the file, whoever else writes.
OneLineEach ==
    \A i \in DOMAIN lines :
        lines[i].part > 1 => i > 1 /\ lines[i - 1] = [lines[i] EXCEPT !.part = @ - 1]
=============================================================================
