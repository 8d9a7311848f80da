----------------------------- MODULE ParseChild -----------------------------
(***************************************************************************)
(* One document parsed in a child process: document_connectors             *)
(* _isolation.py, and _child.py on POSIX.  Three deadlines may end it: the *)
(* caller's wait, the watchdog of the child, which needs the interpreter   *)
(* lock and takes the process group with it, and the alarm behind it,      *)
(* which needs neither and leaves the group.  The kernel and the limit on  *)
(* CPU time may end it too, and the caller may be stopped or killed.       *)
(***************************************************************************)
EXTENDS Naturals

VARIABLES parsePc,   \* parse_in_child: where it is, or "gone" with its process
          why,       \* what it stops the child for
          child,     \* the child, and how it ended
          locked,    \* is the parser in C code that keeps the interpreter lock?
          started,   \* does a process the parser started run?
          output,    \* how much of the result is in the pipe
          kind,      \* what child_result made of the parse
          logged,    \* did the parser write "MemoryError" to stderr?
          clock,     \* the deadlines that have passed: 1 the caller's, 2 the
                     \* watchdog's, 3 the alarm's
          parsed     \* what the caller got

parseVars == <<parsePc, why, child, locked, started, output, kind, logged, clock, parsed>>
caller == <<parsePc, why, parsed>>
parser == <<locked, started, kind, logged>>

Ends == {"done", "died", "cpu", "kernel", "watchdog", "alarm", "stopped"}
Running == child \notin Ends
Armed == child \in {"parsing", "writing"}
Kinds == {"chunks", "memory", "raised", "unpicklable"}
ChildAnswers == {"chunks", "refused", "raised", "timeout", "error", "interrupted"}

ParseInit ==
    /\ parsePc = "sending" /\ why = "none" /\ parsed = "none"
    /\ child = "reading" /\ output = "none" /\ kind = "none"
    /\ locked = FALSE /\ started = FALSE /\ logged = FALSE
    /\ clock = 0

----------------------------------------------------------------------------
(* The child: main, child_result and the parser it runs.                   *)

\* The child leaves: with a result it wrote, or without one.
ChildEnds(how) == child' = how /\ UNCHANGED <<caller, parser, output, clock>>

\* The instructions are there once the caller has closed the pipe; closed by its
\* death it holds none.
ReadInstructions ==
    /\ child = "reading" /\ parsePc # "sending"
    /\ \/ parsePc # "gone" /\ child' = "parsing"
       \/ parsePc = "gone" /\ child' = "died"
    /\ UNCHANGED <<caller, parser, output, clock>>

ParserWorks ==
    /\ child = "parsing"
    /\ \/ locked' = ~locked /\ UNCHANGED <<started, logged>>
       \/ started' = TRUE /\ ~locked /\ UNCHANGED <<locked, logged>>
       \/ logged' = TRUE /\ ~locked /\ UNCHANGED <<locked, started>>
    /\ UNCHANGED <<caller, child, output, kind, clock>>

ParserEnds ==
    /\ child = "parsing" /\ ~locked
    /\ kind' \in Kinds /\ child' = "writing"
    /\ UNCHANGED <<caller, locked, started, output, logged, clock>>

\* The result is longer than the pipe holds, and goes out in parts.
WriteResult ==
    /\ child = "writing" /\ output # "whole"
    /\ output' = IF output = "none" THEN "part" ELSE "whole"
    /\ UNCHANGED <<caller, child, parser, clock>>

FinishParse == child = "writing" /\ output = "whole" /\ ChildEnds("done")

Dies == Running /\ \E how \in {"died", "kernel"} : ChildEnds(how)

UsesUpCpu == Armed /\ ChildEnds("cpu")

\* _arm_watchdog's fire: the group, the child with it.
Watchdog ==
    /\ Armed /\ clock >= 2 /\ ~locked
    /\ child' = "watchdog" /\ started' = FALSE
    /\ UNCHANGED <<caller, locked, output, kind, logged, clock>>

Alarm == Armed /\ clock = 3 /\ ChildEnds("alarm")

TimePasses ==
    /\ Running /\ clock < 3 /\ clock' = clock + 1
    /\ UNCHANGED <<caller, child, parser, output>>

----------------------------------------------------------------------------
(* The caller: parse_in_child.                                             *)

SendParsed ==
    /\ parsePc = "sending" /\ parsePc' = "waiting"
    /\ UNCHANGED <<why, parsed, child, parser, output, clock>>

\* Mutant: what the parser started is left to the limits of the child.
NoneEnded == started

\* _end_descendants, after the child was reaped or with its kill.
GroupEnded == FALSE

Waited ==
    /\ parsePc = "waiting" /\ ~Running
    /\ parsePc' = "collecting" /\ started' = GroupEnded
    /\ UNCHANGED <<why, parsed, child, locked, output, kind, logged, clock>>

\* The wait is over, or the caller itself is to stop: either way the child goes.
Stops(reason) ==
    /\ parsePc' = "stopping" /\ why' = reason
    /\ UNCHANGED <<parsed, child, parser, output, clock>>

Deadline == parsePc = "waiting" /\ Running /\ clock >= 1 /\ Stops("timeout")
Interrupted == parsePc \in {"sending", "waiting"} /\ Stops("interrupted")

\* _stop: what the child wrote in the meantime is not read.
Stop ==
    /\ parsePc = "stopping" /\ parsePc' = "returned"
    /\ child' = IF Running THEN "stopped" ELSE child
    /\ started' = GroupEnded /\ parsed' = why
    /\ UNCHANGED <<why, locked, output, kind, logged, clock>>

\* _stopped_itself.
StoppedItself == child \in {"watchdog", "alarm"}

\* _death: a result cut short says nothing, the exit of the child does.
Death ==
    IF logged THEN "refused"
    ELSE IF StoppedItself \/ child \in {"cpu", "kernel"} THEN "timeout" ELSE "error"

Reported ==
    IF output # "whole" THEN Death
    ELSE CASE kind = "memory" -> "refused"
           [] kind = "unpicklable" -> "error"
           [] OTHER -> kind

Collect ==
    /\ parsePc = "collecting" /\ parsePc' = "returned"
    /\ parsed' = Reported
    /\ UNCHANGED <<why, child, parser, output, clock>>

\* Killed outright, or by a hard time limit: nothing of the above runs.
CallerKilled ==
    /\ parsePc \in {"sending", "waiting", "stopping", "collecting"} /\ parsePc' = "gone"
    /\ UNCHANGED <<why, parsed, child, parser, output, clock>>

----------------------------------------------------------------------------

CallerStep == SendParsed \/ Waited \/ Deadline \/ Stop \/ Collect

ParseNext ==
    \/ ReadInstructions \/ ParserWorks \/ ParserEnds \/ WriteResult \/ FinishParse
    \/ Dies \/ UsesUpCpu \/ Watchdog \/ Alarm \/ TimePasses
    \/ CallerStep \/ Interrupted \/ CallerKilled

\* Time passes, a caller that runs goes on, the child reads what is there, and the
\* kernel delivers the alarm; nothing is assumed of the parser or the watchdog.
ParseSpec ==
    /\ ParseInit /\ [][ParseNext]_parseVars
    /\ WF_parseVars(CallerStep) /\ WF_parseVars(ReadInstructions)
    /\ WF_parseVars(TimePasses) /\ WF_parseVars(Alarm)

----------------------------------------------------------------------------

ParseTypeOK ==
    /\ parsePc \in {"sending", "waiting", "stopping", "collecting", "returned", "gone"}
    /\ why \in {"none", "timeout", "interrupted"}
    /\ child \in Ends \cup {"reading", "parsing", "writing"}
    /\ output \in {"none", "part", "whole"} /\ kind \in Kinds \cup {"none"}
    /\ {locked, started, logged} \subseteq BOOLEAN
    /\ clock \in 0 .. 3 /\ parsed \in ChildAnswers \cup {"none"}

\* Once the caller has its answer, whichever of the deadlines, the kernel or the
\* parser ended the child, neither the child nor what its parser started runs on.
NothingLeftRunning == parsePc = "returned" => ~Running /\ ~started

\* A parse that a deadline, the CPU limit or the kernel ended before its result was
\* out is reported as the timeout a caller may retry, unless the parser had said
\* that memory ran out.
EndedIsRetryable ==
    parsed = "error" => child = "died" \/ (output = "whole" /\ kind = "unpicklable")

\* A parse that ended has ended: nothing of it runs on, and what ended it says
\* whether the document may be tried again.
ParseEnded == NothingLeftRunning /\ EndedIsRetryable

\* Nothing of a parse stays for good: the caller is answered, or it is gone and the
\* child ends without it, though its parser never leaves C code.
ParseSettles == <>(~Running /\ parsePc \in {"returned", "gone"})
=============================================================================
