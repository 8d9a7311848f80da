---------------------------- MODULE EmbedProcess ----------------------------
(***************************************************************************)
(* The embedding daemon as a process: serve (embeddings/embed_server.py),  *)
(* which names itself in a PID file, and the commands embed-server start,  *)
(* stop and status (cli/main.py), which find it by that file.              *)
(*                                                                         *)
(* The commands of one operator follow one another; the daemons they       *)
(* started go on between their steps, and start may report before a daemon *)
(* has written its PID.  With --foreground start becomes the daemon, in a  *)
(* terminal of its own, and python -m runs one without any command; both   *)
(* look at no port.  A PID is not used twice.                              *)
(***************************************************************************)
EXTENDS Naturals

CONSTANTS
    Daemons,    \* the processes that may be started
    NoFile      \* what the PID file is when there is none

ASSUME ProcessAssumption == NoFile \notin Daemons

VARIABLES
    pidFile,   \* NoFile, "empty", or the process it names
    opened,    \* the daemons that have this very file open to write
    life,      \* where a daemon is in serve
    processCommand,   \* the operator's command
    cmdPc,     \* where it is
    target,    \* the process the command is about
    raced      \* history: a command read the file before a daemon had named itself
               \* in it, or one was run by hand beside another or behind a command's
               \* back, and some daemon has been up ever since

pidVars == <<pidFile, opened>>
operator == <<processCommand, cmdPc, target>>
processVars == <<pidVars, life, operator, raced>>

Alive(d) == life[d] \notin {"absent", "gone"}
Unnamed(d) == life[d] \in {"launched", "naming"}
Engaged(d) == Unnamed(d) \/ life[d] \in {"loading", "serving", "leaving"}
Listens(d) == life[d] = "serving"
PortTaken == \E d \in Daemons : Listens(d)

ProcessInit ==
    /\ pidFile = NoFile /\ opened = {} /\ raced = FALSE
    /\ life = [d \in Daemons |-> "absent"]
    /\ processCommand = "none" /\ cmdPc = "idle" /\ target = NoFile

Becomes(d, stage) == life' = [life EXCEPT ![d] = stage]

\* What a daemon writes to a file that was unlinked is in no file.
Unlink == pidFile' = NoFile /\ opened' = {}

\* Once no daemon is up, what one of them missed is over.
RacedIf(now) == raced' = ((raced \/ now) /\ \E d \in Daemons : Engaged(d)')

----------------------------------------------------------------------------
(* serve.                                                                  *)

\* write_text opens the file, which empties it, and then writes.
Create(d) ==
    /\ life[d] = "launched"
    /\ pidFile' = "empty" /\ opened' = opened \cup {d} /\ Becomes(d, "naming")
    /\ UNCHANGED operator

Name(d) ==
    /\ life[d] = "naming"
    /\ pidFile' = IF d \in opened THEN d ELSE pidFile
    /\ opened' = opened \ {d} /\ Becomes(d, "loading")
    /\ UNCHANGED operator

\* The model is loaded and the port bound, or one of the two fails.
Load(d) ==
    /\ life[d] = "loading"
    /\ \/ ~PortTaken /\ Becomes(d, "serving")
       \/ Becomes(d, "leaving")
    /\ UNCHANGED <<pidVars, operator>>

\* SIGTERM from outside, or Ctrl-C in its terminal.
Told(d) ==
    /\ life[d] = "serving"
    /\ Becomes(d, "leaving")
    /\ UNCHANGED <<pidVars, operator>>

\* The finally of serve, which does not look at what the file holds.
Unname(d) ==
    /\ life[d] = "leaving"
    /\ Unlink /\ Becomes(d, "unnamed")
    /\ UNCHANGED operator

Exit(d) ==
    /\ life[d] = "unnamed"
    /\ Becomes(d, "gone")
    /\ UNCHANGED <<pidVars, operator>>

\* A process that is killed, or the host with it, leaves its file behind.
Crash(d) ==
    /\ Alive(d)
    /\ opened' = opened \ {d} /\ Becomes(d, "gone")
    /\ UNCHANGED <<pidFile, operator>>

DaemonStep(d) ==
    /\ Create(d) \/ Name(d) \/ Load(d) \/ Told(d) \/ Unname(d) \/ Exit(d) \/ Crash(d)
    /\ RacedIf(FALSE)

\* python -m: nobody has looked at the file.  A command that has may be about to launch
\* another, or to remove the file of the daemon it stops.
RunByHand(d) ==
    /\ life[d] = "absent"
    /\ Becomes(d, "launched")
    /\ RacedIf(cmdPc \notin {"idle", "reading", "watching"} \/ \E e \in Daemons : Engaged(e))
    /\ UNCHANGED <<pidVars, operator>>

----------------------------------------------------------------------------
(* The commands.  Each begins with read_pid_file.                          *)

ProcessMoves(what) ==
    /\ cmdPc = "idle"
    /\ processCommand' = what /\ cmdPc' = "reading"
    /\ UNCHANGED <<pidVars, life, target, raced>>

ProcessEnds == processCommand' = "none" /\ cmdPc' = "idle" /\ target' = NoFile

\* A stale file is removed: its process is gone, or it holds no PID.
ReadPid ==
    /\ cmdPc = "reading"
    /\ LET found == pidFile \in Daemons /\ Alive(pidFile)
       IN /\ IF found THEN UNCHANGED pidVars ELSE Unlink
          /\ CASE found /\ processCommand = "stop" ->
                      cmdPc' = "signalling" /\ target' = pidFile /\ UNCHANGED processCommand
               [] ~found /\ processCommand \in {"start", "foreground"} ->
                      cmdPc' = "probing" /\ UNCHANGED <<target, processCommand>>
               [] OTHER -> ProcessEnds
    /\ UNCHANGED life /\ RacedIf(\E d \in Daemons : Unnamed(d))

\* start: nothing may listen on the port, then the daemon is launched.  With --foreground
\* the command goes on as the daemon.
Launch ==
    /\ cmdPc = "probing"
    /\ IF PortTaken /\ processCommand = "start"
       THEN ProcessEnds /\ UNCHANGED life
       ELSE \E d \in Daemons :
               /\ life[d] = "absent"
               /\ Becomes(d, "launched")
               /\ IF processCommand = "start"
                  THEN target' = d /\ cmdPc' = "watching" /\ UNCHANGED processCommand
                  ELSE ProcessEnds
    /\ UNCHANGED pidVars /\ RacedIf(FALSE)

\* start reports once the daemon has exited or _EMBED_START_GRACE_SECONDS are over,
\* wherever the daemon is by then.
Started ==
    /\ cmdPc = "watching"
    /\ ProcessEnds
    /\ UNCHANGED <<pidVars, life, raced>>

\* SIGTERM ends a daemon that has not yet installed its handler at once; one that
\* serves leaves in order.
Signal ==
    /\ cmdPc = "signalling"
    /\ IF Alive(target)
       THEN /\ life' = [life EXCEPT ![target] =
                          CASE @ = "serving" -> "leaving"
                            [] @ \in {"launched", "naming", "loading"} -> "gone"
                            [] OTHER -> @]
            /\ opened' = opened \ {target}
            /\ cmdPc' = "polling" /\ UNCHANGED <<pidFile, processCommand, target>>
       ELSE Unlink /\ ProcessEnds /\ UNCHANGED life
    /\ RacedIf(FALSE)

\* After _EMBED_STOP_WAIT_SECONDS the file of a daemon still running is kept.
FileAfterWait == IF Alive(target) THEN UNCHANGED pidVars ELSE Unlink

Stopped ==
    /\ cmdPc = "polling"
    /\ FileAfterWait
    /\ ProcessEnds
    /\ UNCHANGED <<life, raced>>

Command == ReadPid \/ Launch \/ Started \/ Signal \/ Stopped

ProcessNext ==
    \/ \E d \in Daemons : DaemonStep(d) \/ RunByHand(d)
    \/ \E what \in {"start", "foreground", "stop", "status"} : ProcessMoves(what)
    \/ Command

ProcessSpec == ProcessInit /\ [][ProcessNext]_processVars

----------------------------------------------------------------------------

ProcessTypeOK ==
    /\ pidFile \in Daemons \cup {NoFile, "empty"} /\ opened \in SUBSET Daemons
    /\ life \in [Daemons -> {"absent", "launched", "naming", "loading", "serving", "leaving",
                             "unnamed", "gone"}]
    /\ processCommand \in {"none", "start", "foreground", "stop", "status"}
    /\ cmdPc \in {"idle", "reading", "probing", "watching", "signalling", "polling"}
    /\ target \in Daemons \cup {NoFile} /\ raced \in BOOLEAN

\* A daemon that listens, or was told to stop and has not yet gone, is the one the
\* PID file names: start, stop and status can find it, whatever crashed before it
\* and however long it takes to stop.  There are two ways out: a command that reads the
\* file before a daemon has written its PID finds none, and may launch another; and a
\* daemon run by hand looks at nothing.  What follows lasts until the daemons up at that
\* time, and those after them, are gone, and no longer.
LiveDaemonNamed ==
    ~raced => \A d \in Daemons : life[d] \in {"serving", "leaving"} => pidFile = d
=============================================================================
