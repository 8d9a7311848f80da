---------------------------- MODULE EmbedServer ----------------------------
(***************************************************************************)
(* The embedding daemon (embeddings/embed_server.py): request threads that *)
(* pass do_POST's checks, wait at _Gate, hand their encode to _EncodePool, *)
(* and give up on it after _ENCODE_WAIT_SECONDS; encode threads that are   *)
(* started as work arrives; and the shutdown that server_close begins.     *)
(***************************************************************************)
EXTENDS EmbedWire

CONSTANTS
    HttpRequests,  \* requests the daemon is sent
    RequestInputs, \* what a request may be; see EmbedWire
    SlotLimit      \* EMBED_SERVER_MAX_CONCURRENCY: the gate's slots and the pool's size

Poison == "stop"   \* the None shutdown puts, one for each thread

WorkerMarks == {"absent", "idle", "ended"}   \* of a thread that encodes nothing

ASSUME ServerAssumption ==
    /\ SlotLimit \in Nat \ {0} /\ IsFiniteSet(HttpRequests)
    /\ (WorkerMarks \cup {Poison}) \cap HttpRequests = {}

VARIABLES
    accepting,  \* serve_forever runs; after SIGTERM nothing more is accepted
    reqPc,      \* where a request's thread is
    status,     \* the status it answered; 0 while it has not
    slots,      \* free slots of _Gate._semaphore
    jobs,       \* _EncodePool._jobs
    future,     \* the state of a request's Future
    worker,     \* [1..SlotLimit -> ...]: the encode threads, by their place in _threads
    poolClosed  \* _EncodePool._closed

serverVars == <<accepting, reqPc, status, slots, jobs, future, worker, poolClosed>>
pool == <<jobs, worker, poolClosed>>

Started == {w \in 1..SlotLimit : worker[w] # "absent"}
Idle(w) == worker[w] = "idle"
Busy(w) == worker[w] \in HttpRequests
Answered(r) == reqPc[r] = "answered"

ServerInit ==
    /\ accepting = TRUE
    /\ reqPc = [r \in HttpRequests |-> "unsent"]
    /\ status = [r \in HttpRequests |-> 0]
    /\ slots = SlotLimit
    /\ jobs = <<>>
    /\ future = [r \in HttpRequests |-> "none"]
    /\ worker = [w \in 1..SlotLimit |-> "absent"]
    /\ poolClosed = FALSE

ReqTo(r, place) == reqPc' = [reqPc EXCEPT ![r] = place]

Answer(r, code) ==
    /\ ReqTo(r, "answered")
    /\ status' = [status EXCEPT ![r] = code]

----------------------------------------------------------------------------
(* A request's thread: do_POST and _encode.                                *)

\* The early returns of do_POST; one that passes them all goes on to the gate.
Receive(r) ==
    /\ accepting /\ reqPc[r] = "unsent"
    /\ \E input \in RequestInputs :
          IF Verdict(input) = 200
          THEN ReqTo(r, "gate") /\ UNCHANGED status
          ELSE Answer(r, Verdict(input))
    /\ UNCHANGED <<accepting, slots, future, pool>>

\* Mutant: the slot is given back only on the way through, as acquire() and
\* release() around the encode would.
SlotKeptOnTimeout(code) == IF code = 503 THEN slots ELSE slots + 1

\* _Gate.__exit__: the slot comes back however the block ends.
LeaveGate(code) == slots + 1

Enter(r) ==
    /\ reqPc[r] = "gate" /\ slots > 0
    /\ slots' = slots - 1
    /\ ReqTo(r, "inside")
    /\ UNCHANGED <<accepting, status, future, pool>>

\* submit: under the pool's lock a thread is started when fewer than size run, or
\* cannot be; with none at all the request fails, otherwise its job queues.
StartsThread == Cardinality(Started) < SlotLimit

Submit(r, starts) ==
    /\ reqPc[r] = "inside" /\ ~poolClosed
    /\ starts \/ Started # {}
    /\ starts => StartsThread
    /\ jobs' = Append(jobs, r)
    /\ future' = [future EXCEPT ![r] = "pending"]
    /\ worker' = IF starts THEN [worker EXCEPT ![Cardinality(Started) + 1] = "idle"] ELSE worker
    /\ ReqTo(r, "waiting")
    /\ UNCHANGED <<accepting, status, slots, poolClosed>>

\* submit raises: the pool is shut down, or the host has no thread for the first worker.
SubmitFails(r) ==
    /\ reqPc[r] = "inside"
    /\ poolClosed \/ Started = {}
    /\ Answer(r, 500)
    /\ slots' = LeaveGate(500)
    /\ UNCHANGED <<accepting, future, pool>>

Result(r) ==
    /\ reqPc[r] = "waiting" /\ future[r] \in {"done", "raised"}
    /\ Answer(r, IF future[r] = "done" THEN 200 ELSE 500)
    /\ slots' = LeaveGate(500)
    /\ UNCHANGED <<accepting, future, pool>>

\* result() ran out of time; cancel() comes after it, and the job may start between.
TimesOut(r) ==
    /\ reqPc[r] = "waiting" /\ future[r] \in {"pending", "running"}
    /\ ReqTo(r, "cancelling")
    /\ UNCHANGED <<accepting, status, slots, future, pool>>

\* Mutant: a job given up is left in the queue.
NotCancelled(r) == future

\* Future.cancel: only a job not yet running is cancelled.
Cancelled(r) == IF future[r] = "pending" THEN [future EXCEPT ![r] = "cancelled"] ELSE future

GiveUp(r) ==
    /\ reqPc[r] = "cancelling"
    /\ future' = Cancelled(r)
    /\ Answer(r, 500)
    /\ slots' = LeaveGate(503)
    /\ UNCHANGED <<accepting, pool>>

ServeStep(r) ==
    \/ Enter(r) \/ SubmitFails(r) \/ Result(r) \/ TimesOut(r) \/ GiveUp(r)
    \/ \E starts \in BOOLEAN : Submit(r, starts)

----------------------------------------------------------------------------
(* An encode thread: _work.                                                *)

Take(w) ==
    /\ Idle(w) /\ jobs # <<>>
    /\ jobs' = Tail(jobs)
    /\ LET job == Head(jobs)
       IN CASE job = Poison ->
                  /\ worker' = [worker EXCEPT ![w] = "ended"]
                  /\ UNCHANGED future
            [] job # Poison /\ future[job] = "cancelled" -> UNCHANGED <<worker, future>>
            [] OTHER ->
                  /\ worker' = [worker EXCEPT ![w] = job]
                  /\ future' = [future EXCEPT ![job] = "running"]
    /\ UNCHANGED <<accepting, reqPc, status, slots, poolClosed>>

\* The encode returns or raises; it may also never do either.
Encoded(w) ==
    /\ Busy(w)
    /\ \E outcome \in {"done", "raised"} : future' = [future EXCEPT ![worker[w]] = outcome]
    /\ worker' = [worker EXCEPT ![w] = "idle"]
    /\ UNCHANGED <<accepting, reqPc, status, slots, jobs, poolClosed>>

----------------------------------------------------------------------------
(* SIGTERM: serve_forever ends, and server_close shuts the pool down.      *)

Terminate ==
    /\ accepting
    /\ accepting' = FALSE
    /\ UNCHANGED <<reqPc, status, slots, future, pool>>

Poisons == [i \in 1..Cardinality(Started) |-> Poison]

ShutDown ==
    /\ ~accepting /\ ~poolClosed
    /\ poolClosed' = TRUE
    /\ jobs' = jobs \o Poisons
    /\ UNCHANGED <<accepting, reqPc, status, slots, future, worker>>

ServerNext ==
    \/ \E r \in HttpRequests : Receive(r) \/ ServeStep(r)
    \/ \E w \in 1..SlotLimit : Take(w) \/ Encoded(w)
    \/ Terminate \/ ShutDown

----------------------------------------------------------------------------
(* Fairness.  A request's thread runs, its wait of _ENCODE_WAIT_SECONDS    *)
(* ends, an encode thread takes its next job and a closing server closes.  *)
(* Nothing is assumed of an encode, which may hang, or of SIGTERM.         *)

ServerFairness ==
    /\ \A r \in HttpRequests : WF_serverVars(ServeStep(r))
    /\ \A w \in 1..SlotLimit : WF_serverVars(Take(w))
    /\ WF_serverVars(ShutDown)

ServerSpec == ServerInit /\ [][ServerNext]_serverVars /\ ServerFairness

----------------------------------------------------------------------------

ServerTypeOK ==
    /\ accepting \in BOOLEAN /\ poolClosed \in BOOLEAN
    /\ reqPc \in [HttpRequests -> {"unsent", "gate", "inside", "waiting", "cancelling", "answered"}]
    /\ status \in [HttpRequests -> {0, 200, 400, 404, 413, 415, 421, 500}]
    /\ slots \in 0..SlotLimit
    /\ jobs \in Seq(HttpRequests \cup {Poison})
    /\ future \in [HttpRequests -> {"none", "pending", "running", "cancelled", "done", "raised"}]
    /\ worker \in [1..SlotLimit -> WorkerMarks \cup HttpRequests]

\* No encode begins for a request that has been answered: the time an encode takes
\* is never spent on a client that has gone while live requests queue behind it.
GoneNeverEncoded ==
    [][\A r \in HttpRequests : Answered(r) /\ future[r] # "running" => future'[r] # "running"]_serverVars

\* Every request past do_POST's checks is answered, even when every encode hangs:
\* a stuck encode costs its own thread, never the gate's slot.
EveryRequestAnswered ==
    \A r \in HttpRequests : reqPc[r] = "gate" ~> Answered(r)

\* After server_close every encode thread that is not stuck in an encode ends.
IdleThreadsEnd ==
    \A w \in 1..SlotLimit : poolClosed ~> (worker[w] \in {"absent", "ended"} \/ Busy(w))

\* "with every thread started this never queues inside the pool" (embed_server.py:699):
\* once all are started, there is an idle thread for each live job.
NeverQueuesWhole ==
    Cardinality(Started) = SlotLimit /\ ~poolClosed =>
        Cardinality({i \in DOMAIN jobs : future[jobs[i]] = "pending"})
            <= Cardinality({w \in 1..SlotLimit : Idle(w)})
=============================================================================
