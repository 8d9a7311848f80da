----------------------------- MODULE Admission -----------------------------
(***************************************************************************)
(* What stands between a caller and a tool of the MCP server: guard        *)
(* (auth/enforcement.py) decides whether the principal may do this, then   *)
(* takes an admission slot (auth/admission.py), runs the tool, and gives   *)
(* the slot back. Calls of several principals interleave; acquire and      *)
(* release are each atomic, under AdmissionControl._lock.                  *)
(*                                                                         *)
(* The clock counts units of which Window make a rate window; a tool ends  *)
(* by its answer, its exception, its timeout or its cancellation, which    *)
(* guard treats alike.                                                     *)
(***************************************************************************)
EXTENDS Naturals, FiniteSets, Sequences

CONSTANTS
    Calls,         \* calls the server handles at once
    Subjects,      \* principals, by subject
    Actions, Agents, NoAgent,
    Agentless,     \* AGENTLESS_ACTIONS
    Grants,        \* the grants of each subject: records of actions and agents
    RateLimit,     \* calls per window; 0 disables
    MaxConcurrent, \* calls in flight; 0 disables
    Window,        \* _WINDOW_SECONDS
    MaxTime,       \* bound on the clock
    NoWindow, NoCall

ASSUME FiniteAssumption == IsFiniteSet(Calls)
ASSUME LimitAssumption == /\ RateLimit \in Nat
                          /\ MaxConcurrent \in Nat
                          /\ Window \in Nat \ {0}
                          /\ MaxTime \in Nat

\* The tools whose action is about no agent take no agent_id.
Call == {c \in [subject : Subjects, action : Actions, agent : Agents \cup {NoAgent}] :
             c.action \in Agentless => c.agent = NoAgent}
RateWindow == [started : 0..MaxTime, count : 0..RateLimit]
Grant == [actions : SUBSET Actions, agents : SUBSET Agents]

ASSUME NullAssumption == NoWindow \notin RateWindow /\ NoCall \notin Call
ASSUME GrantAssumption == Grants \in [Subjects -> SUBSET Grant]

VARIABLES
    now,      \* time.monotonic()
    windows,  \* _windows: the rate window of each subject
    inFlight, \* _in_flight: 0 for a subject it does not hold
    pc,       \* where each call is in guard
    call,     \* who calls, for what, on which agent
    passed    \* history: when each call the rate limit let through was made

vars == <<now, windows, inFlight, pc, call, passed>>

Running(s) == {k \in Calls : pc[k] = "body" /\ call[k].subject = s}

----------------------------------------------------------------------------
Init ==
    /\ now = 0
    /\ windows = [s \in Subjects |-> NoWindow]
    /\ inFlight = [s \in Subjects |-> 0]
    /\ pc = [k \in Calls |-> "idle"]
    /\ call = [k \in Calls |-> NoCall]
    /\ passed = [s \in Subjects |-> <<>>]

Tick ==
    /\ now < MaxTime
    /\ now' = now + 1
    /\ UNCHANGED <<windows, inFlight, pc, call, passed>>

\* A call reaches guard: its principal, and the agent its arguments name.
Arrive(k, c) ==
    /\ pc[k] = "idle"
    /\ pc' = [pc EXCEPT ![k] = "decide"]
    /\ call' = [call EXCEPT ![k] = c]
    /\ UNCHANGED <<now, windows, inFlight, passed>>

----------------------------------------------------------------------------
(* _decide. Both decisions are recorded; the records are left out here.    *)

\* An action that is about an agent, and no agent in the arguments.
Undetermined(c) == c.action \notin Agentless /\ c.agent = NoAgent

\* Some one grant of the subject covers the call.
Covers(c) ==
    \E g \in Grants[c.subject] :
        c.action \in g.actions /\ (c.action \in Agentless \/ c.agent \in g.agents)

\* The call is over; its caller has an answer or an exception.
Return(k) ==
    /\ pc' = [pc EXCEPT ![k] = "idle"]
    /\ call' = [call EXCEPT ![k] = NoCall]

DecideRefuses(k) ==
    /\ pc[k] = "decide"
    /\ Undetermined(call[k]) \/ ~Covers(call[k])
    /\ Return(k)
    /\ UNCHANGED <<now, windows, inFlight, passed>>

DecideAllows(k) ==
    /\ pc[k] = "decide"
    /\ ~Undetermined(call[k]) /\ Covers(call[k])
    /\ pc' = [pc EXCEPT ![k] = "admit"]
    /\ UNCHANGED <<now, windows, inFlight, call, passed>>

----------------------------------------------------------------------------
(* _admit and acquire.                                                     *)

Expired(w) == now - w.started >= Window

\* acquire opens a window for a subject without one, or whose own has
\* expired, and sweeps out every window that has expired.
RollsOver(s) == windows[s] = NoWindow \/ Expired(windows[s])

\* Mutant of Kept: the sweep drops every window but the caller's.
KeptNone(t) == NoWindow

Kept(t) == IF windows[t] # NoWindow /\ Expired(windows[t]) THEN NoWindow ELSE windows[t]

Current(s) ==
    IF RollsOver(s)
    THEN [t \in Subjects |-> IF t = s THEN [started |-> now, count |-> 0] ELSE Kept(t)]
    ELSE windows

\* Mutant of OverRate: the test is off by one.
OverRateByOne(s) == RateLimit > 0 /\ Current(s)[s].count > RateLimit

OverRate(s) == RateLimit > 0 /\ Current(s)[s].count >= RateLimit

Busy(s) == MaxConcurrent > 0 /\ inFlight[s] >= MaxConcurrent

\* One call is charged to the window of s, whatever becomes of it.
Charge(s) ==
    windows' = IF RateLimit = 0 THEN windows ELSE [Current(s) EXCEPT ![s].count = @ + 1]

\* The history of the calls that got past the rate limit.
Passed(s) ==
    passed' = IF RateLimit = 0 THEN passed ELSE [passed EXCEPT ![s] = Append(@, now)]

RefuseRate(k) ==
    LET s == call[k].subject IN
    /\ pc[k] = "admit"
    /\ OverRate(s)
    /\ windows' = Current(s)
    /\ Return(k)
    /\ UNCHANGED <<now, inFlight, passed>>

\* Mutant of RefuseBusy: the slot is taken inside the try, so a refused call
\* gives a slot back as well.
RefuseBusyReleases(k) ==
    LET s == call[k].subject IN
    /\ pc[k] = "admit"
    /\ ~OverRate(s) /\ Busy(s)
    /\ Charge(s) /\ Passed(s)
    /\ inFlight' = [inFlight EXCEPT ![s] = IF @ > 1 THEN @ - 1 ELSE 0]
    /\ Return(k)
    /\ UNCHANGED now

RefuseBusy(k) ==
    LET s == call[k].subject IN
    /\ pc[k] = "admit"
    /\ ~OverRate(s) /\ Busy(s)
    /\ Charge(s) /\ Passed(s)
    /\ Return(k)
    /\ UNCHANGED <<now, inFlight>>

Admit(k) ==
    LET s == call[k].subject IN
    /\ pc[k] = "admit"
    /\ ~OverRate(s) /\ ~Busy(s)
    /\ Charge(s) /\ Passed(s)
    /\ inFlight' = [inFlight EXCEPT ![s] = IF MaxConcurrent > 0 THEN @ + 1 ELSE @]
    /\ pc' = [pc EXCEPT ![k] = "body"]
    /\ UNCHANGED <<now, call>>

\* The tool is over, by an answer, an exception, its timeout or a
\* cancellation, and guard's finally releases the slot. A subject that gives
\* back its last one leaves the map.
Finish(k) ==
    LET s == call[k].subject IN
    /\ pc[k] = "body"
    /\ inFlight' = [inFlight EXCEPT ![s] = IF MaxConcurrent > 0 /\ @ > 1 THEN @ - 1 ELSE 0]
    /\ Return(k)
    /\ UNCHANGED <<now, windows, passed>>

CallStep(k) ==
    \/ \E c \in Call : Arrive(k, c)
    \/ DecideRefuses(k) \/ DecideAllows(k)
    \/ RefuseRate(k) \/ RefuseBusy(k) \/ Admit(k)
    \/ Finish(k)

Next == Tick \/ \E k \in Calls : CallStep(k)

Spec == Init /\ [][Next]_vars

----------------------------------------------------------------------------
(* Properties.                                                             *)

\* The types of the variables; a window never counts past the limit.
TypeOK ==
    /\ now \in 0..MaxTime
    /\ windows \in [Subjects -> RateWindow \cup {NoWindow}]
    /\ inFlight \in [Subjects -> Nat]
    /\ pc \in [Calls -> {"idle", "decide", "admit", "body"}]
    /\ call \in [Calls -> Call \cup {NoCall}]
    /\ \A k \in Calls : pc[k] # "idle" => call[k] \in Call
    /\ passed \in [Subjects -> Seq(0..MaxTime)]

\* The slots a subject holds are its tools that are running, no more (a
\* leaked slot is permanent) and no fewer, whichever of its calls were
\* refused in between (acquire, release and guard's finally); so never more
\* of its tools run than the limit allows.
SlotsAreCalls ==
    MaxConcurrent > 0 =>
        \A s \in Subjects : /\ inFlight[s] = Cardinality(Running(s))
                            /\ inFlight[s] <= MaxConcurrent

\* Whatever the other subjects do and whenever the sweep runs, at most twice
\* the limit of a subject's calls get past the rate limit within one window's
\* length, a full concurrency pool or not ("a burst of up to twice the limit
\* across a boundary", the docstring of admission.py).
BurstBound ==
    \A s \in Subjects : \A i, j \in DOMAIN passed[s] :
        j - i >= 2 * RateLimit => passed[s][j] - passed[s][i] >= Window

\* The calls of s that the rate limit let through less than a window ago.
Recent(s) == {i \in DOMAIN passed[s] : now - passed[s][i] < Window}

\* A subject is refused for its rate only if it has itself made RateLimit
\* calls within the last window: it cannot be refused on another's account,
\* nor by a window that should have expired.
RefusedOnlyWhenSpent ==
    [][\A k \in Calls : RefuseRate(k) => Cardinality(Recent(call[k].subject)) >= RateLimit]_vars

\* The windows kept never grow stale together: no two of them are a window
\* apart, so the map holds no subject that was last seen before the sweep of
\* the most recent rollover.
KeptWindowsOverlap ==
    \A s, t \in Subjects :
        windows[s] # NoWindow /\ windows[t] # NoWindow
            => windows[s].started - windows[t].started < Window

\* No tool runs but by one grant that names both its action and the agent
\* its arguments name, and none that should name an agent runs without one.
GrantedOnly ==
    \A k \in Calls : pc[k] = "body" =>
        \E g \in Grants[call[k].subject] :
            /\ call[k].action \in g.actions
            /\ call[k].action \in Agentless \/ call[k].agent \in g.agents
=============================================================================
