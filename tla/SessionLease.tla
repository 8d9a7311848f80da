---------------------------- MODULE SessionLease ----------------------------
(***************************************************************************)
(* What the connector pool promises of a database session, whatever the    *)
(* cache does: a session is opened once, statements start on it while it   *)
(* is open, it may be retired at any moment, statements already running on *)
(* it finish, and it is closed once, when they have.                       *)
(***************************************************************************)
CONSTANTS Conns, Requests

VARIABLES
    state,  \* "absent", "open", "retired" or "closed"
    users   \* the requests with a statement running on the session

vars == <<state, users>>

Init ==
    /\ state = [c \in Conns |-> "absent"]
    /\ users = [c \in Conns |-> {}]

Open(c) ==
    /\ state[c] = "absent"
    /\ state' = [state EXCEPT ![c] = "open"]
    /\ UNCHANGED users

Start(r, c) ==
    /\ state[c] = "open"
    /\ \A d \in Conns : r \notin users[d]
    /\ users' = [users EXCEPT ![c] = @ \cup {r}]
    /\ UNCHANGED state

Finish(r, c) ==
    /\ r \in users[c]
    /\ users' = [users EXCEPT ![c] = @ \ {r}]
    /\ UNCHANGED state

Retire(c) ==
    /\ state[c] = "open"
    /\ state' = [state EXCEPT ![c] = "retired"]
    /\ UNCHANGED users

Close(c) ==
    /\ state[c] = "retired"
    /\ users[c] = {}
    /\ state' = [state EXCEPT ![c] = "closed"]
    /\ UNCHANGED users

Next ==
    \E c \in Conns :
        \/ Open(c) \/ Retire(c) \/ Close(c)
        \/ \E r \in Requests : Start(r, c) \/ Finish(r, c)

Spec == Init /\ [][Next]_vars
=============================================================================
