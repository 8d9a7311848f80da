--------------------------- MODULE WaitingProofs ---------------------------
(***************************************************************************)
(* What waits, and what happens while it does, for any number of requests, *)
(* sessions, calls and threads: a lookup on an abandoned thread, an encode *)
(* for a request that was answered, a parse in a child process, and a      *)
(* statement on a connector that others use.                               *)
(***************************************************************************)
EXTENDS MCLive, FoldLemmas, FiniteSetTheorems, TLAPS

----------------------------------------------------------------------------
(* LookupSession.                                                          *)

\* The threads _counted counts, which _running has not counted down yet.
Counted == {"opening", "querying", "counting"}
Live(s) == IF thread[s] \in Counted THEN 1 ELSE 0

\* _running is never below the calls on threads: what it is above them by is
\* the threads that could not be started.
CountsThreads ==
    \A s \in Sessions : Live(s) <= running[s] /\ running[s] <= Live(s) + refusals

\* A call is on a thread only while the coroutine waits for it, or after it left.
ThreadOfCoroutine ==
    \A s \in Sessions :
        /\ coPc[s] \in {"idle", "next", "scoped"} => thread[s] = "none"
        /\ coPc[s] = "opening" => thread[s] \in {"opening", "counting", "returned"}
        /\ coPc[s] = "querying" => thread[s] \in {"querying", "counting", "returned"}
        /\ thread[s] = "returned" => coPc[s] \in {"opening", "querying"}
        /\ coPc[s] = "releasing" => thread[s] \notin Counted
        /\ isClosed[s] <=> coPc[s] \in {"releasing", "over"}
        /\ thread[s] = "releasing" => isClosed[s]

\* A session holds a connector exactly while it is open, from the first
\* statement on, and it has the row filter of the session's request.
HoldsItsConnector ==
    \A s \in Sessions :
        /\ connector[s] # NoAnswer <=> life[s] = "open"
        /\ coPc[s] = "idle" => connector[s] = NoAnswer
        /\ coPc[s] \in {"scoped", "querying"} => connector[s] # NoAnswer
        /\ thread[s] = "querying" => connector[s] # NoAnswer
        /\ coPc[s] = "opening" /\ thread[s] \in {"counting", "returned"} /\ succeeded[s]
               => connector[s] # NoAnswer
        /\ connector[s] # NoAnswer => connector[s].filter = filter[s]

\* Every outcome is kept under the row filter it was computed with.
KeptUnderItsFilter ==
    \A d \in Databases, f \in Scopes :
        lookMemory[<<d, f>>] # NoAnswer => lookMemory[<<d, f>>].filter = f

\* The inductive invariant.
LookInv ==
    LookTypeOK /\ CountsThreads /\ ThreadOfCoroutine /\ HoldsItsConnector /\ KeptUnderItsFilter

\* The invariant holds before any session begins.
LEMMA LookStart == LookInit => LookInv
<1> SUFFICES ASSUME LookInit PROVE LookInv
    OBVIOUS
<1>1. entry \in Databases
    BY LookupAssumption DEF LookInit
<1>2. LookTypeOK
    BY <1>1, LookupAssumption DEF LookInit, LookTypeOK
<1>3. CountsThreads /\ ThreadOfCoroutine /\ HoldsItsConnector /\ KeptUnderItsFilter
    BY DEF LookInit, CountsThreads, ThreadOfCoroutine, HoldsItsConnector, KeptUnderItsFilter,
           Live, Counted
<1> QED
    BY <1>2, <1>3 DEF LookInv

----------------------------------------------------------------------------
(* Each step keeps the invariant.                                          *)

\* The agent's entry names another database.
LEMMA RebindLookKeeps ==
    ASSUME LookInv, NEW d \in Databases, RebindLook(d)
    PROVE  LookInv'
<1>1. LookTypeOK'
    BY LookupAssumption DEF LookInv, LookTypeOK, RebindLook, request, flags
<1>2. CountsThreads'
    BY DEF LookInv, CountsThreads, RebindLook, flags, Live
<1>3. ThreadOfCoroutine'
    BY DEF LookInv, ThreadOfCoroutine, RebindLook, flags
<1>4. HoldsItsConnector'
    BY DEF LookInv, HoldsItsConnector, RebindLook, request
<1>5. KeptUnderItsFilter'
    BY DEF LookInv, KeptUnderItsFilter, RebindLook
<1> QED
    BY <1>1, <1>2, <1>3, <1>4, <1>5 DEF LookInv

\* An outcome is dropped from the cache.
LEMMA ForgetKeeps ==
    ASSUME LookInv, NEW d \in Databases, NEW f \in Scopes, Forget(d, f)
    PROVE  LookInv'
<1>1. LookTypeOK'
    BY DEF LookInv, LookTypeOK, Forget, request, flags
<1>2. CountsThreads'
    BY DEF LookInv, CountsThreads, Forget, flags, Live
<1>3. ThreadOfCoroutine'
    BY DEF LookInv, ThreadOfCoroutine, Forget, flags
<1>4. HoldsItsConnector'
    BY DEF LookInv, HoldsItsConnector, Forget, request
<1>5. KeptUnderItsFilter'
    BY DEF LookInv, KeptUnderItsFilter, Forget
<1> QED
    BY <1>1, <1>2, <1>3, <1>4, <1>5 DEF LookInv

\* A session reads its entry and its request's filter.
LEMMA BeginKeeps ==
    ASSUME LookInv, NEW s \in Sessions, Begin(s)
    PROVE  LookInv'
<1>1. LookTypeOK'
    BY DEF LookInv, LookTypeOK, Begin, CoTo, shared, flags
<1>2. CountsThreads'
    BY DEF LookInv, CountsThreads, Begin, shared, flags, Live
<1>3. ThreadOfCoroutine'
    BY DEF LookInv, ThreadOfCoroutine, Begin, CoTo, flags
<1>4. HoldsItsConnector'
    BY DEF LookInv, HoldsItsConnector, Begin, CoTo
<1>5. KeptUnderItsFilter'
    BY DEF LookInv, KeptUnderItsFilter, Begin, shared
<1> QED
    BY <1>1, <1>2, <1>3, <1>4, <1>5 DEF LookInv

\* A literal is decided without the database, or asks for its scope.
LEMMA NextLiteralKeeps ==
    ASSUME LookInv, NEW s \in Sessions, NextLiteral(s)
    PROVE  LookInv'
<1>1. LookTypeOK'
  <2>1. left' \in [Sessions -> Nat] /\ \A u \in Sessions : left'[u] <= MaxCalls[u]
    <3>1. left \in [Sessions -> Nat] /\ \A u \in Sessions : left[u] <= MaxCalls[u]
        BY DEF LookInv, LookTypeOK
    <3>2. left[s] > 0 /\ left' = [left EXCEPT ![s] = left[s] - 1]
        BY DEF NextLiteral
    <3>3. MaxCalls[s] \in Nat
        BY LookupAssumption
    <3> QED
        BY <3>1, <3>2, <3>3
  <2>2. running' \in [Sessions -> 0..(1 + Refusals)]
      BY LookupAssumption DEF LookInv, LookTypeOK, NextLiteral, SubmitLook,
             CountsThreads, Live, Counted, ThreadOfCoroutine
  <2> QED
      BY <2>1, <2>2 DEF LookInv, LookTypeOK, NextLiteral, SubmitLook, CoTo, ThreadTo,
             shared, request
<1>2. CountsThreads'
    BY DEF LookInv, CountsThreads, NextLiteral, SubmitLook, ThreadTo, shared, Live,
           Counted, LookTypeOK, ThreadOfCoroutine
<1>3. ThreadOfCoroutine'
    BY DEF LookInv, ThreadOfCoroutine, NextLiteral, SubmitLook, CoTo, ThreadTo,
           LookTypeOK
<1>4. HoldsItsConnector'
    BY DEF LookInv, HoldsItsConnector, NextLiteral, SubmitLook, CoTo, ThreadTo, request,
           LookTypeOK
<1>5. KeptUnderItsFilter'
    BY DEF LookInv, KeptUnderItsFilter, NextLiteral, shared
<1> QED
    BY <1>1, <1>2, <1>3, <1>4, <1>5 DEF LookInv

\* A kept outcome is applied.
LEMMA HitKeeps ==
    ASSUME LookInv, NEW s \in Sessions, Hit(s)
    PROVE  LookInv'
<1>1. LookTypeOK'
    BY DEF LookInv, LookTypeOK, Hit, CoTo, shared, request, flags
<1>2. CountsThreads'
    BY DEF LookInv, CountsThreads, Hit, shared, flags, Live
<1>3. ThreadOfCoroutine'
    BY DEF LookInv, ThreadOfCoroutine, Hit, CoTo, flags
<1>4. HoldsItsConnector'
    BY DEF LookInv, HoldsItsConnector, Hit, CoTo, request
<1>5. KeptUnderItsFilter'
    BY DEF LookInv, KeptUnderItsFilter, Hit, shared
<1> QED
    BY <1>1, <1>2, <1>3, <1>4, <1>5 DEF LookInv

\* The first statement of a lookup.
LEMMA MissKeeps ==
    ASSUME LookInv, NEW s \in Sessions, Miss(s)
    PROVE  LookInv'
<1>1. LookTypeOK'
    BY LookupAssumption DEF LookInv, LookTypeOK, Miss, SubmitLook, CoTo, ThreadTo,
           shared, request, CountsThreads, Live, Counted, ThreadOfCoroutine
<1>2. CountsThreads'
    BY DEF LookInv, CountsThreads, Miss, SubmitLook, ThreadTo, shared, Live, Counted,
           LookTypeOK, ThreadOfCoroutine
<1>3. ThreadOfCoroutine'
    BY DEF LookInv, ThreadOfCoroutine, Miss, SubmitLook, CoTo, ThreadTo, LookTypeOK
<1>4. HoldsItsConnector'
    BY DEF LookInv, HoldsItsConnector, Miss, SubmitLook, CoTo, ThreadTo, request
<1>5. KeptUnderItsFilter'
    BY DEF LookInv, KeptUnderItsFilter, Miss, shared
<1> QED
    BY <1>1, <1>2, <1>3, <1>4, <1>5 DEF LookInv

\* A thread cannot be started: its call stays counted.
LEMMA ThreadRefusedKeeps ==
    ASSUME LookInv, NEW s \in Sessions, ThreadRefused(s)
    PROVE  LookInv'
<1>1. LookTypeOK'
    BY LookupAssumption DEF LookInv, LookTypeOK, ThreadRefused, CoTo, request,
           CountsThreads, Live
<1>2. CountsThreads'
    BY DEF LookInv, CountsThreads, ThreadRefused, Live, LookTypeOK
<1>3. ThreadOfCoroutine'
    BY DEF LookInv, ThreadOfCoroutine, ThreadRefused, CoTo
<1>4. HoldsItsConnector'
    BY DEF LookInv, HoldsItsConnector, ThreadRefused, CoTo, request
<1>5. KeptUnderItsFilter'
    BY DEF LookInv, KeptUnderItsFilter, ThreadRefused
<1> QED
    BY <1>1, <1>2, <1>3, <1>4, <1>5 DEF LookInv

\* The open came back.
LEMMA OpenedKeeps ==
    ASSUME LookInv, NEW s \in Sessions, Opened(s)
    PROVE  LookInv'
<1>1. LookTypeOK'
    BY DEF LookInv, LookTypeOK, Opened, CoTo, ThreadTo, shared, request
<1>2. CountsThreads'
    BY DEF LookInv, CountsThreads, Opened, LookAnswered, ThreadTo, shared, Live, Counted
<1>3. ThreadOfCoroutine'
    BY DEF LookInv, ThreadOfCoroutine, Opened, CoTo, ThreadTo, LookTypeOK
<1>4. HoldsItsConnector'
    BY DEF LookInv, HoldsItsConnector, Opened, LookAnswered, CoTo, ThreadTo, request
<1>5. KeptUnderItsFilter'
    BY DEF LookInv, KeptUnderItsFilter, Opened, shared
<1> QED
    BY <1>1, <1>2, <1>3, <1>4, <1>5 DEF LookInv

\* A lookup's next statement.
LEMMA AnotherQueryKeeps ==
    ASSUME LookInv, NEW s \in Sessions, AnotherQuery(s)
    PROVE  LookInv'
<1>1. LookTypeOK'
  <2>1. left' \in [Sessions -> Nat] /\ \A u \in Sessions : left'[u] <= MaxCalls[u]
    <3>1. left \in [Sessions -> Nat] /\ \A u \in Sessions : left[u] <= MaxCalls[u]
        BY DEF LookInv, LookTypeOK
    <3>2. left[s] > 0 /\ left' = [left EXCEPT ![s] = left[s] - 1]
        BY DEF AnotherQuery
    <3>3. MaxCalls[s] \in Nat
        BY LookupAssumption
    <3> QED
        BY <3>1, <3>2, <3>3
  <2>2. running' \in [Sessions -> 0..(1 + Refusals)]
      BY LookupAssumption DEF LookInv, LookTypeOK, AnotherQuery, LookAnswered,
             SubmitLook, CountsThreads, Live, Counted
  <2> QED
      BY <2>1, <2>2 DEF LookInv, LookTypeOK, AnotherQuery, SubmitLook, CoTo, ThreadTo,
             shared, request
<1>2. CountsThreads'
    BY DEF LookInv, CountsThreads, AnotherQuery, LookAnswered, SubmitLook, ThreadTo,
           shared, Live, Counted, LookTypeOK
<1>3. ThreadOfCoroutine'
    BY DEF LookInv, ThreadOfCoroutine, AnotherQuery, SubmitLook, CoTo, ThreadTo
<1>4. HoldsItsConnector'
    BY DEF LookInv, HoldsItsConnector, AnotherQuery, SubmitLook, CoTo, ThreadTo, request
<1>5. KeptUnderItsFilter'
    BY DEF LookInv, KeptUnderItsFilter, AnotherQuery, shared
<1> QED
    BY <1>1, <1>2, <1>3, <1>4, <1>5 DEF LookInv

\* An outcome is kept under the request's own scope.
LEMMA ConcludedKeeps ==
    ASSUME LookInv, NEW s \in Sessions, Concluded(s)
    PROVE  LookInv'
<1>1. LookTypeOK'
    BY DEF LookInv, LookTypeOK, Concluded, CoTo, ThreadTo, request, flags
<1>2. CountsThreads'
    BY DEF LookInv, CountsThreads, Concluded, LookAnswered, ThreadTo, flags, Live,
           Counted
<1>3. ThreadOfCoroutine'
    BY DEF LookInv, ThreadOfCoroutine, Concluded, CoTo, ThreadTo, flags, LookTypeOK
<1>4. HoldsItsConnector'
    BY DEF LookInv, HoldsItsConnector, Concluded, CoTo, ThreadTo, request
<1>5. KeptUnderItsFilter'
    BY DEF LookInv, KeptUnderItsFilter, Concluded, Cacheable, ScopeOf, HoldsItsConnector
<1> QED
    BY <1>1, <1>2, <1>3, <1>4, <1>5 DEF LookInv

\* A call is abandoned.
LEMMA AbandonKeeps ==
    ASSUME LookInv, NEW s \in Sessions, Abandon(s)
    PROVE  LookInv'
<1>1. LookTypeOK'
    BY DEF LookInv, LookTypeOK, Abandon, CoTo, shared, request
<1>2. CountsThreads'
    BY DEF LookInv, CountsThreads, Abandon, shared, Live
<1>3. ThreadOfCoroutine'
    BY DEF LookInv, ThreadOfCoroutine, Abandon, LookAnswered, CoTo
<1>4. HoldsItsConnector'
    BY DEF LookInv, HoldsItsConnector, Abandon, CoTo, request
<1>5. KeptUnderItsFilter'
    BY DEF LookInv, KeptUnderItsFilter, Abandon, shared
<1> QED
    BY <1>1, <1>2, <1>3, <1>4, <1>5 DEF LookInv

\* The session takes no more lookups.
LEMMA LeaveLookKeeps ==
    ASSUME LookInv, NEW s \in Sessions, LeaveLook(s)
    PROVE  LookInv'
<1>1. LookTypeOK'
    BY DEF LookInv, LookTypeOK, LeaveLook, CoTo, ThreadTo, shared, request, flags
<1>2. CountsThreads'
    BY DEF LookInv, CountsThreads, LeaveLook, LookAnswered, ThreadTo, shared, flags,
           Live, Counted
<1>3. ThreadOfCoroutine'
    BY DEF LookInv, ThreadOfCoroutine, LeaveLook, LookAnswered, CoTo, ThreadTo, flags,
           LookTypeOK
<1>4. HoldsItsConnector'
    BY DEF LookInv, HoldsItsConnector, LeaveLook, CoTo, ThreadTo, request
<1>5. KeptUnderItsFilter'
    BY DEF LookInv, KeptUnderItsFilter, LeaveLook, shared
<1> QED
    BY <1>1, <1>2, <1>3, <1>4, <1>5 DEF LookInv

\* close looks for a call still running.
LEMMA CloseKeeps ==
    ASSUME LookInv, NEW s \in Sessions, Close(s)
    PROVE  LookInv'
<1>1. LookTypeOK'
    BY DEF LookInv, LookTypeOK, Close, CoTo, shared, request
<1>2. CountsThreads'
    BY DEF LookInv, CountsThreads, Close, shared, Live
<1>3. ThreadOfCoroutine'
    BY DEF LookInv, ThreadOfCoroutine, Close, SessionIdle, CoTo, Live, LookTypeOK,
           CountsThreads
<1>4. HoldsItsConnector'
    BY DEF LookInv, HoldsItsConnector, Close, CoTo, request
<1>5. KeptUnderItsFilter'
    BY DEF LookInv, KeptUnderItsFilter, Close, shared
<1> QED
    BY <1>1, <1>2, <1>3, <1>4, <1>5 DEF LookInv

\* close releases what was opened.
LEMMA CloseReleasesKeeps ==
    ASSUME LookInv, NEW s \in Sessions, CloseReleases(s)
    PROVE  LookInv'
<1>1. LookTypeOK'
    BY DEF LookInv, LookTypeOK, CloseReleases, Released, CoTo, shared, request, flags
<1>2. CountsThreads'
    BY DEF LookInv, CountsThreads, CloseReleases, shared, flags, Live
<1>3. ThreadOfCoroutine'
    BY DEF LookInv, ThreadOfCoroutine, CloseReleases, CoTo, flags
<1>4. HoldsItsConnector'
    BY DEF LookInv, HoldsItsConnector, CloseReleases, Released, CoTo, request,
           LookTypeOK, ThreadOfCoroutine, Counted
<1>5. KeptUnderItsFilter'
    BY DEF LookInv, KeptUnderItsFilter, CloseReleases, shared
<1> QED
    BY <1>1, <1>2, <1>3, <1>4, <1>5 DEF LookInv

\* A connector is opened, or is not.
LEMMA OpenReturnsKeeps ==
    ASSUME LookInv, NEW s \in Sessions, OpenReturns(s)
    PROVE  LookInv'
<1>1. LookTypeOK'
  <2>1. connector' \in [Sessions -> AnswerLook \cup {NoAnswer}]
      BY DEF LookInv, LookTypeOK, OpenReturns, AnswerLook
  <2> QED
      BY <2>1 DEF LookInv, LookTypeOK, OpenReturns, ThreadTo, shared, request, flags
<1>2. CountsThreads'
    BY DEF LookInv, CountsThreads, OpenReturns, ThreadTo, shared, flags, Live, Counted
<1>3. ThreadOfCoroutine'
    BY DEF LookInv, ThreadOfCoroutine, OpenReturns, ThreadTo, flags, Counted
<1>4. HoldsItsConnector'
    BY LookupAssumption DEF LookInv, HoldsItsConnector, OpenReturns, ThreadTo, request,
           LookTypeOK, ThreadOfCoroutine, AnswerLook
<1>5. KeptUnderItsFilter'
    BY DEF LookInv, KeptUnderItsFilter, OpenReturns, shared
<1> QED
    BY <1>1, <1>2, <1>3, <1>4, <1>5 DEF LookInv

\* A statement comes back.
LEMMA QueryReturnsKeeps ==
    ASSUME LookInv, NEW s \in Sessions, QueryReturns(s)
    PROVE  LookInv'
<1>1. LookTypeOK'
    BY DEF LookInv, LookTypeOK, QueryReturns, ThreadTo, shared, request, flags
<1>2. CountsThreads'
    BY DEF LookInv, CountsThreads, QueryReturns, ThreadTo, shared, flags, Live, Counted
<1>3. ThreadOfCoroutine'
    BY DEF LookInv, ThreadOfCoroutine, QueryReturns, ThreadTo, flags, Counted
<1>4. HoldsItsConnector'
    BY DEF LookInv, HoldsItsConnector, QueryReturns, ThreadTo, request
<1>5. KeptUnderItsFilter'
    BY DEF LookInv, KeptUnderItsFilter, QueryReturns, shared
<1> QED
    BY <1>1, <1>2, <1>3, <1>4, <1>5 DEF LookInv

\* A call is counted down, and the last of a closed session releases.
LEMMA CountDownKeeps ==
    ASSUME LookInv, NEW s \in Sessions, CountDown(s)
    PROVE  LookInv'
<1>1. LookTypeOK'
    BY LookupAssumption DEF LookInv, LookTypeOK, CountDown, ThreadTo, shared, request,
           CountsThreads, Live, Counted
<1>2. CountsThreads'
    BY DEF LookInv, CountsThreads, CountDown, ThreadTo, shared, Live, Counted,
           LookTypeOK
<1>3. ThreadOfCoroutine'
    BY DEF LookInv, ThreadOfCoroutine, CountDown, LastOne, ThreadTo, Counted
<1>4. HoldsItsConnector'
    BY DEF LookInv, HoldsItsConnector, CountDown, ThreadTo, request
<1>5. KeptUnderItsFilter'
    BY DEF LookInv, KeptUnderItsFilter, CountDown, shared
<1> QED
    BY <1>1, <1>2, <1>3, <1>4, <1>5 DEF LookInv

\* The last call releases what was opened.
LEMMA ThreadReleasesKeeps ==
    ASSUME LookInv, NEW s \in Sessions, ThreadReleases(s)
    PROVE  LookInv'
<1>1. LookTypeOK'
    BY DEF LookInv, LookTypeOK, ThreadReleases, Released, ThreadTo, shared, request,
           flags
<1>2. CountsThreads'
    BY DEF LookInv, CountsThreads, ThreadReleases, ThreadTo, shared, flags, Live,
           Counted
<1>3. ThreadOfCoroutine'
    BY DEF LookInv, ThreadOfCoroutine, ThreadReleases, ThreadTo, flags, Counted
<1>4. HoldsItsConnector'
    BY DEF LookInv, HoldsItsConnector, ThreadReleases, Released, ThreadTo, request,
           LookTypeOK, ThreadOfCoroutine
<1>5. KeptUnderItsFilter'
    BY DEF LookInv, KeptUnderItsFilter, ThreadReleases, shared
<1> QED
    BY <1>1, <1>2, <1>3, <1>4, <1>5 DEF LookInv

----------------------------------------------------------------------------
(* The specification.                                                      *)

\* Every step of a coroutine, a thread or the entry keeps the invariant.
LEMMA LookKeeps == ASSUME LookInv, [LookNext]_lookVars PROVE LookInv'
<1>1. ASSUME NEW s \in Sessions, CoStep(s) PROVE LookInv'
    BY <1>1, BeginKeeps, NextLiteralKeeps, HitKeeps, MissKeeps, ThreadRefusedKeeps,
           OpenedKeeps, AnotherQueryKeeps, ConcludedKeeps, AbandonKeeps, LeaveLookKeeps,
           CloseKeeps, CloseReleasesKeeps DEF CoStep
<1>2. ASSUME NEW s \in Sessions, ThreadStep(s) PROVE LookInv'
    BY <1>2, OpenReturnsKeeps, QueryReturnsKeeps, CountDownKeeps, ThreadReleasesKeeps
           DEF ThreadStep
<1>3. CASE UNCHANGED lookVars
    BY <1>3 DEF LookInv, lookVars, LookTypeOK, CountsThreads, Live, ThreadOfCoroutine,
           HoldsItsConnector, KeptUnderItsFilter
<1> QED
    BY <1>1, <1>2, <1>3, RebindLookKeeps, ForgetKeeps DEF LookNext

\* The invariant of the sessions, at every step of every behaviour.
THEOREM LookInvariant == LookSpec => []LookInv
<1>1. LookInit => LookInv
    BY LookStart
<1>2. LookInv /\ [LookNext]_lookVars => LookInv'
    BY LookKeeps
<1> QED
    BY <1>1, <1>2, PTL DEF LookSpec

\* A session has at most one call on a thread, and the count of those running
\* exceeds it by the threads refused alone.
THEOREM LookTypeCorrect == LookSpec => []LookTypeOK
<1>1. LookInv => LookTypeOK
    BY DEF LookInv
<1> QED
    BY <1>1, LookInvariant, PTL

\* Neither close nor an abandoned call closes a connector under a statement.
THEOREM NeverClosedUnderQuery == LookSpec => []NoCloseUnderQuery
<1>1. LookInv => NoCloseUnderQuery
    BY DEF LookInv, HoldsItsConnector, NoCloseUnderQuery
<1> QED
    BY <1>1, LookInvariant, PTL

\* No outcome crosses from one request's row filter to another's.
THEOREM AlwaysServedUnderOwnFilter == LookSpec => ServedUnderOwnFilter
<1>1. ASSUME LookInv, NEW s \in Sessions, Hit(s) PROVE Kept(s).filter = filter[s]
  <2>1. filter[s] \in Scopes /\ key[s] \in Databases
      BY <1>1 DEF Hit, Kept, Cacheable, Declares, LookInv, LookTypeOK, Scopes
  <2> QED
      BY <1>1, <2>1 DEF Hit, Kept, Cacheable, Declares, ScopeOf, LookInv, KeptUnderItsFilter
<1>2. LookInv => \A s \in Sessions : Hit(s) => Kept(s).filter = filter[s]
    BY <1>1
<1> QED
    BY <1>2, LookInvariant, PTL DEF ServedUnderOwnFilter

----------------------------------------------------------------------------
(* EmbedServer.                                                            *)

Futures == {"none", "pending", "running", "cancelled", "done", "raised"}

\* The part of the types the proof needs.
QueueTypes ==
    /\ reqPc \in [HttpRequests ->
                     {"unsent", "gate", "inside", "waiting", "cancelling", "answered"}]
    /\ jobs \in Seq(HttpRequests \cup {Poison})
    /\ future \in [HttpRequests -> Futures]
    /\ worker \in [1..SlotLimit -> WorkerMarks \cup HttpRequests]

\* A request has a future only once its job is queued, and one it has given up
\* on waits in the queue no longer.
FutureOfRequest ==
    \A r \in HttpRequests :
        /\ reqPc[r] \in {"unsent", "gate", "inside"} => future[r] = "none"
        /\ reqPc[r] = "answered" => future[r] # "pending"

\* What is queued has not begun, and is queued once.
QueuedOnce ==
    /\ \A i \in DOMAIN jobs :
           jobs[i] # Poison => future[jobs[i]] \in {"pending", "cancelled"}
    /\ \A i, j \in DOMAIN jobs : i # j /\ jobs[i] = jobs[j] => jobs[i] = Poison

\* What an encode thread is busy with is running, and on no other thread.
EncodedOnce ==
    /\ \A w \in 1..SlotLimit : Busy(w) => future[worker[w]] = "running"
    /\ \A w, v \in 1..SlotLimit : w # v /\ Busy(w) => worker[w] # worker[v]

\* The inductive invariant.
QueueInv == QueueTypes /\ FutureOfRequest /\ QueuedOnce /\ EncodedOnce

\* The queue is empty to begin with, and no thread is busy.
LEMMA QueueStart == ServerInit => QueueInv
BY ServerAssumption
   DEF ServerInit, QueueInv, QueueTypes, FutureOfRequest, QueuedOnce, EncodedOnce, Futures, Busy,
       WorkerMarks

\* A step that neither submits, takes, ends an encode nor shuts the pool down
\* leaves the queue as it is; a request it moves keeps its future or cancels it.
LEMMA RequestKeeps ==
    ASSUME QueueInv, NEW r \in HttpRequests,
           Receive(r) \/ Enter(r) \/ SubmitFails(r) \/ Result(r) \/ TimesOut(r) \/ GiveUp(r)
    PROVE  QueueInv'
<1>1. jobs' = jobs /\ worker' = worker
    BY DEF Receive, Enter, SubmitFails, Result, TimesOut, GiveUp, pool
<1>2. reqPc' \in [HttpRequests ->
                     {"unsent", "gate", "inside", "waiting", "cancelling", "answered"}]
    BY DEF Receive, Enter, SubmitFails, Result, TimesOut, GiveUp, Answer, ReqTo, QueueInv,
           QueueTypes
<1>3. /\ future' \in [HttpRequests -> Futures]
      /\ \A q \in HttpRequests :
             future'[q] = future[q] \/ (future[q] = "pending" /\ future'[q] = "cancelled")
    BY
    DEF Receive, Enter, SubmitFails, Result, TimesOut, GiveUp, Cancelled, QueueInv, QueueTypes,
           Futures
<1>4. QueueTypes'
    BY <1>1, <1>2, <1>3 DEF QueueInv, QueueTypes
<1>5. FutureOfRequest'
  <2>1. CASE GiveUp(r)
      BY <2>1
      DEF GiveUp, Cancelled, Answer, ReqTo, QueueInv, QueueTypes, FutureOfRequest, Futures
  <2>2. CASE Receive(r) \/ Enter(r) \/ SubmitFails(r) \/ Result(r) \/ TimesOut(r)
      BY <2>2 DEF Receive, Enter, SubmitFails, Result, TimesOut, Answer, ReqTo, QueueInv,
                  QueueTypes, FutureOfRequest
  <2> QED
      BY <2>1, <2>2
<1>6. QueuedOnce'
  <2>1. \A i \in DOMAIN jobs : jobs[i] \in HttpRequests \cup {Poison}
      BY DEF QueueInv, QueueTypes
  <2> QED
      BY <1>1, <1>3, <2>1 DEF QueueInv, QueuedOnce
<1>7. EncodedOnce'
    BY <1>1, <1>3 DEF QueueInv, QueueTypes, EncodedOnce, Busy
<1> QED
    BY <1>4, <1>5, <1>6, <1>7 DEF QueueInv

\* A request submits its job once: it was queued neither now nor before.
LEMMA SubmitKeeps ==
    ASSUME QueueInv, NEW r \in HttpRequests, NEW starts \in BOOLEAN, Submit(r, starts)
    PROVE  QueueInv'
<1>1. /\ reqPc[r] = "inside" /\ reqPc' = [reqPc EXCEPT ![r] = "waiting"]
      /\ jobs' = Append(jobs, r) /\ future' = [future EXCEPT ![r] = "pending"]
    BY DEF Submit, ReqTo
<1>2. QueueTypes'
  <2>1. worker' \in [1..SlotLimit -> WorkerMarks \cup HttpRequests]
      BY DEF Submit, QueueInv, QueueTypes, WorkerMarks
  <2> QED
      BY <1>1, <2>1 DEF QueueInv, QueueTypes, Futures
<1>3. FutureOfRequest'
    BY <1>1 DEF QueueInv, QueueTypes, FutureOfRequest
<1>4. r # Poison /\ \A i \in DOMAIN jobs : jobs[i] # r
    BY <1>1, ServerAssumption DEF QueueInv, QueueTypes, FutureOfRequest, QueuedOnce
<1>5. /\ jobs \in Seq(HttpRequests \cup {Poison})
      /\ DOMAIN jobs' = 1 .. (Len(jobs) + 1) /\ DOMAIN jobs = 1 .. Len(jobs)
      /\ \A i \in DOMAIN jobs' : jobs'[i] = IF i = Len(jobs) + 1 THEN r ELSE jobs[i]
    BY <1>1 DEF QueueInv, QueueTypes
<1>6. QueuedOnce'
  <2>1. \A i \in DOMAIN jobs : jobs[i] # Poison => future'[jobs[i]] \in {"pending", "cancelled"}
      BY <1>1, <1>4, <1>5 DEF QueueInv, QueueTypes, QueuedOnce
  <2>2. future'[r] = "pending"
      BY <1>1 DEF QueueInv, QueueTypes
  <2>3. \A i \in DOMAIN jobs' : jobs'[i] # Poison => future'[jobs'[i]] \in {"pending", "cancelled"}
      BY <1>5, <2>1, <2>2
  <2>4. ASSUME NEW i \in DOMAIN jobs', NEW j \in DOMAIN jobs', i # j, jobs'[i] = jobs'[j]
        PROVE  jobs'[i] = Poison
      BY <1>4, <1>5, <2>4 DEF QueueInv, QueuedOnce
  <2> QED
      BY <2>3, <2>4 DEF QueuedOnce
<1>7. EncodedOnce'
  <2>1. \A w \in 1..SlotLimit : worker'[w] = worker[w] \/ worker'[w] = "idle"
      BY DEF Submit, QueueInv, QueueTypes
  <2>2. "idle" \notin HttpRequests
      BY ServerAssumption DEF WorkerMarks
  <2>3. \A w \in 1..SlotLimit : Busy(w) => worker[w] # r
      BY <1>1 DEF QueueInv, FutureOfRequest, EncodedOnce
  <2> QED
      BY <1>1, <2>1, <2>2, <2>3 DEF QueueInv, QueueTypes, EncodedOnce, Busy
<1> QED
    BY <1>2, <1>3, <1>6, <1>7 DEF QueueInv

\* The first job leaves the queue, to be encoded, dropped or obeyed.
LEMMA TakeKeeps == ASSUME QueueInv, NEW w \in 1..SlotLimit, Take(w) PROVE QueueInv'
<1>1. /\ jobs \in Seq(HttpRequests \cup {Poison}) /\ jobs # <<>> /\ jobs' = Tail(jobs)
      /\ reqPc' = reqPc
    BY DEF Take, QueueInv, QueueTypes
<1>2. /\ Len(jobs) > 0 /\ Head(jobs) = jobs[1] /\ jobs[1] \in HttpRequests \cup {Poison}
      /\ DOMAIN jobs = 1 .. Len(jobs) /\ DOMAIN jobs' = 1 .. (Len(jobs) - 1)
      /\ \A i \in DOMAIN jobs' : jobs'[i] = jobs[i + 1]
      /\ jobs' \in Seq(HttpRequests \cup {Poison})
    BY <1>1
<1>3. \/ future' = future /\ worker' \in {worker, [worker EXCEPT ![w] = "ended"]}
      \/ /\ jobs[1] # Poison /\ future[jobs[1]] # "cancelled"
         /\ future' = [future EXCEPT ![jobs[1]] = "running"]
         /\ worker' = [worker EXCEPT ![w] = jobs[1]]
    BY <1>2 DEF Take
<1>4. QueueTypes'
    BY <1>1, <1>2, <1>3 DEF QueueInv, QueueTypes, Futures, WorkerMarks
<1>5. FutureOfRequest'
  <2>1. jobs[1] # Poison => future[jobs[1]] \in {"pending", "cancelled"}
      BY <1>2 DEF QueueInv, QueuedOnce
  <2> QED
      BY <1>1, <1>2, <1>3, <2>1 DEF QueueInv, QueueTypes, FutureOfRequest
<1>6. \A i \in DOMAIN jobs' : i + 1 \in DOMAIN jobs /\ i + 1 # 1
    BY <1>1, <1>2
<1>7. QueuedOnce'
  <2>1. ASSUME NEW i \in DOMAIN jobs', jobs'[i] # Poison
        PROVE  future'[jobs'[i]] \in {"pending", "cancelled"}
    <3>1. jobs[i + 1] # Poison /\ jobs[i + 1] # jobs[1]
        BY <1>2, <1>6, <2>1 DEF QueueInv, QueuedOnce
    <3>2. future[jobs[i + 1]] \in {"pending", "cancelled"} /\ jobs[i + 1] \in HttpRequests
        BY <1>1, <1>6, <3>1 DEF QueueInv, QueuedOnce
    <3> QED
        BY <1>2, <1>3, <3>1, <3>2 DEF QueueInv, QueueTypes
  <2>2. ASSUME NEW i \in DOMAIN jobs', NEW j \in DOMAIN jobs', i # j, jobs'[i] = jobs'[j]
        PROVE  jobs'[i] = Poison
    <3>1. i \in Nat /\ j \in Nat /\ i + 1 # j + 1 /\ jobs[i + 1] = jobs[j + 1]
        BY <1>2, <2>2
    <3> QED
        BY <1>2, <1>6, <3>1 DEF QueueInv, QueuedOnce
  <2> QED
      BY <2>1, <2>2 DEF QueuedOnce
<1>8. EncodedOnce'
  <2>1. "ended" \notin HttpRequests
      BY ServerAssumption DEF WorkerMarks
  <2>2. CASE future' = future /\ worker' \in {worker, [worker EXCEPT ![w] = "ended"]}
    <3>1. \A v \in 1..SlotLimit : worker'[v] \in {worker[v], "ended"}
        BY <2>2 DEF QueueInv, QueueTypes
    <3>2. \A v \in 1..SlotLimit : Busy(v)' => Busy(v) /\ worker'[v] = worker[v]
        BY <2>1, <3>1 DEF Busy
    <3> QED
        BY <2>1, <2>2, <3>1, <3>2 DEF QueueInv, EncodedOnce, Busy
  <2>3. CASE /\ jobs[1] # Poison
             /\ future' = [future EXCEPT ![jobs[1]] = "running"]
             /\ worker' = [worker EXCEPT ![w] = jobs[1]]
    <3>1. jobs[1] \in HttpRequests /\ future[jobs[1]] # "running"
        BY <1>2, <2>3 DEF QueueInv, QueuedOnce
    <3>2. \A v \in 1..SlotLimit : worker[v] # jobs[1]
        BY <3>1 DEF QueueInv, EncodedOnce, Busy
    <3> QED
        BY <2>3, <3>1, <3>2 DEF QueueInv, QueueTypes, EncodedOnce, Busy
  <2> QED
      BY <1>3, <2>2, <2>3
<1> QED
    BY <1>4, <1>5, <1>7, <1>8 DEF QueueInv

\* An encode ends: its request was running, so it was queued no longer.
LEMMA EncodedKeeps == ASSUME QueueInv, NEW w \in 1..SlotLimit, Encoded(w) PROVE QueueInv'
<1>1. PICK ended \in {"done", "raised"} : future' = [future EXCEPT ![worker[w]] = ended]
    BY DEF Encoded
<1>2. /\ worker[w] \in HttpRequests /\ future[worker[w]] = "running"
      /\ worker' = [worker EXCEPT ![w] = "idle"] /\ jobs' = jobs /\ reqPc' = reqPc
    BY DEF Encoded, QueueInv, EncodedOnce, Busy
<1>3. QueueTypes'
    BY <1>1, <1>2 DEF QueueInv, QueueTypes, Futures, WorkerMarks
<1>4. FutureOfRequest'
    BY <1>1, <1>2 DEF QueueInv, QueueTypes, FutureOfRequest
<1>5. QueuedOnce'
  <2>1. \A i \in DOMAIN jobs : jobs[i] \in HttpRequests \cup {Poison}
      BY DEF QueueInv, QueueTypes
  <2> QED
      BY <1>1, <1>2, <2>1 DEF QueueInv, QueueTypes, QueuedOnce
<1>6. EncodedOnce'
  <2>1. "idle" \notin HttpRequests
      BY ServerAssumption DEF WorkerMarks
  <2> QED
      BY <1>1, <1>2, <2>1 DEF QueueInv, QueueTypes, EncodedOnce, Busy
<1> QED
    BY <1>3, <1>4, <1>5, <1>6 DEF QueueInv

\* The pool is shut down: a poison for each thread, behind the jobs.
LEMMA ShutDownKeeps == ASSUME QueueInv, ShutDown PROVE QueueInv'
<1>1. /\ jobs' = jobs \o Poisons
      /\ UNCHANGED <<reqPc, future, worker>>
    BY DEF ShutDown
<1>2. Cardinality(Started) \in Nat
  <2>1. IsFiniteSet(1..SlotLimit)
      BY FS_Interval, ServerAssumption
  <2>2. IsFiniteSet(Started)
      BY <2>1, FS_Subset DEF Started
  <2> QED
      BY <2>2, FS_CardinalityType
<1>3. /\ Poisons \in Seq({Poison}) /\ \A i \in DOMAIN Poisons : Poisons[i] = Poison
      /\ jobs \in Seq(HttpRequests \cup {Poison})
    BY <1>2 DEF Poisons, QueueInv, QueueTypes
<1>4. /\ jobs' \in Seq(HttpRequests \cup {Poison})
      /\ \A i \in DOMAIN jobs' : jobs'[i] = Poison \/ (i \in DOMAIN jobs /\ jobs'[i] = jobs[i])
    BY <1>1, <1>3
<1>5. QueueTypes' /\ FutureOfRequest' /\ EncodedOnce'
    BY <1>1, <1>4 DEF QueueInv, QueueTypes, FutureOfRequest, EncodedOnce, Busy
<1>6. QueuedOnce'
    BY <1>1, <1>4 DEF QueueInv, QueuedOnce
<1> QED
    BY <1>5, <1>6 DEF QueueInv

\* Every step of the daemon keeps the invariant.
LEMMA QueueKeeps == ASSUME QueueInv, [ServerNext]_serverVars PROVE QueueInv'
<1>1. ASSUME NEW r \in HttpRequests, Receive(r) \/ ServeStep(r) PROVE QueueInv'
    BY <1>1, RequestKeeps, SubmitKeeps DEF ServeStep
<1>2. CASE Terminate
    BY <1>2 DEF Terminate, pool, QueueInv, QueueTypes, FutureOfRequest, QueuedOnce, EncodedOnce,
                Busy
<1>3. CASE UNCHANGED serverVars
    BY <1>3 DEF serverVars, QueueInv, QueueTypes, FutureOfRequest, QueuedOnce, EncodedOnce, Busy
<1> QED
    BY <1>1, <1>2, <1>3, TakeKeeps, EncodedKeeps, ShutDownKeeps DEF ServerNext

\* The invariant of the queue, at every step of every behaviour.
THEOREM QueueInvariant == ServerSpec => []QueueInv
<1>1. ServerInit => QueueInv
    BY QueueStart
<1>2. QueueInv /\ [ServerNext]_serverVars => QueueInv'
    BY QueueKeeps
<1> QED
    BY <1>1, <1>2, PTL DEF ServerSpec

\* The requests that hold a slot of the gate.
Holding == {r \in HttpRequests : reqPc[r] \in {"inside", "waiting", "cancelling"}}

\* What a request may be answered with; 0 before it is.
Codes == {0, 200, 400, 404, 413, 415, 421, 500}

\* Every slot is free or held by a request that is inside: none is lost, and none is
\* given back twice.
GateInv ==
    /\ accepting \in BOOLEAN /\ poolClosed \in BOOLEAN
    /\ status \in [HttpRequests -> Codes]
    /\ slots \in Nat /\ slots + Cardinality(Holding) = SlotLimit

\* do_POST answers with one of its codes, whatever it is sent.
LEMMA VerdictIsCode == ASSUME NEW input PROVE Verdict(input) \in Codes
<1> DEFINE failed == {i \in DOMAIN Checks(input) : Checks(input)[i][2]}
<1>1. DOMAIN Checks(input) = 1 .. 8 /\ \A i \in 1 .. 8 : Checks(input)[i][1] \in Codes
    BY DEF Checks, Codes
<1>2. CASE failed = {}
    BY <1>2 DEF Verdict, Codes
<1>3. CASE failed # {}
  <2>1. failed \in SUBSET Nat /\ failed \subseteq 1 .. 8
      BY <1>1
  <2> HIDE DEF failed
  <2>2. PICK x \in failed : \A y \in failed : x <= y
      BY <1>3, <2>1, Least
  <2>3. Min(failed) \in failed
      BY <2>2 DEF Min
  <2>4. Verdict(input) = Checks(input)[Min(failed)][1]
      BY <1>3 DEF Verdict, failed
  <2> QED
      BY <1>1, <2>1, <2>3, <2>4
<1> QED
    BY <1>2, <1>3

\* The requests that hold a slot can be counted.
LEMMA HoldingCounts == IsFiniteSet(Holding) /\ Cardinality(Holding) \in Nat
<1>1. IsFiniteSet(HttpRequests) /\ Holding \in SUBSET HttpRequests
    BY ServerAssumption DEF Holding
<1> QED
    BY <1>1, FS_Subset, FS_CardinalityType

\* Every slot is free at first.
LEMMA GateStart == ServerInit => GateInv
<1> SUFFICES ASSUME ServerInit PROVE GateInv
    OBVIOUS
<1>1. Holding = {} /\ Cardinality({}) = 0
    BY FS_EmptySet DEF ServerInit, Holding
<1>2. SlotLimit \in Nat /\ slots = SlotLimit
    BY ServerAssumption DEF ServerInit
<1>3. slots + Cardinality(Holding) = SlotLimit
    BY ONLY <1>1, <1>2
<1>4. status \in [HttpRequests -> Codes]
    BY DEF ServerInit, Codes
<1> QED
    BY <1>2, <1>3, <1>4 DEF ServerInit, GateInv

\* A request takes a slot once, and gives back the one it took.
LEMMA GateServes ==
    ASSUME QueueInv, GateInv, NEW r \in HttpRequests, Receive(r) \/ ServeStep(r)
    PROVE  GateInv'
<1>1. /\ reqPc \in [HttpRequests -> {"unsent", "gate", "inside", "waiting", "cancelling", "answered"}]
      /\ slots \in Nat /\ Cardinality(Holding) \in Nat /\ IsFiniteSet(Holding)
      /\ slots + Cardinality(Holding) = SlotLimit
    BY HoldingCounts DEF QueueInv, QueueTypes, GateInv
<1>2. accepting' = accepting /\ poolClosed' = poolClosed
    BY DEF Receive, ServeStep, Enter, SubmitFails, Result, TimesOut, GiveUp, Submit, pool
<1>3. status' = status \/ \E code \in Codes : status' = [status EXCEPT ![r] = code]
  <2>1. CASE Receive(r)
      BY <2>1, VerdictIsCode DEF Receive, Answer
  <2>2. CASE ServeStep(r)
    <3>1. 200 \in Codes /\ 500 \in Codes
        BY DEF Codes
    <3> QED
        BY <2>2, <3>1 DEF ServeStep, Enter, SubmitFails, Result, TimesOut, GiveUp, Submit, Answer
  <2> QED
      BY <2>1, <2>2
<1>4. status' \in [HttpRequests -> Codes]
    BY <1>3 DEF GateInv
<1>5. slots' \in Nat /\ slots' + Cardinality(Holding') = SlotLimit
  <2>1. CASE Enter(r)
    <3>1. reqPc[r] = "gate" /\ reqPc' = [reqPc EXCEPT ![r] = "inside"] /\ slots' = slots - 1 /\ slots > 0
        BY <2>1 DEF Enter, ReqTo
    <3>2. r \notin Holding /\ Holding' = Holding \cup {r}
        BY <1>1, <3>1 DEF Holding
    <3>3. Cardinality(Holding') = Cardinality(Holding) + 1
        BY <1>1, <3>2, FS_AddElement
    <3> QED
        BY <1>1, <3>1, <3>3
  <2>2. CASE SubmitFails(r) \/ Result(r) \/ GiveUp(r)
    <3>1. /\ reqPc[r] \in {"inside", "waiting", "cancelling"}
          /\ reqPc' = [reqPc EXCEPT ![r] = "answered"] /\ slots' = slots + 1
        BY <2>2 DEF SubmitFails, Result, GiveUp, Answer, ReqTo, LeaveGate
    <3>2. r \in Holding /\ Holding' = Holding \ {r}
        BY <1>1, <3>1 DEF Holding
    <3>3. Cardinality(Holding') = Cardinality(Holding) - 1
        BY <1>1, <3>2, FS_RemoveElement
    <3> QED
        BY <1>1, <3>1, <3>3
  <2>3. CASE Receive(r) \/ TimesOut(r) \/ \E starts \in BOOLEAN : Submit(r, starts)
    <3>1. /\ slots' = slots
          /\ \E place \in {"gate", "answered", "waiting", "cancelling"} :
                /\ reqPc' = [reqPc EXCEPT ![r] = place]
                /\ place \in {"waiting", "cancelling"} <=> r \in Holding
      <4>1. CASE Receive(r)
          BY <1>1, <4>1 DEF Receive, Answer, ReqTo, Holding
      <4>2. CASE TimesOut(r)
          BY <1>1, <4>2 DEF TimesOut, ReqTo, Holding
      <4>3. CASE \E starts \in BOOLEAN : Submit(r, starts)
          BY <1>1, <4>3 DEF Submit, ReqTo, Holding
      <4> QED
          BY <2>3, <4>1, <4>2, <4>3
    <3>2. Holding' = Holding
        BY <1>1, <3>1 DEF Holding
    <3> QED
        BY <1>1, <3>1, <3>2
  <2> QED
      BY <2>1, <2>2, <2>3 DEF ServeStep
<1> QED
    BY <1>2, <1>4, <1>5 DEF GateInv

\* A step of a request, of the pool or of the server moves at most one slot.
LEMMA GateKeeps == ASSUME QueueInv, GateInv, [ServerNext]_serverVars PROVE GateInv'
<1>1. ASSUME /\ UNCHANGED <<reqPc, status, slots>>
             /\ accepting' \in BOOLEAN /\ poolClosed' \in BOOLEAN
      PROVE  GateInv'
    BY <1>1 DEF GateInv, Holding
<1>2. ASSUME NEW w \in 1..SlotLimit, Take(w) \/ Encoded(w) PROVE GateInv'
    BY <1>1, <1>2 DEF Take, Encoded, GateInv
<1>3. CASE Terminate \/ ShutDown \/ UNCHANGED serverVars
    BY <1>1, <1>3 DEF Terminate, ShutDown, serverVars, pool, GateInv
<1> QED
    BY <1>2, <1>3, GateServes DEF ServerNext

\* The daemon's state is what it should be, and the gate in particular never lets more
\* requests in than it has slots, and never loses one (_Gate, __enter__ and __exit__).
THEOREM ServerTypeCorrect == ServerSpec => []ServerTypeOK
<1>1. ServerInit => QueueInv /\ GateInv
    BY QueueStart, GateStart
<1>2. QueueInv /\ GateInv /\ [ServerNext]_serverVars => QueueInv' /\ GateInv'
    BY QueueKeeps, GateKeeps
<1>3. QueueInv /\ GateInv => ServerTypeOK
  <2>1. QueueInv /\ GateInv => slots \in 0..SlotLimit
      BY HoldingCounts, ServerAssumption DEF GateInv
  <2> QED
      BY <2>1 DEF QueueInv, QueueTypes, GateInv, ServerTypeOK, Codes, Futures
<1> QED
    BY <1>1, <1>2, <1>3, PTL DEF ServerSpec

\* An encode begins only when a thread takes its job, and what is queued for a
\* request that has been answered is cancelled.
LEMMA OnlyTakeBegins ==
    ASSUME QueueInv, [ServerNext]_serverVars, NEW r \in HttpRequests,
           Answered(r), future[r] # "running"
    PROVE  future'[r] # "running"
<1>1. ASSUME NEW w \in 1..SlotLimit, Take(w) PROVE future'[r] # "running"
  <2>1. /\ jobs[1] \in HttpRequests \cup {Poison} /\ 1 \in DOMAIN jobs /\ Head(jobs) = jobs[1]
      BY <1>1 DEF Take, QueueInv, QueueTypes
  <2>2. jobs[1] # Poison /\ future[jobs[1]] # "cancelled" => jobs[1] # r
      BY <2>1 DEF QueueInv, QueuedOnce, FutureOfRequest, Answered
  <2> QED
      BY <1>1, <2>1, <2>2 DEF Take, QueueInv, QueueTypes
<1>2. ASSUME NEW w \in 1..SlotLimit, Encoded(w) PROVE future'[r] # "running"
    BY <1>2 DEF Encoded, Busy, QueueInv, QueueTypes
<1>3. ASSUME NEW q \in HttpRequests, Receive(q) \/ ServeStep(q) PROVE future'[r] # "running"
    BY <1>3
    DEF Receive, ServeStep, Enter, SubmitFails, Result, TimesOut, GiveUp, Submit, Cancelled,
                QueueInv, QueueTypes
<1>4. CASE Terminate \/ ShutDown \/ UNCHANGED serverVars
    BY <1>4 DEF Terminate, ShutDown, serverVars
<1> QED
    BY <1>1, <1>2, <1>3, <1>4 DEF ServerNext

\* No encode begins for a request that has been answered, however many threads
\* take jobs and whenever the wait of _ENCODE_WAIT_SECONDS ends.
THEOREM NeverEncodedWhenGone == ServerSpec => GoneNeverEncoded
<1>1. QueueInv /\ [ServerNext]_serverVars =>
          \A r \in HttpRequests : Answered(r) /\ future[r] # "running" => future'[r] # "running"
    BY OnlyTakeBegins
<1> QED
    BY <1>1, QueueInvariant, PTL DEF ServerSpec, GoneNeverEncoded

----------------------------------------------------------------------------
(* ParseChild.                                                             *)

\* The caller goes on only when the child is reaped and what it started is ended with
\* it, and its answer is the last it does.
ReapedFirst ==
    /\ parsePc \in {"collecting", "returned"} => ~Running /\ ~started
    /\ child = "stopped" \/ parsed # "none" => parsePc = "returned"

\* A child that left by itself had its result out, and what is out was made.
ResultThenExit ==
    /\ child = "done" => output = "whole"
    /\ output # "none" \/ child = "writing" => kind \in Kinds

\* The inductive invariant.
ParseInv == ParseTypeOK /\ ReapedFirst /\ ResultThenExit /\ EndedIsRetryable

\* Nothing has been parsed when the child is started.
LEMMA ParseStart == ParseInit => ParseInv
<1>1. ParseInit => ParseTypeOK
  <2> SUFFICES ASSUME ParseInit PROVE ParseTypeOK
    OBVIOUS
  <2>1. locked \in BOOLEAN /\ started \in BOOLEAN /\ logged \in BOOLEAN
    BY DEF ParseInit
  <2>2. /\ parsePc = "sending" /\ why = "none" /\ parsed = "none"
        /\ child = "reading" /\ output = "none" /\ kind = "none" /\ clock = 0
    BY DEF ParseInit
  <2> QED
    BY <2>1, <2>2 DEF ParseTypeOK
<1>2. ParseInit => ReapedFirst /\ ResultThenExit /\ EndedIsRetryable
  BY DEF ParseInit, ReapedFirst, ResultThenExit, EndedIsRetryable, Ends
<1> QED
  BY <1>1, <1>2 DEF ParseInv

\* The child reads its instructions.
LEMMA ReadInstructionsKeeps ==
    ASSUME ParseInv, ReadInstructions
    PROVE  ParseInv'
<1>1. ParseTypeOK'
  BY DEF ParseInv, ParseTypeOK, ReadInstructions, Ends, caller, parser
<1>2. ReapedFirst'
  BY DEF ParseInv, ReapedFirst, ReadInstructions, Running, Ends, caller
<1>3. ResultThenExit'
  BY DEF ParseInv, ResultThenExit, ReadInstructions, parser
<1>4. EndedIsRetryable'
  BY DEF ParseInv, EndedIsRetryable, ReadInstructions, caller, parser
<1> QED
  BY <1>1, <1>2, <1>3, <1>4 DEF ParseInv

\* The parser works.
LEMMA ParserWorksKeeps ==
    ASSUME ParseInv, ParserWorks
    PROVE  ParseInv'
<1>1. ParseTypeOK'
  BY DEF ParseInv, ParseTypeOK, ParserWorks, caller
<1>2. ReapedFirst'
  BY DEF ParseInv, ReapedFirst, ParserWorks, Running, Ends, caller
<1>3. ResultThenExit'
  BY DEF ParseInv, ResultThenExit, ParserWorks
<1>4. EndedIsRetryable'
  BY DEF ParseInv, EndedIsRetryable, ParserWorks, caller
<1> QED
  BY <1>1, <1>2, <1>3, <1>4 DEF ParseInv

\* The parser ends.
LEMMA ParserEndsKeeps ==
    ASSUME ParseInv, ParserEnds
    PROVE  ParseInv'
<1>1. ParseTypeOK'
  BY DEF ParseInv, ParseTypeOK, ParserEnds, caller
<1>2. ReapedFirst'
  BY DEF ParseInv, ReapedFirst, ParserEnds, Running, Ends, caller
<1>3. ResultThenExit'
  BY DEF ResultThenExit, ParserEnds
<1>4. EndedIsRetryable'
  BY DEF ParseInv, EndedIsRetryable, ParserEnds, Running, Ends, caller, ReapedFirst
<1> QED
  BY <1>1, <1>2, <1>3, <1>4 DEF ParseInv

\* The result goes out.
LEMMA WriteResultKeeps ==
    ASSUME ParseInv, WriteResult
    PROVE  ParseInv'
<1>1. ParseTypeOK'
  BY DEF ParseInv, ParseTypeOK, WriteResult, caller, parser
<1>2. ReapedFirst'
  BY DEF ParseInv, ReapedFirst, WriteResult, Running, Ends, caller
<1>3. ResultThenExit'
  BY DEF ParseInv, ResultThenExit, WriteResult, parser
<1>4. EndedIsRetryable'
  BY DEF ParseInv, EndedIsRetryable, WriteResult, caller
<1> QED
  BY <1>1, <1>2, <1>3, <1>4 DEF ParseInv

\* The child leaves with its result out.
LEMMA FinishParseKeeps ==
    ASSUME ParseInv, FinishParse
    PROVE  ParseInv'
<1>1. ParseTypeOK'
  BY DEF ParseInv, ParseTypeOK, FinishParse, Ends, caller, parser, ChildEnds
<1>2. ReapedFirst'
  BY DEF ParseInv, ReapedFirst, FinishParse, Running, Ends, caller, ChildEnds
<1>3. ResultThenExit'
  BY DEF ParseInv, ResultThenExit, FinishParse, parser, ChildEnds
<1>4. EndedIsRetryable'
  BY DEF ParseInv, EndedIsRetryable, FinishParse, caller, parser, ChildEnds
<1> QED
  BY <1>1, <1>2, <1>3, <1>4 DEF ParseInv

\* The child dies.
LEMMA DiesKeeps ==
    ASSUME ParseInv, Dies
    PROVE  ParseInv'
<1>1. ParseTypeOK'
  BY DEF ParseInv, ParseTypeOK, Dies, Ends, caller, parser, ChildEnds
<1>2. ReapedFirst'
  BY DEF ParseInv, ReapedFirst, Dies, caller, ChildEnds
<1>3. ResultThenExit'
  BY DEF ParseInv, ResultThenExit, Dies, parser, ChildEnds
<1>4. EndedIsRetryable'
  BY DEF ParseInv, EndedIsRetryable, Dies, Running, Ends, caller, parser, ChildEnds
<1> QED
  BY <1>1, <1>2, <1>3, <1>4 DEF ParseInv

\* The limit on CPU time ends the child.
LEMMA UsesUpCpuKeeps ==
    ASSUME ParseInv, UsesUpCpu
    PROVE  ParseInv'
<1>1. ParseTypeOK'
  BY DEF ParseInv, ParseTypeOK, UsesUpCpu, Ends, caller, parser, ChildEnds
<1>2. ReapedFirst'
  BY DEF ParseInv, ReapedFirst, UsesUpCpu, Running, Ends, caller, parser, ChildEnds
<1>3. ResultThenExit'
  BY DEF ParseInv, ResultThenExit, UsesUpCpu, parser, ChildEnds
<1>4. EndedIsRetryable'
  BY DEF ParseInv, EndedIsRetryable, UsesUpCpu, caller, parser, ChildEnds, Armed
<1> QED
  BY <1>1, <1>2, <1>3, <1>4 DEF ParseInv

\* The watchdog ends the child.
LEMMA WatchdogKeeps ==
    ASSUME ParseInv, Watchdog
    PROVE  ParseInv'
<1>1. ParseTypeOK'
  BY DEF ParseInv, ParseTypeOK, Watchdog, Ends, caller
<1>2. ReapedFirst'
  BY DEF ParseInv, ReapedFirst, Watchdog, Running, Ends, caller
<1>3. ResultThenExit'
  BY DEF ParseInv, ResultThenExit, Watchdog
<1>4. EndedIsRetryable'
  BY DEF ParseInv, EndedIsRetryable, Watchdog, caller, Armed
<1> QED
  BY <1>1, <1>2, <1>3, <1>4 DEF ParseInv

\* The alarm ends the child.
LEMMA AlarmKeeps ==
    ASSUME ParseInv, Alarm
    PROVE  ParseInv'
<1>1. ParseTypeOK'
  BY DEF ParseInv, ParseTypeOK, Alarm, Ends, caller, parser, ChildEnds
<1>2. ReapedFirst'
  BY DEF ParseInv, ReapedFirst, Alarm, Running, Ends, caller, parser, ChildEnds
<1>3. ResultThenExit'
  BY DEF ParseInv, ResultThenExit, Alarm, parser, ChildEnds
<1>4. EndedIsRetryable'
  BY DEF ParseInv, EndedIsRetryable, Alarm, caller, parser, ChildEnds, Armed
<1> QED
  BY <1>1, <1>2, <1>3, <1>4 DEF ParseInv

\* Time passes.
LEMMA TimePassesKeeps ==
    ASSUME ParseInv, TimePasses
    PROVE  ParseInv'
<1>1. ParseTypeOK'
  BY DEF ParseInv, ParseTypeOK, TimePasses, caller, parser
<1>2. ReapedFirst'
  BY DEF ParseInv, ReapedFirst, TimePasses, caller
<1>3. ResultThenExit'
  BY DEF ParseInv, ResultThenExit, TimePasses, parser
<1>4. EndedIsRetryable'
  BY DEF ParseInv, EndedIsRetryable, TimePasses, caller, parser
<1> QED
  BY <1>1, <1>2, <1>3, <1>4 DEF ParseInv

\* The caller goes on.
LEMMA CallerStepKeeps ==
    ASSUME ParseInv, CallerStep
    PROVE  ParseInv'
<1>1. ParseTypeOK'
  BY DEF ParseInv, ParseTypeOK, CallerStep, Ends, parser, SendParsed, Waited, Deadline,
         Stops, Stop, Collect, Reported, Death, GroupEnded, ChildAnswers, Kinds
<1>2. ReapedFirst'
  BY DEF ParseInv, ReapedFirst, CallerStep, Running, Ends, parser, SendParsed, Waited,
         Deadline, Stops, Stop, Collect, GroupEnded
<1>3. ResultThenExit'
  BY DEF ParseInv, ResultThenExit, CallerStep, parser, SendParsed, Waited, Deadline,
         Stops, Stop, Collect
<1>4. EndedIsRetryable'
  BY DEF ParseInv, EndedIsRetryable, CallerStep, Running, Ends, parser, SendParsed,
         Waited, Deadline, Stops, Stop, Collect, Reported, Death, StoppedItself, Kinds,
         ParseTypeOK, ReapedFirst, ResultThenExit
<1> QED
  BY <1>1, <1>2, <1>3, <1>4 DEF ParseInv

\* The caller is to stop.
LEMMA InterruptedKeeps ==
    ASSUME ParseInv, Interrupted
    PROVE  ParseInv'
<1>1. ParseTypeOK'
  BY DEF ParseInv, ParseTypeOK, Interrupted, parser, Stops
<1>2. ReapedFirst'
  BY DEF ParseInv, ReapedFirst, Interrupted, Stops
<1>3. ResultThenExit'
  BY DEF ParseInv, ResultThenExit, Interrupted, parser, Stops
<1>4. EndedIsRetryable'
  BY DEF ParseInv, EndedIsRetryable, Interrupted, parser, Stops
<1> QED
  BY <1>1, <1>2, <1>3, <1>4 DEF ParseInv

\* The caller is killed.
LEMMA CallerKilledKeeps ==
    ASSUME ParseInv, CallerKilled
    PROVE  ParseInv'
<1>1. ParseTypeOK'
  BY DEF ParseInv, ParseTypeOK, CallerKilled, parser
<1>2. ReapedFirst'
  BY DEF ParseInv, ReapedFirst, CallerKilled
<1>3. ResultThenExit'
  BY DEF ParseInv, ResultThenExit, CallerKilled, parser
<1>4. EndedIsRetryable'
  BY DEF ParseInv, EndedIsRetryable, CallerKilled, parser
<1> QED
  BY <1>1, <1>2, <1>3, <1>4 DEF ParseInv

\* The four hold at every step of caller, child and kernel.
THEOREM ParseInvariant == ParseSpec => []ParseInv
<1>1. ParseInit => ParseInv
  BY ParseStart
<1>2. ParseInv /\ [ParseNext]_parseVars => ParseInv'
  <2>1. ASSUME ParseInv, UNCHANGED parseVars PROVE ParseInv'
    BY <2>1 DEF parseVars, ParseInv, ParseTypeOK, ReapedFirst, ResultThenExit, EndedIsRetryable,
       Running
  <2> QED
    BY <2>1, ReadInstructionsKeeps, ParserWorksKeeps, ParserEndsKeeps, WriteResultKeeps,
       FinishParseKeeps, DiesKeeps, UsesUpCpuKeeps, WatchdogKeeps, AlarmKeeps, TimePassesKeeps,
       CallerStepKeeps, InterruptedKeeps, CallerKilledKeeps
    DEF ParseNext
<1> QED
  BY <1>1, <1>2, PTL DEF ParseSpec

\* What caller, child and pipe can be, at every step.
THEOREM ParseTypeCorrect == ParseSpec => []ParseTypeOK
<1>1. ParseInv => ParseTypeOK
  BY DEF ParseInv
<1> QED
  BY <1>1, ParseInvariant, PTL

\* Whatever ended a parse, the caller's answer comes after the child and all it
\* started, and tells an end that may be tried again from a failure of the parser.
THEOREM ParsesEnd == ParseSpec => []ParseEnded
<1>1. ParseInv => ParseEnded
  BY DEF ParseInv, ReapedFirst, ParseEnded, NothingLeftRunning
<1> QED
  BY <1>1, ParseInvariant, PTL

----------------------------------------------------------------------------
(* ConnectorQuery.                                                         *)

----------------------------------------------------------------------------
(* The designs.                                                            *)

Transactional == {"plain", "readonly"}

DesignFields ==
    [shared : BOOLEAN, wait : {"none", "bounded", "forever"},
     opens : {"none", "plain", "readonly", "file"}, ends : {"nothing", "rollback", "commit"},
     ddl : {"joins", "commits"}, stops : {"any", "selects", "nothing", "watchdog"}, result : {"cursor", "connection"}, retries : BOOLEAN]

\* What the designs share: a session with a transaction is waited for, and a
\* transaction that is not read-only is rolled back and never tried again.
LEMMA DesignsAgree ==
    ASSUME NEW d \in Designs
    PROVE  /\ d \in DesignFields
           /\ d.opens \in Transactional /\ d.shared => d.wait # "none"
           /\ d.opens = "plain" => d.ends = "rollback" /\ ~d.retries
<1>1. CASE d = Snowflake
    BY <1>1 DEF Snowflake, DesignFields, Transactional
<1>2. CASE d = Redshift
    BY <1>2 DEF Redshift, Snowflake, DesignFields, Transactional
<1>3. CASE d = SQLite
    BY <1>3 DEF SQLite, DesignFields, Transactional
<1>4. CASE d = DuckDB
    BY <1>4 DEF DuckDB, SQLite, DesignFields, Transactional
<1>5. CASE d = Postgres
    BY <1>5 DEF Postgres, DesignFields, Transactional
<1>6. CASE d = MSSQL
    BY <1>6 DEF MSSQL, Postgres, DesignFields, Transactional
<1>7. CASE d = BigQuery
    BY <1>7 DEF BigQuery, Postgres, DesignFields, Transactional
<1>8. CASE d = GenericPostgres
    BY <1>8 DEF GenericPostgres, Postgres, DesignFields, Transactional
<1>9. CASE d = GenericMariaDB
    BY <1>9 DEF GenericMariaDB, GenericPostgres, Postgres, DesignFields, Transactional
<1>10. CASE d = GenericMySQL
    BY <1>10 DEF GenericMySQL, GenericMariaDB, GenericPostgres, Postgres, DesignFields,
                 Transactional
<1>11. CASE d = GenericOracle
    BY <1>11 DEF GenericOracle, GenericMariaDB, GenericPostgres, Postgres, DesignFields,
                 Transactional
<1>12. CASE d = GenericOther
    BY <1>12 DEF GenericOther, GenericMariaDB, GenericPostgres, Postgres, DesignFields,
                 Transactional
<1> QED
    BY <1>1, <1>2, <1>3, <1>4, <1>5, <1>6, <1>7, <1>8, <1>9, <1>10, <1>11, <1>12 DEF Designs

----------------------------------------------------------------------------
(* The inductive invariant.                                                *)

\* The connector is one of the designs.
Designed ==
    /\ design \in DesignFields
    /\ design.opens \in Transactional /\ design.shared => design.wait # "none"
    /\ design.opens = "plain" => design.ends = "rollback" /\ ~design.retries

Inside(q) == queryPc[q] \in {"held", "opened", "running", "reading", "ending", "releasing"}

\* Calls on one session are kept apart from BEGIN to the end of the transaction.
OneAtATime ==
    design.opens \in Transactional /\ design.shared =>
        \A q \in Queries : Inside(q) => txnLock = q

\* A statement runs in the transaction its connector opens, its own or one a
\* failed rollback left behind.
InItsTransaction ==
    design.opens \in Transactional =>
        /\ \A s \in ServerSessions : tx[s] \in {"none", design.opens}
        /\ \A q \in Queries :
               queryPc[q] \in {"opened", "running"} => tx[SessionOf(q)] = design.opens

\* Only a transaction that is not read-only holds writes.
HeldWrites ==
    design.opens \in {"readonly", "file"} => \A s \in ServerSessions : unsaved[s] = {}

\* On a connection of its own a call finds nothing that another one wrote.
OwnIsFresh ==
    ~design.shared =>
        \A q \in Queries :
            queryPc[q] \in {"called", "held", "opened", "running"} => unsaved[q] = {}

\* The inductive invariant.
QueryInv ==
    /\ QueryTypeOK /\ Designed /\ OneAtATime /\ InItsTransaction /\ HeldWrites
    /\ OwnIsFresh /\ NothingCommitted

\* Every query has a session to run on.
LEMMA QuerySessions == ASSUME NEW q \in Queries PROVE SessionOf(q) \in ServerSessions
BY DEF SessionOf, ServerSessions

\* The invariant holds before any call.
LEMMA QueryStart == QueryInit => QueryInv
<1> SUFFICES ASSUME QueryInit PROVE QueryInv
    OBVIOUS
<1>1. QueryTypeOK
    BY DEF QueryInit, QueryTypeOK
<1>2. Designed
    BY ConnectorAssumption, DesignsAgree DEF QueryInit, Designed
<1>3. OneAtATime /\ InItsTransaction /\ HeldWrites /\ OwnIsFresh /\ NothingCommitted
    BY DEF QueryInit, OneAtATime, InItsTransaction, HeldWrites, OwnIsFresh, NothingCommitted,
           Inside, ServerSessions
<1> QED
    BY <1>1, <1>2, <1>3 DEF QueryInv

----------------------------------------------------------------------------
(* Each step keeps the invariant.                                          *)

USE QueryAssumption

\* A call takes its turn.
LEMMA AcquireKeeps == ASSUME QueryInv, NEW q \in Queries, Acquire(q) PROVE QueryInv'
<1>1. QueryTypeOK'
    BY DEF QueryInv, QueryTypeOK, Acquire, Goes, data, config
<1>2. Designed'
    BY DEF QueryInv, Designed, Acquire, config
<1>3. OneAtATime'
    BY DEF QueryInv, OneAtATime, Acquire, Goes, config, Inside, Designed, ServerSessions
<1>4. InItsTransaction'
    BY DEF QueryInv, InItsTransaction, Acquire, Goes, data, config, SessionOf
<1>5. HeldWrites'
    BY DEF QueryInv, HeldWrites, Acquire, data, config
<1>6. NothingCommitted'
    BY DEF QueryInv, NothingCommitted, Acquire, data, config
<1>7. OwnIsFresh'
    BY DEF QueryInv, OwnIsFresh, Acquire, Goes, data, config
<1> QED
    BY <1>1, <1>2, <1>3, <1>4, <1>5, <1>6, <1>7 DEF QueryInv

\* A call gives up its turn.
LEMMA TurnGivenUpKeeps == ASSUME QueryInv, NEW q \in Queries, TurnGivenUp(q) PROVE QueryInv'
<1>1. QueryTypeOK'
    BY DEF QueryInv, QueryTypeOK, TurnGivenUp, Goes, Answers, data, config
<1>2. Designed'
    BY DEF QueryInv, Designed, TurnGivenUp, config
<1>3. OneAtATime'
    BY DEF QueryInv, OneAtATime, TurnGivenUp, Goes, config, Inside
<1>4. InItsTransaction'
    BY DEF QueryInv, InItsTransaction, TurnGivenUp, Goes, data, config, SessionOf
<1>5. HeldWrites'
    BY DEF QueryInv, HeldWrites, TurnGivenUp, data, config
<1>6. NothingCommitted'
    BY DEF QueryInv, NothingCommitted, TurnGivenUp, data, config
<1>7. OwnIsFresh'
    BY DEF QueryInv, OwnIsFresh, TurnGivenUp, Goes, data, config
<1> QED
    BY <1>1, <1>2, <1>3, <1>4, <1>5, <1>6, <1>7 DEF QueryInv

\* A transaction is opened.
LEMMA OpenKeeps == ASSUME QueryInv, NEW q \in Queries, Open(q) PROVE QueryInv'
<1>1. QueryTypeOK'
    BY DEF QueryInv, QueryTypeOK, Open, Goes, Answers, config
<1>2. Designed'
    BY DEF QueryInv, Designed, Open, config
<1>3. OneAtATime'
    BY DEF QueryInv, OneAtATime, Open, Goes, config, QueryTypeOK, Inside
<1>4. InItsTransaction'
    BY QuerySessions DEF QueryInv, InItsTransaction, Open, Goes, config, QueryTypeOK,
           Transactional, SessionOf
<1>5. HeldWrites'
    BY DEF QueryInv, HeldWrites, Open, config
<1>6. NothingCommitted'
    BY DEF QueryInv, NothingCommitted, Open, config
<1>7. OwnIsFresh'
    BY DEF QueryInv, OwnIsFresh, Open, Goes, config, QueryTypeOK
<1> QED
    BY <1>1, <1>2, <1>3, <1>4, <1>5, <1>6, <1>7 DEF QueryInv

\* A statement starts.
LEMMA StartKeeps == ASSUME QueryInv, NEW q \in Queries, Start(q) PROVE QueryInv'
<1>1. QueryTypeOK'
    BY DEF QueryInv, QueryTypeOK, Start, Goes, data, config
<1>2. Designed'
    BY DEF QueryInv, Designed, Start, config
<1>3. OneAtATime'
    BY DEF QueryInv, OneAtATime, Start, Goes, config, Inside
<1>4. InItsTransaction'
    BY DEF QueryInv, InItsTransaction, Start, Goes, data, config, SessionOf
<1>5. HeldWrites'
    BY DEF QueryInv, HeldWrites, Start, data, config
<1>6. NothingCommitted'
    BY DEF QueryInv, NothingCommitted, Start, data, config
<1>7. OwnIsFresh'
    BY DEF QueryInv, OwnIsFresh, Start, Goes, data, config
<1> QED
    BY <1>1, <1>2, <1>3, <1>4, <1>5, <1>6, <1>7 DEF QueryInv

\* A statement runs.
LEMMA ExecuteKeeps == ASSUME QueryInv, NEW q \in Queries, Execute(q) PROVE QueryInv'
<1>1. QueryTypeOK'
  <2>1. /\ tx' \in [ServerSessions -> {"none", "plain", "readonly"}]
        /\ unsaved' \in [ServerSessions -> SUBSET Queries]
        /\ written' \subseteq Queries /\ altered' \subseteq Queries
      BY QuerySessions DEF QueryInv, QueryTypeOK, Execute, Write, CommitsAround, data
  <2> QED
      BY <2>1 DEF QueryInv, QueryTypeOK, Execute, Goes, config
<1>2. Designed'
    BY DEF QueryInv, Designed, Execute, config
<1>3. OneAtATime'
    BY DEF QueryInv, OneAtATime, Execute, Goes, config, Inside
<1>4. InItsTransaction'
    BY QuerySessions DEF QueryInv, InItsTransaction, Execute, Write, CommitsAround, Goes, data,
           config, QueryTypeOK, OneAtATime, Inside, SessionOf
<1>5. HeldWrites'
    BY DEF QueryInv, HeldWrites, Execute, Write, CommitsAround, data, config,
           InItsTransaction, Transactional, QueryTypeOK
<1>6. NothingCommitted'
  <2>1. CASE CommitsAround(q)
    <3>1. altered' # {}
        BY <2>1 DEF CommitsAround
    <3>2. CASE ~design.shared
        BY <2>1, <3>2 DEF QueryInv, NothingCommitted, OwnIsFresh, Execute, CommitsAround, config,
               SessionOf
    <3> QED
        BY <3>1, <3>2 DEF NothingCommitted, Execute, config, QueryInv, Designed, DesignFields
  <2>2. CASE Write(q) \/ UNCHANGED data
      BY <2>2 DEF QueryInv, NothingCommitted, Execute, Write, data, config, Designed,
             DesignFields, InItsTransaction, Transactional
  <2> QED
      BY <2>1, <2>2 DEF Execute
<1>7. OwnIsFresh'
    BY DEF QueryInv, OwnIsFresh, Execute, Write, CommitsAround, Goes, data, config, QueryTypeOK, SessionOf,
           ServerSessions
<1> QED
    BY <1>1, <1>2, <1>3, <1>4, <1>5, <1>6, <1>7 DEF QueryInv

\* A statement fails.
LEMMA FailKeeps == ASSUME QueryInv, NEW q \in Queries, Fail(q) PROVE QueryInv'
<1>1. QueryTypeOK'
    BY DEF QueryInv, QueryTypeOK, Fail, Goes, Answers, data, config
<1>2. Designed'
    BY DEF QueryInv, Designed, Fail, config
<1>3. OneAtATime'
    BY DEF QueryInv, OneAtATime, Fail, Active, Goes, config, Inside
<1>4. InItsTransaction'
    BY DEF QueryInv, InItsTransaction, Fail, Goes, data, config, SessionOf
<1>5. HeldWrites'
    BY DEF QueryInv, HeldWrites, Fail, data, config
<1>6. NothingCommitted'
    BY DEF QueryInv, NothingCommitted, Fail, data, config
<1>7. OwnIsFresh'
    BY DEF QueryInv, OwnIsFresh, Fail, Goes, data, config
<1> QED
    BY <1>1, <1>2, <1>3, <1>4, <1>5, <1>6, <1>7 DEF QueryInv

\* A snapshot is refused, and asked for once more.
LEMMA SnapshotRefusedKeeps == ASSUME QueryInv, NEW q \in Queries, SnapshotRefused(q) PROVE QueryInv'
<1>1. QueryTypeOK'
  <2>1. tries' \in [Queries -> 1..2] /\ queryPc' = [queryPc EXCEPT ![q] = "held"]
      BY DEF QueryInv, QueryTypeOK, SnapshotRefused, Goes
  <2> QED
      BY <2>1 DEF QueryInv, QueryTypeOK, SnapshotRefused, config
<1>2. Designed'
    BY DEF QueryInv, Designed, SnapshotRefused, config
<1>3. OneAtATime'
    BY DEF QueryInv, OneAtATime, SnapshotRefused, Goes, config, Inside
<1>4. InItsTransaction'
    BY DEF QueryInv, InItsTransaction, SnapshotRefused, Goes, config, QueryTypeOK,
           OneAtATime, Inside, SessionOf
<1>5. HeldWrites'
    BY DEF QueryInv, HeldWrites, SnapshotRefused, config
<1>6. NothingCommitted'
    BY DEF QueryInv, NothingCommitted, SnapshotRefused, config
<1>7. OwnIsFresh'
    BY DEF QueryInv, OwnIsFresh, SnapshotRefused, Goes, config
<1> QED
    BY <1>1, <1>2, <1>3, <1>4, <1>5, <1>6, <1>7 DEF QueryInv

\* Rows are read.
LEMMA ReadKeeps == ASSUME QueryInv, NEW q \in Queries, Read(q) PROVE QueryInv'
<1>1. QueryTypeOK'
    BY DEF QueryInv, QueryTypeOK, Read, Goes, Answers, data, config
<1>2. Designed'
    BY DEF QueryInv, Designed, Read, config
<1>3. OneAtATime'
    BY DEF QueryInv, OneAtATime, Read, Goes, config, Inside
<1>4. InItsTransaction'
    BY DEF QueryInv, InItsTransaction, Read, Goes, data, config, SessionOf
<1>5. HeldWrites'
    BY DEF QueryInv, HeldWrites, Read, data, config
<1>6. NothingCommitted'
    BY DEF QueryInv, NothingCommitted, Read, data, config
<1>7. OwnIsFresh'
    BY DEF QueryInv, OwnIsFresh, Read, Goes, data, config
<1> QED
    BY <1>1, <1>2, <1>3, <1>4, <1>5, <1>6, <1>7 DEF QueryInv

\* The transaction ends.
LEMMA EndKeeps == ASSUME QueryInv, NEW q \in Queries, End(q) PROVE QueryInv'
<1>1. QueryTypeOK'
  <2>1. /\ tx' \in [ServerSessions -> {"none", "plain", "readonly"}]
        /\ unsaved' \in [ServerSessions -> SUBSET Queries]
        /\ written' \subseteq Queries /\ altered' \subseteq Queries
      BY QuerySessions DEF QueryInv, QueryTypeOK, End, data
  <2>2. watchdog' \in [Queries -> {"off", "armed", "due"}]
      BY DEF QueryInv, QueryTypeOK, End, Disarmed
  <2> QED
      BY <2>1, <2>2 DEF QueryInv, QueryTypeOK, End, Goes, config
<1>2. Designed'
    BY DEF QueryInv, Designed, End, config
<1>3. OneAtATime'
    BY DEF QueryInv, OneAtATime, End, Goes, config, Inside
<1>4. InItsTransaction'
    BY QuerySessions DEF QueryInv, InItsTransaction, End, Goes, data, config, QueryTypeOK,
           OneAtATime, Inside, SessionOf
<1>5. HeldWrites'
    BY DEF QueryInv, HeldWrites, End, data, config, QueryTypeOK
<1>6. NothingCommitted'
    BY QuerySessions DEF QueryInv, NothingCommitted, End, data, config, Designed,
           DesignFields, HeldWrites
<1>7. OwnIsFresh'
    BY DEF QueryInv, OwnIsFresh, End, Goes, data, config, QueryTypeOK, SessionOf, ServerSessions
<1> QED
    BY <1>1, <1>2, <1>3, <1>4, <1>5, <1>6, <1>7 DEF QueryInv

\* A call gives its turn back.
LEMMA ReleaseTurnKeeps == ASSUME QueryInv, NEW q \in Queries, ReleaseTurn(q) PROVE QueryInv'
<1>1. QueryTypeOK'
    BY DEF QueryInv, QueryTypeOK, ReleaseTurn, Goes, data, config
<1>2. Designed'
    BY DEF QueryInv, Designed, ReleaseTurn, config
<1>3. OneAtATime'
    BY DEF QueryInv, OneAtATime, ReleaseTurn, Goes, config, QueryTypeOK, Inside
<1>4. InItsTransaction'
    BY DEF QueryInv, InItsTransaction, ReleaseTurn, Goes, data, config, SessionOf
<1>5. HeldWrites'
    BY DEF QueryInv, HeldWrites, ReleaseTurn, data, config
<1>6. NothingCommitted'
    BY DEF QueryInv, NothingCommitted, ReleaseTurn, data, config
<1>7. OwnIsFresh'
    BY DEF QueryInv, OwnIsFresh, ReleaseTurn, Goes, data, config
<1> QED
    BY <1>1, <1>2, <1>3, <1>4, <1>5, <1>6, <1>7 DEF QueryInv

\* A timer's wait is over.
LEMMA DueKeeps == ASSUME QueryInv, NEW q \in Queries, Due(q) PROVE QueryInv'
<1>1. QueryTypeOK'
    BY DEF QueryInv, QueryTypeOK, Due, data, config
<1>2. Designed'
    BY DEF QueryInv, Designed, Due, config
<1>3. OneAtATime'
    BY DEF QueryInv, OneAtATime, Due, config, Inside
<1>4. InItsTransaction'
    BY DEF QueryInv, InItsTransaction, Due, data, config, SessionOf
<1>5. HeldWrites'
    BY DEF QueryInv, HeldWrites, Due, data, config
<1>6. NothingCommitted'
    BY DEF QueryInv, NothingCommitted, Due, data, config
<1>7. OwnIsFresh'
    BY DEF QueryInv, OwnIsFresh, Due, data, config
<1> QED
    BY <1>1, <1>2, <1>3, <1>4, <1>5, <1>6, <1>7 DEF QueryInv

\* A timer interrupts.
LEMMA InterruptKeeps == ASSUME QueryInv, NEW q \in Queries, Interrupt(q) PROVE QueryInv'
<1>1. QueryTypeOK'
    BY DEF QueryInv, QueryTypeOK, Interrupt, Goes, Answers, data, config
<1>2. Designed'
    BY DEF QueryInv, Designed, Interrupt, config
<1>3. OneAtATime'
    BY DEF QueryInv, OneAtATime, Interrupt, Active, Goes, config, QueryTypeOK, Inside
<1>4. InItsTransaction'
    BY DEF QueryInv, InItsTransaction, Interrupt, Goes, data, config, QueryTypeOK,
           SessionOf
<1>5. HeldWrites'
    BY DEF QueryInv, HeldWrites, Interrupt, data, config
<1>6. NothingCommitted'
    BY DEF QueryInv, NothingCommitted, Interrupt, data, config
<1>7. OwnIsFresh'
    BY DEF QueryInv, OwnIsFresh, Interrupt, Active, Goes, data, config, QueryTypeOK
<1> QED
    BY <1>1, <1>2, <1>3, <1>4, <1>5, <1>6, <1>7 DEF QueryInv

----------------------------------------------------------------------------
(* The specification.                                                      *)

\* Every step of every call and timer keeps the invariant.
LEMMA QueryKeeps == ASSUME QueryInv, [QueryNext]_queryVars PROVE QueryInv'
<1>1. ASSUME NEW q \in Queries, CancelledByServer(q) PROVE QueryInv'
    BY <1>1, FailKeeps DEF CancelledByServer
<1>2. ASSUME NEW q \in Queries, QueryStep(q) PROVE QueryInv'
    BY <1>1, <1>2, AcquireKeeps, TurnGivenUpKeeps, OpenKeeps, StartKeeps, ExecuteKeeps,
       FailKeeps,
       SnapshotRefusedKeeps, ReadKeeps, EndKeeps, ReleaseTurnKeeps, DueKeeps, InterruptKeeps
       DEF QueryStep
<1>3. CASE UNCHANGED queryVars
    BY <1>3
    DEF queryVars, QueryInv, QueryTypeOK, Designed, OneAtATime, InItsTransaction, HeldWrites,
                OwnIsFresh, NothingCommitted, Inside, SessionOf
<1> QED
    BY <1>2, <1>3 DEF QueryNext

\* The invariant of the calls, at every step of every behaviour.
THEOREM QueryInvariant == QuerySpec => []QueryInv
<1>1. QueryInit => QueryInv
    BY QueryStart
<1>2. QueryInv /\ [QueryNext]_queryVars => QueryInv'
    BY QueryKeeps
<1> QED
    BY <1>1, <1>2, PTL DEF QuerySpec

\* No statement is tried a third time, whatever refuses it.
THEOREM QueryTypeCorrect == QuerySpec => []QueryTypeOK
<1>1. QueryInv => QueryTypeOK
    BY DEF QueryInv
<1> QED
    BY <1>1, QueryInvariant, PTL

\* No write of a statement outlives its call, however many calls overlap, fail,
\* are interrupted or leave a transaction open behind them; but for what a database
\* that commits around a schema change lets stand.
THEOREM NothingIsCommitted == QuerySpec => []NothingCommitted
<1>1. QueryInv => NothingCommitted
    BY DEF QueryInv
<1> QED
    BY <1>1, QueryInvariant, PTL

----------------------------------------------------------------------------
(* EmbedClient.                                                            *)

\* What a request comes to.
LEMMA RepliesAre == Replies \subseteq {"absent", "failing", "answer"}
BY DEF Replies

\* A thread is asked for a vector.
LEMMA CallKeepsTypes ==
    ASSUME ClientTypeOK, NEW t \in Embedders, Call(t) \/ Compare(t) \/ EmbedOwn(t)
    PROVE  ClientTypeOK'
<1>1. CASE Call(t)
    BY <1>1 DEF Call, EmbTo, world, remembered, ClientTypeOK
<1>2. CASE Compare(t)
    BY <1>2 DEF Compare, MismatchAfter, EmbTo, world, ClientTypeOK
<1>3. CASE EmbedOwn(t)
    BY <1>3 DEF EmbedOwn, EndsWith, EmbTo, world, remembered, ClientTypeOK
<1> QED
    BY <1>1, <1>2, <1>3

\* A request that is not answered leaves what is remembered as it should be.
LEMMA FailsKeepsTypes ==
    ASSUME ClientTypeOK, NEW t \in Embedders, NEW reply, Fails(t, reply)
    PROVE  /\ checked' \in BOOLEAN /\ absent' \in BOOLEAN /\ attempted' \in BOOLEAN
           /\ embPc' \in [Embedders -> {"idle", "asking", "comparing", "agreed", "sending", "own"}]
           /\ outcome' \in [Embedders -> Models \cup {"none", "own", "error"}]
BY DEF Fails, AbsentAfter, EndsWith, EmbTo, ClientTypeOK

\* It asks the daemon.
LEMMA RequestKeepsTypes ==
    ASSUME ClientTypeOK, NEW t \in Embedders, AskHealth(t) \/ Agree(t) \/ Send(t)
    PROVE  ClientTypeOK'
<1>1. daemon = "down" => "answer" \notin Replies
    BY DEF Replies
<1>2. ASSUME NEW reply, Fails(t, reply),
             UNCHANGED <<daemon, busy, required, own, mismatch, reported>>
      PROVE  ClientTypeOK'
    BY <1>2, FailsKeepsTypes DEF ClientTypeOK
<1>3. CASE AskHealth(t)
  <2>1. PICK reply \in Replies :
            IF reply = "answer"
            THEN /\ reported' = [reported EXCEPT ![t] = daemon]
                 /\ EmbTo(t, "comparing")
                 /\ UNCHANGED <<remembered, outcome, attempted>>
            ELSE Fails(t, reply) /\ UNCHANGED <<mismatch, reported>>
      BY <1>3 DEF AskHealth
  <2>2. UNCHANGED <<daemon, busy, required, own>>
      BY <1>3 DEF AskHealth, world
  <2>3. CASE reply = "answer"
    <3>1. daemon \in Models
        BY <1>1, <2>3 DEF ClientTypeOK
    <3> QED
        BY <2>1, <2>2, <2>3, <3>1 DEF EmbTo, remembered, ClientTypeOK
  <2>4. CASE reply # "answer"
      BY <1>2, <2>1, <2>2, <2>4
  <2> QED
      BY <2>3, <2>4
<1>4. CASE Agree(t)
  <2>1. UNCHANGED <<daemon, busy, required, own, reported>>
      BY <1>4 DEF Agree, world
  <2>2. CASE mismatch
      BY <1>2, <1>4, <2>1, <2>2 DEF Agree
  <2>3. CASE ~mismatch
      BY <1>4, <2>1, <2>3 DEF Agree, EmbTo, remembered, ClientTypeOK
  <2> QED
      BY <2>2, <2>3
<1>5. CASE Send(t)
  <2>1. PICK reply \in Replies :
            IF reply = "answer"
            THEN /\ \E next \in {"sending", "idle"} : EmbTo(t, next)
                 /\ outcome' = [outcome EXCEPT ![t] = daemon]
                 /\ UNCHANGED <<remembered, attempted>>
            ELSE Fails(t, reply) /\ UNCHANGED mismatch
      BY <1>5 DEF Send
  <2>2. UNCHANGED <<daemon, busy, required, own, reported>>
      BY <1>5 DEF Send, world
  <2>3. CASE reply = "answer"
    <3>1. daemon \in Models
        BY <1>1, <2>3 DEF ClientTypeOK
    <3> QED
        BY <2>1, <2>2, <2>3, <3>1 DEF EmbTo, remembered, ClientTypeOK
  <2>4. CASE reply # "answer"
      BY <1>2, <2>1, <2>2, <2>4
  <2> QED
      BY <2>3, <2>4
<1> QED
    BY <1>3, <1>4, <1>5

\* The daemon starts, stops or stalls, and its absence is forgotten.
LEMMA WorldKeepsTypes ==
    ASSUME ClientTypeOK,
           (\E m \in Models : DaemonStarts(m)) \/ DaemonStops \/ DaemonStalls \/ AbsenceForgotten
    PROVE  ClientTypeOK'
BY DEF DaemonStarts, DaemonStops, DaemonStalls, AbsenceForgotten, world, remembered, ClientTypeOK

\* What the threads share is what it should be, whatever they interleave: an outcome is a
\* vector of a daemon that answered, one of the own model, or an error.
THEOREM ClientTypeCorrect == ClientSpec => []ClientTypeOK
<1>1. ClientInit => ClientTypeOK
    BY DEF ClientInit, ClientTypeOK, Models
<1>2. ClientTypeOK /\ [ClientNext]_clientVars => ClientTypeOK'
  <2>1. ASSUME ClientTypeOK, UNCHANGED clientVars PROVE ClientTypeOK'
      BY <2>1 DEF clientVars, ClientTypeOK
  <2> QED
      BY <2>1, CallKeepsTypes, RequestKeepsTypes, WorldKeepsTypes DEF ClientNext, ThreadEmbeds
<1> QED
    BY <1>1, <1>2, PTL DEF ClientSpec

----------------------------------------------------------------------------
(* The components together.                                                *)

\* Every component that waits for somebody is in one of the states it should be in.
THEOREM WaitingTypesCorrect ==
    LookSpec /\ ServerSpec /\ ClientSpec /\ QuerySpec /\ ParseSpec => []MCTypeOK
<1>1. LookTypeOK /\ ServerTypeOK /\ ClientTypeOK /\ QueryTypeOK /\ ParseTypeOK => MCTypeOK
    BY DEF MCTypeOK
<1> QED
    BY <1>1, LookTypeCorrect, ServerTypeCorrect, ClientTypeCorrect, QueryTypeCorrect,
       ParseTypeCorrect, PTL
=============================================================================
