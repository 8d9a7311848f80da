------------------------ MODULE ConnectorPoolProofs ------------------------
(***************************************************************************)
(* Proofs about the connector pool, for every set of ids, requests,        *)
(* callers and connector objects and every value of the limits.            *)
(***************************************************************************)
EXTENDS ConnectorPool, TLAPS, FiniteSetTheorems

----------------------------------------------------------------------------
(* The inductive invariant.                                                *)

\* A request that is past its first open has a connector in its wrapper.
HasConnector ==
    \A r \in Requests :
        \/ pc[r] \in {"put", "evict", "ready", "enter", "reread", "running", "leave"}
        \/ pc[r] \in {"lookup", "drop", "build"} /\ attempt[r] > 0
        => inner[r] \in Conns /\ Built(inner[r])

\* A turn that has not begun has reopened nothing.
NoEarlyAttempt == \A r \in Requests : pc[r] = "idle" => attempt[r] = 0

\* A turn under way has an id.
HasId == \A r \in Requests : pc[r] \notin {"idle", "done"} => want[r] \in Ids

\* What the pool refers to has been built.
RefersToBuilt ==
    /\ \A i \in Ids : cache[i] # NoEntry => Built(cache[i].conn)
    /\ \A t \in Threads : \A c \in todo[t] : Built(c)
    /\ \A t \in Threads : victim[t] # NoConn => Built(victim[t])
    /\ \A c \in Conns : deferred[c] \/ closing[c] => Built(c)

\* The use count of a connector is the number of statements running on it.
CountsUsers == \A c \in Conns : count[c] = Cardinality(Users(c))

\* Only a thread between two statements is releasing a connector.
ReleasesBetween ==
    \A t \in Threads :
        victim[t] # NoConn => pc[t] \in {"drop", "evict", "sweep", "leave"}

\* A raw handle about to be released is refused to newcomers and unused.
VictimIsIdle ==
    \A t \in Threads :
        victim[t] # NoConn /\ IsHandle(victim[t])
            => closing[victim[t]] /\ count[victim[t]] = 0

DeferredIsClosing == \A c \in Conns : IsHandle(c) /\ deferred[c] => closing[c]

\* A raw handle nobody asked to close is open.
OpenUntilClosing == \A c \in Conns : IsHandle(c) /\ ~closing[c] => held[c]

UsedIsHeld == \A c \in Conns : count[c] > 0 => held[c]

IInv ==
    /\ TypeOK
    /\ HasConnector /\ NoEarlyAttempt /\ HasId /\ RefersToBuilt
    /\ CountsUsers /\ ReleasesBetween
    /\ VictimIsIdle /\ DeferredIsClosing /\ OpenUntilClosing /\ UsedIsHeld

----------------------------------------------------------------------------
(* The recency order stays a sequence of ids.                              *)

\* Dropping an id from the recency order leaves a sequence of ids.
LEMMA WithoutType ==
    ASSUME NEW S, NEW s \in Seq(S), NEW e
    PROVE  Without(s, e) \in Seq(S)
<1>1. CASE \E k \in 1..Len(s) : s[k] = e
  <2> DEFINE m == CHOOSE k \in 1..Len(s) : s[k] = e
  <2>1. m \in 1..Len(s)
    BY <1>1
  <2> HIDE DEF m
  <2>2. SubSeq(s, 1, m-1) \in Seq(S) /\ SubSeq(s, m+1, Len(s)) \in Seq(S)
    BY <2>1
  <2>3. RemoveAt(s, m) \in Seq(S)
    BY <2>2 DEF RemoveAt
  <2> QED BY <1>1, <2>3 DEF Without, m
<1>2. CASE ~ \E k \in 1..Len(s) : s[k] = e
  BY <1>2 DEF Without
<1> QED BY <1>1, <1>2

\* Nor does storing an id and popping the excess (_cache_put) change that.
LEMMA PutOrderType ==
    ASSUME NEW S, NEW s \in Seq(S), NEW e \in S
    PROVE  LET order == Append(Without(s, e), e)
           IN  SubSeq(order, Excess(order) + 1, Len(order)) \in Seq(S)
<1> DEFINE order == Append(Without(s, e), e)
<1>1. order \in Seq(S)
  BY WithoutType
<1> HIDE DEF order
<1>2. Excess(order) \in Nat
  BY <1>1, BoundAssumption DEF Excess, Limit
<1>3. SubSeq(order, Excess(order) + 1, Len(order)) \in Seq(S)
  BY <1>1, <1>2
<1> QED BY <1>3 DEF order

----------------------------------------------------------------------------
(* Counting the statements that run on a connector.                        *)

\* A step that starts and ends no statement leaves the users of a connector
\* alone.
LEMMA UsersUnchanged ==
    ASSUME NEW c,
           \A r \in Requests : (pc'[r] = "running" <=> pc[r] = "running"),
           \A r \in Requests : pc[r] = "running" => inner'[r] = inner[r]
    PROVE  Users(c)' = Users(c)
BY DEF Users

\* The users of a connector are requests, so they can be counted.
LEMMA UsersFinite == \A c : IsFiniteSet(Users(c)) /\ Cardinality(Users(c)) \in Nat
<1> TAKE c
<1>1. Users(c) \subseteq Requests
  BY DEF Users
<1>2. IsFiniteSet(Users(c))
  BY <1>1, FiniteAssumption, FS_Subset
<1> QED BY <1>2, FS_CardinalityType

\* A connector a statement runs on is counted.
LEMMA RunningCounts ==
    ASSUME IInv, NEW r \in Requests, pc[r] = "running"
    PROVE  inner[r] \in Conns /\ Built(inner[r]) /\ count[inner[r]] \in Nat \ {0}
<1>1. inner[r] \in Conns /\ Built(inner[r])
  BY DEF IInv, HasConnector
<1>2. r \in Users(inner[r])
  BY DEF Users
<1>3. Cardinality(Users(inner[r])) # 0
  BY <1>2, UsersFinite, FS_EmptySet
<1> QED BY <1>1, <1>3, UsersFinite DEF IInv, CountsUsers

\* Nothing runs on a connector that has not been built.
LEMMA IdleIsUnused ==
    ASSUME IInv, NEW c \in Conns, ~Built(c)
    PROVE  count[c] = 0
<1>1. Users(c) = {}
  BY DEF IInv, HasConnector, Users
<1> QED BY <1>1, FS_EmptySet DEF IInv, CountsUsers

----------------------------------------------------------------------------
(* Each action preserves the invariant.                                    *)

\* Rotate keeps the invariant.
LEMMA RotatePreserves ==
    ASSUME IInv, NEW i \in Ids, Rotate(i)
    PROVE  IInv'
<1> USE NullAssumption, ThreadAssumption, BoundAssumption, EntryAssumption
    DEF IInv, TypeOK, PoolTypeOK, ThreadTypeOK, TurnTypeOK, Threads,
        Rotate, vars, poolVars, turnVars
<1>1. PoolTypeOK'
  OBVIOUS
<1>2. ThreadTypeOK'
  OBVIOUS
<1>3. TurnTypeOK' /\ cred' \in [Ids -> 0..MaxCred] /\ binding' \in [Requests -> Ids]
  OBVIOUS
<1>4. HasConnector' /\ NoEarlyAttempt' /\ HasId'
  BY DEF HasConnector, NoEarlyAttempt, HasId, Built
<1>5. RefersToBuilt'
  BY DEF RefersToBuilt, Built
<1>6. CountsUsers'
  BY UsersUnchanged DEF CountsUsers
<1>7. ReleasesBetween'
  BY DEF ReleasesBetween
<1>8. VictimIsIdle'
  BY DEF VictimIsIdle, IsHandle
<1>9. DeferredIsClosing' /\ OpenUntilClosing' /\ UsedIsHeld'
  BY DEF DeferredIsClosing, OpenUntilClosing, UsedIsHeld, IsHandle
<1> QED BY <1>1, <1>2, <1>3, <1>4, <1>5, <1>6, <1>7, <1>8, <1>9

\* Rebind keeps the invariant.
LEMMA RebindPreserves ==
    ASSUME IInv, NEW r \in Requests, NEW i \in Ids, Rebind(r, i)
    PROVE  IInv'
<1> USE NullAssumption, ThreadAssumption, BoundAssumption, EntryAssumption
    DEF IInv, TypeOK, PoolTypeOK, ThreadTypeOK, TurnTypeOK, Threads,
        Rebind, vars, poolVars, turnVars
<1>1. PoolTypeOK'
  OBVIOUS
<1>2. ThreadTypeOK'
  OBVIOUS
<1>3. TurnTypeOK' /\ cred' \in [Ids -> 0..MaxCred] /\ binding' \in [Requests -> Ids]
  OBVIOUS
<1>4. HasConnector' /\ NoEarlyAttempt' /\ HasId'
  BY DEF HasConnector, NoEarlyAttempt, HasId, Built
<1>5. RefersToBuilt'
  BY DEF RefersToBuilt, Built
<1>6. CountsUsers'
  BY UsersUnchanged DEF CountsUsers
<1>7. ReleasesBetween'
  BY DEF ReleasesBetween
<1>8. VictimIsIdle'
  BY DEF VictimIsIdle, IsHandle
<1>9. DeferredIsClosing' /\ OpenUntilClosing' /\ UsedIsHeld'
  BY DEF DeferredIsClosing, OpenUntilClosing, UsedIsHeld, IsHandle
<1> QED BY <1>1, <1>2, <1>3, <1>4, <1>5, <1>6, <1>7, <1>8, <1>9

\* Age keeps the invariant.
LEMMA AgePreserves ==
    ASSUME IInv, NEW i \in Ids, Age(i)
    PROVE  IInv'
<1> USE NullAssumption, ThreadAssumption, BoundAssumption, EntryAssumption
    DEF IInv, TypeOK, PoolTypeOK, ThreadTypeOK, TurnTypeOK, Threads,
        Age, vars, poolVars, turnVars
<1>1. PoolTypeOK'
  <2>1. cache[i] \in Entry
    BY DEF Cached
  <2>2. [cache[i] EXCEPT !.old = TRUE] \in Entry
    BY <2>1 DEF Entry
  <2>3. cache' = [cache EXCEPT ![i] = [cache[i] EXCEPT !.old = TRUE]]
    OBVIOUS
  <2> QED BY <2>2, <2>3
<1>2. ThreadTypeOK'
  OBVIOUS
<1>3. TurnTypeOK' /\ cred' \in [Ids -> 0..MaxCred] /\ binding' \in [Requests -> Ids]
  OBVIOUS
<1>4. HasConnector' /\ NoEarlyAttempt' /\ HasId'
  BY DEF HasConnector, NoEarlyAttempt, HasId, Built
<1>5. RefersToBuilt'
  BY DEF RefersToBuilt, Built, Cached
<1>6. CountsUsers'
  BY UsersUnchanged DEF CountsUsers
<1>7. ReleasesBetween'
  BY DEF ReleasesBetween
<1>8. VictimIsIdle'
  BY DEF VictimIsIdle, IsHandle
<1>9. DeferredIsClosing' /\ OpenUntilClosing' /\ UsedIsHeld'
  BY DEF DeferredIsClosing, OpenUntilClosing, UsedIsHeld, IsHandle
<1> QED BY <1>1, <1>2, <1>3, <1>4, <1>5, <1>6, <1>7, <1>8, <1>9

\* OpenRead keeps the invariant.
LEMMA OpenReadPreserves ==
    ASSUME IInv, NEW r \in Requests, OpenRead(r)
    PROVE  IInv'
<1> USE NullAssumption, ThreadAssumption, BoundAssumption, EntryAssumption
    DEF IInv, TypeOK, PoolTypeOK, ThreadTypeOK, TurnTypeOK, Threads,
        OpenRead, vars, poolVars, turnVars
<1>1. PoolTypeOK'
  OBVIOUS
<1>2. ThreadTypeOK'
  BY DEF RequestPCs
<1>3. TurnTypeOK' /\ cred' \in [Ids -> 0..MaxCred] /\ binding' \in [Requests -> Ids]
  OBVIOUS
<1>4. HasConnector' /\ NoEarlyAttempt' /\ HasId'
  BY DEF HasConnector, NoEarlyAttempt, HasId, Built
<1>5. RefersToBuilt'
  BY DEF RefersToBuilt, Built
<1>6. CountsUsers'
  BY UsersUnchanged DEF CountsUsers
<1>7. ReleasesBetween'
  BY DEF ReleasesBetween
<1>8. VictimIsIdle'
  BY DEF VictimIsIdle, IsHandle
<1>9. DeferredIsClosing' /\ OpenUntilClosing' /\ UsedIsHeld'
  BY DEF DeferredIsClosing, OpenUntilClosing, UsedIsHeld, IsHandle
<1> QED BY <1>1, <1>2, <1>3, <1>4, <1>5, <1>6, <1>7, <1>8, <1>9

\* ReopenRead keeps the invariant.
LEMMA ReopenReadPreserves ==
    ASSUME IInv, NEW r \in Requests, ReopenRead(r)
    PROVE  IInv'
<1> USE NullAssumption, ThreadAssumption, BoundAssumption, EntryAssumption
    DEF IInv, TypeOK, PoolTypeOK, ThreadTypeOK, TurnTypeOK, Threads,
        ReopenRead, vars, poolVars, turnVars
<1>1. PoolTypeOK'
  OBVIOUS
<1>2. ThreadTypeOK'
  BY DEF RequestPCs
<1>3. TurnTypeOK' /\ cred' \in [Ids -> 0..MaxCred] /\ binding' \in [Requests -> Ids]
  BY DEF HasId
<1>4. HasConnector' /\ NoEarlyAttempt' /\ HasId'
  BY DEF HasConnector, NoEarlyAttempt, HasId, Built
<1>5. RefersToBuilt'
  BY DEF RefersToBuilt, Built
<1>6. CountsUsers'
  BY UsersUnchanged DEF CountsUsers
<1>7. ReleasesBetween'
  BY DEF ReleasesBetween
<1>8. VictimIsIdle'
  BY DEF VictimIsIdle, IsHandle
<1>9. DeferredIsClosing' /\ OpenUntilClosing' /\ UsedIsHeld'
  BY DEF DeferredIsClosing, OpenUntilClosing, UsedIsHeld, IsHandle
<1> QED BY <1>1, <1>2, <1>3, <1>4, <1>5, <1>6, <1>7, <1>8, <1>9

\* OpenFails keeps the invariant.
LEMMA OpenFailsPreserves ==
    ASSUME IInv, NEW r \in Requests, OpenFails(r)
    PROVE  IInv'
<1> USE NullAssumption, ThreadAssumption, BoundAssumption, EntryAssumption
    DEF IInv, TypeOK, PoolTypeOK, ThreadTypeOK, TurnTypeOK, Threads,
        OpenFails, vars, poolVars, turnVars
<1>1. PoolTypeOK'
  OBVIOUS
<1>2. ThreadTypeOK'
  BY DEF RequestPCs
<1>3. TurnTypeOK' /\ cred' \in [Ids -> 0..MaxCred] /\ binding' \in [Requests -> Ids]
  OBVIOUS
<1>4. HasConnector' /\ NoEarlyAttempt' /\ HasId'
  BY DEF HasConnector, NoEarlyAttempt, HasId, Built
<1>5. RefersToBuilt'
  BY DEF RefersToBuilt, Built
<1>6. CountsUsers'
  BY UsersUnchanged DEF CountsUsers
<1>7. ReleasesBetween'
  BY DEF ReleasesBetween
<1>8. VictimIsIdle'
  BY DEF VictimIsIdle, IsHandle
<1>9. DeferredIsClosing' /\ OpenUntilClosing' /\ UsedIsHeld'
  BY DEF DeferredIsClosing, OpenUntilClosing, UsedIsHeld, IsHandle
<1> QED BY <1>1, <1>2, <1>3, <1>4, <1>5, <1>6, <1>7, <1>8, <1>9

\* CacheMiss keeps the invariant.
LEMMA CacheMissPreserves ==
    ASSUME IInv, NEW r \in Requests, CacheMiss(r)
    PROVE  IInv'
<1> USE NullAssumption, ThreadAssumption, BoundAssumption, EntryAssumption
    DEF IInv, TypeOK, PoolTypeOK, ThreadTypeOK, TurnTypeOK, Threads,
        CacheMiss, vars, poolVars, turnVars
<1>1. PoolTypeOK'
  OBVIOUS
<1>2. ThreadTypeOK'
  BY DEF RequestPCs
<1>3. TurnTypeOK' /\ cred' \in [Ids -> 0..MaxCred] /\ binding' \in [Requests -> Ids]
  OBVIOUS
<1>4. HasConnector' /\ NoEarlyAttempt' /\ HasId'
  BY DEF HasConnector, NoEarlyAttempt, HasId, Built
<1>5. RefersToBuilt'
  BY DEF RefersToBuilt, Built
<1>6. CountsUsers'
  BY UsersUnchanged DEF CountsUsers
<1>7. ReleasesBetween'
  BY DEF ReleasesBetween
<1>8. VictimIsIdle'
  BY DEF VictimIsIdle, IsHandle
<1>9. DeferredIsClosing' /\ OpenUntilClosing' /\ UsedIsHeld'
  BY DEF DeferredIsClosing, OpenUntilClosing, UsedIsHeld, IsHandle
<1> QED BY <1>1, <1>2, <1>3, <1>4, <1>5, <1>6, <1>7, <1>8, <1>9

\* CacheHit keeps the invariant.
LEMMA CacheHitPreserves ==
    ASSUME IInv, NEW r \in Requests, CacheHit(r)
    PROVE  IInv'
<1> USE NullAssumption, ThreadAssumption, BoundAssumption, EntryAssumption
    DEF IInv, TypeOK, PoolTypeOK, ThreadTypeOK, TurnTypeOK, Threads,
        CacheHit, vars, poolVars, turnVars
<1>1. PoolTypeOK'
  <2>1. want[r] \in Ids
    BY DEF HasId
  <2>2. Append(Without(lru, want[r]), want[r]) \in Seq(Ids)
    BY <2>1, WithoutType
  <2> QED BY <2>2
<1>2. ThreadTypeOK'
  BY DEF RequestPCs, Resume
<1>3. TurnTypeOK' /\ cred' \in [Ids -> 0..MaxCred] /\ binding' \in [Requests -> Ids]
  BY DEF Cached, Entry
<1>4. HasConnector' /\ NoEarlyAttempt' /\ HasId'
  <2>1. inner'[r] \in Conns /\ Built(inner'[r])
    BY DEF Cached, Entry, RefersToBuilt
  <2> QED BY <2>1 DEF HasConnector, HasId, NoEarlyAttempt, Built, Resume
<1>5. RefersToBuilt'
  BY DEF RefersToBuilt, Built
<1>6. CountsUsers'
  BY UsersUnchanged DEF CountsUsers, Resume
<1>7. ReleasesBetween'
  BY DEF ReleasesBetween
<1>8. VictimIsIdle'
  BY DEF VictimIsIdle, IsHandle
<1>9. DeferredIsClosing' /\ OpenUntilClosing' /\ UsedIsHeld'
  BY DEF DeferredIsClosing, OpenUntilClosing, UsedIsHeld, IsHandle
<1> QED BY <1>1, <1>2, <1>3, <1>4, <1>5, <1>6, <1>7, <1>8, <1>9

\* CacheStale keeps the invariant.
LEMMA CacheStalePreserves ==
    ASSUME IInv, NEW r \in Requests, CacheStale(r)
    PROVE  IInv'
<1> USE NullAssumption, ThreadAssumption, BoundAssumption, EntryAssumption
    DEF IInv, TypeOK, PoolTypeOK, ThreadTypeOK, TurnTypeOK, Threads,
        CacheStale, vars, poolVars, turnVars
<1>1. PoolTypeOK'
  BY WithoutType
<1>2. ThreadTypeOK'
  BY DEF RequestPCs, Cached, Entry
<1>3. TurnTypeOK' /\ cred' \in [Ids -> 0..MaxCred] /\ binding' \in [Requests -> Ids]
  OBVIOUS
<1>4. HasConnector' /\ NoEarlyAttempt' /\ HasId'
  BY DEF HasConnector, NoEarlyAttempt, HasId, Built
<1>5. RefersToBuilt'
  BY DEF RefersToBuilt, Built, Cached
<1>6. CountsUsers'
  BY UsersUnchanged DEF CountsUsers
<1>7. ReleasesBetween'
  BY DEF ReleasesBetween
<1>8. VictimIsIdle'
  BY DEF VictimIsIdle, IsHandle
<1>9. DeferredIsClosing' /\ OpenUntilClosing' /\ UsedIsHeld'
  BY DEF DeferredIsClosing, OpenUntilClosing, UsedIsHeld, IsHandle
<1> QED BY <1>1, <1>2, <1>3, <1>4, <1>5, <1>6, <1>7, <1>8, <1>9

\* Build keeps the invariant.
LEMMA BuildPreserves ==
    ASSUME IInv, NEW r \in Requests, Build(r)
    PROVE  IInv'
<1> USE NullAssumption, ThreadAssumption, BoundAssumption, EntryAssumption
    DEF IInv, TypeOK, PoolTypeOK, ThreadTypeOK, TurnTypeOK, Threads,
        Build, vars, poolVars, turnVars
<1>1. PoolTypeOK'
  <2>1. PICK c \in Conns, d \in BOOLEAN :
          /\ made' = [made EXCEPT ![c] = [id |-> want[r], cred |-> cred[want[r]], degraded |-> d]]
          /\ held' = [held EXCEPT ![c] = want[r] \notin EngineOnly]
    OBVIOUS
  <2>2. [id |-> want[r], cred |-> cred[want[r]], degraded |-> d] \in Made
    BY DEF Made, HasId
  <2> QED BY <2>1, <2>2
<1>2. ThreadTypeOK'
  BY DEF RequestPCs
<1>3. TurnTypeOK' /\ cred' \in [Ids -> 0..MaxCred] /\ binding' \in [Requests -> Ids]
  OBVIOUS
<1>4. HasConnector' /\ NoEarlyAttempt' /\ HasId'
  <2>1. PICK c \in Conns, d \in BOOLEAN :
          /\ made' = [made EXCEPT ![c] = [id |-> want[r], cred |-> cred[want[r]], degraded |-> d]]
          /\ inner' = [inner EXCEPT ![r] = c]
    OBVIOUS
  <2>2. inner'[r] \in Conns /\ made'[inner'[r]].id \in Ids
    BY <2>1 DEF HasId
  <2>3. \A s \in Requests \ {r} : pc'[s] = pc[s] /\ inner'[s] = inner[s]
    OBVIOUS
  <2>4. pc'[r] = "put" /\ want' = want /\ attempt' = attempt
    OBVIOUS
  <2>5. \A o \in Conns : Built(o) => Built(o)'
    BY <2>1 DEF Built, HasId
  <2>6. HasConnector'
    BY <2>2, <2>3, <2>4, <2>5 DEF HasConnector, Built
  <2>7. NoEarlyAttempt'
    BY <2>3, <2>4 DEF NoEarlyAttempt
  <2>8. HasId'
    BY <2>3, <2>4 DEF HasId
  <2> QED BY <2>6, <2>7, <2>8
<1>5. RefersToBuilt'
  <2>1. \A o \in Conns : Built(o) => Built(o)'
    BY DEF Built, HasId
  <2>2. UNCHANGED <<cache, todo, victim, deferred, closing>>
    OBVIOUS
  <2>3. /\ \A i \in Ids : cache[i] # NoEntry => cache[i].conn \in Conns
        /\ \A t \in Threads : todo[t] \subseteq Conns /\ victim[t] \in Conns \cup {NoConn}
    BY DEF Entry
  <2> QED BY <2>1, <2>2, <2>3 DEF RefersToBuilt
<1>6. CountsUsers'
  BY UsersUnchanged DEF CountsUsers
<1>7. ReleasesBetween'
  BY DEF ReleasesBetween
<1>8. VictimIsIdle'
  BY DEF VictimIsIdle, IsHandle, RefersToBuilt
<1>9. DeferredIsClosing' /\ OpenUntilClosing' /\ UsedIsHeld'
  <2>1. PICK c \in Conns, d \in BOOLEAN :
          /\ ~Built(c)
          /\ made' = [made EXCEPT ![c] = [id |-> want[r], cred |-> cred[want[r]], degraded |-> d]]
          /\ held' = [held EXCEPT ![c] = want[r] \notin EngineOnly]
    OBVIOUS
  <2>2. ~closing[c] /\ ~deferred[c]
    BY <2>1 DEF RefersToBuilt
  <2>3. count[c] = 0
    BY <2>1, IdleIsUnused
  <2>4. IsHandle(c)' => held'[c]
    <3>1. made'[c].id = want[r]
      BY <2>1
    <3>2. held'[c] = (want[r] \notin EngineOnly)
      BY ONLY <2>1, held \in [Conns -> BOOLEAN]
    <3> QED BY <3>1, <3>2 DEF IsHandle
  <2>5. \A o \in Conns \ {c} : made'[o] = made[o] /\ held'[o] = held[o]
    BY <2>1
  <2> QED BY <2>2, <2>3, <2>4, <2>5
          DEF DeferredIsClosing, OpenUntilClosing, UsedIsHeld, IsHandle
<1> QED BY <1>1, <1>2, <1>3, <1>4, <1>5, <1>6, <1>7, <1>8, <1>9

\* CachePut keeps the invariant.
LEMMA CachePutPreserves ==
    ASSUME IInv, NEW r \in Requests, CachePut(r)
    PROVE  IInv'
<1> USE NullAssumption, ThreadAssumption, BoundAssumption, EntryAssumption
    DEF IInv, TypeOK, PoolTypeOK, ThreadTypeOK, TurnTypeOK, Threads,
        CachePut, vars, poolVars, turnVars
<1>1. PoolTypeOK'
  <2>1. want[r] \in Ids /\ inner[r] \in Conns
    BY DEF HasId, HasConnector
  <2>2. made[inner[r]] \in Made \/ made[inner[r]] = Unbuilt
    BY <2>1
  <2>3. made[inner[r]].degraded \in BOOLEAN
    <3>1. CASE made[inner[r]] \in Made
      BY <3>1 DEF Made
    <3>2. CASE made[inner[r]] = Unbuilt
      BY <3>2 DEF Unbuilt
    <3> QED BY <2>2, <3>1, <3>2
  <2>4. EntryFor(r) \in Entry
    BY <2>1, <2>3 DEF EntryFor, Entry
  <2>5. cache' \in [Ids -> Entry \cup {NoEntry}]
    BY <2>4
  <2>6. lru' \in Seq(Ids)
    BY <2>1, PutOrderType
  <2> QED BY <2>5, <2>6
<1>2. ThreadTypeOK'
  <2>1. \A i \in Cached : cache[i].conn \in Conns
    BY DEF Cached, Entry
  <2>2. todo' \in [Threads -> SUBSET Conns]
    BY <2>1
  <2> QED BY <2>2 DEF RequestPCs, Resume
<1>3. TurnTypeOK' /\ cred' \in [Ids -> 0..MaxCred] /\ binding' \in [Requests -> Ids]
  OBVIOUS
<1>4. HasConnector' /\ NoEarlyAttempt' /\ HasId'
  BY DEF HasConnector, NoEarlyAttempt, HasId, Built, Resume
<1>5. RefersToBuilt'
  <2>1. inner[r] \in Conns /\ Built(inner[r]) /\ want[r] \in Ids
    BY DEF HasConnector, HasId
  <2>2. \A i \in Ids : cache'[i] # NoEntry => Built(cache'[i].conn)
    BY <2>1 DEF EntryFor, RefersToBuilt
  <2>3. \A t \in Threads : \A c \in todo'[t] : Built(c)
    BY DEF RefersToBuilt, Cached
  <2> QED BY <2>2, <2>3 DEF RefersToBuilt, Built
<1>6. CountsUsers'
  BY UsersUnchanged DEF CountsUsers, Resume
<1>7. ReleasesBetween'
  BY DEF ReleasesBetween
<1>8. VictimIsIdle'
  BY DEF VictimIsIdle, IsHandle
<1>9. DeferredIsClosing' /\ OpenUntilClosing' /\ UsedIsHeld'
  BY DEF DeferredIsClosing, OpenUntilClosing, UsedIsHeld, IsHandle
<1> QED BY <1>1, <1>2, <1>3, <1>4, <1>5, <1>6, <1>7, <1>8, <1>9

\* Invalidate keeps the invariant.
LEMMA InvalidatePreserves ==
    ASSUME IInv, NEW t \in Callers, NEW i \in Ids, Invalidate(t, i)
    PROVE  IInv'
<1> USE NullAssumption, ThreadAssumption, BoundAssumption, EntryAssumption
    DEF IInv, TypeOK, PoolTypeOK, ThreadTypeOK, TurnTypeOK, Threads,
        Invalidate, vars, poolVars, turnVars
<1>1. PoolTypeOK'
  BY WithoutType
<1>2. ThreadTypeOK'
  BY DEF CallerPCs, Cached, Entry
<1>3. TurnTypeOK' /\ cred' \in [Ids -> 0..MaxCred] /\ binding' \in [Requests -> Ids]
  OBVIOUS
<1>4. HasConnector' /\ NoEarlyAttempt' /\ HasId'
  BY DEF HasConnector, NoEarlyAttempt, HasId, Built
<1>5. RefersToBuilt'
  BY DEF RefersToBuilt, Built, Cached
<1>6. CountsUsers'
  BY UsersUnchanged DEF CountsUsers
<1>7. ReleasesBetween'
  BY DEF ReleasesBetween
<1>8. VictimIsIdle'
  BY DEF VictimIsIdle, IsHandle
<1>9. DeferredIsClosing' /\ OpenUntilClosing' /\ UsedIsHeld'
  BY DEF DeferredIsClosing, OpenUntilClosing, UsedIsHeld, IsHandle
<1> QED BY <1>1, <1>2, <1>3, <1>4, <1>5, <1>6, <1>7, <1>8, <1>9

\* InvalidateAll keeps the invariant.
LEMMA InvalidateAllPreserves ==
    ASSUME IInv, NEW t \in Callers, InvalidateAll(t)
    PROVE  IInv'
<1> USE NullAssumption, ThreadAssumption, BoundAssumption, EntryAssumption
    DEF IInv, TypeOK, PoolTypeOK, ThreadTypeOK, TurnTypeOK, Threads,
        InvalidateAll, vars, poolVars, turnVars
<1>1. PoolTypeOK'
  OBVIOUS
<1>2. ThreadTypeOK'
  BY DEF CallerPCs, Cached, Entry
<1>3. TurnTypeOK' /\ cred' \in [Ids -> 0..MaxCred] /\ binding' \in [Requests -> Ids]
  OBVIOUS
<1>4. HasConnector' /\ NoEarlyAttempt' /\ HasId'
  BY DEF HasConnector, NoEarlyAttempt, HasId, Built
<1>5. RefersToBuilt'
  BY DEF RefersToBuilt, Built, Cached
<1>6. CountsUsers'
  BY UsersUnchanged DEF CountsUsers
<1>7. ReleasesBetween'
  BY DEF ReleasesBetween
<1>8. VictimIsIdle'
  BY DEF VictimIsIdle, IsHandle
<1>9. DeferredIsClosing' /\ OpenUntilClosing' /\ UsedIsHeld'
  BY DEF DeferredIsClosing, OpenUntilClosing, UsedIsHeld, IsHandle
<1> QED BY <1>1, <1>2, <1>3, <1>4, <1>5, <1>6, <1>7, <1>8, <1>9

\* CloseDeferred keeps the invariant.
LEMMA CloseDeferredPreserves ==
    ASSUME IInv, NEW t \in Threads, NEW c \in Conns, CloseDeferred(t, c)
    PROVE  IInv'
<1> USE NullAssumption, ThreadAssumption, BoundAssumption, EntryAssumption
    DEF IInv, TypeOK, PoolTypeOK, ThreadTypeOK, TurnTypeOK, Threads,
        CloseDeferred, vars, poolVars, turnVars
<1>1. PoolTypeOK'
  BY DEF CloseMarks
<1>2. ThreadTypeOK'
  BY DEF RequestPCs, CallerPCs, After, Resume, Disposing
<1>3. TurnTypeOK' /\ cred' \in [Ids -> 0..MaxCred] /\ binding' \in [Requests -> Ids]
  OBVIOUS
<1>4. HasConnector' /\ NoEarlyAttempt' /\ HasId'
  BY DEF HasConnector, NoEarlyAttempt, HasId, Built, RequestPCs, Resume, After, Disposing
<1>5. RefersToBuilt'
  BY DEF RefersToBuilt, Built
<1>6. CountsUsers'
  BY UsersUnchanged DEF CountsUsers, Resume, After, Disposing
<1>7. ReleasesBetween'
  BY DEF ReleasesBetween
<1>8. VictimIsIdle'
  BY DEF VictimIsIdle, IsHandle, CloseMarks
<1>9. DeferredIsClosing' /\ OpenUntilClosing' /\ UsedIsHeld'
  BY DEF DeferredIsClosing, OpenUntilClosing, UsedIsHeld, IsHandle, CloseMarks
<1> QED BY <1>1, <1>2, <1>3, <1>4, <1>5, <1>6, <1>7, <1>8, <1>9

\* CloseNow keeps the invariant.
LEMMA CloseNowPreserves ==
    ASSUME IInv, NEW t \in Threads, NEW c \in Conns, CloseNow(t, c)
    PROVE  IInv'
<1> USE NullAssumption, ThreadAssumption, BoundAssumption, EntryAssumption
    DEF IInv, TypeOK, PoolTypeOK, ThreadTypeOK, TurnTypeOK, Threads,
        CloseNow, vars, poolVars, turnVars
<1>1. PoolTypeOK'
  BY DEF CloseMarks
<1>2. ThreadTypeOK'
  OBVIOUS
<1>3. TurnTypeOK' /\ cred' \in [Ids -> 0..MaxCred] /\ binding' \in [Requests -> Ids]
  OBVIOUS
<1>4. HasConnector' /\ NoEarlyAttempt' /\ HasId'
  BY DEF HasConnector, NoEarlyAttempt, HasId, Built
<1>5. RefersToBuilt'
  BY DEF RefersToBuilt, Built
<1>6. CountsUsers'
  BY UsersUnchanged DEF CountsUsers
<1>7. ReleasesBetween'
  BY DEF ReleasesBetween, Disposing
<1>8. VictimIsIdle'
  BY DEF VictimIsIdle, IsHandle, CloseMarks, OpenUntilClosing
<1>9. DeferredIsClosing' /\ OpenUntilClosing' /\ UsedIsHeld'
  BY DEF DeferredIsClosing, OpenUntilClosing, UsedIsHeld, IsHandle, CloseMarks
<1> QED BY <1>1, <1>2, <1>3, <1>4, <1>5, <1>6, <1>7, <1>8, <1>9

\* Release keeps the invariant.
LEMMA ReleasePreserves ==
    ASSUME IInv, NEW t \in Threads, Release(t)
    PROVE  IInv'
<1> USE NullAssumption, ThreadAssumption, BoundAssumption, EntryAssumption
    DEF IInv, TypeOK, PoolTypeOK, ThreadTypeOK, TurnTypeOK, Threads,
        Release, vars, poolVars, turnVars
<1>1. PoolTypeOK'
  OBVIOUS
<1>2. ThreadTypeOK'
  BY DEF RequestPCs, CallerPCs, After, Resume, ReleasesBetween
<1>3. TurnTypeOK' /\ cred' \in [Ids -> 0..MaxCred] /\ binding' \in [Requests -> Ids]
  OBVIOUS
<1>4. HasConnector' /\ NoEarlyAttempt' /\ HasId'
  BY DEF HasConnector, NoEarlyAttempt, HasId, Built, RequestPCs, Resume, After, ReleasesBetween
<1>5. RefersToBuilt'
  BY DEF RefersToBuilt, Built
<1>6. CountsUsers'
  BY UsersUnchanged DEF CountsUsers, Resume, After, ReleasesBetween
<1>7. ReleasesBetween'
  BY DEF ReleasesBetween
<1>8. VictimIsIdle'
  BY DEF VictimIsIdle, IsHandle
<1>9. DeferredIsClosing' /\ OpenUntilClosing' /\ UsedIsHeld'
  BY DEF DeferredIsClosing, OpenUntilClosing, UsedIsHeld, VictimIsIdle, IsHandle, RefersToBuilt
<1> QED BY <1>1, <1>2, <1>3, <1>4, <1>5, <1>6, <1>7, <1>8, <1>9

\* BeginStatement keeps the invariant.
LEMMA BeginStatementPreserves ==
    ASSUME IInv, NEW r \in Requests, BeginStatement(r)
    PROVE  IInv'
<1> USE NullAssumption, ThreadAssumption, BoundAssumption, EntryAssumption
    DEF IInv, TypeOK, PoolTypeOK, ThreadTypeOK, TurnTypeOK, Threads,
        BeginStatement, vars, poolVars, turnVars
<1>1. PoolTypeOK'
  OBVIOUS
<1>2. ThreadTypeOK'
  BY DEF RequestPCs
<1>3. TurnTypeOK' /\ cred' \in [Ids -> 0..MaxCred] /\ binding' \in [Requests -> Ids]
  OBVIOUS
<1>4. HasConnector' /\ NoEarlyAttempt' /\ HasId'
  BY DEF HasConnector, NoEarlyAttempt, HasId, Built
<1>5. RefersToBuilt'
  BY DEF RefersToBuilt, Built
<1>6. CountsUsers'
  BY UsersUnchanged DEF CountsUsers
<1>7. ReleasesBetween'
  BY DEF ReleasesBetween
<1>8. VictimIsIdle'
  BY DEF VictimIsIdle, IsHandle
<1>9. DeferredIsClosing' /\ OpenUntilClosing' /\ UsedIsHeld'
  BY DEF DeferredIsClosing, OpenUntilClosing, UsedIsHeld, IsHandle
<1> QED BY <1>1, <1>2, <1>3, <1>4, <1>5, <1>6, <1>7, <1>8, <1>9

\* EnterUse keeps the invariant.
LEMMA EnterUsePreserves ==
    ASSUME IInv, NEW r \in Requests, EnterUse(r)
    PROVE  IInv'
<1> USE NullAssumption, ThreadAssumption, BoundAssumption, EntryAssumption
    DEF IInv, TypeOK, PoolTypeOK, ThreadTypeOK, TurnTypeOK, Threads,
        EnterUse, vars, poolVars, turnVars
<1>1. PoolTypeOK'
  BY DEF HasConnector
<1>2. ThreadTypeOK'
  BY DEF RequestPCs
<1>3. TurnTypeOK' /\ cred' \in [Ids -> 0..MaxCred] /\ binding' \in [Requests -> Ids]
  OBVIOUS
<1>4. HasConnector' /\ NoEarlyAttempt' /\ HasId'
  BY DEF HasConnector, NoEarlyAttempt, HasId, Built
<1>5. RefersToBuilt'
  BY DEF RefersToBuilt, Built
<1>6. CountsUsers'
  <2>1. inner[r] \in Conns
    BY DEF HasConnector
  <2>2. Users(inner[r])' = Users(inner[r]) \cup {r} /\ r \notin Users(inner[r])
    BY <2>1 DEF Users
  <2>3. Cardinality(Users(inner[r]) \cup {r}) = Cardinality(Users(inner[r])) + 1
    BY <2>2, UsersFinite, FS_AddElement
  <2>4. Cardinality(Users(inner[r])') = count'[inner[r]]
    BY <2>1, <2>2, <2>3 DEF CountsUsers
  <2>5. \A d \in Conns \ {inner[r]} : Users(d)' = Users(d) /\ count'[d] = count[d]
    BY <2>1 DEF Users
  <2> QED BY <2>4, <2>5 DEF CountsUsers
<1>7. ReleasesBetween'
  BY DEF ReleasesBetween
<1>8. VictimIsIdle'
  BY DEF VictimIsIdle, IsHandle
<1>9. DeferredIsClosing' /\ OpenUntilClosing' /\ UsedIsHeld'
  <2>1. inner[r] \in Conns /\ Built(inner[r])
    BY DEF HasConnector
  <2>2. held'[inner[r]]
    BY <2>1 DEF OpenUntilClosing
  <2> QED BY <2>1, <2>2 DEF DeferredIsClosing, OpenUntilClosing, UsedIsHeld, IsHandle
<1> QED BY <1>1, <1>2, <1>3, <1>4, <1>5, <1>6, <1>7, <1>8, <1>9

\* EnterReopens keeps the invariant.
LEMMA EnterReopensPreserves ==
    ASSUME IInv, NEW r \in Requests, EnterReopens(r)
    PROVE  IInv'
<1> USE NullAssumption, ThreadAssumption, BoundAssumption, EntryAssumption
    DEF IInv, TypeOK, PoolTypeOK, ThreadTypeOK, TurnTypeOK, Threads,
        EnterReopens, vars, poolVars, turnVars
<1>1. PoolTypeOK'
  OBVIOUS
<1>2. ThreadTypeOK'
  BY DEF RequestPCs
<1>3. TurnTypeOK' /\ cred' \in [Ids -> 0..MaxCred] /\ binding' \in [Requests -> Ids]
  OBVIOUS
<1>4. HasConnector' /\ NoEarlyAttempt' /\ HasId'
  BY DEF HasConnector, NoEarlyAttempt, HasId, Built
<1>5. RefersToBuilt'
  BY DEF RefersToBuilt, Built
<1>6. CountsUsers'
  BY UsersUnchanged DEF CountsUsers
<1>7. ReleasesBetween'
  BY DEF ReleasesBetween
<1>8. VictimIsIdle'
  BY DEF VictimIsIdle, IsHandle
<1>9. DeferredIsClosing' /\ OpenUntilClosing' /\ UsedIsHeld'
  BY DEF DeferredIsClosing, OpenUntilClosing, UsedIsHeld, IsHandle
<1> QED BY <1>1, <1>2, <1>3, <1>4, <1>5, <1>6, <1>7, <1>8, <1>9

\* EnterRaises keeps the invariant.
LEMMA EnterRaisesPreserves ==
    ASSUME IInv, NEW r \in Requests, EnterRaises(r)
    PROVE  IInv'
<1> USE NullAssumption, ThreadAssumption, BoundAssumption, EntryAssumption
    DEF IInv, TypeOK, PoolTypeOK, ThreadTypeOK, TurnTypeOK, Threads,
        EnterRaises, vars, poolVars, turnVars
<1>1. PoolTypeOK'
  OBVIOUS
<1>2. ThreadTypeOK'
  BY DEF RequestPCs
<1>3. TurnTypeOK' /\ cred' \in [Ids -> 0..MaxCred] /\ binding' \in [Requests -> Ids]
  OBVIOUS
<1>4. HasConnector' /\ NoEarlyAttempt' /\ HasId'
  BY DEF HasConnector, NoEarlyAttempt, HasId, Built
<1>5. RefersToBuilt'
  BY DEF RefersToBuilt, Built
<1>6. CountsUsers'
  BY UsersUnchanged DEF CountsUsers
<1>7. ReleasesBetween'
  BY DEF ReleasesBetween
<1>8. VictimIsIdle'
  BY DEF VictimIsIdle, IsHandle
<1>9. DeferredIsClosing' /\ OpenUntilClosing' /\ UsedIsHeld'
  BY DEF DeferredIsClosing, OpenUntilClosing, UsedIsHeld, IsHandle
<1> QED BY <1>1, <1>2, <1>3, <1>4, <1>5, <1>6, <1>7, <1>8, <1>9

\* Leave keeps the invariant.
LEMMA LeavePreserves ==
    ASSUME IInv, NEW r \in Requests, Leave(r)
    PROVE  IInv'
<1> USE NullAssumption, ThreadAssumption, BoundAssumption, EntryAssumption
    DEF IInv, TypeOK, PoolTypeOK, ThreadTypeOK, TurnTypeOK, Threads,
        Leave, vars, poolVars, turnVars
<1>1. PoolTypeOK'
  <2>1. inner[r] \in Conns /\ count[inner[r]] \in Nat \ {0}
    BY RunningCounts
  <2> QED BY <2>1
<1>2. ThreadTypeOK'
  BY DEF RequestPCs
<1>3. TurnTypeOK' /\ cred' \in [Ids -> 0..MaxCred] /\ binding' \in [Requests -> Ids]
  OBVIOUS
<1>4. HasConnector' /\ NoEarlyAttempt' /\ HasId'
  BY DEF HasConnector, NoEarlyAttempt, HasId, Built
<1>5. RefersToBuilt'
  BY DEF RefersToBuilt, Built, HasConnector
<1>6. CountsUsers'
  <2>1. inner[r] \in Conns /\ r \in Users(inner[r])
    BY RunningCounts DEF Users
  <2>2. Users(inner[r])' = Users(inner[r]) \ {r}
    BY <2>1 DEF Users
  <2>3. IsFiniteSet(Users(inner[r]))
    BY UsersFinite
  <2> HIDE DEF IInv
  <2>4. Cardinality(Users(inner[r]) \ {r}) = Cardinality(Users(inner[r])) - 1
    BY <2>1, <2>3, FS_RemoveElement, Zenon
  <2> USE DEF IInv
  <2>5. Cardinality(Users(inner[r])') = count'[inner[r]]
    BY <2>1, <2>2, <2>4 DEF CountsUsers
  <2>6. \A d \in Conns \ {inner[r]} : Users(d)' = Users(d) /\ count'[d] = count[d]
    BY <2>1 DEF Users
  <2> QED BY <2>5, <2>6 DEF CountsUsers
<1>7. ReleasesBetween'
  BY DEF ReleasesBetween
<1>8. VictimIsIdle'
  <2>1. inner[r] \in Conns /\ count[inner[r]] \in Nat \ {0}
    BY RunningCounts
  <2>2. \A t \in Threads \ {r} : victim[t] # NoConn /\ IsHandle(victim[t])
            => victim[t] # inner[r]
    BY <2>1 DEF VictimIsIdle
  <2>3. IsHandle(inner[r]) /\ LeavesLast(inner[r]) => closing[inner[r]] /\ count'[inner[r]] = 0
    BY <2>1 DEF LeavesLast, DeferredIsClosing
  <2> QED BY <2>1, <2>2, <2>3 DEF VictimIsIdle, IsHandle
<1>9. DeferredIsClosing' /\ OpenUntilClosing' /\ UsedIsHeld'
  BY DEF DeferredIsClosing, OpenUntilClosing, UsedIsHeld, IsHandle
<1> QED BY <1>1, <1>2, <1>3, <1>4, <1>5, <1>6, <1>7, <1>8, <1>9

\* Finish keeps the invariant.
LEMMA FinishPreserves ==
    ASSUME IInv, NEW r \in Requests, Finish(r)
    PROVE  IInv'
<1> USE NullAssumption, ThreadAssumption, BoundAssumption, EntryAssumption
    DEF IInv, TypeOK, PoolTypeOK, ThreadTypeOK, TurnTypeOK, Threads,
        Finish, vars, poolVars, turnVars
<1>1. PoolTypeOK'
  OBVIOUS
<1>2. ThreadTypeOK'
  BY DEF RequestPCs
<1>3. TurnTypeOK' /\ cred' \in [Ids -> 0..MaxCred] /\ binding' \in [Requests -> Ids]
  OBVIOUS
<1>4. HasConnector' /\ NoEarlyAttempt' /\ HasId'
  BY DEF HasConnector, NoEarlyAttempt, HasId, Built
<1>5. RefersToBuilt'
  BY DEF RefersToBuilt, Built
<1>6. CountsUsers'
  BY UsersUnchanged DEF CountsUsers
<1>7. ReleasesBetween'
  BY DEF ReleasesBetween
<1>8. VictimIsIdle'
  BY DEF VictimIsIdle, IsHandle
<1>9. DeferredIsClosing' /\ OpenUntilClosing' /\ UsedIsHeld'
  BY DEF DeferredIsClosing, OpenUntilClosing, UsedIsHeld, IsHandle
<1> QED BY <1>1, <1>2, <1>3, <1>4, <1>5, <1>6, <1>7, <1>8, <1>9

\* The invariant holds of the initial states.
LEMMA InitEstablishes == Init => IInv
<1> SUFFICES ASSUME Init PROVE IInv
  OBVIOUS
<1> USE NullAssumption, BoundAssumption DEF Init
<1>1. \A c \in Conns : ~Built(c)
  BY DEF Built, Unbuilt
<1>2. TypeOK
  BY DEF TypeOK, PoolTypeOK, ThreadTypeOK, TurnTypeOK, Threads, RequestPCs, CallerPCs
<1>3. CountsUsers
  <2>1. \A c \in Conns : Users(c) = {}
    BY DEF Users, Threads
  <2> QED BY <2>1, FS_EmptySet DEF CountsUsers
<1>4. HasConnector /\ NoEarlyAttempt /\ HasId /\ RefersToBuilt /\ ReleasesBetween
  BY DEF HasConnector, NoEarlyAttempt, HasId, RefersToBuilt, ReleasesBetween, Threads
<1>5. VictimIsIdle /\ DeferredIsClosing /\ OpenUntilClosing /\ UsedIsHeld
  BY <1>1 DEF VictimIsIdle, DeferredIsClosing, OpenUntilClosing, UsedIsHeld, IsHandle, Built
<1> QED BY <1>2, <1>3, <1>4, <1>5 DEF IInv

\* Every step of the pool keeps the invariant.
LEMMA StepPreserves == IInv /\ [Next]_vars => IInv'
<1> SUFFICES ASSUME IInv, [Next]_vars PROVE IInv'
  OBVIOUS
<1>1. ASSUME NEW r \in Requests, RequestStep(r) PROVE IInv'
  BY <1>1, OpenReadPreserves, ReopenReadPreserves, OpenFailsPreserves, CacheMissPreserves,
     CacheHitPreserves, CacheStalePreserves, BuildPreserves, CachePutPreserves,
     BeginStatementPreserves, EnterUsePreserves, EnterReopensPreserves,
     EnterRaisesPreserves, LeavePreserves, FinishPreserves
  DEF RequestStep
<1>2. ASSUME NEW t \in Threads, DisposeStep(t) PROVE IInv'
  BY <1>2, CloseDeferredPreserves, CloseNowPreserves, ReleasePreserves DEF DisposeStep
<1>3. CASE Outside
  BY <1>3, RotatePreserves, AgePreserves, RebindPreserves, InvalidatePreserves,
     InvalidateAllPreserves DEF Outside
<1>4. CASE UNCHANGED vars
  BY <1>4 DEF vars, poolVars, turnVars, IInv, TypeOK, PoolTypeOK, ThreadTypeOK, TurnTypeOK,
     HasConnector, NoEarlyAttempt, HasId, RefersToBuilt, CountsUsers, Users,
     ReleasesBetween, VictimIsIdle, DeferredIsClosing, OpenUntilClosing, UsedIsHeld,
     IsHandle, Built
<1> QED BY <1>1, <1>2, <1>3, <1>4 DEF Next

----------------------------------------------------------------------------
(* The theorems.                                                           *)

\* The strengthening holds in every reachable state.
THEOREM InvariantHolds == Spec => []IInv
BY InitEstablishes, StepPreserves, PTL DEF Spec

\* The variables have their types in every reachable state.
THEOREM TypeCorrect == Spec => []TypeOK
<1>1. IInv => TypeOK
  BY DEF IInv
<1> QED BY <1>1, InvariantHolds, PTL

\* Whatever the cache evicts, replaces or invalidates, the session under a
\* running statement stays open: for any number of requests, connectors and
\* callers of invalidate_connector_cache, and any limits.
THEOREM SessionsAreKept == Spec => []StatementKeepsSession
<1>1. IInv => StatementKeepsSession
  <2> SUFFICES ASSUME IInv, NEW r \in Requests, pc[r] = "running"
               PROVE  held[inner[r]]
    BY DEF StatementKeepsSession
  <2>1. inner[r] \in Conns /\ count[inner[r]] > 0
    BY RunningCounts
  <2> QED BY <2>1 DEF IInv, UsedIsHeld
<1> QED BY <1>1, InvariantHolds, PTL

----------------------------------------------------------------------------
(* The pool implements the lease.                                          *)

\* A step that changes no session, no mark and no user is a stutter.
LEMMA LeaseStutter ==
    ASSUME made' = made, held' = held, closing' = closing,
           \A c \in Conns : Users(c)' = Users(c)
    PROVE  UNCHANGED Lease!vars
<1>1. LeaseState' = LeaseState
  BY DEF LeaseState, IsHandle
<1>2. LeaseUsers' = LeaseUsers
  BY DEF LeaseUsers, IsHandle
<1> QED BY <1>1, <1>2 DEF Lease!vars

\* Building a raw handle opens its session.
LEMMA BuildOpens ==
    ASSUME IInv, NEW r \in Requests, Build(r)
    PROVE  [Lease!Next]_(Lease!vars)
<1>1. PICK c \in Conns, d \in BOOLEAN :
        /\ ~Built(c)
        /\ made' = [made EXCEPT ![c] = [id |-> want[r], cred |-> cred[want[r]], degraded |-> d]]
        /\ held' = [held EXCEPT ![c] = want[r] \notin EngineOnly]
        /\ inner' = [inner EXCEPT ![r] = c]
  BY DEF Build
<1>2. /\ ~closing[c] /\ Users(c) = {} /\ want[r] \in Ids
      /\ made \in [Conns -> Made \cup {Unbuilt}] /\ held \in [Conns -> BOOLEAN]
      /\ closing' = closing /\ ~IsHandle(c)
  <2>1. ~closing[c] /\ ~IsHandle(c)
    BY <1>1 DEF IInv, RefersToBuilt, Built, IsHandle
  <2>2. Users(c) = {}
    BY <1>1 DEF IInv, HasConnector, Users
  <2>3. want[r] \in Ids
    BY DEF Build, IInv, HasId
  <2> QED BY <2>1, <2>2, <2>3 DEF Build, IInv, TypeOK, PoolTypeOK
<1>3. \A e \in Conns : Users(e)' = Users(e)
  BY DEF Build, IInv, TypeOK, ThreadTypeOK, TurnTypeOK, Threads, Users
<1>4. \A e \in Conns \ {c} : made'[e] = made[e] /\ held'[e] = held[e]
  BY <1>1, <1>2
<1>5. made'[c].id = want[r] /\ held'[c] = (want[r] \notin EngineOnly)
  BY <1>1, <1>2
<1>6. LeaseUsers' = LeaseUsers
  BY <1>2, <1>3, <1>4 DEF LeaseUsers, IsHandle
<1>7. CASE want[r] \in EngineOnly
  <2>1. LeaseState' = LeaseState
    BY <1>2, <1>4, <1>5, <1>7 DEF LeaseState, IsHandle
  <2> QED BY <1>6, <2>1 DEF Lease!vars
<1>8. CASE want[r] \notin EngineOnly
  <2>1. LeaseState[c] = "absent"
    BY <1>2 DEF LeaseState
  <2>2. LeaseState' = [LeaseState EXCEPT ![c] = "open"]
    BY <1>2, <1>4, <1>5, <1>8 DEF LeaseState, IsHandle
  <2>3. Lease!Open(c)
    BY <2>1, <2>2, <1>6 DEF Lease!Open
  <2> QED BY <2>3 DEF Lease!Next
<1> QED BY <1>7, <1>8

\* close() marks a handle that is open: the session is retired.
LEMMA CloseRetires ==
    ASSUME IInv, NEW t \in Threads, NEW c \in Conns, CloseDeferred(t, c) \/ CloseNow(t, c)
    PROVE  [Lease!Next]_(Lease!vars)
<1>1. /\ made' = made /\ held' = held /\ inner' = inner
      /\ closing' = [closing EXCEPT ![c] = CloseMarks(c)]
      /\ closing \in [Conns -> BOOLEAN]
  BY DEF CloseDeferred, CloseNow, turnVars, IInv, TypeOK, PoolTypeOK
<1>2. \A e \in Conns : Users(e)' = Users(e)
  BY DEF CloseDeferred, CloseNow, turnVars, Disposing, After, Resume, Users, IInv, TypeOK,
         ThreadTypeOK, Threads
<1>3. LeaseUsers' = LeaseUsers
  BY <1>1, <1>2 DEF LeaseUsers, IsHandle
<1>4. CASE IsHandle(c) /\ held[c] /\ ~closing[c]
  <2>1. LeaseState[c] = "open"
    BY <1>4 DEF LeaseState
  <2>2. LeaseState' = [LeaseState EXCEPT ![c] = "retired"]
    BY <1>1, <1>4 DEF LeaseState, IsHandle, CloseMarks
  <2>3. Lease!Retire(c)
    BY <2>1, <2>2, <1>3 DEF Lease!Retire
  <2> QED BY <2>3 DEF Lease!Next
<1>5. CASE ~(IsHandle(c) /\ held[c] /\ ~closing[c])
  <2>1. LeaseState' = LeaseState
    BY <1>1, <1>5 DEF LeaseState, IsHandle, CloseMarks
  <2> QED BY <2>1, <1>3 DEF Lease!vars
<1> QED BY <1>4, <1>5

\* _release closes a retired session nobody uses.
LEMMA ReleaseCloses ==
    ASSUME IInv, NEW t \in Threads, Release(t)
    PROVE  [Lease!Next]_(Lease!vars)
<1> DEFINE c == victim[t]
<1>1. /\ c \in Conns
      /\ made' = made /\ closing' = closing /\ inner' = inner
      /\ held' = [held EXCEPT ![c] = @ /\ ~IsHandle(c) /\ count[c] > 0]
      /\ held \in [Conns -> BOOLEAN]
  BY DEF Release, turnVars, IInv, TypeOK, PoolTypeOK, ThreadTypeOK
<1>2. \A e \in Conns : Users(e)' = Users(e)
  BY DEF Release, turnVars, After, Resume, Users, IInv, TypeOK, ThreadTypeOK, Threads,
         ReleasesBetween
<1>3. LeaseUsers' = LeaseUsers
  BY <1>1, <1>2 DEF LeaseUsers, IsHandle
<1>4. \A e \in Conns \ {c} : held'[e] = held[e]
  BY <1>1
<1>5. CASE IsHandle(c) /\ held[c]
  <2>1. closing[c] /\ count[c] = 0
    BY <1>5 DEF Release, IInv, VictimIsIdle
  <2>2. Users(c) = {}
    BY <1>1, <2>1, UsersFinite, FS_EmptySet DEF IInv, CountsUsers
  <2>3. LeaseState[c] = "retired" /\ LeaseUsers[c] = {}
    BY <1>1, <1>5, <2>1, <2>2 DEF LeaseState, LeaseUsers
  <2>4. LeaseState' = [LeaseState EXCEPT ![c] = "closed"]
    BY <1>1, <1>4, <1>5 DEF LeaseState, IsHandle
  <2>5. Lease!Close(c)
    BY <2>3, <2>4, <1>3 DEF Lease!Close
  <2> QED BY <1>1, <2>5 DEF Lease!Next
<1>6. CASE ~(IsHandle(c) /\ held[c])
  <2>1. LeaseState' = LeaseState
    BY <1>1, <1>4, <1>6 DEF LeaseState, IsHandle
  <2> QED BY <2>1, <1>3 DEF Lease!vars
<1> QED BY <1>5, <1>6

\* A statement is counted in only on a session that is open.
LEMMA EnterStarts ==
    ASSUME IInv, NEW r \in Requests, EnterUse(r)
    PROVE  [Lease!Next]_(Lease!vars)
<1> DEFINE c == inner[r]
<1>1. /\ c \in Conns /\ Built(c) /\ ~closing[c] /\ pc[r] = "enter"
      /\ made' = made /\ closing' = closing /\ inner' = inner
      /\ pc' = [pc EXCEPT ![r] = "running"] /\ r \in DOMAIN pc
      /\ held' = [held EXCEPT ![c] = @ \/ ~IsHandle(c)]
      /\ held \in [Conns -> BOOLEAN]
  BY DEF EnterUse, IInv, TypeOK, PoolTypeOK, ThreadTypeOK, HasConnector, Threads
<1>2. \A e \in Conns : r \notin Users(e)
  BY <1>1 DEF Users
<1>3. \A e \in Conns : Users(e)' = IF e = c THEN Users(e) \cup {r} ELSE Users(e)
  BY <1>1 DEF Users
<1>4. IsHandle(c) => held[c]
  BY <1>1 DEF IInv, OpenUntilClosing
<1>5. LeaseState' = LeaseState
  BY <1>1, <1>4 DEF LeaseState, IsHandle
<1>6. CASE IsHandle(c)
  <2>1. LeaseState[c] = "open"
    BY <1>1, <1>4, <1>6 DEF LeaseState
  <2>2. LeaseUsers' = [LeaseUsers EXCEPT ![c] = @ \cup {r}]
    BY <1>1, <1>3, <1>6 DEF LeaseUsers, IsHandle
  <2>3. \A e \in Conns : r \notin LeaseUsers[e]
    BY <1>2 DEF LeaseUsers
  <2>4. Lease!Start(r, c)
    BY <2>1, <2>2, <2>3, <1>5 DEF Lease!Start
  <2> QED BY <1>1, <2>4 DEF Lease!Next
<1>7. CASE ~IsHandle(c)
  <2>1. LeaseUsers' = LeaseUsers
    BY <1>1, <1>3, <1>7 DEF LeaseUsers, IsHandle
  <2> QED BY <2>1, <1>5 DEF Lease!vars
<1> QED BY <1>6, <1>7

\* A statement that is over is counted out.
LEMMA LeaveFinishes ==
    ASSUME IInv, NEW r \in Requests, Leave(r)
    PROVE  [Lease!Next]_(Lease!vars)
<1> DEFINE c == inner[r]
<1>1. /\ c \in Conns /\ pc[r] = "running" /\ r \in DOMAIN pc
      /\ made' = made /\ closing' = closing /\ inner' = inner /\ held' = held
      /\ pc' = [pc EXCEPT ![r] = IF LeavesLast(c) THEN "leave" ELSE "ready"]
  BY RunningCounts DEF Leave, turnVars, IInv, TypeOK, ThreadTypeOK, Threads
<1>2. r \in Users(c)
  BY <1>1 DEF Users
<1>3. \A e \in Conns : Users(e)' = IF e = c THEN Users(e) \ {r} ELSE Users(e)
  BY <1>1 DEF Users
<1>4. LeaseState' = LeaseState
  BY <1>1 DEF LeaseState, IsHandle
<1>5. CASE IsHandle(c)
  <2>1. LeaseUsers' = [LeaseUsers EXCEPT ![c] = @ \ {r}] /\ r \in LeaseUsers[c]
    BY <1>1, <1>2, <1>3, <1>5 DEF LeaseUsers, IsHandle
  <2>2. Lease!Finish(r, c)
    BY <2>1, <1>4 DEF Lease!Finish
  <2> QED BY <1>1, <2>2 DEF Lease!Next
<1>6. CASE ~IsHandle(c)
  <2>1. LeaseUsers' = LeaseUsers
    BY <1>1, <1>3, <1>6 DEF LeaseUsers, IsHandle
  <2> QED BY <2>1, <1>4 DEF Lease!vars
<1> QED BY <1>5, <1>6

\* Every other step of a request leaves sessions, marks and users alone.
LEMMA OtherStepsStutter ==
    ASSUME IInv, NEW r \in Requests,
           \/ OpenRead(r) \/ ReopenRead(r) \/ OpenFails(r)
           \/ CacheMiss(r) \/ CacheHit(r) \/ CacheStale(r) \/ CachePut(r)
           \/ BeginStatement(r) \/ EnterReopens(r) \/ EnterRaises(r) \/ Finish(r)
    PROVE  UNCHANGED Lease!vars
<1>1. made' = made /\ held' = held /\ closing' = closing
  BY DEF OpenRead, ReopenRead, OpenFails, CacheMiss, CacheHit, CacheStale, CachePut,
         BeginStatement, EnterReopens, EnterRaises, Finish, poolVars
<1>2. /\ pc[r] # "running"
      /\ \E p \in RequestPCs \ {"running"} : pc' = [pc EXCEPT ![r] = p]
      /\ \A s \in Requests \ {r} : inner'[s] = inner[s]
  BY DEF OpenRead, ReopenRead, OpenFails, CacheMiss, CacheHit, CacheStale, CachePut,
         BeginStatement, EnterReopens, EnterRaises, Finish, turnVars, Resume, RequestPCs,
         IInv, TypeOK, TurnTypeOK
<1>3. \A c \in Conns : Users(c)' = Users(c)
  BY <1>2 DEF Users, IInv, TypeOK, ThreadTypeOK, Threads
<1> QED BY <1>1, <1>3, LeaseStutter

\* Operators, the clock and invalidation touch no session by themselves.
LEMMA OutsideStutters ==
    ASSUME IInv, Outside
    PROVE  UNCHANGED Lease!vars
<1>1. made' = made /\ held' = held /\ closing' = closing /\ inner' = inner
  BY DEF Outside, Rotate, Age, Rebind, Invalidate, InvalidateAll, poolVars, turnVars
<1>2. \A r \in Requests : pc'[r] = pc[r]
  BY ThreadAssumption DEF Outside, Rotate, Age, Rebind, Invalidate, InvalidateAll, IInv,
     TypeOK, ThreadTypeOK, Threads
<1>3. \A c \in Conns : Users(c)' = Users(c)
  BY <1>1, <1>2 DEF Users
<1> QED BY <1>1, <1>3, LeaseStutter

\* For connectors with a raw handle the pool implements SessionLease: opened
\* once, used only while nobody has retired it, closed once and only when
\* the last statement has left.
THEOREM PoolImplementsLease == Spec => ImplementsLease
<1>1. Init => Lease!Init
  <2> SUFFICES ASSUME Init PROVE Lease!Init
    OBVIOUS
  <2>1. \A c \in Conns : ~IsHandle(c)
    BY NullAssumption DEF Init, IsHandle, Unbuilt
  <2> QED BY <2>1 DEF Lease!Init, LeaseState, LeaseUsers
<1>2. ASSUME IInv, [Next]_vars PROVE [Lease!Next]_(Lease!vars)
  <2>1. ASSUME NEW r \in Requests, RequestStep(r) PROVE [Lease!Next]_(Lease!vars)
    BY <1>2, <2>1, OtherStepsStutter, BuildOpens, EnterStarts, LeaveFinishes DEF RequestStep
  <2>2. ASSUME NEW t \in Threads, DisposeStep(t) PROVE [Lease!Next]_(Lease!vars)
    BY <1>2, <2>2, CloseRetires, ReleaseCloses DEF DisposeStep
  <2>3. CASE Outside
    BY <1>2, <2>3, OutsideStutters
  <2>4. CASE UNCHANGED vars
    BY <2>4, LeaseStutter DEF vars, poolVars, turnVars, Users
  <2> QED BY <1>2, <2>1, <2>2, <2>3, <2>4 DEF Next
<1> QED BY <1>1, <1>2, InvariantHolds, PTL DEF Spec, ImplementsLease, Lease!Spec

----------------------------------------------------------------------------
(* Whose connectors are, and what is cached of them.                       *)

\* A thread has connectors in its hands only while it disposes of them.
HandsEmpty == \A t \in Threads : ~Disposing(t) => todo[t] = {}

\* One entry at most has a connector, and one that is cached is nobody's to
\* release: no thread has popped it, or releases it, and no statement owes it.
CachedIsAlone ==
    \A i \in Cached :
        /\ \A j \in Cached : cache[i].conn = cache[j].conn => i = j
        /\ \A t \in Threads : cache[i].conn \notin todo[t] /\ victim[t] # cache[i].conn
        /\ ~deferred[cache[i].conn]

\* A connector about to be stored is its builder's alone.
NewIsAlone ==
    \A r \in Requests : pc[r] = "put" =>
        /\ \A i \in Cached : cache[i].conn # inner[r]
        /\ \A s \in Requests \ {r} : pc[s] = "put" => inner[s] # inner[r]
        /\ \A t \in Threads : inner[r] \notin todo[t] /\ victim[t] # inner[r]
        /\ ~deferred[inner[r]]

\* What a thread has popped, no other thread has, and nobody releases.
PoppedIsAlone ==
    \A t \in Threads : \A c \in todo[t] :
        /\ \A u \in Threads \ {t} : c \notin todo[u]
        /\ \A u \in Threads : victim[u] # c
        /\ ~deferred[c]

\* What a thread releases, no other thread does, and no statement owes it.
VictimIsAlone ==
    \A t \in Threads : victim[t] # NoConn =>
        /\ \A u \in Threads \ {t} : victim[u] # victim[t]
        /\ ~deferred[victim[t]]

\* An open session of a raw handle is somebody's to close.
HandleIsOwed ==
    \A c \in Conns : held[c] /\ IsHandle(c) =>
        \/ \E i \in Cached : cache[i].conn = c
        \/ \E r \in Requests : pc[r] = "put" /\ inner[r] = c
        \/ \E t \in Threads : c \in todo[t] \/ victim[t] = c
        \/ deferred[c]

\* An entry says what its connector was built from, with a fingerprint taken no
\* later than the credential was read.
EntriesTrue ==
    \A i \in Cached :
        /\ made[cache[i].conn].id = i
        /\ made[cache[i].conn].degraded = cache[i].degraded
        /\ made[cache[i].conn].cred >= cache[i].fp

\* A fingerprint is taken before the password is read.
FingerprintFirst ==
    \A r \in Requests :
        /\ pc[r] \in {"lookup", "drop", "build"} => fp[r] <= cred[want[r]]
        /\ pc[r] = "put" => fp[r] <= made[inner[r]].cred

\* A wrapper's connector is one of the id it is pinned to; a turn has none before
\* its first open is over, nor when it has ended.
WrapsItsId ==
    \A r \in Requests :
        /\ inner[r] # NoConn => Built(inner[r]) /\ made[inner[r]].id = want[r]
        /\ pc[r] \in {"idle", "done"} => inner[r] = NoConn
        /\ pc[r] \in {"lookup", "drop", "build"} /\ attempt[r] = 0 => inner[r] = NoConn
        /\ pc[r] = "reread" => attempt[r] > 0

\* A connector of a class resolved by default is one wrapper's.
DegradedIsAlone ==
    \A r, s \in Requests :
        r # s /\ inner[r] = inner[s] /\ inner[r] # NoConn => ~made[inner[r]].degraded

\* The inductive invariant.
CustodyInv ==
    /\ HandsEmpty /\ CachedIsAlone /\ NewIsAlone /\ PoppedIsAlone /\ VictimIsAlone /\ HandleIsOwed
    /\ EntriesTrue /\ FingerprintFirst /\ WrapsItsId /\ DegradedIsAlone

----------------------------------------------------------------------------
(* What _cache_put stores and pops.                                        *)

\* The ids whose entries a put takes out: the one replaced and the excess.
Popped(r) == Cached \cap (Overflow(Append(Without(lru, want[r]), want[r])) \cup {want[r]})

\* What is stored is an entry.
LEMMA StoredIsEntry ==
    ASSUME IInv, NEW r \in Requests, CachePut(r)
    PROVE  EntryFor(r) \in Entry
<1>1. inner[r] \in Conns /\ Built(inner[r])
  BY DEF CachePut, IInv, HasConnector
<1>2. made[inner[r]] \in Made
  BY <1>1, NullAssumption DEF Built, Unbuilt, IInv, TypeOK, PoolTypeOK
<1> QED
  BY <1>1, <1>2 DEF EntryFor, Entry, Made, IInv, TypeOK, TurnTypeOK

\* The new connector is cached under its id, every other entry stays or its
\* connector is in the thread's hands.
LEMMA WhatIsPut ==
    ASSUME IInv, NEW r \in Requests, CachePut(r)
    PROVE  /\ want[r] \in Ids /\ r \in Threads /\ inner[r] \in Conns /\ pc[r] = "put"
           /\ todo'[r] = {cache[i].conn : i \in Popped(r)}
           /\ \A t \in Threads \ {r} : todo'[t] = todo[t]
           /\ want[r] \in Cached' /\ cache'[want[r]].conn = inner[r]
           /\ \A i \in Cached \ Popped(r) : i \in Cached'
           /\ \A i \in Cached' \ {want[r]} : i \in Cached \ Popped(r) /\ cache'[i] = cache[i]
           /\ deferred' = deferred /\ victim' = victim /\ inner' = inner
           /\ pc'[r] # "put" /\ \A s \in Requests \ {r} : pc'[s] = pc[s]
<1>1. want[r] \in Ids /\ r \in Threads /\ inner[r] \in Conns /\ pc[r] = "put"
  BY DEF CachePut, IInv, HasId, HasConnector, Threads
<1>2. todo'[r] = {cache[i].conn : i \in Popped(r)} /\ \A t \in Threads \ {r} : todo'[t] = todo[t]
  BY <1>1 DEF CachePut, Popped, IInv, TypeOK, ThreadTypeOK
<1>3. /\ cache'[want[r]] = EntryFor(r)
      /\ \A i \in Ids \ {want[r]} : cache'[i] = IF i \in Popped(r) THEN NoEntry ELSE cache[i]
  BY <1>1 DEF CachePut, Popped, Cached
<1>4. EntryFor(r) # NoEntry /\ EntryFor(r).conn = inner[r]
  BY StoredIsEntry, EntryAssumption DEF EntryFor
<1>5. \A i \in Ids : i \in Cached' <=> i = want[r] \/ (i \in Cached /\ i \notin Popped(r))
  BY <1>1, <1>3, <1>4 DEF Cached
<1>6. \A i \in Cached' \ {want[r]} : i \in Cached \ Popped(r) /\ cache'[i] = cache[i]
  BY <1>3, <1>5 DEF Cached
<1>7. \A i \in Cached \ Popped(r) : i \in Cached'
  BY <1>5 DEF Cached
<1>8. pc'[r] # "put" /\ \A s \in Requests \ {r} : pc'[s] = pc[s]
  BY <1>1 DEF CachePut, Resume, IInv, TypeOK, ThreadTypeOK
<1>9. deferred' = deferred /\ victim' = victim /\ inner' = inner
  BY DEF CachePut
<1> QED
  BY <1>1, <1>2, <1>3, <1>4, <1>5, <1>6, <1>7, <1>8, <1>9

----------------------------------------------------------------------------
(* Each action keeps a connector in one place.                             *)

\* A credential is replaced.
LEMMA RotateKeepsCustody ==
    ASSUME IInv, CustodyInv, NEW i \in Ids, Rotate(i)
    PROVE  CustodyInv'
<1>1. HandsEmpty'
  BY DEF CustodyInv, HandsEmpty, Rotate, Disposing
<1>2. CachedIsAlone'
  BY DEF CustodyInv, CachedIsAlone, Rotate, poolVars, Cached
<1>3. NewIsAlone'
  BY DEF CustodyInv, NewIsAlone, Rotate, poolVars, turnVars, Cached
<1>4. PoppedIsAlone'
  BY DEF CustodyInv, PoppedIsAlone, Rotate, poolVars
<1>5. VictimIsAlone'
  BY DEF CustodyInv, VictimIsAlone, Rotate, poolVars
<1>6. HandleIsOwed'
  BY DEF CustodyInv, HandleIsOwed, Rotate, poolVars, turnVars, Cached, IsHandle
<1>7. EntriesTrue'
  BY DEF CustodyInv, EntriesTrue, Rotate, poolVars, Cached
<1>8. FingerprintFirst'
  BY DEF CustodyInv, FingerprintFirst, Rotate, IInv, TypeOK, TurnTypeOK, poolVars,
         turnVars
<1>9. WrapsItsId'
  BY DEF CustodyInv, WrapsItsId, Rotate, poolVars, turnVars, Built
<1>10. DegradedIsAlone'
  BY DEF CustodyInv, DegradedIsAlone, Rotate, poolVars, turnVars
<1> QED
  BY <1>1, <1>2, <1>3, <1>4, <1>5, <1>6, <1>7, <1>8, <1>9, <1>10 DEF CustodyInv

\* An agent is bound to another connector.
LEMMA RebindKeepsCustody ==
    ASSUME IInv, CustodyInv, NEW r \in Requests, NEW i \in Ids, Rebind(r, i)
    PROVE  CustodyInv'
<1>1. HandsEmpty'
  BY DEF CustodyInv, HandsEmpty, Rebind, Disposing
<1>2. CachedIsAlone'
  BY DEF CustodyInv, CachedIsAlone, Rebind, poolVars, Cached
<1>3. NewIsAlone'
  BY DEF CustodyInv, NewIsAlone, Rebind, poolVars, turnVars, Cached
<1>4. PoppedIsAlone'
  BY DEF CustodyInv, PoppedIsAlone, Rebind, poolVars
<1>5. VictimIsAlone'
  BY DEF CustodyInv, VictimIsAlone, Rebind, poolVars
<1>6. HandleIsOwed'
  BY DEF CustodyInv, HandleIsOwed, Rebind, poolVars, turnVars, Cached, IsHandle
<1>7. EntriesTrue'
  BY DEF CustodyInv, EntriesTrue, Rebind, poolVars, Cached
<1>8. FingerprintFirst'
  BY DEF CustodyInv, FingerprintFirst, Rebind, poolVars, turnVars
<1>9. WrapsItsId'
  BY DEF CustodyInv, WrapsItsId, Rebind, poolVars, turnVars, Built
<1>10. DegradedIsAlone'
  BY DEF CustodyInv, DegradedIsAlone, Rebind, poolVars, turnVars
<1> QED
  BY <1>1, <1>2, <1>3, <1>4, <1>5, <1>6, <1>7, <1>8, <1>9, <1>10 DEF CustodyInv

\* An entry grows old.
LEMMA AgeKeepsCustody ==
    ASSUME IInv, CustodyInv, NEW i \in Ids, Age(i)
    PROVE  CustodyInv'
<1>1. HandsEmpty'
  BY DEF CustodyInv, HandsEmpty, Age, Disposing
<1>2. CachedIsAlone'
  BY DEF CustodyInv, CachedIsAlone, Age, Cached
<1>3. NewIsAlone'
  BY DEF CustodyInv, NewIsAlone, Age, Cached, turnVars
<1>4. PoppedIsAlone'
  BY DEF CustodyInv, PoppedIsAlone, Age
<1>5. VictimIsAlone'
  BY DEF CustodyInv, VictimIsAlone, Age
<1>6. HandleIsOwed'
  <2>1. cache[i] \in Entry
    BY DEF Age, Cached, IInv, TypeOK, PoolTypeOK
  <2>2. [cache[i] EXCEPT !.old = TRUE] \in Entry
    BY <2>1 DEF Entry
  <2>3. cache' = [cache EXCEPT ![i] = [cache[i] EXCEPT !.old = TRUE]]
    BY DEF Age
  <2>4. \A j \in Cached : j \in Cached' /\ cache'[j].conn = cache[j].conn
    BY <2>1, <2>3, EntryAssumption DEF Cached, Entry, IInv, TypeOK, PoolTypeOK
  <2> QED
    BY <2>4 DEF CustodyInv, HandleIsOwed, Age, turnVars, IsHandle
<1>7. EntriesTrue'
  BY DEF CustodyInv, EntriesTrue, Age, Cached
<1>8. FingerprintFirst'
  BY DEF CustodyInv, FingerprintFirst, Age, turnVars
<1>9. WrapsItsId'
  BY DEF CustodyInv, WrapsItsId, Age, turnVars, Built
<1>10. DegradedIsAlone'
  BY DEF CustodyInv, DegradedIsAlone, Age, turnVars
<1> QED
  BY <1>1, <1>2, <1>3, <1>4, <1>5, <1>6, <1>7, <1>8, <1>9, <1>10 DEF CustodyInv

\* An open reads the file.
LEMMA OpenReadKeepsCustody ==
    ASSUME IInv, CustodyInv, NEW r \in Requests, OpenRead(r)
    PROVE  CustodyInv'
<1>1. HandsEmpty'
  BY DEF CustodyInv, HandsEmpty, OpenRead, Disposing
<1>2. CachedIsAlone'
  BY DEF CustodyInv, CachedIsAlone, OpenRead, poolVars, Cached
<1>3. NewIsAlone'
  BY DEF CustodyInv, NewIsAlone, OpenRead, poolVars, Cached
<1>4. PoppedIsAlone'
  BY DEF CustodyInv, PoppedIsAlone, OpenRead, poolVars
<1>5. VictimIsAlone'
  BY DEF CustodyInv, VictimIsAlone, OpenRead, poolVars
<1>6. HandleIsOwed'
  BY DEF CustodyInv, HandleIsOwed, OpenRead, ThreadTypeOK, Threads, poolVars, Cached,
         IsHandle
<1>7. EntriesTrue'
  BY DEF CustodyInv, EntriesTrue, OpenRead, poolVars, Cached
<1>8. FingerprintFirst'
  BY DEF CustodyInv, FingerprintFirst, OpenRead, IInv, TypeOK, TurnTypeOK, poolVars
<1>9. WrapsItsId'
  BY DEF CustodyInv, WrapsItsId, OpenRead, poolVars, Built
<1>10. DegradedIsAlone'
  BY DEF CustodyInv, DegradedIsAlone, OpenRead, poolVars
<1> QED
  BY <1>1, <1>2, <1>3, <1>4, <1>5, <1>6, <1>7, <1>8, <1>9, <1>10 DEF CustodyInv

\* A reopen reads the file.
LEMMA ReopenReadKeepsCustody ==
    ASSUME IInv, CustodyInv, NEW r \in Requests, ReopenRead(r)
    PROVE  CustodyInv'
<1>1. HandsEmpty'
  BY DEF CustodyInv, HandsEmpty, ReopenRead, Disposing
<1>2. CachedIsAlone'
  BY DEF CustodyInv, CachedIsAlone, ReopenRead, poolVars, Cached
<1>3. NewIsAlone'
  BY DEF CustodyInv, NewIsAlone, ReopenRead, Threads, poolVars, Cached
<1>4. PoppedIsAlone'
  BY DEF CustodyInv, PoppedIsAlone, ReopenRead, poolVars
<1>5. VictimIsAlone'
  BY DEF CustodyInv, VictimIsAlone, ReopenRead, poolVars
<1>6. HandleIsOwed'
  BY DEF CustodyInv, HandleIsOwed, ReopenRead, ThreadTypeOK, Threads, poolVars, Cached,
         IsHandle
<1>7. EntriesTrue'
  BY DEF CustodyInv, EntriesTrue, ReopenRead, poolVars, Cached
<1>8. FingerprintFirst'
  <2>1. want[r] \in Ids
    BY DEF IInv, HasId, ReopenRead
  <2> QED
    BY <2>1 DEF CustodyInv, FingerprintFirst, ReopenRead, IInv, TypeOK, TurnTypeOK,
           poolVars
<1>9. WrapsItsId'
  BY DEF CustodyInv, WrapsItsId, ReopenRead, poolVars, Built
<1>10. DegradedIsAlone'
  BY DEF CustodyInv, DegradedIsAlone, ReopenRead, poolVars
<1> QED
  BY <1>1, <1>2, <1>3, <1>4, <1>5, <1>6, <1>7, <1>8, <1>9, <1>10 DEF CustodyInv

\* An open fails.
LEMMA OpenFailsKeepsCustody ==
    ASSUME IInv, CustodyInv, NEW r \in Requests, OpenFails(r)
    PROVE  CustodyInv'
<1>1. HandsEmpty'
  BY DEF CustodyInv, HandsEmpty, OpenFails, Disposing
<1>2. CachedIsAlone'
  BY DEF CustodyInv, CachedIsAlone, OpenFails, poolVars, Cached
<1>3. NewIsAlone'
  BY DEF CustodyInv, NewIsAlone, OpenFails, Threads, poolVars, Cached
<1>4. PoppedIsAlone'
  BY DEF CustodyInv, PoppedIsAlone, OpenFails, poolVars
<1>5. VictimIsAlone'
  BY DEF CustodyInv, VictimIsAlone, OpenFails, poolVars
<1>6. HandleIsOwed'
  BY DEF CustodyInv, HandleIsOwed, OpenFails, ThreadTypeOK, Threads, poolVars, Cached,
         IsHandle
<1>7. EntriesTrue'
  BY DEF CustodyInv, EntriesTrue, OpenFails, poolVars, Cached
<1>8. FingerprintFirst'
  BY DEF CustodyInv, FingerprintFirst, OpenFails, IInv, TypeOK, ThreadTypeOK, Threads,
         poolVars
<1>9. WrapsItsId'
  BY DEF CustodyInv, WrapsItsId, OpenFails, IInv, TypeOK, ThreadTypeOK, Threads,
         poolVars, Built
<1>10. DegradedIsAlone'
  BY DEF CustodyInv, DegradedIsAlone, OpenFails, poolVars
<1> QED
  BY <1>1, <1>2, <1>3, <1>4, <1>5, <1>6, <1>7, <1>8, <1>9, <1>10 DEF CustodyInv

\* Nothing is cached.
LEMMA CacheMissKeepsCustody ==
    ASSUME IInv, CustodyInv, NEW r \in Requests, CacheMiss(r)
    PROVE  CustodyInv'
<1>1. HandsEmpty'
  BY DEF CustodyInv, HandsEmpty, CacheMiss, Disposing
<1>2. CachedIsAlone'
  BY DEF CustodyInv, CachedIsAlone, CacheMiss, poolVars, Cached
<1>3. NewIsAlone'
  BY DEF CustodyInv, NewIsAlone, CacheMiss, poolVars, turnVars, Cached
<1>4. PoppedIsAlone'
  BY DEF CustodyInv, PoppedIsAlone, CacheMiss, poolVars
<1>5. VictimIsAlone'
  BY DEF CustodyInv, VictimIsAlone, CacheMiss, poolVars
<1>6. HandleIsOwed'
  BY DEF CustodyInv, HandleIsOwed, CacheMiss, ThreadTypeOK, Threads, poolVars, turnVars,
         Cached, IsHandle
<1>7. EntriesTrue'
  BY DEF CustodyInv, EntriesTrue, CacheMiss, poolVars, Cached
<1>8. FingerprintFirst'
  BY DEF CustodyInv, FingerprintFirst, CacheMiss, poolVars, turnVars
<1>9. WrapsItsId'
  BY DEF CustodyInv, WrapsItsId, CacheMiss, poolVars, turnVars, Built
<1>10. DegradedIsAlone'
  BY DEF CustodyInv, DegradedIsAlone, CacheMiss, poolVars, turnVars
<1> QED
  BY <1>1, <1>2, <1>3, <1>4, <1>5, <1>6, <1>7, <1>8, <1>9, <1>10 DEF CustodyInv

\* A cached connector is taken.
LEMMA CacheHitKeepsCustody ==
    ASSUME IInv, CustodyInv, NEW r \in Requests, CacheHit(r)
    PROVE  CustodyInv'
<1>1. HandsEmpty'
  BY DEF CustodyInv, HandsEmpty, CacheHit, Disposing
<1>2. CachedIsAlone'
  BY DEF CustodyInv, CachedIsAlone, CacheHit, Cached
<1>3. NewIsAlone'
  BY DEF CustodyInv, NewIsAlone, CacheHit, Resume, Cached, Threads
<1>4. PoppedIsAlone'
  BY DEF CustodyInv, PoppedIsAlone, CacheHit
<1>5. VictimIsAlone'
  BY DEF CustodyInv, VictimIsAlone, CacheHit
<1>6. HandleIsOwed'
  BY NullAssumption DEF CustodyInv, HandleIsOwed, CacheHit, Fresh, Cached, ThreadTypeOK,
         TurnTypeOK, Threads, IsHandle
<1>7. EntriesTrue'
  BY DEF CustodyInv, EntriesTrue, CacheHit, Cached
<1>8. FingerprintFirst'
  BY DEF CustodyInv, FingerprintFirst, CacheHit, Resume, Cached, IInv, TypeOK
<1>9. WrapsItsId'
  BY DEF CustodyInv, WrapsItsId, CacheHit, Resume, Cached, IInv, TypeOK, ThreadTypeOK,
         Threads, Built, NoEarlyAttempt, EntriesTrue
<1>10. DegradedIsAlone'
  <2>1. /\ made' = made /\ inner'[r] = cache[want[r]].conn
        /\ \A s \in Requests \ {r} : inner'[s] = inner[s]
    BY DEF CacheHit, IInv, TypeOK, TurnTypeOK
  <2>2. ~made[cache[want[r]].conn].degraded
    BY DEF CacheHit, Fresh, CustodyInv, EntriesTrue
  <2> QED
    BY <2>1, <2>2 DEF CustodyInv, DegradedIsAlone
<1> QED
  BY <1>1, <1>2, <1>3, <1>4, <1>5, <1>6, <1>7, <1>8, <1>9, <1>10 DEF CustodyInv

\* A stale entry is popped.
LEMMA CacheStaleKeepsCustody ==
    ASSUME IInv, CustodyInv, NEW r \in Requests, CacheStale(r)
    PROVE  CustodyInv'
<1>1. HandsEmpty'
  BY DEF CustodyInv, HandsEmpty, CacheStale, IInv, TypeOK, ThreadTypeOK, Disposing
<1>2. CachedIsAlone'
  BY DEF CustodyInv, CachedIsAlone, CacheStale, Cached, IInv, TypeOK, PoolTypeOK
<1>3. NewIsAlone'
  BY DEF CustodyInv, NewIsAlone, CacheStale, Cached, Threads, turnVars
<1>4. PoppedIsAlone'
  BY DEF CustodyInv, PoppedIsAlone, CacheStale, CachedIsAlone
<1>5. VictimIsAlone'
  BY DEF CustodyInv, VictimIsAlone, CacheStale
<1>6. HandleIsOwed'
  BY DEF CustodyInv, HandleIsOwed, CacheStale, Cached, IInv, TypeOK, ThreadTypeOK,
         Threads, turnVars, IsHandle, HandsEmpty, Disposing
<1>7. EntriesTrue'
  BY DEF CustodyInv, EntriesTrue, CacheStale, Cached
<1>8. FingerprintFirst'
  BY DEF CustodyInv, FingerprintFirst, CacheStale, turnVars
<1>9. WrapsItsId'
  BY DEF CustodyInv, WrapsItsId, CacheStale, turnVars, Built
<1>10. DegradedIsAlone'
  BY DEF CustodyInv, DegradedIsAlone, CacheStale, turnVars
<1> QED
  BY <1>1, <1>2, <1>3, <1>4, <1>5, <1>6, <1>7, <1>8, <1>9, <1>10 DEF CustodyInv

\* A connector is built.
LEMMA BuildKeepsCustody ==
    ASSUME IInv, CustodyInv, NEW r \in Requests, Build(r)
    PROVE  CustodyInv'
<1>1. HandsEmpty'
  BY DEF CustodyInv, HandsEmpty, Build, Disposing
<1>2. CachedIsAlone'
  BY DEF CustodyInv, CachedIsAlone, Build, Cached
<1>3. NewIsAlone'
  <2>1. PICK c \in Conns, d \in BOOLEAN :
          /\ ~Built(c)
          /\ made' = [made EXCEPT ![c] = [id |-> want[r], cred |-> cred[want[r]], degraded |-> d]]
          /\ held' = [held EXCEPT ![c] = want[r] \notin EngineOnly]
          /\ inner' = [inner EXCEPT ![r] = c]
    BY DEF Build
  <2>2. c # NoConn /\ ~deferred[c] /\ \A i \in Cached : cache[i].conn # c
    BY <2>1, NullAssumption DEF IInv, RefersToBuilt, Cached
  <2>3. \A t \in Threads : c \notin todo[t] /\ victim[t] # c
    BY <2>1, <2>2 DEF IInv, RefersToBuilt
  <2>4. \A s \in Requests : pc[s] = "put" => inner[s] # c
    BY <2>1 DEF IInv, HasConnector
  <2>5. inner'[r] = c /\ \A s \in Requests \ {r} : inner'[s] = inner[s] /\ pc'[s] = pc[s]
    BY <2>1 DEF Build, IInv, TypeOK, TurnTypeOK
  <2>6. deferred' = deferred /\ cache' = cache /\ todo' = todo /\ victim' = victim
    BY DEF Build
  <2> QED
    BY <2>2, <2>3, <2>4, <2>5, <2>6 DEF CustodyInv, NewIsAlone, Cached
<1>4. PoppedIsAlone'
  BY DEF CustodyInv, PoppedIsAlone, Build
<1>5. VictimIsAlone'
  BY DEF CustodyInv, VictimIsAlone, Build
<1>6. HandleIsOwed'
  <2>1. PICK c \in Conns, d \in BOOLEAN :
          /\ ~Built(c)
          /\ made' = [made EXCEPT ![c] = [id |-> want[r], cred |-> cred[want[r]], degraded |-> d]]
          /\ held' = [held EXCEPT ![c] = want[r] \notin EngineOnly]
          /\ inner' = [inner EXCEPT ![r] = c]
    BY DEF Build
  <2>2. inner'[r] = c /\ pc'[r] = "put" /\ pc[r] # "put"
    BY <2>1 DEF Build, IInv, TypeOK, ThreadTypeOK, TurnTypeOK, Threads
  <2>3. \A s \in Requests \ {r} : inner'[s] = inner[s] /\ pc'[s] = pc[s]
    BY DEF Build
  <2>4. \A e \in Conns \ {c} : held'[e] = held[e] /\ made'[e] = made[e]
    BY <2>1
  <2>5. deferred' = deferred /\ cache' = cache /\ todo' = todo /\ victim' = victim
    BY DEF Build
  <2> QED
    BY <2>2, <2>3, <2>4, <2>5 DEF CustodyInv, HandleIsOwed, IsHandle, Cached
<1>7. EntriesTrue'
  BY DEF CustodyInv, EntriesTrue, Build, Built, Cached
<1>8. FingerprintFirst'
  BY NullAssumption DEF CustodyInv, FingerprintFirst, Build, Made, IInv, TypeOK,
         PoolTypeOK, TurnTypeOK, WrapsItsId
<1>9. WrapsItsId'
  BY DEF CustodyInv, WrapsItsId, Build, Built, IInv, TypeOK, PoolTypeOK, ThreadTypeOK,
         Threads, HasId
<1>10. DegradedIsAlone'
  BY DEF CustodyInv, DegradedIsAlone, Build, Built, Threads, WrapsItsId, EntriesTrue,
         Cached
<1> QED
  BY <1>1, <1>2, <1>3, <1>4, <1>5, <1>6, <1>7, <1>8, <1>9, <1>10 DEF CustodyInv

\* A connector is stored, and others are popped.
LEMMA CachePutKeepsCustody ==
    ASSUME IInv, CustodyInv, NEW r \in Requests, CachePut(r)
    PROVE  CustodyInv'
<1>1. HandsEmpty'
  BY DEF CustodyInv, HandsEmpty, CachePut, IInv, TypeOK, ThreadTypeOK, Disposing
<1>2. CachedIsAlone'
  <2>1. \A i \in Cached' \ {want[r]} : cache[i].conn \notin todo'[r]
    BY WhatIsPut DEF CustodyInv, CachedIsAlone, Popped
  <2>2. inner[r] \notin todo'[r]
    BY WhatIsPut DEF CustodyInv, NewIsAlone, Popped
  <2>3. \A t \in Threads : \A i \in Cached' : cache'[i].conn \notin todo'[t]
    BY WhatIsPut, <2>1, <2>2 DEF CustodyInv, CachedIsAlone, NewIsAlone
  <2>4. \A i, j \in Cached' : cache'[i].conn = cache'[j].conn => i = j
    BY WhatIsPut DEF CustodyInv, CachedIsAlone, NewIsAlone
  <2>5. \A i \in Cached' : ~deferred[cache'[i].conn] /\ \A t \in Threads : victim[t] # cache'[i].conn
    BY WhatIsPut DEF CustodyInv, CachedIsAlone, NewIsAlone
  <2> QED
    BY WhatIsPut, <2>3, <2>4, <2>5 DEF CachedIsAlone
<1>3. NewIsAlone'
  <2>1. \A s \in Requests : pc'[s] = "put" => s # r /\ pc[s] = "put" /\ inner[s] # inner[r]
    BY WhatIsPut DEF CustodyInv, NewIsAlone
  <2>2. \A s \in Requests : pc'[s] = "put" => \A t \in Threads : inner[s] \notin todo'[t]
    BY WhatIsPut DEF CustodyInv, NewIsAlone, Popped
  <2>3. \A s \in Requests : pc'[s] = "put" => \A i \in Cached' : cache'[i].conn # inner[s]
    BY WhatIsPut DEF CustodyInv, NewIsAlone
  <2> QED
    BY WhatIsPut, <2>1, <2>2, <2>3 DEF CustodyInv, NewIsAlone
<1>4. PoppedIsAlone'
  <2>1. \A c \in todo'[r] : /\ \A t \in Threads : c \notin todo[t] /\ victim[t] # c
                            /\ ~deferred[c]
    BY WhatIsPut DEF CustodyInv, CachedIsAlone, Popped
  <2>2. \A t \in Threads \ {r} : todo'[t] = todo[t]
    BY WhatIsPut
  <2>3. deferred' = deferred /\ victim' = victim
    BY WhatIsPut
  <2> QED
    BY <2>1, <2>2, <2>3 DEF CustodyInv, PoppedIsAlone
<1>5. VictimIsAlone'
  BY DEF CustodyInv, VictimIsAlone, CachePut
<1>6. HandleIsOwed'
  <2>1. \A i \in Cached : (\E j \in Cached' : cache'[j].conn = cache[i].conn) \/ cache[i].conn \in todo'[r]
    BY WhatIsPut DEF Popped
  <2>2. todo[r] = {}
    BY WhatIsPut DEF CustodyInv, HandsEmpty, Disposing
  <2>3. held' = held /\ made' = made
    BY DEF CachePut
  <2> QED
    BY WhatIsPut, <2>1, <2>2, <2>3 DEF CustodyInv, HandleIsOwed, IsHandle
<1>7. EntriesTrue'
  BY NullAssumption DEF CustodyInv, EntriesTrue, CachePut, EntryFor, Cached, IInv,
         WrapsItsId, FingerprintFirst, HasConnector
<1>8. FingerprintFirst'
  BY NullAssumption DEF CustodyInv, FingerprintFirst, CachePut, Resume, Cached, IInv,
         TypeOK, ThreadTypeOK, Threads
<1>9. WrapsItsId'
  BY DEF CustodyInv, WrapsItsId, CachePut, Resume, Overflow, Built
<1>10. DegradedIsAlone'
  BY DEF CustodyInv, DegradedIsAlone, CachePut
<1> QED
  BY <1>1, <1>2, <1>3, <1>4, <1>5, <1>6, <1>7, <1>8, <1>9, <1>10 DEF CustodyInv

\* One id is invalidated.
LEMMA InvalidateKeepsCustody ==
    ASSUME IInv, CustodyInv, NEW t \in Callers, NEW i \in Ids, Invalidate(t, i)
    PROVE  CustodyInv'
<1>1. HandsEmpty'
  BY DEF CustodyInv, HandsEmpty, Invalidate, IInv, TypeOK, ThreadTypeOK, Disposing
<1>2. CachedIsAlone'
  BY DEF CustodyInv, CachedIsAlone, Invalidate, Cached, Entry, IInv, TypeOK, PoolTypeOK
<1>3. NewIsAlone'
  BY DEF CustodyInv, NewIsAlone, Invalidate, Cached, turnVars
<1>4. PoppedIsAlone'
  BY DEF CustodyInv, PoppedIsAlone, Invalidate, CachedIsAlone
<1>5. VictimIsAlone'
  BY DEF CustodyInv, VictimIsAlone, Invalidate
<1>6. HandleIsOwed'
  BY DEF CustodyInv, HandleIsOwed, Invalidate, Cached, IInv, TypeOK, ThreadTypeOK,
         Threads, turnVars, IsHandle, HandsEmpty, Disposing
<1>7. EntriesTrue'
  BY DEF CustodyInv, EntriesTrue, Invalidate, Cached
<1>8. FingerprintFirst'
  BY DEF CustodyInv, FingerprintFirst, Invalidate, turnVars
<1>9. WrapsItsId'
  BY DEF CustodyInv, WrapsItsId, Invalidate, turnVars, Built
<1>10. DegradedIsAlone'
  BY DEF CustodyInv, DegradedIsAlone, Invalidate, turnVars
<1> QED
  BY <1>1, <1>2, <1>3, <1>4, <1>5, <1>6, <1>7, <1>8, <1>9, <1>10 DEF CustodyInv

\* Everything is invalidated.
LEMMA InvalidateAllKeepsCustody ==
    ASSUME IInv, CustodyInv, NEW t \in Callers, InvalidateAll(t)
    PROVE  CustodyInv'
<1>1. HandsEmpty'
  BY DEF CustodyInv, HandsEmpty, InvalidateAll, IInv, TypeOK, ThreadTypeOK, Disposing
<1>2. CachedIsAlone'
  BY DEF CachedIsAlone, InvalidateAll, Cached
<1>3. NewIsAlone'
  BY DEF CustodyInv, NewIsAlone, InvalidateAll, Cached, turnVars
<1>4. PoppedIsAlone'
  BY DEF CustodyInv, PoppedIsAlone, InvalidateAll, CachedIsAlone
<1>5. VictimIsAlone'
  BY DEF CustodyInv, VictimIsAlone, InvalidateAll
<1>6. HandleIsOwed'
  <2>1. t \in Threads /\ todo[t] = {} /\ pc[t] # "put" /\ t \notin Requests
    BY ThreadAssumption DEF InvalidateAll, CustodyInv, HandsEmpty, Disposing, Threads
  <2>2. todo'[t] = {cache[i].conn : i \in Cached} /\ \A u \in Threads \ {t} : todo'[u] = todo[u]
    BY <2>1 DEF InvalidateAll, IInv, TypeOK, ThreadTypeOK
  <2>3. \A s \in Requests : pc'[s] = pc[s] /\ inner'[s] = inner[s]
    BY <2>1 DEF InvalidateAll, turnVars
  <2> QED
    BY <2>1, <2>2, <2>3 DEF CustodyInv, HandleIsOwed, InvalidateAll, IsHandle
<1>7. EntriesTrue'
  BY DEF EntriesTrue, InvalidateAll, Cached
<1>8. FingerprintFirst'
  BY DEF CustodyInv, FingerprintFirst, InvalidateAll, turnVars
<1>9. WrapsItsId'
  BY DEF CustodyInv, WrapsItsId, InvalidateAll, turnVars, Built
<1>10. DegradedIsAlone'
  BY DEF CustodyInv, DegradedIsAlone, InvalidateAll, turnVars
<1> QED
  BY <1>1, <1>2, <1>3, <1>4, <1>5, <1>6, <1>7, <1>8, <1>9, <1>10 DEF CustodyInv

\* A close is left to the last statement.
LEMMA CloseDeferredKeepsCustody ==
    ASSUME IInv, CustodyInv, NEW t \in Threads, NEW c \in Conns, CloseDeferred(t, c)
    PROVE  CustodyInv'
<1>1. HandsEmpty'
  BY DEF CustodyInv, HandsEmpty, CloseDeferred, Disposing
<1>2. CachedIsAlone'
  BY DEF CustodyInv, CachedIsAlone, CloseDeferred, Cached
<1>3. NewIsAlone'
  BY DEF CustodyInv, NewIsAlone, CloseDeferred, After, Resume, turnVars, Cached
<1>4. PoppedIsAlone'
  BY DEF CustodyInv, PoppedIsAlone, CloseDeferred, IInv, TypeOK, ThreadTypeOK
<1>5. VictimIsAlone'
  BY DEF CustodyInv, VictimIsAlone, CloseDeferred, PoppedIsAlone
<1>6. HandleIsOwed'
  BY DEF CustodyInv, HandleIsOwed, CloseDeferred, IInv, TypeOK, PoolTypeOK,
         ThreadTypeOK, Threads, turnVars, Cached, IsHandle, Disposing
<1>7. EntriesTrue'
  BY DEF CustodyInv, EntriesTrue, CloseDeferred, Cached
<1>8. FingerprintFirst'
  BY DEF CustodyInv, FingerprintFirst, CloseDeferred, After, Resume, turnVars
<1>9. WrapsItsId'
  <2>1. /\ made' = made /\ inner' = inner /\ want' = want /\ attempt' = attempt
    BY DEF CloseDeferred, turnVars
  <2>2. \A s \in Requests :
            \/ pc'[s] = pc[s]
            \/ pc[s] = "drop" /\ pc'[s] = "build"
            \/ pc'[s] \in {"ready", "enter"}
            \/ pc[s] \notin RequestPCs
    BY DEF CloseDeferred, After, Resume, RequestPCs
  <2> QED
    BY <2>1, <2>2 DEF CustodyInv, WrapsItsId, Built, IInv, TypeOK, ThreadTypeOK
<1>10. DegradedIsAlone'
  BY DEF CustodyInv, DegradedIsAlone, CloseDeferred, turnVars
<1> QED
  BY <1>1, <1>2, <1>3, <1>4, <1>5, <1>6, <1>7, <1>8, <1>9, <1>10 DEF CustodyInv

\* A close is decided.
LEMMA CloseNowKeepsCustody ==
    ASSUME IInv, CustodyInv, NEW t \in Threads, NEW c \in Conns, CloseNow(t, c)
    PROVE  CustodyInv'
<1>1. HandsEmpty'
  BY DEF CustodyInv, HandsEmpty, CloseNow, ThreadTypeOK, Disposing
<1>2. CachedIsAlone'
  BY DEF CustodyInv, CachedIsAlone, CloseNow, Cached
<1>3. NewIsAlone'
  BY DEF CustodyInv, NewIsAlone, CloseNow, turnVars, Cached
<1>4. PoppedIsAlone'
  BY DEF CustodyInv, PoppedIsAlone, CloseNow, IInv, TypeOK, ThreadTypeOK
<1>5. VictimIsAlone'
  BY DEF CustodyInv, VictimIsAlone, CloseNow, PoppedIsAlone
<1>6. HandleIsOwed'
  <2>1. todo' = [todo EXCEPT ![t] = @ \ {c}] /\ victim' = [victim EXCEPT ![t] = c] /\ victim[t] = NoConn
    BY DEF CloseNow
  <2>2. \A u \in Threads, e \in Conns : (e \in todo[u] \/ victim[u] = e) => (e \in todo'[u] \/ victim'[u] = e)
    BY <2>1, NullAssumption DEF IInv, TypeOK, ThreadTypeOK
  <2> QED
    BY <2>2 DEF CustodyInv, HandleIsOwed, CloseNow, IsHandle, Cached, turnVars
<1>7. EntriesTrue'
  BY DEF CustodyInv, EntriesTrue, CloseNow, Cached
<1>8. FingerprintFirst'
  BY DEF CustodyInv, FingerprintFirst, CloseNow, turnVars
<1>9. WrapsItsId'
  BY DEF CustodyInv, WrapsItsId, CloseNow, turnVars, Built
<1>10. DegradedIsAlone'
  BY DEF CustodyInv, DegradedIsAlone, CloseNow, turnVars
<1> QED
  BY <1>1, <1>2, <1>3, <1>4, <1>5, <1>6, <1>7, <1>8, <1>9, <1>10 DEF CustodyInv

\* A session is released.
LEMMA ReleaseKeepsCustody ==
    ASSUME IInv, CustodyInv, NEW t \in Threads, Release(t)
    PROVE  CustodyInv'
<1>1. HandsEmpty'
  BY DEF CustodyInv, HandsEmpty, Release, Disposing
<1>2. CachedIsAlone'
  BY NullAssumption DEF CustodyInv, CachedIsAlone, Release, IInv, TypeOK, PoolTypeOK,
         Cached, Entry
<1>3. NewIsAlone'
  BY NullAssumption DEF CustodyInv, NewIsAlone, Release, After, Resume, IInv, turnVars,
         Cached, HasConnector
<1>4. PoppedIsAlone'
  BY NullAssumption DEF CustodyInv, PoppedIsAlone, Release, Resume, IInv, TypeOK,
         ThreadTypeOK
<1>5. VictimIsAlone'
  BY DEF CustodyInv, VictimIsAlone, Release
<1>6. HandleIsOwed'
  BY DEF CustodyInv, HandleIsOwed, Release, IsHandle, IInv, TypeOK, PoolTypeOK,
         ThreadTypeOK, Threads, turnVars, Cached, ReleasesBetween
<1>7. EntriesTrue'
  BY DEF CustodyInv, EntriesTrue, Release, Cached
<1>8. FingerprintFirst'
  BY DEF CustodyInv, FingerprintFirst, Release, After, Resume, turnVars
<1>9. WrapsItsId'
  <2>1. /\ made' = made /\ inner' = inner /\ want' = want /\ attempt' = attempt
    BY DEF Release, turnVars
  <2>2. \A s \in Requests :
            \/ pc'[s] = pc[s]
            \/ pc[s] = "drop" /\ pc'[s] = "build"
            \/ pc'[s] \in {"ready", "enter"}
            \/ pc[s] \notin RequestPCs
    BY DEF Release, After, Resume, RequestPCs
  <2> QED
    BY <2>1, <2>2 DEF CustodyInv, WrapsItsId, Built, IInv, TypeOK, ThreadTypeOK
<1>10. DegradedIsAlone'
  BY DEF CustodyInv, DegradedIsAlone, Release, turnVars
<1> QED
  BY <1>1, <1>2, <1>3, <1>4, <1>5, <1>6, <1>7, <1>8, <1>9, <1>10 DEF CustodyInv

\* A statement begins.
LEMMA BeginStatementKeepsCustody ==
    ASSUME IInv, CustodyInv, NEW r \in Requests, BeginStatement(r)
    PROVE  CustodyInv'
<1>1. HandsEmpty'
  BY DEF CustodyInv, HandsEmpty, BeginStatement, Disposing
<1>2. CachedIsAlone'
  BY DEF CustodyInv, CachedIsAlone, BeginStatement, poolVars, Cached
<1>3. NewIsAlone'
  BY DEF CustodyInv, NewIsAlone, BeginStatement, Threads, poolVars, Cached
<1>4. PoppedIsAlone'
  BY DEF CustodyInv, PoppedIsAlone, BeginStatement, poolVars
<1>5. VictimIsAlone'
  BY DEF CustodyInv, VictimIsAlone, BeginStatement, poolVars
<1>6. HandleIsOwed'
  BY DEF CustodyInv, HandleIsOwed, BeginStatement, ThreadTypeOK, Threads, poolVars,
         Cached, IsHandle
<1>7. EntriesTrue'
  BY DEF CustodyInv, EntriesTrue, BeginStatement, poolVars, Cached
<1>8. FingerprintFirst'
  BY DEF CustodyInv, FingerprintFirst, BeginStatement, poolVars
<1>9. WrapsItsId'
  BY DEF CustodyInv, WrapsItsId, BeginStatement, poolVars, Built
<1>10. DegradedIsAlone'
  BY DEF CustodyInv, DegradedIsAlone, BeginStatement, poolVars
<1> QED
  BY <1>1, <1>2, <1>3, <1>4, <1>5, <1>6, <1>7, <1>8, <1>9, <1>10 DEF CustodyInv

\* A statement is counted in.
LEMMA EnterUseKeepsCustody ==
    ASSUME IInv, CustodyInv, NEW r \in Requests, EnterUse(r)
    PROVE  CustodyInv'
<1>1. HandsEmpty'
  BY DEF CustodyInv, HandsEmpty, EnterUse, Disposing
<1>2. CachedIsAlone'
  BY DEF CustodyInv, CachedIsAlone, EnterUse, Cached
<1>3. NewIsAlone'
  BY DEF CustodyInv, NewIsAlone, EnterUse, Cached
<1>4. PoppedIsAlone'
  BY DEF CustodyInv, PoppedIsAlone, EnterUse
<1>5. VictimIsAlone'
  BY DEF CustodyInv, VictimIsAlone, EnterUse
<1>6. HandleIsOwed'
  BY DEF CustodyInv, HandleIsOwed, EnterUse, IsHandle, IInv, TypeOK, PoolTypeOK,
         ThreadTypeOK, Threads, Cached, HandsEmpty
<1>7. EntriesTrue'
  BY DEF CustodyInv, EntriesTrue, EnterUse, Cached
<1>8. FingerprintFirst'
  BY DEF CustodyInv, FingerprintFirst, EnterUse
<1>9. WrapsItsId'
  BY DEF CustodyInv, WrapsItsId, EnterUse, Built
<1>10. DegradedIsAlone'
  BY DEF CustodyInv, DegradedIsAlone, EnterUse
<1> QED
  BY <1>1, <1>2, <1>3, <1>4, <1>5, <1>6, <1>7, <1>8, <1>9, <1>10 DEF CustodyInv

\* A released connector is opened again.
LEMMA EnterReopensKeepsCustody ==
    ASSUME IInv, CustodyInv, NEW r \in Requests, EnterReopens(r)
    PROVE  CustodyInv'
<1>1. HandsEmpty'
  BY DEF CustodyInv, HandsEmpty, EnterReopens, Disposing
<1>2. CachedIsAlone'
  BY DEF CustodyInv, CachedIsAlone, EnterReopens, poolVars, Cached
<1>3. NewIsAlone'
  BY DEF CustodyInv, NewIsAlone, EnterReopens, Threads, poolVars, Cached
<1>4. PoppedIsAlone'
  BY DEF CustodyInv, PoppedIsAlone, EnterReopens, poolVars
<1>5. VictimIsAlone'
  BY DEF CustodyInv, VictimIsAlone, EnterReopens, poolVars
<1>6. HandleIsOwed'
  BY DEF CustodyInv, HandleIsOwed, EnterReopens, ThreadTypeOK, Threads, poolVars,
         Cached, IsHandle
<1>7. EntriesTrue'
  BY DEF CustodyInv, EntriesTrue, EnterReopens, poolVars, Cached
<1>8. FingerprintFirst'
  BY DEF CustodyInv, FingerprintFirst, EnterReopens, poolVars
<1>9. WrapsItsId'
  BY DEF CustodyInv, WrapsItsId, EnterReopens, IInv, TypeOK, TurnTypeOK, poolVars, Built
<1>10. DegradedIsAlone'
  BY DEF CustodyInv, DegradedIsAlone, EnterReopens, poolVars
<1> QED
  BY <1>1, <1>2, <1>3, <1>4, <1>5, <1>6, <1>7, <1>8, <1>9, <1>10 DEF CustodyInv

\* A statement gives up.
LEMMA EnterRaisesKeepsCustody ==
    ASSUME IInv, CustodyInv, NEW r \in Requests, EnterRaises(r)
    PROVE  CustodyInv'
<1>1. HandsEmpty'
  BY DEF CustodyInv, HandsEmpty, EnterRaises, Disposing
<1>2. CachedIsAlone'
  BY DEF CustodyInv, CachedIsAlone, EnterRaises, poolVars, Cached
<1>3. NewIsAlone'
  BY DEF CustodyInv, NewIsAlone, EnterRaises, Threads, poolVars, Cached
<1>4. PoppedIsAlone'
  BY DEF CustodyInv, PoppedIsAlone, EnterRaises, poolVars
<1>5. VictimIsAlone'
  BY DEF CustodyInv, VictimIsAlone, EnterRaises, poolVars
<1>6. HandleIsOwed'
  BY DEF CustodyInv, HandleIsOwed, EnterRaises, ThreadTypeOK, Threads, poolVars, Cached,
         IsHandle
<1>7. EntriesTrue'
  BY DEF CustodyInv, EntriesTrue, EnterRaises, poolVars, Cached
<1>8. FingerprintFirst'
  BY DEF CustodyInv, FingerprintFirst, EnterRaises, poolVars
<1>9. WrapsItsId'
  BY DEF CustodyInv, WrapsItsId, EnterRaises, IInv, poolVars, Built
<1>10. DegradedIsAlone'
  BY DEF CustodyInv, DegradedIsAlone, EnterRaises, poolVars
<1> QED
  BY <1>1, <1>2, <1>3, <1>4, <1>5, <1>6, <1>7, <1>8, <1>9, <1>10 DEF CustodyInv

\* A statement ends.
LEMMA LeaveKeepsCustody ==
    ASSUME IInv, CustodyInv, NEW r \in Requests, Leave(r)
    PROVE  CustodyInv'
<1>1. HandsEmpty'
  BY DEF CustodyInv, HandsEmpty, Leave, Disposing
<1>2. CachedIsAlone'
  BY NullAssumption, ThreadAssumption DEF CustodyInv, CachedIsAlone, Leave, LeavesLast,
         IInv, TypeOK, PoolTypeOK, Cached, Entry
<1>3. NewIsAlone'
  BY NullAssumption DEF CustodyInv, NewIsAlone, Leave, LeavesLast, IInv, TypeOK,
         PoolTypeOK, Threads, turnVars, Cached, HasConnector
<1>4. PoppedIsAlone'
  BY NullAssumption DEF CustodyInv, PoppedIsAlone, Leave, LeavesLast, IInv, TypeOK,
         PoolTypeOK, ThreadTypeOK
<1>5. VictimIsAlone'
  BY DEF CustodyInv, VictimIsAlone, Leave, LeavesLast, IInv, TypeOK, PoolTypeOK,
         ThreadTypeOK, TurnTypeOK
<1>6. HandleIsOwed'
  <2>1. r \in Threads /\ victim[r] = NoConn /\ inner[r] \in Conns
    BY RunningCounts DEF Leave, ReleasesBetween, IInv, Threads
  <2>2. \A u \in Threads : victim[u] # NoConn => victim'[u] = victim[u]
    BY <2>1 DEF Leave
  <2>3. \A e \in Conns : deferred[e] => deferred'[e] \/ victim'[r] = e
    BY <2>1 DEF Leave, IInv, TypeOK, PoolTypeOK, ThreadTypeOK
  <2>4. \A s \in Requests : pc[s] = "put" => pc'[s] = "put"
    BY DEF Leave
  <2> QED
    BY <2>1, <2>3, NullAssumption DEF CustodyInv, HandleIsOwed, Leave, IsHandle, Cached,
           turnVars
<1>7. EntriesTrue'
  BY DEF CustodyInv, EntriesTrue, Leave, Cached
<1>8. FingerprintFirst'
  BY DEF CustodyInv, FingerprintFirst, Leave, turnVars
<1>9. WrapsItsId'
  BY DEF CustodyInv, WrapsItsId, Leave, turnVars, Built
<1>10. DegradedIsAlone'
  BY DEF CustodyInv, DegradedIsAlone, Leave, turnVars
<1> QED
  BY <1>1, <1>2, <1>3, <1>4, <1>5, <1>6, <1>7, <1>8, <1>9, <1>10 DEF CustodyInv

\* A turn ends.
LEMMA FinishKeepsCustody ==
    ASSUME IInv, CustodyInv, NEW r \in Requests, Finish(r)
    PROVE  CustodyInv'
<1>1. HandsEmpty'
  BY DEF CustodyInv, HandsEmpty, Finish, Disposing
<1>2. CachedIsAlone'
  BY DEF CustodyInv, CachedIsAlone, Finish, poolVars, Cached
<1>3. NewIsAlone'
  BY DEF CustodyInv, NewIsAlone, Finish, poolVars, Cached
<1>4. PoppedIsAlone'
  BY DEF CustodyInv, PoppedIsAlone, Finish, poolVars
<1>5. VictimIsAlone'
  BY DEF CustodyInv, VictimIsAlone, Finish, poolVars
<1>6. HandleIsOwed'
  BY DEF CustodyInv, HandleIsOwed, Finish, ThreadTypeOK, TurnTypeOK, Threads, poolVars,
         Cached, IsHandle
<1>7. EntriesTrue'
  BY DEF CustodyInv, EntriesTrue, Finish, poolVars, Cached
<1>8. FingerprintFirst'
  BY DEF CustodyInv, FingerprintFirst, Finish, poolVars
<1>9. WrapsItsId'
  BY DEF CustodyInv, WrapsItsId, Finish, IInv, TypeOK, TurnTypeOK, poolVars, Built
<1>10. DegradedIsAlone'
  BY DEF CustodyInv, DegradedIsAlone, Finish, ThreadTypeOK, poolVars
<1> QED
  BY <1>1, <1>2, <1>3, <1>4, <1>5, <1>6, <1>7, <1>8, <1>9, <1>10 DEF CustodyInv

----------------------------------------------------------------------------
(* The inductive step.                                                     *)

\* A pool with nothing in it.
LEMMA InitKeepsCustody == Init => CustodyInv
<1> SUFFICES ASSUME Init PROVE CustodyInv
  OBVIOUS
<1>1. Cached = {}
  BY DEF Init, Cached
<1>2. HandsEmpty /\ CachedIsAlone /\ NewIsAlone /\ PoppedIsAlone /\ VictimIsAlone
  BY <1>1 DEF Init, HandsEmpty, CachedIsAlone, NewIsAlone, PoppedIsAlone, VictimIsAlone, Threads
<1>3. HandleIsOwed /\ EntriesTrue
  BY <1>1 DEF Init, HandleIsOwed, EntriesTrue
<1>4. FingerprintFirst /\ WrapsItsId /\ DegradedIsAlone
  BY ThreadAssumption DEF Init, FingerprintFirst, WrapsItsId, DegradedIsAlone, Threads
<1> QED
  BY <1>2, <1>3, <1>4 DEF CustodyInv

\* Every step keeps each connector in one place.
LEMMA StepKeepsCustody == IInv /\ CustodyInv /\ [Next]_vars => CustodyInv'
<1> SUFFICES ASSUME IInv, CustodyInv, [Next]_vars PROVE CustodyInv'
  OBVIOUS
<1>1. ASSUME NEW r \in Requests, RequestStep(r) PROVE CustodyInv'
  BY <1>1, OpenReadKeepsCustody, ReopenReadKeepsCustody, OpenFailsKeepsCustody,
     CacheMissKeepsCustody, CacheHitKeepsCustody, CacheStaleKeepsCustody, BuildKeepsCustody,
     CachePutKeepsCustody, BeginStatementKeepsCustody, EnterUseKeepsCustody,
     EnterReopensKeepsCustody, EnterRaisesKeepsCustody, LeaveKeepsCustody, FinishKeepsCustody
  DEF RequestStep
<1>2. ASSUME NEW t \in Threads, DisposeStep(t) PROVE CustodyInv'
  BY <1>2, CloseDeferredKeepsCustody, CloseNowKeepsCustody, ReleaseKeepsCustody DEF DisposeStep
<1>3. CASE Outside
  BY <1>3, RotateKeepsCustody, AgeKeepsCustody, RebindKeepsCustody, InvalidateKeepsCustody,
     InvalidateAllKeepsCustody DEF Outside
<1>4. CASE UNCHANGED vars
  BY <1>4 DEF vars, poolVars, turnVars, CustodyInv, HandsEmpty, CachedIsAlone, NewIsAlone,
     PoppedIsAlone, VictimIsAlone, HandleIsOwed, EntriesTrue, FingerprintFirst, WrapsItsId,
     DegradedIsAlone, Disposing, Cached, IsHandle, Built
<1> QED BY <1>1, <1>2, <1>3, <1>4 DEF Next

----------------------------------------------------------------------------
(* The recency order.                                                      *)

\* A sequence without repetition, and what it lists.
Once(s) == \A j, k \in 1..Len(s) : s[j] = s[k] => j = k
Listed(s) == {s[k] : k \in 1..Len(s)}

\* Dropping an id drops it alone.
LEMMA WithoutDrops ==
    ASSUME NEW S, NEW s \in Seq(S), Once(s), NEW e
    PROVE  /\ Without(s, e) \in Seq(S)
           /\ Once(Without(s, e))
           /\ Listed(Without(s, e)) = Listed(s) \ {e}
           /\ Len(Without(s, e)) = IF e \in Listed(s) THEN Len(s) - 1 ELSE Len(s)
<1>1. CASE e \in Listed(s)
  <2> DEFINE m == CHOOSE k \in 1..Len(s) : s[k] = e
             u == SubSeq(s, 1, m - 1)
             v == SubSeq(s, m + 1, Len(s))
  <2>1. m \in 1..Len(s) /\ s[m] = e
    BY <1>1 DEF Listed
  <2>2. Without(s, e) = u \o v
    BY <1>1 DEF Without, RemoveAt, Listed
  <2> HIDE DEF m
  <2>3. /\ u \in Seq(S) /\ Len(u) = m - 1 /\ \A k \in 1..(m - 1) : u[k] = s[k]
        /\ v \in Seq(S) /\ Len(v) = Len(s) - m /\ \A k \in 1..(Len(s) - m) : v[k] = s[k + m]
    BY <2>1
  <2> HIDE DEF u, v
  <2> DEFINE w == u \o v
  <2>9. w \in Seq(S) /\ Len(w) = Len(s) - 1
    BY <2>1, <2>3
  <2>10. \A k \in 1..(Len(s) - 1) : w[k] = IF k < m THEN s[k] ELSE s[k + 1]
    <3> SUFFICES ASSUME NEW k \in 1..(Len(s) - 1)
                 PROVE  w[k] = IF k < m THEN s[k] ELSE s[k + 1]
      OBVIOUS
    <3>1. w[k] = IF k <= Len(u) THEN u[k] ELSE v[k - Len(u)]
      BY <2>1, <2>3
    <3>2. CASE k < m
      BY <2>1, <2>3, <3>1, <3>2
    <3>3. CASE k >= m
      <4>1. k - (m - 1) \in 1..(Len(s) - m) /\ k - (m - 1) + m = k + 1
        BY <2>1, <3>3
      <4> QED BY <2>1, <2>3, <3>1, <3>3, <4>1
    <3>4. k < m \/ k >= m
      BY <2>1
    <3> QED BY <3>2, <3>3, <3>4
  <2>4. /\ w \in Seq(S) /\ Len(w) = Len(s) - 1
        /\ \A k \in 1..(Len(s) - 1) : w[k] = IF k < m THEN s[k] ELSE s[k + 1]
    BY <2>9, <2>10
  <2> HIDE DEF w
  <2>5. Once(w)
    BY <2>1, <2>4 DEF Once
  <2>6. Listed(w) \subseteq Listed(s) \ {e}
    BY <2>1, <2>4 DEF Listed, Once
  <2>7. ASSUME NEW k \in 1..Len(s), s[k] # e PROVE s[k] \in Listed(w)
    <3>1. CASE k < m
      BY <2>1, <2>4, <3>1 DEF Listed
    <3>2. CASE k > m
      <4>1. k - 1 \in 1..(Len(s) - 1) /\ w[k - 1] = s[k]
        BY <2>1, <2>4, <3>2
      <4> QED BY <4>1, <2>4 DEF Listed
    <3> QED BY <2>1, <2>7, <3>1, <3>2
  <2>8. Listed(w) = Listed(s) \ {e}
    BY <2>6, <2>7 DEF Listed
  <2> QED BY <1>1, <2>2, <2>4, <2>5, <2>8 DEF w
<1>2. CASE e \notin Listed(s)
  BY <1>2 DEF Listed, Without
<1> QED BY <1>1, <1>2

\* Appending an id that is not listed lists it last.
LEMMA AppendLists ==
    ASSUME NEW S, NEW s \in Seq(S), Once(s), NEW e \in S, e \notin Listed(s)
    PROVE  LET order == Append(s, e)
           IN  /\ order \in Seq(S) /\ Len(order) = Len(s) + 1 /\ order[Len(order)] = e
               /\ Once(order) /\ Listed(order) = Listed(s) \cup {e}
<1> DEFINE order == Append(s, e)
<1>1. /\ order \in Seq(S) /\ Len(order) = Len(s) + 1 /\ order[Len(s) + 1] = e
      /\ \A k \in 1..Len(s) : order[k] = s[k]
  OBVIOUS
<1> HIDE DEF order
<1>2. Once(order)
  BY <1>1 DEF Once, Listed
<1>3. Listed(order) = Listed(s) \cup {e}
  BY <1>1 DEF Listed
<1> QED BY <1>1, <1>2, <1>3 DEF order

\* What is cut off the front is what overflows.
LEMMA CutDrops ==
    ASSUME NEW S, NEW order \in Seq(S), Once(order), Len(order) > 0
    PROVE  LET cut == SubSeq(order, Excess(order) + 1, Len(order))
           IN  /\ Once(cut) /\ Len(cut) <= Limit
               /\ Listed(cut) = Listed(order) \ Overflow(order)
               /\ order[Len(order)] \notin Overflow(order)
<1> DEFINE x == Excess(order)
           cut == SubSeq(order, x + 1, Len(order))
<1>1. x \in 0..(Len(order) - 1) /\ Len(order) - x <= Limit
  <2>1. Limit \in Nat \ {0} /\ Len(order) \in Nat
    BY BoundAssumption DEF Limit
  <2> QED BY <2>1 DEF Excess
<1>2. /\ Len(cut) = Len(order) - x
      /\ \A k \in 1..(Len(order) - x) : cut[k] = order[k + x]
  BY <1>1
<1>3. Overflow(order) = {order[k] : k \in 1..x}
  BY DEF Overflow
<1> HIDE DEF x, cut
<1>4. Once(cut)
  BY <1>1, <1>2 DEF Once
<1>5. Listed(cut) \subseteq Listed(order) \ Overflow(order)
  <2> SUFFICES ASSUME NEW k \in 1..(Len(order) - x)
               PROVE  cut[k] \in Listed(order) /\ cut[k] \notin Overflow(order)
    BY <1>1, <1>2 DEF Listed
  <2>1. k + x \in 1..Len(order) /\ cut[k] = order[k + x]
    BY <1>1, <1>2
  <2>2. \A j \in 1..x : j \in 1..Len(order) /\ j # k + x
    BY <1>1
  <2>3. \A j \in 1..x : order[j] # order[k + x]
    BY <2>1, <2>2 DEF Once
  <2> QED BY <1>3, <2>1, <2>3 DEF Listed
<1>6. ASSUME NEW k \in 1..Len(order), order[k] \notin Overflow(order)
      PROVE  order[k] \in Listed(cut)
  <2>1. k - x \in 1..(Len(order) - x)
    BY <1>1, <1>3, <1>6
  <2>2. cut[k - x] = order[k]
    BY <1>1, <1>2, <2>1
  <2> QED BY <1>2, <2>1, <2>2 DEF Listed
<1>7. order[Len(order)] \notin Overflow(order)
  BY <1>1, <1>3 DEF Once
<1>8. Listed(cut) = Listed(order) \ Overflow(order)
  BY <1>5, <1>6 DEF Listed
<1> QED BY <1>1, <1>2, <1>4, <1>7, <1>8 DEF cut, x

\* The order lists what is cached, each id once, and no more than the limit.
OrderOfCached == Once(lru) /\ Listed(lru) = Cached /\ Len(lru) <= Limit

\* Taking a cached connector moves its id to the end.
LEMMA CacheHitKeepsOrder ==
    ASSUME IInv, OrderOfCached, NEW r \in Requests, CacheHit(r)
    PROVE  OrderOfCached'
<1> DEFINE w == want[r]
           rest == Without(lru, w)
<1>1. /\ lru \in Seq(Ids) /\ w \in Cached /\ w \in Ids /\ Cached' = Cached
      /\ lru' = Append(rest, w)
  BY DEF CacheHit, Cached, IInv, TypeOK, PoolTypeOK
<1>2. /\ rest \in Seq(Ids) /\ Once(rest) /\ Listed(rest) = Cached \ {w} /\ Len(rest) = Len(lru) - 1
  BY <1>1, WithoutDrops DEF OrderOfCached
<1> HIDE DEF rest
<1>3. Once(lru') /\ Listed(lru') = Cached /\ Len(lru') = Len(rest) + 1
  <2>1. w \notin Listed(rest)
    BY <1>2
  <2>2. Once(Append(rest, w)) /\ Listed(Append(rest, w)) = Listed(rest) \cup {w}
        /\ Len(Append(rest, w)) = Len(rest) + 1
    BY <1>1, <1>2, <2>1, AppendLists
  <2>3. Listed(Append(rest, w)) = Cached
    BY <1>1, <1>2, <2>2
  <2> QED BY <1>1, <2>2, <2>3
<1>4. Len(lru') = Len(lru)
  BY <1>1, <1>2, <1>3
<1> QED BY <1>1, <1>3, <1>4 DEF OrderOfCached, Once, Listed

\* Popping an entry drops its id.
LEMMA PopKeepsOrder ==
    ASSUME IInv, OrderOfCached, NEW i \in Cached,
           cache' = [cache EXCEPT ![i] = NoEntry], lru' = Without(lru, i)
    PROVE  OrderOfCached'
<1>1. lru \in Seq(Ids) /\ Cached' = Cached \ {i}
  BY DEF Cached, IInv, TypeOK, PoolTypeOK
<1>2. Once(lru') /\ Listed(lru') = Cached \ {i} /\ Len(lru') <= Len(lru)
  BY <1>1, WithoutDrops DEF OrderOfCached
<1>3. Len(lru') \in Nat /\ Len(lru) \in Nat /\ Limit \in Nat
  BY <1>1, WithoutType, BoundAssumption DEF Limit
<1> QED BY <1>1, <1>2, <1>3 DEF OrderOfCached, Once, Listed

\* A put lists its id last and drops what overflows.
LEMMA CachePutKeepsOrder ==
    ASSUME IInv, OrderOfCached, NEW r \in Requests, CachePut(r)
    PROVE  OrderOfCached'
<1> DEFINE w == want[r]
           rest == Without(lru, w)
           order == Append(rest, w)
<1>1. lru \in Seq(Ids) /\ w \in Ids /\ lru' = SubSeq(order, Excess(order) + 1, Len(order))
  BY WhatIsPut DEF CachePut, IInv, TypeOK, PoolTypeOK
<1>2. rest \in Seq(Ids) /\ Once(rest) /\ Listed(rest) = Cached \ {w}
  BY <1>1, WithoutDrops DEF OrderOfCached
<1> HIDE DEF rest
<1>3. /\ order \in Seq(Ids) /\ Once(order) /\ Listed(order) = Cached \cup {w}
      /\ Len(order) > 0 /\ order[Len(order)] = w
  BY <1>1, <1>2, AppendLists
<1> HIDE DEF order
<1>4. /\ Once(lru') /\ Len(lru') <= Limit /\ w \notin Overflow(order)
      /\ Listed(lru') = (Cached \cup {w}) \ Overflow(order)
  BY <1>1, <1>3, CutDrops
<1>5. Popped(r) = Cached \cap (Overflow(order) \cup {w})
  BY DEF Popped, order, rest
<1>6. Cached' = (Cached \cup {w}) \ Overflow(order)
  BY <1>4, <1>5, WhatIsPut
<1> QED BY <1>4, <1>6 DEF OrderOfCached, Once, Listed

\* The order agrees with the entries before any request and after every step.
LEMMA OrderInvariant ==
    /\ Init => OrderOfCached
    /\ IInv /\ OrderOfCached /\ [Next]_vars => OrderOfCached'
<1>1. Init => OrderOfCached
  BY BoundAssumption DEF Init, OrderOfCached, Once, Listed, Cached, Limit
<1> SUFFICES ASSUME IInv, OrderOfCached, [Next]_vars PROVE OrderOfCached'
  BY <1>1
<1>2. ASSUME UNCHANGED <<cache, lru>> PROVE OrderOfCached'
  BY <1>2 DEF OrderOfCached, Once, Listed, Cached
<1>3. ASSUME NEW r \in Requests, RequestStep(r) PROVE OrderOfCached'
  <2>1. CASE CacheHit(r)
    BY <2>1, CacheHitKeepsOrder
  <2>2. CASE CacheStale(r)
    BY <2>2, PopKeepsOrder DEF CacheStale
  <2>3. CASE CachePut(r)
    BY <2>3, CachePutKeepsOrder
  <2>4. CASE ~(CacheHit(r) \/ CacheStale(r) \/ CachePut(r))
    BY <1>2, <1>3, <2>4 DEF RequestStep, OpenRead, ReopenRead, OpenFails, CacheMiss, Build,
       BeginStatement, EnterUse, EnterReopens, EnterRaises, Leave, Finish, poolVars
  <2> QED BY <2>1, <2>2, <2>3, <2>4
<1>4. ASSUME NEW t \in Threads, DisposeStep(t) PROVE OrderOfCached'
  BY <1>2, <1>4 DEF DisposeStep, CloseDeferred, CloseNow, Release
<1>5. ASSUME NEW i \in Ids, Rotate(i) \/ Age(i) PROVE OrderOfCached'
  <2>1. CASE Age(i)
    <3>1. cache[i] \in Entry /\ [cache[i] EXCEPT !.old = TRUE] \in Entry
      BY <2>1 DEF Age, Cached, Entry, IInv, TypeOK, PoolTypeOK
    <3>2. Cached' = Cached /\ lru' = lru
      BY <2>1, <3>1, EntryAssumption DEF Age, Cached, IInv, TypeOK, PoolTypeOK
    <3> QED BY <3>2 DEF OrderOfCached, Once, Listed
  <2> QED BY <1>2, <1>5, <2>1 DEF Rotate, poolVars
<1>6. ASSUME NEW r \in Requests, NEW i \in Ids, Rebind(r, i) PROVE OrderOfCached'
  BY <1>2, <1>6 DEF Rebind, poolVars
<1>7. ASSUME NEW t \in Callers, NEW i \in Ids, Invalidate(t, i) PROVE OrderOfCached'
  BY <1>7, PopKeepsOrder DEF Invalidate
<1>8. ASSUME NEW t \in Callers, InvalidateAll(t) PROVE OrderOfCached'
  BY <1>8, BoundAssumption DEF InvalidateAll, OrderOfCached, Once, Listed, Cached, Limit
<1>9. CASE UNCHANGED vars
  BY <1>2, <1>9 DEF vars, poolVars
<1> QED BY <1>3, <1>4, <1>5, <1>6, <1>7, <1>8, <1>9 DEF Next, Outside

----------------------------------------------------------------------------
(* The theorems.                                                           *)

\* The strengthening holds in every reachable state.
THEOREM CustodyHolds == Spec => [](IInv /\ CustodyInv /\ OrderOfCached)
BY InvariantHolds, InitKeepsCustody, StepKeepsCustody, OrderInvariant, PTL DEF Spec

\* Two owe no connector its close, if one owes it at most.
LEMMA OneOwes ==
    ASSUME IInv, CustodyInv, NEW c \in Conns
    PROVE  Cardinality(Custodians(c)) <= 1
<1>1. ASSUME NEW x \in Custodians(c), NEW y \in Custodians(c) PROVE x = y
  <2> USE DEF Custodians, CustodyInv, CachedIsAlone, NewIsAlone, PoppedIsAlone, VictimIsAlone
  <2>1. CASE \E i \in Cached : cache[i].conn = c /\ x = <<"cache", i>>
    BY <1>1, <2>1, NullAssumption
  <2>2. CASE \E r \in Requests : pc[r] = "put" /\ inner[r] = c /\ x = <<"put", r>>
    BY <1>1, <2>2, NullAssumption
  <2>3. CASE \E t \in Threads : c \in todo[t] /\ x = <<"todo", t>>
    BY <1>1, <2>3, NullAssumption
  <2>4. CASE \E t \in Threads : victim[t] = c /\ x = <<"victim", t>>
    BY <1>1, <2>4, NullAssumption
  <2>5. CASE deferred[c] /\ x = <<"deferred", c>>
    BY <1>1, <2>5, NullAssumption
  <2> QED BY <1>1, <2>1, <2>2, <2>3, <2>4, <2>5
<1>2. CASE Custodians(c) = {}
  BY <1>2, FS_EmptySet
<1>3. CASE Custodians(c) # {}
  <2>1. PICK x : x \in Custodians(c)
    BY <1>3
  <2>2. Custodians(c) = {x}
    BY <1>1, <2>1
  <2>3. Cardinality({x}) = 1
    BY FS_Singleton
  <2> QED BY <2>2, <2>3
<1> QED BY <1>2, <1>3

\* The cache is what its callers take it for, for any ids, threads and limits: it
\* alone closes what it holds, lists what it holds in its order, and shares no
\* connector that could not tell its database apart.
THEOREM CacheIsSound == Spec => []CacheHolds
<1>1. IInv /\ CustodyInv => OneCustodian
  <2> SUFFICES ASSUME IInv, CustodyInv, NEW c \in Conns
               PROVE  /\ Cardinality(Custodians(c)) <= 1
                      /\ held[c] /\ IsHandle(c) => Custodians(c) # {}
    BY DEF OneCustodian
  <2>1. ASSUME held[c], IsHandle(c) PROVE Custodians(c) # {}
    <3>1. \A i \in Cached : cache[i].conn = c => <<"cache", i>> \in Custodians(c)
      BY DEF Custodians
    <3>2. \A r \in Requests : pc[r] = "put" /\ inner[r] = c => <<"put", r>> \in Custodians(c)
      BY DEF Custodians
    <3>3. \A t \in Threads : c \in todo[t] => <<"todo", t>> \in Custodians(c)
      BY DEF Custodians
    <3>4. \A t \in Threads : victim[t] = c => <<"victim", t>> \in Custodians(c)
      BY DEF Custodians
    <3>5. deferred[c] => <<"deferred", c>> \in Custodians(c)
      BY DEF Custodians
    <3> QED BY <2>1, <3>1, <3>2, <3>3, <3>4, <3>5 DEF CustodyInv, HandleIsOwed
  <2> QED BY <2>1, OneOwes
<1>2. IInv /\ OrderOfCached => PoolOrder
  <2> SUFFICES ASSUME IInv, OrderOfCached PROVE PoolOrder
    OBVIOUS
  <2>1. lru \in Seq(Ids)
    BY DEF IInv, TypeOK, PoolTypeOK
  <2>2. lru \in Bijection(1..Len(lru), Cached)
    BY <2>1 DEF OrderOfCached, Once, Listed, Bijection, Injection, Surjection, IsInjective
  <2>3. Cardinality(Cached) = Len(lru)
    BY <2>1, <2>2, FS_CountingElements DEF ExistsBijection
  <2> QED BY <2>1, <2>3 DEF OrderOfCached, Listed, PoolOrder
<1>3. IInv /\ CustodyInv => DegradedNotShared
  <2> SUFFICES ASSUME IInv, CustodyInv, NEW r \in Requests, NEW s \in Requests,
                      r # s, Wrapped(r), Wrapped(s), inner[r] = inner[s]
               PROVE  ~made[inner[r]].degraded
    BY DEF DegradedNotShared
  <2>1. inner[r] # NoConn
    BY NullAssumption DEF IInv, HasConnector, Wrapped
  <2> QED BY <2>1 DEF CustodyInv, DegradedIsAlone
<1> QED BY <1>1, <1>2, <1>3, CustodyHolds, PTL DEF CacheHolds

\* What changes the connector of a wrapper: a cached one is taken, a new one is
\* built, or the turn ends.
LEMMA WhatIsWrapped ==
    ASSUME IInv, CustodyInv, [Next]_vars, NEW r \in Requests, inner'[r] # NoConn
    PROVE  /\ inner'[r] # inner[r] => made'[inner'[r]].cred >= fp[r]
           /\ inner[r] # NoConn => made'[inner'[r]].id = made[inner[r]].id
<1> USE NullAssumption
<1>1. CASE UNCHANGED <<inner, made>>
  BY <1>1
<1>2. ASSUME NEW s \in Requests, CacheHit(s) PROVE inner'[r] = inner[r] \/ s = r
  BY <1>2 DEF CacheHit, IInv, TypeOK, TurnTypeOK
<1>3. CASE CacheHit(r)
  <2>1. want[r] \in Cached /\ inner'[r] = cache[want[r]].conn /\ made' = made
    BY <1>3 DEF CacheHit, IInv, TypeOK, TurnTypeOK
  <2>2. cache[want[r]].fp = fp[r]
    BY <1>3 DEF CacheHit, Fresh
  <2> QED BY <2>1, <2>2 DEF CustodyInv, EntriesTrue, WrapsItsId
<1>4. ASSUME NEW s \in Requests, Build(s)
      PROVE  /\ inner'[r] # inner[r] => made'[inner'[r]].cred >= fp[r]
             /\ inner[r] # NoConn => made'[inner'[r]].id = made[inner[r]].id
  <2>1. PICK c \in Conns, d \in BOOLEAN :
          /\ ~Built(c)
          /\ made' = [made EXCEPT ![c] = [id |-> want[s], cred |-> cred[want[s]], degraded |-> d]]
          /\ inner' = [inner EXCEPT ![s] = c]
    BY <1>4 DEF Build
  <2>2. made'[c].id = want[s] /\ made'[c].cred = cred[want[s]]
    BY <2>1 DEF IInv, TypeOK, PoolTypeOK
  <2>3. fp[s] <= cred[want[s]]
    BY <1>4 DEF Build, CustodyInv, FingerprintFirst
  <2>4. CASE s = r
    <3>1. inner'[r] = c
      BY <2>1, <2>4 DEF IInv, TypeOK, TurnTypeOK
    <3>2. inner[r] # NoConn => made[inner[r]].id = want[r]
      BY DEF CustodyInv, WrapsItsId
    <3>3. fp[r] \in Nat /\ want[r] \in Ids /\ cred[want[r]] \in Nat
      BY <1>4, <2>4, BoundAssumption DEF Build, IInv, HasId, TypeOK, TurnTypeOK
    <3> QED BY <2>2, <2>3, <2>4, <3>1, <3>2, <3>3
  <2>5. CASE s # r
    <3>1. inner'[r] = inner[r] /\ inner[r] # c
      BY <2>1, <2>5 DEF IInv, TypeOK, TurnTypeOK, CustodyInv, WrapsItsId
    <3>2. inner[r] \in Conns
      BY <3>1 DEF IInv, TypeOK, TurnTypeOK
    <3>3. made'[inner[r]] = made[inner[r]]
      BY <2>1, <3>1, <3>2 DEF IInv, TypeOK, PoolTypeOK
    <3> QED BY <3>1, <3>3
  <2> QED BY <2>4, <2>5
<1>5. ASSUME NEW s \in Requests, Finish(s) PROVE inner'[r] = inner[r] /\ made' = made
  BY <1>5 DEF Finish, poolVars, IInv, TypeOK, TurnTypeOK
<1>6. ASSUME NEW s \in Requests, CacheHit(s) PROVE made' = made
  BY <1>6 DEF CacheHit
<1>7. CASE \E s \in Requests : RequestStep(s)
  BY <1>1, <1>2, <1>3, <1>4, <1>5, <1>6, <1>7 DEF RequestStep, OpenRead, ReopenRead, OpenFails,
     CacheMiss, CacheStale, CachePut, BeginStatement, EnterUse, EnterReopens, EnterRaises, Leave,
     poolVars, turnVars
<1>8. CASE \E t \in Threads : DisposeStep(t)
  BY <1>1, <1>8 DEF DisposeStep, CloseDeferred, CloseNow, Release, turnVars
<1>9. CASE Outside
  BY <1>1, <1>9 DEF Outside, Rotate, Age, Rebind, Invalidate, InvalidateAll, poolVars, turnVars
<1>10. CASE UNCHANGED vars
  BY <1>1, <1>10 DEF vars, poolVars, turnVars
<1> QED BY <1>7, <1>8, <1>9, <1>10 DEF Next

\* A wrapper stays on the database it was opened for, whatever its agent has been
\* bound to since, and is never handed a credential older than the one stored when
\* the open that hands it over began.
THEOREM AlwaysOpensAsAsked == Spec => OpensAsAsked
<1>1. IInv /\ CustodyInv /\ [Next]_vars =>
          \A r \in Requests : inner[r] # NoConn /\ inner'[r] # NoConn
              => made'[inner'[r]].id = made[inner[r]].id
  BY WhatIsWrapped
<1>2. IInv /\ CustodyInv /\ [Next]_vars =>
          \A r \in Requests : inner'[r] \notin {inner[r], NoConn}
              => made'[inner'[r]].cred >= fp[r]
  BY WhatIsWrapped
<1> QED
  BY <1>1, <1>2, CustodyHolds, PTL DEF Spec, OpensAsAsked, PinnedDatabase, CredentialAsFresh
=============================================================================
