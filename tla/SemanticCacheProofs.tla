------------------------ MODULE SemanticCacheProofs ------------------------
(***************************************************************************)
(* Proofs about SemanticCache, for any number of processes, turns and      *)
(* clearers, any questions, tiers and times to live.                       *)
(***************************************************************************)
EXTENDS SemanticCache, TLAPS

----------------------------------------------------------------------------
(* The inductive invariant.                                                *)

\* A turn looks up, or has looked up, with a question and a binding.
Consulting == Lookups \cup {"generate", "alone", "served"}
Asking ==
    \A t \in Turns : pc[t] \in Consulting =>
        question[t] \in Questions /\ binding[t] \in Versions

\* Turns and clearers do not take each other's places.
Places ==
    /\ \A t \in Turns : pc[t] \in TurnPCs
    /\ \A i \in Clearers : pc[i] \in ClearPCs

\* A write has its entry and question, its task is still in the set unless
\* the drain has cancelled it, and its turn is past the lookup.
Writing ==
    \A t \in Turns : write[t] # "none" =>
        /\ entry[t] # NoEntry /\ question[t] \in Questions
        /\ pc[t] \in {"idle", "drain", "gather", "stop"}
        /\ pc[t] # "stop" => t \in tasks

\* Whatever is stored, written or served is signed for the binding its turn
\* began with, and what is served for the reader's.
SignedAsAsked ==
    /\ \A k \in Keys : points[k] # NoEntry => points[k].asked = points[k].binding
    /\ \A t \in Turns : entry[t] # NoEntry => entry[t].asked = entry[t].binding
    /\ \A t \in Turns : pc[t] = "served" => entry[t] # NoEntry /\ entry[t].binding = binding[t]

\* A process that has written remembers the collection.
WroteIsKnown == \A p \in Procs : wrote[p] => known[p]

\* The answer promised to a lookup, or one that lives as long, is where tier 0
\* will look, or has expired; past tier 0 it has, or a call has failed.
Waits(t) ==
    /\ points[question[t]] # NoEntry
    /\ points[question[t]].binding = binding[t]
    /\ points[question[t]].createdAt >= promised[t].createdAt
Kept(t) ==
    /\ 0 \in Tiers
    /\ known[home[t]]
    /\ pc[t] \in {"memory", "exact", "search", "template", "generate", "alone", "served"}
    /\ pc[t] \in {"search", "template", "generate"} => fault[t] \/ Expired(promised[t])
    /\ Expired(promised[t]) \/ Waits(t)
PromisesKept == \A t \in Turns : promised[t] # NoEntry => Kept(t)

\* The inductive invariant.
IInv ==
    /\ TypeOK /\ Places /\ Asking /\ Writing /\ ReturnedIsStored
    /\ SignedAsAsked /\ WroteIsKnown /\ PromisesKept

----------------------------------------------------------------------------
(* Each action keeps the invariant.                                        *)

USE QuestionAssumption, TimeAssumption, NullAssumption, CallerAssumption

\* The clock advances: the invariant is kept.
LEMMA TickKeeps ==
    ASSUME IInv, Tick
    PROVE  IInv'
<1>1. TypeOK'
  BY DEF IInv, Tick, storeVars, memoryVars, turnVars, history, TypeOK, ClockTypeOK,
     StoreTypeOK, MemoryTypeOK, TurnTypeOK, WriteTypeOK, HistoryTypeOK
<1>2. Places'
  BY DEF IInv, Tick, Places, TypeOK, TurnTypeOK
<1>3. Asking'
  BY DEF IInv, Tick, turnVars, Asking, Consulting, TypeOK, TurnTypeOK
<1>4. Writing'
  BY DEF IInv, Tick, turnVars, Writing, TypeOK, TurnTypeOK, WriteTypeOK
<1>5. ReturnedIsStored'
  BY DEF IInv, Tick, turnVars, ReturnedIsStored, TypeOK, TurnTypeOK, WriteTypeOK
<1>6. SignedAsAsked'
  BY DEF IInv, Tick, storeVars, turnVars, SignedAsAsked, TypeOK, StoreTypeOK, TurnTypeOK
<1>7. WroteIsKnown'
  BY DEF IInv, Tick, memoryVars, history, WroteIsKnown, TypeOK, MemoryTypeOK, HistoryTypeOK
<1>8. PromisesKept'
  BY DEF IInv, Tick, storeVars, memoryVars, turnVars, history, TypeOK, ClockTypeOK,
     TurnTypeOK, HistoryTypeOK, Entry, PromisesKept, Kept, Waits, Expired
<1> QED BY <1>1, <1>2, <1>3, <1>4, <1>5, <1>6, <1>7, <1>8 DEF IInv

\* The knowledge base or the configuration changes: the invariant is kept.
LEMMA ChangeKeeps ==
    ASSUME IInv, Change
    PROVE  IInv'
<1>1. TypeOK'
  BY DEF IInv, Change, storeVars, memoryVars, turnVars, history, TypeOK, ClockTypeOK,
     StoreTypeOK, MemoryTypeOK, TurnTypeOK, WriteTypeOK, HistoryTypeOK
<1>2. Places'
  BY DEF IInv, Change, Places, TypeOK, TurnTypeOK
<1>3. Asking'
  BY DEF IInv, Change, turnVars, Asking, Consulting, TypeOK, TurnTypeOK
<1>4. Writing'
  BY DEF IInv, Change, turnVars, Writing, TypeOK, TurnTypeOK, WriteTypeOK
<1>5. ReturnedIsStored'
  BY DEF IInv, Change, turnVars, ReturnedIsStored, TypeOK, TurnTypeOK, WriteTypeOK
<1>6. SignedAsAsked'
  BY DEF IInv, Change, storeVars, turnVars, SignedAsAsked, TypeOK, StoreTypeOK, TurnTypeOK
<1>7. WroteIsKnown'
  BY DEF IInv, Change, memoryVars, history, WroteIsKnown, TypeOK, MemoryTypeOK,
     HistoryTypeOK
<1>8. PromisesKept'
  BY DEF IInv, Change, storeVars, memoryVars, turnVars, history, PromisesKept, Kept,
     Waits, Expired, TypeOK, TurnTypeOK
<1> QED BY <1>1, <1>2, <1>3, <1>4, <1>5, <1>6, <1>7, <1>8 DEF IInv

\* A turn begins: the invariant is kept.
LEMMA BeginKeeps ==
    ASSUME IInv, NEW t \in Turns, NEW q \in Questions, Begin(t, q)
    PROVE  IInv'
<1>1. TypeOK'
  BY DEF IInv, Begin, Goto, storeVars, memoryVars, TypeOK, ClockTypeOK, StoreTypeOK,
     MemoryTypeOK, TurnTypeOK, WriteTypeOK, HistoryTypeOK, Keys, TurnPCs, Lookups
<1>2. Places'
  BY DEF IInv, Begin, Goto, Places, TypeOK, TurnTypeOK, Lookups, TurnPCs
<1>3. Asking'
  BY DEF IInv, Begin, Goto, TypeOK, ClockTypeOK, TurnTypeOK, Asking
<1>4. Writing'
  BY DEF IInv, Begin, Goto, Writing, TypeOK, TurnTypeOK, WriteTypeOK
<1>5. ReturnedIsStored'
  BY DEF IInv, Begin, Goto, ReturnedIsStored, TypeOK, TurnTypeOK, WriteTypeOK
<1>6. SignedAsAsked'
  BY DEF IInv, Begin, Goto, storeVars, SignedAsAsked, TypeOK, StoreTypeOK, TurnTypeOK
<1>7. WroteIsKnown'
  BY DEF IInv, Begin, memoryVars, WroteIsKnown, TypeOK, MemoryTypeOK, HistoryTypeOK
<1>8. PromisesKept'
  BY DEF IInv, Begin, Goto, storeVars, memoryVars, ServedTo, Expired, TypeOK, StoreTypeOK,
     TurnTypeOK, Keys, Entry, WroteIsKnown, PromisesKept, Kept, Waits
<1> QED BY <1>1, <1>2, <1>3, <1>4, <1>5, <1>6, <1>7, <1>8 DEF IInv

\* The lookup asks the process's memory: the invariant is kept.
LEMMA RememberedKeeps ==
    ASSUME IInv, NEW t \in Turns, Remembered(t)
    PROVE  IInv'
<1>1. TypeOK'
  BY DEF IInv, Remembered, Trusted, memoryVars, LookupStep, clock, storeVars, history,
     Goto, TypeOK, ClockTypeOK, StoreTypeOK, MemoryTypeOK, TurnTypeOK, WriteTypeOK,
     HistoryTypeOK, TurnPCs, Lookups
<1>2. Places'
  BY DEF IInv, Remembered, Trusted, Goto, Places, TypeOK, TurnTypeOK, Lookups, TurnPCs,
     ClearPCs, Consulting
<1>3. Asking'
  BY DEF IInv, Remembered, Trusted, LookupStep, Goto, Asking, Consulting, TypeOK,
     TurnTypeOK, Lookups
<1>4. Writing'
  BY DEF IInv, Remembered, LookupStep, Goto, Writing, TypeOK, TurnTypeOK, WriteTypeOK
<1>5. ReturnedIsStored'
  BY DEF IInv, Remembered, LookupStep, Goto, ReturnedIsStored, TypeOK, TurnTypeOK,
     WriteTypeOK
<1>6. SignedAsAsked'
  BY DEF IInv, Remembered, LookupStep, storeVars, Goto, SignedAsAsked, TypeOK,
     StoreTypeOK, TurnTypeOK
<1>7. WroteIsKnown'
  BY DEF IInv, Remembered, memoryVars, LookupStep, history, WroteIsKnown, TypeOK,
     MemoryTypeOK, HistoryTypeOK
<1>8. PromisesKept'
  BY DEF IInv, Remembered, memoryVars, LookupStep, clock, storeVars, history, Goto,
     PromisesKept, Kept, Waits, Expired, TypeOK, TurnTypeOK
<1> QED BY <1>1, <1>2, <1>3, <1>4, <1>5, <1>6, <1>7, <1>8 DEF IInv

\* The expired negative memory is forgotten: the invariant is kept.
LEMMA ForgetMissingKeeps ==
    ASSUME IInv, NEW t \in Turns, ForgetMissing(t)
    PROVE  IInv'
<1>1. TypeOK'
  BY DEF IInv, ForgetMissing, LookupStep, clock, storeVars, history, Goto, TypeOK,
     ClockTypeOK, StoreTypeOK, MemoryTypeOK, TurnTypeOK, WriteTypeOK, HistoryTypeOK,
     TurnPCs, Lookups
<1>2. Places'
  BY DEF IInv, ForgetMissing, Goto, Places, TypeOK, TurnTypeOK, Lookups, TurnPCs,
     ClearPCs, Consulting
<1>3. Asking'
  BY DEF IInv, ForgetMissing, LookupStep, Goto, Asking, Consulting, TypeOK, TurnTypeOK,
     Lookups, TurnPCs, ClearPCs
<1>4. Writing'
  BY DEF IInv, ForgetMissing, LookupStep, Goto, Writing, TypeOK, TurnTypeOK, WriteTypeOK
<1>5. ReturnedIsStored'
  BY DEF IInv, ForgetMissing, LookupStep, Goto, ReturnedIsStored, TypeOK, TurnTypeOK,
     WriteTypeOK
<1>6. SignedAsAsked'
  BY DEF IInv, ForgetMissing, LookupStep, storeVars, Goto, SignedAsAsked, TypeOK,
     StoreTypeOK, TurnTypeOK
<1>7. WroteIsKnown'
  BY DEF IInv, ForgetMissing, LookupStep, history, WroteIsKnown, TypeOK, MemoryTypeOK,
     HistoryTypeOK
<1>8. PromisesKept'
  BY DEF IInv, ForgetMissing, LookupStep, clock, storeVars, history, Goto, PromisesKept,
     Kept, Waits, Expired, TypeOK, TurnTypeOK
<1> QED BY <1>1, <1>2, <1>3, <1>4, <1>5, <1>6, <1>7, <1>8 DEF IInv

\* The store is asked for its collections: the invariant is kept.
LEMMA ListCollectionsKeeps ==
    ASSUME IInv, NEW t \in Turns, ListCollections(t)
    PROVE  IInv'
<1>1. TypeOK'
  <2>1. ClockTypeOK'
    BY DEF IInv, ListCollections, LookupStep, clock, TypeOK, ClockTypeOK
  <2>2. StoreTypeOK'
    BY DEF IInv, ListCollections, LookupStep, storeVars, TypeOK, StoreTypeOK
  <2>3. MemoryTypeOK'
    BY DEF IInv, ListCollections, memoryVars, TypeOK, MemoryTypeOK
  <2>4. TurnTypeOK'
    <3>1. pc' \in [Turns \cup Clearers -> TurnPCs \cup ClearPCs]
      BY DEF IInv, ListCollections, Goto, TypeOK, TurnTypeOK, TurnPCs, ClearPCs, Lookups
    <3>2. entry' \in [Turns -> Entry \cup {NoEntry}]
      BY DEF IInv, ListCollections, TypeOK, TurnTypeOK
    <3>3. fault' \in [Turns -> BOOLEAN]
      BY DEF IInv, ListCollections, TypeOK, TurnTypeOK
    <3> QED
      BY <3>1, <3>2, <3>3 DEF IInv, ListCollections, LookupStep, TypeOK, TurnTypeOK
  <2>5. WriteTypeOK'
    BY DEF IInv, ListCollections, LookupStep, TypeOK, WriteTypeOK, WritePCs
  <2>6. HistoryTypeOK'
    BY DEF IInv, ListCollections, LookupStep, history, TypeOK, HistoryTypeOK
  <2> QED BY <2>1, <2>2, <2>3, <2>4, <2>5, <2>6 DEF TypeOK
<1>2. Places'
  BY DEF IInv, ListCollections, Goto, Places, TypeOK, TurnTypeOK, Lookups, TurnPCs,
     ClearPCs, Consulting
<1>3. Asking'
  BY DEF IInv, ListCollections, LookupStep, Goto, Asking, Consulting, TypeOK, TurnTypeOK,
     Lookups, TurnPCs, ClearPCs
<1>4. Writing'
  BY DEF IInv, ListCollections, LookupStep, Goto, Writing, TypeOK, TurnTypeOK, WriteTypeOK
<1>5. ReturnedIsStored'
  BY DEF IInv, ListCollections, LookupStep, Goto, ReturnedIsStored, TypeOK, TurnTypeOK,
     WriteTypeOK
<1>6. SignedAsAsked'
  BY DEF IInv, ListCollections, LookupStep, storeVars, Goto, SignedAsAsked, TypeOK,
     StoreTypeOK, TurnTypeOK
<1>7. WroteIsKnown'
  BY DEF IInv, ListCollections, memoryVars, LookupStep, history, WroteIsKnown, TypeOK,
     MemoryTypeOK, HistoryTypeOK
<1>8. PromisesKept'
  BY DEF IInv, ListCollections, memoryVars, LookupStep, clock, storeVars, history, Goto,
     PromisesKept, Kept, Waits, Expired, TypeOK, TurnTypeOK
<1> QED BY <1>1, <1>2, <1>3, <1>4, <1>5, <1>6, <1>7, <1>8 DEF IInv

\* The collection is remembered: the invariant is kept.
LEMMA RecordPresentKeeps ==
    ASSUME IInv, NEW t \in Turns, RecordPresent(t)
    PROVE  IInv'
<1>1. TypeOK'
  BY DEF IInv, RecordPresent, LookupStep, clock, storeVars, history, Goto, TypeOK,
     ClockTypeOK, StoreTypeOK, MemoryTypeOK, TurnTypeOK, WriteTypeOK, HistoryTypeOK,
     TurnPCs, Lookups
<1>2. Places'
  BY DEF IInv, RecordPresent, Goto, Places, TypeOK, TurnTypeOK, Lookups, TurnPCs,
     ClearPCs, Consulting
<1>3. Asking'
  BY DEF IInv, RecordPresent, LookupStep, Goto, Asking, Consulting, TypeOK, TurnTypeOK,
     Lookups, TurnPCs, ClearPCs
<1>4. Writing'
  BY DEF IInv, RecordPresent, LookupStep, Goto, Writing, TypeOK, TurnTypeOK, WriteTypeOK
<1>5. ReturnedIsStored'
  BY DEF IInv, RecordPresent, LookupStep, Goto, ReturnedIsStored, TypeOK, TurnTypeOK,
     WriteTypeOK
<1>6. SignedAsAsked'
  BY DEF IInv, RecordPresent, LookupStep, storeVars, Goto, SignedAsAsked, TypeOK,
     StoreTypeOK, TurnTypeOK
<1>7. WroteIsKnown'
  BY DEF IInv, RecordPresent, LookupStep, history, WroteIsKnown, TypeOK, MemoryTypeOK,
     HistoryTypeOK
<1>8. PromisesKept'
  BY DEF IInv, RecordPresent, LookupStep, clock, storeVars, history, Goto, PromisesKept,
     Kept, Waits, Expired, TypeOK, TurnTypeOK
<1> QED BY <1>1, <1>2, <1>3, <1>4, <1>5, <1>6, <1>7, <1>8 DEF IInv

\* Its absence is remembered: the invariant is kept.
LEMMA RecordAbsentKeeps ==
    ASSUME IInv, NEW t \in Turns, RecordAbsent(t)
    PROVE  IInv'
<1>1. TypeOK'
  BY DEF IInv, RecordAbsent, LookupStep, clock, storeVars, history, Goto, TypeOK,
     ClockTypeOK, StoreTypeOK, MemoryTypeOK, TurnTypeOK, WriteTypeOK, HistoryTypeOK,
     TurnPCs
<1>2. Places'
  BY DEF IInv, RecordAbsent, Goto, Places, TypeOK, TurnTypeOK, Lookups, TurnPCs, ClearPCs,
     Consulting
<1>3. Asking'
  BY DEF IInv, RecordAbsent, LookupStep, Goto, Asking, Consulting, TypeOK, TurnTypeOK,
     Lookups, TurnPCs, ClearPCs
<1>4. Writing'
  BY DEF IInv, RecordAbsent, LookupStep, Goto, Writing, TypeOK, TurnTypeOK, WriteTypeOK
<1>5. ReturnedIsStored'
  BY DEF IInv, RecordAbsent, LookupStep, Goto, ReturnedIsStored, TypeOK, TurnTypeOK,
     WriteTypeOK
<1>6. SignedAsAsked'
  BY DEF IInv, RecordAbsent, LookupStep, storeVars, Goto, SignedAsAsked, TypeOK,
     StoreTypeOK, TurnTypeOK
<1>7. WroteIsKnown'
  BY DEF IInv, RecordAbsent, LookupStep, history, WroteIsKnown, TypeOK, MemoryTypeOK,
     HistoryTypeOK
<1>8. PromisesKept'
  BY DEF IInv, RecordAbsent, LookupStep, clock, storeVars, history, Goto, PromisesKept,
     Kept, Waits, Expired, TypeOK, TurnTypeOK
<1> QED BY <1>1, <1>2, <1>3, <1>4, <1>5, <1>6, <1>7, <1>8 DEF IInv

\* Tier 0 is looked up: the invariant is kept.
LEMMA ExactKeeps ==
    ASSUME IInv, NEW t \in Turns, Exact(t)
    PROVE  IInv'
<1>1. TypeOK'
  <2>1. ClockTypeOK'
    BY DEF IInv, Exact, LookupStep, clock, TypeOK, ClockTypeOK
  <2>2. StoreTypeOK'
    BY DEF IInv, Exact, LookupStep, storeVars, TypeOK, StoreTypeOK
  <2>3. MemoryTypeOK'
    BY DEF IInv, Exact, memoryVars, TypeOK, MemoryTypeOK
  <2>4. TurnTypeOK'
    <3>1. pc' \in [Turns \cup Clearers -> TurnPCs \cup ClearPCs]
      BY DEF IInv, Exact, Serve, Goto, TypeOK, TurnTypeOK, TurnPCs, ClearPCs, Lookups
    <3>2. entry' \in [Turns -> Entry \cup {NoEntry}]
      <4>1. points[question[t]] \in Entry \cup {NoEntry}
        BY DEF IInv, Exact, StoreTypeOK, TurnTypeOK, TypeOK, Asking, Consulting, Lookups,
           Keys
      <4>2. entry' = entry \/ entry' = [entry EXCEPT ![t] = points[question[t]]]
        BY DEF Exact, Serve
      <4> QED BY <4>1, <4>2 DEF IInv, TypeOK, TurnTypeOK
    <3>3. fault' \in [Turns -> BOOLEAN]
      BY DEF IInv, Exact, TypeOK, TurnTypeOK
    <3> QED
      BY <3>1, <3>2, <3>3 DEF IInv, Exact, LookupStep, TypeOK, TurnTypeOK
  <2>5. WriteTypeOK'
    BY DEF IInv, Exact, LookupStep, TypeOK, WriteTypeOK, WritePCs
  <2>6. HistoryTypeOK'
    BY DEF IInv, Exact, LookupStep, history, TypeOK, HistoryTypeOK
  <2> QED BY <2>1, <2>2, <2>3, <2>4, <2>5, <2>6 DEF TypeOK
<1>2. Places'
  BY DEF IInv, Exact, Serve, Goto, Places, TypeOK, TurnTypeOK, Lookups, TurnPCs
<1>3. Asking'
  BY DEF IInv, Exact, Serve, LookupStep, Goto, Asking, Consulting, TypeOK, TurnTypeOK,
     Lookups
<1>4. Writing'
  BY DEF IInv, Exact, Serve, LookupStep, Goto, Writing, TypeOK, TurnTypeOK, WriteTypeOK
<1>5. ReturnedIsStored'
  BY DEF IInv, Exact, Serve, LookupStep, Goto, ReturnedIsStored, TypeOK, TurnTypeOK,
     WriteTypeOK
<1>6. SignedAsAsked'
  BY DEF IInv, Exact, Serve, Verified, ServedTo, LookupStep, storeVars, Goto,
     SignedAsAsked, TypeOK, TurnTypeOK, Asking, Consulting, Keys, Lookups
<1>7. WroteIsKnown'
  BY DEF IInv, Exact, memoryVars, LookupStep, history, WroteIsKnown, TypeOK, MemoryTypeOK,
     HistoryTypeOK
<1>8. PromisesKept'
  BY DEF IInv, Exact, Serve, Verified, ServedTo, Expired, memoryVars, LookupStep, clock,
     storeVars, history, Goto, TypeOK, ClockTypeOK, StoreTypeOK, TurnTypeOK,
     HistoryTypeOK, Keys, Entry, Lookups, Asking, Consulting, PromisesKept, Kept, Waits
<1> QED BY <1>1, <1>2, <1>3, <1>4, <1>5, <1>6, <1>7, <1>8 DEF IInv

\* Tier 1 is searched: the invariant is kept.
LEMMA SearchKeeps ==
    ASSUME IInv, NEW t \in Turns, Search(t)
    PROVE  IInv'
<1>1. TypeOK'
  <2>1. ClockTypeOK'
    BY DEF IInv, Search, LookupStep, clock, TypeOK, ClockTypeOK
  <2>2. StoreTypeOK'
    BY DEF IInv, Search, LookupStep, storeVars, TypeOK, StoreTypeOK
  <2>3. MemoryTypeOK'
    BY DEF IInv, Search, memoryVars, TypeOK, MemoryTypeOK
  <2>4. TurnTypeOK'
    <3>1. pc' \in [Turns \cup Clearers -> TurnPCs \cup ClearPCs]
      BY DEF IInv, Search, Serve, Goto, TypeOK, TurnTypeOK, TurnPCs, ClearPCs, Lookups
    <3>2. entry' \in [Turns -> Entry \cup {NoEntry}]
      <4>1. \A q \in Questions : points[q] \in Entry \cup {NoEntry}
        BY DEF IInv, TypeOK, StoreTypeOK, Keys
      <4>2. \/ entry' = entry
            \/ \E q \in Questions : entry' = [entry EXCEPT ![t] = points[q]]
        BY DEF Search, Serve
      <4> QED BY <4>1, <4>2 DEF IInv, TypeOK, TurnTypeOK
    <3>3. fault' \in [Turns -> BOOLEAN]
      BY DEF IInv, Search, TypeOK, TurnTypeOK
    <3> QED
      BY <3>1, <3>2, <3>3 DEF IInv, Search, LookupStep, TypeOK, TurnTypeOK
  <2>5. WriteTypeOK'
    BY DEF IInv, Search, LookupStep, TypeOK, WriteTypeOK, WritePCs
  <2>6. HistoryTypeOK'
    BY DEF IInv, Search, LookupStep, history, TypeOK, HistoryTypeOK
  <2> QED BY <2>1, <2>2, <2>3, <2>4, <2>5, <2>6 DEF TypeOK
<1>2. Places'
  BY DEF IInv, Search, Serve, Goto, Places, TypeOK, TurnTypeOK, Lookups, TurnPCs
<1>3. Asking'
  BY DEF IInv, Search, Serve, LookupStep, Goto, Asking, Consulting, TypeOK, TurnTypeOK,
     Lookups
<1>4. Writing'
  BY DEF IInv, Search, Serve, LookupStep, Goto, Writing, TypeOK, TurnTypeOK, WriteTypeOK
<1>5. ReturnedIsStored'
  BY DEF IInv, Search, Serve, LookupStep, Goto, ReturnedIsStored, TypeOK, TurnTypeOK,
     WriteTypeOK
<1>6. SignedAsAsked'
  <2>1. question[t] \in Questions /\ pc[t] = "search" /\ points' = points /\ binding' = binding
    BY DEF IInv, Search, LookupStep, storeVars, Asking, Consulting, Lookups
  <2>2. CASE UNCHANGED entry /\ pc'[t] # "served"
    BY <2>1, <2>2 DEF IInv, Search, LookupStep, storeVars, Goto, SignedAsAsked, Serve,
       TypeOK, TurnTypeOK
  <2>3. CASE \E q \in Questions : Verified(t, points[q]) /\ Serve(t, points[q])
    <3>1. PICK q \in Questions : Verified(t, points[q]) /\ Serve(t, points[q])
      BY <2>3
    <3>2. points[q] # NoEntry /\ points[q].asked = points[q].binding /\ points[q].binding = binding[t]
      BY <3>1 DEF IInv, SignedAsAsked, Verified, ServedTo, Keys
    <3>3. /\ entry' = [entry EXCEPT ![t] = points[q]]
          /\ pc' = [pc EXCEPT ![t] = "served"]
      BY <3>1 DEF Serve, Goto
    <3> QED BY <2>1, <3>2, <3>3 DEF IInv, SignedAsAsked, TypeOK, TurnTypeOK
  <2> QED BY <2>2, <2>3 DEF IInv, Search, Goto, TypeOK, TurnTypeOK
<1>7. WroteIsKnown'
  BY DEF IInv, Search, memoryVars, LookupStep, history, WroteIsKnown, TypeOK,
     MemoryTypeOK, HistoryTypeOK
<1>8. PromisesKept'
  <2> SUFFICES ASSUME NEW u \in Turns, promised[u] # NoEntry PROVE Kept(u)'
    BY DEF PromisesKept, Search, LookupStep, history
  <2>1. Kept(u)
    BY DEF IInv, PromisesKept
  <2>2. /\ known' = known /\ UNCHANGED <<points, now, home, question, binding, promised>>
        /\ pc[t] = "search"
    BY DEF Search, LookupStep, history, storeVars, memoryVars, clock
  <2>3. (Waits(u)' <=> Waits(u)) /\ (Expired(promised[u])' <=> Expired(promised[u]))
    BY <2>2 DEF Waits, Expired
  <2>4. CASE u # t
    <3>1. pc'[u] = pc[u] /\ fault'[u] = fault[u]
      BY <2>4 DEF IInv, TypeOK, TurnTypeOK, Search, Goto, Serve
    <3> QED BY <2>1, <2>2, <2>3, <3>1 DEF Kept, Expired
  <2>5. CASE u = t
    <3>1. pc'[t] \in {"served", "template", "generate"} /\ (fault[t] => fault'[t])
      BY DEF IInv, TypeOK, TurnTypeOK, Search, Goto, Serve
    <3>2. fault[t] \/ Expired(promised[t])
      BY <2>1, <2>2, <2>5 DEF Kept
    <3> QED BY <2>1, <2>2, <2>3, <2>5, <3>1, <3>2 DEF Kept, Expired
  <2> QED BY <2>4, <2>5
<1> QED BY <1>1, <1>2, <1>3, <1>4, <1>5, <1>6, <1>7, <1>8 DEF IInv

\* Tier 2 is tried: the invariant is kept.
LEMMA TemplateKeeps ==
    ASSUME IInv, NEW t \in Turns, Template(t)
    PROVE  IInv'
<1>1. TypeOK'
  <2>1. ClockTypeOK'
    BY DEF IInv, Template, LookupStep, clock, TypeOK, ClockTypeOK
  <2>2. StoreTypeOK'
    BY DEF IInv, Template, LookupStep, storeVars, TypeOK, StoreTypeOK
  <2>3. MemoryTypeOK'
    BY DEF IInv, Template, memoryVars, TypeOK, MemoryTypeOK
  <2>4. TurnTypeOK'
    <3>1. pc' \in [Turns \cup Clearers -> TurnPCs \cup ClearPCs]
      BY DEF IInv, Template, Serve, Goto, TypeOK, TurnTypeOK, TurnPCs, ClearPCs, Lookups
    <3>2. entry' \in [Turns -> Entry \cup {NoEntry}]
      <4>1. CASE UNCHANGED entry
        BY <4>1 DEF IInv, TypeOK, TurnTypeOK
      <4>2. CASE /\ ShapeOf[question[t]] # NoShape
                 /\ entry' = [entry EXCEPT ![t] = points[ShapeOf[question[t]]]]
        <5>1. question[t] \in Questions
          BY DEF IInv, Template, Asking, Consulting, Lookups
        <5>2. points[ShapeOf[question[t]]] \in Entry \cup {NoEntry}
          BY <4>2, <5>1 DEF IInv, TypeOK, StoreTypeOK, Keys
        <5> QED BY <4>2, <5>2 DEF IInv, TypeOK, TurnTypeOK
      <4> QED BY <4>1, <4>2 DEF Template, Serve
    <3>3. fault' \in [Turns -> BOOLEAN]
      BY DEF IInv, Template, TypeOK, TurnTypeOK
    <3> QED
      BY <3>1, <3>2, <3>3 DEF IInv, Template, LookupStep, TypeOK, TurnTypeOK
  <2>5. WriteTypeOK'
    BY DEF IInv, Template, LookupStep, TypeOK, WriteTypeOK, WritePCs
  <2>6. HistoryTypeOK'
    BY DEF IInv, Template, LookupStep, history, TypeOK, HistoryTypeOK
  <2> QED BY <2>1, <2>2, <2>3, <2>4, <2>5, <2>6 DEF TypeOK
<1>2. Places'
  BY DEF IInv, Template, Serve, Goto, Places, TypeOK, TurnTypeOK, TurnPCs
<1>3. Asking'
  BY DEF IInv, Template, Serve, LookupStep, Goto, Asking, Consulting, TypeOK, TurnTypeOK,
     Lookups
<1>4. Writing'
  BY DEF IInv, Template, Serve, LookupStep, Goto, Writing, TypeOK, TurnTypeOK, WriteTypeOK
<1>5. ReturnedIsStored'
  BY DEF IInv, Template, Serve, LookupStep, Goto, ReturnedIsStored, TypeOK, TurnTypeOK,
     WriteTypeOK
<1>6. SignedAsAsked'
  BY DEF IInv, Template, Serve, Verified, ServedTo, LookupStep, storeVars, Goto,
     SignedAsAsked, TypeOK, TurnTypeOK, Asking, Consulting, Keys, Lookups
<1>7. WroteIsKnown'
  BY DEF IInv, Template, memoryVars, LookupStep, history, WroteIsKnown, TypeOK,
     MemoryTypeOK, HistoryTypeOK
<1>8. PromisesKept'
  BY DEF IInv, Template, Serve, memoryVars, LookupStep, clock, storeVars, history, Goto,
     PromisesKept, Kept, Waits, Expired, TypeOK, TurnTypeOK
<1> QED BY <1>1, <1>2, <1>3, <1>4, <1>5, <1>6, <1>7, <1>8 DEF IInv

\* A hit is replayed: the invariant is kept.
LEMMA ReplayKeeps ==
    ASSUME IInv, NEW t \in Turns, Replay(t)
    PROVE  IInv'
<1>1. TypeOK'
  BY DEF IInv, Replay, Return, TurnStep, clock, storeVars, memoryVars, Goto, TypeOK,
     ClockTypeOK, StoreTypeOK, MemoryTypeOK, TurnTypeOK, WriteTypeOK, HistoryTypeOK,
     TurnPCs
<1>2. Places'
  BY DEF IInv, Replay, Return, Goto, Places, TypeOK, TurnTypeOK, Lookups, TurnPCs,
     ClearPCs, Consulting
<1>3. Asking'
  BY DEF IInv, Replay, Return, Goto, Asking, Consulting, TypeOK, TurnTypeOK, Lookups,
     TurnPCs, ClearPCs
<1>4. Writing'
  BY DEF IInv, Replay, Return, Goto, Writing, TypeOK, TurnTypeOK, WriteTypeOK
<1>5. ReturnedIsStored'
  BY DEF IInv, Replay, Return, TurnStep, Goto, ReturnedIsStored, TypeOK, TurnTypeOK,
     WriteTypeOK
<1>6. SignedAsAsked'
  BY DEF IInv, Replay, Return, TurnStep, storeVars, Goto, SignedAsAsked, TypeOK,
     StoreTypeOK, TurnTypeOK
<1>7. WroteIsKnown'
  BY DEF IInv, Replay, TurnStep, memoryVars, WroteIsKnown, TypeOK, MemoryTypeOK,
     HistoryTypeOK
<1>8. PromisesKept'
  BY DEF IInv, Replay, Return, TurnStep, clock, storeVars, memoryVars, Goto, PromisesKept,
     Kept, Waits, Expired, TypeOK, TurnTypeOK, HistoryTypeOK
<1> QED BY <1>1, <1>2, <1>3, <1>4, <1>5, <1>6, <1>7, <1>8 DEF IInv

\* An answer is generated: the invariant is kept.
LEMMA GenerateKeeps ==
    ASSUME IInv, NEW t \in Turns, Generate(t)
    PROVE  IInv'
<1>1. TypeOK'
  <2>1. ClockTypeOK'
    BY DEF IInv, Generate, TurnStep, clock, TypeOK, ClockTypeOK
  <2>2. StoreTypeOK'
    BY DEF IInv, Generate, TurnStep, storeVars, TypeOK, StoreTypeOK
  <2>3. MemoryTypeOK'
    BY DEF IInv, Generate, TurnStep, memoryVars, TypeOK, MemoryTypeOK
  <2>4. TurnTypeOK'
    <3>1. pc' \in [Turns \cup Clearers -> TurnPCs \cup ClearPCs]
      BY DEF IInv, Generate, Return, Goto, TypeOK, TurnTypeOK, TurnPCs, ClearPCs, Lookups
    <3>2. entry' \in [Turns -> Entry \cup {NoEntry}]
      <4> DEFINE e == [binding |-> binding[t], asked |-> binding[t], kb |-> version, createdAt |-> 0]
      <4>1. binding[t] \in Versions /\ version \in Versions /\ 0 \in 0..MaxTime
        BY DEF IInv, Generate, Asking, Consulting, Lookups, TypeOK, ClockTypeOK
      <4>2. e \in Entry
        BY <4>1 DEF Entry
      <4>3. entry' = entry \/ entry' = [entry EXCEPT ![t] = e]
        BY DEF Generate
      <4> HIDE DEF e
      <4> QED BY <4>2, <4>3 DEF IInv, TypeOK, TurnTypeOK
    <3>3. fault' \in [Turns -> BOOLEAN]
      BY DEF IInv, Generate, Return, TypeOK, TurnTypeOK
    <3> QED
      BY <3>1, <3>2, <3>3 DEF IInv, Generate, Return, TurnStep, TypeOK, TurnTypeOK
  <2>5. WriteTypeOK'
    BY DEF IInv, Generate, TypeOK, WriteTypeOK, WritePCs
  <2>6. HistoryTypeOK'
    BY DEF IInv, Generate, Return, TurnStep, TypeOK, HistoryTypeOK
  <2> QED BY <2>1, <2>2, <2>3, <2>4, <2>5, <2>6 DEF TypeOK
<1>2. Places'
  BY DEF IInv, Generate, Return, Goto, Places, TypeOK, TurnTypeOK, Lookups, TurnPCs,
     ClearPCs, Consulting
<1>3. Asking'
  BY DEF IInv, Generate, Return, Goto, Asking, Consulting, TypeOK, TurnTypeOK, Lookups,
     TurnPCs, ClearPCs
<1>4. Writing'
  BY DEF IInv, Generate, Return, TurnStep, Goto, TypeOK, ClockTypeOK, TurnTypeOK,
     WriteTypeOK, Entry, Asking, Consulting, Writing
<1>5. ReturnedIsStored'
  BY DEF IInv, Generate, Return, TurnStep, Goto, ReturnedIsStored, TypeOK, TurnTypeOK,
     WriteTypeOK
<1>6. SignedAsAsked'
  BY DEF IInv, Generate, Return, TurnStep, storeVars, Goto, SignedAsAsked, TypeOK,
     StoreTypeOK, TurnTypeOK
<1>7. WroteIsKnown'
  BY DEF IInv, Generate, TurnStep, memoryVars, WroteIsKnown, TypeOK, MemoryTypeOK,
     HistoryTypeOK
<1>8. PromisesKept'
  BY DEF IInv, Generate, Return, TurnStep, clock, storeVars, memoryVars, Goto,
     PromisesKept, Kept, Waits, Expired, TypeOK, TurnTypeOK, HistoryTypeOK
<1> QED BY <1>1, <1>2, <1>3, <1>4, <1>5, <1>6, <1>7, <1>8 DEF IInv

\* run_query_sync gathers the writes: the invariant is kept.
LEMMA DrainKeeps ==
    ASSUME IInv, NEW t \in Turns, Drain(t)
    PROVE  IInv'
<1>1. TypeOK'
  BY DEF IInv, Drain, Known, DrainStep, TurnStep, clock, storeVars, memoryVars, Goto,
     TypeOK, ClockTypeOK, StoreTypeOK, MemoryTypeOK, TurnTypeOK, WriteTypeOK,
     HistoryTypeOK, TurnPCs
<1>2. Places'
  BY DEF IInv, Drain, Known, Goto, Places, TypeOK, TurnTypeOK, Lookups, TurnPCs, ClearPCs,
     Consulting
<1>3. Asking'
  BY DEF IInv, Drain, Known, DrainStep, Goto, Asking, Consulting, TypeOK, TurnTypeOK,
     Lookups
<1>4. Writing'
  BY DEF IInv, Drain, Goto, Writing, TypeOK, TurnTypeOK, WriteTypeOK
<1>5. ReturnedIsStored'
  BY DEF IInv, Drain, Known, DrainStep, TurnStep, Goto, ReturnedIsStored, TypeOK,
     TurnTypeOK, Writing
<1>6. SignedAsAsked'
  BY DEF IInv, Drain, DrainStep, TurnStep, storeVars, Goto, SignedAsAsked, TypeOK,
     StoreTypeOK, TurnTypeOK
<1>7. WroteIsKnown'
  BY DEF IInv, Drain, DrainStep, TurnStep, memoryVars, WroteIsKnown, TypeOK, MemoryTypeOK,
     HistoryTypeOK
<1>8. PromisesKept'
  BY DEF IInv, Drain, DrainStep, TurnStep, clock, storeVars, memoryVars, Goto,
     PromisesKept, Kept, Waits, Expired, TypeOK, TurnTypeOK
<1> QED BY <1>1, <1>2, <1>3, <1>4, <1>5, <1>6, <1>7, <1>8 DEF IInv

\* The gathered write has ended: the invariant is kept.
LEMMA GatheredKeeps ==
    ASSUME IInv, NEW t \in Turns, Gathered(t)
    PROVE  IInv'
<1>1. TypeOK'
  BY DEF IInv, Gathered, DrainStep, TurnStep, clock, storeVars, memoryVars, Goto, TypeOK,
     ClockTypeOK, StoreTypeOK, MemoryTypeOK, TurnTypeOK, WriteTypeOK, HistoryTypeOK,
     TurnPCs
<1>2. Places'
  BY DEF IInv, Gathered, Goto, Places, TypeOK, TurnTypeOK, Lookups, TurnPCs, ClearPCs,
     Consulting
<1>3. Asking'
  BY DEF IInv, Gathered, DrainStep, Goto, Asking, Consulting, TypeOK, TurnTypeOK, Lookups,
     TurnPCs, ClearPCs
<1>4. Writing'
  BY DEF IInv, Gathered, Goto, Writing, TypeOK, TurnTypeOK, WriteTypeOK
<1>5. ReturnedIsStored'
  BY DEF IInv, Gathered, DrainStep, TurnStep, Goto, ReturnedIsStored, TypeOK, TurnTypeOK,
     Writing
<1>6. SignedAsAsked'
  BY DEF IInv, Gathered, DrainStep, TurnStep, storeVars, Goto, SignedAsAsked, TypeOK,
     StoreTypeOK, TurnTypeOK
<1>7. WroteIsKnown'
  BY DEF IInv, Gathered, DrainStep, TurnStep, memoryVars, WroteIsKnown, TypeOK,
     MemoryTypeOK, HistoryTypeOK
<1>8. PromisesKept'
  BY DEF IInv, Gathered, DrainStep, TurnStep, clock, storeVars, memoryVars, Goto,
     PromisesKept, Kept, Waits, Expired, TypeOK, TurnTypeOK
<1> QED BY <1>1, <1>2, <1>3, <1>4, <1>5, <1>6, <1>7, <1>8 DEF IInv

\* run_query_sync raises: the invariant is kept.
LEMMA RaiseKeeps ==
    ASSUME IInv, NEW t \in Turns, Raise(t)
    PROVE  IInv'
<1>1. TypeOK'
  BY DEF IInv, Raise, Written, DrainStep, TurnStep, clock, storeVars, memoryVars, Goto,
     TypeOK, ClockTypeOK, StoreTypeOK, MemoryTypeOK, TurnTypeOK, WriteTypeOK,
     HistoryTypeOK, TurnPCs, WritePCs
<1>2. Places'
  BY DEF IInv, Raise, Goto, Places, TypeOK, TurnTypeOK, Lookups, TurnPCs, ClearPCs,
     Consulting
<1>3. Asking'
  BY DEF IInv, Raise, Written, DrainStep, Goto, Asking, Consulting, TypeOK, TurnTypeOK,
     Lookups
<1>4. Writing'
  BY DEF IInv, Raise, Written, Goto, Writing, TypeOK, TurnTypeOK, WriteTypeOK
<1>5. ReturnedIsStored'
  BY DEF IInv, Raise, Written, DrainStep, TurnStep, Goto, ReturnedIsStored, TypeOK,
     TurnTypeOK, WriteTypeOK
<1>6. SignedAsAsked'
  BY DEF IInv, Raise, Written, DrainStep, TurnStep, storeVars, Goto, SignedAsAsked,
     TypeOK, StoreTypeOK, TurnTypeOK
<1>7. WroteIsKnown'
  BY DEF IInv, Raise, DrainStep, TurnStep, memoryVars, WroteIsKnown, TypeOK, MemoryTypeOK,
     HistoryTypeOK
<1>8. PromisesKept'
  BY DEF IInv, Raise, Written, DrainStep, TurnStep, clock, storeVars, memoryVars, Goto,
     PromisesKept, Kept, Waits, Expired, TypeOK, TurnTypeOK
<1> QED BY <1>1, <1>2, <1>3, <1>4, <1>5, <1>6, <1>7, <1>8 DEF IInv

\* A write asks for the collections: the invariant is kept.
LEMMA EnsureListKeeps ==
    ASSUME IInv, NEW t \in Turns, EnsureList(t)
    PROVE  IInv'
<1>1. TypeOK'
  BY DEF IInv, EnsureList, storeVars, memoryVars, history, WriteStep, WriteGoto, clock,
     TypeOK, ClockTypeOK, StoreTypeOK, MemoryTypeOK, TurnTypeOK, WriteTypeOK,
     HistoryTypeOK, WritePCs
<1>2. Places'
  BY DEF IInv, EnsureList, WriteStep, Places, TypeOK, TurnTypeOK
<1>3. Asking'
  BY DEF IInv, EnsureList, WriteStep, Asking, Consulting, TypeOK, TurnTypeOK
<1>4. Writing'
  BY DEF IInv, EnsureList, WriteStep, WriteGoto, Writing, TypeOK, TurnTypeOK, WriteTypeOK
<1>5. ReturnedIsStored'
  BY DEF IInv, EnsureList, WriteStep, WriteGoto, ReturnedIsStored, TypeOK, TurnTypeOK,
     WriteTypeOK
<1>6. SignedAsAsked'
  BY DEF IInv, EnsureList, storeVars, WriteStep, SignedAsAsked, TypeOK, StoreTypeOK,
     TurnTypeOK
<1>7. WroteIsKnown'
  BY DEF IInv, EnsureList, memoryVars, history, WroteIsKnown, TypeOK, MemoryTypeOK,
     HistoryTypeOK
<1>8. PromisesKept'
  BY DEF IInv, EnsureList, storeVars, memoryVars, history, WriteStep, clock, PromisesKept,
     Kept, Waits, Expired, TypeOK, TurnTypeOK
<1> QED BY <1>1, <1>2, <1>3, <1>4, <1>5, <1>6, <1>7, <1>8 DEF IInv

\* A write creates the collection: the invariant is kept.
LEMMA EnsureCreateKeeps ==
    ASSUME IInv, NEW t \in Turns, EnsureCreate(t)
    PROVE  IInv'
<1>1. TypeOK'
  BY DEF IInv, EnsureCreate, memoryVars, history, WriteStep, WriteGoto, clock, TypeOK,
     ClockTypeOK, StoreTypeOK, MemoryTypeOK, TurnTypeOK, WriteTypeOK, HistoryTypeOK,
     WritePCs
<1>2. Places'
  BY DEF IInv, EnsureCreate, WriteStep, Places, TypeOK, TurnTypeOK
<1>3. Asking'
  BY DEF IInv, EnsureCreate, WriteStep, Asking, Consulting, TypeOK, TurnTypeOK
<1>4. Writing'
  BY DEF IInv, EnsureCreate, WriteStep, WriteGoto, Writing, TypeOK, TurnTypeOK, WriteTypeOK
<1>5. ReturnedIsStored'
  BY DEF IInv, EnsureCreate, WriteStep, WriteGoto, ReturnedIsStored, TypeOK, TurnTypeOK,
     WriteTypeOK
<1>6. SignedAsAsked'
  BY DEF IInv, EnsureCreate, WriteStep, SignedAsAsked, TypeOK, StoreTypeOK, TurnTypeOK
<1>7. WroteIsKnown'
  BY DEF IInv, EnsureCreate, memoryVars, history, WroteIsKnown, TypeOK, MemoryTypeOK,
     HistoryTypeOK
<1>8. PromisesKept'
  BY DEF IInv, EnsureCreate, memoryVars, history, WriteStep, clock, PromisesKept, Kept,
     Waits, Expired, TypeOK, TurnTypeOK
<1> QED BY <1>1, <1>2, <1>3, <1>4, <1>5, <1>6, <1>7, <1>8 DEF IInv

\* A write remembers the collection and signs its entry: the invariant is kept.
LEMMA MarkKeeps ==
    ASSUME IInv, NEW t \in Turns, Mark(t)
    PROVE  IInv'
<1>1. TypeOK'
  <2>1. ClockTypeOK'
    BY DEF IInv, Mark, WriteStep, clock, TypeOK, ClockTypeOK
  <2>2. StoreTypeOK'
    BY DEF IInv, Mark, storeVars, TypeOK, StoreTypeOK
  <2>3. MemoryTypeOK'
    BY DEF IInv, Mark, TypeOK, MemoryTypeOK
  <2>4. TurnTypeOK'
    <3>1. pc' \in [Turns \cup Clearers -> TurnPCs \cup ClearPCs]
      BY DEF IInv, Mark, WriteStep, TypeOK, TurnTypeOK, TurnPCs, ClearPCs, Lookups
    <3>2. entry' \in [Turns -> Entry \cup {NoEntry}]
      <4>1. entry[t] \in Entry /\ now \in 0..MaxTime
        BY DEF IInv, Mark, Writing, TypeOK, TurnTypeOK, ClockTypeOK
      <4>2. [entry[t] EXCEPT !.createdAt = now] \in Entry
        BY <4>1 DEF Entry
      <4>3. entry' = [entry EXCEPT ![t] = [entry[t] EXCEPT !.createdAt = now]]
        BY DEF Mark
      <4> QED BY <4>2, <4>3 DEF IInv, TypeOK, TurnTypeOK
    <3>3. fault' \in [Turns -> BOOLEAN]
      BY DEF IInv, Mark, WriteStep, TypeOK, TurnTypeOK
    <3> QED
      BY <3>1, <3>2, <3>3 DEF IInv, Mark, WriteStep, TypeOK, TurnTypeOK
  <2>5. WriteTypeOK'
    BY DEF IInv, Mark, WriteGoto, TypeOK, WriteTypeOK, WritePCs
  <2>6. HistoryTypeOK'
    BY DEF IInv, Mark, TypeOK, HistoryTypeOK
  <2> QED BY <2>1, <2>2, <2>3, <2>4, <2>5, <2>6 DEF TypeOK
<1>2. Places'
  BY DEF IInv, Mark, WriteStep, Places, TypeOK, TurnTypeOK
<1>3. Asking'
  BY DEF IInv, Mark, WriteStep, Asking, Consulting, TypeOK, TurnTypeOK
<1>4. Writing'
  BY DEF IInv, Mark, WriteStep, WriteGoto, TypeOK, ClockTypeOK, TurnTypeOK, WriteTypeOK,
     Entry, Writing
<1>5. ReturnedIsStored'
  BY DEF IInv, Mark, WriteStep, WriteGoto, ReturnedIsStored, TypeOK, TurnTypeOK, WriteTypeOK
<1>6. SignedAsAsked'
  BY DEF IInv, Mark, storeVars, WriteStep, SignedAsAsked, TypeOK, TurnTypeOK, Writing
<1>7. WroteIsKnown'
  BY DEF IInv, Mark, WroteIsKnown, TypeOK, MemoryTypeOK, HistoryTypeOK
<1>8. PromisesKept'
  BY DEF IInv, Mark, storeVars, WriteStep, clock, PromisesKept, Kept, Waits, Expired,
     TypeOK, TurnTypeOK
<1> QED BY <1>1, <1>2, <1>3, <1>4, <1>5, <1>6, <1>7, <1>8 DEF IInv

\* A write stores its points: the invariant is kept.
LEMMA UpsertKeeps ==
    ASSUME IInv, NEW t \in Turns, Upsert(t)
    PROVE  IInv'
<1>1. TypeOK'
  BY DEF IInv, Upsert, memoryVars, WriteStep, WriteGoto, clock, TypeOK, ClockTypeOK,
     StoreTypeOK, MemoryTypeOK, TurnTypeOK, WriteTypeOK, HistoryTypeOK, WritePCs
<1>2. Places'
  BY DEF IInv, Upsert, WriteStep, Places, TypeOK, TurnTypeOK
<1>3. Asking'
  BY DEF IInv, Upsert, WriteStep, Asking, Consulting, TypeOK, TurnTypeOK
<1>4. Writing'
  BY DEF IInv, Upsert, WriteStep, WriteGoto, Writing, TypeOK, TurnTypeOK, WriteTypeOK
<1>5. ReturnedIsStored'
  BY DEF IInv, Upsert, WriteStep, WriteGoto, ReturnedIsStored, TypeOK, TurnTypeOK,
     WriteTypeOK
<1>6. SignedAsAsked'
  BY DEF IInv, Upsert, WriteStep, SignedAsAsked, TypeOK, StoreTypeOK, TurnTypeOK
<1>7. WroteIsKnown'
  BY DEF IInv, Upsert, memoryVars, WroteIsKnown, TypeOK, MemoryTypeOK, HistoryTypeOK
<1>8. PromisesKept'
  <2>1. /\ UNCHANGED <<now, known, home, pc, fault, question, binding>>
    BY DEF Upsert, WriteStep, memoryVars, clock
  <2>2. CASE UNCHANGED <<points, promised>>
    BY <2>1, <2>2 DEF IInv, PromisesKept, Kept, Waits, Expired
  <2>3. CASE ~UNCHANGED <<points, promised>>
    <3>1. PICK keys \in {{question[t]}, {question[t], ShapeOf[question[t]]} \cap Keys} :
             points' = [k \in Keys |-> IF k \in keys THEN entry[t] ELSE points[k]]
      BY <2>3 DEF Upsert
    <3>2. promised' = [u \in Turns |->
             CASE promised[u] = NoEntry \/ question[u] # question[t] -> promised[u]
               [] ~ServedTo(binding[u], entry[t]) -> NoEntry
               [] OTHER -> IF entry[t].createdAt < promised[u].createdAt
                           THEN entry[t] ELSE promised[u]]
      BY <2>3 DEF Upsert
    <3>3. /\ question[t] \in Questions /\ entry[t] \in Entry
      BY DEF IInv, Upsert, Writing, TypeOK, TurnTypeOK
    <3> SUFFICES ASSUME NEW u \in Turns, promised'[u] # NoEntry PROVE Kept(u)'
      BY DEF PromisesKept
    <3>4. promised[u] # NoEntry /\ Kept(u)
      BY <3>2 DEF IInv, PromisesKept
    <3>5. question[u] \in Questions
      BY <3>4 DEF IInv, Kept, Asking, Consulting, Lookups
    <3>6. CASE question[u] # question[t]
      <4>1. question[u] \notin keys /\ promised'[u] = promised[u]
        BY <3>1, <3>2, <3>3, <3>5, <3>6, QuestionAssumption DEF Keys
      <4>2. points'[question[u]] = points[question[u]]
        BY <4>1, <3>1, <3>5 DEF Keys
      <4> QED BY <2>1, <3>4, <4>1, <4>2 DEF Kept, Waits, Expired
    <3>7. CASE question[u] = question[t]
      <4>1. ServedTo(binding[u], entry[t])
        BY <3>2, <3>4, <3>7
      <4>2. promised'[u] = IF entry[t].createdAt < promised[u].createdAt THEN entry[t] ELSE promised[u]
        BY <3>2, <3>4, <3>7, <4>1
      <4>3. points'[question[u]] = entry[t]
        BY <3>1, <3>3, <3>7 DEF Keys
      <4>4. /\ entry[t].createdAt \in Nat /\ promised[u].createdAt \in Nat /\ now \in Nat
        BY <3>3, <3>4 DEF IInv, TypeOK, ClockTypeOK, HistoryTypeOK, Entry
      <4>5. Waits(u)'
        BY <2>1, <4>1, <4>2, <4>3, <4>4, <3>3 DEF Waits, ServedTo
      <4>6. Expired(promised[u]) => Expired(promised'[u])
        BY <4>2, <4>4 DEF Expired
      <4> QED BY <2>1, <3>4, <4>5, <4>6 DEF Kept, Expired
    <3> QED BY <3>6, <3>7
  <2> QED BY <2>2, <2>3
<1> QED BY <1>1, <1>2, <1>3, <1>4, <1>5, <1>6, <1>7, <1>8 DEF IInv

\* A write sweeps: the invariant is kept.
LEMMA PruneKeeps ==
    ASSUME IInv, NEW t \in Turns, Prune(t)
    PROVE  IInv'
<1>1. TypeOK'
  BY DEF IInv, Prune, Stale, history, WriteStep, WriteGoto, clock, TypeOK, ClockTypeOK,
     StoreTypeOK, MemoryTypeOK, TurnTypeOK, WriteTypeOK, HistoryTypeOK, WritePCs
<1>2. Places'
  BY DEF IInv, Prune, WriteStep, Places, TypeOK, TurnTypeOK
<1>3. Asking'
  BY DEF IInv, Prune, WriteStep, Asking, Consulting, TypeOK, TurnTypeOK
<1>4. Writing'
  BY DEF IInv, Prune, WriteStep, WriteGoto, Writing, TypeOK, TurnTypeOK, WriteTypeOK
<1>5. ReturnedIsStored'
  BY DEF IInv, Prune, WriteStep, WriteGoto, ReturnedIsStored, TypeOK, TurnTypeOK,
     WriteTypeOK
<1>6. SignedAsAsked'
  BY DEF IInv, Prune, WriteStep, SignedAsAsked, TypeOK, StoreTypeOK, TurnTypeOK
<1>7. WroteIsKnown'
  BY DEF IInv, Prune, history, WroteIsKnown, TypeOK, MemoryTypeOK, HistoryTypeOK
<1>8. PromisesKept'
  BY DEF IInv, Prune, Stale, history, WriteStep, WriteGoto, clock, TypeOK, ClockTypeOK,
     StoreTypeOK, TurnTypeOK, HistoryTypeOK, Keys, Entry, Lookups, Asking, Consulting,
     PromisesKept, Kept, Waits, Expired
<1> QED BY <1>1, <1>2, <1>3, <1>4, <1>5, <1>6, <1>7, <1>8 DEF IInv

\* A write's task is discarded: the invariant is kept.
LEMMA DiscardKeeps ==
    ASSUME IInv, NEW t \in Turns, Discard(t)
    PROVE  IInv'
<1>1. TypeOK'
  BY DEF IInv, Discard, Written, clock, storeVars, memoryVars, history, TypeOK,
     ClockTypeOK, StoreTypeOK, MemoryTypeOK, TurnTypeOK, WriteTypeOK, HistoryTypeOK,
     WritePCs
<1>2. Places'
  BY DEF IInv, Discard, Places, TypeOK, TurnTypeOK
<1>3. Asking'
  BY DEF IInv, Discard, Written, Asking, Consulting, TypeOK, TurnTypeOK, Writing, Lookups
<1>4. Writing'
  BY DEF IInv, Discard, Written, Writing, TypeOK, TurnTypeOK, WriteTypeOK
<1>5. ReturnedIsStored'
  BY DEF IInv, Discard, Written, ReturnedIsStored, TypeOK, TurnTypeOK, WriteTypeOK
<1>6. SignedAsAsked'
  BY DEF IInv, Discard, Written, storeVars, SignedAsAsked, TypeOK, TurnTypeOK, Writing
<1>7. WroteIsKnown'
  BY DEF IInv, Discard, memoryVars, history, WroteIsKnown, TypeOK, MemoryTypeOK,
     HistoryTypeOK
<1>8. PromisesKept'
  BY DEF IInv, Discard, Written, clock, storeVars, memoryVars, history, PromisesKept,
     Kept, Waits, Expired, TypeOK, TurnTypeOK, Writing
<1> QED BY <1>1, <1>2, <1>3, <1>4, <1>5, <1>6, <1>7, <1>8 DEF IInv

\* An invalidation forgets the collection: the invariant is kept.
LEMMA ForgetKnownKeeps ==
    ASSUME IInv, NEW i \in Clearers, ForgetKnown(i)
    PROVE  IInv'
<1>1. TypeOK'
  BY DEF IInv, ForgetKnown, ClearStep, turnVars, storeVars, Goto, TypeOK, ClockTypeOK,
     StoreTypeOK, MemoryTypeOK, TurnTypeOK, WriteTypeOK, HistoryTypeOK, ClearPCs
<1>2. Places'
  BY DEF IInv, ForgetKnown, Goto, Places, TypeOK, TurnTypeOK, Lookups, TurnPCs, ClearPCs,
     Consulting
<1>3. Asking'
  BY DEF IInv, ForgetKnown, ClearStep, turnVars, Goto, Asking, Consulting, TypeOK,
     TurnTypeOK
<1>4. Writing'
  BY DEF IInv, ForgetKnown, ClearStep, turnVars, Goto, Writing, TypeOK, TurnTypeOK,
     WriteTypeOK
<1>5. ReturnedIsStored'
  BY DEF IInv, ForgetKnown, ClearStep, turnVars, Goto, ReturnedIsStored, TypeOK,
     TurnTypeOK, WriteTypeOK
<1>6. SignedAsAsked'
  BY DEF IInv, ForgetKnown, ClearStep, turnVars, storeVars, Goto, SignedAsAsked, TypeOK,
     StoreTypeOK, TurnTypeOK
<1>7. WroteIsKnown'
  BY DEF IInv, ForgetKnown, WroteIsKnown, TypeOK, MemoryTypeOK, HistoryTypeOK
<1>8. PromisesKept'
  BY DEF IInv, ForgetKnown, ClearStep, turnVars, storeVars, Goto, PromisesKept, Kept,
     Waits, Expired, TypeOK, TurnTypeOK
<1> QED BY <1>1, <1>2, <1>3, <1>4, <1>5, <1>6, <1>7, <1>8 DEF IInv

\* An invalidation deletes the collection: the invariant is kept.
LEMMA DeleteCollectionKeeps ==
    ASSUME IInv, NEW i \in Clearers, DeleteCollection(i)
    PROVE  IInv'
<1>1. TypeOK'
  <2>1. ClockTypeOK'
    BY DEF IInv, DeleteCollection, ClearStep, TypeOK, ClockTypeOK
  <2>2. StoreTypeOK'
    <3>1. CASE UNCHANGED storeVars
      BY <3>1 DEF IInv, TypeOK, StoreTypeOK, storeVars
    <3>2. CASE exists' = FALSE /\ points' = [k \in Keys |-> NoEntry]
      BY <3>2 DEF StoreTypeOK
    <3> QED BY <3>1, <3>2 DEF DeleteCollection
  <2>3. MemoryTypeOK'
    BY DEF IInv, DeleteCollection, memoryVars, TypeOK, MemoryTypeOK
  <2>4. TurnTypeOK'
    <3>1. pc' \in [Turns \cup Clearers -> TurnPCs \cup ClearPCs]
      BY DEF IInv, DeleteCollection, Goto, TypeOK, TurnTypeOK, TurnPCs, ClearPCs, Lookups
    <3>2. entry' \in [Turns -> Entry \cup {NoEntry}]
      BY DEF IInv, DeleteCollection, ClearStep, turnVars, TypeOK, TurnTypeOK
    <3>3. fault' \in [Turns -> BOOLEAN]
      BY DEF IInv, DeleteCollection, ClearStep, turnVars, TypeOK, TurnTypeOK
    <3> QED
      BY <3>1, <3>2, <3>3 DEF IInv, DeleteCollection, ClearStep, turnVars, TypeOK,
         TurnTypeOK
  <2>5. WriteTypeOK'
    BY DEF IInv, DeleteCollection, ClearStep, TypeOK, WriteTypeOK, WritePCs
  <2>6. HistoryTypeOK'
    BY DEF IInv, DeleteCollection, TypeOK, HistoryTypeOK
  <2> QED BY <2>1, <2>2, <2>3, <2>4, <2>5, <2>6 DEF TypeOK
<1>2. Places'
  BY DEF IInv, DeleteCollection, Goto, Places, TypeOK, TurnTypeOK, Lookups, TurnPCs,
     ClearPCs, Consulting
<1>3. Asking'
  BY DEF IInv, DeleteCollection, ClearStep, turnVars, Goto, Asking, Consulting, TypeOK,
     TurnTypeOK
<1>4. Writing'
  BY DEF IInv, DeleteCollection, ClearStep, turnVars, Goto, Writing, TypeOK, TurnTypeOK,
     WriteTypeOK
<1>5. ReturnedIsStored'
  BY DEF IInv, DeleteCollection, ClearStep, turnVars, Goto, ReturnedIsStored, TypeOK,
     TurnTypeOK, WriteTypeOK
<1>6. SignedAsAsked'
  BY DEF IInv, DeleteCollection, ClearStep, turnVars, storeVars, Goto, SignedAsAsked,
     TypeOK, StoreTypeOK, TurnTypeOK
<1>7. WroteIsKnown'
  BY DEF IInv, DeleteCollection, memoryVars, WroteIsKnown, TypeOK, MemoryTypeOK,
     HistoryTypeOK
<1>8. PromisesKept'
  BY DEF IInv, DeleteCollection, ClearStep, turnVars, storeVars, memoryVars, Goto,
     PromisesKept, Kept, Waits, Expired, TypeOK, TurnTypeOK
<1> QED BY <1>1, <1>2, <1>3, <1>4, <1>5, <1>6, <1>7, <1>8 DEF IInv


----------------------------------------------------------------------------
(* The whole specification.                                                *)

\* The initial states satisfy the invariant: nothing is stored, written or
\* promised.
LEMMA InitEstablishes == Init => IInv
<1> SUFFICES ASSUME Init PROVE IInv
  OBVIOUS
<1>1. TypeOK
  <2>1. ClockTypeOK
    BY DEF Init, ClockTypeOK
  <2>2. StoreTypeOK
    BY DEF Init, StoreTypeOK
  <2>3. MemoryTypeOK
    BY DEF Init, MemoryTypeOK
  <2>4. TurnTypeOK
    BY DEF Init, TurnTypeOK, TurnPCs, ClearPCs
  <2>5. WriteTypeOK
    BY DEF Init, WriteTypeOK, WritePCs
  <2>6. HistoryTypeOK
    BY DEF Init, HistoryTypeOK
  <2> QED BY <2>1, <2>2, <2>3, <2>4, <2>5, <2>6 DEF TypeOK
<1>2. Places
  BY DEF Init, Places, TurnPCs, ClearPCs
<1>3. Asking /\ Writing /\ ReturnedIsStored
  BY DEF Init, Asking, Consulting, Lookups, Writing, ReturnedIsStored
<1>4. SignedAsAsked /\ WroteIsKnown /\ PromisesKept
  BY DEF Init, SignedAsAsked, WroteIsKnown, PromisesKept
<1> QED BY <1>1, <1>2, <1>3, <1>4 DEF IInv

\* Every step of the specification keeps the invariant.
LEMMA StepPreserves == IInv /\ [Next]_vars => IInv'
<1> SUFFICES ASSUME IInv, [Next]_vars PROVE IInv'
  OBVIOUS
<1>1. CASE UNCHANGED vars
  <2>1. /\ UNCHANGED <<now, version, changes, begun, exists, points, known, missing, lastPrune>>
        /\ UNCHANGED <<tasks, home, pc, sync, question, binding, entry, fault, write, wrote, promised>>
    BY <1>1 DEF vars, clock, storeVars, memoryVars, turnVars, history
  <2>2. TypeOK'
    BY <2>1 DEF IInv, TypeOK, ClockTypeOK, StoreTypeOK, MemoryTypeOK, TurnTypeOK,
       WriteTypeOK, HistoryTypeOK
  <2>3. Places' /\ Asking' /\ Writing' /\ ReturnedIsStored'
    BY <2>1 DEF IInv, Places, Asking, Writing, ReturnedIsStored
  <2>4. SignedAsAsked' /\ WroteIsKnown' /\ PromisesKept'
    BY <2>1 DEF IInv, SignedAsAsked, WroteIsKnown, PromisesKept, Kept, Waits, Expired
  <2> QED BY <2>2, <2>3, <2>4 DEF IInv
<1>2. CASE Tick \/ Change
  BY <1>2, TickKeeps, ChangeKeeps
<1>3. ASSUME NEW t \in Turns, NEW q \in Questions, Begin(t, q) PROVE IInv'
  BY <1>3, BeginKeeps
<1>4. ASSUME NEW t \in Turns, Lookup(t) PROVE IInv'
  BY <1>4, RememberedKeeps, ForgetMissingKeeps, ListCollectionsKeeps, RecordPresentKeeps,
     RecordAbsentKeeps, ExactKeeps, SearchKeeps, TemplateKeeps DEF Lookup
<1>5. ASSUME NEW t \in Turns, Drive(t) PROVE IInv'
  BY <1>5, ReplayKeeps, GenerateKeeps, DrainKeeps, GatheredKeeps, RaiseKeeps DEF Drive
<1>6. ASSUME NEW t \in Turns, Write(t) PROVE IInv'
  BY <1>6, EnsureListKeeps, EnsureCreateKeeps, MarkKeeps, UpsertKeeps, PruneKeeps,
     DiscardKeeps DEF Write
<1>7. ASSUME NEW i \in Clearers, Clear(i) PROVE IInv'
  BY <1>7, ForgetKnownKeeps, DeleteCollectionKeeps DEF Clear
<1> QED BY <1>1, <1>2, <1>3, <1>4, <1>5, <1>6, <1>7 DEF Next

\* The invariant holds in every reachable state.
LEMMA InvariantHolds == Spec => []IInv
BY InitEstablishes, StepPreserves, PTL DEF Spec

\* Only a sweep and invalidate take a point out of the store, and a sweep
\* takes none that a reader would still be served.
LEMMA StepSparesLive ==
    ASSUME IInv, [Next]_vars, NEW k \in Keys, points[k] # NoEntry, points'[k] = NoEntry
    PROVE  Expired(points[k]) \/ ~exists'
<1>1. CASE UNCHANGED points
  BY <1>1
<1>2. ASSUME NEW t \in Turns, Upsert(t) PROVE Expired(points[k]) \/ ~exists'
  <2>1. entry[t] # NoEntry
    BY <1>2 DEF IInv, Writing, Upsert
  <2> QED BY <1>2, <2>1 DEF Upsert
<1>3. ASSUME NEW t \in Turns, Prune(t) PROVE Expired(points[k]) \/ ~exists'
  BY <1>3 DEF Prune, Stale, Expired
<1>4. ASSUME NEW i \in Clearers, DeleteCollection(i) PROVE Expired(points[k]) \/ ~exists'
  BY <1>4 DEF DeleteCollection, storeVars
<1>5. ASSUME NEW t \in Turns, Lookup(t) PROVE UNCHANGED points
  BY <1>5 DEF Lookup, Remembered, ForgetMissing, ListCollections, RecordPresent,
     RecordAbsent,
     Exact, Search, Template, LookupStep, storeVars
<1>6. ASSUME NEW t \in Turns, Drive(t) PROVE UNCHANGED points
  BY <1>6 DEF Drive, Replay, Generate, Drain, Gathered, Raise, DrainStep, TurnStep,
     storeVars
<1>7. ASSUME NEW t \in Turns, Write(t) PROVE UNCHANGED points \/ Upsert(t) \/ Prune(t)
  BY <1>7 DEF Write, EnsureList, EnsureCreate, Mark, Discard, storeVars
<1>8. CASE UNCHANGED vars \/ Tick \/ Change
  BY <1>8 DEF vars, Tick, Change, storeVars
<1>9. ASSUME NEW t \in Turns, NEW q \in Questions, Begin(t, q) PROVE UNCHANGED points
  BY <1>9 DEF Begin, storeVars
<1>10. ASSUME NEW i \in Clearers, Clear(i) PROVE UNCHANGED points \/ DeleteCollection(i)
  BY <1>10 DEF Clear, ForgetKnown, storeVars
<1> QED BY <1>1, <1>2, <1>3, <1>4, <1>5, <1>6, <1>7, <1>8, <1>9, <1>10 DEF Next

----------------------------------------------------------------------------
\* Every variable of the cache has its type: what is served, written or
\* stored is an entry of a version of the knowledge base.
THEOREM TypeCorrect == Spec => []TypeOK
<1>1. IInv => TypeOK
  BY DEF IInv
<1> QED BY <1>1, InvariantHolds, PTL

\* _verified_entry replays an answer only to a turn that began under the
\* knowledge base and configuration the answer's own turn began under.
THEOREM ServedCorrect == Spec => []ServedBeganHere
<1>1. IInv => ServedBeganHere
  BY DEF IInv, SignedAsAsked, ServedBeganHere
<1> QED BY <1>1, InvariantHolds, PTL

\* A process that has written finds what is stored: get misses an answer that
\* waited for its question only when a call failed, the answer expired, the
\* cache was cleared or the answer replaced.
THEOREM ReadsCorrect == Spec => []ReadsOwnWrites
<1>1. IInv => ReadsOwnWrites
  BY DEF IInv, PromisesKept, Kept, ReadsOwnWrites
<1> QED BY <1>1, InvariantHolds, PTL

\* run_query_sync returns only when the write of its answer is over.
THEOREM ReturnedStored == Spec => []ReturnedIsStored
<1>1. IInv => ReturnedIsStored
  BY DEF IInv
<1> QED BY <1>1, InvariantHolds, PTL

\* _prune_expired deletes no point that is still in its time to live, and
\* nothing else but invalidate deletes any.
THEOREM SweepSafe == Spec => SweepSparesLive
<1>1. IInv /\ [Next]_vars =>
        [\A k \in Keys :
            points[k] # NoEntry /\ points'[k] = NoEntry => Expired(points[k]) \/ ~exists']_vars
  BY StepSparesLive
<1> QED BY <1>1, InvariantHolds, PTL DEF Spec, SweepSparesLive
=============================================================================
