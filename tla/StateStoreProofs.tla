-------------------------- MODULE StateStoreProofs --------------------------
(***************************************************************************)
(* Proofs about StateStore: types, NeverCorrupt and the refinement of      *)
(* DurableState, for any number of crashes and power cuts.                 *)
(***************************************************************************)
EXTENDS StateStore, TLAPS

StoreInv == TypeOK /\ SyncedOK

\* What the assumptions say of the constants.
LEMMA Markers ==
  /\ Default \in States /\ Absent \notin States /\ Corrupt \notin States
  /\ Absent # Corrupt
  /\ MaxPowerCuts \in Nat
<1>1. Absent # Corrupt
  BY DEF Absent, Corrupt
<1> QED
  BY <1>1, StoreConstants, MarkersAreNotStates DEF StoreConstants, MarkersAreNotStates

\* No file yet.
LEMMA InitStoreInv == Init => StoreInv
<1> SUFFICES ASSUME Init PROVE StoreInv
  OBVIOUS
<1>1. powerCuts \in 0 .. MaxPowerCuts
  BY Markers DEF Init
<1>2. SyncedOK
  BY Markers DEF Init, SyncedOK
<1> QED
  BY <1>1, <1>2, Markers DEF Init, StoreInv, TypeOK, Steps

\* Every system call, failure, crash and power cut preserves the invariant.
LEMMA NextStoreInv == StoreInv /\ [Next]_vars => StoreInv'
<1> SUFFICES ASSUME StoreInv, [Next]_vars PROVE StoreInv'
  OBVIOUS
<1> USE Markers DEF StoreInv, TypeOK, SyncedOK, Steps
<1>1. CASE Open
  BY <1>1 DEF Open
<1>2. CASE Update
  BY <1>2 DEF Update
<1>3. CASE CreateTmp
  BY <1>3 DEF CreateTmp
<1>4. CASE WriteTmp
  BY <1>4 DEF WriteTmp
<1>5. CASE SyncTmp
  BY <1>5 DEF SyncTmp
<1>6. CASE Rename
  BY <1>6 DEF Rename
<1>7. CASE PersistFails \/ Crash
  BY <1>7 DEF PersistFails, InPersist, Crash
<1>8. CASE WriteOut \/ WriteBack
  BY <1>8 DEF WriteOut, WriteBack
<1>9. CASE PowerCut
  <2>1. powerCuts' \in 0 .. MaxPowerCuts
    BY <1>9 DEF PowerCut
  <2> QED
    BY <1>9, <2>1 DEF PowerCut
<1>10. CASE UNCHANGED vars
  BY <1>10 DEF vars
<1> QED
  BY <1>1, <1>2, <1>3, <1>4, <1>5, <1>6, <1>7, <1>8, <1>9, <1>10 DEF Next, Persist

\* Types and the order of sync and rename, in every state.
THEOREM StoreInvHolds == Spec => []StoreInv
<1> QED
  BY InitStoreInv, NextStoreInv, PTL DEF Spec

\* Every variable of the store keeps its type; open() and update() always leave
\* a State in memory.
THEOREM StoreTypeCorrect == Spec => []TypeOK
<1>1. StoreInv => TypeOK
  BY DEF StoreInv
<1> QED
  BY <1>1, StoreInvHolds, PTL

\* No crash and no power cut leaves a state file that open() refuses.
THEOREM FileNeverCorrupt == Spec => []NeverCorrupt
<1>1. StoreInv => NeverCorrupt
  BY DEF StoreInv, SyncedOK, NeverCorrupt
<1> QED
  BY <1>1, StoreInvHolds, PTL

-----------------------------------------------------------------------------
\* Every step is one of the atomic store, or a stutter.
LEMMA StoreStepRefines ==
  ASSUME StoreInv, [Next]_vars
  PROVE  [Durable!Next]_(Durable!vars)
<1> USE Markers DEF Durable!Next, Durable!vars
<1>1. mem \in States /\ file \in States \cup {Absent} /\ fileSynced
      /\ (step \in {"sync", "rename"} => tmp = mem)
  BY DEF StoreInv, TypeOK, SyncedOK
<1>2. CASE Open
  <2>1. file # Corrupt
    BY DEF StoreInv, SyncedOK
  <2> QED
    BY <1>1, <1>2, <2>1 DEF Open, Durable!Open, Found, InPersist
<1>3. CASE Update
  BY <1>3 DEF Update, Durable!Begin, Found, InPersist
<1>4. CASE CreateTmp \/ WriteTmp \/ SyncTmp
  BY <1>4 DEF CreateTmp, WriteTmp, SyncTmp, Found, InPersist
<1>5. CASE Rename
  BY <1>1, <1>5 DEF Rename, Durable!Commit, Found, InPersist
<1>6. CASE PersistFails
  BY <1>6 DEF PersistFails, Durable!Refuse, Found, InPersist
<1>7. CASE Crash
  BY <1>7 DEF Crash, Durable!Crash, Found, InPersist
<1>8. CASE WriteOut \/ WriteBack
  BY <1>1, <1>8 DEF WriteOut, WriteBack, Durable!Flush, Found, InPersist
<1>9. CASE PowerCut
  BY <1>9 DEF PowerCut, Durable!PowerCut, Found, InPersist
<1>10. CASE UNCHANGED vars
  BY <1>10 DEF vars, Found, InPersist
<1> QED
  BY <1>2, <1>3, <1>4, <1>5, <1>6, <1>7, <1>8, <1>9, <1>10 DEF Next, Persist

\* update() is one atomic step: the file holds either the old state or the new
\* one, an error means the old one, and what a power cut leaves is a whole state
\* the file system had written out.
THEOREM StoreRefines == Spec => ImplementsDurableState
<1>1. Init => Durable!Init
  BY DEF Init, Durable!Init, Found, InPersist
<1>2. StoreInv /\ [Next]_vars => [Durable!Next]_(Durable!vars)
  BY StoreStepRefines
<1> QED
  BY <1>1, <1>2, StoreInvHolds, PTL DEF Spec, ImplementsDurableState, Durable!Spec
=============================================================================
