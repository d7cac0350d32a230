-------------------------- MODULE DaemonBoundsProofs --------------------------
(***************************************************************************)
(* Proofs about Daemon, for every value of the constants and any server:   *)
(* how much a shutdown still waits for (ShutdownWithinBatch) and how often *)
(* a message above the cursor is executed (ExecutionsBounded).             *)
(***************************************************************************)
EXTENDS DaemonProofs, FiniteSetTheorems

USE DEF None

-----------------------------------------------------------------------------
(* Shutdown                                                                *)

\* Executions after the signal are those of the batch that was fetched before it:
\* no connection, SELECT or FETCH is begun with a permit there.
LateOK ==
  /\ late <= BatchSize
  /\ ~permit => late = 0
  /\ pc \in {"capabilities", "select", "validate", "seed", "fetch"} => late = 0
  /\ pc \in {"down"} \cup Exited => late = 0
  /\ pc = "batch" => late + Cardinality(batch) <= BatchSize
  /\ pc = "advance" => late + Cardinality(batch) <= BatchSize + 1

\* A batch is finite, and loses one message at a time.
LEMMA BatchCounts ==
  ASSUME NEW b \in SUBSET Uid
  PROVE  /\ Cardinality(b) \in Nat
         /\ \A u \in b : /\ Cardinality(b) >= 1
                         /\ Cardinality(b \ {u}) = Cardinality(b) - 1
<1>1. IsFiniteSet(b)
  <2>1. IsFiniteSet(Uid)
    BY FS_Interval, ConstantTypes DEF Uid
  <2> QED
    BY <2>1, FS_Subset
<1>2. Cardinality(b) \in Nat
  BY <1>1, FS_CardinalityType
<1>3. ASSUME NEW u \in b
      PROVE  /\ Cardinality(b) >= 1
             /\ Cardinality(b \ {u}) = Cardinality(b) - 1
  <2>1. Cardinality(b) # 0
    BY <1>1, <1>3, FS_EmptySet
  <2>2. Cardinality(b \ {u}) = Cardinality(b) - 1
    BY <1>1, <1>3, FS_RemoveElement
  <2> QED
    BY <1>2, <2>1, <2>2
<1> QED
  BY <1>2, <1>3

\* Before the first start there was no signal.
LEMMA InitLateOK == Init => LateOK
BY ConstantTypes DEF Init, LateOK, Exited

\* A step of a batch brings the rest of the batch down by what it adds to late.
LEMMA NextLateOK ==
  ASSUME TypedInv, LateOK, [Next]_vars
  PROVE  LateOK'
<1> USE ConstantTypes DEF LateOK, Exited
<1>0. TypeOK /\ late \in Nat /\ batch \in SUBSET Uid /\ Cardinality(batch) \in Nat /\ pc \in Pcs
  BY BatchCounts DEF TypedInv, TypeOK, ControlTypeOK, WorkTypeOK, HistoryTypeOK
<1>1. CASE UNCHANGED <<late, permit>> /\ batch' = {} /\ pc' \in {"pausing", "idle"}
  BY <1>1
<1>2. CASE late' = 0 /\ permit' = FALSE /\ pc' \in {"down"} \cup Exited
  BY <1>2
<1>3. CASE /\ UNCHANGED <<late, permit, batch>> /\ late = 0
           /\ pc' \in {"capabilities", "select", "validate", "fetch", "pausing"}
  BY <1>0, <1>3
<1>4. CASE Fetch
  <2>1. batch' \in SUBSET Matches(RangeStart(mem), ChangedSince) /\ Cardinality(batch') <= BatchSize
    BY <1>4 DEF Fetch, Truncations
  <2>2. Cardinality(batch') \in Nat
    BY <1>0, <2>1, BatchCounts DEF Matches, TypeOK, ServerTypeOK
  <2>3. pc = "fetch" /\ pc' = "batch" /\ UNCHANGED <<late, permit>>
    BY <1>4 DEF Fetch, history
  <2> QED
    BY <1>0, <2>1, <2>2, <2>3
<1>5. ASSUME NEW u \in Uid, Execute(u)
      PROVE  LateOK'
  <2>1. pc = "batch" /\ pc' = "advance" /\ batch' = batch /\ permit' = permit /\ u \in batch
    BY <1>5 DEF Execute, IsNext
  <2>2. late + Cardinality(batch) <= BatchSize /\ Cardinality(batch) >= 1
    BY <1>0, <2>1, BatchCounts
  <2>3. late' = IF permit THEN late + 1 ELSE late
    BY <1>0, <1>5, <2>2 DEF Execute, Count
  <2> QED
    BY <1>0, <2>1, <2>2, <2>3
<1>6. CASE Advance
  <2>1. pc = "advance" /\ cur \in batch
    BY <1>0, <1>6 DEF Advance, TypeOK, WorkTypeOK
  <2>2. Cardinality(batch \ {cur}) = Cardinality(batch) - 1
    BY <1>0, <2>1, BatchCounts
  <2>3. UNCHANGED <<late, permit>>
    BY <1>6 DEF Advance, history
  <2>4. CASE pc' = "batch" /\ batch' = batch \ {cur}
    <3>1. Cardinality(batch') = Cardinality(batch) - 1
      BY <2>2, <2>4
    <3> QED
      BY <1>0, <2>1, <2>3, <2>4, <3>1
  <2>5. CASE pc' = "pausing" /\ batch' = {}
    BY <1>1, <2>3, <2>5
  <2> QED
    BY <1>6, <2>4, <2>5 DEF Advance, Update, SessionFails
<1>7. CASE Validate \/ Seed
  <2>1. pc \in {"validate", "seed"} /\ late = 0
    BY <1>7 DEF Validate, Seed
  <2>2. /\ pc' \in {"seed", "fetch", "pausing", "exit_fatal"}
        /\ late' = 0 /\ (permit' = permit \/ permit' = FALSE)
    BY <1>7, <2>1 DEF Validate, Seed, Update, SessionFails, Dies, history
  <2> QED
    BY <1>0, <2>2
<1>8. CASE Crash \/ ShutdownSeen
  BY <1>2, <1>8 DEF Crash, ShutdownSeen, Dies
<1>9. CASE Signal
  <2>1. late = 0 /\ UNCHANGED <<pc, batch, late>>
    BY <1>9 DEF Signal, work, history
  <2> QED
    BY <1>0, <2>1
<1>10. CASE CommandFails \/ IdleFails
  BY <1>1, <1>10 DEF CommandFails, IdleFails, SessionFails, history
<1>11. ASSUME NEW u \in Uid, MessageFails(u)
      PROVE  LateOK'
  BY <1>1, <1>11 DEF MessageFails
<1>12. CASE Start \/ Relaunch
  <2>1. UNCHANGED <<late, permit, batch>> /\ pc' \in {"connecting", "down"}
        /\ (pc' = "down" => pc \in Exited)
    BY <1>12 DEF Start, Relaunch, work, history
  <2> QED
    BY <1>0, <2>1
<1>13. CASE ConnectOk \/ CheckCapabilities \/ Select \/ IdleExists \/ IdleTimeout
  <2>1. late = 0
    BY <1>13 DEF ConnectOk, CheckCapabilities, Select, IdleExists, IdleTimeout, Wakes
  <2>2. /\ UNCHANGED <<late, permit, batch>>
        /\ pc' \in {"capabilities", "select", "validate", "fetch", "pausing"}
    BY <1>13 DEF ConnectOk, CheckCapabilities, Select, IdleExists, IdleTimeout, Wakes, work, history
  <2> QED
    BY <1>3, <2>1, <2>2
<1>14. CASE ConnectFails \/ Resume \/ BatchDone \/ Hang \/ MailArrives \/ MailboxRecreated \/ UNCHANGED vars
  BY <1>0, <1>14
  DEF ConnectFails, Resume, BatchDone, Hang, MailArrives, MailboxRecreated, work, history, vars, daemonVars
<1>15. ASSUME NEW u \in Uid, FlagsChange(u) \/ OthersRemove(u)
      PROVE  LateOK'
  BY <1>0, <1>15 DEF FlagsChange, OthersRemove, daemonVars, work, history
<1> HIDE DEF LateOK
<1> QED
  BY <1>4, <1>5, <1>6, <1>7, <1>8, <1>9, <1>10, <1>11, <1>12, <1>13, <1>14, <1>15
  DEF Next, Progress, Surroundings, Processing

\* Shutdown waits for at most one batch (Supervisor::run and SessionManager::run
\* look at the permit before everything that could lead to the next one): no more
\* than batch_size messages are executed after the signal.
THEOREM ShutdownWaitsForOneBatch == Spec => []ShutdownWithinBatch
<1>1. Init => TypedInv /\ LateOK
  BY InitTypedInv, InitLateOK
<1>2. (TypedInv /\ LateOK) /\ [Next]_vars => (TypedInv /\ LateOK)'
  BY NextTypedInv, NextLateOK
<1>3. LateOK => ShutdownWithinBatch
  BY DEF LateOK, ShutdownWithinBatch
<1> QED
  BY <1>1, <1>2, <1>3, PTL DEF Spec

-----------------------------------------------------------------------------
(* Repeated executions                                                     *)

\* The file says that u is done.
Done(u) == About(disk) /\ disk.last_seen_uid >= u

\* What may be executed again above the cursor has cost a crash or a failed write each
\* time before; what the file says is done, or is about to be recorded, once more.
RunsOK ==
  /\ \A u \in Uid :
       runs[u] <= crashes + diskFails + (IF Done(u) \/ cur = u THEN 1 ELSE 0)
  /\ \A b \in batch :
       b # cur /\ b > mem.last_seen_uid => runs[b] <= crashes + diskFails

\* Before the first start nothing was executed.
LEMMA InitRunsOK == Init => RunsOK
BY DEF Init, RunsOK

\* While the mailbox is the same, what is done stays done.
LEMMA DoneKept ==
  ASSUME TypedInv, [Next]_vars, ~MailboxRecreated, NEW u \in Uid, Done(u)
  PROVE  Done(u)'
<1>1. About(disk) /\ disk.last_seen_uid >= u /\ disk.last_seen_uid \in {None} \cup 0 .. MaxUid
  BY DEF Done, TypedInv, TypeOK, StateFile
<1>2. disk.last_seen_uid # None
  BY <1>1, ConstantTypes DEF Uid
<1>3. About(disk)' /\ disk'.last_seen_uid >= disk.last_seen_uid
  BY <1>1, <1>2, DurableStaysAbout DEF Durable
<1>4. disk'.last_seen_uid \in {None} \cup 0 .. MaxUid
  BY NextTypedInv DEF TypedInv, TypeOK, StateFile
<1> QED
  BY <1>1, <1>3, <1>4, ConstantTypes DEF Done, Uid

\* A step that executes and fetches nothing forgets an execution only if it is in the
\* file or has cost a crash or a failed write.
LEMMA RunsKept ==
  ASSUME TypedInv, RunsOK, [Next]_vars, ~MailboxRecreated, UNCHANGED runs,
         crashes' = crashes \/ crashes' = crashes + 1,
         diskFails' = diskFails \/ diskFails' = diskFails + 1,
         batch' \subseteq batch,
         batch' = {} \/ mem'.last_seen_uid >= mem.last_seen_uid,
         \/ cur' = cur
         \/ /\ cur' = None /\ cur \notin batch'
            /\ \/ cur = None
               \/ disk'.uidvalidity = uidvalidity' /\ disk'.last_seen_uid >= cur
               \/ crashes' = crashes + 1 \/ diskFails' = diskFails + 1
  PROVE  RunsOK'
<1>1. runs \in [Uid -> 0 .. MaxRuns] /\ batch \subseteq Uid /\ runs' = runs
  BY DEF TypedInv, TypeOK, HistoryTypeOK, WorkTypeOK
<1>2. crashes \in Nat /\ diskFails \in Nat /\ MaxRuns \in Nat
  BY ConstantTypes DEF TypedInv, TypeOK, BudgetTypeOK
<1> DEFINE lost == crashes + diskFails
<1>3. lost \in Nat /\ lost' \in Nat /\ lost <= lost'
  BY <1>2
<1>4. ASSUME NEW u \in Uid
      PROVE  runs'[u] <= lost' + (IF Done(u)' \/ cur' = u THEN 1 ELSE 0)
  <2>1. Done(u) => Done(u)'
    BY DoneKept
  <2>2. runs[u] \in Nat /\ runs[u] <= lost + (IF Done(u) \/ cur = u THEN 1 ELSE 0)
    BY <1>1, <1>2 DEF RunsOK
  <2>3. disk'.uidvalidity = uidvalidity' /\ disk'.last_seen_uid >= cur /\ cur = u => Done(u)'
    BY DEF Done, About
  <2>4. u # None
    BY ConstantTypes DEF Uid
  <2>5. Done(u) \/ cur = u => Done(u)' \/ cur' = u \/ lost < lost'
    BY <1>2, <2>1, <2>3, <2>4
  <2> HIDE DEF lost
  <2> QED
    BY <1>1, <1>3, <2>2, <2>5
<1>5. ASSUME NEW b \in batch', b # cur', b > mem'.last_seen_uid
      PROVE  runs'[b] <= lost'
  <2>1. /\ b \in batch /\ b \in Uid
        /\ mem.last_seen_uid \in Int /\ mem'.last_seen_uid \in Int
    BY <1>1, NextTypedInv, ConstantTypes DEF TypedInv, TypeOK, StateFile
  <2>2. b # cur /\ b > mem.last_seen_uid
    BY <1>5, <2>1, ConstantTypes DEF Uid
  <2>3. runs[b] <= lost /\ runs[b] \in Nat
    BY <1>1, <1>2, <2>1, <2>2 DEF RunsOK
  <2> HIDE DEF lost
  <2> QED
    BY <1>1, <1>3, <2>3
<1> QED
  BY <1>4, <1>5 DEF RunsOK

\* A fetched message beyond the cursor is not done.
LEMMA FetchedNotDone ==
  ASSUME TypedInv, Fetch, NEW b \in batch', b > mem.last_seen_uid
  PROVE  b \in Uid /\ ~Done(b)
<1>1. b \in Matches(RangeStart(mem), ChangedSince) /\ pc = "fetch"
  BY DEF Fetch, Truncations
<1>2. b \in Uid
  BY <1>1 DEF Matches, TypedInv, TypeOK, ServerTypeOK
<1>3. /\ mem.last_seen_uid \in {None} \cup 0 .. MaxUid
      /\ disk.last_seen_uid \in {None} \cup 0 .. MaxUid
      /\ disk.last_seen_uid <= mem.last_seen_uid
  BY <1>1 DEF TypedInv, TypeOK, StateFile, StoresOK
<1> QED
  BY <1>2, <1>3, ConstantTypes DEF Done, Uid

\* Every execution is in the file, about to be, or paid for.
LEMMA NextRunsOK ==
  ASSUME TypedInv, BatchInOrder, RunsOK, [Next]_vars
  PROVE  RunsOK'
<1>0. /\ TypeOK /\ SelectedOK /\ StoresOK
      /\ runs \in [Uid -> 0 .. MaxRuns] /\ batch \subseteq Uid
      /\ crashes \in Nat /\ diskFails \in Nat /\ MaxRuns \in Nat
      /\ cur # None => pc = "advance"
      /\ mem.last_seen_uid \in {None} \cup 0 .. MaxUid
  BY ConstantTypes
  DEF TypedInv, TypeOK, StateFile, HistoryTypeOK, WorkTypeOK, BudgetTypeOK, BatchInOrder
<1>1. CASE /\ ~MailboxRecreated /\ UNCHANGED <<runs, crashes, diskFails>> /\ cur = None
           /\ cur' = cur /\ batch' = {}
  BY <1>1, RunsKept
<1>2. CASE /\ ~MailboxRecreated /\ UNCHANGED <<runs, crashes, diskFails, cur, batch>>
           /\ mem' = mem
  <2>1. mem'.last_seen_uid >= mem.last_seen_uid
    BY <1>0, <1>2, ConstantTypes
  <2> QED
    BY <1>2, <2>1, RunsKept
<1>15. CASE /\ ~MailboxRecreated /\ UNCHANGED <<runs, crashes, diskFails, cur, batch>>
            /\ batch = {}
  BY <1>15, RunsKept
<1>3. ASSUME NEW u \in Uid, Execute(u)
      PROVE  RunsOK'
  <2>1. /\ pc = "batch" /\ u \in batch /\ cur = None /\ batch' = batch
        /\ cur' = u /\ pc' = "advance"
        /\ UNCHANGED <<crashes, diskFails, mem, disk, uidvalidity>>
    BY <1>0, <1>3 DEF Execute, IsNext, stores, budgets
  <2>2. \A v \in Uid : Done(v)' <=> Done(v)
    BY <2>1 DEF Done, About
  <2>3. \A v \in Uid : v # None
    BY ConstantTypes DEF Uid
  <2>4. CASE ~(u > mem.last_seen_uid)
    <3>1. runs' = runs
      BY <1>3, <2>4 DEF Execute
    <3>2. ASSUME NEW v \in Uid
          PROVE  runs'[v] <= crashes' + diskFails' + (IF Done(v)' \/ cur' = v THEN 1 ELSE 0)
      <4>1. runs[v] <= crashes + diskFails + (IF Done(v) THEN 1 ELSE 0)
        BY <2>1, <2>3 DEF RunsOK
      <4> QED
        BY <1>0, <2>1, <2>2, <3>1, <4>1
    <3> QED
      BY <1>0, <2>1, <2>3, <3>1, <3>2 DEF RunsOK
  <2>5. CASE u > mem.last_seen_uid
    <3>1. \A v \in Uid : runs'[v] = IF v = u THEN Count(runs[u], MaxRuns) ELSE runs[v]
      BY <1>0, <1>3, <2>5 DEF Execute
    <3>2. runs[u] \in Nat /\ runs[u] <= crashes + diskFails
      BY <1>0, <2>1, <2>3, <2>5 DEF RunsOK
    <3>3. Count(runs[u], MaxRuns) <= crashes + diskFails + 1
      BY <1>0, <3>2 DEF Count
    <3>4. ASSUME NEW v \in Uid
          PROVE  runs'[v] <= crashes' + diskFails' + (IF Done(v)' \/ cur' = v THEN 1 ELSE 0)
      <4>1. CASE v = u
        BY <2>1, <3>1, <3>3, <4>1
      <4>2. CASE v # u
        <5>1. runs[v] <= crashes + diskFails + (IF Done(v) THEN 1 ELSE 0)
          BY <2>1, <2>3 DEF RunsOK
        <5> QED
          BY <1>0, <2>1, <2>2, <3>1, <4>2, <5>1
      <4> QED
        BY <4>1, <4>2
    <3>5. ASSUME NEW b \in batch', b # cur', b > mem'.last_seen_uid
          PROVE  runs'[b] <= crashes' + diskFails'
      <4>1. b \in batch /\ b \in Uid /\ b # cur /\ b # u /\ b > mem.last_seen_uid
        BY <1>0, <2>1, <2>3, <3>5
      <4> QED
        BY <2>1, <3>1, <4>1 DEF RunsOK
    <3> QED
      BY <2>1, <3>4, <3>5 DEF RunsOK
  <2> QED
    BY <2>4, <2>5
<1>4. CASE Advance
  <2>1. pc = "advance" /\ cur \in Uid /\ About(mem) /\ UNCHANGED <<runs, crashes, uidvalidity>>
    BY <1>0, <1>4 DEF Advance, TypeOK, WorkTypeOK, SelectedOK, history, serverVars
  <2>2. CASE /\ disk' = Advanced(mem, cur) /\ diskFails' = diskFails
             /\ batch' = batch \ {cur} /\ cur' = None
    <3>1. disk'.uidvalidity = uidvalidity' /\ disk'.last_seen_uid >= cur
      BY <1>0, <2>1, <2>2, ConstantTypes DEF Advanced, TypeOK, StateFile, About, Uid
    <3>2. mem'.last_seen_uid = IF cur > mem.last_seen_uid THEN cur ELSE mem.last_seen_uid
      BY <1>0, <1>4 DEF Advance, Update, Advanced, TypeOK, StateFile
    <3>3. mem'.last_seen_uid >= mem.last_seen_uid
      BY <1>0, <2>1, <3>2, ConstantTypes DEF Uid
    <3> QED
      BY <1>4, <2>1, <2>2, <3>1, <3>3, RunsKept DEF MailboxRecreated, SessionPcs
  <2>3. CASE diskFails' = diskFails + 1 /\ batch' = {} /\ cur' = None
    BY <1>4, <2>1, <2>3, RunsKept DEF MailboxRecreated, SessionPcs
  <2> QED
    BY <1>4, <2>2, <2>3 DEF Advance, Update, SessionFails
<1>5. UNCHANGED uidvalidity => ~MailboxRecreated
  BY <1>0 DEF MailboxRecreated, Recreate, TypeOK, ServerTypeOK
<1>6. CASE Crash
  <2>1. /\ UNCHANGED <<uidvalidity, runs, diskFails>> /\ crashes' = crashes + 1
        /\ batch' = {} /\ cur' = None
    BY <1>6 DEF Crash, Dies, serverVars
  <2> QED
    BY <1>5, <2>1, RunsKept
<1>7. CASE Validate \/ Seed
  <2>1. cur = None /\ batch = {} /\ UNCHANGED <<uidvalidity, runs, crashes>>
    BY <1>0, <1>7 DEF Validate, Seed, serverVars, BatchInOrder
  <2>2. /\ diskFails' = diskFails \/ diskFails' = diskFails + 1
        /\ batch' = {} /\ cur' = None
    BY <1>7, <2>1 DEF Validate, Seed, Update, SessionFails, Dies, work
  <2> QED
    BY <1>5, <2>1, <2>2, RunsKept
<1>8. CASE Fetch
  <2>1. /\ pc = "fetch" /\ cur = None /\ cur' = None
        /\ UNCHANGED <<uidvalidity, mem, disk, runs, crashes, diskFails>>
    BY <1>0, <1>8 DEF Fetch, stores, budgets, history
  <2>2. \A u \in Uid : Done(u)' <=> Done(u)
    BY <2>1 DEF Done, About
  <2>3. ASSUME NEW b \in batch', b > mem.last_seen_uid
        PROVE  runs[b] <= crashes + diskFails
    <3>1. b \in Uid /\ ~Done(b)
      BY <1>8, <2>3, FetchedNotDone
    <3>2. b # cur
      BY <2>1, <3>1 DEF Uid
    <3> QED
      BY <1>0, <3>1, <3>2 DEF RunsOK
  <2>4. \A u \in Uid : runs'[u] <= crashes' + diskFails' + (IF Done(u)' \/ cur' = u THEN 1 ELSE 0)
    BY <2>1, <2>2 DEF RunsOK
  <2> QED
    BY <2>1, <2>3, <2>4 DEF RunsOK
<1>9. CASE CommandFails \/ IdleFails \/ ShutdownSeen
  <2>1. cur = None /\ UNCHANGED <<uidvalidity, runs, crashes, diskFails>>
    BY <1>0, <1>9 DEF CommandFails, IdleFails, ShutdownSeen, serverVars, history, budgets
  <2>2. batch' = {} /\ cur' = None
    BY <1>9 DEF CommandFails, IdleFails, ShutdownSeen, SessionFails, Dies
  <2> QED
    BY <1>1, <1>5, <2>1, <2>2
<1>10. ASSUME NEW u \in Uid, MessageFails(u)
       PROVE  RunsOK'
  <2>1. /\ cur = None /\ cur' = cur /\ batch' = {}
        /\ UNCHANGED <<uidvalidity, runs, crashes, diskFails>>
    BY <1>0, <1>10 DEF MessageFails
  <2> QED
    BY <1>1, <1>5, <2>1
<1>11. CASE MailboxRecreated
  <2>1. /\ \A u \in Uid : runs'[u] = 0
        /\ UNCHANGED <<pc, cur, batch, crashes, diskFails>>
    BY <1>11 DEF MailboxRecreated, work, budgets
  <2> QED
    BY <1>0, <2>1 DEF RunsOK
<1>12. CASE \/ Start \/ Relaunch \/ ConnectOk \/ ConnectFails \/ Resume \/ CheckCapabilities
            \/ Select \/ BatchDone \/ IdleExists \/ IdleTimeout
  <2>1. batch = {} /\ UNCHANGED <<uidvalidity, runs, crashes, diskFails, cur, batch>>
    BY <1>0, <1>12
    DEF Start, Relaunch, ConnectOk, ConnectFails, Resume, CheckCapabilities, Select, BatchDone,
        IdleExists, IdleTimeout, Wakes, Exited, serverVars, work, budgets, history, BatchInOrder
  <2> QED
    BY <1>5, <1>15, <2>1
<1>13. CASE Signal \/ Hang \/ MailArrives \/ UNCHANGED vars
  <2>1. UNCHANGED <<uidvalidity, runs, crashes, diskFails, cur, batch, mem>>
    BY <1>13
    DEF Signal, Hang, MailArrives, Deliver, vars, daemonVars, serverVars, work, stores, budgets, history
  <2> QED
    BY <1>2, <1>5, <2>1
<1>14. ASSUME NEW u \in Uid, FlagsChange(u) \/ OthersRemove(u)
       PROVE  RunsOK'
  <2>1. UNCHANGED <<uidvalidity, runs, crashes, diskFails, cur, batch, mem>>
    BY <1>14 DEF FlagsChange, Touch, OthersRemove, Withdraw, daemonVars, work, stores, budgets, history
  <2> QED
    BY <1>2, <1>5, <2>1
<1> QED
  BY <1>3, <1>4, <1>6, <1>7, <1>8, <1>9, <1>10, <1>11, <1>12, <1>13, <1>14
  DEF Next, Progress, Surroundings, Processing

\* processor.rs, "State update policy": above the cursor a script runs on a message
\* once, and once more for every crash and every failed write of the state file,
\* whatever the server answers to "start:*" and in which order, and whatever
\* connections are lost or mailboxes recreated.
THEOREM RepeatsArePaidFor == Spec => []ExecutionsBounded
<1>1. Init => TypedInv /\ BatchInOrder /\ RunsOK
  BY InitTypedInv, InitRunsOK DEF Init, BatchInOrder
<1>2. (TypedInv /\ BatchInOrder /\ RunsOK) /\ [Next]_vars
        => (TypedInv /\ BatchInOrder /\ RunsOK)'
  BY NextTypedInv, NextBatchInOrder, NextRunsOK
<1>3. TypedInv /\ RunsOK => ExecutionsBounded
  <2> SUFFICES ASSUME TypedInv, RunsOK, NEW u \in Uid
               PROVE  runs[u] <= 1 + crashes + diskFails
    BY DEF ExecutionsBounded
  <2>1. runs[u] \in Nat /\ crashes \in Nat /\ diskFails \in Nat
    BY ConstantTypes DEF TypedInv, TypeOK, HistoryTypeOK, BudgetTypeOK
  <2> QED
    BY <2>1 DEF RunsOK
<1> QED
  BY <1>1, <1>2, <1>3, PTL DEF Spec
=============================================================================
