---------------------------- MODULE DaemonProofs ----------------------------
(***************************************************************************)
(* Proofs about Daemon, for every value of the constants.                  *)
(*                                                                         *)
(* For any server: types, the agreement of memory, file and mailbox, and   *)
(* from it DurableCursorAdvances and StaleCursorNeverUsed.  For a server   *)
(* that answers in UID order: OnlyNewestRefetched.  For one that moreover  *)
(* keeps no mod-sequences: the inductive invariant IInv, NoSkip and the    *)
(* refinement of AtLeastOnce.  For one that keeps them: NoSkip, in the     *)
(* first session.                                                          *)
(***************************************************************************)
EXTENDS DaemonProps, TLAPS

USE DEF None

\* What the assumptions say of the bounds.
LEMMA ConstantTypes ==
  /\ MaxUid \in Nat /\ 1 <= MaxUid
  /\ MaxValidity \in Nat /\ 1 <= MaxValidity
  /\ MaxModseq \in Nat /\ 1 <= MaxModseq
  /\ BatchSize \in Nat /\ 1 <= BatchSize
  /\ MaxRuns \in Nat /\ 1 <= MaxRuns
  /\ MaxFaults \in Nat /\ MaxDiskFails \in Nat /\ MaxCrashes \in Nat /\ MaxSignals \in Nat
BY ServerConstants, DaemonConstants DEF ServerConstants, DaemonConstants

\* State::default() is a State.
LEMMA EmptyStateType == EmptyState \in StateFile
BY DEF EmptyState, StateFile

\* No SELECT yet.
LEMMA NoStatusType == NoStatus \in Status
BY DEF NoStatus, Status

\* A saturating count stays within its bound.
LEMMA CountBound ==
  ASSUME NEW k \in Nat, NEW n \in 0 .. k
  PROVE  Count(n, k) \in 0 .. k
BY DEF Count

\* Before the first start everything has its type.
LEMMA InitTypeOK == Init => TypeOK
<1> SUFFICES ASSUME Init PROVE TypeOK
  OBVIOUS
<1> USE ConstantTypes DEF Init
<1>1. ServerTypeOK
  <2>1. modseq \in [Uid -> 0 .. MaxModseq]
    BY DEF ServerInit
  <2>2. /\ uidvalidity \in 1 .. MaxValidity
        /\ uidnext \in 1 .. MaxUid + 1
        /\ highestmodseq \in 1 .. MaxModseq
    BY DEF ServerInit
  <2> QED
    BY <2>1, <2>2 DEF ServerInit, ServerTypeOK
<1>2. ControlTypeOK
  BY DEF ControlTypeOK, Pcs
<1>3. WorkTypeOK
  BY NoStatusType DEF WorkTypeOK
<1>4. BudgetTypeOK
  BY DEF BudgetTypeOK
<1>5. HistoryTypeOK
  BY DEF HistoryTypeOK
<1> QED
  BY <1>1, <1>2, <1>3, <1>4, <1>5, EmptyStateType DEF TypeOK

-----------------------------------------------------------------------------
\* The mailbox keeps its type, whoever changes it.
LEMMA NextServerTypeOK == ServerTypeOK /\ [Next]_vars => ServerTypeOK'
<1> SUFFICES ASSUME ServerTypeOK, [Next]_vars PROVE ServerTypeOK'
  OBVIOUS
<1> USE ConstantTypes
<1>1. CASE UNCHANGED serverVars
  BY <1>1 DEF serverVars, ServerTypeOK
<1>2. ASSUME NEW b \in BOOLEAN, push' = b,
             UNCHANGED <<uidvalidity, uidnext, inbox, modseq, highestmodseq>>
      PROVE  ServerTypeOK'
  BY <1>2 DEF ServerTypeOK
<1>3. ASSUME NEW u \in Uid, NEW b \in BOOLEAN, push' = b, inbox' \in {inbox, inbox \ {u}},
             UNCHANGED <<uidvalidity, uidnext, modseq, highestmodseq>>
      PROVE  ServerTypeOK'
  BY <1>3 DEF ServerTypeOK
<1>4. ASSUME NEW u \in Uid, Stamp(u)
      PROVE  modseq' \in [Uid -> 0 .. MaxModseq] /\ highestmodseq' \in 1 .. MaxModseq
  BY <1>4 DEF Stamp, ServerTypeOK
<1>5. CASE Deliver
  <2>1. uidnext \in Uid
    BY <1>5 DEF Deliver, ServerTypeOK, Uid
  <2>2. modseq' \in [Uid -> 0 .. MaxModseq] /\ highestmodseq' \in 1 .. MaxModseq
    BY <1>4, <1>5, <2>1 DEF Deliver
  <2> QED
    BY <1>5, <2>1, <2>2 DEF Deliver, ServerTypeOK, Uid
<1>6. ASSUME NEW u \in Uid, Touch(u) PROVE ServerTypeOK'
  <2>1. modseq' \in [Uid -> 0 .. MaxModseq] /\ highestmodseq' \in 1 .. MaxModseq
    BY <1>4, <1>6 DEF Touch
  <2> QED
    BY <1>6, <2>1 DEF Touch, ServerTypeOK
<1>7. CASE Recreate
  <2>1. modseq' \in [Uid -> 0 .. MaxModseq]
    BY <1>7 DEF Recreate
  <2>2. /\ uidvalidity' \in 1 .. MaxValidity
        /\ uidnext' \in 1 .. MaxUid + 1
        /\ highestmodseq' \in 1 .. MaxModseq
    BY <1>7 DEF Recreate, ServerTypeOK
  <2> QED
    BY <1>7, <2>1, <2>2 DEF Recreate, ServerTypeOK
<1>8. push \in BOOLEAN
  BY DEF ServerTypeOK
<1>9. CASE Next
  <2>1. CASE Start \/ ShutdownSeen \/ ConnectOk \/ ConnectFails \/ Resume
             \/ CheckCapabilities \/ Validate \/ Seed \/ CommandFails
             \/ Advance \/ BatchDone \/ IdleFails
    BY <1>1, <2>1 DEF Start, ShutdownSeen, ConnectOk, ConnectFails, Resume,
         CheckCapabilities, Validate, Seed, CommandFails, Advance, BatchDone, IdleFails
  <2>2. CASE Crash \/ Signal \/ Relaunch \/ Hang
    BY <1>1, <2>2 DEF Crash, Signal, Relaunch, Hang
  <2>3. CASE Select \/ Fetch \/ IdleExists \/ IdleTimeout
    BY <1>2, <1>8, <2>3 DEF Select, Fetch, IdleExists, IdleTimeout, Wakes
  <2>4. ASSUME NEW u \in Uid, Execute(u) \/ MessageFails(u) PROVE ServerTypeOK'
    BY <1>3, <1>8, <2>4 DEF Execute, MessageFails
  <2>5. CASE MailArrives
    BY <1>5, <2>5 DEF MailArrives
  <2>6. ASSUME NEW u \in Uid, FlagsChange(u) PROVE ServerTypeOK'
    BY <1>6, <2>6 DEF FlagsChange
  <2>7. ASSUME NEW u \in Uid, OthersRemove(u) PROVE ServerTypeOK'
    BY <1>3, <2>7 DEF OthersRemove, Withdraw
  <2>8. CASE MailboxRecreated
    BY <1>7, <2>8 DEF MailboxRecreated
  <2> QED
    BY <1>9, <2>1, <2>2, <2>3, <2>4, <2>5, <2>6, <2>7, <2>8
    DEF Next, Progress, Surroundings, Processing
<1>10. CASE UNCHANGED vars
  BY <1>1, <1>10 DEF vars
<1> QED
  BY <1>9, <1>10

-----------------------------------------------------------------------------

\* The control state keeps its type.
LEMMA NextControlTypeOK == ControlTypeOK /\ [Next]_vars => ControlTypeOK'
<1> SUFFICES ASSUME ControlTypeOK, [Next]_vars PROVE ControlTypeOK'
  OBVIOUS
<1> USE DEF ControlTypeOK, Pcs, Running, SessionPcs, Exited, linkVars
<1>1. CASE Start \/ ShutdownSeen \/ ConnectOk \/ ConnectFails \/ Resume \/ CheckCapabilities
  BY <1>1 DEF Start, ShutdownSeen, Dies, ConnectOk, ConnectFails, Resume, CheckCapabilities
<1>2. CASE Select \/ Validate \/ Seed \/ CommandFails
  BY <1>2 DEF Select, Validate, Dies, Seed, Update, CommandFails, SessionFails
<1>3. CASE Fetch \/ Advance \/ BatchDone \/ IdleExists \/ IdleTimeout \/ IdleFails
  BY <1>3 DEF Fetch, Advance, Update, BatchDone, IdleExists, IdleTimeout, Wakes,
              IdleFails, SessionFails
<1>4. ASSUME NEW u \in Uid, Execute(u) \/ MessageFails(u) PROVE ControlTypeOK'
  BY <1>4 DEF Execute, MessageFails
<1>5. CASE Crash \/ Signal \/ Relaunch \/ Hang
  BY <1>5 DEF Crash, Dies, Signal, Relaunch, Hang
<1>6. CASE MailArrives \/ MailboxRecreated \/ UNCHANGED vars
  BY <1>6 DEF MailArrives, MailboxRecreated, vars, daemonVars
<1>7. ASSUME NEW u \in Uid, FlagsChange(u) \/ OthersRemove(u) PROVE ControlTypeOK'
  BY <1>7 DEF FlagsChange, OthersRemove, daemonVars
<1> QED
  BY <1>1, <1>2, <1>3, <1>4, <1>5, <1>6, <1>7
  DEF Next, Progress, Surroundings, Processing

\* Each bound is spent in steps of one.
Spent(n, bound) == n' = n \/ (n < bound /\ n' = n + 1)

\* Nothing happens more often than its bound allows.
LEMMA NextBudgetTypeOK == BudgetTypeOK /\ [Next]_vars => BudgetTypeOK'
<1> DEFINE Goal == /\ Spent(faults, MaxFaults) /\ Spent(diskFails, MaxDiskFails)
                   /\ Spent(crashes, MaxCrashes) /\ Spent(signals, MaxSignals)
<1> SUFFICES ASSUME [Next]_vars PROVE Goal
  BY ConstantTypes DEF BudgetTypeOK, Spent
<1> USE DEF budgets, Fault, FaultOrLost, Spent
<1>1. CASE Start \/ ShutdownSeen \/ ConnectOk \/ ConnectFails \/ Resume \/ CheckCapabilities
  BY <1>1 DEF Start, ShutdownSeen, ConnectOk, ConnectFails, Resume, CheckCapabilities
<1>2. CASE Select \/ CommandFails \/ Fetch \/ BatchDone \/ IdleExists \/ IdleTimeout \/ IdleFails
  BY <1>2 DEF Select, CommandFails, Fetch, BatchDone, IdleExists, IdleTimeout, Wakes, IdleFails
<1>3. CASE Validate \/ Seed \/ Advance
  BY <1>3 DEF Validate, Seed, Advance, Update
<1>4. ASSUME NEW u \in Uid, Execute(u) \/ MessageFails(u) PROVE Goal
  BY <1>4 DEF Execute, MessageFails
<1>5. CASE Crash \/ Signal \/ Relaunch \/ Hang
  BY <1>5 DEF Crash, Signal, Relaunch, Hang
<1>6. CASE MailArrives \/ MailboxRecreated \/ UNCHANGED vars
  BY <1>6 DEF MailArrives, MailboxRecreated, vars, daemonVars
<1>7. ASSUME NEW u \in Uid, FlagsChange(u) \/ OthersRemove(u) PROVE Goal
  BY <1>7 DEF FlagsChange, OthersRemove, daemonVars
<1> QED
  BY <1>1, <1>2, <1>3, <1>4, <1>5, <1>6, <1>7
  DEF Next, Progress, Surroundings, Processing

-----------------------------------------------------------------------------
\* Recording what SELECT reported yields a State.
LEMMA RecordedType ==
  ASSUME NEW s \in StateFile, NEW status \in Status
  PROVE  Recorded(s, status) \in StateFile
<1>1. status.uidvalidity \in {None} \cup 0 .. MaxValidity
  BY ConstantTypes DEF Status
<1>2. status.highestmodseq \in {None} \cup 0 .. MaxModseq
  BY ConstantTypes DEF Status
<1> QED
  BY <1>1, <1>2 DEF Recorded, StateFile

\* Advancing the cursor yields a State.
LEMMA AdvancedType ==
  ASSUME NEW s \in StateFile, NEW u \in Uid
  PROVE  Advanced(s, u) \in StateFile
BY ConstantTypes DEF Advanced, StateFile, Uid

\* Memory and file always hold a State: the seed and the UIDs recorded are in
\* range.
LEMMA NextStoresType ==
  ASSUME TypeOK, SelectedOK, [Next]_vars
  PROVE  mem' \in StateFile /\ disk' \in StateFile
<1> DEFINE Goal == mem' \in StateFile /\ disk' \in StateFile
<1>1. mem \in StateFile /\ disk \in StateFile /\ EmptyState \in StateFile
  BY EmptyStateType DEF TypeOK
<1>2. sel \in Status /\ cur \in Uid \cup {None}
  BY DEF TypeOK, WorkTypeOK
<1> batch \subseteq Uid /\ (pc = "advance" => cur \in batch)
  BY DEF TypeOK, WorkTypeOK
<1>3. CASE UNCHANGED stores
  BY <1>1, <1>3 DEF stores
<1>4. CASE Start \/ Crash \/ Relaunch
  BY <1>1, <1>4 DEF Start, Crash, Relaunch
<1>5. CASE Validate
  BY <1>1, <1>2, <1>3, <1>5, RecordedType DEF Validate, Update
<1>6. CASE Seed
  <2>1. CASE mem.last_seen_uid # None
    BY <1>3, <1>6, <2>1 DEF Seed
  <2>2. CASE mem.last_seen_uid = None
    <3>1. sel.uidnext \in 0 .. MaxUid + 1
      BY <1>6, ConstantTypes DEF Seed, SelectedOK, TypeOK, ServerTypeOK
    <3>2. SeedOf(sel) \in 0 .. MaxUid
      BY <3>1, ConstantTypes DEF SeedOf
    <3>3. [mem EXCEPT !.last_seen_uid = SeedOf(sel)] \in StateFile
      BY <1>1, <3>2 DEF StateFile
    <3> QED
      BY <1>1, <1>6, <2>2, <3>3 DEF Seed, Update
  <2> QED
    BY <2>1, <2>2
<1>7. CASE Advance
  <2>1. cur \in Uid
    BY <1>2, <1>7 DEF Advance
  <2> QED
    BY <1>1, <1>7, <2>1, AdvancedType DEF Advance, Update
<1>8. ASSUME NEW u \in Uid, Execute(u) \/ MessageFails(u) \/ FlagsChange(u) \/ OthersRemove(u)
      PROVE  UNCHANGED stores
  BY <1>8 DEF Execute, MessageFails, FlagsChange, OthersRemove, daemonVars, stores
<1>9. CASE \/ ShutdownSeen \/ ConnectOk \/ ConnectFails \/ Resume \/ CheckCapabilities
           \/ Select \/ CommandFails \/ Fetch \/ BatchDone
           \/ IdleExists \/ IdleTimeout \/ IdleFails \/ Signal \/ Hang
           \/ MailArrives \/ MailboxRecreated \/ UNCHANGED vars
  <2>1. UNCHANGED stores
    BY <1>9 DEF ShutdownSeen, ConnectOk, ConnectFails, Resume, CheckCapabilities,
         Select, CommandFails, Fetch, BatchDone, IdleExists, IdleTimeout, Wakes,
         IdleFails, Signal, Hang, MailArrives, MailboxRecreated, vars, daemonVars, stores
  <2> QED
    BY <1>3, <2>1
<1> QED
  BY <1>3, <1>4, <1>5, <1>6, <1>7, <1>8, <1>9
  DEF Next, Progress, Surroundings, Processing

\* What SELECT answers is a MailboxStatus.
LEMMA SelectedType == TypeOK => [uidvalidity   |-> uidvalidity,
             uidnext       |-> IF UidnextGiven THEN uidnext ELSE 0,
             highestmodseq |-> IF HasCondstore THEN highestmodseq ELSE None] \in Status
<1> SUFFICES ASSUME TypeOK
             PROVE  /\ uidvalidity \in {None} \cup 1 .. MaxValidity
                    /\ (IF UidnextGiven THEN uidnext ELSE 0) \in {None} \cup 0 .. MaxUid + 1
                    /\ (IF HasCondstore THEN highestmodseq ELSE None)
                          \in {None} \cup 1 .. MaxModseq
  BY DEF Status
<1> QED
  BY ConstantTypes DEF TypeOK, ServerTypeOK

\* The batch and the message in hand keep their types.
LEMMA NextWorkTypeOK == TypeOK /\ [Next]_vars => WorkTypeOK'
<1> SUFFICES ASSUME TypeOK, [Next]_vars PROVE WorkTypeOK'
  OBVIOUS
<1> USE DEF WorkTypeOK
<1>1. WorkTypeOK /\ inbox \subseteq Uid
  BY DEF TypeOK, ServerTypeOK
<1>2. CASE UNCHANGED work /\ (pc' = pc \/ pc' # "advance")
  BY <1>1, <1>2 DEF work
<1>3. CASE sel' = NoStatus /\ batch' = {} /\ cur' = None /\ pc' # "advance"
  BY <1>3, NoStatusType
<1>4. CASE ShutdownSeen \/ Crash \/ CommandFails \/ IdleFails
  BY <1>3, <1>4 DEF ShutdownSeen, Crash, Dies, CommandFails, IdleFails, SessionFails
<1>5. CASE Select
  BY <1>1, <1>5, SelectedType DEF Select
<1>6. CASE Validate
  BY <1>2, <1>3, <1>6 DEF Validate, Dies, Update, SessionFails
<1>7. CASE Seed
  BY <1>1, <1>3, <1>7, NoStatusType DEF Seed, Update, SessionFails
<1>8. CASE Fetch
  BY <1>1, <1>8 DEF Fetch, Truncations, Matches
<1>9. CASE Advance
  BY <1>1, <1>3, <1>9 DEF Advance, Update, SessionFails
<1>10. ASSUME NEW u \in Uid, Execute(u) \/ MessageFails(u) PROVE WorkTypeOK'
  BY <1>1, <1>10 DEF Execute, MessageFails, IsNext
<1>11. ASSUME NEW u \in Uid, FlagsChange(u) \/ OthersRemove(u) PROVE WorkTypeOK'
  BY <1>2, <1>11 DEF FlagsChange, OthersRemove, daemonVars, work
<1>12. CASE \/ Start \/ ConnectOk \/ ConnectFails \/ Resume \/ CheckCapabilities
            \/ BatchDone \/ IdleExists \/ IdleTimeout \/ Signal \/ Relaunch \/ Hang
            \/ MailArrives \/ MailboxRecreated \/ UNCHANGED vars
  <2>1. UNCHANGED work /\ (pc' = pc \/ pc' # "advance")
    BY <1>12 DEF Start, ConnectOk, ConnectFails, Resume, CheckCapabilities, BatchDone,
         IdleExists, IdleTimeout, Wakes, Signal, Relaunch, Hang, MailArrives,
         MailboxRecreated, vars, daemonVars, work
  <2> QED
    BY <1>2, <2>1
<1> QED
  BY <1>4, <1>5, <1>6, <1>7, <1>8, <1>9, <1>10, <1>11, <1>12
  DEF Next, Progress, Surroundings, Processing

\* The history variables keep their types.
LEMMA NextHistoryTypeOK == TypeOK /\ SelectedOK /\ [Next]_vars => HistoryTypeOK'
<1> SUFFICES ASSUME TypeOK, SelectedOK, [Next]_vars PROVE HistoryTypeOK'
  OBVIOUS
<1>1. HistoryTypeOK
  BY DEF TypeOK
<1>2. CASE UNCHANGED history
  BY <1>1, <1>2 DEF HistoryTypeOK, history
<1>3. ASSUME UNCHANGED <<anchor, runs, redone, gone, torn>>, late' = 0 \/ late' = late
      PROVE  HistoryTypeOK'
  BY <1>1, <1>3, ConstantTypes DEF HistoryTypeOK
<1>4. CASE ShutdownSeen \/ Crash \/ Validate
  BY <1>3, <1>4 DEF ShutdownSeen, Crash, Validate, Dies
<1>5. CASE Seed
  <2>1. CASE mem.last_seen_uid # None
    BY <1>2, <1>5, <2>1 DEF Seed, history
  <2>2. CASE mem.last_seen_uid = None
    <3>1. sel.uidnext \in 0 .. MaxUid + 1
      BY <1>5, ConstantTypes DEF Seed, SelectedOK, TypeOK, ServerTypeOK
    <3>2. anchor' \in 0 .. MaxUid
      BY <1>5, <2>2, <3>1, ConstantTypes DEF Seed
    <3> QED
      BY <1>1, <1>5, <3>2 DEF Seed, HistoryTypeOK
  <2> QED
    BY <2>1, <2>2
<1>6. ASSUME NEW u \in Uid, Execute(u) PROVE HistoryTypeOK'
  <2>1. runs' \in [Uid -> 0 .. MaxRuns] /\ redone' \subseteq Uid
    <3>1. runs \in [Uid -> 0 .. MaxRuns] /\ redone \subseteq Uid
      BY <1>1 DEF HistoryTypeOK
    <3>2. Count(runs[u], MaxRuns) \in 0 .. MaxRuns
      BY <3>1, ConstantTypes, CountBound
    <3>3. CASE u > mem.last_seen_uid
      BY <1>6, <3>1, <3>2, <3>3 DEF Execute
    <3>4. CASE ~(u > mem.last_seen_uid)
      BY <1>6, <3>1, <3>4 DEF Execute
    <3> QED
      BY <3>3, <3>4
  <2>2. late' \in 0 .. BatchSize + 1
    BY <1>1, <1>6, ConstantTypes, CountBound DEF Execute, HistoryTypeOK
  <2> QED
    BY <1>1, <1>6, <2>1, <2>2 DEF Execute, HistoryTypeOK
<1>7. ASSUME NEW u \in Uid, MessageFails(u) PROVE HistoryTypeOK'
  BY <1>1, <1>7 DEF MessageFails, HistoryTypeOK
<1>8. ASSUME NEW u \in Uid, OthersRemove(u) PROVE HistoryTypeOK'
  BY <1>1, <1>8 DEF OthersRemove, HistoryTypeOK
<1>9. CASE MailboxRecreated
  <2>1. runs' \in [Uid -> 0 .. MaxRuns]
    BY <1>9, ConstantTypes DEF MailboxRecreated
  <2> QED
    BY <1>1, <1>9, <2>1 DEF MailboxRecreated, HistoryTypeOK
<1>10. ASSUME NEW u \in Uid, FlagsChange(u) PROVE UNCHANGED history
  BY <1>10 DEF FlagsChange, daemonVars
<1>11. CASE \/ Start \/ ConnectOk \/ ConnectFails \/ Resume \/ CheckCapabilities
            \/ Select \/ CommandFails \/ Fetch \/ Advance \/ BatchDone
            \/ IdleExists \/ IdleTimeout \/ IdleFails \/ Signal \/ Relaunch \/ Hang
            \/ MailArrives \/ UNCHANGED vars
  <2>1. UNCHANGED history
    BY <1>11 DEF Start, ConnectOk, ConnectFails, Resume, CheckCapabilities, Select,
         CommandFails, Fetch, Advance, BatchDone, IdleExists, IdleTimeout, Wakes,
         IdleFails, Signal, Relaunch, Hang, MailArrives, vars, daemonVars
  <2> QED
    BY <1>2, <2>1
<1> QED
  BY <1>2, <1>4, <1>5, <1>6, <1>7, <1>8, <1>9, <1>10, <1>11
  DEF Next, Progress, Surroundings, Processing

\* Types are preserved once the status of SELECT is known to be current.
LEMMA NextTypeOK == TypeOK /\ SelectedOK /\ [Next]_vars => TypeOK'
BY NextServerTypeOK, NextControlTypeOK, NextStoresType, NextWorkTypeOK,
   NextBudgetTypeOK, NextHistoryTypeOK DEF TypeOK

-----------------------------------------------------------------------------
(* The cursors: what SelectedOK and StoresOK say of memory, file and       *)
(* mailbox needs no assumption on the server.                              *)

TypedInv == TypeOK /\ SelectedOK /\ StoresOK

\* Before the first start there is neither cursor nor file.
LEMMA InitTypedInv == Init => TypedInv
<1> SUFFICES ASSUME Init PROVE TypedInv
  OBVIOUS
<1> USE DEF Init, ServerInit
<1>1. SelectedOK
  BY DEF SelectedOK
<1>2. StoresOK
  BY DEF StoresOK, EmptyState
<1> QED
  BY <1>1, <1>2, InitTypeOK DEF TypedInv

\* A status is used only while it is current, and a session past the seed has a
\* cursor about the mailbox as it is.
LEMMA NextSelectedOK ==
  ASSUME TypedInv, [Next]_vars
  PROVE  SelectedOK'
<1> USE ConstantTypes
<1>1. /\ mem \in StateFile /\ disk \in StateFile
      /\ uidvalidity \in 1 .. MaxValidity /\ uidnext \in 1 .. MaxUid + 1
      /\ SelectedOK /\ StoresOK
  BY DEF TypedInv, TypeOK, ServerTypeOK
<1>2. /\ mem.uidvalidity \in {None} \cup 0 .. MaxValidity
      /\ mem.uidvalidity <= uidvalidity
  BY <1>1 DEF StateFile, StoresOK
<1>3. CASE UNCHANGED <<pc, mem, sel, uidvalidity>> /\ uidnext' \in {uidnext, uidnext + 1}
  BY <1>1, <1>3 DEF SelectedOK, About
<1>4. CASE pc' \in {"down", "connecting", "pausing", "capabilities", "select", "exit_ok"}
  BY <1>4 DEF SelectedOK
<1>5. CASE Start \/ ShutdownSeen \/ ConnectOk \/ ConnectFails \/ Resume \/ CheckCapabilities
           \/ CommandFails \/ IdleFails \/ Crash \/ Relaunch
  BY <1>4, <1>5 DEF Start, ShutdownSeen, Dies, ConnectOk, ConnectFails, Resume,
       CheckCapabilities, CommandFails, IdleFails, SessionFails, Crash, Relaunch
<1>6. CASE Select
  BY <1>1, <1>6 DEF Select, SelectedOK
<1>7. CASE Validate
  <2>1. sel.uidvalidity = uidvalidity /\ sel.uidnext \in 0 .. uidnext
    BY <1>1, <1>7 DEF Validate, SelectedOK
  <2>2. CASE Outdated(mem, sel)
    BY <1>7, <2>1, <2>2 DEF Validate, Dies, Outdated, SelectedOK, About, stores, serverVars
  <2>3. CASE ~Outdated(mem, sel)
    <3>1. CASE pc' = "pausing"
      BY <1>4, <3>1
    <3>2. CASE pc' = "seed" /\ UNCHANGED work /\ mem' = Recorded(mem, sel)
      <4>1. mem'.uidvalidity = sel.uidvalidity
        BY <1>1, <3>2 DEF Recorded, StateFile
      <4> QED
        BY <1>7, <2>1, <3>2, <4>1 DEF Validate, SelectedOK, About, work, serverVars
    <3> QED
      BY <1>7, <2>3, <3>1, <3>2 DEF Validate, Update, SessionFails
  <2> QED
    BY <2>2, <2>3
<1>8. CASE Seed
  <2>1. About(mem) /\ sel.uidnext \in 0 .. uidnext /\ UNCHANGED uidvalidity
    BY <1>1, <1>8 DEF Seed, SelectedOK, serverVars
  <2>2. CASE mem.last_seen_uid # None
    BY <1>8, <2>1, <2>2 DEF Seed, SelectedOK, About, stores
  <2>3. CASE mem.last_seen_uid = None
    <3>1. SeedOf(sel) # None
      BY <1>1, <2>1 DEF SeedOf
    <3>2. CASE pc' = "pausing"
      BY <1>4, <3>2
    <3>3. CASE pc' = "fetch" /\ mem' = [mem EXCEPT !.last_seen_uid = SeedOf(sel)]
      BY <1>1, <2>1, <3>1, <3>3 DEF SelectedOK, About, StateFile
    <3> QED
      BY <1>8, <2>3, <3>2, <3>3 DEF Seed, Update, SessionFails
  <2> QED
    BY <2>2, <2>3
<1>9. ASSUME UNCHANGED <<mem, uidvalidity>>,
             pc \in {"fetch", "batch", "advance", "idle"},
             pc' \in {"fetch", "batch", "advance", "idle"}
      PROVE  SelectedOK'
  BY <1>1, <1>9 DEF SelectedOK, About
<1>10. CASE Fetch \/ BatchDone \/ IdleExists \/ IdleTimeout
  BY <1>9, <1>10 DEF Fetch, BatchDone, IdleExists, IdleTimeout, Wakes, serverVars, stores
<1>11. ASSUME NEW u \in Uid, Execute(u) \/ MessageFails(u) PROVE SelectedOK'
  BY <1>9, <1>11 DEF Execute, MessageFails, stores
<1>12. CASE Advance
  <2>1. About(mem) /\ mem.last_seen_uid # None /\ UNCHANGED uidvalidity
    BY <1>1, <1>12 DEF Advance, SelectedOK, serverVars
  <2>2. cur # None
    BY <1>12 DEF Advance, TypedInv, TypeOK, WorkTypeOK, Uid
  <2>3. CASE pc' = "pausing"
    BY <1>4, <2>3
  <2>4. CASE pc' = "batch" /\ mem' = Advanced(mem, cur)
    <3>1. mem'.uidvalidity = mem.uidvalidity /\ mem'.last_seen_uid \in {cur, mem.last_seen_uid}
      BY <1>1, <2>4 DEF Advanced, StateFile
    <3> QED
      BY <2>1, <2>2, <2>4, <3>1 DEF SelectedOK, About
  <2> QED
    BY <1>12, <2>3, <2>4 DEF Advance, Update, SessionFails
<1>13. CASE Signal \/ Hang \/ MailArrives \/ UNCHANGED vars
  BY <1>3, <1>13 DEF Signal, Hang, MailArrives, Deliver, vars, daemonVars, stores, work, serverVars
<1>14. ASSUME NEW u \in Uid, FlagsChange(u) \/ OthersRemove(u) PROVE SelectedOK'
  BY <1>3, <1>14 DEF FlagsChange, Touch, OthersRemove, Withdraw, daemonVars, stores, work
<1>15. CASE MailboxRecreated
  <2>1. pc \in {"capabilities", "select"} \/ pc \notin SessionPcs
    BY <1>15 DEF MailboxRecreated
  <2>2. mem' = mem /\ pc' = pc /\ uidvalidity' = uidvalidity + 1
    BY <1>15 DEF MailboxRecreated, Recreate, stores
  <2> QED
    BY <1>1, <1>2, <2>1, <2>2 DEF SelectedOK, About, SessionPcs
<1> QED
  BY <1>5, <1>6, <1>7, <1>8, <1>10, <1>11, <1>12, <1>13, <1>14, <1>15
  DEF Next, Progress, Surroundings, Processing

\* What an update does to the two cursors when the file is written or not.
LEMMA UpdateStores ==
  ASSUME NEW s, NEW rest, Update(s, rest)
  PROVE  mem' = s /\ (disk' = s \/ disk' = disk)
BY DEF Update

\* The file is never ahead of memory, nor about another mailbox.
LEMMA NextStoresOK ==
  ASSUME TypedInv, [Next]_vars
  PROVE  StoresOK'
<1> USE ConstantTypes
<1>1. /\ mem \in StateFile /\ disk \in StateFile
      /\ uidvalidity \in 1 .. MaxValidity
      /\ SelectedOK /\ StoresOK
  BY DEF TypedInv, TypeOK, ServerTypeOK
<1>2. /\ mem.uidvalidity \in {None} \cup 0 .. MaxValidity
      /\ disk.uidvalidity \in {None} \cup 0 .. MaxValidity
      /\ mem.last_seen_uid \in {None} \cup 0 .. MaxUid
      /\ disk.last_seen_uid \in {None} \cup 0 .. MaxUid
  BY <1>1 DEF StateFile
<1>3. CASE UNCHANGED stores /\ uidvalidity' \in {uidvalidity, uidvalidity + 1}
           /\ (pc = "down" \/ pc' # "down") /\ (pc' = "down" \/ pc # "down")
  BY <1>1, <1>2, <1>3 DEF StoresOK, stores
<1>4. EmptyState.uidvalidity = None /\ EmptyState.last_seen_uid = None
  BY DEF EmptyState
<1>5. CASE Start
  BY <1>1, <1>2, <1>5 DEF Start, StoresOK, serverVars
<1>6. CASE Crash \/ Relaunch
  <2>1. pc' = "down" /\ mem' = EmptyState /\ disk' \in {disk, EmptyState} /\ UNCHANGED uidvalidity
    BY <1>6 DEF Crash, Dies, Relaunch, serverVars
  <2> QED
    BY <1>1, <1>2, <1>4, <2>1 DEF StoresOK
<1>7. ASSUME pc # "down", pc' # "down", UNCHANGED uidvalidity,
             disk' = mem' \/ disk' = disk,
             mem'.uidvalidity = uidvalidity,
             mem'.last_seen_uid >= mem.last_seen_uid,
             mem.uidvalidity \in {None, uidvalidity},
             mem'.last_seen_uid \in {None} \cup 0 .. MaxUid
      PROVE  StoresOK'
  BY <1>1, <1>2, <1>7 DEF StoresOK
<1>8. CASE Validate
  <2>1. sel.uidvalidity = uidvalidity /\ pc = "validate" /\ UNCHANGED uidvalidity
    BY <1>1, <1>8 DEF Validate, SelectedOK, serverVars
  <2>2. CASE Outdated(mem, sel)
    BY <1>3, <1>8, <2>1, <2>2 DEF Validate, Dies
  <2>3. CASE ~Outdated(mem, sel)
    <3>1. pc' # "down" /\ mem' = Recorded(mem, sel) /\ (disk' = mem' \/ disk' = disk)
      BY <1>8, <2>3 DEF Validate, Update, SessionFails
    <3>2. mem'.uidvalidity = sel.uidvalidity /\ mem'.last_seen_uid = mem.last_seen_uid
      BY <1>1, <3>1 DEF Recorded, StateFile
    <3>3. mem.uidvalidity \in {None, uidvalidity}
      BY <2>1, <2>3 DEF Outdated
    <3> QED
      BY <1>2, <1>7, <2>1, <3>1, <3>2, <3>3
  <2> QED
    BY <2>2, <2>3
<1>9. CASE Seed
  <2>1. mem.uidvalidity = uidvalidity /\ pc = "seed" /\ UNCHANGED uidvalidity
        /\ sel.uidnext \in Int
    BY <1>1, <1>9 DEF Seed, SelectedOK, About, serverVars, TypedInv, TypeOK, ServerTypeOK
  <2>2. CASE mem.last_seen_uid # None
    BY <1>3, <1>9, <2>1, <2>2 DEF Seed
  <2>3. CASE mem.last_seen_uid = None
    <3>1. pc' # "down" /\ (disk' = mem' \/ disk' = disk)
          /\ mem' = [mem EXCEPT !.last_seen_uid = SeedOf(sel)]
      BY <1>9, <2>3 DEF Seed, Update, SessionFails
    <3>2. mem'.uidvalidity = mem.uidvalidity
      BY <1>1, <3>1 DEF StateFile
    <3>3. mem' \in StateFile
      BY NextStoresType DEF TypedInv
    <3>4. mem'.last_seen_uid \in {None} \cup 0 .. MaxUid
      BY <3>3 DEF StateFile
    <3> QED
      BY <1>2, <1>7, <2>1, <2>3, <3>1, <3>2, <3>4
  <2> QED
    BY <2>2, <2>3
<1>10. CASE Advance
  <2>1. mem.uidvalidity = uidvalidity /\ pc = "advance" /\ UNCHANGED uidvalidity
    BY <1>1, <1>10 DEF Advance, SelectedOK, About, serverVars
  <2>2. cur \in Uid
    BY <1>10 DEF Advance, TypedInv, TypeOK, WorkTypeOK
  <2>3. pc' # "down" /\ mem' = Advanced(mem, cur) /\ (disk' = mem' \/ disk' = disk)
    BY <1>10 DEF Advance, Update, SessionFails
  <2>4. /\ mem'.uidvalidity = mem.uidvalidity
        /\ mem'.last_seen_uid = IF cur > mem.last_seen_uid THEN cur ELSE mem.last_seen_uid
    BY <1>1, <2>3 DEF Advanced, StateFile
  <2> QED
    BY <1>2, <1>7, <2>1, <2>2, <2>3, <2>4 DEF Uid
<1>11. ASSUME NEW u \in Uid, Execute(u) \/ MessageFails(u) \/ FlagsChange(u) \/ OthersRemove(u)
      PROVE  StoresOK'
  BY <1>3, <1>11 DEF Execute, MessageFails, FlagsChange, Touch, OthersRemove, Withdraw, daemonVars
<1>12. CASE \/ ShutdownSeen \/ ConnectOk \/ ConnectFails \/ Resume \/ CheckCapabilities
            \/ Select \/ CommandFails \/ Fetch \/ BatchDone
  BY <1>3, <1>12 DEF ShutdownSeen, Dies, ConnectOk, ConnectFails, Resume, CheckCapabilities,
       Select, CommandFails, SessionFails, Fetch, BatchDone, serverVars
<1>13. CASE \/ IdleExists \/ IdleTimeout \/ IdleFails \/ Signal \/ Hang
            \/ MailArrives \/ MailboxRecreated \/ UNCHANGED vars
  BY <1>3, <1>13 DEF IdleExists, IdleTimeout, Wakes, IdleFails, SessionFails, Signal, Hang,
       MailArrives, Deliver, MailboxRecreated, Recreate, vars, daemonVars, serverVars
<1> QED
  BY <1>5, <1>6, <1>8, <1>9, <1>10, <1>11, <1>12, <1>13
  DEF Next, Progress, Surroundings, Processing

\* The part of the invariant that needs no assumption on the server.
LEMMA NextTypedInv == TypedInv /\ [Next]_vars => TypedInv'
BY NextTypeOK, NextSelectedOK, NextStoresOK DEF TypedInv

\* Types, the use of SELECT's status and the agreement of memory, file and
\* mailbox hold in every state, for any server.
THEOREM TypedInvHolds == Spec => []TypedInv
<1>1. Init => TypedInv
  BY InitTypedInv
<1>2. TypedInv /\ [Next]_vars => TypedInv'
  BY NextTypedInv
<1> QED
  BY <1>1, <1>2, PTL DEF Spec

\* Every variable keeps its type, for any server: the cursor read from the file
\* and the one in memory are always UIDs in range or not there.
THEOREM TypeCorrect == Spec => []TypeOK
<1>1. TypedInv => TypeOK
  BY DEF TypedInv
<1> QED
  BY <1>1, TypedInvHolds, PTL

-----------------------------------------------------------------------------
(* The durable cursor. Only Validate, Seed and Advance write the file, and *)
(* only Relaunch deletes it.                                               *)

\* Steps that leave the file as it is.
LEMMA FileKept ==
  ASSUME [Next]_vars
  PROVE  disk' = disk \/ Validate \/ Seed \/ Advance \/ Relaunch
<1> USE DEF stores
<1>1. CASE \/ Start \/ ShutdownSeen \/ ConnectOk \/ ConnectFails \/ Resume \/ CheckCapabilities
           \/ Select \/ CommandFails \/ Fetch \/ BatchDone
  BY <1>1 DEF Start, ShutdownSeen, ConnectOk, ConnectFails, Resume, CheckCapabilities,
       Select, CommandFails, Fetch, BatchDone
<1>2. CASE \/ IdleExists \/ IdleTimeout \/ IdleFails \/ Crash \/ Signal \/ Hang
           \/ MailArrives \/ MailboxRecreated \/ UNCHANGED vars
  BY <1>2 DEF IdleExists, IdleTimeout, Wakes, IdleFails, Crash, Signal, Hang, MailArrives,
       MailboxRecreated, vars, daemonVars
<1>3. ASSUME NEW u \in Uid, Execute(u) \/ MessageFails(u) \/ FlagsChange(u) \/ OthersRemove(u)
      PROVE  disk' = disk
  BY <1>3 DEF Execute, MessageFails, FlagsChange, OthersRemove, daemonVars
<1> QED
  BY <1>1, <1>2, <1>3 DEF Next, Progress, Surroundings, Processing

\* One step never takes the durable cursor back.
LEMMA StepAdvancesCursor ==
  ASSUME TypedInv, [Next]_vars, About(disk), disk.last_seen_uid # None
  PROVE  disk'.last_seen_uid >= disk.last_seen_uid
<1> USE ConstantTypes
<1>1. /\ mem \in StateFile /\ disk \in StateFile
      /\ uidvalidity \in 1 .. MaxValidity
      /\ SelectedOK /\ StoresOK
  BY DEF TypedInv, TypeOK, ServerTypeOK
<1>2. /\ mem.last_seen_uid \in {None} \cup 0 .. MaxUid
      /\ disk.last_seen_uid \in {None} \cup 0 .. MaxUid
  BY <1>1 DEF StateFile
<1>3. CASE disk' = disk
  BY <1>2, <1>3
<1>4. ASSUME pc # "down" PROVE disk.last_seen_uid <= mem.last_seen_uid
  BY <1>1, <1>4 DEF StoresOK
<1>5. CASE Validate
  <2>1. disk' = disk \/ disk' = Recorded(mem, sel)
    BY <1>5 DEF Validate, Update, stores
  <2>2. Recorded(mem, sel).last_seen_uid = mem.last_seen_uid
    BY <1>1 DEF Recorded, StateFile
  <2> QED
    BY <1>2, <1>3, <1>4, <1>5, <2>1, <2>2 DEF Validate
<1>6. CASE Seed
  BY <1>2, <1>3, <1>4, <1>6 DEF Seed, stores
<1>7. CASE Advance
  <2>1. cur \in Uid
    BY <1>7 DEF Advance, TypedInv, TypeOK, WorkTypeOK
  <2>2. disk' = disk \/ disk' = Advanced(mem, cur)
    BY <1>7 DEF Advance, Update
  <2>3. Advanced(mem, cur).last_seen_uid >= mem.last_seen_uid
    BY <1>1, <1>2, <2>1 DEF Advanced, StateFile, Uid
  <2>4. Advanced(mem, cur).last_seen_uid \in Int
    BY <1>1, <1>2, <2>1 DEF Advanced, StateFile, Uid
  <2> QED
    BY <1>2, <1>3, <1>4, <1>7, <2>2, <2>3, <2>4 DEF Advance
<1>8. CASE Relaunch
  BY <1>1, <1>3, <1>8 DEF Relaunch, SelectedOK, StoresOK, About
<1> QED
  BY <1>3, <1>5, <1>6, <1>7, <1>8, FileKept

\* The durable cursor never goes back and is never forgotten, whatever fails or
\* crashes, and whatever the server answers.
THEOREM CursorAdvances == Spec => DurableCursorAdvances
<1>1. TypedInv /\ [Next]_vars =>
        (About(disk) /\ disk.last_seen_uid # None =>
           disk'.last_seen_uid >= disk.last_seen_uid)
  BY StepAdvancesCursor
<1> QED
  BY <1>1, TypedInvHolds, PTL DEF Spec, DurableCursorAdvances

\* One step neither executes anything nor writes the file while the file is
\* about another incarnation.
LEMMA StepLeavesStale ==
  ASSUME TypedInv, [Next]_vars,
         disk.uidvalidity # None, ~About(disk)
  PROVE  /\ \A u \in Uid : runs'[u] <= runs[u]
         /\ redone' \subseteq redone
         /\ disk' \in {disk, EmptyState}
<1> USE ConstantTypes
<1>1. SelectedOK /\ StoresOK
  BY DEF TypedInv
<1>2. \A u \in Uid : runs[u] \in Nat
  BY DEF TypedInv, TypeOK, HistoryTypeOK
<1>3. pc = "down" \/ ~About(mem)
  BY <1>1 DEF StoresOK, About
<1>4. pc \notin {"seed", "fetch", "batch", "advance", "idle"}
  BY <1>1, <1>3 DEF SelectedOK
<1>5. ~Validate \/ disk' = disk
  <2> SUFFICES ASSUME Validate, ~Outdated(mem, sel) PROVE FALSE
    BY DEF Validate, stores
  <2>1. sel.uidvalidity = uidvalidity /\ pc = "validate"
    BY <1>1 DEF Validate, SelectedOK
  <2>2. mem.uidvalidity = None \/ About(mem)
    BY <2>1 DEF Outdated, About
  <2> QED
    BY <1>1, <1>3, <2>1, <2>2 DEF StoresOK
<1>6. disk' \in {disk, EmptyState}
  BY <1>4, <1>5, FileKept DEF Seed, Advance, Relaunch
<1>7. (\A u \in Uid : ~Execute(u)) => UNCHANGED <<runs, redone>> \/ MailboxRecreated
  <2> SUFFICES ASSUME \A u \in Uid : ~Execute(u) PROVE UNCHANGED <<runs, redone>> \/ MailboxRecreated
    OBVIOUS
  <2> USE DEF history
  <2>1. CASE \/ Start \/ ShutdownSeen \/ ConnectOk \/ ConnectFails \/ Resume
             \/ CheckCapabilities \/ Select \/ Validate \/ Seed \/ CommandFails \/ Fetch
             \/ Advance \/ BatchDone
    BY <2>1 DEF Start, ShutdownSeen, ConnectOk, ConnectFails, Resume, CheckCapabilities,
         Select, Validate, Seed, CommandFails, Fetch, Advance, BatchDone
  <2>2. CASE \/ IdleExists \/ IdleTimeout \/ IdleFails \/ Crash \/ Signal \/ Relaunch
             \/ Hang \/ MailArrives \/ UNCHANGED vars
    BY <2>2 DEF IdleExists, IdleTimeout, Wakes, IdleFails, Crash, Signal, Relaunch, Hang,
         MailArrives, vars, daemonVars
  <2>3. ASSUME NEW u \in Uid, MessageFails(u) \/ FlagsChange(u) \/ OthersRemove(u)
        PROVE  UNCHANGED <<runs, redone>>
    BY <2>3 DEF MessageFails, FlagsChange, OthersRemove, daemonVars
  <2> QED
    BY <2>1, <2>2, <2>3 DEF Next, Progress, Surroundings, Processing
<1>8. \A u \in Uid : ~Execute(u)
  BY <1>4 DEF Execute
<1>9. MailboxRecreated => redone' = {} /\ \A u \in Uid : runs'[u] = 0
  BY DEF MailboxRecreated
<1> QED
  BY <1>2, <1>6, <1>7, <1>8, <1>9

\* While the file is about another incarnation of the mailbox nothing is
\* executed and the file is not touched, except that the operator deletes it.
THEOREM StaleNeverUsed == Spec => StaleCursorNeverUsed
<1>1. TypedInv /\ [Next]_vars =>
        ((disk.uidvalidity # None /\ ~About(disk)) =>
           /\ \A u \in Uid : runs'[u] <= runs[u]
           /\ redone' \subseteq redone
           /\ disk' \in {disk, EmptyState})
  BY StepLeavesStale
<1> QED
  BY <1>1, TypedInvHolds, PTL DEF Spec, StaleCursorNeverUsed

-----------------------------------------------------------------------------
(* At-least-once.  It rests on two assumptions on the server: it answers   *)
(* FETCH in ascending UID order, and CHANGEDSINCE takes nothing away from  *)
(* the answer.                                                             *)

\* No message above the cursor is withheld because of its mod-sequence.
NothingHidden ==
  pc = "fetch" =>
    \A u \in Uid : mem.last_seen_uid < u /\ u < uidnext =>
      ChangedSince = None \/ modseq[u] > ChangedSince

\* A server without CONDSTORE withholds nothing.
PlainServer == ~HasCondstore /\ ServerOrdered

\* Steps other than the processing of a message or a change of the mailbox.
LEMMA QuietSteps ==
  ASSUME TypedInv, [Next]_vars, ~MailboxRecreated, ~MailArrives,
         \A u \in Uid : ~Execute(u) /\ ~MessageFails(u) /\ ~OthersRemove(u)
  PROVE  /\ UNCHANGED <<uidvalidity, uidnext, inbox, runs, redone, gone, torn>>
         /\ anchor' = anchor \/ (Seed /\ mem.last_seen_uid = None)
<1> USE DEF serverVars, history
<1>1. CASE \/ Start \/ ShutdownSeen \/ ConnectOk \/ ConnectFails \/ Resume
           \/ CheckCapabilities \/ Select \/ Validate \/ CommandFails
  BY <1>1 DEF Start, ShutdownSeen, ConnectOk, ConnectFails, Resume, CheckCapabilities,
       Select, Validate, CommandFails
<1>2. CASE Fetch \/ Seed \/ Advance \/ BatchDone \/ IdleExists \/ IdleTimeout \/ IdleFails
  BY <1>2 DEF Fetch, Seed, Advance, BatchDone, IdleExists, IdleTimeout, Wakes, IdleFails
<1>3. CASE Crash \/ Signal \/ Relaunch \/ Hang \/ UNCHANGED vars
  BY <1>3 DEF Crash, Signal, Relaunch, Hang, vars, daemonVars
<1>4. ASSUME NEW u \in Uid, FlagsChange(u)
      PROVE  UNCHANGED <<uidvalidity, uidnext, inbox, runs, redone, gone, torn, anchor>>
  BY <1>4 DEF FlagsChange, Touch, daemonVars
<1> QED
  BY <1>1, <1>2, <1>3, <1>4 DEF Next, Progress, Surroundings, Processing

\* What each of the other steps adds to the settled messages.
LEMMA SettledBy ==
  ASSUME TypedInv, NEW u \in Uid
  PROVE  /\ Execute(u) => Settled' = Settled \cup {u}
         /\ MessageFails(u) => /\ Settled' = Settled \cup (torn' \ torn)
                               /\ torn' \subseteq torn \cup {u}
         /\ OthersRemove(u) => Settled' = Settled \cup {u}
<1>1. runs \in [Uid -> 0 .. MaxRuns] /\ MaxRuns \in Nat /\ 1 <= MaxRuns
  BY ConstantTypes DEF TypedInv, TypeOK, HistoryTypeOK
<1>2. CASE Execute(u)
  <2>1. pc = "batch" /\ pc' = "advance" /\ UNCHANGED <<gone, torn>>
    BY <1>2 DEF Execute
  <2>2. CASE u > mem.last_seen_uid
    <3>1. redone' = redone
      BY <1>2, <2>2 DEF Execute
    <3>2. \A v \in Uid : runs'[v] = IF v = u THEN Count(runs[u], MaxRuns) ELSE runs[v]
      BY <1>1, <1>2, <2>2 DEF Execute
    <3>3. Count(runs[u], MaxRuns) > 0
      BY <1>1 DEF Count
    <3>4. Settled' = Settled \cup {u}
      BY <1>1, <2>1, <3>1, <3>2, <3>3 DEF Settled
    <3> QED
      BY <2>1, <3>4 DEF MessageFails, OthersRemove, budgets, work
  <2>3. CASE ~(u > mem.last_seen_uid)
    <3>1. redone' = redone \cup {u} /\ runs' = runs
      BY <1>2, <2>3 DEF Execute
    <3>2. Settled' = Settled \cup {u}
      BY <2>1, <3>1 DEF Settled
    <3> QED
      BY <2>1, <3>2 DEF MessageFails, OthersRemove
  <2> QED
    BY <2>2, <2>3
<1>3. CASE MessageFails(u)
  BY <1>3 DEF MessageFails, Settled, Execute, OthersRemove, Withdraw
<1>4. CASE OthersRemove(u)
  BY <1>4 DEF OthersRemove, Settled, Execute, MessageFails
<1> QED
  BY <1>2, <1>3, <1>4

\* Only a new mailbox unsettles messages, and only the seed moves the anchor.
LEMMA SettledGrows ==
  ASSUME TypedInv, [Next]_vars, ~MailboxRecreated
  PROVE  /\ Settled \subseteq Settled'
         /\ uidvalidity' = uidvalidity
         /\ uidnext' \in {uidnext, uidnext + 1}
         /\ anchor' = anchor \/ (Seed /\ mem.last_seen_uid = None)
<1>1. ASSUME NEW u \in Uid, Execute(u) \/ MessageFails(u) \/ OthersRemove(u)
      PROVE  UNCHANGED <<uidvalidity, uidnext, anchor>> /\ Settled \subseteq Settled'
  <2>1. UNCHANGED <<uidvalidity, uidnext, anchor>>
    BY <1>1 DEF Execute, MessageFails, OthersRemove, Withdraw
  <2> QED
    BY <1>1, <2>1, SettledBy
<1>2. CASE MailArrives
  BY <1>2 DEF MailArrives, Deliver, daemonVars, history, Settled
<1> QED
  BY <1>1, <1>2, QuietSteps DEF Settled

\* No message leaves the mailbox unsettled.
LEMMA NextInboxOK ==
  ASSUME TypedInv, InboxOK, [Next]_vars
  PROVE  InboxOK'
<1>1. uidnext \in 1 .. MaxUid + 1 /\ MaxUid \in Nat
  BY ConstantTypes DEF TypedInv, TypeOK, ServerTypeOK
<1>2. CASE MailboxRecreated
  BY <1>2 DEF MailboxRecreated, Recreate, InboxOK, Uid
<1>3. CASE MailArrives
  <2>1. uidnext' = uidnext + 1 /\ inbox' = inbox \cup {uidnext} /\ UNCHANGED <<runs, redone, gone, torn>>
    BY <1>3 DEF MailArrives, Deliver, daemonVars, history
  <2>2. Settled' = Settled
    BY <2>1 DEF Settled
  <2> QED
    BY <1>1, <2>1, <2>2 DEF InboxOK, Uid
<1>4. ASSUME NEW u \in Uid, Execute(u) \/ OthersRemove(u)
      PROVE  InboxOK'
  <2>1. uidnext' = uidnext /\ inbox \subseteq inbox' \cup {u}
    BY <1>4 DEF Execute, OthersRemove, Withdraw
  <2> QED
    BY <1>4, <2>1, SettledBy DEF InboxOK
<1>5. ASSUME NEW u \in Uid, MessageFails(u)
      PROVE  InboxOK'
  <2>1. uidnext' = uidnext /\ inbox \subseteq inbox' \cup torn' /\ torn \subseteq torn'
    BY <1>5 DEF MessageFails
  <2>2. Settled \subseteq Settled' /\ torn' \subseteq Settled'
    BY <1>5, SettledBy DEF Settled
  <2> QED
    BY <2>1, <2>2 DEF InboxOK
<1>6. CASE /\ ~MailboxRecreated /\ ~MailArrives
           /\ \A u \in Uid : ~Execute(u) /\ ~MessageFails(u) /\ ~OthersRemove(u)
  BY <1>6, QuietSteps DEF InboxOK, Settled
<1> QED
  BY <1>2, <1>3, <1>4, <1>5, <1>6

\* CursorSound of t in the next state.
SoundAfter(t) ==
  (t.uidvalidity = uidvalidity' /\ t.last_seen_uid # None) =>
    /\ anchor' # None
    /\ anchor' <= t.last_seen_uid
    /\ t.last_seen_uid < uidnext'
    /\ \A u \in Uid : (anchor' < u /\ u <= t.last_seen_uid) => u \in Settled'

\* A cursor that is not written stays sound unless the anchor moves.
LEMMA SoundKept ==
  ASSUME TypedInv, [Next]_vars, anchor' = anchor, ~MailboxRecreated,
         NEW s \in StateFile, CursorSound(s)
  PROVE  SoundAfter(s)
<1>1. uidnext \in Int /\ s.last_seen_uid \in Int
  BY ConstantTypes DEF TypedInv, TypeOK, ServerTypeOK, StateFile
<1> QED
  BY <1>1, SettledGrows DEF CursorSound, SoundAfter, About

\* Without a cursor there is nothing to show.
LEMMA NoCursorSound ==
  ASSUME NEW t, t.last_seen_uid = None
  PROVE  SoundAfter(t)
BY DEF SoundAfter

\* Both cursors stay sound: the only step that moves one past messages is
\* Advance, and then the batch is known to have left nothing out.
LEMMA NextCursorsSound ==
  ASSUME ServerOrdered, IInv, [Next]_vars
  PROVE  CursorSound(mem)' /\ CursorSound(disk)'
<1> SUFFICES SoundAfter(mem') /\ SoundAfter(disk')
  BY DEF SoundAfter, CursorSound, About
<1> USE ConstantTypes
<1>1. /\ TypedInv /\ SelectedOK /\ StoresOK
      /\ mem \in StateFile /\ disk \in StateFile
      /\ uidvalidity \in 1 .. MaxValidity /\ uidnext \in 1 .. MaxUid + 1
      /\ CursorSound(mem) /\ CursorSound(disk)
  BY DEF IInv, TypedInv, TypeOK, ServerTypeOK
<1>2. /\ mem.uidvalidity \in Int /\ mem.last_seen_uid \in {None} \cup 0 .. MaxUid
      /\ disk.uidvalidity \in Int /\ disk.last_seen_uid \in {None} \cup 0 .. MaxUid
      /\ anchor \in {None} \cup 0 .. MaxUid
  BY <1>1 DEF StateFile, TypedInv, TypeOK, HistoryTypeOK
<1>3. EmptyState.last_seen_uid = None
  BY DEF EmptyState
<1>4. CASE MailboxRecreated
  <2>1. mem' = mem /\ disk' = disk /\ uidvalidity' = uidvalidity + 1
    BY <1>4 DEF MailboxRecreated, Recreate, stores
  <2>2. mem.uidvalidity <= uidvalidity /\ disk.uidvalidity <= uidvalidity
    BY <1>1 DEF StoresOK
  <2> QED
    BY <1>1, <1>2, <2>1, <2>2 DEF SoundAfter
<1>5. CASE ~MailboxRecreated /\ anchor' = anchor /\ mem' \in {mem, disk, EmptyState}
           /\ disk' \in {mem, disk, EmptyState}
  BY <1>1, <1>3, <1>5, SoundKept, NoCursorSound
<1>6. CASE Validate
  <2>1. /\ sel.uidvalidity = uidvalidity /\ anchor' = anchor /\ ~MailboxRecreated
        /\ UNCHANGED <<uidvalidity, uidnext, runs, redone, gone, torn>>
    BY <1>1, <1>6 DEF Validate, SelectedOK, serverVars, MailboxRecreated, Recreate
  <2>2. CASE Outdated(mem, sel)
    BY <1>5, <1>6, <2>1, <2>2 DEF Validate, stores
  <2>3. CASE ~Outdated(mem, sel)
    <3>1. mem' = Recorded(mem, sel) /\ (disk' = mem' \/ disk' = disk)
      BY <1>6, <2>3 DEF Validate, Update
    <3>2. mem'.last_seen_uid = mem.last_seen_uid
      BY <1>1, <3>1 DEF Recorded, StateFile
    <3>3. mem.last_seen_uid = None \/ About(mem)
      BY <1>1, <2>1, <2>3 DEF Outdated, About, StoresOK
    <3>4. Settled' = Settled
      BY <2>1 DEF Settled
    <3>5. SoundAfter(mem')
      BY <1>1, <2>1, <3>2, <3>3, <3>4 DEF SoundAfter, CursorSound
    <3> QED
      BY <1>1, <2>1, <3>1, <3>5, SoundKept
  <2> QED
    BY <2>2, <2>3
<1>7. CASE Seed
  <2>1. /\ ~MailboxRecreated /\ UNCHANGED uidnext /\ sel.uidnext \in 0 .. uidnext /\ pc = "seed"
    BY <1>1, <1>7 DEF Seed, SelectedOK, serverVars, MailboxRecreated
  <2>2. CASE mem.last_seen_uid # None
    BY <1>5, <1>7, <2>1, <2>2 DEF Seed, stores
  <2>3. CASE mem.last_seen_uid = None
    <3>1. disk.last_seen_uid = None
      BY <1>1, <1>2, <2>1, <2>3 DEF StoresOK
    <3>2. mem' = [mem EXCEPT !.last_seen_uid = SeedOf(sel)] /\ (disk' = mem' \/ disk' = disk)
      BY <1>7, <2>3 DEF Seed, Update
    <3>3. mem'.last_seen_uid = SeedOf(sel)
      BY <1>1, <3>2 DEF StateFile
    <3>4. anchor' = SeedOf(sel)
      BY <1>7, <2>3 DEF Seed, SeedOf
    <3>5. SeedOf(sel) \in 0 .. uidnext - 1
      BY <1>1, <2>1 DEF SeedOf
    <3>6. SoundAfter(mem')
      BY <1>1, <2>1, <3>3, <3>4, <3>5 DEF SoundAfter, Uid
    <3> QED
      BY <3>1, <3>2, <3>6, NoCursorSound
  <2> QED
    BY <2>2, <2>3
<1>8. CASE Advance
  <2>1. /\ ~MailboxRecreated /\ UNCHANGED <<uidvalidity, uidnext, anchor, runs, redone, gone, torn>>
        /\ pc = "advance" /\ About(mem) /\ mem.last_seen_uid # None
    BY <1>1, <1>8 DEF Advance, SelectedOK, serverVars, history, MailboxRecreated, Recreate
  <2>2. cur \in Uid /\ cur \in batch /\ batch \subseteq Uid
    BY <1>1, <2>1 DEF TypedInv, TypeOK, WorkTypeOK
  <2>3. mem' = Advanced(mem, cur) /\ (disk' = mem' \/ disk' = disk)
    BY <1>8 DEF Advance, Update
  <2>4. mem'.last_seen_uid = IF cur > mem.last_seen_uid THEN cur ELSE mem.last_seen_uid
    BY <1>1, <2>3 DEF Advanced, StateFile
  <2>5. Settled' = Settled
    BY <2>1 DEF Settled
  <2>6. anchor # None /\ anchor <= mem.last_seen_uid /\ mem.last_seen_uid < uidnext
    BY <1>1, <2>1 DEF CursorSound
  <2>7. cur < uidnext /\ cur \in Settled /\ \A v \in batch : cur <= v
    BY <2>1, <2>2 DEF IInv, BatchOK, IsNext
  <2>8. ASSUME NEW u \in Uid, anchor < u, u <= mem'.last_seen_uid
        PROVE  u \in Settled
    <3>1. CASE u <= mem.last_seen_uid
      BY <1>1, <2>1, <2>8, <3>1 DEF CursorSound
    <3>2. CASE u = cur
      BY <2>7, <3>2
    <3>3. CASE mem.last_seen_uid < u /\ u < cur
      <4>1. u \in Settled \/ u \in batch
        BY <2>1, <2>2, <3>3 DEF IInv, BatchOK
      <4> QED
        BY <2>2, <2>7, <3>3, <4>1 DEF Uid
    <3> QED
      BY <1>2, <2>2, <2>4, <2>8, <3>1, <3>2, <3>3 DEF Uid
  <2>9. SoundAfter(mem')
    BY <1>1, <1>2, <2>1, <2>2, <2>4, <2>5, <2>6, <2>7, <2>8 DEF SoundAfter, Uid
  <2> QED
    BY <1>1, <2>1, <2>3, <2>9, SoundKept
<1>9. CASE \/ Start \/ ShutdownSeen \/ ConnectOk \/ ConnectFails \/ Resume \/ CheckCapabilities
           \/ Select \/ CommandFails \/ Fetch \/ BatchDone
  BY <1>4, <1>5, <1>9 DEF Start, ShutdownSeen, ConnectOk, ConnectFails, Resume, CheckCapabilities,
       Select, CommandFails, Fetch, BatchDone, stores, history
<1>10. CASE \/ IdleExists \/ IdleTimeout \/ IdleFails \/ Crash \/ Signal \/ Relaunch \/ Hang
            \/ MailArrives \/ UNCHANGED vars
  BY <1>4, <1>5, <1>10 DEF IdleExists, IdleTimeout, Wakes, IdleFails, Crash, Signal, Relaunch,
       Hang, MailArrives, vars, daemonVars, stores, history
<1>11. ASSUME NEW u \in Uid, Execute(u) \/ MessageFails(u) \/ FlagsChange(u) \/ OthersRemove(u)
       PROVE  SoundAfter(mem') /\ SoundAfter(disk')
  BY <1>4, <1>5, <1>11 DEF Execute, MessageFails, FlagsChange, OthersRemove, daemonVars, stores,
       history
<1> QED
  BY <1>4, <1>6, <1>7, <1>8, <1>9, <1>10, <1>11
  DEF Next, Progress, Surroundings, Processing

\* A fetched batch is an initial part of what is open above the cursor.
LEMMA FetchedInOrder ==
  ASSUME ServerOrdered, NothingHidden, IInv, Fetch,
         NEW b \in batch', NEW u \in Uid,
         mem.last_seen_uid < u, u < b, u \notin Settled
  PROVE  u \in batch'
<1> DEFINE found == Matches(RangeStart(mem), ChangedSince)
<1>1. mem \in StateFile /\ uidnext \in Int /\ inbox \subseteq Uid
      /\ \A v \in inbox : v < uidnext
  BY ConstantTypes DEF IInv, TypeOK, ServerTypeOK
<1>2. mem.last_seen_uid \in Int
  BY <1>1, ConstantTypes DEF StateFile
<1>3. batch' \in Truncations(found)
  BY DEF Fetch
<1>4. batch' \subseteq found /\ \A x \in batch', y \in found \ batch' : x < y
  BY <1>3 DEF Truncations
<1>5. found \subseteq inbox
  BY DEF Matches
<1>6. b \in inbox /\ b \in Uid /\ b < uidnext
  BY <1>1, <1>4, <1>5
<1>7. u \in inbox
  BY <1>1, <1>6 DEF IInv, InboxOK, Uid
<1>8. u >= RangeStart(mem)
  BY <1>2 DEF RangeStart, Uid
<1>9. ChangedSince = None \/ modseq[u] > ChangedSince
  BY <1>1, <1>7 DEF NothingHidden, Fetch
<1>10. u \in found
  BY <1>7, <1>8, <1>9 DEF Matches
<1> QED
  BY <1>4, <1>6, <1>10 DEF Uid

\* A step that leaves the batch and the cursor alone.
LEMMA BatchKept ==
  ASSUME IInv, [Next]_vars, ~MailboxRecreated,
         UNCHANGED <<batch, cur, mem>>, pc' = pc
  PROVE  BatchOK'
<1>1. TypedInv /\ BatchOK /\ batch \subseteq Uid /\ uidnext \in Int
  BY ConstantTypes DEF IInv, TypedInv, TypeOK, WorkTypeOK, ServerTypeOK
<1> QED
  BY <1>1, SettledGrows DEF BatchOK, IsNext, Uid

\* The batch stays an initial part of what is open above the cursor.
LEMMA NextBatchOK ==
  ASSUME ServerOrdered, NothingHidden, IInv, [Next]_vars
  PROVE  BatchOK'
<1> USE ConstantTypes
<1>1. /\ TypedInv /\ BatchOK /\ batch \subseteq Uid /\ uidnext \in 1 .. MaxUid + 1
      /\ mem \in StateFile /\ (pc = "advance" => cur \in batch)
      /\ inbox \subseteq Uid /\ \A v \in inbox : v < uidnext
  BY DEF IInv, TypedInv, TypeOK, WorkTypeOK, ServerTypeOK
<1>2. CASE batch' = {} /\ pc' # "advance"
  BY <1>2 DEF BatchOK
<1>3. CASE \/ ShutdownSeen \/ Crash \/ CommandFails \/ IdleFails
  BY <1>2, <1>3 DEF ShutdownSeen, Crash, Dies, CommandFails, IdleFails, SessionFails
<1>4. ASSUME batch' = batch, pc \notin {"batch", "advance"}, pc' # "advance"
      PROVE  BatchOK'
  BY <1>1, <1>2, <1>4 DEF BatchOK
<1>5. CASE Start \/ ConnectOk \/ ConnectFails \/ Resume \/ CheckCapabilities \/ Select \/ Relaunch
  BY <1>4, <1>5 DEF Start, ConnectOk, ConnectFails, Resume, CheckCapabilities, Select,
       Relaunch, Exited, work
<1>6. CASE Validate \/ Seed
  BY <1>2, <1>4, <1>6 DEF Validate, Dies, Seed, Update, SessionFails, work
<1>7. CASE BatchDone \/ IdleExists \/ IdleTimeout
  BY <1>2, <1>4, <1>7 DEF BatchDone, IdleExists, IdleTimeout, Wakes, work
<1>8. CASE Fetch
  <2>1. /\ batch' \subseteq inbox /\ pc' = "batch"
        /\ UNCHANGED <<mem, uidnext, runs, redone, gone, torn>>
    BY <1>8 DEF Fetch, Truncations, Matches, stores, history
  <2>2. Settled' = Settled
    BY <2>1 DEF Settled
  <2> QED
    BY <1>1, <1>8, <2>1, <2>2, FetchedInOrder DEF BatchOK
<1>9. ASSUME NEW u \in Uid, Execute(u) PROVE BatchOK'
  <2>1. /\ UNCHANGED <<batch, mem, uidnext>> /\ cur' = u /\ IsNext(u)
        /\ pc = "batch" /\ pc' = "advance"
    BY <1>9 DEF Execute, stores
  <2>2. Settled' = Settled \cup {u}
    BY <1>1, <1>9, SettledBy
  <2> QED
    BY <1>1, <2>1, <2>2 DEF BatchOK, IsNext
<1>10. ASSUME NEW u \in Uid, MessageFails(u) PROVE BatchOK'
  BY <1>2, <1>10 DEF MessageFails
<1>11. CASE Advance
  <2>1. CASE pc' = "pausing" /\ batch' = {}
    BY <1>2, <2>1
  <2>2. CASE pc' = "batch" /\ batch' = batch \ {cur} /\ mem' = Advanced(mem, cur)
    <3>1. UNCHANGED <<uidnext, runs, redone, gone, torn>> /\ pc = "advance" /\ cur \in Uid
      BY <1>1, <1>11 DEF Advance, serverVars, history
    <3>2. Settled' = Settled
      BY <3>1 DEF Settled
    <3>3. cur \in Settled
      BY <1>1, <3>1 DEF BatchOK
    <3>4. mem.last_seen_uid \in Int
      BY <1>1 DEF StateFile
    <3>5. mem'.last_seen_uid = IF cur > mem.last_seen_uid THEN cur ELSE mem.last_seen_uid
      BY <1>1, <2>2 DEF Advanced, StateFile
    <3>6. ASSUME NEW u \in Uid, mem'.last_seen_uid < u PROVE mem.last_seen_uid < u
      BY <3>1, <3>4, <3>5, <3>6 DEF Uid
    <3> QED
      BY <1>1, <2>2, <3>1, <3>2, <3>3, <3>6 DEF BatchOK
  <2> QED
    BY <1>11, <2>1, <2>2 DEF Advance, Update, SessionFails
<1>12. CASE MailboxRecreated
  <2>1. pc \notin {"batch", "advance"} /\ batch' = batch /\ pc' = pc
    BY <1>12 DEF MailboxRecreated, SessionPcs, work
  <2> QED
    BY <1>4, <2>1
<1>13. CASE Signal \/ Hang \/ MailArrives \/ UNCHANGED vars
  BY <1>12, <1>13, BatchKept DEF Signal, Hang, MailArrives, vars, daemonVars, work, stores
<1>14. ASSUME NEW u \in Uid, FlagsChange(u) \/ OthersRemove(u) PROVE BatchOK'
  BY <1>12, <1>14, BatchKept DEF FlagsChange, OthersRemove, daemonVars, work, stores
<1> QED
  BY <1>3, <1>5, <1>6, <1>7, <1>8, <1>9, <1>10, <1>11, <1>12, <1>13, <1>14
  DEF Next, Progress, Surroundings, Processing

\* The inductive invariant holds before the first start.
LEMMA InitIInv == Init => IInv
<1> SUFFICES ASSUME Init PROVE IInv
  OBVIOUS
<1>1. TypedInv
  BY InitTypedInv
<1>2. InboxOK
  BY DEF Init, ServerInit, InboxOK, Uid
<1>3. CursorSound(mem) /\ CursorSound(disk)
  BY DEF Init, EmptyState, CursorSound
<1>4. BatchOK
  BY DEF Init, BatchOK
<1> QED
  BY <1>1, <1>2, <1>3, <1>4 DEF IInv, TypedInv

\* The inductive invariant is kept as long as nothing is hidden.
LEMMA NextIInv == ServerOrdered /\ NothingHidden /\ IInv /\ [Next]_vars => IInv'
BY NextTypedInv, NextInboxOK, NextCursorsSound, NextBatchOK DEF IInv, TypedInv

\* The inductive invariant, for every server that keeps no mod-sequences and
\* answers in order.
THEOREM IInvHolds ==
  ASSUME PlainServer
  PROVE  Spec => []IInv
<1>1. Init => IInv
  BY InitIInv
<1>2. ServerOrdered /\ NothingHidden
  BY DEF PlainServer, NothingHidden, ChangedSince
<1>3. IInv /\ [Next]_vars => IInv'
  BY <1>2, NextIInv
<1> QED
  BY <1>1, <1>3, PTL DEF Spec

\* At-least-once: last_seen_uid never passes a message that is not settled.
THEOREM NothingSkipped ==
  ASSUME PlainServer
  PROVE  Spec => []NoSkip
<1>1. IInv => NoSkip
  BY DEF IInv, CursorSound, NoSkip
<1> QED
  BY <1>1, IInvHolds, PTL

-----------------------------------------------------------------------------
(* CONDSTORE.  The highestmodseq in the state file is from a SELECT, and   *)
(* what was open then is withheld from later fetches (CondstoreLoss shows  *)
(* the loss).  In the session of the first start nothing open is that old: *)
(* the anchor is from the same SELECT, and only mail after it is owed.     *)

\* Nothing has failed, nobody has asked the daemon to stop: its first session
\* is its only one.
Undisturbed == faults = 0 /\ diskFails = 0 /\ crashes = 0 /\ signals = 0

\* The messages from first on have come, or changed, since the mod-sequence.
StampedAfter(first, since) ==
  /\ since <= highestmodseq
  /\ \A u \in Uid : first <= u /\ u < uidnext => modseq[u] > since

\* The state is empty up to the first SELECT; what it reports is the state's, and
\* all later mail is more recent.
FirstSession ==
  /\ ~permit /\ link # "lost" /\ pc \notin Exited
  /\ pc = "down" => disk = EmptyState
  /\ pc \in {"connecting", "pausing", "capabilities", "select", "validate"} => mem = EmptyState
  /\ pc = "seed" => mem.last_seen_uid = None
  /\ pc \in {"validate", "seed"} => sel.uidnext >= 1
  /\ HasCondstore =>
       /\ pc = "validate" => StampedAfter(sel.uidnext, sel.highestmodseq)
       /\ pc = "seed" => StampedAfter(sel.uidnext, mem.highestmodseq)
       /\ pc \in {"fetch", "batch", "advance", "idle"} =>
            StampedAfter(anchor + 1, mem.highestmodseq)

\* StampedAfter in the next state.
StampedNext(first, since) ==
  /\ since <= highestmodseq'
  /\ \A u \in Uid : first <= u /\ u < uidnext' => modseq'[u] > since

\* Whatever comes or changes is stamped with a mod-sequence above all others.
LEMMA StampedKept ==
  ASSUME TypedInv, HasCondstore, [Next]_vars, ~MailboxRecreated,
         NEW first \in Int, NEW since \in Int, StampedAfter(first, since)
  PROVE  StampedNext(first, since)
<1>1. /\ highestmodseq \in Int /\ uidnext \in Int
      /\ modseq \in [Uid -> 0 .. MaxModseq] /\ \A u \in Uid : u \in Int /\ modseq[u] \in Int
  BY ConstantTypes DEF TypedInv, TypeOK, ServerTypeOK, Uid
<1>2. ASSUME NEW w \in Uid, Stamp(w), uidnext' = uidnext \/ (w = uidnext /\ uidnext' = uidnext + 1)
      PROVE  StampedNext(first, since)
  <2>1. /\ highestmodseq' = highestmodseq + 1
        /\ \A u \in Uid : modseq'[u] = IF u = w THEN highestmodseq + 1 ELSE modseq[u]
    BY <1>1, <1>2 DEF Stamp
  <2>2. ASSUME NEW u \in Uid, first <= u, u < uidnext' PROVE modseq'[u] > since
    <3>1. CASE u = w
      BY <1>1, <2>1, <3>1 DEF StampedAfter
    <3>2. CASE u # w
      <4>1. u < uidnext
        BY <1>1, <1>2, <2>2, <3>2
      <4> QED
        BY <2>1, <2>2, <3>2, <4>1 DEF StampedAfter
    <3> QED
      BY <3>1, <3>2
  <2> QED
    BY <1>1, <2>1, <2>2 DEF StampedAfter, StampedNext
<1>3. CASE UNCHANGED <<uidnext, highestmodseq, modseq>>
  BY <1>3 DEF StampedAfter, StampedNext
<1>4. CASE MailArrives
  <2>1. uidnext \in Uid /\ Stamp(uidnext) /\ uidnext' = uidnext + 1
    <3>1. uidnext \in 1 .. MaxUid + 1
      BY DEF TypedInv, TypeOK, ServerTypeOK
    <3> QED
      BY <1>4, <3>1, ConstantTypes DEF MailArrives, Deliver, Uid
  <2> QED
    BY <1>2, <2>1
<1>5. ASSUME NEW w \in Uid, FlagsChange(w) PROVE StampedNext(first, since)
  BY <1>2, <1>5 DEF FlagsChange, Touch
<1>6. ASSUME NEW w \in Uid, Execute(w) \/ MessageFails(w) \/ OthersRemove(w)
      PROVE  StampedNext(first, since)
  BY <1>3, <1>6 DEF Execute, MessageFails, OthersRemove, Withdraw
<1>7. CASE \/ Start \/ ShutdownSeen \/ ConnectOk \/ ConnectFails \/ Resume
           \/ CheckCapabilities \/ Select \/ Validate \/ Seed \/ CommandFails
  BY <1>3, <1>7 DEF Start, ShutdownSeen, ConnectOk, ConnectFails, Resume, CheckCapabilities,
       Select, Validate, Seed, CommandFails, serverVars
<1>8. CASE \/ Fetch \/ Advance \/ BatchDone \/ IdleExists \/ IdleTimeout \/ IdleFails
           \/ Crash \/ Signal \/ Relaunch \/ Hang \/ UNCHANGED vars
  BY <1>3, <1>8 DEF Fetch, Advance, BatchDone, IdleExists, IdleTimeout, Wakes, IdleFails,
       Crash, Signal, Relaunch, Hang, vars, serverVars
<1> QED
  BY <1>4, <1>5, <1>6, <1>7, <1>8 DEF Next, Progress, Surroundings, Processing

\* What the session keeps in hand while nothing moves it on.
LEMMA SessionKept ==
  ASSUME TypedInv, FirstSession, [Next]_vars, ~MailboxRecreated,
         UNCHANGED <<pc, permit, link, mem, disk, sel, anchor>>
  PROVE  FirstSession'
<1>1. /\ mem.highestmodseq \in Int /\ anchor + 1 \in Int
      /\ sel.uidnext \in Int /\ sel.highestmodseq \in Int
  BY ConstantTypes DEF TypedInv, TypeOK, WorkTypeOK, HistoryTypeOK, StateFile, Status
<1>2. ASSUME HasCondstore
      PROVE  /\ pc = "validate" => StampedNext(sel.uidnext, sel.highestmodseq)
             /\ pc = "seed" => StampedNext(sel.uidnext, mem.highestmodseq)
             /\ pc \in {"fetch", "batch", "advance", "idle"} =>
                  StampedNext(anchor + 1, mem.highestmodseq)
  BY <1>1, <1>2, StampedKept DEF FirstSession
<1> QED
  BY <1>2 DEF FirstSession, StampedNext, StampedAfter

\* The budgets that were not touched are those of an undisturbed run.
LEMMA NothingUsed ==
  ASSUME TypedInv, [Next]_vars, Undisturbed'
  PROVE  /\ Undisturbed
         /\ ~Crash /\ ~Signal /\ ~Hang /\ ~ConnectFails
         /\ faults' = faults /\ diskFails' = diskFails
<1>1. /\ faults \in Nat /\ diskFails \in Nat /\ crashes \in Nat /\ signals \in Nat
  BY ConstantTypes DEF TypedInv, TypeOK, BudgetTypeOK
<1>2. /\ ~Crash /\ ~Signal /\ ~Hang /\ ~ConnectFails /\ ~Fault
      /\ diskFails' # diskFails + 1
  BY <1>1 DEF Undisturbed, Crash, Signal, Hang, ConnectFails, Fault
<1>3. UNCHANGED <<faults, diskFails, crashes, signals>>
  <2>1. CASE \/ Start \/ ShutdownSeen \/ ConnectOk \/ Resume \/ CheckCapabilities \/ Select
             \/ CommandFails \/ Fetch \/ BatchDone \/ Relaunch \/ MailArrives \/ MailboxRecreated
             \/ UNCHANGED vars
    BY <1>2, <2>1 DEF Start, ShutdownSeen, ConnectOk, Resume, CheckCapabilities, Select,
         CommandFails, FaultOrLost, Fetch, BatchDone, Relaunch, MailArrives, MailboxRecreated, vars,
         daemonVars, budgets
  <2>2. CASE Validate \/ Seed \/ Advance
    BY <1>2, <2>2 DEF Validate, Seed, Advance, Update, budgets
  <2>3. CASE IdleExists \/ IdleTimeout \/ IdleFails
    BY <1>2, <2>3 DEF IdleExists, IdleTimeout, Wakes, IdleFails, FaultOrLost
  <2>4. ASSUME NEW u \in Uid, Execute(u) \/ MessageFails(u) \/ FlagsChange(u) \/ OthersRemove(u)
        PROVE  UNCHANGED <<faults, diskFails, crashes, signals>>
    BY <1>2, <2>4 DEF Execute, MessageFails, FlagsChange, OthersRemove, daemonVars, budgets
  <2> QED
    BY <1>2, <2>1, <2>2, <2>3, <2>4 DEF Next, Progress, Surroundings, Processing
<1> QED
  BY <1>2, <1>3 DEF Undisturbed

\* Undisturbed, a session that has begun goes on, and all mail that is owed to it
\* came after the SELECT it began with.
LEMMA NextFirstSession ==
  ASSUME UidnextGiven, TypedInv, FirstSession, [Next]_vars, Undisturbed'
  PROVE  FirstSession'
<1> USE ConstantTypes
<1>1. /\ mem \in StateFile /\ sel \in Status
      /\ mem.highestmodseq \in Int /\ mem.last_seen_uid \in Int
      /\ anchor \in Int /\ anchor + 1 \in Int
      /\ sel.uidnext \in Int /\ sel.highestmodseq \in Int
      /\ uidnext \in 1 .. MaxUid + 1 /\ highestmodseq \in Int
      /\ modseq \in [Uid -> 0 .. MaxModseq]
      /\ SelectedOK /\ StoresOK
  BY DEF TypedInv, TypeOK, ServerTypeOK, WorkTypeOK, HistoryTypeOK, StateFile, Status
<1>2. /\ ~Crash /\ ~Signal /\ ~Hang /\ ~ConnectFails /\ ~Fault
      /\ faults' = faults /\ diskFails' = diskFails
      /\ diskFails \in Int
  <2>1. faults \in Int /\ diskFails \in Int
    BY DEF TypedInv, TypeOK, BudgetTypeOK
  <2> QED
    BY <2>1, NothingUsed DEF Fault
<1>3. ~ShutdownSeen /\ ~CommandFails /\ ~IdleFails /\ ~Relaunch
  BY <1>2 DEF FirstSession, ShutdownSeen, CommandFails, IdleFails, FaultOrLost, Relaunch
<1>4. CASE Start \/ ConnectOk \/ Resume \/ CheckCapabilities
  <2>1. /\ pc \in {"down", "connecting", "pausing", "capabilities"}
        /\ pc' \in {"connecting", "pausing", "capabilities", "select"}
        /\ permit' = permit /\ link' \in {"none", "up", link}
        /\ mem' \in {mem, disk} /\ (pc = "down" => mem' = disk) /\ (pc # "down" => mem' = mem)
    BY <1>4 DEF Start, ConnectOk, Resume, CheckCapabilities, linkVars, stores
  <2> QED
    BY <2>1 DEF FirstSession, Exited
<1>5. CASE Select
  <2>1. /\ pc = "select" /\ pc' = "validate"
        /\ UNCHANGED <<permit, link, mem, uidnext, highestmodseq, modseq>>
        /\ sel'.uidnext = uidnext
        /\ HasCondstore => sel'.highestmodseq = highestmodseq
    BY <1>5, UidnextGiven DEF Select, linkVars, stores
  <2>2. HasCondstore => StampedNext(sel'.uidnext, sel'.highestmodseq)
    BY <1>1, <2>1 DEF StampedNext, Uid
  <2> QED
    BY <1>1, <2>1, <2>2 DEF FirstSession, StampedNext, StampedAfter, Exited
<1>6. CASE Validate
  <2>1. pc = "validate" /\ mem = EmptyState /\ ~Outdated(mem, sel) /\ ~MailboxRecreated
    BY <1>1, <1>6 DEF Validate, FirstSession, Outdated, EmptyState, MailboxRecreated,
         SessionPcs
  <2>2. /\ pc' = "seed" /\ mem' = Recorded(mem, sel) /\ sel' = sel
        /\ UNCHANGED <<permit, link>>
    BY <1>2, <1>6, <2>1 DEF Validate, Update, work, linkVars
  <2>3. /\ mem'.last_seen_uid = None
        /\ mem'.highestmodseq = sel.highestmodseq
    BY <1>1, <2>1, <2>2 DEF Recorded, EmptyState
  <2>4. HasCondstore => StampedNext(sel.uidnext, sel.highestmodseq)
    BY <1>1, <2>1, StampedKept DEF FirstSession
  <2> QED
    BY <2>1, <2>2, <2>3, <2>4 DEF FirstSession, StampedNext, StampedAfter, Exited
<1>7. CASE Seed
  <2>1. pc = "seed" /\ mem.last_seen_uid = None /\ ~MailboxRecreated /\ sel.uidnext >= 1
    BY <1>7 DEF Seed, FirstSession, MailboxRecreated, SessionPcs
  <2>2. /\ pc' = "fetch" /\ mem' = [mem EXCEPT !.last_seen_uid = SeedOf(sel)]
        /\ anchor' = sel.uidnext - 1 /\ UNCHANGED <<permit, link>>
    BY <1>1, <1>2, <1>7, <2>1 DEF Seed, Update, linkVars
  <2>3. mem'.highestmodseq = mem.highestmodseq /\ anchor' + 1 = sel.uidnext
    BY <1>1, <2>2 DEF StateFile
  <2>4. HasCondstore => StampedNext(sel.uidnext, mem.highestmodseq)
    BY <1>1, <2>1, StampedKept DEF FirstSession
  <2> QED
    BY <2>1, <2>2, <2>3, <2>4 DEF FirstSession, StampedNext, StampedAfter, Exited
<1>8. ASSUME pc \in {"fetch", "batch", "advance", "idle"},
             pc' \in {"fetch", "batch", "advance", "idle"},
             mem'.highestmodseq = mem.highestmodseq, UNCHANGED <<permit, link, anchor>>, ~MailboxRecreated
      PROVE  FirstSession'
  <2>1. HasCondstore => StampedNext(anchor + 1, mem.highestmodseq)
    BY <1>1, <1>8, StampedKept DEF FirstSession
  <2> QED
    BY <1>8, <2>1 DEF FirstSession, StampedNext, StampedAfter, Exited
<1>9. CASE MailboxRecreated
  <2>1. /\ pc' = pc /\ UNCHANGED <<permit, link, mem, disk, sel>>
        /\ pc \notin {"validate", "seed", "fetch", "batch", "advance", "idle"}
    BY <1>9 DEF MailboxRecreated, SessionPcs, linkVars, stores, work
  <2> QED
    BY <2>1 DEF FirstSession
<1>10. CASE Fetch \/ BatchDone
  BY <1>8, <1>9, <1>10 DEF Fetch, BatchDone, linkVars, stores, history
<1>11. CASE Advance
  <2>1. /\ pc = "advance" /\ pc' = "batch" /\ mem' = Advanced(mem, cur)
        /\ UNCHANGED <<permit, link, anchor>>
    BY <1>2, <1>11 DEF Advance, Update, linkVars, history
  <2>2. mem'.highestmodseq = mem.highestmodseq
    BY <1>1, <2>1 DEF Advanced, StateFile
  <2> QED
    BY <1>8, <1>9, <2>1, <2>2
<1>12. CASE IdleExists \/ IdleTimeout
  BY <1>2, <1>8, <1>9, <1>12 DEF IdleExists, IdleTimeout, Wakes, stores, history
<1>13. ASSUME NEW u \in Uid, Execute(u) PROVE FirstSession'
  BY <1>8, <1>9, <1>13 DEF Execute, linkVars, stores
<1>14. ASSUME NEW u \in Uid, MessageFails(u) PROVE FirstSession'
  BY <1>2, <1>8, <1>9, <1>14 DEF MessageFails, stores
<1>15. CASE MailArrives \/ UNCHANGED vars
  BY <1>9, <1>15, SessionKept DEF MailArrives, vars, daemonVars, linkVars, stores, work, history
<1>16. ASSUME NEW u \in Uid, FlagsChange(u) \/ OthersRemove(u) PROVE FirstSession'
  BY <1>9, <1>16, SessionKept DEF FlagsChange, OthersRemove, daemonVars, linkVars, stores, work, history
<1> QED
  BY <1>2, <1>3, <1>4, <1>5, <1>6, <1>7, <1>9, <1>10, <1>11, <1>12, <1>13, <1>14, <1>15, <1>16
  DEF Next, Progress, Surroundings, Processing

\* In that session CHANGEDSINCE withholds nothing that is still owed.
LEMMA FirstSessionHidesNothing ==
  ASSUME IInv, FirstSession
  PROVE  NothingHidden
<1>1. /\ mem.last_seen_uid \in Int /\ anchor \in Int
      /\ \A u \in Uid : u \in Int
  BY ConstantTypes DEF IInv, TypeOK, StateFile, HistoryTypeOK, Uid
<1>2. ASSUME pc = "fetch", HasCondstore, NEW u \in Uid, mem.last_seen_uid < u, u < uidnext
      PROVE  modseq[u] > mem.highestmodseq
  <2>1. anchor <= mem.last_seen_uid
    BY <1>2 DEF IInv, SelectedOK, CursorSound
  <2>2. StampedAfter(anchor + 1, mem.highestmodseq)
    BY <1>2 DEF FirstSession
  <2> QED
    BY <1>1, <1>2, <2>1, <2>2 DEF StampedAfter
<1> QED
  BY <1>2 DEF NothingHidden, ChangedSince

\* At-least-once with CONDSTORE: as long as nothing has failed and no signal has
\* come, last_seen_uid passes no message that is not settled, whatever is truncated
\* and however often scripts fail.  It needs a SELECT that reports UIDNEXT: a seed
\* of 0 claims the mail that was there before, which CHANGEDSINCE then withholds.
THEOREM NothingSkippedInOneSession ==
  ASSUME ServerOrdered, UidnextGiven
  PROVE  Spec => [](Undisturbed => NoSkip)
<1> DEFINE OneSession == TypedInv /\ (Undisturbed => IInv /\ FirstSession)
<1>1. Init => OneSession
  <2>1. Init => FirstSession
    BY DEF Init, FirstSession, Exited
  <2> QED
    BY <2>1, InitIInv, InitTypedInv
<1>2. OneSession /\ [Next]_vars => OneSession'
  <2> SUFFICES ASSUME OneSession, [Next]_vars, Undisturbed'
               PROVE  IInv' /\ FirstSession'
    BY NextTypedInv
  <2>1. IInv /\ FirstSession
    BY NothingUsed
  <2>2. NothingHidden
    BY <2>1, FirstSessionHidesNothing
  <2> QED
    BY <2>1, <2>2, NextIInv, NextFirstSession, ServerOrdered, UidnextGiven
<1>3. OneSession => (Undisturbed => NoSkip)
  BY DEF IInv, CursorSound, NoSkip
<1> QED
  BY <1>1, <1>2, <1>3, PTL DEF Spec

-----------------------------------------------------------------------------
(* The daemon implements AtLeastOnce.                                      *)

\* The abstract cursor.
Durable == IF About(disk) THEN disk.last_seen_uid ELSE None

\* A step that neither recreates the mailbox nor loses a cursor that was about
\* it leaves the file about it.
LEMMA DurableStaysAbout ==
  ASSUME TypedInv, [Next]_vars, ~MailboxRecreated, Durable # None
  PROVE  About(disk)' /\ disk'.last_seen_uid >= disk.last_seen_uid
<1>1. About(disk) /\ disk.last_seen_uid # None
  BY DEF Durable
<1>2. /\ mem \in StateFile /\ SelectedOK /\ StoresOK /\ uidvalidity' = uidvalidity
      /\ uidvalidity \in 1 .. MaxValidity
  BY SettledGrows DEF TypedInv, TypeOK, ServerTypeOK
<1>3. disk' = disk \/ Validate \/ Seed \/ Advance
  BY <1>1, <1>2, ConstantTypes, FileKept DEF Relaunch, SelectedOK, StoresOK, About
<1>4. CASE Validate
  <2>1. disk' = disk \/ disk' = Recorded(mem, sel)
    BY <1>4 DEF Validate, Update, stores
  <2>2. Recorded(mem, sel).uidvalidity = uidvalidity
    BY <1>2, <1>4 DEF Validate, SelectedOK, Recorded, StateFile
  <2> QED
    BY <1>1, <1>2, <2>1, <2>2, StepAdvancesCursor DEF About
<1>5. CASE Seed \/ Advance
  <2>1. mem.uidvalidity = uidvalidity
    BY <1>2, <1>5 DEF Seed, Advance, SelectedOK, About
  <2>2. disk' = disk \/ disk'.uidvalidity = mem.uidvalidity
    BY <1>2, <1>5 DEF Seed, Advance, Update, Advanced, StateFile, stores
  <2> QED
    BY <1>1, <1>2, <2>1, <2>2, StepAdvancesCursor DEF About
<1> QED
  BY <1>1, <1>2, <1>3, <1>4, <1>5, StepAdvancesCursor DEF About

\* Between two sound states the durable cursor stays, is set, or passes settled
\* messages.
LEMMA CursorStep ==
  ASSUME IInv, IInv', [Next]_vars, ~MailboxRecreated, Settled' = Settled, uidnext' = uidnext
  PROVE  Abstract!Anchor \/ Abstract!Advance \/ UNCHANGED Abstract!vars
<1> USE ConstantTypes
<1>1. /\ TypedInv /\ disk \in StateFile /\ disk' \in StateFile
      /\ uidnext \in 1 .. MaxUid + 1
      /\ CursorSound(disk) /\ CursorSound(disk)' /\ StoresOK
      /\ anchor \in Int /\ anchor' \in {None} \cup 0 .. MaxUid
  BY DEF IInv, TypedInv, TypeOK, ServerTypeOK, HistoryTypeOK
<1>2. /\ disk.last_seen_uid \in {None} \cup 0 .. MaxUid
      /\ disk'.last_seen_uid \in {None} \cup 0 .. MaxUid
  BY <1>1 DEF StateFile
<1>3. Durable' # None => /\ Durable' = disk'.last_seen_uid
                         /\ anchor' \in Nat
                         /\ anchor' <= Durable'
                         /\ Durable' \in 0 .. uidnext - 1
                         /\ \A u \in Uid : anchor' < u /\ u <= Durable' => u \in Settled
  BY <1>1, <1>2 DEF Durable, CursorSound
<1>4. CASE Durable' = Durable
  BY <1>4 DEF Abstract!vars, Durable
<1>5. CASE Durable = None /\ Durable' # None
  <2>1. Durable' \in 0 .. uidnext - 1
    BY <1>3, <1>5
  <2> QED
    BY <1>5, <2>1 DEF Abstract!Anchor, Durable
<1>6. CASE Durable # None /\ Durable' # Durable
  <2>1. /\ Durable = disk.last_seen_uid /\ About(disk)
        /\ Durable' = disk'.last_seen_uid
        /\ Durable' >= Durable
    BY <1>6, <1>1, DurableStaysAbout DEF Durable
  <2>2. Durable \in 0 .. MaxUid /\ Durable' \in 0 .. MaxUid /\ Durable < Durable'
    BY <1>2, <1>6, <2>1
  <2>3. anchor' = anchor
    <3>1. mem.last_seen_uid = None => ~Seed
      BY <1>1, <1>2, <1>6, <2>1 DEF StoresOK, Seed
    <3> QED
      BY <1>1, <3>1, SettledGrows
  <2>4. anchor <= Durable
    BY <1>1, <1>6, <2>1 DEF CursorSound
  <2>5. Durable' \in Durable + 1 .. uidnext - 1
    BY <1>1, <1>3, <2>2
  <2>6. Durable + 1 .. Durable' \subseteq Settled
    <3> SUFFICES ASSUME NEW u \in Durable + 1 .. Durable' PROVE u \in Settled
      OBVIOUS
    <3>1. u \in Uid /\ anchor' < u /\ u <= Durable'
      BY <1>1, <2>2, <2>3, <2>4 DEF Uid
    <3> QED
      BY <1>3, <2>2, <3>1
  <2> QED
    BY <1>6, <2>5, <2>6 DEF Abstract!Advance, Durable
<1> QED
  BY <1>4, <1>5, <1>6

\* Every step of the daemon is one of the abstract cursor, or a stutter.
LEMMA StepRefines ==
  ASSUME IInv, IInv', [Next]_vars
  PROVE  [Abstract!Next]_(Abstract!vars)
<1> USE ConstantTypes
<1>1. /\ TypedInv /\ uidnext \in 1 .. MaxUid + 1 /\ uidvalidity \in 1 .. MaxValidity
      /\ disk \in StateFile
  BY DEF IInv, TypedInv, TypeOK, ServerTypeOK
<1>2. CASE MailboxRecreated
  <2>1. disk' = disk /\ uidvalidity' = uidvalidity + 1 /\ uidnext' = 1
    BY <1>2 DEF MailboxRecreated, Recreate, stores
  <2>2. Settled' = {}
    BY <1>2 DEF MailboxRecreated, Settled
  <2>3. disk.uidvalidity <= uidvalidity /\ disk.uidvalidity \in Int
    BY <1>1 DEF TypedInv, StoresOK, StateFile
  <2>4. ~About(disk)'
    BY <1>1, <2>1, <2>3 DEF About
  <2> QED
    BY <2>1, <2>2, <2>4 DEF Abstract!Next, Abstract!NewMailbox
<1>3. CASE MailArrives
  <2>1. /\ uidnext' = uidnext + 1 /\ uidnext <= MaxUid
        /\ UNCHANGED <<uidvalidity, disk, runs, redone, gone, torn>>
    BY <1>3 DEF MailArrives, Deliver, daemonVars, stores, history
  <2>2. Settled' = Settled
    BY <2>1 DEF Settled
  <2>3. /\ uidnext - 1 < MaxUid
        /\ uidnext' - 1 = (uidnext - 1) + 1
    BY <1>1, <2>1
  <2> QED
    BY <2>1, <2>2, <2>3 DEF Abstract!Next, Abstract!Deliver, About
<1>4. ASSUME NEW u \in Uid, Execute(u) \/ MessageFails(u) \/ OthersRemove(u)
      PROVE  Abstract!Settle \/ UNCHANGED Abstract!vars
  <2>1. UNCHANGED <<uidnext, uidvalidity, disk>>
    BY <1>4 DEF Execute, MessageFails, OthersRemove, Withdraw, stores
  <2>2. u < uidnext
    BY <1>4 DEF Execute, MessageFails, IsNext, OthersRemove, Withdraw, IInv, BatchOK,
         TypeOK, ServerTypeOK
  <2>3. u \in 1 .. uidnext - 1
    BY <1>1, <2>2 DEF Uid
  <2>4. Settled' = Settled \cup {u} \/ Settled' = Settled
    <3>1. CASE MessageFails(u)
      BY <1>1, <3>1, SettledBy
    <3> QED
      BY <1>1, <1>4, <3>1, SettledBy
  <2> QED
    BY <2>1, <2>3, <2>4 DEF Abstract!Settle, Abstract!vars, About
<1>5. CASE /\ ~MailboxRecreated /\ ~MailArrives
           /\ \A u \in Uid : ~Execute(u) /\ ~MessageFails(u) /\ ~OthersRemove(u)
  <2>1. uidnext' = uidnext /\ Settled' = Settled
    BY <1>1, <1>5, QuietSteps DEF Settled
  <2> QED
    BY <1>5, <2>1, CursorStep DEF Abstract!Next
<1> QED
  BY <1>2, <1>3, <1>4, <1>5 DEF Abstract!Next

\* The initial states map to the initial state.
LEMMA InitRefines == Init => Abstract!Init
<1> SUFFICES ASSUME Init PROVE Abstract!Init
  OBVIOUS
<1>1. Settled = {}
  BY DEF Init, Settled
<1> QED
  BY <1>1 DEF Init, ServerInit, EmptyState, About, Abstract!Init

\* The daemon implements the abstract at-least-once cursor.
THEOREM Refinement ==
  ASSUME PlainServer
  PROVE  Spec => RefinesAtLeastOnce
<1>1. Init => Abstract!Init
  BY InitRefines
<1>2. IInv /\ IInv' /\ [Next]_vars => [Abstract!Next]_(Abstract!vars)
  BY StepRefines
<1>3. Spec => []IInv
  BY PlainServer, IInvHolds
<1> QED
  BY <1>1, <1>2, <1>3, PTL DEF Spec, RefinesAtLeastOnce, Abstract!Spec

-----------------------------------------------------------------------------
(* What "start:*" answers below start.                                     *)

\* The daemon fetches mail at or below the cursor in one way only: the newest
\* message of the mailbox, alone.
LEMMA FetchedOldAlone ==
  ASSUME TypedInv, Fetch, NEW b \in batch', b <= mem.last_seen_uid
  PROVE  batch' = {b} /\ \A v \in inbox : v <= b
<1> DEFINE found == Matches(RangeStart(mem), ChangedSince)
<1>1. mem.last_seen_uid \in Int /\ inbox \subseteq Uid
  BY ConstantTypes DEF TypedInv, TypeOK, ServerTypeOK, StateFile
<1>2. batch' \subseteq found
  BY DEF Fetch, Truncations
<1>3. found \subseteq inbox
  BY DEF Matches
<1>0. ASSUME NEW v \in found PROVE v \in inbox /\ v \in Int
  <2>1. v \in inbox /\ v \in Uid
    BY <1>1, <1>3
  <2> QED
    BY <2>1, ConstantTypes DEF Uid
<1>4. b \in Int /\ b \in found
  BY <1>0, <1>2
<1>5. ~(b >= RangeStart(mem))
  BY <1>1, <1>4 DEF RangeStart
<1>6. \A v \in inbox : v <= b
  BY <1>4, <1>5 DEF Matches
<1>7. ASSUME NEW v \in found PROVE v = b
  <2>1. v \in Int /\ v <= b /\ v \in inbox
    BY <1>0, <1>6, <1>7
  <2>2. ~(v >= RangeStart(mem))
    BY <1>1, <1>4, <1>5, <2>1 DEF RangeStart
  <2>3. b <= v
    BY <1>3, <1>4, <1>7, <2>2 DEF Matches
  <2> QED
    BY <1>4, <2>1, <2>3
<1> QED
  BY <1>2, <1>6, <1>7

\* A step that is no FETCH adds nothing to the batch, and only the execution of one
\* of its messages makes that message the one in hand.
LEMMA BatchShrinks ==
  ASSUME BatchInOrder, [Next]_vars, ~Fetch
  PROVE  /\ batch' \subseteq batch
         /\ cur' \in {cur, None} \/ cur' \in batch
<1>1. CASE Seed \/ Validate \/ Advance
  BY <1>1 DEF Seed, Validate, Advance, Update, SessionFails, Dies, work
<1>2. CASE CommandFails \/ IdleFails \/ ShutdownSeen \/ Crash
  BY <1>2 DEF CommandFails, IdleFails, ShutdownSeen, Crash, SessionFails, Dies
<1>3. ASSUME NEW u \in Uid, Execute(u) \/ MessageFails(u)
      PROVE  batch' \subseteq batch /\ (cur' \in {cur, None} \/ cur' \in batch)
  BY <1>3 DEF Execute, MessageFails, IsNext
<1>4. CASE \/ Start \/ ConnectOk \/ ConnectFails \/ Resume \/ CheckCapabilities \/ Select
           \/ BatchDone \/ IdleExists \/ IdleTimeout
  BY <1>4 DEF Start, ConnectOk, ConnectFails, Resume, CheckCapabilities, Select, BatchDone,
       IdleExists, IdleTimeout, Wakes, work
<1>5. CASE Signal \/ Relaunch \/ Hang \/ MailArrives \/ MailboxRecreated \/ UNCHANGED vars
  BY <1>5 DEF Signal, Relaunch, Hang, MailArrives, MailboxRecreated, vars, daemonVars, work
<1>6. ASSUME NEW u \in Uid, FlagsChange(u) \/ OthersRemove(u)
      PROVE  batch' \subseteq batch /\ (cur' \in {cur, None} \/ cur' \in batch)
  BY <1>6 DEF FlagsChange, OthersRemove, daemonVars, work
<1> QED
  BY <1>1, <1>2, <1>3, <1>4, <1>5, <1>6 DEF Next, Progress, Surroundings, Processing

\* The batch is worked off in order.
LEMMA NextBatchInOrder ==
  ASSUME BatchInOrder, [Next]_vars
  PROVE  BatchInOrder'
<1>1. CASE batch' = {} /\ cur' = None /\ pc' # "advance"
  BY <1>1 DEF BatchInOrder
<1>2. CASE UNCHANGED <<pc, batch, cur>>
  BY <1>2 DEF BatchInOrder, IsNext
<1>3. CASE batch = {} /\ batch' = batch /\ cur = None /\ cur' = cur /\ pc' # "advance"
  BY <1>1, <1>3
<1>4. CASE Fetch
  BY <1>4 DEF Fetch, BatchInOrder
<1>5. ASSUME NEW u \in Uid, Execute(u) PROVE BatchInOrder'
  BY <1>5 DEF Execute, BatchInOrder, IsNext
<1>6. ASSUME NEW u \in Uid, MessageFails(u) PROVE BatchInOrder'
  BY <1>1, <1>6 DEF MessageFails, BatchInOrder
<1>7. CASE Advance
  BY <1>1, <1>7 DEF Advance, Update, SessionFails, BatchInOrder
<1>8. CASE CommandFails \/ IdleFails \/ ShutdownSeen \/ Crash
  BY <1>1, <1>8 DEF CommandFails, IdleFails, ShutdownSeen, Crash, SessionFails, Dies, Exited
<1>9. CASE Validate \/ Seed
  BY <1>1, <1>3, <1>9 DEF BatchInOrder, Validate, Seed, Update, SessionFails, Dies, work
<1>10. CASE \/ Start \/ ConnectOk \/ ConnectFails \/ Resume \/ CheckCapabilities \/ Select
            \/ BatchDone \/ IdleExists \/ IdleTimeout \/ Relaunch
  BY <1>1, <1>3, <1>10
  DEF BatchInOrder, Start, ConnectOk, ConnectFails, Resume, CheckCapabilities, Select, BatchDone,
      IdleExists, IdleTimeout, Wakes, Relaunch, Exited, work
<1>11. CASE Signal \/ Hang \/ MailArrives \/ MailboxRecreated \/ UNCHANGED vars
  BY <1>2, <1>11 DEF Signal, Hang, MailArrives, MailboxRecreated, vars, daemonVars, work
<1>12. ASSUME NEW u \in Uid, FlagsChange(u) \/ OthersRemove(u) PROVE BatchInOrder'
  BY <1>2, <1>12 DEF FlagsChange, OthersRemove, daemonVars, work
<1> QED
  BY <1>4, <1>5, <1>6, <1>7, <1>8, <1>9, <1>10, <1>11, <1>12
  DEF Next, Progress, Surroundings, Processing

\* While messages wait, only Advance moves the cursor.
LEMMA CursorWaits ==
  ASSUME BatchInOrder, [Next]_vars, batch # {}, batch' # {}, ~Advance
  PROVE  mem' = mem
<1>1. pc \in {"batch", "advance"}
  BY DEF BatchInOrder
<1>2. CASE \/ Start \/ ShutdownSeen \/ ConnectOk \/ ConnectFails \/ Resume \/ CheckCapabilities
           \/ Select \/ Validate \/ Seed \/ CommandFails \/ Fetch \/ BatchDone
  BY <1>1, <1>2 DEF Start, ShutdownSeen, ConnectOk, ConnectFails, Resume, CheckCapabilities,
       Select, Validate, Seed, CommandFails, Fetch, BatchDone, stores
<1>3. CASE \/ IdleExists \/ IdleTimeout \/ IdleFails \/ Crash \/ Relaunch \/ Signal \/ Hang
           \/ MailArrives \/ MailboxRecreated \/ UNCHANGED vars
  BY <1>1, <1>3 DEF IdleExists, IdleTimeout, Wakes, IdleFails, Crash, Dies, Relaunch, Exited, Signal,
       Hang, MailArrives, MailboxRecreated, vars, daemonVars, stores
<1>4. ASSUME NEW u \in Uid,
             Execute(u) \/ MessageFails(u) \/ FlagsChange(u) \/ OthersRemove(u)
      PROVE  mem' = mem
  BY <1>4 DEF Execute, MessageFails, FlagsChange, OthersRemove, daemonVars, stores
<1> QED
  BY <1>2, <1>3, <1>4 DEF Next, Progress, Surroundings, Processing

\* A message that waits in the batch is not passed by the cursor.
LEMMA WaitingNotPassed ==
  ASSUME ServerOrdered, TypedInv, BatchInOrder, [Next]_vars,
         NEW u \in batch \cap batch', u <= mem'.last_seen_uid
  PROVE  u <= mem.last_seen_uid
<1>1. /\ batch \subseteq Uid /\ mem \in StateFile /\ mem.last_seen_uid \in Int /\ u \in Int
      /\ pc = "advance" => cur \in batch
  BY ConstantTypes DEF TypedInv, TypeOK, WorkTypeOK, StateFile, Uid
<1>2. CASE ~Advance
  BY <1>2, CursorWaits
<1>3. CASE Advance
  <2>1. batch' = batch \ {cur} /\ mem' = Advanced(mem, cur) /\ pc = "advance"
    BY <1>3 DEF Advance, Update, SessionFails
  <2>2. cur \in Int /\ cur <= u /\ u # cur
    <3>1. cur \in Uid /\ \A v \in batch : cur <= v
      BY <1>1, <2>1 DEF BatchInOrder, IsNext
    <3> QED
      BY <2>1, <3>1, ConstantTypes DEF Uid
  <2>3. mem'.last_seen_uid = IF cur > mem.last_seen_uid THEN cur ELSE mem.last_seen_uid
    BY <1>1, <2>1 DEF Advanced, StateFile
  <2> QED
    BY <1>1, <2>2, <2>3
<1> QED
  BY <1>2, <1>3

\* run_batch asks for "start:*" and executes whatever is answered: for a server that
\* answers in UID order, what is fetched at or below the cursor is the newest message
\* in the mailbox, alone, the cursor passes no message that still waits, and so no
\* other message is executed at or below it.
THEOREM OldMailIsNewest ==
  ASSUME ServerOrdered
  PROVE  Spec => OnlyNewestRefetched
<1>1. Init => BatchInOrder
  BY DEF Init, BatchInOrder
<1>2. BatchInOrder /\ [Next]_vars => BatchInOrder'
  BY NextBatchInOrder
<1>3. TypedInv /\ BatchInOrder /\ [Next]_vars =>
        \A u \in Uid :
          /\ u \in batch' \ batch /\ u <= mem.last_seen_uid =>
               batch' = {u} /\ \A v \in inbox : v <= u
          /\ u \in batch \cap batch' /\ u <= mem'.last_seen_uid =>
               u <= mem.last_seen_uid
          /\ u = cur' => u \in batch
  <2> SUFFICES ASSUME TypedInv, BatchInOrder, [Next]_vars, NEW u \in Uid
               PROVE  /\ u \in batch' \ batch /\ u <= mem.last_seen_uid =>
                           batch' = {u} /\ \A v \in inbox : v <= u
                      /\ u \in batch \cap batch' /\ u <= mem'.last_seen_uid =>
                           u <= mem.last_seen_uid
                      /\ u = cur' => u \in batch
    OBVIOUS
  <2>1. u # None /\ (u = cur => u \in batch)
    <3>1. pc = "advance" => IsNext(cur)
      BY DEF BatchInOrder
    <3>2. cur # None => pc = "advance"
      BY DEF BatchInOrder
    <3> QED
      BY <3>1, <3>2, ConstantTypes DEF IsNext, Uid
  <2>2. CASE Fetch
    BY <2>1, <2>2, FetchedOldAlone, WaitingNotPassed, ServerOrdered DEF Fetch
  <2>3. CASE ~Fetch
    BY <2>1, <2>3, BatchShrinks, WaitingNotPassed, ServerOrdered
  <2> QED
    BY <2>2, <2>3
<1> QED
  BY <1>1, <1>2, <1>3, TypedInvHolds, PTL DEF Spec, OnlyNewestRefetched
=============================================================================
