---------------------------- MODULE DaemonProps -----------------------------
(***************************************************************************)
(* What is claimed of the daemon, and what its documentation claims and    *)
(* the code does not do.                                                   *)
(***************************************************************************)
EXTENDS Daemon

StateFile ==
  [uidvalidity   : {None} \cup 0 .. MaxValidity,
   last_seen_uid : {None} \cup 0 .. MaxUid,
   highestmodseq : {None} \cup 0 .. MaxModseq]

Status ==
  [uidvalidity   : {None} \cup 1 .. MaxValidity,
   uidnext       : {None} \cup 0 .. MaxUid + 1,
   highestmodseq : {None} \cup 1 .. MaxModseq]

ControlTypeOK ==
  /\ pc \in Pcs
  /\ permit \in BOOLEAN
  /\ link \in {"none", "up", "lost"}
  /\ hung \in BOOLEAN

WorkTypeOK ==
  /\ sel \in Status
  /\ batch \subseteq Uid
  /\ cur \in Uid \cup {None}
  /\ pc = "advance" => cur \in batch

BudgetTypeOK ==
  /\ faults \in 0 .. MaxFaults
  /\ diskFails \in 0 .. MaxDiskFails
  /\ crashes \in 0 .. MaxCrashes
  /\ signals \in 0 .. MaxSignals

HistoryTypeOK ==
  /\ anchor \in {None} \cup 0 .. MaxUid
  /\ runs \in [Uid -> 0 .. MaxRuns]
  /\ redone \subseteq Uid
  /\ gone \subseteq Uid
  /\ torn \subseteq Uid
  /\ late \in 0 .. BatchSize + 1

\* Every variable stays in its range (state.rs and types.rs give the types): an
\* Option in the state is None or a number, the cursor a UID or 0.
TypeOK ==
  /\ ServerTypeOK
  /\ ControlTypeOK
  /\ mem \in StateFile
  /\ disk \in StateFile
  /\ WorkTypeOK
  /\ BudgetTypeOK
  /\ HistoryTypeOK

-----------------------------------------------------------------------------
\* Messages that need no more work: executed, or no longer in the mailbox.
Settled == {u \in Uid : runs[u] > 0} \cup redone \cup gone \cup torn

\* The state s is about the mailbox as it is now.
About(s) == s.uidvalidity = uidvalidity

\* At-least-once (processor.rs, "State update policy"): no message that came
\* after the anchor is at or below last_seen_uid unless it is settled, whatever
\* was truncated, failed, crashed or arrived in between.
NoSkip ==
  (About(mem) /\ mem.last_seen_uid # None) =>
    \A u \in Uid :
      (anchor < u /\ u <= mem.last_seen_uid /\ u < uidnext) => u \in Settled

-----------------------------------------------------------------------------
(* The inductive invariant behind NoSkip and the refinement.               *)

\* While a status of SELECT is in use it is about the mailbox as it is, and
\* from then on so is the state in memory.
SelectedOK ==
  /\ pc \in {"validate", "seed"} => /\ sel.uidvalidity = uidvalidity
                                    /\ sel.uidnext \in 0 .. uidnext
  /\ pc \in {"seed", "fetch", "batch", "advance", "idle"} => About(mem)
  /\ pc \in {"fetch", "batch", "advance", "idle"} => mem.last_seen_uid # None
  /\ pc = "exit_fatal" => ~About(mem) /\ mem.uidvalidity # None

\* Memory and file are about one incarnation, the file never ahead of memory.
StoresOK ==
  /\ pc = "down" => mem = EmptyState
  /\ pc # "down" => /\ disk.uidvalidity \in {None, mem.uidvalidity}
                    /\ disk.last_seen_uid <= mem.last_seen_uid
  /\ \A s \in {mem, disk} : /\ s.uidvalidity <= uidvalidity
                            /\ s.uidvalidity = None => s.last_seen_uid = None

\* A message that was assigned a UID is in the mailbox or settled.
InboxOK == \A u \in Uid : u < uidnext => u \in inbox \cup Settled

\* The cursor of s lies between the anchor and the last UID assigned, with
\* settled messages behind it.
CursorSound(s) ==
  (About(s) /\ s.last_seen_uid # None) =>
    /\ anchor # None
    /\ anchor <= s.last_seen_uid
    /\ s.last_seen_uid < uidnext
    /\ \A u \in Uid : (anchor < u /\ u <= s.last_seen_uid) => u \in Settled

\* The batch leaves out nothing that is open between the cursor and any of its
\* messages, and the message executed last is its first one.
BatchOK ==
  /\ \A b \in batch : b < uidnext
  /\ pc \notin {"batch", "advance"} => batch = {}
  /\ pc \in {"batch", "advance"} =>
       \A b \in batch, u \in Uid :
         (mem.last_seen_uid < u /\ u < b /\ u \notin Settled) => u \in batch
  /\ pc = "advance" => IsNext(cur) /\ cur \in Settled

\* There is a batch only while it is worked on, and the message executed last is
\* its first one.
BatchInOrder ==
  /\ pc \notin {"batch", "advance"} => batch = {}
  /\ cur # None => pc = "advance"
  /\ pc = "advance" => IsNext(cur)

IInv ==
  /\ TypeOK
  /\ SelectedOK
  /\ StoresOK
  /\ InboxOK
  /\ CursorSound(mem)
  /\ CursorSound(disk)
  /\ BatchOK

\* "Refuses to process messages" when UIDVALIDITY changed: while the state
\* file is about another incarnation nothing is executed, however often the
\* daemon is restarted, and the file stays as it is until someone deletes it.
StaleCursorNeverUsed ==
  [][ (disk.uidvalidity # None /\ ~About(disk)) =>
        /\ \A u \in Uid : runs'[u] <= runs[u]
        /\ redone' \subseteq redone
        /\ disk' \in {disk, EmptyState} ]_vars

\* The durable cursor never goes back and is never forgotten (State::update
\* takes the maximum, restarts begin from the file), except when the operator
\* deletes a file about a mailbox that no longer exists.
DurableCursorAdvances ==
  [][ About(disk) /\ disk.last_seen_uid # None =>
        disk'.last_seen_uid >= disk.last_seen_uid ]_vars

\* Above the cursor (processor.rs, "State update policy") a message is executed
\* again only because a crash or a failed write lost the record that it was done:
\* at most once per such event.  What is executed at or below the cursor is the
\* business of OnlyNewestRefetched.
ExecutionsBounded ==
  \A u \in Uid : runs[u] <= 1 + crashes + diskFails

\* "start:*" answers with the newest message even when its UID is below start, and
\* run_batch does not filter the answer.  No other message is ever executed at or
\* below the cursor: one that is fetched there is the newest in the mailbox and
\* alone in its batch, the cursor does not pass a message that still waits in the
\* batch, and what is executed is of the batch.
OnlyNewestRefetched ==
  [][ \A u \in Uid :
        /\ u \in batch' \ batch /\ u <= mem.last_seen_uid =>
             batch' = {u} /\ \A v \in inbox : v <= u
        /\ u \in batch \cap batch' /\ u <= mem'.last_seen_uid =>
             u <= mem.last_seen_uid
        /\ u = cur' => u \in batch ]_vars

\* Shutdown waits for at most one batch: after the signal no more than
\* batch_size messages are still executed.
ShutdownWithinBatch == late <= BatchSize

Abstract == INSTANCE AtLeastOnce WITH
  top     <- uidnext - 1,
  settled <- Settled,
  cursor  <- IF About(disk) THEN disk.last_seen_uid ELSE None

\* The daemon implements the abstract at-least-once cursor: processor.rs, "State
\* update policy", seen from outside and across restarts.
RefinesAtLeastOnce == Abstract!Spec

-----------------------------------------------------------------------------
(* Liveness, under FairSpec.                                               *)

\* Once the cursor is durable, every later message is settled in the end unless
\* the daemon is told to stop: IDLE's timeout polls even when no EXISTS is seen,
\* and what a truncated or failed batch leaves is fetched again.
EverySettled ==
  \A u \in Uid :
    (u \in inbox /\ About(disk) /\ disk.last_seen_uid # None /\ u > anchor)
      ~> (u \in Settled \/ u >= uidnext \/ pc \in Exited)

\* SIGTERM ends the process, as long as a connection that is up answers: no command of a
\* session is raced with the shutdown (session.rs).
ShutdownCompletes == (pc \in Running /\ permit) ~> pc \notin Running

-----------------------------------------------------------------------------
(* Claims of the documentation that the code does not meet.                *)

\* design.md: the range of the FETCH "ensures we only fetch messages we haven't
\* seen", so what was executed and recorded does not come back.
OnlyUnseenExecuted == \A u \in redone : runs[u] = 0

\* design.md: on a runtime error of the script the message is skipped.
PoisonSkipped ==
  \A u \in Poison :
    (u \in inbox /\ pc = "batch" /\ u \in batch)
      ~> (mem.last_seen_uid >= u \/ u \notin inbox)
=============================================================================
