------------------------------- MODULE Daemon -------------------------------
(***************************************************************************)
(* One imap-sieve daemon watching one mailbox: the Supervisor's reconnect  *)
(* loop, the SessionManager's SELECT / seed / drain / IDLE loop, the       *)
(* MessageProcessor's batch and the StateStore's cursor, composed with the *)
(* server (ImapServer), a network and a disk that fail, process crashes    *)
(* and restarts, and the shutdown signal.                                  *)
(*                                                                         *)
(* The daemon awaits one thing at a time; pc names it.  A step is the code *)
(* between two awaits.  Actions of a script on a message are one step here *)
(* (ActionExecutor opens them up), and so is a persisted update            *)
(* (StateStore opens it up).                                               *)
(***************************************************************************)
EXTENDS ImapServer

CONSTANTS
  BatchSize,       \* [daemon] batch_size
  HasIdle,         \* the server announces IDLE
  UidnextGiven,    \* SELECT reports UIDNEXT
  ServerOrdered,   \* FETCH replies come in ascending UID order
  CanHang,         \* a connection may stop answering without breaking
  Poison,          \* UIDs on which evaluating the script always fails
  MaxFaults,       \* bound: failed commands, lost or hung connections
  MaxDiskFails,    \* bound: failed writes of the state file
  MaxCrashes,      \* bound: crashes of the process
  MaxSignals,      \* bound: SIGTERM / SIGINT received
  MaxRuns          \* bound: executions counted per message (then saturates)

ASSUME DaemonConstants ==
  /\ BatchSize \in Nat \ {0}
  /\ HasIdle \in BOOLEAN
  /\ UidnextGiven \in BOOLEAN
  /\ ServerOrdered \in BOOLEAN
  /\ CanHang \in BOOLEAN
  /\ Poison \subseteq Uid
  /\ MaxFaults \in Nat
  /\ MaxDiskFails \in Nat
  /\ MaxCrashes \in Nat
  /\ MaxSignals \in Nat
  /\ MaxRuns \in Nat \ {0}

VARIABLES
  pc,          \* what the daemon awaits
  permit,      \* the shutdown Notify holds a permit
  link,        \* AsyncImapClient: "none", "up", or "lost" (its session: None)
  hung,        \* the connection is up and the server no longer answers
  mem,         \* StateStore.state
  disk,        \* the state file
  sel,         \* MailboxStatus of the last SELECT
  batch,       \* messages fetched and not yet processed
  cur,         \* message executed whose UID is not yet recorded
  faults, diskFails, crashes, signals,     \* how much of each bound is used
  anchor,      \* history: the last UID there was when last_seen_uid was seeded
  runs,        \* history: runs[u], executions of the script on u, completed
               \*   while last_seen_uid had not passed u
  redone,      \* history: messages executed when last_seen_uid had passed them
  gone,        \* history: messages another client removed
  torn,        \* history: messages a failed execution removed
  late         \* history: executions since the pending signal

linkVars    == <<link, hung>>
stores      == <<mem, disk>>
work        == <<sel, batch, cur>>
budgets     == <<faults, diskFails, crashes, signals>>
history     == <<anchor, runs, redone, gone, torn, late>>
daemonVars  == <<pc, permit, linkVars, stores, work, budgets, history>>
vars        == <<serverVars, daemonVars>>

\* State::default(): what StateStore::open yields when there is no file.
\* selected_mailbox is written and never read, and is left out.
EmptyState == [uidvalidity |-> None, last_seen_uid |-> None, highestmodseq |-> None]

NoStatus == [uidvalidity |-> None, uidnext |-> None, highestmodseq |-> None]

SessionPcs == {"capabilities", "select", "validate", "seed", "fetch", "batch",
               "advance", "idle"}
Exited     == {"exit_ok", "exit_fatal"}
Running    == SessionPcs \cup {"connecting", "pausing"}
Pcs        == Running \cup Exited \cup {"down"}

Init ==
  /\ ServerInit
  /\ pc = "down"
  /\ permit = FALSE
  /\ link = "none"
  /\ hung = FALSE
  /\ mem = EmptyState
  /\ disk = EmptyState
  /\ sel = NoStatus
  /\ batch = {}
  /\ cur = None
  /\ faults = 0 /\ diskFails = 0 /\ crashes = 0 /\ signals = 0
  /\ anchor = None
  /\ runs = [u \in Uid |-> 0]
  /\ redone = {}
  /\ gone = {}
  /\ torn = {}
  /\ late = 0

-----------------------------------------------------------------------------
\* The server answers commands on this connection.
Answered == link = "up" /\ ~hung

Fault == faults < MaxFaults /\ faults' = faults + 1

\* A command fails: by itself, or because the client has lost its session.
FaultOrLost == Fault \/ (link = "lost" /\ UNCHANGED faults)

\* session.run() returns an error other than UidValidityChanged: the
\* supervisor computes a delay and sleeps.
SessionFails == pc' = "pausing" /\ sel' = NoStatus /\ batch' = {} /\ cur' = None

\* StateStore::update: memory changes first, then the file is replaced; a
\* failure to write it fails the session with the change kept in memory.
Update(s, rest) ==
  /\ mem' = s
  /\ \/ disk' = s /\ rest /\ UNCHANGED diskFails
     \/ /\ diskFails < MaxDiskFails
        /\ diskFails' = diskFails + 1
        /\ disk' = disk
        /\ SessionFails

-----------------------------------------------------------------------------
(* Process life cycle: daemon.rs, the service manager and the operator.    *)

\* run(): the state file is loaded and the supervisor starts connecting.
Start ==
  /\ pc = "down"
  /\ pc' = "connecting"
  /\ mem' = disk
  /\ UNCHANGED <<serverVars, permit, linkVars, disk, work, budgets, history>>

\* The process ends with the connection and everything in memory.
Dies(to) ==
  /\ pc' = to
  /\ permit' = FALSE
  /\ link' = "none" /\ hung' = FALSE
  /\ sel' = NoStatus /\ batch' = {} /\ cur' = None
  /\ late' = 0

Crash ==
  /\ pc \in Running
  /\ crashes < MaxCrashes
  /\ crashes' = crashes + 1
  /\ Dies("down")
  /\ mem' = EmptyState
  /\ UNCHANGED <<serverVars, disk, faults, diskFails, signals,
                 anchor, runs, redone, gone, torn>>

\* The one-shot signal task: notify_one stores a permit.
Signal ==
  /\ pc \in Running
  /\ ~permit
  /\ signals < MaxSignals
  /\ signals' = signals + 1
  /\ permit' = TRUE
  /\ UNCHANGED <<serverVars, pc, linkVars, stores, work, faults, diskFails,
                 crashes, history>>

\* Mutant: only the IDLE loop looks at the permit.
ShutdownSeen_IdleOnly ==
  /\ pc = "idle"
  /\ permit
  /\ Dies("exit_ok")
  /\ UNCHANGED <<serverVars, stores, budgets, anchor, runs, redone, gone, torn>>

\* A shutdown arm of a select!: while connecting, sleeping or in IDLE.
ShutdownSeen ==
  /\ pc \in {"connecting", "pausing", "idle"}
  /\ permit
  /\ Dies("exit_ok")
  /\ UNCHANGED <<serverVars, stores, budgets, anchor, runs, redone, gone, torn>>

\* The operator starts the daemon again; after the fatal exit only once the
\* state file is deleted or, in vain, with the file as it was.
Relaunch ==
  /\ pc \in Exited
  /\ pc' = "down"
  /\ mem' = EmptyState
  /\ \/ disk' = disk
     \/ pc = "exit_fatal" /\ disk' = EmptyState
  /\ UNCHANGED <<serverVars, permit, linkVars, work, budgets, history>>

-----------------------------------------------------------------------------
(* Supervisor::run                                                         *)

ConnectOk ==
  /\ pc = "connecting"
  /\ ~permit
  /\ pc' = "capabilities"
  /\ link' = "up" /\ hung' = FALSE
  /\ UNCHANGED <<serverVars, permit, stores, work, budgets, history>>

ConnectFails ==
  /\ pc = "connecting"
  /\ ~permit
  /\ Fault
  /\ pc' = "pausing"
  /\ UNCHANGED <<serverVars, permit, linkVars, stores, work, diskFails, crashes,
                 signals, history>>

\* The backoff sleep ends; the old client is dropped with its connection.
Resume ==
  /\ pc = "pausing"
  /\ pc' = "connecting"
  /\ link' = "none" /\ hung' = FALSE
  /\ UNCHANGED <<serverVars, permit, stores, work, budgets, history>>

-----------------------------------------------------------------------------
(* SessionManager::run                                                     *)

\* CAPABILITY; a server without IDLE fails the session (MissingCapability).
CheckCapabilities ==
  /\ pc = "capabilities"
  /\ Answered
  /\ pc' = IF HasIdle THEN "select" ELSE "pausing"
  /\ UNCHANGED <<serverVars, permit, linkVars, stores, work, budgets, history>>

Select ==
  /\ pc = "select"
  /\ Answered
  /\ sel' = [uidvalidity   |-> uidvalidity,
             uidnext       |-> IF UidnextGiven THEN uidnext ELSE 0,
             highestmodseq |-> IF HasCondstore THEN highestmodseq ELSE None]
  /\ push' = FALSE
  /\ pc' = "validate"
  /\ UNCHANGED <<uidvalidity, uidnext, inbox, modseq, highestmodseq, permit,
                 linkVars, stores, batch, cur, budgets, history>>

\* Mutant: only a missing UIDVALIDITY is ever looked at.
Outdated_Unchecked(s, status) == s.uidvalidity # None /\ status.uidvalidity = None

\* The state file is about another incarnation of the mailbox.
Outdated(s, status) == s.uidvalidity # None /\ s.uidvalidity # status.uidvalidity

\* What SELECT reported, recorded.
Recorded(s, status) ==
  [s EXCEPT !.uidvalidity = status.uidvalidity,
            !.highestmodseq = IF status.highestmodseq # None
                              THEN status.highestmodseq ELSE @]

\* A mismatch is fatal: the process exits with code 2.
Validate ==
  /\ pc = "validate"
  /\ UNCHANGED <<serverVars, faults, crashes, signals, anchor, runs, redone, gone, torn>>
  /\ \/ /\ Outdated(mem, sel)
        /\ Dies("exit_fatal")
        /\ UNCHANGED <<stores, diskFails>>
     \/ /\ ~Outdated(mem, sel)
        /\ Update(Recorded(mem, sel), pc' = "seed" /\ UNCHANGED work)
        /\ UNCHANGED <<permit, linkVars, late>>

\* Mutant: off by one.
SeedOf_Uidnext(status) == status.uidnext

\* UIDNEXT - 1, saturating.
SeedOf(status) == IF status.uidnext = 0 THEN 0 ELSE status.uidnext - 1

\* On the first run last_seen_uid is anchored so that mail already there is
\* skipped.
Seed ==
  /\ pc = "seed"
  /\ \/ /\ mem.last_seen_uid = None
        /\ Update([mem EXCEPT !.last_seen_uid = SeedOf(sel)],
                  pc' = "fetch" /\ sel' = NoStatus /\ UNCHANGED <<batch, cur>>)
        /\ anchor' = IF sel.uidnext = 0 THEN 0 ELSE sel.uidnext - 1
     \/ /\ mem.last_seen_uid # None
        /\ pc' = "fetch"
        /\ sel' = NoStatus
        /\ UNCHANGED <<stores, batch, cur, diskFails, anchor>>
  /\ UNCHANGED <<serverVars, permit, linkVars, faults, crashes, signals,
                 runs, redone, gone, torn, late>>

\* CAPABILITY, SELECT or FETCH fails, for instance because the previous IDLE
\* lost the session.
CommandFails ==
  /\ pc \in {"capabilities", "select", "fetch"}
  /\ FaultOrLost
  /\ SessionFails
  /\ UNCHANGED <<serverVars, permit, linkVars, stores, diskFails, crashes,
                 signals, history>>

-----------------------------------------------------------------------------
(* MessageProcessor::run_batch                                             *)

\* Mutant: the last message is part of the range.
RangeStart_Inclusive(s) == s.last_seen_uid

\* First UID of the range "start:*".
RangeStart(s) == s.last_seen_uid + 1

\* CHANGEDSINCE value, if any.
ChangedSince == IF HasCondstore THEN mem.highestmodseq ELSE None

\* Mutant: the newest messages are kept.
Truncations_Newest(found) ==
  {b \in SUBSET found :
     /\ Cardinality(b) <= BatchSize
     /\ Cardinality(b) < BatchSize => b = found
     /\ \A x \in b, y \in found \ b : x > y}

\* At most batch_size of the messages answered, the first ones.
Truncations(found) ==
  {b \in SUBSET found :
     /\ Cardinality(b) <= BatchSize
     /\ Cardinality(b) < BatchSize => b = found
     /\ ServerOrdered => \A x \in b, y \in found \ b : x < y}

\* The response may carry an EXISTS; async-imap sets it aside and nobody
\* reads it.
Fetch ==
  /\ pc = "fetch"
  /\ Answered
  /\ batch' \in Truncations(Matches(RangeStart(mem), ChangedSince))
  /\ pc' = "batch"
  /\ push' \in {push, FALSE}
  /\ UNCHANGED <<uidvalidity, uidnext, inbox, modseq, highestmodseq, permit,
                 linkVars, stores, sel, cur, budgets, history>>

IsNext(u) == u \in batch /\ (ServerOrdered => \A v \in batch : u <= v)

Count(n, bound) == IF n < bound THEN n + 1 ELSE n

\* The script's actions on u succeed: u stays in the mailbox or leaves it
\* (fileinto, discard).  On a UID that is gone the server's answer is OK too.
Execute(u) ==
  /\ pc = "batch"
  /\ IsNext(u)
  /\ u \notin Poison
  /\ \/ UNCHANGED <<inbox, push>>
     \/ /\ Answered
        /\ inbox' = inbox \ {u}
        /\ push' \in {push, FALSE}
  /\ IF u > mem.last_seen_uid
     THEN runs' = [runs EXCEPT ![u] = Count(@, MaxRuns)] /\ UNCHANGED redone
     ELSE redone' = redone \cup {u} /\ UNCHANGED runs
  /\ late' = IF permit THEN Count(late, BatchSize + 1) ELSE late
  /\ cur' = u
  /\ pc' = "advance"
  /\ UNCHANGED <<uidvalidity, uidnext, modseq, highestmodseq, permit, linkVars,
                 stores, sel, batch, budgets, anchor, gone, torn>>

\* Mutant: the UID just processed, without the maximum.
Advanced_Latest(s, u) == [s EXCEPT !.last_seen_uid = u]

\* Mutant: the current mod-sequence is recorded as well.
Advanced_Modseq(s, u) ==
  [s EXCEPT !.last_seen_uid = IF u > @ THEN u ELSE @,
            !.highestmodseq = highestmodseq]

\* last_seen_uid never goes back, whatever order messages come in.
Advanced(s, u) ==
  [s EXCEPT !.last_seen_uid = IF u > @ THEN u ELSE @]

\* Mutant: the state is written after the last message of a batch only.
Advance_AtBatchEnd ==
  /\ pc = "advance"
  /\ \/ /\ batch = {cur}
        /\ Update(Advanced(mem, cur),
                  pc' = "batch" /\ batch' = {} /\ cur' = None /\ UNCHANGED sel)
     \/ /\ batch # {cur}
        /\ pc' = "batch" /\ batch' = batch \ {cur} /\ cur' = None
        /\ UNCHANGED <<stores, sel, diskFails>>
  /\ UNCHANGED <<serverVars, permit, linkVars, faults, crashes, signals, history>>

Advance ==
  /\ pc = "advance"
  /\ Update(Advanced(mem, cur),
            /\ pc' = "batch"
            /\ batch' = batch \ {cur}
            /\ cur' = None
            /\ UNCHANGED sel)
  /\ UNCHANGED <<serverVars, permit, linkVars, faults, crashes, signals, history>>

\* Mutant: a failed message is logged and the loop goes on with the next.
MessageFails_Continues(u) ==
  /\ pc = "batch"
  /\ IsNext(u)
  /\ IF u \in Poison THEN UNCHANGED faults ELSE Fault
  /\ batch' = batch \ {u}
  /\ UNCHANGED <<serverVars, pc, permit, linkVars, stores, sel, cur, diskFails,
                 crashes, signals, history>>

\* Evaluating or executing fails: the rest of the batch is dropped, the
\* results are ignored and the daemon idles.  A failed execution may already
\* have moved the message away, and may be the sign of a broken connection.
MessageFails(u) ==
  /\ pc = "batch"
  /\ IsNext(u)
  /\ \/ /\ u \in Poison
        /\ UNCHANGED <<inbox, torn, link, faults>>
     \/ /\ u \notin Poison
        /\ Fault
        /\ \/ UNCHANGED <<inbox, torn>>
           \/ /\ Answered
              /\ inbox' = inbox \ {u}
              /\ torn' = IF u \in inbox THEN torn \cup {u} ELSE torn
        /\ link' \in {link, "lost"}
  /\ pc' = "idle"
  /\ batch' = {}
  /\ UNCHANGED <<uidvalidity, uidnext, modseq, highestmodseq, push, permit, hung,
                 stores, sel, cur, diskFails, crashes, signals,
                 anchor, runs, redone, gone, late>>

BatchDone ==
  /\ pc = "batch"
  /\ batch = {}
  /\ pc' = "idle"
  /\ UNCHANGED <<serverVars, permit, linkVars, stores, work, budgets, history>>

-----------------------------------------------------------------------------
(* IDLE                                                                    *)

\* Mutant: the shutdown arm does not come first.
Wakes_Unbiased ==
  /\ pc = "idle"
  /\ Answered
  /\ pc' = "fetch"
  /\ UNCHANGED <<uidvalidity, uidnext, inbox, modseq, highestmodseq, permit,
                 linkVars, stores, work, budgets, history>>

\* IDLE returns an event; the DONE that follows may lose the session.
Wakes ==
  /\ pc = "idle"
  /\ ~permit
  /\ Answered
  /\ pc' = "fetch"
  /\ \/ UNCHANGED <<link, faults>>
     \/ link' = "lost" /\ Fault
  /\ UNCHANGED <<uidvalidity, uidnext, inbox, modseq, highestmodseq, permit, hung,
                 stores, work, diskFails, crashes, signals, history>>

\* The server announces changes.
IdleExists == push /\ push' = FALSE /\ Wakes

\* Mutant: the timeout re-enters IDLE without polling.
IdleTimeout_NoPoll == pc = "idle" /\ ~permit /\ Answered /\ UNCHANGED vars

\* 29 minutes pass.
IdleTimeout == UNCHANGED push /\ Wakes

IdleFails ==
  /\ pc = "idle"
  /\ ~permit
  /\ FaultOrLost
  /\ SessionFails
  /\ UNCHANGED <<serverVars, permit, linkVars, stores, diskFails, crashes,
                 signals, history>>

-----------------------------------------------------------------------------
(* The surroundings: mail, other clients, the network                      *)

Hang ==
  /\ CanHang
  /\ Answered
  /\ Fault
  /\ hung' = TRUE
  /\ UNCHANGED <<serverVars, pc, permit, link, stores, work, diskFails, crashes,
                 signals, history>>

MailArrives == Deliver /\ UNCHANGED daemonVars

FlagsChange(u) == Touch(u) /\ UNCHANGED daemonVars

OthersRemove(u) ==
  /\ Withdraw(u)
  /\ gone' = gone \cup {u}
  /\ UNCHANGED <<pc, permit, linkVars, stores, work, budgets,
                 anchor, runs, redone, torn, late>>

\* Not while a session has the mailbox selected; the history starts over.
MailboxRecreated ==
  /\ pc \notin SessionPcs \ {"capabilities", "select"}
  /\ Recreate
  /\ anchor' = None
  /\ runs' = [u \in Uid |-> 0]
  /\ redone' = {}
  /\ gone' = {}
  /\ torn' = {}
  /\ UNCHANGED <<pc, permit, linkVars, stores, work, budgets, late>>

-----------------------------------------------------------------------------
Processing == \E u \in Uid : Execute(u) \/ MessageFails(u)

\* What the daemon and the service manager do when nothing else interferes.
Progress ==
  \/ Start \/ ShutdownSeen
  \/ ConnectOk \/ ConnectFails \/ Resume
  \/ CheckCapabilities \/ Select \/ Validate \/ Seed \/ CommandFails
  \/ Fetch \/ Processing \/ Advance \/ BatchDone
  \/ IdleExists \/ IdleTimeout \/ IdleFails

Surroundings ==
  \/ Crash \/ Signal \/ Relaunch \/ Hang
  \/ MailArrives
  \/ \E u \in Uid : FlagsChange(u) \/ OthersRemove(u)
  \/ MailboxRecreated

Next == Progress \/ Surroundings

Spec == Init /\ [][Next]_vars

\* Every await ends and the service manager restarts a crashed daemon.  The
\* server, the network, the user and the signals owe nothing.
FairSpec == Spec /\ WF_vars(Progress)
=============================================================================
