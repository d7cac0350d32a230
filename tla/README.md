# imap-sieve-client: TLA+ specifications

imap-sieve is a daemon that watches one IMAP mailbox, runs the user's Sieve
script on every message that arrives and carries out what the script says
through IMAP commands and an SMTP relay. This directory holds TLA+ models of the
parts where order, failure and restarts decide whether mail is handled, skipped,
repeated or lost; the TLC configurations that check them on small instances; and
proofs, checked by TLAPS, that hold for every value of the constants.

`PROJECT.json` is the index: runs, mutants, the source lines behind each
definition, findings, hazards and theorems.

```
tlc -workers 2 -config DaemonSafety.cfg DaemonProps.tla     # any run: see PROJECT.json
tlapm DaemonProofs.tla                                       # any module named ...Proofs
```

## 1. The system

### Inventory

All paths are under `src/crates/imap-sieve-core/src/` unless said otherwise.

| component | state | operations | talks to | modelled in |
|---|---|---|---|---|
| `Supervisor`, `Backoff` (`session.rs`) | the shutdown `Notify`, the attempt counter | `run`: connect, session, backoff, shutdown; `next_delay`, `reset` | the connector, `SessionManager` | `Daemon` (sessions), `Supervisor` (everything around them) |
| `SessionManager` (`session.rs`) | none of its own; the status of the last SELECT while it starts | `run`: CAPABILITY, SELECT, UIDVALIDITY check, seeding, drain, IDLE loop | `ImapClient`, `MessageProcessor`, `StateStore` | `Daemon` |
| `MessageProcessor` (`processor.rs`) | the batch, the message in hand | `run_batch` | `ImapClient`, engine, executor, `StateStore` | `Daemon` |
| `StateStore` (`state.rs`) | a `State` in memory, the state file, a temporary file | `open`, `get`, `update` | the file system | `StateStore` (in detail), `Daemon` (atomic) |
| `ActionExecutor` (`action_executor.rs`), `move_with_fallback` (`imap_client.rs`) | the `discarded` flag, the position in the action list | `execute` | `ImapClient`, `MailSender` | `ActionExecutor` |
| `SieveEngine` (`sieve_engine.rs`) | the compiled script | `compile`, `evaluate` | the sieve-rs interpreter | `SieveEngine`, composed in `Rules` |
| header parsing (`types.rs`), `envelope_from` (`imap_client.rs`) | none, pure | `parse_headers`, `addr_to_string` | | `Headers`, composed in `Rules` |
| `LettreMailSender` (`smtp_sender.rs`) | the relay | `send` | SMTP | partly: `ActionExecutor`, `Headers` |
| `ScriptLoader`, the file watcher (`script_loader.rs`) | the shared current script, the watcher's channel | `load`, `reload`, `spawn_watcher`, drop of the guard | the file system, `MessageProcessor` | `ScriptLoader` |
| `AsyncImapClient` (`imap_client.rs`) | a session slot that `idle()` may leave empty | `connect`, one method per IMAP command | the server | partly: `Supervisor` (connecting), `Daemon` (`link`), `ImapServer` |
| start, signals, exit (`crates/imap-sieve/src/daemon.rs`) | | `run`, exit codes, the signal task, the connector | all of the above | `Supervisor`, `Daemon` |
| `config` (`crates/config/src/lib.rs`) | none after start | load, validate, `resolve_password` | the password command | partly: `Config` |
| command line (`crates/imap-sieve/src/main.rs`), `status`, `check`, `test-rule` | | argument dispatch, reading and printing | | no: plain I/O |

The daemon is one task that awaits one thing at a time, plus a signal task that
stores a permit in a `Notify` and a watcher thread that swaps the script. What
runs concurrently with it is outside: the server delivers mail, other clients
move, flag and expunge it, connections break or stop answering, the disk refuses
writes, the process is killed and started again, the operator deletes the state
file, somebody recreates the mailbox. The hard behaviour is in how few values
connect one session to the next - `uidvalidity`, `last_seen_uid`,
`highestmodseq` - and in when each is written relative to the work it stands for.

### What makes each part correct

* **Daemon.** A message that arrives after the first start is executed at least
  once, or has left the mailbox (`NoSkip`, `EverySettled`); above the cursor it is
  executed again only when a record was lost (`ExecutionsBounded`), at or below it only
  as the newest message of the mailbox (`OnlyNewestRefetched`); a
  cursor for another incarnation of the mailbox is never used
  (`StaleCursorNeverUsed`); the durable cursor only moves forward
  (`DurableCursorAdvances`); a signal ends the process soon (`ShutdownCompletes`,
  `ShutdownWithinBatch`).
* **StateStore.** `update` is atomic, durable against crashes and whole after power cuts
  (`ImplementsDurableState`), and no crash or power cut leaves a file that the next
  start refuses (`NeverCorrupt`).
* **From message to disposition** (headers, engine, executor). No sequence of failures loses
  the mail (`NeverLost`); Ok means what the script says (`OkMeansScript`); the header is read
  exactly, whatever is folded, repeated or cut off (`HeadersExact`); no execution delivers anything
  twice, and another one needs a failed command or a message that is fetched again
  (`RepeatsAccountedFor`); and what can be done is done in the end (`EventuallyDone`).
* **ScriptLoader.** A batch is evaluated with one script (`OneScriptPerBatch`); the script in use
  only ever gets newer (`NeverGoesBack`) and is the file's when the thread has caught up
  (`CaughtUp`, `LastSaveLoaded`); reloading does not feed itself (`ComesToRest`); the daemon can
  stop (`StopCompletes`).
* **Supervisor.** A password leaves in clear only when asked for (`PasswordOnlyOverTls`) and is
  never an old one (`NeverStalePassword`); waits grow within their bounds (`BackedOff`); nothing
  ends the daemon unasked but a changed UIDVALIDITY (`RunsUntilAsked`); a signal ends it, also
  while a server leaves a connection attempt hanging, unless a session waits for ever for the
  answer to a command (`ShutdownCompletes`).

`PROJECT.json` lists each hazard of the code at its line with the property that
looks after it.

## 2. The modules

```
ImapServer   <- Daemon <- DaemonProps <- DaemonProofs <- DaemonBoundsProofs   (EXTENDS)
AtLeastOnce  is what Daemon implements                       (INSTANCE in DaemonProps)
StateStore   <- StateStoreProofs
DurableState is what StateStore implements                   (INSTANCE in StateStore)
ActionExecutor, SieveEngine, Headers <- Rules <- MCRules
                  Rules <- SieveEngineProofs <- HeadersProofs <- RulesProofs
ScriptLoader <- ScriptLoaderProofs
Config <- Supervisor <- MCSupervisor
          Supervisor <- SupervisorProofs
```

**`ImapServer`** is the mailbox as the daemon sees it. It is external: everything in
it is what `imap_client.rs` relies on. A message is its UID. `modseq` exists for
`CHANGEDSINCE`. `push` says that some change has not been announced to the daemon.
As in RFC 3501, `n:*` includes the last message of the mailbox whatever its UID (`Matches`).

**`Daemon`** composes the supervisor, the session, the processor and the cursor with
that server and with faults. `pc` names what the code awaits:

| `pc` | the await | actions |
|---|---|---|
| `down` | no process | `Start` |
| `connecting` | `connect()` raced with shutdown | `ConnectOk`, `ConnectFails`, `ShutdownSeen` |
| `pausing` | the backoff sleep raced with shutdown | `Resume`, `ShutdownSeen` |
| `capabilities` | CAPABILITY | `CheckCapabilities`, `CommandFails` |
| `select` | SELECT | `Select`, `CommandFails` |
| `validate` | the first `update` | `Validate` |
| `seed` | the second `update`, on the first run | `Seed` |
| `fetch` | UID FETCH of `run_batch` | `Fetch`, `CommandFails` |
| `batch` | evaluation and execution of the next message | `Execute`, `MessageFails`, `BatchDone` |
| `advance` | the `update` after a message | `Advance` |
| `idle` | IDLE raced with shutdown (biased) | `IdleExists`, `IdleTimeout`, `IdleFails`, `ShutdownSeen` |
| `exit_ok`, `exit_fatal` | the process has returned 0, or 2 | `Relaunch` |

`mem` is `StateStore.state`, `disk` the file; `Update` changes the first, then the
second or, when the write fails, neither the file nor anything else but the session.
`link = "lost"` is the empty session slot that `idle()` leaves behind when DONE fails.
`permit` is the stored notification. `anchor`, `runs`, `redone`, `gone`, `torn` and `late` are
history: nothing the daemon does depends on them. `runs` counts the executions of a message while
the cursor had not passed it, `redone` has those that were executed when it had.

**`DaemonProps`** states what is claimed of `Daemon`, the inductive invariant, the
refinement mapping to **`AtLeastOnce`** (a cursor that passes settled messages only),
and the claims of the documentation that the code does not meet.

**`StateStore`** opens `Update` up: create, write, sync, rename, each of which can
fail, with a crash between any two and a file system that writes out directory and
data when it likes. **`DurableState`** is the atomic store `Daemon` uses, with a power cut that goes
back to the last state flushed.

**`ActionExecutor`** opens `Execute` and `MessageFails` up: both passes of `execute`,
`move_with_fallback` and the final discard, command by command, each failing before
or after it took effect, other clients expunging what is marked, the retries
that follow from a cursor that has not moved (`Retry`), and the executions of a message that was
answered Ok and is fetched again (`ComesBack`): as the newest one, by `start:*`, or because a crash or a
failed write lost the record. `faults` and `returns` count what makes an execution begin again.

**`SieveEngine`** is `evaluate`. A program is the list of statements whose tests held; sieve-rs,
which is external, turns it into events (`Events`: the implicit keep is what is left at the end
unless something cancelled it), and `Evaluate` turns those into actions, supplies the keep,
and recovers `:copy`. The interpreter is a recursive function of the number of statements
handled (`Interpret`), so that it can be reasoned about. **`Headers`** is `parse_headers` and the sender derived from it: a message is a
list of lines, a line a list of tokens, of which only blanks, colons, brackets, commas and `@`
matter. Both passes of the parser are recursive functions of the number of lines handled. **`Rules`** composes the two with the executor: a case is a message and a program, `RInit`
evaluates it, and the properties are stated of the program and of the message, so that a wrong
action list counts as a failure just as a wrong command does. **`MCRules`** gives the cases.

**`ScriptLoader`** has four actors: the main task (load, compile, register the watcher, one snapshot
per batch, drop the guard), the watcher thread (receive, filter, read, compile, swap), the
editor (rename into place, or truncate and write, or remove) and the kernel's event
queue, which may overflow. A text is known by the save it comes from and by whether all of
it is there, so that half-written scripts are states of the model.

**`Supervisor`** is the process around its sessions. `phase` goes through the start in the
order of `run()` (`config`, `script`, `watcher`, `store`, `smtp`), through a connection (`connect`,
`secret`, `tcp`, `starttls`, `handshake`, `login`), through a session (`session`, the commands up to
the first IDLE; `idle`; `batch`, the commands after a wake-up) and `sleeping` until it is
`returned` (from `run`, with the runtime still to be dropped) and `exited`. The signal is taken in
the phases of `Interruptible` only: of a session that is `idle`. `vault` is what
the password command would print now; `attempt` is the backoff's counter with its width as a
constant. **`Config`** holds the file's required keys, defaults, `validate` and the choice of the
secret; **`MCSupervisor`** the files: each way of connecting with each source of the password, delays
and jitters at their limits, relays, and eleven files that are refused.

Operators named `X_Something` are mutants: the form the definition `X` would have
under a plausible bug. No model uses them.

## 3. The runs

Bounds common to the `Daemon` runs: two or three messages (enough for a batch that is
truncated, for a failing message between two others and for a newest message that
comes back), batches of one to three, one incarnation of the mailbox (two in
`DaemonSafety`), and one or two of each fault. `MaxRuns` saturates the
history of executions; it is at least one more than the property can tell apart. No
symmetry is used: UIDs are ordered.

| run | bounds | what it shows |
|---|---|---|
| `DaemonSafety` | RFC 3501 server, 3 messages, batch 2, 2 incarnations, 1 fault (also a hung connection), 1 failed write, 1 crash | types, the inductive invariant, nothing is skipped, the durable cursor never goes back, a stale one is never used, at or below the cursor only the newest message is executed, and alone; the daemon refines `AtLeastOnce` |
| `DaemonRepeats` | RFC 3501 server without UIDNEXT, 2 crashes, 1 failed write, `MaxRuns` 5 | executions above the cursor <= 1 + crashes + failed writes |
| `DaemonLiveness` | 3 messages, batch 2, 1 fault, 1 crash, 1 signal; fair; the server answers | every message is settled in the end; a signal ends the process, after at most one batch |
| `CondstoreOneSession` | CONDSTORE, a message that always fails, no faults | within one session CHANGEDSINCE hides nothing |
| `StoreDurability` | 3 states, 2 power cuts, any number of failures and crashes | types, the file is never rubbish, the store refines `DurableState` |
| `Executor` | scripts of up to two dispositions after a prologue and before a keep or discard; messages of up to three lines from seven; every combination of MOVE and UIDPLUS; 2 failing commands, 1 return after an Ok; fair | types, `NeverLost`, `OkMeansScript`, `HeadersExact`, `RepeatsAccountedFor`, `EventuallyDone` |
| `HotReload` | 4 saves, the second of which does not compile, while half-written ones do; 1 overflow; fair | types, `OneScriptPerBatch`, `CaughtUp`, `NeverGoesBack`, `LastSaveLoaded`, `ComesToRest`, `StopCompletes` |
| `Supervisor` | 37 configuration files, counters 3 bits wide, 2 rotations of the password, any number of failures; fair | types, `PasswordOnlyOverTls`, `NeverStalePassword`, `BackedOff`, `RunsUntilAsked`, `ShutdownCompletes` |

Two failing commands are enough for a failure in a retry of a script of two dispositions, and three
lines for a field, its continuation and the end of the header or a second field in any order. With one
return the bound of `RepeatsAccountedFor` is 8 copies for two filings into one folder; `MaxCount` is 9.
Four saves let one be written while another is compiled and a third waits in the queue, with a broken
one among them. With three bits the backoff's counter saturates after seven failures, as the
code's does after 32, so that its limit is reached and passed.

Signals are left out of `DaemonSafety`: to the cursor a shutdown is a crash at a few chosen
places. Deadlock is checked except where the system may stop: a hung connection holds the
daemon for good (`DaemonSafety`), and a message that was carried out, or has left the mailbox,
leaves `ActionExecutor` nothing to do; a script that is not saved any more, and a process that has
exited, change no further (`HotReload`, `Supervisor`).

### Where code and documents disagree

Each of these runs checks one sentence of the documentation or of a comment, and TLC
finds a behaviour of the model that breaks it. The quotations are in `PROJECT.json`.

| run | what the code does |
|---|---|
| `CondstoreLoss` | `highestmodseq` is saved at SELECT, before the drain, and the drain then asks for `CHANGEDSINCE` that value: mail that came while the daemon was down, or was left over by a failed batch, is not answered and the cursor later passes it |
| `StarRefetch` | each wake-up without new mail executes the newest message again, because `n:*` includes it and the answer is not filtered; for the same reason the drain of the first run executes the newest existing message |
| `PoisonMessage` | a message on which the script fails is not skipped and holds up all later mail |
| `MissedSave` | the script is read before the directory is watched: a save between the two is not noticed until the next one |

`CondstoreLoss` checks `NoSkip`, which holds in `DaemonSafety` and `CondstoreOneSession`: the difference
in the constants is the precondition of the loss.

Other places where the models behave unlike the documents, without a run of their own:

* a signal lets the rest of the batch run, not just the current message (`docs/design.md:366`);
  `ShutdownWithinBatch` is what does hold;
* after a failed write a signal during the backoff sleep ends the process cleanly with the cursor in
  memory only (`ShutdownSeen` leaves `disk` alone);
* no command but IDLE is raced with the signal or has a timeout: with `CanHang = TRUE`
  `ShutdownCompletes` fails;
* a server without IDLE is reconnected to for ever (`docs/design.md:308` says that the daemon fails);
* the directory is not synced after the rename, so a power cut may take back an answered update:
  `DurableState` has a `PowerCut` that allows this and nothing worse;
* if FETCH answers out of UID order (`ServerOrdered = FALSE`), a failing lower UID ends up behind the
  cursor and `NoSkip` fails, although `processor.rs:31-32` says that it is processed again;
* an EXISTS that comes with another response than IDLE's is read by nobody, where `docs/design.md:156`
  says that it is queued and checked; the mail waits for the next push or the 29 minutes;
* what fails after a move is not retried, since the message has left the mailbox: the same comment of
  `processor.rs`, and the exception in `EventuallyDone`;
* of several `fileinto` whose keep is cancelled, by a last one without `:copy` or by a redirect, reject or
  discard, all move and only the first files; the others are answered OK. `README.md:131` names only
  the case of a move before a `:copy`. `Supported` in `Rules` leaves these scripts out of `OkMeansScript`;
* two `Return-Path` fields are joined and stripped of the outermost brackets, which is not the bare
  address the comment at `imap_client.rs:494-496` expects: redirects and rejects of such a
  message fail for good. A null `<>` counts as missing, and the `From` address takes its place;
* `types.rs:14-15` says that the parsed headers are for inspection only; the envelope sender
  comes from them;
* session errors are retried for ever, where `session.rs:396-398` speaks of exhausted retries; since a
  login resets the backoff, a session that fails at once is retried after the first delay every time;
* where the delay is capped the jitter only shortens it, so it is not centred as `session.rs:29-31` says;
* a password command that hangs holds the start (the relay's) or the exit (the mailbox's: the runtime
  waits for its blocking threads), and a second signal does nothing;
* `test-rule` evaluates without an envelope, so tests of `envelope` may come out differently in the daemon.

## 4. Fairness

`FairSpec` is `WF_vars(Progress)`: as long as some step of the daemon or of the service
manager is possible, one is taken in the end. The code justifies it because the daemon is a
single task and every await in it ends: IDLE after 29 minutes (`IDLE_TIMEOUT`), the backoff
sleep after its capped delay, a command when the server answers or the connection breaks.
`Start` is in it because the daemon is meant to run under a service manager that restarts it.
Nothing is assumed of the server, the network, other clients, the operator or signals; a hung
connection disables the steps that need an answer (`Answered`), and `DaemonLiveness` says in its
constants that there is none. Failures are in `Progress` as well but bounded, so that they cannot go on
for ever. For `ActionExecutor`, fairness says that commands end and that a message that failed
is tried again; the latter is what `EverySettled` shows of `Daemon`. Nothing brings back a message that was
carried out (`ComesBack` is not in `Execution`). For `ScriptLoader`, the watcher
thread is scheduled and the main task gets through its start and its end; nothing is owed by
the editor, the kernel, batches or signals. For `Supervisor`, the daemon's own steps are taken, timers
expire and password commands end; the server owes nothing, not even an answer: the commands of a
session may wait for ever (`SessionAnswers` is not in `Own`), which is why `ShutdownCompletes` has an alternative.

## 5. The proofs

TLAPS checks these for every value of the constants: every mailbox and batch size, every bound on
faults, crashes, signals, saves, rotations and failures, every set of failing messages, every
message and script.

| theorem | states | assumes |
|---|---|---|
| `TypeCorrect` | `Spec => []TypeOK` | nothing of the server |
| `CursorAdvances` | `Spec => DurableCursorAdvances` | nothing of the server |
| `StaleNeverUsed` | `Spec => StaleCursorNeverUsed` | nothing of the server |
| `OldMailIsNewest` | `Spec => OnlyNewestRefetched` | FETCH answers in UID order |
| `IInvHolds`, `NothingSkipped` | `Spec => []IInv`, `Spec => []NoSkip` | no CONDSTORE, FETCH answers in UID order |
| `Refinement` | `Spec => RefinesAtLeastOnce` | the same |
| `NothingSkippedInOneSession` | `Spec => [](Undisturbed => NoSkip)` | CONDSTORE or not; FETCH answers in UID order, SELECT reports UIDNEXT |
| `ShutdownWaitsForOneBatch` | `Spec => []ShutdownWithinBatch` | nothing of the server |
| `RepeatsArePaidFor` | `Spec => []ExecutionsBounded` | nothing of the server |
| `StoreTypeCorrect`, `FileNeverCorrupt` | type, `Spec => []NeverCorrupt` | nothing; any number of power cuts |
| `StoreRefines` | `Spec => ImplementsDurableState` | nothing; any number of power cuts |
| `LoaderTypeCorrect`, `BatchesUseOneScript`, `WatcherCatchesUp`, `ScriptNeverGoesBack` | types, `OneScriptPerBatch`, `CaughtUp`, `NeverGoesBack` | nothing; any saves may fail to compile |
| `SupervisorTypeCorrect`, `PasswordStaysPrivate`, `PasswordIsFresh`, `BackoffBounded`, `RunsUntilItIsAsked` | types, `PasswordOnlyOverTls`, `NeverStalePassword`, `BackedOff`, `RunsUntilAsked` | the fields of the files have their types |
| `Evaluation`, `NothingTwice` | what `Evaluate` makes of any script, and how often | a script is a sequence of statements |
| `ParseExact` | what `ParseHeaders` makes of any lines, for any name | a line is a sequence of `Tokens`, which include a blank, a comma and `return-path` |
| `ExecutorTypeCorrect`, `NoMailIsLost`, `OkKeepsThePromise` | `RSpec =>` `[]TypeOK`, `[]NeverLost`, `[]OkMeansScript` | a script as above; any message, server and failures |
| `HeadersAreExact`, `EveryRepeatHasAReason` | `RSpec =>` `[]HeadersExact`, `[]RepeatsAccountedFor` | a script and a message as above; any server, failures and returns |

The assumptions on the server are needed: `CondstoreLoss` shows the loss with CONDSTORE, with
`ServerOrdered = FALSE` and a message that fails TLC finds one as well. Those on constants are the types
that the code's own declarations give them: `Typed` is what `toml::from_str` has checked
(`config/src/lib.rs:42-76`), and `RulesConstants` says that a program consists of the statements
`SieveEngine` knows and a message of lines of `Tokens`. TLC evaluates all of them in the runs.

### The daemon

**`NothingSkipped`.** `NoSkip` is not inductive: it does not say that memory
and file agree on the incarnation they are about, nor that the batch in hand starts where the
cursor ends. `IInv` adds, and its parts depend on each other in this order:

1. `TypeOK`, `SelectedOK`, `StoresOK` (together `TypedInv`) need nothing of the server. A status of
   SELECT that is in use is about the mailbox as it is (nobody recreates a selected mailbox), so is
   the state in memory once it was validated, and the file never runs ahead of memory. Type
   correctness already needs them: the seed is a UID only because the status is current.
2. `InboxOK`: a UID that was assigned is in the mailbox or settled - nothing leaves without a trace.
3. `CursorSound` of `mem` and of `disk`: between the anchor and the cursor everything is settled.
   Of `disk` too, since a restart continues from it.
4. `BatchOK`: below any message of the batch, no open message above the cursor is missing from the
   batch, and the one just executed is the first. `Fetch` establishes it because truncation keeps
   the lowest UIDs of an ordered answer (lemma `FetchedInOrder`); `Advance` needs it to move the
   cursor past its message; `InboxOK` gives `Fetch` that whatever it was not answered is settled.

`Fetch` needs one thing more, that CHANGEDSINCE withholds nothing above the cursor (`NothingHidden`). A
server without CONDSTORE satisfies it trivially. **`NothingSkippedInOneSession`** shows it for one with
CONDSTORE, as long as the daemon is in its first session: `Undisturbed` says that no failure, crash
or signal has been counted yet. `FirstSession` follows SELECT's answer into the state file: the anchor and
`highestmodseq` are from the same SELECT, and everything that came after it carries a larger
mod-sequence (`StampedAfter`, lemma `StampedKept`). Each of the conditions is needed: a second SELECT brings a
newer `highestmodseq` for the same cursor (`CondstoreLoss`), and without UIDNEXT the anchor is 0, which claims the
mail that was there before and is withheld (TLC finds that in `CondstoreOneSession` with
`UidnextGiven = FALSE`).

`CursorAdvances` and `StaleNeverUsed` follow from `TypedInv` alone. `Refinement` maps `cursor` to the
cursor in the file while the file is about the current mailbox; the only steps that move it are
`Validate` (stutter), `Seed` (`Anchor`), `Advance` (`Advance` or stutter) and `MailboxRecreated`
(`NewMailbox`).

**`OldMailIsNewest`.** A message at or below the cursor is answered only as the `*` of the range, so it
is the newest; nothing above the cursor was answered with it, so it is alone (lemma `FetchedOldAlone`). After the
fetch a batch only shrinks (`BatchShrinks`) and stays in order (`BatchInOrder`), which is why the cursor, that moves to
the message just executed, never passes one that waits (`WaitingNotPassed`).

**`ShutdownWaitsForOneBatch`.** `LateOK`: what is still in the batch and what was executed since
the signal are together no more than a batch (one more while a message is being recorded), and nothing
has been executed since the signal where a new batch could begin. The second half is why the first is
kept: `Fetch` finds `late = 0`, because every way back to it looks at the permit first.

**`RepeatsArePaidFor`.** `runs` counts the executions of a message that the cursor had not passed. `RunsOK`: they
are at most the crashes and failed writes so far, and one more only if the file says that it is done or
it is just being recorded; a message above the cursor that waits in a batch has not used that one up. What `n:*` answers
at or below the cursor counts for `redone` instead, so nothing has to be assumed of it. A step that takes back a
record without executing anything - a crash before the write, a failed write, a stale file - either
adds to the budget or cannot happen while the mailbox is the same (lemma `RunsKept`).

### The store

`SyncedOK`: the temporary file is renamed only after its data was
synced, so whatever the file system writes out, and whenever, has its data. The refinement follows: `Rename` is the one step that commits, and a
power cut finds a state that was written out whole.

### The script loader

`CaughtUp` speaks of the moment when the queue is empty and the thread waits. `LoaderInv` follows a
change from the editor to the ArcSwap. `FileOK`: the path holds the last save or nothing. `AgesOK`:
what the watcher holds is no newer than the file, what is in use no newer than what it holds.
`ThreadOK`: there is somebody to send to just while the daemon runs. `FreshOK`: unless its announcement was
missed, the last change is in the queue, or read and about to be compiled, or in use. An event
that the thread takes but does not act on is never the last trace of a change, as only relevant
events announce one (lemma `TailAnnounces`). `NeverGoesBack` needs `AgesOK` only; `OneScriptPerBatch` needs `BatchOK`, that a batch
has used nothing but its snapshot.

### The supervisor

`SupervisorInv` holds for any set of configuration files whose fields have their types, loaded or refused, and any
`Width`. `BackedOff` speaks of the wait after n failures, while the code's counter saturates: `CountersOK` says that
there is one number of failures that both `attempt` and `failures` stand for, each up to its limit, and
lemma `FactorOfFailures` that a saturated counter gives the same factor. This takes the growth of
powers of two, which no backend knows: `2^n` is the number of subsets of `1 .. n`
(`PowerIsCount`), so that monotonicity is that of cardinalities. `JitterBounds` is the arithmetic of the two caps around the jitter.
`NeverStalePassword` needs `FreshPassword`: from the time a command has ended, what it printed
is no older than the attempt, through every phase up to the login. `RunsUntilAsked` needs
`ReturnedOK`: only the signal makes `run` return.

### From script to disposition

`Evaluation` says of every script, however long: the list has a fileinto for each filing and no other;
the fileintos are copies exactly when the keep is not cancelled; it has a discard only if the script
has one and nothing is kept, and surely if it ends in one; rejects and redirects are the
script's. `NothingTwice` says how often: no more redirects, rejects, and fileintos into any one folder than the
script has statements that ask for them. It counts along a list (`Tally`), and each stage of `Evaluate` - events,
actions, dispositions, the kept message, the copies - leaves the count no larger (`EventsTally`, `ActionsTally`,
`KeepTally`, `CopyTally`). Recursive functions and concatenations of lists are reached by induction on the number of statements, stated for a *set* of numbers (`Induction`) instead of
an operator, with the recursive definitions unfolded by `Recursion` and the fold behind `FlattenSeq` by
`Flattening`.

`NeverLost` is not inductive since a message is marked and removed in several commands. `RulesInv` adds that
the list is what `Evaluate` makes of the script in every execution; `StepOK`, where a command stands in its
execution; and `SafeOK`: not only is a message that left the inbox safe, but so is one that is about to be
marked or expunged, and one for which the discard is already noted. `OkMeansScript` needs more:
`CarriedOK` says that every action before the position has been carried out, that a message which
has left the inbox has filled every folder of the script, and that a kept and not rejected message
is still there. It is what makes a retry sound - it starts again at the first action, but what has
been filed stays filed - and it needs `Supported`: with two moves the second finds nothing to move
(section 3), which is lemma `OneMove`.

**`HeadersAreExact`** is `ParseExact` for two names. The reference, `Joined`, finds the fields of a name by indices
in the raw lines; the parser builds lines and then a map. For the first pass, the lines unfolded so far are
the texts of the fields begun so far, in their order (`FieldsBegun`, `LineOfField`): a continuation extends the
last one, and a continuation that comes first has none to extend. For the second, after k lines the map
has just the names of the first k fields, and its value for a name joins the bodies of those of that name (`SoFar`,
lemma `EnterExact`): the first body enters bare, the later ones after a comma.

**`EveryRepeatHasAReason`.** `RepeatsAccountedFor` bounds what was sent and copied by the script, while the executor counts
along its list. `CountsOK` connects them for a feasible script: each kind of delivery has happened at most once for each of
its actions per failed command and per return after an Ok (`Reasons`), and once more for those already reached in this
execution (`Within`, `Reached`); an execution that has failed, or is bound to because its CREATE failed (`Stuck`), has been paid for
by the fault. This needs that an execution of a feasible script fails only by a fault: a folder that is
missing and may not be created, a relay that is missing and a sender that is not an
address would fail it for nothing. `SenderFound` derives the last from the header: a message with one
well-formed `Return-Path`, or none and a `From` address, has an envelope sender that lettre accepts. `NoMoreThanAsked`, from
`NothingTwice`, brings the bound from the list to the script.

### Only model-checked

* Liveness: `EverySettled`, `ShutdownCompletes` (of the daemon and of the supervisor), `EventuallyDone`,
  `LastSaveLoaded`, `ComesToRest`, `StopCompletes`. The prover has no rule for fairness that it could use here.
* `NoSkip` with CONDSTORE beyond the first session does not hold (`CondstoreLoss`), and nothing is
  proved about which messages a later session loses.

## 6. What is abstracted, and what is not modelled

* UIDs are naturals up to `MaxUid`; 32-bit overflow of `last_seen_uid + 1` is out of reach of a server
  that has UIDs left to assign.
* `selected_mailbox` is written to the state and never read, and is left out.
* `Daemon` treats carrying out a script as one step that succeeds, or fails with or without having
  removed the message; `ActionExecutor` says what happens inside. Message contents do not exist.
* In `Supervisor` a session is three phases: its commands before the first IDLE, IDLE, and the commands of a
  wake-up. What they do is in `Daemon`.
* `open` may also fail to create the directory or to read the file; the process then ends with everything
  as it was, which in `StateStore` is no step at all.
* In `Daemon` delays have no length: a sleep ends. `Supervisor` has their values, in whole percents of
  jitter with the least, the middle and the largest draw; real draws lie between.
* A case of `Rules` fixes the message and the statements that apply: neither changes between retries.
  Tests, variables and everything else inside a script are sieve-rs's.
* What sieve-rs makes of a `keep` or `discard` that other statements follow is not settled by this
  repository; the programs have them last.
* `Config` has the keys that the modelled components read. A jitter that is not a number and values
  outside their integer types are the parser's to refuse.
* The watcher does not follow a symbolic link that is pointed elsewhere (the path is resolved once,
  `script_loader.rs:38`); `ScriptLoader` has no links.
* A mailbox is recreated only while no session has it selected. What a server does to a session whose
  mailbox was deleted is not defined well enough to model.
* Mail that was in the mailbox when a seed was lost before it reached the disk counts as existing mail
  of the next seed, as it does for the code.
* A signal during the start of the process, before the signal task exists, kills it: that is `Crash`
  in `Daemon` and the exit `killed` in `Supervisor`.
* Not modelled: what TLS and the login do beyond succeeding or failing, the parsing of responses (a
  stray FETCH response without a body would be taken for a message), the text of notices and
  redirected mail, `status`, `check` and `test-rule`, tracing.

## 7. Plan

Done: the daemon's cursor, the store under it, the way of a message from its header to its
disposition, the script's reloading, and the process around the sessions.

Proved: every invariant and action property that the passing runs check, and both refinements. What
is left to TLC is liveness (section 5).

Next, in this order:

1. That the executor's commands implement the single steps `Execute` and `MessageFails` of `Daemon`: the
   message leaves the mailbox before the outcome is known, so the abstract step has to be split first.
2. CONDSTORE: state exactly which messages the saved `highestmodseq` may hide from a second session, and prove
   that it hides no others.
