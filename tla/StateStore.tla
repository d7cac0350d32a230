----------------------------- MODULE StateStore -----------------------------
(***************************************************************************)
(* The state file (state.rs): how update() replaces it through a temporary *)
(* file, with a failure possible at every system call, a crash of the      *)
(* process between any two, and a power cut that loses what the file       *)
(* system had not yet written out.                                         *)
(*                                                                         *)
(* The file system is POSIX as the code relies on it: a rename is atomic   *)
(* for everyone who opens the file; it survives a power cut only once the  *)
(* directory was written out, which the code never asks for; and a file    *)
(* whose data was not synced may then turn out truncated.                  *)
(***************************************************************************)
EXTENDS Integers

CONSTANTS
  States,          \* values of State
  Default,         \* State::default()
  MaxPowerCuts     \* bound: power cuts

ASSUME StoreConstants ==
  /\ Default \in States
  /\ MaxPowerCuts \in Nat

\* What reading the file may yield besides a State: no file, or rubbish.
Absent  == "absent"
Corrupt == "corrupt"

ASSUME MarkersAreNotStates == Absent \notin States /\ Corrupt \notin States

VARIABLES
  step,        \* where the store is: see Steps
  mem,         \* StateStore.state
  tmp,         \* the temporary file: Absent, or what was written to it
  synced,      \* the temporary file's data is on the disk
  file,        \* what opening the state file finds
  fileSynced,  \* the state file's data is on the disk
  stable,      \* what opening it would find after a power cut
  powerCuts

vars == <<step, mem, tmp, synced, file, fileSynced, stable, powerCuts>>

\* "closed": no process.  "refused": open() failed.  "ok", "err": the last call
\* returned.  The others are inside persist().
Steps == {"closed", "refused", "ok", "err", "create", "write", "sync", "rename"}

InPersist == {"create", "write", "sync", "rename"}

Init ==
  /\ step = "closed"
  /\ mem = Default
  /\ tmp = Absent /\ synced = FALSE
  /\ file = Absent /\ fileSynced = TRUE
  /\ stable = Absent
  /\ powerCuts = 0

\* Mutant: a missing file is not looked for.
Open_Unchecked ==
  /\ step = "closed"
  /\ file # Corrupt
  /\ step' = "ok" /\ mem' = file
  /\ UNCHANGED <<tmp, synced, file, fileSynced, stable, powerCuts>>

\* open(): no file is the default state, rubbish is an error.  An error of
\* create_dir_all or of read is also returned, and leaves the store closed and
\* everything as it is until the next start: a stuttering step.
Open ==
  /\ step = "closed"
  /\ IF file = Corrupt
     THEN step' = "refused" /\ UNCHANGED mem
     ELSE step' = "ok" /\ mem' = IF file = Absent THEN Default ELSE file
  /\ UNCHANGED <<tmp, synced, file, fileSynced, stable, powerCuts>>

\* update(f): memory changes before anything is written.
Update ==
  /\ step \in {"ok", "err"}
  /\ mem' \in States
  /\ step' = "create"
  /\ UNCHANGED <<tmp, synced, file, fileSynced, stable, powerCuts>>

CreateTmp ==
  /\ step = "create"
  /\ tmp' = Corrupt /\ synced' = FALSE
  /\ step' = "write"
  /\ UNCHANGED <<mem, file, fileSynced, stable, powerCuts>>

WriteTmp ==
  /\ step = "write"
  /\ tmp' = mem
  /\ step' = "sync"
  /\ UNCHANGED <<mem, synced, file, fileSynced, stable, powerCuts>>

\* Mutant: the data is left to the file system.
SyncTmp_Skipped ==
  /\ step = "sync"
  /\ step' = "rename"
  /\ UNCHANGED <<mem, tmp, synced, file, fileSynced, stable, powerCuts>>

SyncTmp ==
  /\ step = "sync"
  /\ synced' = TRUE
  /\ step' = "rename"
  /\ UNCHANGED <<mem, tmp, file, fileSynced, stable, powerCuts>>

Rename ==
  /\ step = "rename"
  /\ file' = tmp /\ fileSynced' = synced
  /\ tmp' = Absent /\ synced' = FALSE
  /\ step' = "ok"
  /\ UNCHANGED <<mem, stable, powerCuts>>

\* Mutant: a failed update is reported as done.
PersistFails_Silently ==
  /\ step \in InPersist
  /\ tmp' = Absent /\ synced' = FALSE
  /\ step' = "ok"
  /\ UNCHANGED <<mem, file, fileSynced, stable, powerCuts>>

\* A system call fails: the temporary file is dropped, memory keeps the change.
PersistFails ==
  /\ step \in InPersist
  /\ tmp' = Absent /\ synced' = FALSE
  /\ step' = "err"
  /\ UNCHANGED <<mem, file, fileSynced, stable, powerCuts>>

\* The process ends; a temporary file is left behind and never read again.
Crash ==
  /\ step # "closed"
  /\ step' = "closed"
  /\ tmp' = Absent /\ synced' = FALSE
  /\ UNCHANGED <<mem, file, fileSynced, stable, powerCuts>>

-----------------------------------------------------------------------------
(* The file system                                                         *)

\* It writes out the directory, and the data of the file or not.
WriteOut ==
  /\ stable' = IF fileSynced THEN file ELSE Corrupt
  /\ UNCHANGED <<step, mem, tmp, synced, file, fileSynced, powerCuts>>

WriteBack ==
  /\ fileSynced' = TRUE
  /\ stable' = file
  /\ UNCHANGED <<step, mem, tmp, synced, file, powerCuts>>

PowerCut ==
  /\ powerCuts < MaxPowerCuts
  /\ powerCuts' = powerCuts + 1
  /\ file' = stable /\ fileSynced' = TRUE
  /\ tmp' = Absent /\ synced' = FALSE
  /\ step' = "closed"
  /\ UNCHANGED <<mem, stable>>

Persist == CreateTmp \/ WriteTmp \/ SyncTmp \/ Rename \/ PersistFails

Next == Open \/ Update \/ Persist \/ Crash \/ WriteOut \/ WriteBack \/ PowerCut

Spec == Init /\ [][Next]_vars

-----------------------------------------------------------------------------
\* Every variable stays in its range; memory in particular is always a State,
\* whatever open() found.
TypeOK ==
  /\ step \in Steps
  /\ mem \in States
  /\ tmp \in States \cup {Absent, Corrupt}
  /\ synced \in BOOLEAN
  /\ file \in States \cup {Absent, Corrupt}
  /\ fileSynced \in BOOLEAN
  /\ stable \in States \cup {Absent, Corrupt}
  /\ powerCuts \in 0 .. MaxPowerCuts

\* design.md, "Atomic writes ... prevents corruption on crash": what a restart
\* finds is never rubbish, not even after a power cut, so that the daemon is
\* never refused its own state.
NeverCorrupt == file # Corrupt /\ stable # Corrupt

\* The inductive invariant behind it: data is synced before it is renamed, so
\* that the file system never holds a state file whose data it lacks.
SyncedOK ==
  /\ file # Corrupt /\ stable # Corrupt
  /\ fileSynced
  /\ step \in {"sync", "rename"} => tmp = mem
  /\ step = "rename" => synced

\* What a restart of the process finds.
Found(f) == IF f = Absent THEN Default ELSE f

Durable == INSTANCE DurableState WITH
  value   <- mem,
  saved   <- Found(file),
  flushed <- Found(stable),
  answer  <- IF step \in InPersist THEN "busy"
             ELSE IF step = "refused" THEN "closed" ELSE step

\* The store is one atomic durable value: no failed system call, crash or power
\* cut shows anything but whole states, an error means the old one, and only a
\* power cut takes an answered update back, to a state the file system had
\* written out.  This is the update that module Daemon uses.
ImplementsDurableState == Durable!Spec
=============================================================================
