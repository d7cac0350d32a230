----------------------------- MODULE ScriptLoader -----------------------------
(***************************************************************************)
(* The Sieve script of a running daemon: loaded once at the start, swapped *)
(* by the watcher thread whenever the file changes, and read by the main   *)
(* task at the beginning of each batch (script_loader.rs; processor.rs     *)
(* takes the snapshot, daemon.rs orders the start).  The editor of the     *)
(* file and the file system's notifications are the surroundings.          *)
(*                                                                         *)
(* A text is known by the save it comes from and by whether all of it was  *)
(* written: an editor may rename a finished file into place, or truncate   *)
(* the file and write it again.                                            *)
(***************************************************************************)
EXTENDS Naturals, Sequences, FiniteSets

CONSTANTS
  MaxSaves,         \* bound: saves of the file, removals included
  MaxOverflows,     \* bound: overflows of the kernel's event queue
  Broken,           \* saves whose text does not compile
  PartialCompiles   \* a text cut short may compile

ASSUME LoaderConstants ==
  /\ MaxSaves \in Nat /\ MaxOverflows \in Nat
  /\ Broken \subseteq 1 .. MaxSaves
  /\ PartialCompiles \in BOOLEAN

Texts  == [save : 0 .. MaxSaves, whole : BOOLEAN]
NoText == [save |-> MaxSaves + 1, whole |-> FALSE]
Script0 == [save |-> 0, whole |-> TRUE]

\* mine: the event's paths include the script's.
Events == [mine : BOOLEAN, kind : {"modify", "create", "remove", "access", "rescan"}]

VARIABLES
  main,       \* the main task: see Mains
  thread,     \* "none", "waiting" (recv), "compiling", "done"
  file,       \* what the script's path holds
  writing,    \* an editor has truncated the file and not finished writing it
  saves, overflows,   \* how much of each bound is used
  watching,   \* the directory is watched and the channel's sender exists
  queue,      \* the mpsc channel
  held,       \* text read and not yet compiled
  current,    \* the text whose bytecode the ArcSwap holds
  batch,      \* the script run_batch took, NoText between batches
  used,       \* history: scripts the messages of this batch were evaluated with
  missed      \* history: the file's last change was not announced

disk  == <<file, writing, saves>>
inbox == <<watching, queue>>
text  == <<held, current>>
run   == <<batch, used>>
past  == <<overflows, missed>>
vars  == <<main, thread, disk, inbox, text, run, past>>

Mains == {"start", "compiling", "loaded", "running", "stopping", "stopped", "failed"}

Init ==
  /\ main = "start" /\ thread = "none"
  /\ file = Script0 /\ writing = FALSE /\ saves = 0 /\ overflows = 0
  /\ watching = FALSE /\ queue = << >>
  /\ held = NoText /\ current = NoText
  /\ batch = NoText /\ used = {}
  /\ missed = FALSE

Compiles(t) ==
  t # NoText /\ IF t.whole THEN t.save \notin Broken ELSE PartialCompiles

\* Events are only queued while the directory is watched.
Notified(events) == queue' = IF watching THEN queue \o events ELSE queue

-----------------------------------------------------------------------------
(* The main task                                                           *)

\* ScriptLoader::load, first half: the text is read.
Load ==
  /\ main = "start"
  /\ held' = file
  /\ main' = IF file = NoText THEN "failed" ELSE "compiling"
  /\ missed' = FALSE
  /\ UNCHANGED <<thread, disk, inbox, current, run, overflows>>

\* Second half: it is compiled.  The daemon refuses to start without a script.
CompileFirst ==
  /\ main = "compiling"
  /\ held' = NoText
  /\ IF Compiles(held) THEN main' = "loaded" /\ current' = held
                       ELSE main' = "failed" /\ UNCHANGED current
  /\ UNCHANGED <<thread, disk, inbox, run, past>>

\* Only now is the directory watched.
SpawnWatcher ==
  /\ main = "loaded"
  /\ \/ main' = "running" /\ watching' = TRUE /\ thread' = "waiting"
     \/ main' = "failed" /\ UNCHANGED <<thread, watching>>
  /\ UNCHANGED <<disk, queue, text, run, past>>

\* run_batch loads the current script once.
BeginBatch ==
  /\ main = "running" /\ batch = NoText
  /\ batch' = current
  /\ UNCHANGED <<main, thread, disk, inbox, text, used, past>>

\* Mutant: each message loads the current script.
ScriptInHand_Live == current

ScriptInHand == batch

Evaluate ==
  /\ batch # NoText
  /\ used' = used \cup {ScriptInHand}
  /\ UNCHANGED <<main, thread, disk, inbox, text, batch, past>>

EndBatch ==
  /\ batch # NoText
  /\ batch' = NoText /\ used' = {}
  /\ UNCHANGED <<main, thread, disk, inbox, text, past>>

\* Mutant: the thread is joined before the watcher is dropped.
Stop_JoinFirst ==
  /\ main = "running" /\ batch = NoText
  /\ main' = "stopping"
  /\ UNCHANGED <<thread, disk, inbox, text, run, past>>

\* The supervisor has returned and the WatcherGuard is dropped: first the
\* watcher, and with it the sending end of the channel.
Stop ==
  /\ main = "running" /\ batch = NoText
  /\ main' = "stopping"
  /\ watching' = FALSE
  /\ UNCHANGED <<thread, disk, queue, text, run, past>>

\* Then the thread is joined.
Join ==
  /\ main = "stopping" /\ thread = "done"
  /\ main' = "stopped"
  /\ UNCHANGED <<thread, disk, inbox, text, run, past>>

-----------------------------------------------------------------------------
(* The watcher thread                                                      *)

\* Mutant: whatever happens to the file is a reason to reload.
Relevant_AnyKind(e) == e.mine

\* Mutant: renames, which are reported as modifications, are not looked at.
Relevant_NoRename(e) == e.mine /\ e.kind \in {"create", "remove"}

Relevant(e) == e.mine /\ e.kind \in {"modify", "create", "remove"}

\* recv, the two filters, and the reading half of reload.  Reading the file
\* is itself reported, as an access.
HandleEvent ==
  /\ thread = "waiting" /\ queue # << >>
  /\ IF Relevant(Head(queue)) /\ file # NoText
     THEN /\ held' = file
          /\ thread' = "compiling"
          /\ queue' = IF watching
                      THEN Append(Tail(queue), [mine |-> TRUE, kind |-> "access"])
                      ELSE Tail(queue)
     ELSE queue' = Tail(queue) /\ UNCHANGED <<thread, held>>
  /\ UNCHANGED <<main, disk, watching, current, run, past>>

\* Mutant: a text that does not compile brings back the first script.
AfterReload_First(t) == IF Compiles(t) THEN t ELSE Script0

\* Mutant: a text that does not compile takes effect all the same.
AfterReload_Unchecked(t) == t

\* The rest of reload: swap on success, keep the old script on failure.
AfterReload(t) == IF Compiles(t) THEN t ELSE current

\* Mutant: the events that came meanwhile are taken to be about this change.
Swap_Drains ==
  /\ thread = "compiling"
  /\ current' = AfterReload(held)
  /\ held' = NoText /\ thread' = "waiting" /\ queue' = << >>
  /\ UNCHANGED <<main, disk, watching, run, past>>

Swap ==
  /\ thread = "compiling"
  /\ current' = AfterReload(held)
  /\ held' = NoText /\ thread' = "waiting"
  /\ UNCHANGED <<main, disk, inbox, run, past>>

\* recv fails once the sender is gone and the channel empty.
ThreadEnds ==
  /\ thread = "waiting" /\ queue = << >> /\ ~watching
  /\ thread' = "done"
  /\ UNCHANGED <<main, disk, inbox, text, run, past>>

-----------------------------------------------------------------------------
(* The surroundings                                                        *)

NewSave == saves < MaxSaves /\ ~writing /\ saves' = saves + 1

Changes(t, events) ==
  /\ file' = t
  /\ Notified(events)
  /\ missed' = ~watching
  /\ UNCHANGED <<main, thread, watching, text, run, overflows>>

Mine(kind) == [mine |-> TRUE, kind |-> kind]

\* A temporary file is written, then renamed over the script.
SaveByRename ==
  /\ NewSave
  /\ Changes([save |-> saves', whole |-> TRUE],
             <<[mine |-> FALSE, kind |-> "modify"], Mine("modify")>>)
  /\ UNCHANGED writing

\* The file is truncated, or created, and then written.
SaveInPlace ==
  /\ NewSave
  /\ writing' = TRUE
  /\ Changes([save |-> saves', whole |-> FALSE],
             <<Mine(IF file = NoText THEN "create" ELSE "modify")>>)

FinishWriting ==
  /\ writing /\ writing' = FALSE
  /\ Changes([file EXCEPT !.whole = TRUE], <<Mine("modify")>>)
  /\ UNCHANGED saves

Remove ==
  /\ NewSave /\ file # NoText
  /\ Changes(NoText, <<Mine("remove")>>)
  /\ UNCHANGED writing

\* Events are dropped by the kernel; what is reported instead has no path.
Overflow ==
  /\ overflows < MaxOverflows /\ overflows' = overflows + 1
  /\ watching /\ queue # << >>
  /\ queue' = <<[mine |-> FALSE, kind |-> "rescan"]>>
  /\ missed' = TRUE
  /\ UNCHANGED <<main, thread, disk, watching, text, run>>

-----------------------------------------------------------------------------
Thread == HandleEvent \/ Swap \/ ThreadEnds
Startup == Load \/ CompileFirst \/ SpawnWatcher
Editor == SaveByRename \/ SaveInPlace \/ FinishWriting \/ Remove

Next ==
  \/ Startup \/ BeginBatch \/ Evaluate \/ EndBatch \/ Stop \/ Join
  \/ Thread
  \/ Editor \/ Overflow

Spec == Init /\ [][Next]_vars

\* The thread is scheduled and the main task gets through its start and its
\* end.  Nothing is owed by the editor, the kernel or the signals.
FairSpec == Spec /\ WF_vars(Thread) /\ WF_vars(Startup) /\ WF_vars(Join)

-----------------------------------------------------------------------------
\* Everything stays in its range; a running daemon has a compiled script.
TypeOK ==
  /\ main \in Mains /\ thread \in {"none", "waiting", "compiling", "done"}
  /\ {file, held, batch} \subseteq Texts \cup {NoText}
  /\ used \subseteq Texts
  /\ {writing, watching, missed} \subseteq BOOLEAN
  /\ saves \in 0 .. MaxSaves /\ overflows \in 0 .. MaxOverflows
  /\ queue \in Seq(Events)
  /\ IF main \in {"start", "compiling", "failed"} THEN current \in Texts \cup {NoText}
     ELSE current \in Texts /\ Compiles(current)

\* docs/design.md: "A batch always uses a consistent script version".  All
\* messages of a batch are evaluated with the script taken at its beginning,
\* whatever the watcher swaps meanwhile (processor.rs, run_batch).
OneScriptPerBatch == Cardinality(used) <= 1

\* When the watcher has nothing left to look at and no announcement was
\* missed, the script in use is the one in the file, if that compiles: no
\* interleaving of writing, reading, compiling and swapping leaves an old or a
\* half-written script in place (script_loader.rs, the thread's loop).
CaughtUp ==
  /\ main = "running" /\ ~missed
  /\ thread = "waiting" /\ ~\E i \in DOMAIN queue : Relevant(queue[i])
  /\ Compiles(file)
  => current = file

\* Texts of later saves, and of the same save once more of it is written.
NotOlder(t, u) == t.save > u.save \/ (t.save = u.save /\ (u.whole => t.whole))

\* The script in use is never replaced by an older one, whatever fails to
\* compile and in whatever order changes and reloads fall (reload).
NeverGoesBack == [][current # NoText => NotOlder(current', current)]_vars

AllSaved == saves = MaxSaves /\ ~writing /\ main = "running"

\* The last save is in use in the end, if it compiles and was announced, while
\* the daemon runs.
LastSaveLoaded ==
  AllSaved /\ Compiles(file) /\ ~missed ~> current = file \/ main # "running" \/ missed

\* The watcher comes to rest: reloading, which touches the file, is not itself
\* a reason to reload (script_loader.rs, the match on event.kind).
ComesToRest == <>[](queue = << >>)

\* Dropping the guard ends: the thread sees the channel closed and is joined
\* (script_loader.rs, Drop for WatcherGuard).
StopCompletes == main = "stopping" ~> main = "stopped"

-----------------------------------------------------------------------------
\* docs/design.md: "the daemon watches the sieve script file for changes: On
\* change, recompile the script."  So the last save is in use in the end,
\* whenever it was made.
EveryChangeSeen ==
  AllSaved /\ Compiles(file) ~> current = file \/ main # "running"
=============================================================================
