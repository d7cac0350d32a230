---------------------------- MODULE SieveEngine ----------------------------
(***************************************************************************)
(* From a script to the action list the executor is given                  *)
(* (SieveEngineImpl::evaluate).  sieve-rs interprets the script and hands  *)
(* evaluate one event at a time; evaluate makes actions of them, supplies  *)
(* the implicit keep, and recovers :copy, which the events do not carry,   *)
(* from whether a Keep came along.                                         *)
(*                                                                         *)
(* A program is the sequence of statements whose tests held for the        *)
(* message, [st |-> "fileinto", folder, copy, create], [st |-> "redirect", *)
(* copy, list] or [st |-> s] for the others.                               *)
(***************************************************************************)
EXTENDS Integers, Sequences, SequencesExt

HasStatement(program, st) == \E i \in DOMAIN program : program[i].st = st

-----------------------------------------------------------------------------
(* sieve-rs: the events of a program, with the flags each one carries.     *)

\* A statement that takes the place of the implicit keep.
Cancels(s) ==
  \/ s.st \in {"fileinto", "redirect"} /\ ~s.copy
  \/ s.st \in {"reject", "discard"}

\* The event that ends the run: what is left of the implicit keep.
FinalAfter(final, s) ==
  CASE s.st \in {"keep", "discard"} -> s.st
    [] Cancels(s) /\ s.st # "discard" -> "none"
    [] OTHER -> final

Immediate == {"fileinto", "redirect", "reject", "execute", "include"}

\* A flag that is set is carried by the events that follow.
Handle(run, s) ==
  [flags  |-> run.flags \/ s.st = "addflag",
   final  |-> FinalAfter(run.final, s),
   events |-> IF s.st \in Immediate
              THEN Append(run.events, [event |-> s, flags |-> run.flags])
              ELSE run.events]

Interpret(program) ==
  LET run[i \in 0 .. Len(program)] ==
        IF i = 0 THEN [flags |-> FALSE, final |-> "keep", events |-> << >>]
        ELSE Handle(run[i - 1], program[i])
  IN  run[Len(program)]

Events(program) ==
  LET run == Interpret(program)
  IN  IF run.final = "none" THEN run.events
      ELSE Append(run.events, [event |-> [st |-> run.final], flags |-> run.flags])

-----------------------------------------------------------------------------
(* evaluate                                                                *)

\* The flags of a keep or a fileinto come first, as an action of their own.
Flagged(e) ==
  IF e.flags /\ e.event.st \in {"keep", "fileinto"} THEN <<[op |-> "setflag"]>> ELSE << >>

\* Includes, and redirects to anything but an address, are skipped.
ActionsOf(e) ==
  Flagged(e) \o
  CASE e.event.st = "fileinto" ->
         <<[op |-> "fileinto", folder |-> e.event.folder, copy |-> FALSE,
            create |-> e.event.create]>>
    [] e.event.st = "include" \/ (e.event.st = "redirect" /\ e.event.list) -> << >>
    [] OTHER -> <<[op |-> e.event.st]>>

Dispositions == {"keep", "discard", "fileinto", "redirect", "reject"}

HasAction(list, op) == \E i \in DOMAIN list : list[i].op = op

ImplicitKeep(list) ==
  IF \E op \in Dispositions : HasAction(list, op) THEN list
  ELSE Append(list, [op |-> "keep"])

\* Mutant: the Keep is removed and the fileintos are left to move.
CopyDetection_Moves(list) ==
  IF HasAction(list, "fileinto") /\ HasAction(list, "keep")
  THEN SelectSeq(list, LAMBDA a : a.op # "keep")
  ELSE list

\* Mutant: the copy is added to the list, and the move left in it.
CopyDetection_Adds(list) ==
  IF HasAction(list, "fileinto") /\ HasAction(list, "keep")
  THEN FlattenSeq([i \in DOMAIN list |->
         CASE list[i].op = "keep"     -> << >>
           [] list[i].op = "fileinto" -> <<[list[i] EXCEPT !.copy = TRUE], list[i]>>
           [] OTHER                   -> <<list[i]>>])
  ELSE list

\* With a Keep among them every fileinto is a copy, and the Keep is redundant.
CopyDetection(list) ==
  IF HasAction(list, "fileinto") /\ HasAction(list, "keep")
  THEN FlattenSeq([i \in DOMAIN list |->
         CASE list[i].op = "keep"     -> << >>
           [] list[i].op = "fileinto" -> <<[list[i] EXCEPT !.copy = TRUE]>>
           [] OTHER                   -> <<list[i]>>])
  ELSE list

Evaluate(program) ==
  LET events == Events(program)
  IN  CopyDetection(ImplicitKeep(FlattenSeq([i \in DOMAIN events |-> ActionsOf(events[i])])))
=============================================================================
