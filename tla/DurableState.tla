---------------------------- MODULE DurableState ----------------------------
(***************************************************************************)
(* What a StateStore promises: a value in memory and a saved one.  An      *)
(* update changes the value in memory and then, in one step, either saves  *)
(* it and answers ok or leaves the saved value alone and answers err.      *)
(* Opening the store again yields the saved value.  A crash may fall       *)
(* anywhere, also between the saving and the answer.  A power cut takes    *)
(* the saved value back to the last one that was flushed, and never to     *)
(* anything else; when to flush is left to the file system.                *)
(***************************************************************************)
CONSTANTS States, Default

VARIABLES
  value,      \* in memory
  saved,      \* what a restart finds
  flushed,    \* what a restart after a power cut finds
  answer      \* "closed", "busy", "ok" or "err"

vars == <<value, saved, flushed, answer>>

Init ==
  /\ value = Default
  /\ saved = Default
  /\ flushed = Default
  /\ answer = "closed"

Open ==
  /\ answer = "closed"
  /\ value' = saved
  /\ answer' = "ok"
  /\ UNCHANGED <<saved, flushed>>

Begin ==
  /\ answer \in {"ok", "err"}
  /\ value' \in States
  /\ answer' = "busy"
  /\ UNCHANGED <<saved, flushed>>

Commit ==
  /\ answer = "busy"
  /\ saved' = value
  /\ answer' = "ok"
  /\ UNCHANGED <<value, flushed>>

Refuse ==
  /\ answer = "busy"
  /\ answer' = "err"
  /\ UNCHANGED <<value, saved, flushed>>

Crash ==
  /\ answer # "closed"
  /\ answer' = "closed"
  /\ UNCHANGED <<value, saved, flushed>>

Flush ==
  /\ flushed' = saved
  /\ UNCHANGED <<value, saved, answer>>

PowerCut ==
  /\ saved' = flushed
  /\ answer' = "closed"
  /\ UNCHANGED <<value, flushed>>

Next == Open \/ Begin \/ Commit \/ Refuse \/ Crash \/ Flush \/ PowerCut

Spec == Init /\ [][Next]_vars
=============================================================================
