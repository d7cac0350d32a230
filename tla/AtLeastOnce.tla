---------------------------- MODULE AtLeastOnce -----------------------------
(***************************************************************************)
(* What the daemon promises about one mailbox, seen from outside: there is *)
(* a cursor that survives crashes, it only moves forward, and it passes a  *)
(* message only once that message is settled, that is, once the script's   *)
(* actions on it were carried out or the message left the mailbox.         *)
(* Messages at or below the first cursor are nobody's business.            *)
(***************************************************************************)
EXTENDS Integers

CONSTANTS MaxUid, None

VARIABLES
  top,        \* UIDs 1 .. top have been assigned
  settled,    \* UIDs that need no more work
  cursor      \* the durable cursor, or None before there is one

vars == <<top, settled, cursor>>

Init == top = 0 /\ settled = {} /\ cursor = None

Deliver ==
  /\ top < MaxUid
  /\ top' = top + 1
  /\ UNCHANGED <<settled, cursor>>

Settle ==
  /\ \E u \in 1 .. top : settled' = settled \cup {u}
  /\ UNCHANGED <<top, cursor>>

Anchor ==
  /\ cursor = None
  /\ cursor' \in 0 .. top
  /\ UNCHANGED <<top, settled>>

\* The cursor passes settled messages only.
Advance ==
  /\ cursor # None
  /\ \E c \in cursor + 1 .. top :
       /\ cursor + 1 .. c \subseteq settled
       /\ cursor' = c
  /\ UNCHANGED <<top, settled>>

\* The mailbox is recreated; the old cursor means nothing for it.
NewMailbox == top' = 0 /\ settled' = {} /\ cursor' = None

Next == Deliver \/ Settle \/ Anchor \/ Advance \/ NewMailbox

Spec == Init /\ [][Next]_vars
=============================================================================
