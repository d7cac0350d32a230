----------------------------- MODULE ImapServer -----------------------------
(***************************************************************************)
(* The IMAP server as the daemon sees it: the watched mailbox of one       *)
(* account, changed by mail delivery and by the user's other clients while *)
(* the daemon runs.  The server is not part of the repository; every       *)
(* definition here is the behaviour that imap_client.rs relies on          *)
(* (RFC 3501 UIDs and UIDVALIDITY, RFC 7162 modification sequences).       *)
(*                                                                         *)
(* A message is its UID.  Only what decides whether the daemon fetches it  *)
(* is kept: whether it is in the mailbox and its modification sequence.    *)
(***************************************************************************)
EXTENDS Integers, FiniteSets

CONSTANTS
  MaxUid,             \* bound: UIDs one incarnation of the mailbox may assign
  MaxValidity,        \* bound: incarnations of the mailbox (UIDVALIDITY values)
  MaxModseq,          \* bound: modification sequences assigned
  HasCondstore        \* the server announces CONDSTORE and keeps mod-sequences

ASSUME ServerConstants ==
  /\ MaxUid \in Nat \ {0}
  /\ MaxValidity \in Nat \ {0}
  /\ MaxModseq \in Nat \ {0}
  /\ HasCondstore \in BOOLEAN

Uid == 1 .. MaxUid

\* Option::None, written as the integer just below every value an Option holds.
None == -1

VARIABLES
  uidvalidity,        \* the incarnation the mailbox is in
  uidnext,            \* the UID the next arrival gets
  inbox,              \* UIDs of the messages in the mailbox
  modseq,             \* modseq[u]: mod-sequence of the last change to u
  highestmodseq,      \* the largest mod-sequence assigned
  push                \* some change has not been announced to the daemon

serverVars == <<uidvalidity, uidnext, inbox, modseq, highestmodseq, push>>

ServerTypeOK ==
  /\ uidvalidity \in 1 .. MaxValidity
  /\ uidnext \in 1 .. MaxUid + 1
  /\ inbox \subseteq Uid
  /\ \A u \in inbox : u < uidnext
  /\ modseq \in [Uid -> 0 .. MaxModseq]
  /\ highestmodseq \in 1 .. MaxModseq
  /\ push \in BOOLEAN

ServerInit ==
  /\ uidvalidity = 1
  /\ uidnext = 1
  /\ inbox = {}
  /\ modseq = [u \in Uid |-> 0]
  /\ highestmodseq = 1
  /\ push = FALSE

-----------------------------------------------------------------------------
\* A message is new or changed: with CONDSTORE it gets a fresh mod-sequence.
Stamp(u) ==
  IF HasCondstore
  THEN /\ highestmodseq < MaxModseq
       /\ highestmodseq' = highestmodseq + 1
       /\ modseq' = [modseq EXCEPT ![u] = highestmodseq + 1]
  ELSE UNCHANGED <<highestmodseq, modseq>>

\* A message arrives.
Deliver ==
  /\ uidnext <= MaxUid
  /\ Stamp(uidnext)
  /\ inbox' = inbox \cup {uidnext}
  /\ uidnext' = uidnext + 1
  /\ push' = TRUE
  /\ UNCHANGED uidvalidity

\* Flags change: another client, or a STORE the daemon's own actions issued.
Touch(u) ==
  /\ u \in inbox
  /\ Stamp(u)
  /\ push' = TRUE
  /\ UNCHANGED <<uidvalidity, uidnext, inbox>>

\* Another client moves or expunges a message.
Withdraw(u) ==
  /\ u \in inbox
  /\ inbox' = inbox \ {u}
  /\ push' = TRUE
  /\ UNCHANGED <<uidvalidity, uidnext, modseq, highestmodseq>>

\* The mailbox is deleted and created anew: UIDs start over under a new
\* UIDVALIDITY.
Recreate ==
  /\ uidvalidity < MaxValidity
  /\ uidvalidity' = uidvalidity + 1
  /\ uidnext' = 1
  /\ inbox' = {}
  /\ modseq' = [u \in Uid |-> 0]
  /\ highestmodseq' = 1
  /\ push' = FALSE

-----------------------------------------------------------------------------
\* The messages answered to "UID FETCH start:* ... (CHANGEDSINCE since)"; "*" is
\* the last message, which the range includes even when its UID is below start
\* (RFC 3501, 6.4.8).
Matches(start, since) ==
  {u \in inbox : /\ u >= start \/ \A v \in inbox : v <= u
                 /\ since = None \/ modseq[u] > since}
=============================================================================
