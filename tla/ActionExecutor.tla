--------------------------- MODULE ActionExecutor ---------------------------
(***************************************************************************)
(* Carrying out a script's actions on one message (action_executor.rs with *)
(* move_with_fallback and the SMTP sender), command by command, and again  *)
(* from the start whenever a later batch fetches the message once more: it *)
(* must after an execution that failed, as long as the message is still in *)
(* the mailbox, and it may after one that returned Ok.                     *)
(*                                                                         *)
(* Any command may fail, before or after the server did what it says; a    *)
(* crash or a lost connection is the failure of the command in flight.     *)
(***************************************************************************)
EXTENDS Integers, Sequences, FiniteSets

CONSTANTS
  Folders,       \* target mailboxes
  Existing,      \* those that exist at first
  Servers,       \* what the server may announce: [move, uidplus]
  HasSmtp,       \* an [smtp] section is configured
  OthersExpunge, \* other clients expunge messages marked \Deleted
  MaxFaults,     \* bound: failing commands
  MaxReturns,    \* bound: times a message carried out is fetched again
  MaxCount       \* bound: copies and mails counted (then saturates)

ASSUME ExecutorConstants ==
  /\ Existing \subseteq Folders
  /\ Servers \subseteq [move : BOOLEAN, uidplus : BOOLEAN]
  /\ {HasSmtp, OthersExpunge} \subseteq BOOLEAN
  /\ MaxFaults \in Nat /\ MaxReturns \in Nat
  /\ MaxCount \in Nat \ {0}

VARIABLES
  actions,     \* what evaluate returned for the message
  server,      \* its capabilities, asked for at the start of the session
  sender,      \* what envelope_from is: see Senders
  step,        \* the command in flight: see Steps
  pos,         \* index of the disposition action in hand
  discarded,   \* execute()'s flag
  msg,         \* in the watched mailbox: "inbox", "deleted" (marked), "gone"
  mailboxes,   \* folders that exist
  copies,      \* copies[f]: copies of the message in f
  redirects,   \* redirected mails the SMTP relay accepted
  rejections,  \* rejection notices it accepted
  faults,      \* commands that failed
  returns      \* executions begun after one that returned Ok

kept  == <<actions, server, sender, returns>>
store == <<msg, mailboxes, copies>>
sent  == <<redirects, rejections>>
vars  == <<kept, step, pos, discarded, store, sent, faults>>

Steps == {"start", "dispose", "file", "mark", "expunge", "delete", "purge",
          "ok", "err"}

\* None, the empty string, an address, or something the relay cannot parse.
Senders == {"none", "empty", "address", "malformed"}

\* list is what evaluate returned, kind what the message's sender is.
Init(list, kind) ==
  /\ actions = list
  /\ server \in Servers
  /\ sender = kind
  /\ step = "start" /\ pos = 1 /\ discarded = FALSE
  /\ msg = "inbox"
  /\ mailboxes = Existing
  /\ copies = [f \in Folders |-> 0]
  /\ redirects = 0 /\ rejections = 0
  /\ faults = 0 /\ returns = 0

-----------------------------------------------------------------------------
Has(op)   == \E i \in 1 .. Len(actions) : actions[i].op = op
Action    == actions[pos]
At(op)    == step = "dispose" /\ pos <= Len(actions) /\ Action.op = op
MoreThan(n) == IF n < MaxCount THEN n + 1 ELSE n

Goto(s)   == step' = s /\ UNCHANGED <<pos, discarded>>

NextAction == step' = "dispose" /\ pos' = pos + 1 /\ UNCHANGED discarded

\* A command: it has its effect and execution goes on, or it fails with or
\* without its effect and execute() returns the error.
Command(effect, idle, go) ==
  \/ effect /\ go /\ UNCHANGED faults
  \/ /\ faults < MaxFaults /\ faults' = faults + 1
     /\ effect \/ idle
     /\ Goto("err")

\* What a command does to the message.  On a UID that is gone every command is
\* answered OK and does nothing.
Copied(f) ==
  copies' = IF msg = "gone" THEN copies ELSE [copies EXCEPT ![f] = MoreThan(@)]
Marked   == msg' = IF msg = "gone" THEN "gone" ELSE "deleted"
Expunged == msg' = IF msg = "deleted" THEN "gone" ELSE msg

-----------------------------------------------------------------------------
\* First pass: flags.  STORE FLAGS replaces all flags, \Deleted included.
StoreFlags ==
  /\ step = "start"
  /\ IF Has("setflag") \/ Has("addflag")
     THEN Command(msg' = IF Has("setflag") /\ msg = "deleted" THEN "inbox" ELSE msg,
                  UNCHANGED msg, Goto("dispose"))
     ELSE Goto("dispose") /\ UNCHANGED <<msg, faults>>
  /\ UNCHANGED <<kept, mailboxes, copies, sent>>

\* Second pass.  CREATE is best effort: its failure is ignored.
CreateFolder ==
  /\ At("fileinto")
  /\ Goto("file")
  /\ \/ /\ mailboxes' = IF Action.create THEN mailboxes \cup {Action.folder} ELSE mailboxes
        /\ UNCHANGED faults
     \/ /\ Action.create
        /\ faults < MaxFaults /\ faults' = faults + 1
        /\ UNCHANGED mailboxes
  /\ UNCHANGED <<kept, msg, copies, sent>>

\* COPY or MOVE to a folder that does not exist is refused.
NoSuchFolder ==
  /\ step = "file"
  /\ Action.folder \notin mailboxes
  /\ Goto("err")
  /\ UNCHANGED <<kept, store, sent, faults>>

\* fileinto :copy
CopyOnly ==
  /\ step = "file" /\ Action.copy
  /\ Action.folder \in mailboxes
  /\ Command(Copied(Action.folder), UNCHANGED copies, NextAction)
  /\ UNCHANGED <<kept, msg, mailboxes, sent>>

\* fileinto on a server with MOVE
Move ==
  /\ step = "file" /\ ~Action.copy /\ server.move
  /\ Action.folder \in mailboxes
  /\ Command(Copied(Action.folder) /\ msg' = "gone",
             UNCHANGED <<copies, msg>>, NextAction)
  /\ UNCHANGED <<kept, mailboxes, sent>>

\* Mutant: the original is marked first.
FallbackCopy_MarksFirst ==
  /\ step = "file" /\ ~Action.copy /\ ~server.move
  /\ Action.folder \in mailboxes
  /\ Command(Marked, UNCHANGED msg, Goto("mark"))
  /\ UNCHANGED <<kept, mailboxes, copies, sent>>

\* fileinto without MOVE: COPY, then mark, then expunge where UIDPLUS allows.
FallbackCopy ==
  /\ step = "file" /\ ~Action.copy /\ ~server.move
  /\ Action.folder \in mailboxes
  /\ Command(Copied(Action.folder), UNCHANGED copies, Goto("mark"))
  /\ UNCHANGED <<kept, msg, mailboxes, sent>>

\* STORE +FLAGS (\Deleted), after the fallback's COPY or for a discard.
Mark ==
  /\ \/ /\ step = "mark"
        /\ Command(Marked, UNCHANGED msg,
                   IF server.uidplus THEN Goto("expunge") ELSE NextAction)
     \/ /\ step = "delete"
        /\ Command(Marked, UNCHANGED msg, Goto(IF server.uidplus THEN "purge" ELSE "ok"))
  /\ UNCHANGED <<kept, mailboxes, copies, sent>>

UidExpunge ==
  /\ \/ step = "expunge" /\ Command(Expunged, UNCHANGED msg, NextAction)
     \/ step = "purge" /\ Command(Expunged, UNCHANGED msg, Goto("ok"))
  /\ UNCHANGED <<kept, mailboxes, copies, sent>>

\* LettreMailSender::send takes the empty string for the null reverse-path and
\* parses the rest; "<>", which stands in for a missing sender, does not parse.
SendsFrom(kind) == HasSmtp /\ kind \in {"empty", "address"}

\* Every recipient must parse.
SendsTo(kind) == HasSmtp /\ kind = "address"

Redirect ==
  /\ At("redirect")
  /\ IF SendsFrom(sender)
     THEN Command(redirects' = MoreThan(redirects), UNCHANGED redirects, NextAction)
     ELSE Goto("err") /\ UNCHANGED <<redirects, faults>>
  /\ UNCHANGED <<kept, store, rejections>>

\* Reject sends the notice, to an address, then discards.
Reject ==
  /\ At("reject")
  /\ IF SendsTo(sender)
     THEN Command(rejections' = MoreThan(rejections), UNCHANGED rejections,
                  step' = "dispose" /\ pos' = pos + 1 /\ discarded' = TRUE)
     ELSE Goto("err") /\ UNCHANGED <<rejections, faults>>
  /\ UNCHANGED <<kept, store, redirects>>

Discard ==
  /\ At("discard")
  /\ step' = "dispose" /\ pos' = pos + 1 /\ discarded' = TRUE
  /\ UNCHANGED <<kept, store, sent, faults>>

\* keep, execute and the flag actions do nothing in this pass.
Skip ==
  /\ \E op \in {"keep", "execute", "setflag", "addflag"} : At(op)
  /\ NextAction
  /\ UNCHANGED <<kept, store, sent, faults>>

\* Mutant: the flag is not looked at.
Finish_Deletes ==
  /\ step = "dispose" /\ pos > Len(actions)
  /\ Goto("delete")
  /\ UNCHANGED <<kept, store, sent, faults>>

Finish ==
  /\ step = "dispose" /\ pos > Len(actions)
  /\ Goto(IF discarded THEN "delete" ELSE "ok")
  /\ UNCHANGED <<kept, store, sent, faults>>

\* last_seen_uid was not advanced: a later batch fetches the message, if it is
\* still there, and everything is done again.
Retry ==
  /\ step = "err"
  /\ msg # "gone"
  /\ step' = "start" /\ pos' = 1 /\ discarded' = FALSE
  /\ UNCHANGED <<kept, store, sent, faults>>

\* A message carried out is still in the mailbox and a later batch fetches it
\* again: as the newest one, which the range "start:*" always includes, or
\* because the record that it was carried out has been lost.
ComesBack ==
  /\ step = "ok"
  /\ msg # "gone"
  /\ returns < MaxReturns /\ returns' = returns + 1
  /\ step' = "start" /\ pos' = 1 /\ discarded' = FALSE
  /\ UNCHANGED <<actions, server, sender, store, sent, faults>>

ExpungedByOthers ==
  /\ OthersExpunge
  /\ msg = "deleted"
  /\ msg' = "gone"
  /\ UNCHANGED <<kept, step, pos, discarded, mailboxes, copies, sent, faults>>

FileInto == CreateFolder \/ NoSuchFolder \/ CopyOnly \/ Move \/ FallbackCopy

Execution ==
  \/ StoreFlags \/ FileInto \/ Mark \/ UidExpunge
  \/ Redirect \/ Reject \/ Discard \/ Skip \/ Finish \/ Retry

Next == Execution \/ ComesBack \/ ExpungedByOthers

-----------------------------------------------------------------------------
ActionRecords ==
  [op : {"fileinto"}, folder : Folders, copy : BOOLEAN, create : BOOLEAN]
  \cup [op : {"keep", "discard", "redirect", "reject", "execute", "setflag", "addflag"}]

\* Everything stays in its range, and only what was discarded is deleted.
TypeOK ==
  /\ \A i \in DOMAIN actions : actions[i] \in ActionRecords
  /\ server \in Servers /\ sender \in Senders
  /\ step \in Steps
  /\ pos \in 1 .. Len(actions) + 1
  /\ step = "file" => pos <= Len(actions) /\ Action.op = "fileinto"
  /\ discarded \in BOOLEAN
  /\ step \in {"delete", "purge"} => discarded
  /\ msg \in {"inbox", "deleted", "gone"}
  /\ mailboxes \subseteq Folders /\ Existing \subseteq mailboxes
  /\ copies \in [Folders -> 0 .. MaxCount]
  /\ redirects \in 0 .. MaxCount /\ rejections \in 0 .. MaxCount
  /\ faults \in 0 .. MaxFaults /\ returns \in 0 .. MaxReturns
=============================================================================
