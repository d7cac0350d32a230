----------------------------- MODULE RulesProofs -----------------------------
(***************************************************************************)
(* No mail is lost, an Ok means what the script says, the header is read   *)
(* exactly, and no execution repeats anything by itself: for every         *)
(* message, every script, every server, any number of failures, and        *)
(* however often the message is fetched again.                             *)
(***************************************************************************)
EXTENDS HeadersProofs

\* The message is where the script wants it, or was meant to go.
Safe ==
  \/ \E f \in Targets : copies[f] > 0
  \/ Asks("discard")
  \/ Asks("reject") /\ rejections > 0

\* The action in hand, and what an execution that is done has left behind.
StepOK ==
  /\ step \in {"mark", "expunge"} => pos <= Len(actions) /\ Action.op = "fileinto" /\ ~Action.copy
  /\ step \in {"delete", "purge", "ok"} => pos = Len(actions) + 1
  /\ step \in {"delete", "purge"} => discarded
  /\ step = "start" => pos = 1 /\ ~discarded
  /\ step \in {"expunge", "purge"} => msg # "inbox"
  /\ step = "ok" /\ discarded => msg # "inbox"

SafeOK ==
  /\ msg # "inbox" => Safe
  /\ discarded => Safe
  /\ step \in {"mark", "expunge"} => Safe

RulesInv ==
  /\ case \in Cases
  /\ actions = Evaluate(Program)
  /\ TypeOK
  /\ StepOK
  /\ SafeOK

Filled == \A f \in Targets : copies[f] > 0

\* What an action that has been carried out has achieved.
Carried(a) ==
  /\ a.op = "fileinto" => copies[a.folder] > 0
  /\ a.op = "fileinto" /\ ~a.copy => msg # "inbox"
  /\ a.op = "redirect" => redirects > 0
  /\ a.op = "reject" => rejections > 0
  /\ a.op \in {"reject", "discard"} => discarded

CarriedOK ==
  Supported =>
    /\ \A i \in 1 .. pos - 1 : Carried(actions[i])
    /\ msg # "inbox" => Filled
    /\ step \in {"mark", "expunge"} => copies[Action.folder] > 0
    /\ Kept /\ ~Asks("reject") => msg = "inbox" /\ ~discarded

-----------------------------------------------------------------------------
(* The action list and the script                                          *)

\* The script of a case is a sequence of statements.
LEMMA CaseProgram ==
  ASSUME case \in Cases
  PROVE  Program \in Seq(Statement)
BY RulesConstants DEF Program

\* What Evaluation says of the list the executor works on.
LEMMA ListFacts ==
  ASSUME case \in Cases, actions = Evaluate(Program)
  PROVE  /\ actions \in Seq(ActionRecords)
         /\ \A i \in 1 .. Len(actions) : actions[i].op = "fileinto" =>
              /\ actions[i].copy <=> Kept
              /\ actions[i].folder \in Targets
              /\ \E k \in Filings : /\ actions[i].folder = Program[k].folder
                                     /\ actions[i].create = Program[k].create
         /\ \A f \in Targets : \E i \in 1 .. Len(actions) :
              actions[i].op = "fileinto" /\ actions[i].folder = f
         /\ Has("discard") => Asks("discard") /\ ~Kept
         /\ Program # << >> /\ Last(Program).st = "discard" => Has("discard")
         /\ Has("reject") <=> Asks("reject")
         /\ Has("redirect") <=>
              \E k \in DOMAIN Program : Program[k].st = "redirect" /\ ~Program[k].list
<1> DEFINE list == Evaluate(Program)
<1>1. Program \in Seq(Statement)
  BY CaseProgram
<1>2. /\ list \in Seq(ActionRecords)
      /\ \A a : Elem(list, a) /\ a.op = "fileinto" =>
           /\ a.copy <=> KeptAt(Program, Len(Program))
           /\ \E k \in DOMAIN Program : /\ Program[k].st = "fileinto"
                                        /\ a.folder = Program[k].folder /\ a.create = Program[k].create
      /\ \A k \in DOMAIN Program : Program[k].st = "fileinto" =>
           \E a : Elem(list, a) /\ a.op = "fileinto" /\ a.folder = Program[k].folder
      /\ HasAction(list, "discard") => HasStatement(Program, "discard") /\ ~KeptAt(Program, Len(Program))
      /\ Program # << >> /\ Program[Len(Program)].st = "discard" => HasAction(list, "discard")
      /\ HasAction(list, "reject") <=> HasStatement(Program, "reject")
      /\ HasAction(list, "redirect") <=>
           \E k \in DOMAIN Program : Program[k].st = "redirect" /\ ~Program[k].list
  BY <1>1, Evaluation
<1>3. actions = list
  OBVIOUS
<1> HIDE DEF list
<1>4. DOMAIN actions = 1 .. Len(actions)
  BY <1>2, <1>3
<1>5. \A op : Has(op) <=> HasAction(list, op)
  BY <1>3, <1>4 DEF Has, HasAction
<1>6. Kept <=> KeptAt(Program, Len(Program))
  BY DEF Kept, KeptAt
<1>7. ASSUME NEW i \in 1 .. Len(actions), actions[i].op = "fileinto"
      PROVE  /\ actions[i].copy <=> Kept
             /\ actions[i].folder \in Targets
             /\ \E k \in Filings : /\ actions[i].folder = Program[k].folder
                                    /\ actions[i].create = Program[k].create
  <2>1. Elem(list, actions[i])
    BY <1>3, <1>4 DEF Elem
  <2>2. PICK k \in DOMAIN Program : /\ Program[k].st = "fileinto"
                                    /\ actions[i].folder = Program[k].folder
                                    /\ actions[i].create = Program[k].create
    BY <2>1, <1>2, <1>7
  <2>3. actions[i].folder \in Targets
    BY <2>2 DEF Targets, Filings
  <2>4. k \in Filings
    BY <2>2 DEF Filings
  <2> QED
    BY <2>1, <2>2, <2>3, <2>4, <1>2, <1>6, <1>7
<1>8. ASSUME NEW f \in Targets
      PROVE  \E i \in 1 .. Len(actions) : actions[i].op = "fileinto" /\ actions[i].folder = f
  <2>1. PICK k \in DOMAIN Program : Program[k].st = "fileinto" /\ f = Program[k].folder
    BY DEF Targets, Filings
  <2>2. PICK a : Elem(list, a) /\ a.op = "fileinto" /\ a.folder = f
    BY <2>1, <1>2
  <2> QED
    BY <2>2, <1>3, <1>4 DEF Elem
<1>9. Last(Program) = Program[Len(Program)]
  BY DEF Last
<1> QED
  BY <1>2, <1>3, <1>5, <1>6, <1>7, <1>8, <1>9 DEF Asks

\* Every step leaves the script alone, and with it everything it asks for.
LEMMA ScriptStays ==
  ASSUME case' = case
  PROVE  /\ Program' = Program /\ Targets' = Targets /\ Kept' = Kept /\ Supported' = Supported
         /\ \A st : Asks(st)' = Asks(st)
<1>1. Program' = Program
  BY DEF Program
<1>2. Filings' = Filings
  BY <1>1 DEF Filings
<1>3. Targets' = Targets
  BY <1>1, <1>2 DEF Targets
<1>4. Kept' = Kept
  BY <1>1 DEF Kept
<1>5. Supported' = Supported
  BY <1>2, <1>4 DEF Supported
<1>6. \A st : Asks(st)' = Asks(st)
  BY <1>1 DEF Asks
<1> QED
  BY <1>1, <1>3, <1>4, <1>5, <1>6

-----------------------------------------------------------------------------
(* Types, and where in an execution a command stands                       *)

\* Whatever envelope_from is, it is of one of the four kinds.
LEMMA SenderKinds ==
  ASSUME NEW from
  PROVE  SenderKind(from) \in Senders
BY DEF SenderKind, Senders

\* A count that is incremented is in its range, and not 0.
LEMMA Counting ==
  ASSUME NEW n \in 0 .. MaxCount
  PROVE  MoreThan(n) \in 0 .. MaxCount /\ MoreThan(n) > 0
BY ExecutorConstants DEF MoreThan

\* A COPY adds to the folder's count and takes nothing from the others'.
LEMMA CopiedType ==
  ASSUME copies \in [Folders -> 0 .. MaxCount], NEW f \in Folders, Copied(f)
  PROVE  /\ copies' \in [Folders -> 0 .. MaxCount]
         /\ \A h \in Folders : copies[h] > 0 => copies'[h] > 0
         /\ msg # "gone" => copies'[f] > 0
<1>1. CASE msg = "gone"
  BY <1>1 DEF Copied
<1>2. CASE msg # "gone"
  <2>1. copies' = [copies EXCEPT ![f] = MoreThan(copies[f])]
    BY <1>2 DEF Copied
  <2>2. MoreThan(copies[f]) \in 0 .. MaxCount /\ MoreThan(copies[f]) > 0
    BY Counting
  <2> QED
    BY <2>1, <2>2
<1> QED
  BY <1>1, <1>2

\* The action in hand, when there is one.
LEMMA ActionInHand ==
  ASSUME TypeOK, pos <= Len(actions), Len(actions) \in Nat, DOMAIN actions = 1 .. Len(actions)
  PROVE  /\ pos \in 1 .. Len(actions)
         /\ Action \in ActionRecords
         /\ pos + 1 \in 1 .. Len(actions) + 1
         /\ Action.op = "fileinto" => Action.folder \in Folders /\ Action.copy \in BOOLEAN
<1>1. pos \in 1 .. Len(actions) /\ pos + 1 \in 1 .. Len(actions) + 1
  BY DEF TypeOK
<1>2. Action \in ActionRecords
  BY <1>1 DEF TypeOK, Action
<1>3. Action.op = "fileinto" => Action.folder \in Folders /\ Action.copy \in BOOLEAN
  BY <1>2, ActionKind
<1> QED
  BY <1>1, <1>2, <1>3

\* What any step does to the counts and the control state; the parts of TypeOK.
LEMMA TypeStep ==
  ASSUME RulesInv, RNext
  PROVE  TypeOK'
<1>1. actions \in Seq(ActionRecords)
  BY ListFacts DEF RulesInv
<1>2. Len(actions) \in Nat /\ DOMAIN actions = 1 .. Len(actions)
  BY <1>1
<1>3. TypeOK /\ StepOK
  BY DEF RulesInv
<1>4. pos <= Len(actions) =>
        /\ pos + 1 \in 1 .. Len(actions) + 1
        /\ Action.op = "fileinto" => Action.folder \in Folders
  BY <1>2, <1>3, ActionInHand
<1>5. /\ redirects \in 0 .. MaxCount => MoreThan(redirects) \in 0 .. MaxCount
      /\ rejections \in 0 .. MaxCount => MoreThan(rejections) \in 0 .. MaxCount
  BY Counting
<1>6. \A f \in Folders : Copied(f) => copies' \in [Folders -> 0 .. MaxCount]
  BY <1>3, CopiedType DEF TypeOK
<1>7. /\ faults \in 0 .. MaxFaults /\ (faults < MaxFaults => faults + 1 \in 0 .. MaxFaults)
      /\ returns \in 0 .. MaxReturns /\ (returns < MaxReturns => returns + 1 \in 0 .. MaxReturns)
  BY <1>3, ExecutorConstants DEF TypeOK
<1>8. actions' = actions /\ server' = server /\ sender' = sender
  BY DEF RNext, Next, Execution, FileInto, kept, store, StoreFlags, CreateFolder, NoSuchFolder, CopyOnly,
         Move, FallbackCopy, Mark, UidExpunge, Redirect, Reject, Discard, Skip, Finish, Retry,
         ExpungedByOthers, ComesBack
<1>9. faults' \in 0 .. MaxFaults /\ returns' \in 0 .. MaxReturns
  BY <1>7
     DEF RNext, Next, Execution, FileInto, kept, store, StoreFlags, CreateFolder, NoSuchFolder, CopyOnly,
         Move, FallbackCopy, Mark, UidExpunge, Redirect, Reject, Discard, Skip, Finish, Retry,
         ExpungedByOthers, ComesBack, Command
<1>10. redirects' \in 0 .. MaxCount /\ rejections' \in 0 .. MaxCount
  BY <1>3, <1>5
     DEF RNext, Next, Execution, FileInto, sent, StoreFlags, CreateFolder, NoSuchFolder, CopyOnly,
         Move, FallbackCopy, Mark, UidExpunge, Redirect, Reject, Discard, Skip, Finish, Retry,
         ExpungedByOthers, ComesBack, Command, TypeOK
<1>11. step \in {"mark", "expunge"} => pos <= Len(actions)
  BY <1>3 DEF StepOK
<1>12. step = "file" => pos <= Len(actions) /\ Action.folder \in Folders
  BY <1>3, <1>4 DEF TypeOK
<1>13. copies' \in [Folders -> 0 .. MaxCount]
  BY <1>3, <1>6, <1>12
     DEF RNext, Next, Execution, FileInto, store, StoreFlags, CreateFolder, NoSuchFolder, CopyOnly,
         Move, FallbackCopy, Mark, UidExpunge, Redirect, Reject, Discard, Skip, Finish, Retry,
         ExpungedByOthers, ComesBack, Command, TypeOK
<1>14. mailboxes' \subseteq Folders /\ Existing \subseteq mailboxes'
  BY <1>3, <1>4
     DEF RNext, Next, Execution, FileInto, store, StoreFlags, CreateFolder, NoSuchFolder, CopyOnly,
         Move, FallbackCopy, Mark, UidExpunge, Redirect, Reject, Discard, Skip, Finish, Retry,
         ExpungedByOthers, ComesBack, TypeOK, At
<1>15. msg' \in {"inbox", "deleted", "gone"}
  BY <1>3
     DEF RNext, Next, Execution, FileInto, store, StoreFlags, CreateFolder, NoSuchFolder, CopyOnly,
         Move, FallbackCopy, Mark, UidExpunge, Redirect, Reject, Discard, Skip, Finish, Retry,
         ExpungedByOthers, ComesBack, Command, Marked, Expunged, TypeOK
<1>16. step' \in Steps /\ discarded' \in BOOLEAN
  BY <1>3
     DEF RNext, Next, Execution, FileInto, StoreFlags, CreateFolder, NoSuchFolder, CopyOnly,
         Move, FallbackCopy, Mark, UidExpunge, Redirect, Reject, Discard, Skip, Finish, Retry,
         ExpungedByOthers, ComesBack, Command, Goto, NextAction, Steps, TypeOK
<1>17. pos' \in 1 .. Len(actions) + 1
  BY <1>2, <1>3, <1>4, <1>11, <1>12
     DEF RNext, Next, Execution, FileInto, StoreFlags, CreateFolder, NoSuchFolder, CopyOnly,
         Move, FallbackCopy, Mark, UidExpunge, Redirect, Reject, Discard, Skip, Finish, Retry,
         ExpungedByOthers, ComesBack, Command, Goto, NextAction, At, TypeOK
<1>18. step' = "file" => (step' = step /\ pos' = pos) \/ (At("fileinto") /\ pos' = pos)
  BY <1>3
     DEF RNext, Next, Execution, FileInto, StoreFlags, CreateFolder, NoSuchFolder, CopyOnly,
         Move, FallbackCopy, Mark, UidExpunge, Redirect, Reject, Discard, Skip, Finish, Retry,
         ExpungedByOthers, ComesBack, Command, Goto, NextAction, TypeOK
<1>19. step' = "file" => pos' <= Len(actions') /\ Action'.op = "fileinto"
  BY <1>3, <1>8, <1>18 DEF At, Action, TypeOK
<1>20. step' \in {"delete", "purge"} => discarded'
  BY <1>3
     DEF RNext, Next, Execution, FileInto, StoreFlags, CreateFolder, NoSuchFolder, CopyOnly,
         Move, FallbackCopy, Mark, UidExpunge, Redirect, Reject, Discard, Skip, Finish, Retry,
         ExpungedByOthers, ComesBack, Command, Goto, NextAction, TypeOK
<1> QED
  BY <1>3, <1>8, <1>9, <1>10, <1>13, <1>14, <1>15, <1>16, <1>17, <1>19, <1>20 DEF TypeOK

\* Where a command stands in its execution.
LEMMA StepStep ==
  ASSUME RulesInv, RNext
  PROVE  StepOK'
<1>1. actions \in Seq(ActionRecords)
  BY ListFacts DEF RulesInv
<1>2. Len(actions) \in Nat
  BY <1>1
<1>3. TypeOK /\ StepOK
  BY DEF RulesInv
<1>4. pos \in 1 .. Len(actions) + 1 /\ discarded \in BOOLEAN
  BY <1>3 DEF TypeOK
<1>5. step \in Steps /\ (step = "file" => pos <= Len(actions) /\ Action.op = "fileinto")
  BY <1>3 DEF TypeOK
<1>6. StepOK
  BY <1>3
<1>7. CASE StoreFlags /\ UNCHANGED case
  BY <1>2, <1>4, <1>6, <1>7 DEF StoreFlags, Command, Goto, StepOK, Action, kept
<1>8. CASE CreateFolder /\ UNCHANGED case
  BY <1>6, <1>8 DEF CreateFolder, Goto, StepOK
<1>9. CASE NoSuchFolder /\ UNCHANGED case
  BY <1>6, <1>9 DEF NoSuchFolder, Goto, StepOK
<1>10. CASE CopyOnly /\ UNCHANGED case
  BY <1>6, <1>10 DEF CopyOnly, Command, Goto, NextAction, StepOK
<1>11. CASE Move /\ UNCHANGED case
  BY <1>6, <1>11 DEF Move, Command, Goto, NextAction, StepOK
<1>12. CASE FallbackCopy /\ UNCHANGED case
  BY <1>5, <1>6, <1>12 DEF FallbackCopy, Command, Goto, StepOK, Action, kept
<1>13. CASE Mark /\ UNCHANGED case
  BY <1>5, <1>6, <1>13 DEF Mark, Command, Marked, Goto, NextAction, StepOK, Action, kept
<1>14. CASE UidExpunge /\ UNCHANGED case
  BY <1>5, <1>6, <1>14 DEF UidExpunge, Command, Expunged, Goto, NextAction, StepOK, Action, kept
<1>15. CASE Redirect /\ UNCHANGED case
  BY <1>6, <1>15 DEF Redirect, Command, Goto, NextAction, StepOK
<1>16. CASE Reject /\ UNCHANGED case
  BY <1>6, <1>16 DEF Reject, Command, Goto, StepOK
<1>17. CASE Discard /\ UNCHANGED case
  BY <1>6, <1>17 DEF Discard, StepOK
<1>18. CASE Skip /\ UNCHANGED case
  BY <1>6, <1>18 DEF Skip, NextAction, StepOK
<1>19. CASE Finish /\ UNCHANGED case
  BY <1>2, <1>4, <1>6, <1>19 DEF Finish, Goto, StepOK, kept
<1>20. CASE Retry /\ UNCHANGED case
  BY <1>6, <1>20 DEF Retry, StepOK
<1>22. CASE ComesBack /\ UNCHANGED case
  BY <1>6, <1>22 DEF ComesBack, StepOK
<1>21. CASE ExpungedByOthers /\ UNCHANGED case
  BY <1>6, <1>21 DEF ExpungedByOthers, StepOK, Action, kept
<1> QED
  BY <1>7, <1>8, <1>9, <1>10, <1>11, <1>12, <1>13, <1>14, <1>15, <1>16, <1>17, <1>18, <1>19,
     <1>20, <1>21, <1>22 DEF RNext, Next, Execution, FileInto

-----------------------------------------------------------------------------
(* No mail is lost                                                         *)

\* What has been copied and sent stays so.
LEMMA Lasting ==
  ASSUME RulesInv, RNext
  PROVE  /\ \A f \in Folders : copies[f] > 0 => copies'[f] > 0
         /\ redirects > 0 => redirects' > 0
         /\ rejections > 0 => rejections' > 0
<1>1. actions \in Seq(ActionRecords)
  BY ListFacts DEF RulesInv
<1>2. Len(actions) \in Nat /\ DOMAIN actions = 1 .. Len(actions)
  BY <1>1
<1>3. TypeOK
  BY DEF RulesInv
<1>4. step = "file" => Action.folder \in Folders
  BY <1>2, <1>3, ActionInHand DEF TypeOK
<1>5. \A h \in Folders : Copied(h) => \A f \in Folders : copies[f] > 0 => copies'[f] > 0
  BY <1>3, CopiedType DEF TypeOK
<1>6. MoreThan(redirects) > 0 /\ MoreThan(rejections) > 0
  BY <1>3, Counting DEF TypeOK
<1>7. \A f \in Folders : copies[f] > 0 => copies'[f] > 0
  BY <1>4, <1>5
     DEF RNext, Next, Execution, FileInto, store, StoreFlags, CreateFolder, NoSuchFolder, CopyOnly,
         Move, FallbackCopy, Mark, UidExpunge, Redirect, Reject, Discard, Skip, Finish, Retry,
         ExpungedByOthers, ComesBack, Command
<1>8. (redirects > 0 => redirects' > 0) /\ (rejections > 0 => rejections' > 0)
  BY <1>6
     DEF RNext, Next, Execution, FileInto, sent, StoreFlags, CreateFolder, NoSuchFolder, CopyOnly,
         Move, FallbackCopy, Mark, UidExpunge, Redirect, Reject, Discard, Skip, Finish, Retry,
         ExpungedByOthers, ComesBack, Command
<1> QED
  BY <1>7, <1>8

\* A script files into folders.
LEMMA FoldersOfScript ==
  ASSUME case \in Cases
  PROVE  Targets \subseteq Folders
<1>1. Program \in Seq(Statement)
  BY CaseProgram
<1>2. \A i \in DOMAIN Program : Program[i] \in Statement
  BY <1>1
<1> QED
  BY <1>2, StatementKind DEF Targets, Filings

\* A message that is safe stays safe: nothing takes back a copy or a notice.
LEMMA SafeLasts ==
  ASSUME RulesInv, RNext
  PROVE  Safe => Safe'
<1>1. case' = case /\ case \in Cases
  BY DEF RNext, RulesInv
<1>2. Targets' = Targets /\ Targets \subseteq Folders
  BY <1>1, ScriptStays, FoldersOfScript
<1>3. Asks("discard")' = Asks("discard") /\ Asks("reject")' = Asks("reject")
  BY <1>1, ScriptStays
<1>4. (\E f \in Targets : copies[f] > 0) => \E f \in Targets : copies'[f] > 0
  BY <1>2, Lasting
<1>5. rejections > 0 => rejections' > 0
  BY Lasting
<1> QED
  BY <1>2, <1>3, <1>4, <1>5 DEF Safe

\* A copy in the folder of the action in hand is a copy where the script wants
\* one.
LEMMA CopySafe ==
  ASSUME RulesInv, RNext, step = "file", Copied(Action.folder)
  PROVE  Safe'
<1>1. /\ actions \in Seq(ActionRecords)
      /\ \A i \in 1 .. Len(actions) : actions[i].op = "fileinto" => actions[i].folder \in Targets
  BY ListFacts DEF RulesInv
<1>2. Len(actions) \in Nat /\ DOMAIN actions = 1 .. Len(actions)
  BY <1>1
<1>3. TypeOK
  BY DEF RulesInv
<1>4. pos \in 1 .. Len(actions) /\ Action.op = "fileinto"
  BY <1>2, <1>3, ActionInHand DEF TypeOK
<1>5. Action.folder \in Targets
  BY <1>1, <1>4 DEF Action
<1>6. Targets \subseteq Folders
  BY FoldersOfScript DEF RulesInv
<1>7. Targets' = Targets
  BY ScriptStays DEF RNext
<1>8. CASE msg = "gone"
  <2>1. Safe
    BY <1>8 DEF RulesInv, SafeOK
  <2> QED
    BY <2>1, SafeLasts
<1>9. CASE msg # "gone"
  <2>1. copies'[Action.folder] > 0
    BY <1>3, <1>5, <1>6, <1>9, CopiedType DEF TypeOK
  <2> QED
    BY <2>1, <1>5, <1>7 DEF Safe
<1> QED
  BY <1>8, <1>9

\* Each step that marks or removes a message, or decides to, finds it safe.
LEMMA SafeStep ==
  ASSUME RulesInv, RNext
  PROVE  SafeOK'
<1> SUFFICES ASSUME ~Safe PROVE SafeOK'
  <2>1. Safe => Safe'
    BY SafeLasts
  <2> QED
    BY <2>1 DEF SafeOK
<1>1. msg = "inbox" /\ ~discarded /\ step \notin {"mark", "expunge", "delete", "purge"}
  BY DEF RulesInv, SafeOK, StepOK
<1>2. step = "file" /\ Copied(Action.folder) => Safe'
  BY CopySafe
<1>3. CASE Reject /\ UNCHANGED case
  <2>1. actions \in Seq(ActionRecords) /\ (Has("reject") <=> Asks("reject"))
    BY ListFacts DEF RulesInv
  <2>2. Has("reject")
    <3>1. pos \in 1 .. Len(actions)
      BY <2>1, <1>3, ActionInHand DEF Reject, At, RulesInv
    <3> QED
      BY <3>1, <1>3 DEF Reject, At, Action, Has
  <2>3. Asks("reject")'
    BY <2>1, <2>2, <1>3, ScriptStays
  <2>4. MoreThan(rejections) > 0
    BY Counting DEF RulesInv, TypeOK
  <2>5. msg' = msg
    BY <1>3 DEF Reject, store
  <2>6. step' \notin {"mark", "expunge"}
    BY <1>3 DEF Reject, Command, Goto
  <2>7. discarded' => rejections' > 0
    BY <1>1, <1>3, <2>4 DEF Reject, Command, Goto
  <2> QED
    BY <1>1, <2>3, <2>5, <2>6, <2>7 DEF SafeOK, Safe
<1>4. CASE Discard /\ UNCHANGED case
  <2>1. actions \in Seq(ActionRecords) /\ (Has("discard") => Asks("discard"))
    BY ListFacts DEF RulesInv
  <2>2. Has("discard")
    <3>1. pos \in 1 .. Len(actions)
      BY <2>1, <1>4, ActionInHand DEF Discard, At, RulesInv
    <3> QED
      BY <3>1, <1>4 DEF Discard, At, Action, Has
  <2> QED
    BY <2>1, <2>2 DEF Safe
<1>5. CASE StoreFlags /\ UNCHANGED case
  BY <1>1, <1>5 DEF StoreFlags, Command, Goto, SafeOK
<1>6. CASE CreateFolder /\ UNCHANGED case
  BY <1>1, <1>6 DEF CreateFolder, Goto, SafeOK
<1>7. CASE NoSuchFolder /\ UNCHANGED case
  BY <1>1, <1>7 DEF NoSuchFolder, Goto, store, SafeOK
<1>8. CASE CopyOnly /\ UNCHANGED case
  BY <1>1, <1>8 DEF CopyOnly, Command, Goto, NextAction, SafeOK
<1>9. CASE Move /\ UNCHANGED case
  BY <1>1, <1>2, <1>9 DEF Move, Command, Goto, NextAction, SafeOK
<1>10. CASE FallbackCopy /\ UNCHANGED case
  BY <1>1, <1>2, <1>10 DEF FallbackCopy, Command, Goto, SafeOK
<1>11. ~Mark /\ ~UidExpunge
  BY <1>1 DEF Mark, UidExpunge
<1>12. CASE Redirect /\ UNCHANGED case
  BY <1>1, <1>12 DEF Redirect, Command, Goto, NextAction, store, SafeOK
<1>13. CASE Skip /\ UNCHANGED case
  BY <1>1, <1>13 DEF Skip, NextAction, store, SafeOK
<1>14. CASE Finish /\ UNCHANGED case
  BY <1>1, <1>14 DEF Finish, Goto, store, SafeOK
<1>15. CASE (Retry \/ ComesBack) /\ UNCHANGED case
  BY <1>1, <1>15 DEF Retry, ComesBack, store, SafeOK
<1>16. ~ExpungedByOthers
  BY <1>1 DEF ExpungedByOthers
<1> QED
  BY <1>3, <1>4, <1>5, <1>6, <1>7, <1>8, <1>9, <1>10, <1>11, <1>12, <1>13, <1>14, <1>15, <1>16
     DEF RNext, Next, Execution, FileInto

-----------------------------------------------------------------------------
(* The theorems                                                            *)

\* The execution of a list that evaluate returned starts in the invariant.
LEMMA RulesInitial ==
  ASSUME RInit
  PROVE  RulesInv
<1>1. case \in Cases /\ actions = Evaluate(Program) /\ sender \in Senders
  BY SenderKinds DEF RInit, Init, Program
<1>2. actions \in Seq(ActionRecords)
  BY <1>1, ListFacts
<1>3. Len(actions) \in Nat /\ \A i \in DOMAIN actions : actions[i] \in ActionRecords
  BY <1>2
<1>4. TypeOK
  <2>1. /\ server \in Servers /\ step = "start" /\ pos = 1 /\ discarded = FALSE /\ msg = "inbox"
        /\ mailboxes = Existing /\ copies = [f \in Folders |-> 0]
        /\ redirects = 0 /\ rejections = 0 /\ faults = 0 /\ returns = 0
    BY DEF RInit, Init
  <2>2. 0 \in 0 .. MaxCount /\ 0 \in 0 .. MaxFaults /\ 0 \in 0 .. MaxReturns /\ Existing \subseteq Folders
    BY ExecutorConstants
  <2>3. copies \in [Folders -> 0 .. MaxCount]
    BY <2>1, <2>2
  <2>4. pos \in 1 .. Len(actions) + 1
    BY <2>1, <1>3
  <2> QED
    BY <1>1, <1>3, <2>1, <2>2, <2>3, <2>4 DEF TypeOK, Steps
<1>5. StepOK /\ SafeOK
  BY DEF RInit, Init, StepOK, SafeOK
<1> QED
  BY <1>1, <1>4, <1>5 DEF RulesInv

\* ... and no step leaves it.
LEMMA RulesInductive ==
  ASSUME RulesInv, [RNext]_rvars
  PROVE  RulesInv'
<1>1. CASE RNext
  <2>1. TypeOK' /\ StepOK' /\ SafeOK'
    BY <1>1, TypeStep, StepStep, SafeStep
  <2>2. case' = case /\ Program' = Program
    BY <1>1, ScriptStays DEF RNext
  <2>3. actions' = actions
    BY <1>1
       DEF RNext, Next, Execution, FileInto, kept, store, StoreFlags, CreateFolder, NoSuchFolder,
           CopyOnly, Move, FallbackCopy, Mark, UidExpunge, Redirect, Reject, Discard, Skip, Finish,
           Retry, ExpungedByOthers, ComesBack
  <2>4. case' \in Cases /\ actions' = Evaluate(Program')
    BY <2>2, <2>3 DEF RulesInv
  <2> QED
    BY <2>1, <2>4 DEF RulesInv
<1>2. CASE UNCHANGED rvars
  <2>1. UNCHANGED <<case, actions, server, sender, step, pos, discarded, msg, mailboxes, copies,
                    redirects, rejections, faults, returns>>
    BY <1>2 DEF rvars, vars, kept, store, sent
  <2>2. TypeOK'
    BY <2>1 DEF RulesInv, TypeOK, Action
  <2>3. StepOK'
    BY <2>1 DEF RulesInv, StepOK, Action
  <2>4. Program' = Program /\ Safe' = Safe
    <3>1. Program' = Program /\ Targets' = Targets
      BY <2>1, ScriptStays
    <3>2. Asks("discard")' = Asks("discard") /\ Asks("reject")' = Asks("reject")
      BY <2>1, ScriptStays
    <3> QED
      BY <2>1, <3>1, <3>2 DEF Safe
  <2> QED
    BY <2>1, <2>2, <2>3, <2>4 DEF RulesInv, SafeOK
<1> QED
  BY <1>1, <1>2

\* RulesInv holds in every state, whatever messages and scripts come, whatever
\* the server can do and however often its commands fail.
THEOREM RulesInvHolds == RSpec => []RulesInv
<1>1. RInit => RulesInv
  BY RulesInitial
<1>2. RulesInv /\ [RNext]_rvars => RulesInv'
  BY RulesInductive
<1> QED
  BY <1>1, <1>2, PTL DEF RSpec

\* TypeOK: among others, the executor never looks for an action beyond its list.
THEOREM ExecutorTypeCorrect == RSpec => []TypeOK
<1>1. RulesInv => TypeOK
  BY DEF RulesInv
<1> QED
  BY <1>1, RulesInvHolds, PTL

\* NeverLost: execute() marks or removes a message only when a copy is in a
\* folder the script names, the script discards it, or its sender was notified.
THEOREM NoMailIsLost == RSpec => []NeverLost
<1>1. RulesInv => NeverLost
  BY DEF RulesInv, SafeOK, Safe, NeverLost
<1> QED
  BY <1>1, RulesInvHolds, PTL

-----------------------------------------------------------------------------
(* An Ok means what the script says                                        *)

\* The facts the steps below rest on.
LEMMA Facts ==
  ASSUME RulesInv
  PROVE  /\ actions \in Seq(ActionRecords)
         /\ Len(actions) \in Nat /\ DOMAIN actions = 1 .. Len(actions)
         /\ \A i \in 1 .. Len(actions) : actions[i].op = "fileinto" =>
              /\ actions[i].copy <=> Kept
              /\ actions[i].folder \in Targets
         /\ Targets \subseteq Folders
         /\ step = "file" => pos \in 1 .. Len(actions) /\ Action.op = "fileinto"
         /\ step \in {"mark", "expunge"} =>
              pos \in 1 .. Len(actions) /\ Action.op = "fileinto" /\ ~Action.copy
         /\ \A op : At(op) => pos \in 1 .. Len(actions) /\ Action.op = op
         /\ \A i \in 1 .. pos - 1 : i \in 1 .. Len(actions)
<1>1. /\ actions \in Seq(ActionRecords)
      /\ \A i \in 1 .. Len(actions) : actions[i].op = "fileinto" =>
           /\ actions[i].copy <=> Kept
           /\ actions[i].folder \in Targets
  BY ListFacts DEF RulesInv
<1>2. Len(actions) \in Nat /\ DOMAIN actions = 1 .. Len(actions)
  BY <1>1
<1>3. TypeOK /\ StepOK
  BY DEF RulesInv
<1>4. pos \in 1 .. Len(actions) + 1
  BY <1>3 DEF TypeOK
<1>5. step = "file" => pos \in 1 .. Len(actions) /\ Action.op = "fileinto"
  BY <1>2, <1>3, <1>4 DEF TypeOK
<1>6. step \in {"mark", "expunge"} =>
        pos \in 1 .. Len(actions) /\ Action.op = "fileinto" /\ ~Action.copy
  BY <1>2, <1>3, <1>4 DEF StepOK
<1>7. \A op : At(op) => pos \in 1 .. Len(actions) /\ Action.op = op
  BY <1>2, <1>4 DEF At
<1>8. \A i \in 1 .. pos - 1 : i \in 1 .. Len(actions)
  BY <1>2, <1>4
<1> QED
  BY <1>1, <1>2, <1>5, <1>6, <1>7, <1>8, FoldersOfScript DEF RulesInv

\* What moves the message is, in a supported script, the only fileinto.
LEMMA OneMove ==
  ASSUME RulesInv, Supported, pos \in 1 .. Len(actions), Action.op = "fileinto", ~Action.copy
  PROVE  ~Kept /\ Targets = {Action.folder}
<1>1. (Action.copy <=> Kept) /\ Action.folder \in Targets
  BY Facts DEF Action
<1>2. ~Kept
  BY <1>1
<1>3. Cardinality(Filings) <= 1
  BY <1>2 DEF Supported
<1>4. IsFiniteSet(Filings)
  <2>1. Program \in Seq(Statement)
    BY CaseProgram DEF RulesInv
  <2>2. PICK n \in Nat : DOMAIN Program = 1 .. n
    BY <2>1
  <2>3. Filings \subseteq 1 .. n
    BY <2>2 DEF Filings
  <2>4. IsFiniteSet(1 .. n)
    BY FS_Interval
  <2> QED
    BY <2>3, <2>4, FS_Subset
<1>5. ASSUME NEW i \in Filings, NEW j \in Filings PROVE i = j
  <2> SUFFICES ASSUME i # j PROVE FALSE
    OBVIOUS
  <2>1. IsFiniteSet({i}) /\ Cardinality({i}) = 1
    BY FS_Singleton
  <2>2. Cardinality({i} \cup {j}) = 2
    <3>1. PICK single : single = {i}
      OBVIOUS
    <3>2. IsFiniteSet(single) /\ Cardinality(single) = 1 /\ j \notin single
      BY <2>1, <3>1
    <3>3. Cardinality(single \cup {j}) = Cardinality(single) + 1
      BY <3>2, FS_AddElement
    <3>4. 1 + 1 = 2
      OBVIOUS
    <3> QED
      BY <3>1, <3>2, <3>3, <3>4
  <2>3. {i} \cup {j} \subseteq Filings
    OBVIOUS
  <2>4. Cardinality({i} \cup {j}) <= Cardinality(Filings)
    BY <2>3, <1>4, FS_Subset
  <2>5. Cardinality(Filings) \in Nat
    BY <1>4, FS_CardinalityType
  <2>6. 2 <= Cardinality(Filings)
    BY <2>2, <2>4
  <2>7. \A n \in Nat : ~(2 <= n /\ n <= 1)
    OBVIOUS
  <2> QED
    BY <2>5, <2>6, <2>7, <1>3, Zenon
<1>6. \A f, h \in Targets : f = h
  BY <1>5 DEF Targets
<1> QED
  BY <1>1, <1>2, <1>6

\* When every action has been carried out every folder has its copy.
LEMMA AllFilled ==
  ASSUME RulesInv, pos = Len(actions) + 1, \A i \in 1 .. pos - 1 : Carried(actions[i])
  PROVE  Filled
<1>1. Len(actions) \in Nat /\ pos - 1 = Len(actions)
  BY Facts
<1>2. \A i \in 1 .. Len(actions) : Carried(actions[i])
  BY <1>1
<1>3. \A f \in Targets : \E i \in 1 .. Len(actions) :
        actions[i].op = "fileinto" /\ actions[i].folder = f
  BY ListFacts DEF RulesInv
<1> QED
  BY <1>2, <1>3 DEF Filled, Carried

\* What has been carried out stays so until a later execution begins.
LEMMA CarriedStays ==
  ASSUME RulesInv, RNext, msg # "inbox" => msg' # "inbox", discarded => discarded',
         NEW i \in 1 .. pos - 1, Carried(actions[i])
  PROVE  Carried(actions[i])'
<1>1. i \in 1 .. Len(actions)
  BY Facts
<1>2. actions[i].op = "fileinto" => actions[i].folder \in Folders
  BY <1>1, Facts
<1>3. actions' = actions
  BY DEF RNext, Next, Execution, FileInto, kept, store, StoreFlags, CreateFolder, NoSuchFolder,
         CopyOnly, Move, FallbackCopy, Mark, UidExpunge, Redirect, Reject, Discard, Skip, Finish,
         Retry, ExpungedByOthers, ComesBack
<1>4. /\ \A f \in Folders : copies[f] > 0 => copies'[f] > 0
      /\ redirects > 0 => redirects' > 0
      /\ rejections > 0 => rejections' > 0
  BY Lasting
<1> QED
  BY <1>2, <1>3, <1>4 DEF Carried

\* What the k-th action adds to what has been carried out.
LEMMA CarriedOneMore ==
  ASSUME RulesInv, RNext, msg # "inbox" => msg' # "inbox", discarded => discarded',
         \A i \in 1 .. pos - 1 : Carried(actions[i]),
         NEW k \in 1 .. Len(actions), k = pos, pos' = pos + 1, Carried(actions[k])'
  PROVE  (\A i \in 1 .. pos - 1 : Carried(actions[i]))'
<1>1. Len(actions) \in Nat
  BY Facts
<1>2. \A i \in 1 .. pos - 1 : Carried(actions[i])'
  BY CarriedStays
<1>3. ASSUME NEW i \in 1 .. pos' - 1 PROVE Carried(actions[i])'
  <2>1. i \in 1 .. pos - 1 \/ i = k
    BY <1>1
  <2>2. CASE i = k
    BY <2>2
  <2> QED
    BY <2>1, <2>2, <1>2
<1> QED
  BY <1>3

\* Within an execution a message does not come back, nor is a discard undone.
LEMMA WithinExecution ==
  ASSUME RulesInv, RNext
  PROVE  \/ pos' = 1
         \/ /\ pos' = pos \/ (pos \in 1 .. Len(actions) /\ pos' = pos + 1)
            /\ msg # "inbox" => msg' # "inbox"
            /\ discarded => discarded'
<1>1. StepOK /\ discarded \in BOOLEAN
  BY DEF RulesInv, TypeOK
<1>2. /\ step \in {"file", "mark", "expunge"} => pos \in 1 .. Len(actions)
      /\ \A op : At(op) => pos \in 1 .. Len(actions)
  BY Facts
<1>3. CASE StoreFlags
  BY <1>1, <1>3 DEF StoreFlags, Command, Goto, StepOK
<1>4. CASE FileInto
  BY <1>2, <1>4 DEF FileInto, CreateFolder, NoSuchFolder, CopyOnly, Move, FallbackCopy, Command, Goto,
                   NextAction, store
<1>5. CASE Mark
  BY <1>2, <1>5 DEF Mark, Command, Marked, Goto, NextAction
<1>6. CASE UidExpunge
  BY <1>2, <1>6 DEF UidExpunge, Command, Expunged, Goto, NextAction
<1>7. CASE Redirect
  BY <1>2, <1>7 DEF Redirect, Command, Goto, NextAction, store
<1>8. CASE Reject
  BY <1>2, <1>8 DEF Reject, Command, Goto, store
<1>9. CASE Discard \/ Skip
  BY <1>2, <1>9 DEF Discard, Skip, NextAction, store
<1>10. CASE Finish \/ Retry \/ ComesBack \/ ExpungedByOthers
  BY <1>10 DEF Finish, Retry, ComesBack, ExpungedByOthers, Goto, store
<1> QED
  BY <1>3, <1>4, <1>5, <1>6, <1>7, <1>8, <1>9, <1>10 DEF RNext, Next, Execution

\* A copy lands, unless the message is gone, and then it has landed before.
LEMMA CopyLands ==
  ASSUME RulesInv, RNext, CarriedOK, Supported, step = "file", Copied(Action.folder)
  PROVE  copies'[Action.folder] > 0
<1>1. Action.folder \in Targets /\ Action.folder \in Folders
  BY Facts DEF Action
<1>2. CASE msg = "gone"
  <2>1. copies[Action.folder] > 0
    BY <1>1, <1>2 DEF CarriedOK, Filled
  <2> QED
    BY <2>1, <1>1, Lasting
<1>3. CASE msg # "gone"
  BY <1>1, <1>3, CopiedType DEF RulesInv, TypeOK
<1> QED
  BY <1>2, <1>3

\* The action in hand is carried out by the step that goes on to the next.
LEMMA CarriedInHand ==
  ASSUME RulesInv, RNext, CarriedOK, Supported,
         NEW k \in 1 .. Len(actions), k = pos, pos' = pos + 1
  PROVE  Carried(actions[k])'
<1>1. actions' = actions
  BY DEF RNext, Next, Execution, FileInto, kept, store, StoreFlags, CreateFolder, NoSuchFolder,
         CopyOnly, Move, FallbackCopy, Mark, UidExpunge, Redirect, Reject, Discard, Skip, Finish,
         Retry, ExpungedByOthers, ComesBack
<1> DEFINE a == actions[k]
<1>2. a = Action /\ a \in ActionRecords /\ pos # pos + 1
  <2>1. pos \in Nat
    BY DEF RulesInv, TypeOK
  <2> QED
    BY <2>1, Facts DEF Action
<1>3. /\ step \in {"file", "mark", "expunge"} => a.op = "fileinto"
      /\ \A op : At(op) => a.op = op
      /\ step \in {"mark", "expunge"} => copies[a.folder] > 0 /\ a.folder \in Folders
  BY <1>2, Facts DEF CarriedOK, Action
<1>4. step = "file" /\ Copied(a.folder) => copies'[a.folder] > 0
  BY <1>2, CopyLands
<1>5. step \in {"mark", "expunge"} => copies'[a.folder] > 0
  BY <1>3, Lasting
<1>6. MoreThan(redirects) > 0 /\ MoreThan(rejections) > 0
  BY Counting DEF RulesInv, TypeOK
<1>7. step = "expunge" => msg # "inbox"
  BY DEF RulesInv, StepOK
<1>8. pos # 1 \/ pos' # 1
  BY <1>2
<1> SUFFICES /\ a.op = "fileinto" => copies'[a.folder] > 0
             /\ a.op = "fileinto" /\ ~a.copy => msg' # "inbox"
             /\ a.op = "redirect" => redirects' > 0
             /\ a.op = "reject" => rejections' > 0
             /\ a.op \in {"reject", "discard"} => discarded'
  BY <1>1 DEF Carried
<1> HIDE DEF a
<1>9. CASE CopyOnly
  BY <1>2, <1>3, <1>4, <1>9 DEF CopyOnly, Command, Goto
<1>10. CASE Move
  BY <1>2, <1>3, <1>4, <1>10 DEF Move, Command, Goto
<1>11. CASE Mark
  BY <1>2, <1>3, <1>5, <1>11 DEF Mark, Command, Marked, Goto
<1>12. CASE UidExpunge
  BY <1>2, <1>3, <1>5, <1>7, <1>12 DEF UidExpunge, Command, Expunged, Goto
<1>13. CASE Redirect
  BY <1>2, <1>3, <1>6, <1>13 DEF Redirect, Command, Goto
<1>14. CASE Reject
  BY <1>2, <1>3, <1>6, <1>14 DEF Reject, Command, Goto
<1>15. CASE Discard
  BY <1>3, <1>15 DEF Discard
<1>16. CASE Skip
  BY <1>3, <1>16 DEF Skip
<1>17. CASE StoreFlags \/ CreateFolder \/ NoSuchFolder \/ FallbackCopy \/ Finish \/ ExpungedByOthers
  BY <1>2, <1>17 DEF StoreFlags, CreateFolder, NoSuchFolder, FallbackCopy, Finish, ExpungedByOthers, ComesBack,
                     Command, Goto
<1>18. CASE Retry \/ ComesBack
  <2>1. pos = 0
    BY <1>18 DEF Retry, ComesBack, RulesInv, TypeOK
  <2> QED
    BY <2>1
<1> QED
  BY <1>9, <1>10, <1>11, <1>12, <1>13, <1>14, <1>15, <1>16, <1>17, <1>18
     DEF RNext, Next, Execution, FileInto

\* Every action before the one in hand has been carried out.
LEMMA CarriedPrefix ==
  ASSUME RulesInv, RNext, CarriedOK, Supported
  PROVE  (\A i \in 1 .. pos - 1 : Carried(actions[i]))'
<1>1. \A i \in 1 .. pos - 1 : Carried(actions[i])
  BY DEF CarriedOK
<1>2. CASE pos' = 1
  BY <1>2
<1>3. CASE pos' = pos /\ (msg # "inbox" => msg' # "inbox") /\ (discarded => discarded')
  <2>1. \A i \in 1 .. pos - 1 : Carried(actions[i])'
    BY <1>1, <1>3, CarriedStays
  <2> QED
    BY <1>3, <2>1
<1>4. CASE /\ pos \in 1 .. Len(actions) /\ pos' = pos + 1
           /\ (msg # "inbox" => msg' # "inbox") /\ (discarded => discarded')
  <2>1. PICK k \in 1 .. Len(actions) : k = pos
    BY <1>4
  <2>2. Carried(actions[k])'
    BY <2>1, <1>4, CarriedInHand
  <2> QED
    BY <2>1, <2>2, <1>1, <1>4, CarriedOneMore
<1> QED
  BY <1>2, <1>3, <1>4, WithinExecution

\* A supported script marks or removes a message when all its folders have a copy.
LEMMA FilledStep ==
  ASSUME RulesInv, RNext, CarriedOK, Supported
  PROVE  (msg # "inbox" => Filled)'
<1>1. Targets' = Targets /\ Targets \subseteq Folders
  BY ScriptStays, Facts DEF RNext
<1>2. Filled => Filled'
  BY <1>1, Lasting DEF Filled
<1>3. CASE msg # "inbox"
  BY <1>2, <1>3 DEF CarriedOK
<1>4. CASE msg = "inbox" /\ Move
  <2>1. CASE Copied(Action.folder)
    <3>1. pos \in 1 .. Len(actions) /\ Action.op = "fileinto" /\ ~Action.copy
      BY <1>4, Facts DEF Move
    <3>2. Targets = {Action.folder}
      BY <3>1, OneMove
    <3>3. copies'[Action.folder] > 0
      BY <1>4, <2>1, CopyLands DEF Move
    <3> QED
      BY <1>1, <3>2, <3>3 DEF Filled
  <2>2. CASE ~Copied(Action.folder)
    BY <1>4, <2>2 DEF Move, Command
  <2> QED
    BY <2>1, <2>2
<1>5. CASE Mark
  <2>1. CASE step = "mark"
    <3>1. pos \in 1 .. Len(actions) /\ Action.op = "fileinto" /\ ~Action.copy
      BY <2>1, Facts
    <3>2. Targets = {Action.folder}
      BY <3>1, OneMove
    <3>3. copies[Action.folder] > 0
      BY <2>1 DEF CarriedOK
    <3> QED
      BY <3>2, <3>3, <1>2 DEF Filled
  <2>2. CASE step = "delete"
    <3>1. pos = Len(actions) + 1
      BY <2>2 DEF RulesInv, StepOK
    <3>2. Filled
      BY <3>1, AllFilled DEF CarriedOK
    <3> QED
      BY <3>2, <1>2
  <2> QED
    BY <2>1, <2>2, <1>5 DEF Mark
<1>6. CASE msg = "inbox" /\ ~Move /\ ~Mark
  <2>1. msg' = "inbox"
    BY <1>6
       DEF RNext, Next, Execution, FileInto, store, StoreFlags, CreateFolder, NoSuchFolder, CopyOnly,
           FallbackCopy, UidExpunge, Redirect, Reject, Discard, Skip, Finish, Retry,
           ExpungedByOthers, ComesBack, Command, Expunged
  <2> QED
    BY <2>1
<1> QED
  BY <1>3, <1>4, <1>5, <1>6

\* A message is marked after its copy is made.
LEMMA MarkStep ==
  ASSUME RulesInv, RNext, CarriedOK, Supported
  PROVE  (step \in {"mark", "expunge"} => copies[Action.folder] > 0)'
<1>1. actions' = actions
  BY DEF RNext, Next, Execution, FileInto, kept, store, StoreFlags, CreateFolder, NoSuchFolder,
         CopyOnly, Move, FallbackCopy, Mark, UidExpunge, Redirect, Reject, Discard, Skip, Finish,
         Retry, ExpungedByOthers, ComesBack
<1> SUFFICES ASSUME step' \in {"mark", "expunge"}
             PROVE  pos' = pos /\ copies'[Action.folder] > 0
  BY <1>1 DEF Action
<1>2. step \in {"mark", "expunge"} => copies'[Action.folder] > 0
  <2>1. step \in {"mark", "expunge"} => Action.folder \in Folders /\ copies[Action.folder] > 0
    BY Facts DEF CarriedOK, Action
  <2> QED
    BY <2>1, Lasting
<1>3. step = "file" /\ Copied(Action.folder) => copies'[Action.folder] > 0
  BY CopyLands
<1>4. \/ step \in {"mark", "expunge"} /\ pos' = pos
      \/ step = "file" /\ Copied(Action.folder) /\ pos' = pos
  BY DEF RNext, Next, Execution, FileInto, StoreFlags, CreateFolder, NoSuchFolder, CopyOnly,
         Move, FallbackCopy, Mark, UidExpunge, Redirect, Reject, Discard, Skip, Finish, Retry,
         ExpungedByOthers, ComesBack, Command, Goto, NextAction
<1> QED
  BY <1>2, <1>3, <1>4

\* A message that is kept and not rejected stays where it is, and no discard is noted.
LEMMA KeptStep ==
  ASSUME RulesInv, RNext, CarriedOK, Supported
  PROVE  (Kept /\ ~Asks("reject") => msg = "inbox" /\ ~discarded)'
<1>1. Kept' = Kept /\ Asks("reject")' = Asks("reject")
  BY ScriptStays DEF RNext
<1> SUFFICES ASSUME Kept, ~Asks("reject") PROVE msg' = "inbox" /\ ~discarded'
  BY <1>1
<1>2. msg = "inbox" /\ ~discarded
  BY DEF CarriedOK
<1>3. ~Has("reject") /\ ~Has("discard")
  BY ListFacts DEF RulesInv
<1>4. ~At("reject") /\ ~At("discard")
  BY <1>3, Facts DEF Has, Action
<1>5. step \notin {"mark", "expunge", "delete", "purge"} /\ (step = "file" => Action.copy)
  <2>1. pos \in 1 .. Len(actions) /\ Action.op = "fileinto" => Action.copy
    BY Facts DEF Action
  <2> QED
    BY <2>1, <1>2, Facts DEF RulesInv, StepOK
<1> QED
  BY <1>2, <1>4, <1>5
     DEF RNext, Next, Execution, FileInto, store, StoreFlags, CreateFolder, NoSuchFolder, CopyOnly,
         Move, FallbackCopy, Mark, UidExpunge, Redirect, Reject, Discard, Skip, Finish, Retry,
         ExpungedByOthers, ComesBack, Command, Goto, NextAction

\* Together, for a step or a stutter.
LEMMA CarriedInductive ==
  ASSUME RulesInv, CarriedOK, [RNext]_rvars
  PROVE  CarriedOK'
<1>1. CASE RNext
  <2>1. Supported' = Supported
    BY <1>1, ScriptStays DEF RNext
  <2>2. ASSUME Supported
        PROVE  /\ (\A i \in 1 .. pos - 1 : Carried(actions[i]))'
               /\ (msg # "inbox" => Filled)'
               /\ (step \in {"mark", "expunge"} => copies[Action.folder] > 0)'
               /\ (Kept /\ ~Asks("reject") => msg = "inbox" /\ ~discarded)'
    BY <1>1, <2>2, CarriedPrefix, FilledStep, MarkStep, KeptStep
  <2> QED
    BY <2>1, <2>2 DEF CarriedOK
<1>2. CASE UNCHANGED rvars
  <2>1. UNCHANGED <<case, actions, step, pos, discarded, msg, copies, redirects, rejections>>
    BY <1>2 DEF rvars, vars, kept, store, sent
  <2>2. /\ Targets' = Targets /\ Kept' = Kept /\ Supported' = Supported
        /\ Asks("reject")' = Asks("reject")
    BY <2>1, ScriptStays
  <2> QED
    BY <2>1, <2>2 DEF CarriedOK, Carried, Filled, Action
<1> QED
  BY <1>1, <1>2

\* The invariants imply what Ok promises.
LEMMA OkSaysSo ==
  ASSUME RulesInv, CarriedOK
  PROVE  OkMeansScript
<1> SUFFICES ASSUME step = "ok", Supported
             PROVE  /\ \A f \in Targets : copies[f] > 0
                    /\ \A i \in DOMAIN Program :
                         Program[i].st = "redirect" /\ ~Program[i].list => redirects > 0
                    /\ Asks("reject") => rejections > 0
                    /\ (Asks("reject") \/ (Program # << >> /\ Last(Program).st = "discard")) => msg # "inbox"
                    /\ (Moves # {} /\ ~Kept) => msg # "inbox"
                    /\ (Kept /\ ~Asks("reject")) => msg = "inbox"
  BY DEF OkMeansScript
<1>1. pos = Len(actions) + 1 /\ Len(actions) \in Nat /\ (discarded => msg # "inbox")
  BY Facts DEF RulesInv, StepOK
<1>2. \A i \in 1 .. Len(actions) : Carried(actions[i])
  BY <1>1 DEF CarriedOK
<1>3. \A f \in Targets : copies[f] > 0
  BY <1>1, AllFilled DEF CarriedOK, Filled
<1>4. /\ Program # << >> /\ Last(Program).st = "discard" => Has("discard")
      /\ Has("reject") <=> Asks("reject")
      /\ Has("redirect") <=>
           \E k \in DOMAIN Program : Program[k].st = "redirect" /\ ~Program[k].list
      /\ \A f \in Targets : \E i \in 1 .. Len(actions) :
           actions[i].op = "fileinto" /\ actions[i].folder = f
      /\ \A i \in 1 .. Len(actions) : actions[i].op = "fileinto" => (actions[i].copy <=> Kept)
  BY ListFacts DEF RulesInv
<1>5. /\ Has("redirect") => redirects > 0
      /\ Has("reject") => rejections > 0 /\ discarded
      /\ Has("discard") => discarded
  BY <1>2 DEF Has, Carried
<1>6. ASSUME Moves # {}, ~Kept PROVE msg # "inbox"
  <2>1. PICK f \in Targets : TRUE
    BY <1>6 DEF Moves, Targets
  <2>2. PICK i \in 1 .. Len(actions) : actions[i].op = "fileinto" /\ ~actions[i].copy
    BY <2>1, <1>4, <1>6
  <2> QED
    BY <2>2, <1>2 DEF Carried
<1>7. Kept /\ ~Asks("reject") => msg = "inbox"
  BY DEF CarriedOK
<1> QED
  BY <1>1, <1>3, <1>4, <1>5, <1>6, <1>7

\* OkMeansScript: when execute() returns Ok for a supported script, every folder
\* it names has its copy, its mails are sent, and the message is in the mailbox
\* or out of it as the script says.
THEOREM OkKeepsThePromise == RSpec => []OkMeansScript
<1>1. RInit => CarriedOK
  BY DEF RInit, Init, CarriedOK
<1>2. RulesInv /\ CarriedOK /\ [RNext]_rvars => CarriedOK'
  BY CarriedInductive
<1>3. RulesInv /\ CarriedOK => OkMeansScript
  BY OkSaysSo
<1> QED
  BY <1>1, <1>2, <1>3, RulesInvHolds, PTL DEF RSpec

-----------------------------------------------------------------------------
(* What the header says                                                    *)

\* HeadersExact: for every message, parse_headers finds the fields the header
\* has, folded or not, with what they say, and none the body has.
THEOREM HeadersAreExact == RSpec => []HeadersExact
<1>1. RulesInv => HeadersExact
  <2> SUFFICES ASSUME case \in Cases PROVE HeadersExact
    BY DEF RulesInv
  <2>1. case.raw \in Seq(Text)
    BY RulesConstants
  <2> QED
    BY <2>1, ParseExact DEF HeadersExact
<1> QED
  BY <1>1, RulesInvHolds, PTL

-----------------------------------------------------------------------------
(* Repetitions are accounted for                                           *)

Redirections   == {i \in 1 .. Len(actions) : actions[i].op = "redirect"}
Rejections     == {i \in 1 .. Len(actions) : actions[i].op = "reject"}
FilingsInto(f) == {i \in 1 .. Len(actions) : actions[i].op = "fileinto" /\ actions[i].folder = f}

\* The last action that this execution may have delivered.
Reached == IF step \in {"mark", "expunge"} THEN pos ELSE pos - 1

\* A CREATE failed, and the command in flight is going to.
Stuck == step = "file" /\ Action.folder \notin mailboxes

UpTo(A, r) == Cardinality({i \in A : i <= r})

\* Earlier executions, each of which failed a command or was begun anew after an
\* Ok, delivered each action of A once at most, and this one those it has reached.
Within(n, A) ==
  /\ n <= Reasons * Cardinality(A) + UpTo(A, Reached)
  /\ step = "err" => n <= Reasons * Cardinality(A)
  /\ Stuck => Reasons >= 1 /\ n <= (Reasons - 1) * Cardinality(A) + UpTo(A, Reached)

CountsOK ==
  /\ sender = SenderKind(EnvelopeFrom(case.raw, case.from))
  /\ Feasible =>
       /\ Within(redirects, Redirections)
       /\ Within(rejections, Rejections)
       /\ \A f \in Folders : Within(copies[f], FilingsInto(f))

\* Products of numbers.
LEMMA OneTimeMore ==
  ASSUME NEW k \in Nat, NEW c \in Nat
  PROVE  k * c \in Nat /\ (k + 1) * c = k * c + c
OBVIOUS

LEMMA TimesMonotone ==
  ASSUME NEW k \in Nat, NEW a \in Nat, NEW b \in Nat, a <= b
  PROVE  k * a <= k * b
OBVIOUS

\* Counting the members of A up to a position.
LEMMA UpToCount ==
  ASSUME NEW n \in Nat, NEW A, A \subseteq 1 .. n, NEW r \in Int, NEW s \in Int
  PROVE  /\ Cardinality(A) \in Nat /\ UpTo(A, r) \in Nat /\ UpTo(A, r) <= Cardinality(A)
         /\ r < 1 => UpTo(A, r) = 0
         /\ r <= s => UpTo(A, r) <= UpTo(A, s)
         /\ \A p \in A : r < p => UpTo(A, r) + 1 <= Cardinality(A)
         /\ \A p \in A : r < p /\ p <= s => UpTo(A, r) + 1 <= UpTo(A, s)
<1> DEFINE U(x) == {i \in A : i <= x}
<1>1. IsFiniteSet(1 .. n)
  BY FS_Interval
<1>2. IsFiniteSet(A)
  BY <1>1, FS_Subset
<1>3. ASSUME NEW x \in Int PROVE IsFiniteSet(U(x)) /\ Cardinality(U(x)) \in Nat
  <2>1. U(x) \in SUBSET A
    OBVIOUS
  <2> QED
    BY <1>2, <2>1, FS_Subset, FS_CardinalityType
<1>4. Cardinality(A) \in Nat
  BY <1>2, FS_CardinalityType
<1>5. ASSUME NEW S \in SUBSET A, NEW T \in SUBSET A, S \subseteq T
      PROVE  Cardinality(S) <= Cardinality(T)
  <2>1. IsFiniteSet(T)
    BY <1>2, FS_Subset
  <2> QED
    BY <1>5, <2>1, FS_Subset
<1>6. Cardinality(U(r)) <= Cardinality(A)
  <2>1. U(r) \in SUBSET A /\ A \in SUBSET A
    OBVIOUS
  <2> QED
    BY <1>5, <2>1
<1>7. ASSUME r < 1 PROVE Cardinality(U(r)) = 0
  <2>1. U(r) = {}
    <3>1. \A i \in A : i \in Nat /\ 1 <= i
      OBVIOUS
    <3> QED
      <4>1. \A i \in A : ~(i <= r)
        BY <1>7, <3>1
      <4> QED
        BY <4>1
  <2> QED
    BY <2>1, FS_EmptySet
<1>8. ASSUME r <= s PROVE Cardinality(U(r)) <= Cardinality(U(s))
  <2>1. U(r) \in SUBSET A /\ U(s) \in SUBSET A
    OBVIOUS
  <2>2. U(r) \subseteq U(s)
    <3>1. \A i \in A : i \in Nat
      OBVIOUS
    <3> QED
      <4>1. \A i \in A : i <= r => i <= s
        BY <1>8, <3>1
      <4> QED
        BY <4>1
  <2> QED
    BY <1>5, <2>1, <2>2
<1>9. ASSUME NEW p \in A, r < p, NEW T \in SUBSET A, U(r) \cup {p} \subseteq T
      PROVE  Cardinality(U(r)) + 1 <= Cardinality(T)
  <2>1. p \notin U(r)
    BY <1>9
  <2>2. Cardinality(U(r) \cup {p}) = Cardinality(U(r)) + 1
    <3>1. IsFiniteSet(U(r))
      BY <1>3
    <3> HIDE DEF U
    <3> QED
      BY <2>1, <3>1, FS_AddElement
  <2>3. U(r) \cup {p} \in SUBSET A
    OBVIOUS
  <2>4. Cardinality(U(r) \cup {p}) <= Cardinality(T)
    BY <1>5, <1>9, <2>3
  <2> QED
    BY <2>2, <2>4
<1>10. ASSUME NEW p \in A, r < p PROVE Cardinality(U(r)) + 1 <= Cardinality(A)
  <2>1. U(r) \cup {p} \subseteq A /\ A \in SUBSET A
    OBVIOUS
  <2> QED
    BY <1>9, <1>10, <2>1
<1>11. ASSUME NEW p \in A, r < p, p <= s PROVE Cardinality(U(r)) + 1 <= Cardinality(U(s))
  <2>1. U(s) \in SUBSET A
    OBVIOUS
  <2>2. U(r) \cup {p} \subseteq U(s)
    <3>1. \A i \in A : i \in Nat
      OBVIOUS
    <3> QED
      <4>1. \A i \in A : i <= r => i <= s
        BY <1>11, <3>1
      <4> QED
        BY <1>11, <4>1
  <2> QED
    BY <1>9, <1>11, <2>1, <2>2
<1> QED
  BY <1>3, <1>4, <1>6, <1>7, <1>8, <1>10, <1>11 DEF UpTo

\* A script that is feasible has no fileinto into a folder that is neither there
\* nor to be created, and no mail that cannot be sent.
LEMMA FeasibleList ==
  ASSUME RulesInv, CountsOK, Feasible
  PROVE  /\ \A i \in 1 .. Len(actions) : actions[i].op = "fileinto" =>
              actions[i].create \/ actions[i].folder \in mailboxes
         /\ At("redirect") => SendsFrom(sender)
         /\ At("reject") => SendsTo(sender)
<1>1. /\ \A i \in 1 .. Len(actions) : actions[i].op = "fileinto" =>
           \E k \in Filings : /\ actions[i].folder = Program[k].folder
                              /\ actions[i].create = Program[k].create
      /\ Has("reject") <=> Asks("reject")
      /\ Has("redirect") <=>
           \E k \in DOMAIN Program : Program[k].st = "redirect" /\ ~Program[k].list
  BY ListFacts DEF RulesInv
<1>2. Existing \subseteq mailboxes
  BY DEF RulesInv, TypeOK
<1>3. \A i \in Filings : Program[i].create \/ Program[i].folder \in Existing
  BY DEF Feasible
<1>4. \A i \in 1 .. Len(actions) : actions[i].op = "fileinto" =>
        actions[i].create \/ actions[i].folder \in mailboxes
  <2> SUFFICES ASSUME NEW i \in 1 .. Len(actions), actions[i].op = "fileinto"
               PROVE  actions[i].create \/ actions[i].folder \in mailboxes
    OBVIOUS
  <2>1. PICK k \in Filings : /\ actions[i].folder = Program[k].folder
                             /\ actions[i].create = Program[k].create
    BY <1>1
  <2> QED
    BY <1>2, <1>3, <2>1
<1>5. \A op : At(op) => Has(op)
  BY Facts DEF Has, Action
<1>6. At("redirect") => Asks("redirect")
  BY <1>1, <1>5 DEF Asks, HasStatement
<1>7. At("reject") => Asks("reject")
  BY <1>1, <1>5
<1>8. Asks("redirect") \/ Asks("reject") => HasSmtp /\ sender = "address"
  <2> HAVE Asks("redirect") \/ Asks("reject")
  <2>1. HasSmtp /\ HasSender
    BY DEF Feasible
  <2>2. SenderKind(EnvelopeFrom(case.raw, case.from)) = "address"
    BY <2>1, SenderFound DEF RulesInv
  <2> QED
    BY <2>1, <2>2 DEF CountsOK
<1> QED
  BY <1>4, <1>6, <1>7, <1>8 DEF SendsFrom, SendsTo

\* What a step is to an execution of a feasible script.
Stays == UNCHANGED <<step, pos, Reasons, actions, mailboxes, copies, redirects, rejections>>
GoesOn ==
  /\ step # "err" /\ step' # "err" /\ ~Stuck'
  /\ Reasons' = Reasons
  /\ Reached <= Reached'
Fails ==
  /\ step # "err" /\ step' = "err" /\ Reasons' = Reasons + 1
  /\ pos' = pos
IsNotCreated ==
  /\ step = "dispose" /\ step' = "file" /\ Reasons' = Reasons + 1
  /\ UNCHANGED <<pos, copies, redirects, rejections>>
IsRefused ==
  /\ Stuck /\ step' = "err"
  /\ UNCHANGED <<pos, Reasons, copies, redirects, rejections>>
StartsAgain ==
  /\ step = "err" /\ step' = "start" /\ pos' = 1
  /\ UNCHANGED <<Reasons, copies, redirects, rejections>>
ComesAgain ==
  /\ step' = "start" /\ pos' = 1 /\ Reasons' = Reasons + 1
  /\ UNCHANGED <<copies, redirects, rejections>>

LEMMA ReasonsType ==
  ASSUME RulesInv
  PROVE  faults \in Nat /\ returns \in Nat /\ Reasons \in Nat
<1>1. MaxFaults \in Nat /\ MaxReturns \in Nat
  BY ExecutorConstants
<1>2. faults \in 0 .. MaxFaults /\ returns \in 0 .. MaxReturns
  BY DEF RulesInv, TypeOK
<1>3. faults \in Nat /\ returns \in Nat
  BY <1>1, <1>2
<1> QED
  BY <1>3 DEF Reasons

LEMMA Passages ==
  ASSUME RulesInv, CountsOK, Feasible, RNext
  PROVE  Stays \/ GoesOn \/ Fails \/ IsNotCreated \/ IsRefused \/ StartsAgain \/ ComesAgain
<1>1. /\ pos \in Nat /\ Len(actions) \in Nat
      /\ step = "file" => pos \in 1 .. Len(actions) /\ Action.op = "fileinto"
      /\ \A op : At(op) => pos \in 1 .. Len(actions) /\ Action.op = op
  <2>1. pos \in 1 .. Len(actions) + 1
    BY DEF RulesInv, TypeOK
  <2> QED
    BY <2>1, Facts
<1>2. /\ pos \in 1 .. Len(actions) /\ Action.op = "fileinto" =>
           Action.create \/ Action.folder \in mailboxes
      /\ At("redirect") => SendsFrom(sender)
      /\ At("reject") => SendsTo(sender)
  BY FeasibleList DEF Action
<1>3. actions' = actions
  BY DEF RNext, Next, Execution, FileInto, kept, store, StoreFlags, CreateFolder, NoSuchFolder,
         CopyOnly, Move, FallbackCopy, Mark, UidExpunge, Redirect, Reject, Discard, Skip, Finish,
         Retry, ExpungedByOthers, ComesBack
<1>4. ASSUME \/ StoreFlags \/ CreateFolder \/ NoSuchFolder \/ CopyOnly \/ Move \/ FallbackCopy
             \/ Mark \/ UidExpunge \/ Redirect \/ Reject \/ Discard \/ Skip \/ Finish \/ Retry
             \/ ExpungedByOthers
      PROVE  /\ faults' = faults => Reasons' = Reasons
             /\ faults' = faults + 1 => Reasons' = Reasons + 1
  <2>1. returns' = returns
    BY <1>4 DEF kept, StoreFlags, CreateFolder, NoSuchFolder, CopyOnly, Move, FallbackCopy, Mark,
                UidExpunge, Redirect, Reject, Discard, Skip, Finish, Retry, ExpungedByOthers
  <2> QED
    BY <2>1, ReasonsType DEF Reasons
<1>5. CASE StoreFlags
  <2>1. /\ step = "start" /\ pos' = pos
        /\ \/ step' = "dispose" /\ faults' = faults
           \/ step' = "err" /\ faults' = faults + 1
    BY <1>5 DEF StoreFlags, Command, Goto
  <2> QED
    BY <1>1, <1>4, <1>5, <2>1 DEF GoesOn, Fails, Reached, Stuck
<1>6. CASE CreateFolder
  <2>1. /\ step = "dispose" /\ step' = "file" /\ pos' = pos /\ pos \in 1 .. Len(actions)
        /\ Action.op = "fileinto" /\ UNCHANGED <<copies, redirects, rejections>>
        /\ \/ /\ mailboxes' = IF Action.create THEN mailboxes \cup {Action.folder} ELSE mailboxes
              /\ faults' = faults
           \/ faults' = faults + 1
    BY <1>1, <1>6 DEF CreateFolder, Goto, sent, At
  <2>2. Action' = Action
    BY <1>3, <2>1 DEF Action
  <2>3. CASE faults' = faults /\ mailboxes' = IF Action.create THEN mailboxes \cup {Action.folder}
                                              ELSE mailboxes
    <3>1. Action.folder \in mailboxes'
      BY <1>2, <2>1, <2>3
    <3> QED
      BY <1>1, <1>4, <1>6, <2>1, <2>2, <2>3, <3>1 DEF GoesOn, Reached, Stuck
  <2>4. CASE faults' = faults + 1
    BY <1>4, <1>6, <2>1, <2>4 DEF IsNotCreated
  <2> QED
    BY <2>1, <2>3, <2>4
<1>7. CASE NoSuchFolder
  BY <1>4, <1>7 DEF NoSuchFolder, Goto, store, sent, IsRefused, Stuck
<1>8. CASE CopyOnly \/ Move \/ FallbackCopy
  <2>1. /\ step = "file"
        /\ \/ step' = "dispose" /\ pos' = pos + 1 /\ faults' = faults
           \/ step' = "mark" /\ pos' = pos /\ faults' = faults
           \/ step' = "err" /\ pos' = pos /\ faults' = faults + 1
    BY <1>8 DEF CopyOnly, Move, FallbackCopy, Command, Goto, NextAction
  <2> QED
    BY <1>1, <1>4, <1>8, <2>1 DEF GoesOn, Fails, Reached, Stuck
<1>9. CASE Mark
  <2>1. \/ /\ step = "mark"
           /\ \/ step' = "expunge" /\ pos' = pos /\ faults' = faults
              \/ step' = "dispose" /\ pos' = pos + 1 /\ faults' = faults
              \/ step' = "err" /\ pos' = pos /\ faults' = faults + 1
        \/ /\ step = "delete"
           /\ \/ step' \in {"purge", "ok"} /\ pos' = pos /\ faults' = faults
              \/ step' = "err" /\ pos' = pos /\ faults' = faults + 1
    BY <1>9 DEF Mark, Command, Goto, NextAction
  <2> QED
    BY <1>1, <1>4, <1>9, <2>1 DEF GoesOn, Fails, Reached, Stuck
<1>10. CASE UidExpunge
  <2>1. \/ /\ step = "expunge"
           /\ \/ step' = "dispose" /\ pos' = pos + 1 /\ faults' = faults
              \/ step' = "err" /\ pos' = pos /\ faults' = faults + 1
        \/ /\ step = "purge"
           /\ \/ step' = "ok" /\ pos' = pos /\ faults' = faults
              \/ step' = "err" /\ pos' = pos /\ faults' = faults + 1
    BY <1>10 DEF UidExpunge, Command, Goto, NextAction
  <2> QED
    BY <1>1, <1>4, <1>10, <2>1 DEF GoesOn, Fails, Reached, Stuck
<1>11. CASE Redirect \/ Reject
  <2>1. /\ step = "dispose"
        /\ \/ step' = "dispose" /\ pos' = pos + 1 /\ faults' = faults
           \/ step' = "err" /\ pos' = pos /\ faults' = faults + 1
    BY <1>2, <1>11 DEF Redirect, Reject, At, Command, Goto, NextAction
  <2> QED
    BY <1>1, <1>4, <1>11, <2>1 DEF GoesOn, Fails, Reached, Stuck
<1>12. CASE Discard \/ Skip
  <2>1. step = "dispose" /\ step' = "dispose" /\ pos' = pos + 1 /\ faults' = faults
    BY <1>12 DEF Discard, Skip, At, NextAction
  <2> QED
    BY <1>1, <1>4, <1>12, <2>1 DEF GoesOn, Reached, Stuck
<1>13. CASE Finish
  <2>1. step = "dispose" /\ step' \in {"delete", "ok"} /\ pos' = pos /\ faults' = faults
    BY <1>13 DEF Finish, Goto
  <2> QED
    BY <1>1, <1>4, <1>13, <2>1 DEF GoesOn, Reached, Stuck
<1>14. CASE Retry
  BY <1>4, <1>14 DEF Retry, StartsAgain, store, sent
<1>15. CASE ExpungedByOthers
  BY <1>3, <1>4, <1>15 DEF ExpungedByOthers, Stays, sent
<1>16. CASE ComesBack
  <2>1. Reasons' = Reasons + 1
    BY <1>16, ReasonsType DEF ComesBack, Reasons
  <2> QED
    BY <2>1, <1>16 DEF ComesBack, ComesAgain, store, sent
<1> QED
  BY <1>5, <1>6, <1>7, <1>8, <1>9, <1>10, <1>11, <1>12, <1>13, <1>14, <1>15,
     <1>16      DEF RNext, Next, Execution, FileInto

\* What a step may add to the count n of what the actions in A deliver.
Adds(n, m, A) ==
  \/ m = n
  \/ /\ m <= n + 1
     /\ pos \in A /\ Reached < pos
     /\ step' # "err" => pos <= Reached'

LEMMA WhatAStepAdds ==
  ASSUME RulesInv, RNext
  PROVE  /\ Adds(redirects, redirects', Redirections)
         /\ Adds(rejections, rejections', Rejections)
         /\ \A f \in Folders : Adds(copies[f], copies'[f], FilingsInto(f))
<1>1. /\ pos \in Nat
      /\ step = "file" => pos \in 1 .. Len(actions) /\ Action.op = "fileinto"
      /\ \A op : At(op) => pos \in 1 .. Len(actions) /\ Action.op = op
  <2>1. pos \in 1 .. Len(actions) + 1
    BY DEF RulesInv, TypeOK
  <2> QED
    BY <2>1, Facts
<1>2. /\ copies \in [Folders -> 0 .. MaxCount]
      /\ redirects \in 0 .. MaxCount /\ rejections \in 0 .. MaxCount
  BY DEF RulesInv, TypeOK
<1>3. \A n \in 0 .. MaxCount : MoreThan(n) <= n + 1
  BY ExecutorConstants DEF MoreThan
<1>4. Adds(redirects, redirects', Redirections)
  <2>1. CASE Redirect
    <3>1. /\ step = "dispose" /\ pos \in Redirections
          /\ redirects' = redirects \/ redirects' = MoreThan(redirects)
          /\ step' = "err" \/ (step' = "dispose" /\ pos' = pos + 1)
      BY <1>1, <2>1 DEF Redirect, Command, Goto, NextAction, At, Action, Redirections
    <3> QED
      BY <1>1, <1>2, <1>3, <3>1 DEF Adds, Reached
  <2>2. CASE ~Redirect
    <3>1. redirects' = redirects
      BY <2>2 DEF RNext, Next, Execution, FileInto, sent, StoreFlags, CreateFolder, NoSuchFolder,
             CopyOnly, Move, FallbackCopy, Mark, UidExpunge, Reject, Discard, Skip, Finish, Retry,
             ExpungedByOthers, ComesBack
    <3> QED
      BY <3>1 DEF Adds
  <2> QED
    BY <2>1, <2>2
<1>5. Adds(rejections, rejections', Rejections)
  <2>1. CASE Reject
    <3>1. /\ step = "dispose" /\ pos \in Rejections
          /\ rejections' = rejections \/ rejections' = MoreThan(rejections)
          /\ step' = "err" \/ (step' = "dispose" /\ pos' = pos + 1)
      BY <1>1, <2>1 DEF Reject, Command, Goto, At, Action, Rejections
    <3> QED
      BY <1>1, <1>2, <1>3, <3>1 DEF Adds, Reached
  <2>2. CASE ~Reject
    <3>1. rejections' = rejections
      BY <2>2 DEF RNext, Next, Execution, FileInto, sent, StoreFlags, CreateFolder, NoSuchFolder,
             CopyOnly, Move, FallbackCopy, Mark, UidExpunge, Redirect, Discard, Skip, Finish, Retry,
             ExpungedByOthers, ComesBack
    <3> QED
      BY <3>1 DEF Adds
  <2> QED
    BY <2>1, <2>2
<1>6. ASSUME NEW f \in Folders PROVE Adds(copies[f], copies'[f], FilingsInto(f))
  <2>1. CASE CopyOnly \/ Move \/ FallbackCopy
    <3>1. /\ step = "file"
          /\ copies' = copies \/ Copied(Action.folder)
          /\ \/ step' = "err"
             \/ step' = "dispose" /\ pos' = pos + 1
             \/ step' = "mark" /\ pos' = pos
      BY <2>1 DEF CopyOnly, Move, FallbackCopy, Command, Goto, NextAction
    <3>2. copies'[f] = copies[f] \/ (Action.folder = f /\ copies'[f] = MoreThan(copies[f]))
      <4>1. copies' = copies \/ copies' = [copies EXCEPT ![Action.folder] = MoreThan(@)]
        BY <3>1 DEF Copied
      <4> QED
        BY <1>2, <4>1
    <3>3. Action.folder = f => pos \in FilingsInto(f)
      BY <1>1, <3>1 DEF FilingsInto, Action
    <3>4. copies[f] \in 0 .. MaxCount
      BY <1>2
    <3> QED
      BY <1>1, <1>3, <3>1, <3>2, <3>3, <3>4 DEF Adds, Reached
  <2>2. CASE ~(CopyOnly \/ Move \/ FallbackCopy)
    <3>1. copies' = copies
      BY <2>2 DEF RNext, Next, Execution, FileInto, store, StoreFlags, CreateFolder, NoSuchFolder, Mark,
             UidExpunge, Redirect, Reject, Discard, Skip, Finish, Retry, ExpungedByOthers, ComesBack
    <3> QED
      BY <3>1 DEF Adds
  <2> QED
    BY <2>1, <2>2
<1> QED
  BY <1>4, <1>5, <1>6

\* One count, one step.
LEMMA WithinStep ==
  ASSUME RulesInv, CountsOK, Feasible, RNext,
         NEW A, A \subseteq 1 .. Len(actions), NEW n \in Nat, NEW m \in Nat,
         Within(n, A), Adds(n, m, A),
         UNCHANGED <<copies, redirects, rejections>> => m = n
  PROVE  /\ m <= Reasons' * Cardinality(A) + UpTo(A, Reached')
         /\ step' = "err" => m <= Reasons' * Cardinality(A)
         /\ Stuck' => Reasons' >= 1 /\ m <= (Reasons' - 1) * Cardinality(A) + UpTo(A, Reached')
<1>1. PICK len \in Nat : len = Len(actions) /\ pos \in 1 .. len + 1
  <2>1. Len(actions) \in Nat
    BY Facts
  <2> QED
    BY <2>1 DEF RulesInv, TypeOK
<1>2. /\ Reasons \in Nat /\ Reasons' \in Nat
      /\ pos' \in Nat
  <2>0. RulesInv'
    BY RulesInductive
  <2>1. TypeOK'
    BY <2>0 DEF RulesInv
  <2>2. \A k \in Nat : 1 .. k \subseteq Nat
    OBVIOUS
  <2>3. Reasons \in Nat
    BY ReasonsType
  <2>4. Reasons' \in Nat
    <3>1. MaxFaults \in Nat /\ MaxReturns \in Nat
      BY ExecutorConstants
    <3>2. faults' \in 0 .. MaxFaults /\ returns' \in 0 .. MaxReturns
      BY <2>1 DEF TypeOK
    <3>3. faults' \in Nat /\ returns' \in Nat
      BY <3>1, <3>2
    <3>4. Reasons' = faults' + returns'
      BY DEF Reasons
    <3>5. \A a, b \in Nat : a + b \in Nat
      OBVIOUS
    <3>6. faults' + returns' \in Nat
      BY <3>3, <3>5
    <3> QED
      BY <3>4, <3>6
  <2>5. pos' \in 1 .. Len(actions)' + 1 /\ Len(actions)' \in Nat
    <3>1. (Len(actions) \in Nat)'
      BY <2>0, ListFacts DEF RulesInv
    <3> QED
      BY <2>1, <3>1 DEF TypeOK
  <2> QED
    BY <2>2, <2>3, <2>4, <2>5
<1>3. Reached \in Int /\ Reached' \in Int
  BY <1>1, <1>2 DEF Reached
<1> DEFINE C == Cardinality(A)
           u == UpTo(A, Reached)
           v == UpTo(A, Reached')
<1>4. /\ C \in Nat /\ u \in Nat /\ v \in Nat /\ u <= C
      /\ Reached' < 1 => v = 0
      /\ Reached <= Reached' => u <= v
      /\ \A p \in A : Reached < p => u + 1 <= C
      /\ \A p \in A : Reached < p /\ p <= Reached' => u + 1 <= v
  BY <1>1, <1>3, UpToCount
<1>5. /\ n <= Reasons * C + u
      /\ step = "err" => n <= Reasons * C
      /\ Stuck => Reasons >= 1 /\ n <= (Reasons - 1) * C + u
  BY DEF Within
<1> HIDE DEF C, u, v
<1>6. PICK w \in Nat : w = Reasons * C /\ (Reasons + 1) * C = w + C
  BY <1>2, <1>4, OneTimeMore
<1>7. CASE Stays
  <2>1. m = n /\ Reached' = Reached /\ Reasons' = Reasons /\ step' = step
    BY <1>7 DEF Stays, Reached
  <2>2. v = u /\ (Stuck' => Stuck)
    BY <1>7, <2>1 DEF Stays, Stuck, Action, u, v
  <2> QED
    BY <1>5, <2>1, <2>2 DEF C, v
<1>8. CASE GoesOn
  <2>1. m <= w + v
    <3>1. CASE m = n
      BY <1>4, <1>5, <1>6, <1>8, <3>1 DEF GoesOn
    <3>2. CASE m <= n + 1 /\ pos \in A /\ Reached < pos /\ pos <= Reached'
      BY <1>4, <1>5, <1>6, <3>2
    <3> QED
      BY <1>8, <3>1, <3>2 DEF GoesOn, Adds
  <2> QED
    BY <1>6, <1>8, <2>1 DEF GoesOn, C, v
<1>9. CASE Fails
  <2>1. m <= w + C
    <3>1. CASE m = n
      BY <1>4, <1>5, <1>6, <3>1
    <3>2. CASE m <= n + 1 /\ pos \in A /\ Reached < pos
      BY <1>4, <1>5, <1>6, <3>2
    <3> QED
      BY <3>1, <3>2 DEF Adds
  <2>2. Reasons' * C = w + C /\ step' = "err"
    BY <1>6, <1>9 DEF Fails
  <2>3. m <= w + C + v
    BY <1>4, <2>1
  <2> QED
    BY <2>1, <2>2, <2>3 DEF C, v, Stuck
<1>10. CASE IsNotCreated
  <2>1. m = n /\ Reasons' = Reasons + 1 /\ step' = "file" /\ Reached' = Reached
    BY <1>10 DEF IsNotCreated, Reached
  <2>2. v = u
    BY <2>1 DEF u, v
  <2>3. Reasons' * C = w + C /\ Reasons' - 1 = Reasons /\ Reasons' >= 1
    BY <1>2, <1>6, <2>1
  <2>4. m <= w + v /\ m <= w + C + v
    BY <1>4, <1>5, <1>6, <2>1, <2>2
  <2> QED
    BY <1>6, <2>1, <2>3, <2>4 DEF C, v
<1>11. CASE IsRefused
  <2>1. m = n /\ Reasons' = Reasons /\ step' = "err" /\ Stuck
    BY <1>11 DEF IsRefused
  <2>2. PICK g \in Nat : g = Reasons - 1
    BY <1>2, <1>5, <2>1
  <2>3. g + 1 = Reasons
    BY <1>2, <2>2
  <2>4. g * C \in Nat /\ (g + 1) * C = g * C + C
    BY <1>4, <2>2, OneTimeMore
  <2>5. m <= g * C + u
    BY <1>5, <2>1, <2>2
  <2>6. m <= w
    BY <1>4, <1>6, <2>3, <2>4, <2>5
  <2>7. m <= w + v
    BY <1>4, <2>6
  <2> QED
    BY <1>6, <2>1, <2>6, <2>7 DEF C, v, Stuck
<1>12. CASE StartsAgain
  <2>1. m = n /\ Reasons' = Reasons /\ step = "err" /\ step' = "start"
    BY <1>12 DEF StartsAgain
  <2>2. m <= w + v
    BY <1>4, <1>5, <1>6, <2>1
  <2> QED
    BY <1>6, <2>1, <2>2 DEF C, v, Stuck
<1>13. CASE ComesAgain
  <2>1. m = n /\ Reasons' = Reasons + 1 /\ step' = "start"
    BY <1>13 DEF ComesAgain
  <2>2. Reasons' * C = w + C
    BY <1>6, <2>1
  <2>3. m <= w + C + v
    BY <1>4, <1>5, <1>6, <2>1
  <2> QED
    BY <2>1, <2>2, <2>3 DEF C, v, Stuck
<1> QED
  BY <1>7, <1>8, <1>9, <1>10, <1>11, <1>12, <1>13, Passages

\* The actions of each kind are positions in the list.
LEMMA ActionSets ==
  /\ Redirections \subseteq 1 .. Len(actions)
  /\ Rejections \subseteq 1 .. Len(actions)
  /\ \A f : FilingsInto(f) \subseteq 1 .. Len(actions)
BY DEF Redirections, Rejections, FilingsInto

\* Whether a script is feasible is a matter of the case.
LEMMA FeasibleStays ==
  ASSUME case' = case
  PROVE  Feasible' = Feasible
<1>1. Program' = Program
  BY DEF Program
<1>2. Filings' = Filings
  BY <1>1 DEF Filings
<1>3. HasSender' = HasSender
  BY DEF HasSender
<1>4. \A st : Asks(st)' = Asks(st)
  BY <1>1 DEF Asks
<1> QED
  BY <1>1, <1>2, <1>3, <1>4 DEF Feasible

LEMMA CountsInitial ==
  ASSUME RInit
  PROVE  CountsOK
<1>1. RulesInv
  BY RulesInitial
<1>2. /\ sender = SenderKind(EnvelopeFrom(case.raw, case.from))
      /\ step = "start" /\ pos = 1 /\ Reasons = 0 /\ redirects = 0 /\ rejections = 0
      /\ copies = [f \in Folders |-> 0]
  BY DEF RInit, Init, Reasons
<1>3. Reached = 0 /\ ~Stuck
  BY <1>2 DEF Reached, Stuck
<1>4. ASSUME NEW A, A \subseteq 1 .. Len(actions) PROVE Within(0, A)
  <2>0. PICK len \in Nat : len = Len(actions)
    BY <1>1, Facts
  <2>1. PICK r \in Int : r = 0
    OBVIOUS
  <2>2. UpTo(A, r) \in Nat /\ Cardinality(A) \in Nat
    BY <1>4, <2>0, UpToCount
  <2>3. 0 * Cardinality(A) = 0
    BY <2>2
  <2>4. 0 <= Reasons * Cardinality(A) + UpTo(A, Reached)
    BY <1>2, <1>3, <2>1, <2>2, <2>3
  <2>5. step # "err"
    BY <1>2
  <2> QED
    BY <1>3, <2>4, <2>5 DEF Within
<1> QED
  BY <1>2, <1>4, ActionSets DEF CountsOK

LEMMA CountsInductive ==
  ASSUME RulesInv, CountsOK, [RNext]_rvars
  PROVE  CountsOK'
<1>1. CASE RNext
  <2>1. UNCHANGED <<actions, sender, case>>
    BY <1>1
       DEF RNext, Next, Execution, FileInto, kept, store, StoreFlags, CreateFolder, NoSuchFolder,
           CopyOnly, Move, FallbackCopy, Mark, UidExpunge, Redirect, Reject, Discard, Skip, Finish,
           Retry, ExpungedByOthers, ComesBack
  <2>2. (sender = SenderKind(EnvelopeFrom(case.raw, case.from)))'
    BY <2>1 DEF CountsOK
  <2>3. Feasible' = Feasible
    BY <2>1, FeasibleStays
  <2>4. /\ Redirections' = Redirections /\ Rejections' = Rejections
        /\ \A f : FilingsInto(f)' = FilingsInto(f)
    BY <2>1 DEF Redirections, Rejections, FilingsInto
  <2>5. /\ redirects \in Nat /\ redirects' \in Nat /\ rejections \in Nat /\ rejections' \in Nat
        /\ \A f \in Folders : copies[f] \in Nat /\ copies'[f] \in Nat
    <3>1. TypeOK /\ TypeOK'
      BY <1>1, RulesInductive DEF RulesInv
    <3>2. MaxCount \in Nat
      BY ExecutorConstants
    <3> QED
      BY <3>1, <3>2 DEF TypeOK
  <2>6. ASSUME Feasible
        PROVE  /\ Within(redirects, Redirections)'
               /\ Within(rejections, Rejections)'
               /\ \A f \in Folders : Within(copies[f], FilingsInto(f))'
    <3>1. /\ Within(redirects, Redirections)
          /\ Within(rejections, Rejections)
          /\ \A f \in Folders : Within(copies[f], FilingsInto(f))
      BY <2>6 DEF CountsOK
    <3>2. /\ Adds(redirects, redirects', Redirections)
          /\ Adds(rejections, rejections', Rejections)
          /\ \A f \in Folders : Adds(copies[f], copies'[f], FilingsInto(f))
      BY <1>1, WhatAStepAdds
    <3>3. Within(redirects, Redirections)'
      <4>1. /\ redirects' <= Reasons' * Cardinality(Redirections) + UpTo(Redirections, Reached')
            /\ step' = "err" => redirects' <= Reasons' * Cardinality(Redirections)
            /\ Stuck' => /\ Reasons' >= 1
                         /\ redirects' <= (Reasons' - 1) * Cardinality(Redirections)
                                            + UpTo(Redirections, Reached')
        BY <1>1, <2>5, <2>6, <3>1, <3>2, ActionSets, WithinStep
      <4> QED
        BY <2>4, <4>1 DEF Within
    <3>4. Within(rejections, Rejections)'
      <4>1. /\ rejections' <= Reasons' * Cardinality(Rejections) + UpTo(Rejections, Reached')
            /\ step' = "err" => rejections' <= Reasons' * Cardinality(Rejections)
            /\ Stuck' => /\ Reasons' >= 1
                         /\ rejections' <= (Reasons' - 1) * Cardinality(Rejections)
                                             + UpTo(Rejections, Reached')
        BY <1>1, <2>5, <2>6, <3>1, <3>2, ActionSets, WithinStep
      <4> QED
        BY <2>4, <4>1 DEF Within
    <3>5. ASSUME NEW f \in Folders PROVE Within(copies[f], FilingsInto(f))'
      <4>1. /\ copies'[f] <= Reasons' * Cardinality(FilingsInto(f)) + UpTo(FilingsInto(f), Reached')
            /\ step' = "err" => copies'[f] <= Reasons' * Cardinality(FilingsInto(f))
            /\ Stuck' => /\ Reasons' >= 1
                         /\ copies'[f] <= (Reasons' - 1) * Cardinality(FilingsInto(f))
                                            + UpTo(FilingsInto(f), Reached')
        <5>1. UNCHANGED <<copies, redirects, rejections>> => copies'[f] = copies[f]
          OBVIOUS
        <5> QED
          BY <1>1, <2>5, <2>6, <3>1, <3>2, <5>1, ActionSets, WithinStep
      <4> QED
        BY <2>4, <4>1 DEF Within
    <3> QED
      BY <3>3, <3>4, <3>5
  <2> QED
    BY <2>2, <2>3, <2>6 DEF CountsOK
<1>2. CASE UNCHANGED rvars
  <2>1. UNCHANGED <<actions, sender, case, step, pos, mailboxes, copies, redirects, rejections, faults, returns>>
    BY <1>2 DEF rvars, vars, kept, store, sent
  <2>2. Feasible' = Feasible
    BY <2>1, FeasibleStays
  <2>3. /\ Redirections' = Redirections /\ Rejections' = Rejections
        /\ \A f : FilingsInto(f)' = FilingsInto(f)
        /\ Reached' = Reached /\ Stuck' = Stuck
    BY <2>1 DEF Redirections, Rejections, FilingsInto, Reached, Stuck, Action
  <2> QED
    BY <2>1, <2>2, <2>3 DEF CountsOK, Within, Reasons
<1> QED
  BY <1>1, <1>2

\* A count within its bound repeats nothing without a reason.
LEMMA FewRepeats ==
  ASSUME RulesInv, NEW A, A \subseteq 1 .. Len(actions), NEW n \in Nat, Within(n, A),
         NEW c \in Nat, Cardinality(A) <= c
  PROVE  n <= (1 + Reasons) * c
<1>1. Reasons \in Nat
  BY ReasonsType
<1>2. Len(actions) \in Nat /\ pos \in Int
  <2>1. Len(actions) \in Nat
    BY Facts
  <2> QED
    BY <2>1 DEF RulesInv, TypeOK
<1>3. Reached \in Int
  BY <1>2 DEF Reached
<1>4. /\ Cardinality(A) \in Nat /\ UpTo(A, Reached) \in Nat
      /\ UpTo(A, Reached) <= Cardinality(A)
  BY <1>2, <1>3, UpToCount
<1>5. n <= Reasons * Cardinality(A) + UpTo(A, Reached)
  BY DEF Within
<1>6. /\ Reasons * Cardinality(A) \in Nat
      /\ (Reasons + 1) * Cardinality(A) = Reasons * Cardinality(A) + Cardinality(A)
  BY <1>1, <1>4, OneTimeMore
<1>7. n <= (Reasons + 1) * Cardinality(A)
  BY <1>4, <1>5, <1>6
<1>8. (Reasons + 1) * Cardinality(A) <= (Reasons + 1) * c
  BY <1>1, <1>4, TimesMonotone
<1>9. (Reasons + 1) * c \in Nat /\ (Reasons + 1) * Cardinality(A) \in Nat
  BY <1>1, <1>4, OneTimeMore
<1>10. 1 + Reasons = Reasons + 1
  BY <1>1
<1> QED
  BY <1>7, <1>8, <1>9, <1>10

\* The list has no more deliveries than the script.
LEMMA NoMoreThanAsked ==
  ASSUME RulesInv
  PROVE  /\ Cardinality(Redirections) <= Occurrences(LAMBDA s : s.st = "redirect")
         /\ Occurrences(LAMBDA s : s.st = "redirect") \in Nat
         /\ Cardinality(Rejections) <= Occurrences(LAMBDA s : s.st = "reject")
         /\ Occurrences(LAMBDA s : s.st = "reject") \in Nat
         /\ \A f \in Folders :
              /\ Cardinality(FilingsInto(f)) <= Occurrences(LAMBDA s : s.st = "fileinto" /\ s.folder = f)
              /\ Occurrences(LAMBDA s : s.st = "fileinto" /\ s.folder = f) \in Nat
<1>1. Program \in Seq(Statement)
  BY CaseProgram DEF RulesInv
<1>2. PICK n \in Nat : n = Len(Program) /\ DOMAIN Program = 1 .. n
  BY <1>1
<1>3. ASSUME NEW T, T \subseteq 1 .. n PROVE Cardinality(T) \in Nat
  <2>1. 1 \in Int /\ n \in Int
    OBVIOUS
  <2>2. IsFiniteSet(1 .. n)
    BY <2>1, FS_Interval
  <2>3. IsFiniteSet(T)
    BY <1>3, <2>2, FS_Subset
  <2> QED
    BY <2>3, FS_CardinalityType
<1>4. actions = Evaluate(Program) /\ DOMAIN actions = 1 .. Len(actions)
  BY Facts DEF RulesInv
<1>5. /\ \A st \in {"redirect", "reject"} :
           Cardinality({i \in DOMAIN actions : actions[i].op = st})
             <= Cardinality({i \in DOMAIN Program : Program[i].st = st})
      /\ \A f \in Folders :
           Cardinality({i \in DOMAIN actions : actions[i].op = "fileinto" /\ actions[i].folder = f})
             <= Cardinality({i \in DOMAIN Program : Program[i].st = "fileinto" /\ Program[i].folder = f})
  BY <1>1, <1>4, NothingTwice
<1>6. /\ Cardinality({i \in DOMAIN Program : Program[i].st = "redirect"}) \in Nat
      /\ Cardinality({i \in DOMAIN Program : Program[i].st = "reject"}) \in Nat
      /\ \A f : Cardinality({i \in DOMAIN Program : Program[i].st = "fileinto" /\ Program[i].folder = f}) \in Nat
  BY <1>2, <1>3
<1> QED
  BY <1>4, <1>5, <1>6 DEF Redirections, Rejections, FilingsInto, Occurrences

\* RepeatsAccountedFor: a feasible script sends each of its mails, and makes each of
\* its copies, once, and once more only for a command that failed or for a message
\* that was carried out and fetched again; no execution delivers anything twice.
THEOREM EveryRepeatHasAReason == RSpec => []RepeatsAccountedFor
<1>1. RInit => CountsOK
  BY CountsInitial
<1>2. RulesInv /\ CountsOK /\ [RNext]_rvars => CountsOK'
  BY CountsInductive
<1>3. ASSUME RulesInv, CountsOK PROVE RepeatsAccountedFor
  <2> SUFFICES ASSUME Feasible
               PROVE  /\ redirects <= (1 + Reasons) * Occurrences(LAMBDA s : s.st = "redirect")
                      /\ rejections <= (1 + Reasons) * Occurrences(LAMBDA s : s.st = "reject")
                      /\ \A f \in Folders : copies[f] <=
                           (1 + Reasons) * Occurrences(LAMBDA s : s.st = "fileinto" /\ s.folder = f)
    BY DEF RepeatsAccountedFor
  <2>1. /\ redirects \in Nat /\ rejections \in Nat
        /\ \A f \in Folders : copies[f] \in Nat
    <3>1. TypeOK /\ MaxCount \in Nat
      BY <1>3, ExecutorConstants DEF RulesInv
    <3> QED
      BY <3>1 DEF TypeOK
  <2>2. /\ Within(redirects, Redirections)
        /\ Within(rejections, Rejections)
        /\ \A f \in Folders : Within(copies[f], FilingsInto(f))
    BY <1>3 DEF CountsOK
  <2>3. redirects <= (1 + Reasons) * Occurrences(LAMBDA s : s.st = "redirect")
    BY <1>3, <2>1, <2>2, ActionSets, NoMoreThanAsked, FewRepeats
  <2>4. rejections <= (1 + Reasons) * Occurrences(LAMBDA s : s.st = "reject")
    BY <1>3, <2>1, <2>2, ActionSets, NoMoreThanAsked, FewRepeats
  <2>5. ASSUME NEW f \in Folders
        PROVE  copies[f] <= (1 + Reasons) * Occurrences(LAMBDA s : s.st = "fileinto" /\ s.folder = f)
    BY <1>3, <2>1, <2>2, ActionSets, NoMoreThanAsked, FewRepeats
  <2> QED
    BY <2>3, <2>4, <2>5
<1> QED
  BY <1>1, <1>2, <1>3, RulesInvHolds, PTL DEF RSpec
=============================================================================
