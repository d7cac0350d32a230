------------------------- MODULE ScriptLoaderProofs -------------------------
(***************************************************************************)
(* Proofs about ScriptLoader, for any number of saves, removals and queue  *)
(* overflows, any of the saves not compiling: types, OneScriptPerBatch,    *)
(* NeverGoesBack and CaughtUp.                                             *)
(***************************************************************************)
EXTENDS ScriptLoader, FiniteSetTheorems, TLAPS

\* The text the last save leaves behind, as far as it is written.
Latest == [save |-> saves, whole |-> ~writing]

\* The path holds the last save, or nothing.
FileOK ==
  /\ file # NoText => file = Latest
  /\ writing => file # NoText

\* Texts pass from the file to the watcher to the ArcSwap, and age on the way.
AgesOK ==
  /\ \A t \in {held, current} : t # NoText => NotOlder(Latest, t)
  /\ held # NoText /\ current # NoText => NotOlder(held, current)
  /\ main \in {"start", "compiling"} => current = NoText

\* A batch has used no script but the one it took.
BatchOK ==
  /\ used \subseteq {batch}
  /\ batch = NoText => used = {}

\* The channel exists, and the thread listens to it, just while the daemon runs.
ThreadOK ==
  /\ watching <=> main = "running"
  /\ main = "running" => thread \in {"waiting", "compiling"}
  /\ main \in {"start", "compiling", "loaded"} => thread = "none"

\* An event that is a reason to read the file waits in the channel.
Announced == \E i \in 1 .. Len(queue) : Relevant(queue[i])

\* Where the last change of the file is, unless its announcement was missed: in
\* the channel, read and about to be compiled, or in use.
FreshOK ==
  ~missed =>
    /\ main = "compiling" => held = file
    /\ main = "loaded" => current = file
    /\ main = "running" =>
         \/ Announced
         \/ thread = "compiling" /\ held = file
         \/ thread = "waiting" /\ (Compiles(file) => current = file)

LoaderInv == TypeOK /\ FileOK /\ AgesOK /\ BatchOK /\ ThreadOK /\ FreshOK

-----------------------------------------------------------------------------
(* Operators                                                               *)

\* What stands for a missing text is no text.
LEMMA NoTextIsNone == NoText \notin Texts /\ MaxSaves \in Nat /\ MaxOverflows \in Nat
BY LoaderConstants DEF LoaderConstants, Texts, NoText

\* Before the start.
LEMMA FirstText == Script0 \in Texts
BY LoaderConstants DEF LoaderConstants, Texts, Script0

\* A text is as old as itself, and age is transitive.
LEMMA AgeOrder ==
  /\ \A t \in Texts : NotOlder(t, t)
  /\ \A t, u, v \in Texts : NotOlder(t, u) /\ NotOlder(u, v) => NotOlder(t, v)
BY NoTextIsNone DEF Texts, NotOlder

\* What a reload leaves in use is what was read, which compiles, or what there
\* was.
LEMMA ReloadResult ==
  ASSUME NEW t
  PROVE  \/ Compiles(t) /\ t # NoText /\ AfterReload(t) = t
         \/ ~Compiles(t) /\ AfterReload(t) = current
BY DEF AfterReload, Compiles

\* Notifying appends what it is given to the channel, if there is one.
LEMMA NotifiedType ==
  ASSUME queue \in Seq(Events), NEW s \in Seq(Events), Notified(s)
  PROVE  queue' \in Seq(Events)
BY DEF Notified

\* Events of the editors.
LEMMA EditorEvents ==
  ASSUME NEW kind \in {"modify", "create", "remove"}
  PROVE  Mine(kind) \in Events /\ Relevant(Mine(kind))
BY DEF Mine, Events, Relevant

\* A relevant event that is appended is in the channel.
LEMMA NotifiedAnnounces ==
  ASSUME queue \in Seq(Events), NEW s \in Seq(Events),
         \E i \in 1 .. Len(s) : Relevant(s[i]),
         Notified(s), watching
  PROVE  Announced'
<1> PICK i \in 1 .. Len(s) : Relevant(s[i])
  OBVIOUS
<1>1. queue' = queue \o s
  BY DEF Notified
<1>2. /\ Len(queue) + i \in 1 .. Len(queue \o s)
      /\ (queue \o s)[Len(queue) + i] = s[i]
  OBVIOUS
<1>3. \E j \in 1 .. Len(queue') : Relevant(queue'[j])
  BY <1>1, <1>2
<1> QED
  BY <1>3 DEF Announced, Relevant

-----------------------------------------------------------------------------
(* The editors and the kernel, taken together                              *)

\* What every change of the file amounts to: the latest text is newer, the file
\* holds it or nothing, and its announcement is in the channel or missed.
Changed ==
  /\ UNCHANGED <<main, thread, watching, held, current, batch, used>>
  /\ overflows' = overflows
  /\ file' \in Texts \cup {NoText} /\ writing' \in BOOLEAN /\ saves' \in 0 .. MaxSaves
  /\ FileOK'
  /\ Latest \in Texts => NotOlder(Latest', Latest)
  /\ queue' \in Seq(Events)
  /\ missed' = ~watching
  /\ watching => Announced'

\* Each of the editors' steps is such a change.
LEMMA EditorChanges ==
  ASSUME TypeOK, FileOK, Editor
  PROVE  Changed
<1> USE NoTextIsNone
<1>0. /\ queue \in Seq(Events) /\ file \in Texts \cup {NoText}
      /\ writing \in BOOLEAN /\ saves \in 0 .. MaxSaves
  BY DEF TypeOK
<1> DEFINE Kept == /\ UNCHANGED <<main, thread, watching, held, current, batch, used>>
                   /\ overflows' = overflows
                   /\ missed' = ~watching
<1>1. ASSUME NEW t, NEW s \in Seq(Events), \E i \in 1 .. Len(s) : Relevant(s[i]),
             Changes(t, s)
      PROVE  /\ Kept /\ file' = t
             /\ queue' \in Seq(Events)
             /\ watching => Announced'
  <2>1. Kept /\ file' = t /\ Notified(s)
    BY <1>1 DEF Changes, text, run
  <2>2. queue' \in Seq(Events)
    BY <1>0, <1>1, <2>1, NotifiedType
  <2> QED
    BY <1>0, <1>1, <2>1, <2>2, NotifiedAnnounces
<1>2. ASSUME NewSave
      PROVE  saves' \in 0 .. MaxSaves /\ saves' = saves + 1 /\ writing = FALSE
  BY <1>0, <1>2 DEF NewSave
<1>3. CASE SaveByRename
  <2> DEFINE s == <<[mine |-> FALSE, kind |-> "modify"], Mine("modify")>>
  <2>1. s \in Seq(Events) /\ \E i \in 1 .. Len(s) : Relevant(s[i])
    BY EditorEvents DEF Events
  <2>2. /\ Changes([save |-> saves', whole |-> TRUE], s)
        /\ NewSave /\ writing' = writing
    BY <1>3 DEF SaveByRename
  <2>3. /\ Kept /\ file' = [save |-> saves', whole |-> TRUE]
        /\ queue' \in Seq(Events) /\ (watching => Announced')
    <3> HIDE DEF s
    <3> QED
      BY <1>1, <2>1, <2>2
  <2>4. file' \in Texts
    BY <1>2, <2>2, <2>3 DEF Texts
  <2>5. FileOK'
    BY <1>2, <2>2, <2>3, <2>4 DEF FileOK, Latest
  <2>6. NotOlder(Latest', Latest)
    BY <1>0, <1>2, <2>2 DEF Latest, NotOlder
  <2> QED
    BY <1>0, <1>2, <2>2, <2>3, <2>4, <2>5, <2>6 DEF Changed
<1>4. CASE SaveInPlace
  <2> DEFINE k == IF file = NoText THEN "create" ELSE "modify"
             s == <<Mine(k)>>
  <2>1. s \in Seq(Events) /\ \E i \in 1 .. Len(s) : Relevant(s[i])
    BY EditorEvents
  <2>2. /\ Changes([save |-> saves', whole |-> FALSE], s)
        /\ NewSave /\ writing' = TRUE
    BY <1>4 DEF SaveInPlace
  <2>3. /\ Kept /\ file' = [save |-> saves', whole |-> FALSE]
        /\ queue' \in Seq(Events) /\ (watching => Announced')
    <3> HIDE DEF s
    <3> QED
      BY <1>1, <2>1, <2>2
  <2>4. file' \in Texts
    BY <1>2, <2>2, <2>3 DEF Texts
  <2>5. FileOK'
    BY <1>2, <2>2, <2>3, <2>4 DEF FileOK, Latest
  <2>6. NotOlder(Latest', Latest)
    BY <1>0, <1>2, <2>2 DEF Latest, NotOlder
  <2> QED
    BY <1>0, <1>2, <2>2, <2>3, <2>4, <2>5, <2>6 DEF Changed
<1>5. CASE FinishWriting
  <2> DEFINE s == <<Mine("modify")>>
  <2>1. s \in Seq(Events) /\ \E i \in 1 .. Len(s) : Relevant(s[i])
    BY EditorEvents
  <2>2. /\ Changes([file EXCEPT !.whole = TRUE], s)
        /\ writing = TRUE /\ writing' = FALSE /\ saves' = saves
    BY <1>0, <1>5 DEF FinishWriting
  <2>3. /\ Kept /\ file' = [file EXCEPT !.whole = TRUE]
        /\ queue' \in Seq(Events) /\ (watching => Announced')
    <3> HIDE DEF s
    <3> QED
      BY <1>1, <2>1, <2>2
  <2>4. file = [save |-> saves, whole |-> FALSE]
    BY <2>2 DEF FileOK, Latest
  <2>5. file' = [save |-> saves, whole |-> TRUE]
    BY <2>3, <2>4
  <2>6. file' \in Texts
    BY <1>0, <2>5 DEF Texts
  <2>7. FileOK' /\ NotOlder(Latest', Latest)
    BY <1>0, <2>2, <2>5, <2>6 DEF FileOK, Latest, NotOlder
  <2> QED
    BY <1>0, <2>2, <2>3, <2>6, <2>7 DEF Changed
<1>6. CASE Remove
  <2> DEFINE s == <<Mine("remove")>>
  <2>1. s \in Seq(Events) /\ \E i \in 1 .. Len(s) : Relevant(s[i])
    BY EditorEvents
  <2>2. Changes(NoText, s) /\ NewSave /\ writing' = writing
    BY <1>6 DEF Remove
  <2>3. /\ Kept /\ file' = NoText
        /\ queue' \in Seq(Events) /\ (watching => Announced')
    <3> HIDE DEF s
    <3> QED
      BY <1>1, <2>1, <2>2
  <2>4. FileOK' /\ NotOlder(Latest', Latest)
    BY <1>0, <1>2, <2>2, <2>3 DEF FileOK, Latest, NotOlder
  <2> QED
    BY <1>0, <1>2, <2>2, <2>3, <2>4 DEF Changed
<1> QED
  BY <1>3, <1>4, <1>5, <1>6 DEF Editor

-----------------------------------------------------------------------------
(* The inductive invariant                                                 *)

\* Nothing is read yet.
LEMMA InitLoaderInv == Init => LoaderInv
<1> SUFFICES ASSUME Init PROVE LoaderInv
  OBVIOUS
<1> USE NoTextIsNone, FirstText DEF Init
<1>1. TypeOK
  <2>1. queue \in Seq(Events)
    OBVIOUS
  <2>2. {writing, watching, missed} \subseteq BOOLEAN
    OBVIOUS
  <2> QED
    BY <2>1, <2>2 DEF TypeOK, Mains
<1>2. FileOK
  BY DEF FileOK, Latest, Script0
<1>3. AgesOK /\ BatchOK /\ ThreadOK /\ FreshOK
  BY DEF AgesOK, BatchOK, ThreadOK, FreshOK
<1> QED
  BY <1>1, <1>2, <1>3 DEF LoaderInv

\* Everything keeps its range, and a running daemon its script.
LEMMA NextTypeOK == TypeOK /\ FileOK /\ [Next]_vars => TypeOK'
<1> SUFFICES ASSUME TypeOK, FileOK, [Next]_vars PROVE TypeOK'
  OBVIOUS
<1> USE NoTextIsNone
<1>0. /\ main \in Mains /\ thread \in {"none", "waiting", "compiling", "done"}
      /\ file \in Texts \cup {NoText} /\ held \in Texts \cup {NoText}
      /\ batch \in Texts \cup {NoText} /\ used \subseteq Texts
      /\ writing \in BOOLEAN /\ watching \in BOOLEAN /\ missed \in BOOLEAN
      /\ saves \in 0 .. MaxSaves /\ overflows \in 0 .. MaxOverflows
      /\ queue \in Seq(Events)
      /\ current \in Texts \cup {NoText}
      /\ main \notin {"start", "compiling", "failed"} => current \in Texts /\ Compiles(current)
  BY DEF TypeOK
<1> USE DEF TypeOK, Mains, Compiles, disk, inbox, text, run, past
<1>1. CASE Load
  BY <1>0, <1>1 DEF Load
<1>2. CASE CompileFirst
  BY <1>0, <1>2 DEF CompileFirst
<1>3. CASE SpawnWatcher
  BY <1>0, <1>3 DEF SpawnWatcher
<1>4. CASE BeginBatch \/ EndBatch
  BY <1>0, <1>4 DEF BeginBatch, EndBatch
<1>5. CASE Evaluate
  BY <1>0, <1>5 DEF Evaluate, ScriptInHand
<1>6. CASE Stop \/ Join
  BY <1>0, <1>6 DEF Stop, Join
<1>7. CASE HandleEvent
  <2>1. Tail(queue) \in Seq(Events) /\ [mine |-> TRUE, kind |-> "access"] \in Events
    BY <1>0, <1>7 DEF HandleEvent, Events
  <2>2. Append(Tail(queue), [mine |-> TRUE, kind |-> "access"]) \in Seq(Events)
    BY <2>1
  <2>3. queue' \in Seq(Events)
    BY <1>7, <2>1, <2>2 DEF HandleEvent
  <2> QED
    BY <1>0, <1>7, <2>3 DEF HandleEvent
<1>8. CASE Swap
  BY <1>0, <1>8 DEF Swap, AfterReload
<1>9. CASE ThreadEnds
  BY <1>0, <1>9 DEF ThreadEnds
<1>10. CASE Editor
  <2>1. Changed
    BY <1>10, EditorChanges
  <2> QED
    BY <1>0, <2>1 DEF Changed
<1>11. CASE Overflow
  <2>1. queue' \in Seq(Events)
    BY <1>11 DEF Overflow, Events
  <2>2. overflows' \in 0 .. MaxOverflows
    BY <1>0, <1>11 DEF Overflow
  <2> QED
    BY <1>0, <1>11, <2>1, <2>2 DEF Overflow
<1>12. CASE UNCHANGED vars
  BY <1>0, <1>12 DEF vars
<1> QED
  BY <1>1, <1>2, <1>3, <1>4, <1>5, <1>6, <1>7, <1>8, <1>9, <1>10, <1>11, <1>12
  DEF Next, Startup, Thread

\* Only the editors touch the file.
LEMMA DiskKept ==
  ASSUME [Next]_vars, ~Editor
  PROVE  UNCHANGED <<file, writing, saves>>
BY DEF Next, Startup, Thread, Load, CompileFirst, SpawnWatcher, BeginBatch, Evaluate,
       EndBatch, Stop, Join, HandleEvent, Swap, ThreadEnds, Overflow, vars, disk

\* The path holds the last save, or nothing.
LEMMA NextFileOK == TypeOK /\ FileOK /\ [Next]_vars => FileOK'
<1> SUFFICES ASSUME TypeOK, FileOK, [Next]_vars PROVE FileOK'
  OBVIOUS
<1>1. CASE Editor
  BY <1>1, EditorChanges DEF Changed
<1>2. CASE ~Editor
  BY <1>2, DiskKept DEF FileOK, Latest
<1> QED
  BY <1>1, <1>2

\* What is read from the file is as new as any text can be.
LEMMA FileIsNewest ==
  ASSUME TypeOK, FileOK, file # NoText
  PROVE  file = Latest /\ Latest \in Texts
BY DEF TypeOK, FileOK

\* Texts only age on their way to the ArcSwap.
LEMMA NextAgesOK == TypeOK /\ FileOK /\ AgesOK /\ ThreadOK /\ [Next]_vars => AgesOK'
<1> SUFFICES ASSUME TypeOK, FileOK, AgesOK, ThreadOK, [Next]_vars PROVE AgesOK'
  OBVIOUS
<1> USE NoTextIsNone
<1>0. /\ held \in Texts \cup {NoText} /\ current \in Texts \cup {NoText}
      /\ file \in Texts \cup {NoText}
      /\ Latest \in Texts
  BY DEF TypeOK, Latest, Texts
<1>1. CASE Editor
  <2>1. Changed
    BY <1>1, EditorChanges
  <2>2. Latest' \in Texts /\ NotOlder(Latest', Latest)
    BY <1>0, <2>1 DEF Changed, Latest, Texts
  <2>3. /\ held' = held /\ current' = current /\ main' = main
    BY <2>1 DEF Changed
  <2>4. ASSUME NEW t \in Texts, NotOlder(Latest, t) PROVE NotOlder(Latest', t)
    BY <1>0, <2>2, <2>4, AgeOrder
  <2> QED
    BY <1>0, <2>3, <2>4 DEF AgesOK, NotOlder
<1>2. CASE ~Editor
  <2>1. Latest' = Latest
    BY <1>2, DiskKept DEF Latest
  <2>2. CASE UNCHANGED <<held, current>> /\ (main' \notin {"start", "compiling"} \/ main' = main)
    BY <2>1, <2>2 DEF AgesOK, NotOlder
  <2>3. CASE Load
    <3>1. held' = file /\ current' = current /\ current = NoText
      BY <2>3 DEF Load, AgesOK, text
    <3>2. file # NoText => NotOlder(Latest, file)
      BY <1>0, AgeOrder, FileIsNewest
    <3> QED
      BY <2>1, <3>1, <3>2 DEF AgesOK, NotOlder
  <2>4. CASE CompileFirst
    BY <2>1, <2>4 DEF CompileFirst, AgesOK, NotOlder
  <2>5. CASE HandleEvent
    <3>1. CASE UNCHANGED held
      BY <2>2, <2>5, <3>1 DEF HandleEvent
    <3>2. CASE held' = file /\ file # NoText
      <4>1. NotOlder(Latest, file) /\ file = Latest
        BY <1>0, <3>2, AgeOrder, FileIsNewest
      <4>2. current' = current /\ main' = main
        BY <2>5 DEF HandleEvent
      <4> QED
        BY <2>1, <3>2, <4>1, <4>2 DEF AgesOK, NotOlder
    <3> QED
      BY <2>5, <3>1, <3>2 DEF HandleEvent
  <2>6. CASE Swap
    <3>1. current' \in {held, current} /\ (current' = held => held # NoText \/ held = current)
      BY <2>6, ReloadResult DEF Swap
    <3>2. held' = NoText /\ main' = main /\ main \notin {"start", "compiling"}
      BY <2>6 DEF Swap, ThreadOK
    <3> QED
      BY <2>1, <3>1, <3>2 DEF AgesOK, NotOlder
  <2>7. CASE SpawnWatcher \/ BeginBatch \/ Evaluate \/ EndBatch \/ Stop \/ Join
             \/ ThreadEnds \/ Overflow \/ UNCHANGED vars
    BY <2>2, <2>7 DEF SpawnWatcher, BeginBatch, Evaluate, EndBatch, Stop, Join, ThreadEnds,
         Overflow, vars, text
  <2> QED
    BY <1>2, <2>3, <2>4, <2>5, <2>6, <2>7 DEF Next, Startup, Thread
<1> QED
  BY <1>1, <1>2

\* A batch goes on with the script it took.
LEMMA NextBatchOK == TypeOK /\ BatchOK /\ FileOK /\ [Next]_vars => BatchOK'
<1> SUFFICES ASSUME TypeOK, BatchOK, FileOK, [Next]_vars PROVE BatchOK'
  OBVIOUS
<1>1. CASE UNCHANGED <<batch, used>>
  BY <1>1 DEF BatchOK
<1>2. CASE BeginBatch \/ Evaluate \/ EndBatch
  BY <1>2 DEF BeginBatch, Evaluate, ScriptInHand, EndBatch, BatchOK
<1>3. CASE Editor
  BY <1>1, <1>3, EditorChanges DEF Changed
<1> QED
  BY <1>1, <1>2, <1>3
  DEF Next, Startup, Thread, Load, CompileFirst, SpawnWatcher, Stop, Join, HandleEvent,
      Swap, ThreadEnds, Overflow, vars, run

\* The thread lives as long as somebody can send to it.
LEMMA NextThreadOK == TypeOK /\ FileOK /\ ThreadOK /\ [Next]_vars => ThreadOK'
<1> SUFFICES ASSUME TypeOK, FileOK, ThreadOK, [Next]_vars PROVE ThreadOK'
  OBVIOUS
<1> USE DEF ThreadOK
<1>1. CASE UNCHANGED <<main, thread, watching>>
  BY <1>1
<1>2. CASE Startup
  BY <1>2 DEF Startup, Load, CompileFirst, SpawnWatcher, inbox
<1>3. CASE Stop \/ Join
  BY <1>3 DEF Stop, Join, inbox
<1>4. CASE Thread
  BY <1>4 DEF Thread, HandleEvent, Swap, ThreadEnds, inbox
<1>5. CASE Editor
  BY <1>1, <1>5, EditorChanges DEF Changed
<1> QED
  BY <1>1, <1>2, <1>3, <1>4, <1>5
  DEF Next, BeginBatch, Evaluate, EndBatch, Overflow, vars, inbox

\* Taking an event that is no reason to read the file from the channel leaves
\* those that are.
LEMMA TailAnnounces ==
  ASSUME queue \in Seq(Events), queue # << >>, Announced, ~Relevant(Head(queue))
  PROVE  \E i \in 1 .. Len(Tail(queue)) : Relevant(Tail(queue)[i])
<1> PICK i \in 1 .. Len(queue) : Relevant(queue[i])
  BY DEF Announced
<1>1. i # 1
  OBVIOUS
<1>2. i - 1 \in 1 .. Len(Tail(queue)) /\ Tail(queue)[i - 1] = queue[i]
  BY <1>1
<1> QED
  BY <1>2

\* No change of the file is lost between the editor and the ArcSwap.
LEMMA NextFreshOK ==
  TypeOK /\ FileOK /\ ThreadOK /\ FreshOK /\ [Next]_vars => FreshOK'
<1> SUFFICES ASSUME TypeOK, FileOK, ThreadOK, FreshOK, [Next]_vars, ~missed' PROVE FreshOK'
  BY DEF FreshOK
<1> USE DEF FreshOK, Compiles
<1>0. queue \in Seq(Events) /\ held \in Texts \cup {NoText} /\ missed \in BOOLEAN
  BY DEF TypeOK
<1>1. CASE UNCHANGED <<main, thread, file, queue, held, current, missed>>
  BY <1>1 DEF Announced, Relevant
<1>2. CASE Load
  BY <1>2 DEF Load, disk
<1>3. CASE CompileFirst
  BY <1>3 DEF CompileFirst, disk, past
<1>4. CASE SpawnWatcher
  BY <1>4 DEF SpawnWatcher, disk, text, past
<1>5. CASE Stop \/ Join \/ ThreadEnds
  BY <1>5 DEF Stop, Join, ThreadEnds, ThreadOK, past, disk, text, inbox
<1>6. CASE HandleEvent
  <2>0. /\ main' = main /\ file' = file /\ current' = current /\ missed' = missed
        /\ thread = "waiting" /\ queue # << >>
    BY <1>6 DEF HandleEvent, disk, past
  <2>1. main \notin {"compiling", "loaded"}
    BY <2>0 DEF ThreadOK
  <2>2. CASE Relevant(Head(queue)) /\ file # NoText
    BY <1>6, <2>0, <2>1, <2>2 DEF HandleEvent
  <2>3. CASE ~(Relevant(Head(queue)) /\ file # NoText)
    <3>1. queue' = Tail(queue) /\ thread' = thread
      BY <1>6, <2>3 DEF HandleEvent
    <3>2. CASE file = NoText
      BY <2>0, <2>1, <3>1, <3>2
    <3>3. CASE ~Relevant(Head(queue)) /\ Announced
      <4>1. \E i \in 1 .. Len(queue') : Relevant(queue'[i])
        BY <1>0, <2>0, <3>1, <3>3, TailAnnounces
      <4> QED
        BY <2>0, <2>1, <4>1 DEF Announced, Relevant
    <3>4. CASE ~Announced
      BY <2>0, <2>1, <3>1, <3>4
    <3> QED
      BY <2>3, <3>2, <3>3, <3>4
  <2> QED
    BY <2>2, <2>3
<1>7. CASE Swap
  <2>0. /\ main' = main /\ file' = file /\ queue' = queue /\ missed' = missed
        /\ thread = "compiling" /\ thread' = "waiting" /\ current' = AfterReload(held)
    BY <1>7 DEF Swap, disk, inbox, past
  <2>1. main \notin {"compiling", "loaded"}
    BY <2>0 DEF ThreadOK
  <2>2. CASE Announced
    BY <2>0, <2>1, <2>2 DEF Announced, Relevant
  <2>3. CASE held = file
    BY <2>0, <2>1, <2>3 DEF AfterReload
  <2> QED
    BY <2>0, <2>1, <2>2, <2>3
<1>8. CASE Editor
  <2>1. Changed
    BY <1>8, EditorChanges
  <2>2. watching /\ Announced' /\ main' = main
    BY <1>0, <2>1 DEF Changed
  <2>3. main' = "running"
    BY <2>2 DEF ThreadOK
  <2> QED
    BY <2>2, <2>3
<1>9. CASE Overflow
  BY <1>9 DEF Overflow
<1> QED
  BY <1>1, <1>2, <1>3, <1>4, <1>5, <1>6, <1>7, <1>8, <1>9
  DEF Next, Startup, Thread, BeginBatch, Evaluate, EndBatch, vars, disk, inbox, text, past

\* LoaderInv is inductive.
LEMMA NextLoaderInv == LoaderInv /\ [Next]_vars => LoaderInv'
BY NextTypeOK, NextFileOK, NextAgesOK, NextBatchOK, NextThreadOK, NextFreshOK DEF LoaderInv

\* However saves, notifications, reads, compilations, swaps and batches fall, the
\* inductive invariant holds (script_loader.rs with daemon.rs's order of start
\* and stop).
THEOREM LoaderInvHolds == Spec => []LoaderInv
<1>1. Init => LoaderInv
  BY InitLoaderInv
<1>2. LoaderInv /\ [Next]_vars => LoaderInv'
  BY NextLoaderInv
<1> QED
  BY <1>1, <1>2, PTL DEF Spec

-----------------------------------------------------------------------------
(* What follows                                                            *)

\* Every variable keeps its range, and whatever fails to compile or disappears,
\* a running daemon has a script that compiled (script_loader.rs, load and reload).
THEOREM LoaderTypeCorrect == Spec => []TypeOK
<1>1. LoaderInv => TypeOK
  BY DEF LoaderInv
<1> QED
  BY <1>1, LoaderInvHolds, PTL

\* All messages of a batch are evaluated with the script taken at its beginning
\* (processor.rs, run_batch), whenever the watcher swaps.
THEOREM BatchesUseOneScript == Spec => []OneScriptPerBatch
<1>1. BatchOK => OneScriptPerBatch
  <2> SUFFICES ASSUME BatchOK PROVE Cardinality(used) <= 1
    BY DEF OneScriptPerBatch
  <2>1. IsFiniteSet({batch}) /\ Cardinality({batch}) = 1
    BY FS_Singleton
  <2>2. used \in SUBSET {batch}
    BY DEF BatchOK
  <2> QED
    BY <2>1, <2>2, FS_Subset
<1>2. LoaderInv => OneScriptPerBatch
  BY <1>1 DEF LoaderInv
<1> QED
  BY <1>2, LoaderInvHolds, PTL

\* Once the watcher has looked at everything that was announced, and nothing was
\* missed, the script in use is the one in the file (script_loader.rs, the
\* thread's loop).
THEOREM WatcherCatchesUp == Spec => []CaughtUp
<1>1. LoaderInv => CaughtUp
  BY DEF LoaderInv, TypeOK, FreshOK, Announced, CaughtUp
<1> QED
  BY <1>1, LoaderInvHolds, PTL

\* No step replaces the script in use by an older one.
LEMMA StepNeverGoesBack ==
  ASSUME LoaderInv, [Next]_vars, current # NoText
  PROVE  NotOlder(current', current)
<1>0. current \in Texts /\ TypeOK /\ FileOK /\ AgesOK
  BY DEF LoaderInv, TypeOK
<1>1. NotOlder(current, current)
  BY <1>0, AgeOrder
<1>2. CASE UNCHANGED current
  BY <1>1, <1>2
<1>3. CASE CompileFirst
  BY <1>0, <1>3 DEF CompileFirst, AgesOK
<1>4. CASE Swap
  BY <1>0, <1>1, <1>4, ReloadResult DEF Swap, AgesOK
<1>5. CASE Editor
  BY <1>0, <1>2, <1>5, EditorChanges DEF Changed
<1> QED
  BY <1>2, <1>3, <1>4, <1>5
  DEF Next, Startup, Thread, Load, SpawnWatcher, BeginBatch, Evaluate, EndBatch, Stop, Join,
      HandleEvent, ThreadEnds, Overflow, vars, text

\* The script in use is never replaced by an older one (script_loader.rs, reload).
THEOREM ScriptNeverGoesBack == Spec => NeverGoesBack
<1>1. LoaderInv /\ [Next]_vars => [current # NoText => NotOlder(current', current)]_vars
  BY StepNeverGoesBack
<1> QED
  BY <1>1, LoaderInvHolds, PTL DEF Spec, NeverGoesBack
=============================================================================
