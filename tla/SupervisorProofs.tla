-------------------------- MODULE SupervisorProofs --------------------------
(***************************************************************************)
(* Proofs about Supervisor, for any configuration files, any width of the  *)
(* attempt counter and any number of password rotations: types,            *)
(* PasswordOnlyOverTls, NeverStalePassword, BackedOff and RunsUntilAsked.  *)
(***************************************************************************)
EXTENDS Supervisor, FiniteSetTheorems, TLAPS

\* A file that does not load ends the process.
LoadedOK == phase \notin {"config", "exited"} => Loads(file)

\* The attempt counter and the failures it stands for, each up to its limit.
CountersOK ==
  \E n \in Nat : attempt = Least(n, 2^Width - 1) /\ failures = Least(n, Width + 1)

\* The password of a connection is as new as the vault was when it began.
FreshPassword ==
  phase \in {"tcp", "starttls", "handshake", "login"} /\ ImapSecret(file) = "command" =>
    password >= begun

\* run() returns with code 0 only for a signal.
ReturnedOK == phase = "returned" => signal = "taken"

SupervisorInv ==
  /\ TypeOK /\ LoadedOK /\ CountersOK
  /\ PasswordOnlyOverTls /\ FreshPassword /\ BackedOff /\ ReturnedOK

-----------------------------------------------------------------------------
(* Powers of two, which are the numbers of subsets                         *)

Upto(n) == SUBSET (1 .. n)

\* 2^n is the number of subsets of 1 .. n.
LEMMA PowerIsCount ==
  ASSUME NEW n \in Nat
  PROVE  IsFiniteSet(Upto(n)) /\ Cardinality(Upto(n)) = 2^n /\ 2^n \in Nat
<1>1. IsFiniteSet(1 .. n) /\ Cardinality(1 .. n) = n
  BY FS_Interval
<1>2. IsFiniteSet(Upto(n)) /\ Cardinality(Upto(n)) = 2^n
  BY <1>1, FS_SUBSET DEF Upto
<1> QED
  BY <1>2, FS_CardinalityType

\* Powers of two grow.
LEMMA PowerMonotonic ==
  ASSUME NEW m \in Nat, NEW n \in Nat, m <= n
  PROVE  2^m <= 2^n
<1>1. Upto(m) \in SUBSET Upto(n)
  BY DEF Upto
<1>2. Cardinality(Upto(m)) <= Cardinality(Upto(n))
  BY <1>1, PowerIsCount, FS_Subset
<1> QED
  BY <1>2, PowerIsCount

\* A power of two exceeds its exponent: the intervals 1 .. k are subsets.
LEMMA PowerExceeds ==
  ASSUME NEW n \in Nat
  PROVE  n + 1 <= 2^n
<1> DEFINE f == [k \in 0 .. n |-> 1 .. k]
<1>1. f \in Injection(0 .. n, Upto(n))
  <2>1. f \in [0 .. n -> Upto(n)]
    BY DEF Upto
  <2>2. ASSUME NEW j \in 0 .. n, NEW k \in 0 .. n, f[j] = f[k] PROVE j = k
    <3>1. 1 .. j = 1 .. k
      BY <2>2
    <3> QED
      BY <3>1
  <2> QED
    BY <2>1, <2>2 DEF Injection, IsInjective
<1>2. Cardinality(0 .. n) <= Cardinality(Upto(n))
  BY <1>1, PowerIsCount, FS_Injection
<1>3. Cardinality(0 .. n) = n + 1
  BY FS_Interval
<1> QED
  BY <1>2, <1>3, PowerIsCount

\* 2^Width - 1, the largest value of the attempt counter.
Largest == 2^Width - 1

\* It is a number no smaller than the width.
LEMMA LargestType == Width \in Nat /\ 1 <= Width /\ Largest \in Nat /\ Width <= Largest
<1>1. Width \in Nat /\ 1 <= Width
  BY SupervisorConstants DEF SupervisorConstants
<1> QED
  BY <1>1, PowerIsCount, PowerExceeds DEF Largest

-----------------------------------------------------------------------------
(* Backoff                                                                 *)

\* The smaller of two numbers is one of them and above neither.
LEMMA LeastType ==
  ASSUME NEW m \in Nat, NEW n \in Nat
  PROVE  Least(m, n) \in Nat /\ Least(m, n) <= m /\ Least(m, n) <= n
BY DEF Least

\* What a loaded file holds.
LEMMA LoadedTypes ==
  ASSUME TypeOK, Loads(file)
  PROVE  /\ Config(file).reconnect_delay \in Nat
         /\ Config(file).max_reconnect_delay \in Nat
         /\ Config(file).reconnect_jitter \in 0 .. 100
         /\ Config(file).tls_mode \in {"implicit", "starttls", "plain"}
BY SupervisorConstants DEF SupervisorConstants, Typed, TypeOK, Loads, Validates

\* The part of NextDelay after the first cap.
Jittered(c, jitter, draw, max) == Least((c * (200 - jitter + 2 * draw)) \div 200, max)

\* Jitter takes at most half off and adds at most half, and the result is capped
\* again.
LEMMA JitterBounds ==
  ASSUME NEW c \in Nat, NEW max \in Nat, c <= max,
         NEW jitter \in 0 .. 100, NEW draw \in 0 .. jitter
  PROVE  LET d == Jittered(c, jitter, draw, max)
         IN  d \in Nat /\ d <= max /\ 2 * d <= 3 * c /\ 2 * (d + 1) > c
<1> DEFINE k == 200 - jitter + 2 * draw
           p == c * k
           q == p \div 200
<1>1. k \in 100 .. 300
  OBVIOUS
<1>2. p \in Nat /\ 100 * c <= p /\ p <= 300 * c
  <2> HIDE DEF k
  <2> QED
    BY <1>1
<1>3. q \in Nat /\ 2 * q <= 3 * c /\ 2 * (q + 1) > c
  <2> HIDE DEF p
  <2> QED
    BY <1>2
<1> HIDE DEF q
<1>4. LET d == Least(q, max)
      IN  d \in Nat /\ d <= max /\ 2 * d <= 3 * c /\ 2 * (d + 1) > c
  BY <1>3 DEF Least
<1> QED
  BY <1>4 DEF q, Jittered

\* A saturated counter does not bring the factor down: after n failures since the
\* last login it is 2^n, up to the largest value, although attempt stops counting.
LEMMA FactorOfFailures ==
  ASSUME NEW n \in Nat
  PROVE  Saturate(2 ^ Least(n, Largest)) = Least(2 ^ (Least(n + 1, Width + 1) - 1), Largest)
<1> USE LargestType
<1>0. /\ 2^n \in Nat /\ 2^Width \in Nat /\ 2^Largest \in Nat
      /\ 2^Width = Largest + 1
  BY PowerIsCount DEF Largest
<1>1. Saturate(2 ^ Least(n, Largest)) = Least(2 ^ Least(n, Largest), Largest)
  BY DEF Saturate, Largest
<1>2. CASE n <= Width
  BY <1>1, <1>2 DEF Least
<1>3. CASE n > Width
  <2>1. Least(n + 1, Width + 1) - 1 = Width
    BY <1>3 DEF Least
  <2>2. Least(n, Largest) \in Nat /\ Width <= Least(n, Largest)
    BY <1>3 DEF Least
  <2>3. 2^Width <= 2 ^ Least(n, Largest) /\ 2 ^ Least(n, Largest) \in Nat
    BY <2>2, PowerMonotonic, PowerIsCount
  <2>4. Saturate(2 ^ Least(n, Largest)) = Largest
    <3> DEFINE e == 2 ^ Least(n, Largest)
    <3>1. e \in Nat /\ Largest + 1 <= e
      BY <1>0, <2>3
    <3> HIDE DEF e
    <3>2. Least(e, Largest) = Largest
      BY <3>1 DEF Least
    <3> QED
      BY <1>1, <3>2 DEF e
  <2>5. Least(2 ^ Width, Largest) = Largest
    BY <1>0 DEF Least
  <2> QED
    BY <2>1, <2>4, <2>5
<1> QED
  BY <1>2, <1>3

\* The counters stay within their widths.
LEMMA CountersType ==
  ASSUME NEW n \in Nat
  PROVE  /\ Least(n, Largest) \in 0 .. 2^Width - 1
         /\ Least(n, Width + 1) \in 0 .. Width + 1
BY LargestType DEF Least, Largest

\* What a failed connection or session leaves: counters that went on together,
\* and a delay that fits them.
LEMMA FailedLeaves ==
  ASSUME TypeOK, Loads(file), CountersOK, Failed, file' = file
  PROVE  /\ phase' = "sleeping" /\ wire' = "none"
         /\ UNCHANGED <<password, exposed, begun>>
         /\ attempt' \in 0 .. 2^Width - 1 /\ failures' \in 0 .. Width + 1 /\ delay' \in Nat
         /\ CountersOK'
         /\ BackedOff'
<1> USE LargestType
<1> DEFINE cfg == Config(file)
<1>0. PICK n \in Nat : attempt = Least(n, Largest) /\ failures = Least(n, Width + 1)
  BY DEF CountersOK, Largest
<1>1. /\ cfg.reconnect_delay \in Nat /\ cfg.max_reconnect_delay \in Nat
      /\ cfg.reconnect_jitter \in 0 .. 100
  BY LoadedTypes
<1>2. attempt' = Least(n + 1, Largest)
  BY <1>0 DEF Failed, Saturate, Largest, Least
<1>3. failures' = Least(n + 1, Width + 1)
  BY <1>0 DEF Failed, Least
<1>4. PICK draw \in Draws : delay' = NextDelay(attempt, draw)
  BY DEF Failed
<1> DEFINE factor == Saturate(2 ^ attempt)
           capped == Least(cfg.reconnect_delay * factor, cfg.max_reconnect_delay)
<1>5. factor = Least(2 ^ (failures' - 1), Largest) /\ factor \in Nat
  <2>1. factor = Least(2 ^ (failures' - 1), Largest)
    BY <1>0, <1>3, FactorOfFailures
  <2>2. 2 ^ attempt \in Nat
    BY <1>0, LeastType, PowerIsCount
  <2>3. factor \in Nat
    BY <2>2, LeastType DEF Saturate, Largest
  <2> QED
    BY <2>1, <2>3
<1>6. capped \in Nat /\ capped <= cfg.max_reconnect_delay
  <2> HIDE DEF factor, cfg
  <2>1. cfg.reconnect_delay * factor \in Nat
    BY <1>1, <1>5
  <2> QED
    BY <1>1, <2>1, LeastType
<1>7. /\ delay' \in Nat /\ delay' <= cfg.max_reconnect_delay
      /\ 2 * delay' <= 3 * capped /\ 2 * (delay' + 1) > capped
  <2>1. draw \in 0 .. cfg.reconnect_jitter
    BY DEF Draws
  <2>2. delay' = Jittered(capped, cfg.reconnect_jitter, draw, cfg.max_reconnect_delay)
    BY <1>4 DEF NextDelay, Jittered
  <2> HIDE DEF capped, cfg
  <2> QED
    BY <1>1, <1>6, <2>1, <2>2, JitterBounds
<1>8. BackedOff'
  <2>1. Config(file)' = cfg
    BY DEF Config
  <2>2. capped = Least(cfg.reconnect_delay * Least(2 ^ (failures' - 1), 2^Width - 1),
                       cfg.max_reconnect_delay)
    BY <1>5 DEF Largest
  <2> HIDE DEF capped, cfg
  <2> QED
    BY <1>7, <2>1, <2>2 DEF BackedOff
<1>9. CountersOK'
  <2>1. n + 1 \in Nat /\ Largest = 2^Width - 1
    BY DEF Largest
  <2> QED
    BY <1>2, <1>3, <2>1 DEF CountersOK
<1>10. attempt' \in 0 .. 2^Width - 1 /\ failures' \in 0 .. Width + 1
  BY <1>2, <1>3, CountersType
<1> QED
  BY <1>7, <1>8, <1>9, <1>10 DEF Failed

-----------------------------------------------------------------------------
(* The inductive invariant                                                 *)

\* Before the start nothing has failed.
LEMMA InitSupervisorInv == Init => SupervisorInv
<1> SUFFICES ASSUME Init PROVE SupervisorInv
  OBVIOUS
<1>1. /\ MaxRotations \in Nat /\ Width \in Nat /\ Largest \in Nat
      /\ 0 \in 0 .. 2^Width - 1
  BY SupervisorConstants, LargestType DEF SupervisorConstants, Largest
<1>2. TypeOK
  <2>1. file \in Files /\ phase \in Phases /\ (phase = "exited" <=> exit # "none")
    BY DEF Init, Phases, Startup
  <2>2. attempt \in 0 .. 2^Width - 1 /\ failures \in 0 .. Width + 1
    BY <1>1 DEF Init
  <2>3. password \in Nothing .. MaxRotations /\ vault \in 0 .. MaxRotations /\ begun \in 0 .. vault
    BY <1>1 DEF Init, Nothing
  <2> QED
    BY <2>1, <2>2, <2>3 DEF Init, TypeOK
<1>3. CountersOK
  BY <1>1 DEF Init, CountersOK, Least, Largest
<1> QED
  BY <1>2, <1>3 DEF Init, SupervisorInv, LoadedOK, PasswordOnlyOverTls, FreshPassword,
                    BackedOff, ReturnedOK

\* The configuration is read once.
LEMMA FileKept ==
  ASSUME [Next]_vars
  PROVE  file' = file /\ Config(file)' = Config(file)
<1>1. file' = file
  BY DEF Next, Own, Server, StartStep, StartFails, InstallHandlers, Wake, Resolve, CommandEnds,
       TakeSignal, Quit, Tcp, StartTls, Handshake, Login, SessionAnswers, IdleWakes,
       SessionError, UidValidityChanged, Signal, RotatePassword, Frame, vars, config
<1> QED
  BY <1>1

\* The actions that may fail a connection or a session, when they do.
Fails == Failed /\ phase \in Connecting \cup Commands \cup {"idle"}

\* Whatever they do, the process has a configuration.
LEMMA FailsLoaded ==
  ASSUME LoadedOK, Fails
  PROVE  Loads(file)
BY DEF LoadedOK, Fails, Connecting, Commands

\* A connection that could be made goes on as its mode says.
LEMMA TcpSteps ==
  ASSUME TypeOK, LoadedOK, Tcp, ~Fails
  PROVE  /\ phase = "tcp" /\ phase' \in {"handshake", "starttls", "login"}
         /\ wire' = "clear" /\ UNCHANGED <<exit, signal, password, command, begun, wait>>
         /\ UNCHANGED config
         /\ \/ UNCHANGED exposed
            \/ Config(file).tls_mode = "plain" /\ exposed' = TRUE
<1>1. Config(file).tls_mode \in {"implicit", "starttls", "plain"}
  BY LoadedTypes DEF Tcp, Raced, LoadedOK
<1>2. /\ phase = "tcp" /\ UNCHANGED <<config, exit, signal, command>>
      /\ wire' = "clear" /\ UNCHANGED <<password, begun, wait>>
      /\ CASE Config(file).tls_mode = "implicit" -> phase' = "handshake" /\ UNCHANGED exposed
           [] Config(file).tls_mode = "starttls" -> phase' = "starttls" /\ UNCHANGED exposed
           [] Config(file).tls_mode = "plain"    -> SendLogin("clear")
  BY Zenon DEF Tcp, Raced, Frame, Fails, Connecting, Commands
<1> HIDE DEF config, wait
<1>3. CASE Config(file).tls_mode = "implicit"
  BY <1>2, <1>3
<1>4. CASE Config(file).tls_mode = "starttls"
  BY <1>2, <1>4
<1>5. CASE Config(file).tls_mode = "plain"
  BY <1>2, <1>5 DEF SendLogin
<1> QED
  BY <1>1, <1>2, <1>3, <1>4, <1>5

\* A step fails a connection or a session, or the backoff's state stays, is reset
\* by a login, or is left by a wake-up.
LEMMA BackoffSteps ==
  ASSUME TypeOK, LoadedOK, [Next]_vars, ~Fails
  PROVE  \/ UNCHANGED wait /\ (phase' = "sleeping" => phase = "sleeping")
         \/ UNCHANGED delay /\ attempt' = 0 /\ failures' = 0 /\ phase' = "session"
         \/ UNCHANGED <<attempt, failures>> /\ delay' = 0 /\ phase' = "connect"
<1> USE DEF wait, Fails, Connecting, Commands
<1>1. CASE StartStep \/ StartFails \/ InstallHandlers \/ Signal \/ RotatePassword
  BY <1>1 DEF StartStep, StartFails, InstallHandlers, Signal, RotatePassword, Startup, Follows
<1>2. CASE Wake \/ Resolve \/ TakeSignal \/ Quit
  BY <1>2 DEF Wake, Resolve, TakeSignal, Quit, Raced
<1>6. CASE CommandEnds
  <2>1. CASE phase = "returned" /\ UNCHANGED <<phase, net, wait>>
    BY <2>1
  <2>2. CASE phase' = "tcp" /\ UNCHANGED wait
    BY <2>2
  <2>3. ~ (phase = "secret" /\ Failed)
    OBVIOUS
  <2>4. \/ phase = "returned" /\ UNCHANGED <<phase, net, wait>>
        \/ phase' = "tcp" /\ UNCHANGED wait
        \/ phase = "secret" /\ Failed
    BY <1>6, Zenon DEF CommandEnds, Raced
  <2> QED
    BY <2>1, <2>2, <2>3, <2>4
<1>3. CASE Tcp
  BY <1>3, TcpSteps
<1>4. CASE StartTls \/ Handshake \/ Login \/ SessionError
           \/ SessionAnswers \/ IdleWakes \/ UidValidityChanged
  BY <1>4 DEF StartTls, Handshake, Login, SessionAnswers, IdleWakes, SessionError,
       UidValidityChanged, Raced, SendLogin
<1>5. CASE UNCHANGED vars
  BY <1>5 DEF vars
<1> QED
  BY <1>1, <1>2, <1>3, <1>4, <1>5, <1>6 DEF Next, Own, Server

\* The counters go on together and the delay fits them.
LEMMA NextBackoff ==
  ASSUME TypeOK, LoadedOK, CountersOK, BackedOff, [Next]_vars
  PROVE  /\ CountersOK' /\ BackedOff'
         /\ attempt' \in 0 .. 2^Width - 1 /\ failures' \in 0 .. Width + 1 /\ delay' \in Nat
<1>1. CASE Fails
  BY <1>1, FailsLoaded, FailedLeaves, FileKept DEF Fails
<1>2. CASE ~Fails
  <2>0. /\ file' = file /\ Config(file)' = Config(file)
        /\ attempt \in 0 .. 2^Width - 1 /\ failures \in 0 .. Width + 1 /\ delay \in Nat
        /\ 0 \in 0 .. 2^Width - 1 /\ 0 \in 0 .. Width + 1 /\ 0 \in Nat
    BY FileKept, LargestType DEF TypeOK, Largest
  <2>1. CASE UNCHANGED wait /\ (phase' = "sleeping" => phase = "sleeping")
    BY <2>0, <2>1 DEF CountersOK, BackedOff, wait
  <2>2. CASE UNCHANGED delay /\ attempt' = 0 /\ failures' = 0 /\ phase' = "session"
    <3>1. Least(0, 2^Width - 1) = 0 /\ Least(0, Width + 1) = 0
      BY LargestType DEF Least, Largest
    <3> QED
      BY <2>0, <2>2, <3>1 DEF CountersOK, BackedOff
  <2>3. CASE UNCHANGED <<attempt, failures>> /\ delay' = 0 /\ phase' = "connect"
    BY <2>0, <2>3 DEF CountersOK, BackedOff
  <2> QED
    BY <1>2, <2>1, <2>2, <2>3, BackoffSteps
<1> QED
  BY <1>1, <1>2

\* Only a file that loads gets the process past its first step.
LEMMA NextLoadedOK == LoadedOK /\ [Next]_vars => LoadedOK'
<1> SUFFICES ASSUME LoadedOK, [Next]_vars PROVE LoadedOK'
  OBVIOUS
<1>1. (phase \in {"config", "exited"} => phase' = phase \/ phase' = "exited" \/ Loads(file))
  BY DEF Next, Own, Server, StartStep, StartFails, InstallHandlers, Wake, Resolve, CommandEnds,
       TakeSignal, Quit, Tcp, StartTls, Handshake, Login, SessionAnswers, IdleWakes,
       SessionError, UidValidityChanged, Signal, RotatePassword, Raced, Startup, Connecting,
       Commands, Interruptible, vars
<1> QED
  BY <1>1, FileKept DEF LoadedOK

\* A connection is in clear only if the file says so.
LEMMA PlainIsAsked ==
  Config(file).tls_mode = "plain" => Gives(file, "tls_mode") /\ file.tls_mode = "plain"
<1>1. Config(file).tls_mode =
        IF "tls_mode" \in DOMAIN file THEN file.tls_mode ELSE Defaults.tls_mode
  BY DEF Config, Gives, Defaults
<1> QED
  BY <1>1 DEF Gives, Defaults

\* A password leaves in clear only where the file asks for a plain connection.
LEMMA NextPasswordOnlyOverTls ==
  ASSUME TypeOK, LoadedOK, PasswordOnlyOverTls, [Next]_vars
  PROVE  PasswordOnlyOverTls'
<1> USE FileKept DEF PasswordOnlyOverTls
<1>1. CASE UNCHANGED exposed
  BY <1>1
<1>2. CASE Tcp
  <2>1. CASE Fails
    BY <1>1, <2>1 DEF Fails, Failed
  <2>2. CASE ~Fails
    BY <1>1, <1>2, <2>2, TcpSteps, PlainIsAsked
  <2> QED
    BY <2>1, <2>2
<1>3. CASE Handshake
  BY <1>1, <1>3 DEF Handshake, SendLogin, Failed
<1> QED
  BY <1>1, <1>2, <1>3
  DEF Next, Own, Server, StartStep, StartFails, InstallHandlers, Wake, Resolve, CommandEnds,
      TakeSignal, Quit, StartTls, Login, SessionAnswers, IdleWakes, SessionError,
      UidValidityChanged, Signal, RotatePassword, Failed, net, vars

\* A password that was waited for is the vault's, which was read no earlier than
\* the connection began; afterwards neither changes until the next connection.
LEMMA NextFreshPassword ==
  ASSUME TypeOK, LoadedOK, FreshPassword, [Next]_vars
  PROVE  FreshPassword'
<1> DEFINE Uses == {"tcp", "starttls", "handshake", "login"}
<1>1. ImapSecret(file)' = ImapSecret(file) /\ file' = file
  BY FileKept
<1>2. CASE UNCHANGED <<password, begun>> /\ (phase' \in Uses => phase \in Uses)
  BY <1>1, <1>2 DEF FreshPassword
<1>3. CASE Resolve
  BY <1>1, <1>3 DEF Resolve, FreshPassword
<1>4. CASE CommandEnds /\ password' = vault /\ begun' = begun
  BY <1>1, <1>4 DEF FreshPassword, TypeOK
<1>5. CASE Fails
  BY <1>5, <1>2 DEF Fails, Failed
<1>6. CASE CommandEnds
  <2>1. \/ phase' = "tcp" /\ password' = vault /\ begun' = begun
        \/ Fails
        \/ phase = "returned" /\ UNCHANGED <<phase, password, begun>>
    BY <1>6, Zenon DEF CommandEnds, Raced, net, Fails, Connecting, Commands
  <2> QED
    BY <1>2, <1>4, <1>5, <1>6, <2>1
<1>7. CASE StartStep \/ StartFails \/ InstallHandlers \/ Signal \/ RotatePassword
           \/ Wake \/ TakeSignal \/ Quit \/ UNCHANGED vars
  BY <1>2, <1>7
  DEF StartStep, StartFails, InstallHandlers, Signal, RotatePassword, Wake, TakeSignal, Quit,
      Startup, Follows, net, vars
<1>8. CASE Tcp
  BY <1>2, <1>5, <1>8, TcpSteps
<1>9. CASE StartTls \/ Handshake \/ Login \/ SessionError
           \/ SessionAnswers \/ IdleWakes \/ UidValidityChanged
  <2>1. \/ Fails
        \/ phase \in Uses /\ UNCHANGED <<password, begun>>
        \/ phase' \in {"idle", "batch", "exited"} /\ UNCHANGED <<password, begun>>
    BY <1>9
    DEF StartTls, Handshake, Login, SessionAnswers, IdleWakes, SessionError,
        UidValidityChanged, Raced, Fails, Connecting, Commands, net
  <2> QED
    BY <2>1, <1>2, <1>5
<1> QED
  BY <1>3, <1>6, <1>7, <1>8, <1>9 DEF Next, Own, Server

\* run() returns only when it takes the signal.
LEMMA NextReturnedOK ==
  ASSUME TypeOK, LoadedOK, ReturnedOK, [Next]_vars
  PROVE  ReturnedOK'
<1> USE DEF ReturnedOK
<1>1. CASE StartStep \/ StartFails \/ InstallHandlers \/ Signal \/ RotatePassword
           \/ Wake \/ TakeSignal \/ Quit \/ UNCHANGED vars
  BY <1>1
  DEF StartStep, StartFails, InstallHandlers, Signal, RotatePassword, Wake, TakeSignal, Quit,
      Startup, Follows, vars
<1>2. CASE Resolve \/ CommandEnds \/ StartTls \/ Handshake \/ Login \/ SessionError
           \/ SessionAnswers \/ IdleWakes \/ UidValidityChanged
  BY <1>2
  DEF Resolve, CommandEnds, StartTls, Handshake, Login, SessionAnswers, IdleWakes,
      SessionError, UidValidityChanged, Failed, SendLogin, Frame
<1>3. CASE Tcp
  BY <1>3, TcpSteps DEF Fails, Failed
<1> QED
  BY <1>1, <1>2, <1>3 DEF Next, Own, Server

\* The types of what no backoff touches.
RestOK ==
  /\ file \in Files /\ phase \in Phases
  /\ exit \in {"none", "ok", "error", "validity", "killed"}
  /\ phase = "exited" <=> exit # "none"
  /\ handler \in {"none", "spawned", "ready"}
  /\ signal \in {"none", "pending", "taken"}
  /\ wire \in {"none", "clear", "tls"}
  /\ password \in Nothing .. MaxRotations
  /\ command \in BOOLEAN /\ exposed \in BOOLEAN
  /\ command => phase \in {"secret", "returned", "exited"}
  /\ vault \in 0 .. MaxRotations /\ begun \in 0 .. vault

\* A literal password counts as version 0; a resolved one is a version of the vault.
LEMMA NextRestOK ==
  ASSUME TypeOK, LoadedOK, [Next]_vars
  PROVE  RestOK'
<1>0. /\ RestOK /\ file' = file
      /\ 0 \in Nothing .. MaxRotations /\ vault \in Nothing .. MaxRotations
      /\ vault \in 0 .. vault
  BY FileKept, SupervisorConstants DEF TypeOK, RestOK, SupervisorConstants, Nothing
<1> USE DEF RestOK, Phases, Startup, Connecting, Commands, config, net
<1>1. CASE StartStep \/ StartFails \/ InstallHandlers \/ Signal
  BY <1>0, <1>1 DEF StartStep, StartFails, InstallHandlers, Signal, Follows
<1>2. CASE RotatePassword
  <2>1. vault' \in 0 .. MaxRotations /\ begun \in 0 .. vault'
    BY <1>0, <1>2, SupervisorConstants DEF RotatePassword, SupervisorConstants
  <2> QED
    BY <1>0, <1>2, <2>1 DEF RotatePassword
<1>3. CASE Wake \/ TakeSignal \/ Quit \/ UidValidityChanged \/ UNCHANGED vars
  BY <1>0, <1>3 DEF Wake, TakeSignal, Quit, UidValidityChanged, Interruptible, vars
<1>4. CASE Resolve
  BY <1>0, <1>4 DEF Resolve, Raced, Frame
<1>5. CASE CommandEnds
  <2>1. UNCHANGED <<file, handler, vault, exit, signal>> /\ command' = FALSE
    BY <1>5 DEF CommandEnds, Frame
  <2>2. \/ phase = "secret" /\ phase' = "tcp" /\ password' = vault /\ UNCHANGED <<wire, exposed, begun>>
        \/ phase = "secret" /\ Failed
        \/ UNCHANGED <<phase, wire, password, exposed, begun>>
    BY <1>5 DEF CommandEnds, Raced
  <2>3. CASE phase = "secret" /\ Failed
    BY <1>0, <2>1, <2>3 DEF Failed
  <2>4. CASE /\ phase = "secret" /\ phase' = "tcp" /\ password' = vault
             /\ UNCHANGED <<wire, exposed, begun>>
    BY <1>0, <2>1, <2>4
  <2>5. CASE UNCHANGED <<phase, wire, password, exposed, begun>>
    BY <1>0, <2>1, <2>5
  <2> QED
    BY <2>2, <2>3, <2>4, <2>5
<1>6. CASE Tcp
  <2>1. CASE Fails
    BY <1>0, <1>6, <2>1 DEF Tcp, Raced, Frame, Fails, Failed
  <2>2. CASE ~Fails
    <3>1. /\ phase = "tcp" /\ phase' \in {"handshake", "starttls", "login"}
          /\ wire' = "clear" /\ exposed' \in {exposed, TRUE}
          /\ UNCHANGED <<file, handler, vault, exit, signal, password, command, begun>>
      BY <1>6, <2>2, TcpSteps
    <3> QED
      BY <1>0, <3>1
  <2> QED
    BY <2>1, <2>2
<1>7. CASE StartTls \/ Handshake \/ Login \/ SessionAnswers \/ IdleWakes \/ SessionError
  BY <1>0, <1>7
  DEF StartTls, Handshake, Login, SessionAnswers, IdleWakes, SessionError, Raced, Frame,
      Failed, SendLogin
<1> QED
  BY <1>1, <1>2, <1>3, <1>4, <1>5, <1>6, <1>7 DEF Next, Own, Server

\* Every step keeps the invariant.
LEMMA NextSupervisorInv == SupervisorInv /\ [Next]_vars => SupervisorInv'
<1> SUFFICES ASSUME SupervisorInv, [Next]_vars PROVE SupervisorInv'
  OBVIOUS
<1> USE DEF SupervisorInv
<1>1. TypeOK'
  <2>1. attempt' \in 0 .. 2^Width - 1 /\ failures' \in 0 .. Width + 1 /\ delay' \in Nat
    BY NextBackoff
  <2> QED
    BY <2>1, NextRestOK DEF TypeOK, RestOK
<1> QED
  BY <1>1, NextLoadedOK, NextBackoff, NextPasswordOnlyOverTls, NextFreshPassword, NextReturnedOK

-----------------------------------------------------------------------------
(* The theorems                                                            *)

\* The inductive invariant of the process around its sessions (daemon.rs run,
\* Supervisor::run, AsyncImapFactory::connect, Backoff).
THEOREM SupervisorInvHolds == Spec => []SupervisorInv
<1> QED
  BY InitSupervisorInv, NextSupervisorInv, PTL DEF Spec

\* Every variable of the process keeps its type: a password_command runs only for
\* a connection, and only a running process has no exit code.
THEOREM SupervisorTypeCorrect == Spec => []TypeOK
<1>1. SupervisorInv => TypeOK
  BY DEF SupervisorInv
<1> QED
  BY <1>1, SupervisorInvHolds, PTL

\* AsyncImapClient::connect never sends a password in clear unless the file asks for
\* tls_mode = "plain", whatever the server answers to STARTTLS or the handshake.
THEOREM PasswordStaysPrivate == Spec => []PasswordOnlyOverTls
<1>1. SupervisorInv => PasswordOnlyOverTls
  BY DEF SupervisorInv
<1> QED
  BY <1>1, SupervisorInvHolds, PTL

\* AsyncImapFactory::connect resolves the password anew for every connection: no
\* login uses one that password_command had stopped printing when it began.
THEOREM PasswordIsFresh == Spec => []NeverStalePassword
<1>1. SupervisorInv => NeverStalePassword
  BY DEF SupervisorInv, FreshPassword, NeverStalePassword
<1> QED
  BY <1>1, SupervisorInvHolds, PTL

\* Backoff: whatever the delays, the jitter and the width of the counter, every wait
\* is within half of the doubled delay and below the maximum, and stays so when the
\* counter and the power of two saturate.
THEOREM BackoffBounded == Spec => []BackedOff
<1>1. SupervisorInv => BackedOff
  BY DEF SupervisorInv
<1> QED
  BY <1>1, SupervisorInvHolds, PTL

\* Supervisor::run: once started, the daemon ends by itself only on a changed
\* UIDVALIDITY, and with code 0 only for a signal.
THEOREM RunsUntilItIsAsked == Spec => RunsUntilAsked
<1>1. ASSUME SupervisorInv, [Next]_vars
      PROVE  [phase \notin Startup /\ exit' # exit =>
               \/ exit' = "ok" /\ signal = "taken"
               \/ exit' = "validity" /\ phase = "session"
               \/ exit' = "killed" /\ handler # "ready"]_vars
  <2>1. CASE UNCHANGED exit
    BY <2>1
  <2>2. CASE StartStep \/ StartFails \/ Signal \/ Quit \/ UidValidityChanged
    BY <1>1, <2>2
    DEF SupervisorInv, ReturnedOK, StartStep, StartFails, Signal, Quit, UidValidityChanged
  <2> QED
    BY <1>1, <2>1, <2>2
    DEF Next, Own, Server, InstallHandlers, Wake, Resolve, CommandEnds, TakeSignal, Tcp,
        StartTls, Handshake, Login, SessionAnswers, IdleWakes, SessionError, RotatePassword,
        Frame, vars
<1> QED
  BY <1>1, SupervisorInvHolds, PTL DEF Spec, RunsUntilAsked
=============================================================================
