----------------------------- MODULE Supervisor -----------------------------
(***************************************************************************)
(* The life of the process around its sessions: the start (daemon.rs,      *)
(* run), a connection from the password to the login (AsyncImapFactory and *)
(* AsyncImapClient::connect), the wait after a failure (Supervisor::run    *)
(* and Backoff), signals, and the exit.                                    *)
(*                                                                         *)
(* The server may refuse anything and may never answer.  What a session    *)
(* does is module Daemon's; here it waits for answers, idles, and ends     *)
(* with the shutdown, a changed UIDVALIDITY, or another error.             *)
(***************************************************************************)
EXTENDS Config

CONSTANTS
  Files,        \* the configuration files
  Width,        \* bits of the attempt counter and of 2^attempt (32)
  MaxRotations  \* bound: changes of the password the command prints

ASSUME SupervisorConstants ==
  /\ Width \in Nat \ {0}
  /\ MaxRotations \in Nat
  /\ \A f \in Files : Typed(f)

VARIABLES
  file,      \* the configuration
  phase,     \* see Startup, Connecting and the other phases
  exit,      \* how the process ended: "none" while it runs
  handler,   \* the signal task: "none", "spawned", "ready"
  signal,    \* "none", "pending" (a permit of the Notify), "taken"
  attempt,   \* Backoff's counter
  delay,     \* the sleep it chose
  wire,      \* the connection: "none", "clear", "tls"
  password,  \* what resolve_password returned last: a version of the vault's
  command,   \* a password_command runs on a blocking thread
  vault,     \* the version password_command prints
  failures,  \* history: failures since the last login
  exposed,   \* history: a password was sent in clear
  begun      \* history: vault when the attempt to connect began

config == <<file, handler, vault>>
net    == <<wire, password, exposed, begun>>
wait   == <<attempt, delay, failures>>
vars   == <<config, phase, exit, signal, command, net, wait>>

Startup    == {"config", "script", "watcher", "store", "smtp"}
Connecting == {"connect", "secret", "tcp", "starttls", "handshake", "login"}
\* A session waits for the answers to its commands: at its beginning, up to the end
\* of the drain, and in each batch.
Commands   == {"session", "batch"}
Phases     == Startup \cup Connecting \cup Commands
                \cup {"idle", "sleeping", "returned", "exited"}
Nothing    == -1

Init ==
  /\ file \in Files
  /\ phase = "config" /\ exit = "none"
  /\ handler = "none" /\ signal = "none"
  /\ attempt = 0 /\ delay = 0 /\ failures = 0
  /\ wire = "none" /\ password = Nothing /\ command = FALSE /\ vault = 0
  /\ exposed = FALSE /\ begun = 0

-----------------------------------------------------------------------------
(* Start                                                                   *)

MayFail(p) ==
  CASE p = "config"  -> ~Loads(file)
    [] p = "watcher" -> Config(file).watch
    [] p = "smtp"    -> HasSmtp(file)
    [] OTHER         -> TRUE

Follows(p) ==
  CASE p = "config"  -> "script"
    [] p = "script"  -> "watcher"
    [] p = "watcher" -> "store"
    [] p = "store"   -> "smtp"
    [] p = "smtp"    -> "connect"

\* The signal task is spawned once the store is open.
StartStep ==
  /\ phase \in Startup
  /\ phase = "config" => Loads(file)
  /\ phase' = Follows(phase)
  /\ handler' = IF phase = "store" THEN "spawned" ELSE handler
  /\ UNCHANGED <<file, vault, exit, signal, command, net, wait>>

StartFails ==
  /\ phase \in Startup
  /\ MayFail(phase)
  /\ phase' = "exited" /\ exit' = "error"
  /\ UNCHANGED <<config, signal, command, net, wait>>

\* The task runs, some time later, and registers for SIGINT and SIGTERM.
InstallHandlers ==
  /\ handler = "spawned" /\ phase # "exited"
  /\ handler' = "ready"
  /\ UNCHANGED <<file, vault, phase, exit, signal, command, net, wait>>

\* Before that a signal kills; afterwards the first one leaves a permit, and
\* the others do nothing.
Signal ==
  /\ phase # "exited"
  /\ IF handler = "ready"
     THEN signal = "none" /\ signal' = "pending" /\ UNCHANGED <<phase, exit>>
     ELSE phase' = "exited" /\ exit' = "killed" /\ UNCHANGED signal
  /\ UNCHANGED <<config, command, net, wait>>

RotatePassword ==
  /\ vault < MaxRotations
  /\ vault' = vault + 1
  /\ UNCHANGED <<file, handler, phase, exit, signal, command, net, wait>>

-----------------------------------------------------------------------------
(* The wait after a failure                                                *)

Least(m, n) == IF m <= n THEN m ELSE n

\* Mutant: the counter just grows.
Saturate_Never(n) == n

Saturate(n) == Least(n, 2^Width - 1)

\* Mutant: the multiplication wraps around.
NextDelay_Wraps(n, draw) ==
  LET cfg    == Config(file)
      capped == Least(cfg.reconnect_delay * (2^n % 2^Width), cfg.max_reconnect_delay)
  IN  Least((capped * (200 - cfg.reconnect_jitter + 2 * draw)) \div 200, cfg.max_reconnect_delay)

\* The initial delay, doubled with every attempt up to the maximum, times
\* 1 - jitter/2 + draw, up to the maximum again.
NextDelay(n, draw) ==
  LET cfg    == Config(file)
      capped == Least(cfg.reconnect_delay * Saturate(2^n), cfg.max_reconnect_delay)
  IN  Least((capped * (200 - cfg.reconnect_jitter + 2 * draw)) \div 200, cfg.max_reconnect_delay)

\* The draw is uniform over the jitter, here in whole percent.
Draws == 0 .. Config(file).reconnect_jitter

\* A connection that could not be made, or a session that failed.
Failed ==
  /\ phase' = "sleeping"
  /\ \E draw \in Draws : delay' = NextDelay(attempt, draw)
  /\ attempt' = Saturate(attempt + 1)
  /\ failures' = Least(failures + 1, Width + 1)
  /\ wire' = "none"
  /\ UNCHANGED <<password, exposed, begun>>

Wake ==
  /\ phase = "sleeping"
  /\ phase' = "connect" /\ delay' = 0
  /\ UNCHANGED <<config, exit, signal, command, net, attempt, failures>>

-----------------------------------------------------------------------------
(* Connecting                                                              *)

\* What is awaited is raced with the shutdown in a biased select: with a permit there
\* it goes no further.
Raced(p) == phase = p /\ signal # "pending"
Frame == UNCHANGED <<config, exit, signal>>

\* Mutant: a password that was resolved once is kept.
Resolve_Cached ==
  /\ Raced("connect")
  /\ begun' = vault
  /\ IF password # Nothing
     THEN phase' = "tcp" /\ UNCHANGED <<password, command>>
     ELSE phase' = "secret" /\ command' = TRUE /\ UNCHANGED password
  /\ Frame /\ UNCHANGED <<wire, exposed, wait>>

\* A literal is at hand; a command is run on a blocking thread.
Resolve ==
  /\ Raced("connect")
  /\ begun' = vault
  /\ IF ImapSecret(file) = "literal"
     THEN phase' = "tcp" /\ password' = 0 /\ UNCHANGED command
     ELSE phase' = "secret" /\ command' = TRUE /\ UNCHANGED password
  /\ Frame /\ UNCHANGED <<wire, exposed, wait>>

\* It prints the password, or fails or prints nothing; or nobody waits for it
\* any more.
CommandEnds ==
  /\ command
  /\ command' = FALSE
  /\ \/ /\ Raced("secret")
        /\ \/ phase' = "tcp" /\ password' = vault /\ UNCHANGED <<wire, exposed, begun, wait>>
           \/ Failed
     \/ phase = "returned" /\ UNCHANGED <<phase, net, wait>>
  /\ Frame

\* login() sends the password over the connection as it is.
SendLogin(over) ==
  /\ phase' = "login"
  /\ exposed' = (exposed \/ over = "clear")

Tcp ==
  /\ Raced("tcp")
  /\ \/ /\ wire' = "clear"
        /\ CASE Config(file).tls_mode = "implicit" -> phase' = "handshake" /\ UNCHANGED exposed
             [] Config(file).tls_mode = "starttls" -> phase' = "starttls" /\ UNCHANGED exposed
             [] Config(file).tls_mode = "plain"    -> SendLogin("clear")
        /\ UNCHANGED <<password, begun, wait>>
     \/ Failed
  /\ Frame /\ UNCHANGED command

\* Mutant: without STARTTLS the login is sent as things are.
StartTls_Opportunistic ==
  /\ Raced("starttls")
  /\ \/ phase' = "handshake" /\ UNCHANGED <<net, wait>>
     \/ SendLogin(wire) /\ UNCHANGED <<wire, password, begun, wait>>
  /\ Frame /\ UNCHANGED command

StartTls ==
  /\ Raced("starttls")
  /\ \/ phase' = "handshake" /\ UNCHANGED <<net, wait>>
     \/ Failed
  /\ Frame /\ UNCHANGED command

Handshake ==
  /\ Raced("handshake")
  /\ \/ wire' = "tls" /\ SendLogin("tls") /\ UNCHANGED <<password, begun, wait>>
     \/ Failed
  /\ Frame /\ UNCHANGED command

\* Only a connection that is logged in resets the backoff.
Login ==
  /\ Raced("login")
  /\ \/ phase' = "session" /\ attempt' = 0 /\ failures' = 0 /\ UNCHANGED <<delay, net>>
     \/ Failed
  /\ Frame /\ UNCHANGED command

-----------------------------------------------------------------------------
(* Sessions and the end                                                    *)

\* CAPABILITY, SELECT and the drain, or the FETCH and the commands of a batch, are
\* answered.
SessionAnswers ==
  /\ phase \in Commands
  /\ phase' = "idle"
  /\ Frame /\ UNCHANGED <<command, net, wait>>

\* IDLE returns an event or its timeout.
IdleWakes ==
  /\ Raced("idle")
  /\ phase' = "batch"
  /\ Frame /\ UNCHANGED <<command, net, wait>>

\* Mutant: what is wrong with a session is wrong for good.
SessionError_Fatal ==
  /\ phase \in Commands \/ Raced("idle")
  /\ phase' = "exited" /\ exit' = "error"
  /\ UNCHANGED <<config, signal, command, net, wait>>

\* Whatever else the error is, the daemon connects again.
SessionError ==
  /\ phase \in Commands \/ Raced("idle")
  /\ Failed
  /\ Frame /\ UNCHANGED command

\* After SELECT.
UidValidityChanged ==
  /\ phase = "session"
  /\ phase' = "exited" /\ exit' = "validity"
  /\ UNCHANGED <<config, signal, command, net, wait>>

\* Mutant: shutdown is only looked for between the attempts.
Interruptible_NotConnecting == {"connect", "idle", "sleeping"}

\* The awaits that are raced with the shutdown: the whole of connect(), the sleep,
\* and of a session only IDLE.
Interruptible == Connecting \cup {"idle", "sleeping"}

\* run() returns: the connection is given up, the sleep is cut short, or IDLE is
\* dropped and the session ends well.
TakeSignal ==
  /\ signal = "pending" /\ phase \in Interruptible
  /\ signal' = "taken" /\ phase' = "returned"
  /\ UNCHANGED <<config, exit, command, net, wait>>

\* The runtime is dropped, which waits for its blocking threads.
Quit ==
  /\ phase = "returned" /\ ~command
  /\ phase' = "exited" /\ exit' = "ok"
  /\ UNCHANGED <<config, signal, command, net, wait>>

\* What needs neither the server nor the operator.
Own == \/ StartStep \/ StartFails \/ InstallHandlers
       \/ Wake \/ Resolve \/ CommandEnds \/ TakeSignal \/ Quit

Server == \/ Tcp \/ StartTls \/ Handshake \/ Login
          \/ SessionAnswers \/ IdleWakes \/ SessionError \/ UidValidityChanged

Next == Own \/ Server \/ Signal \/ RotatePassword

Spec == Init /\ [][Next]_vars

\* The daemon runs, its timer expires and password commands end; the server
\* need not answer.
FairSpec == Spec /\ WF_vars(Own)

-----------------------------------------------------------------------------
\* Everything stays in its range, a command runs only for a connection that is
\* being made or was given up, and only a running process is not exited.
TypeOK ==
  /\ file \in Files /\ phase \in Phases
  /\ exit \in {"none", "ok", "error", "validity", "killed"}
  /\ phase = "exited" <=> exit # "none"
  /\ handler \in {"none", "spawned", "ready"}
  /\ signal \in {"none", "pending", "taken"}
  /\ attempt \in 0 .. 2^Width - 1 /\ delay \in Nat
  /\ wire \in {"none", "clear", "tls"}
  /\ password \in Nothing .. MaxRotations
  /\ command \in BOOLEAN /\ exposed \in BOOLEAN
  /\ command => phase \in {"secret", "returned", "exited"}
  /\ vault \in 0 .. MaxRotations /\ begun \in 0 .. vault
  /\ failures \in 0 .. Width + 1

\* AsyncImapClient::connect: whatever the server refuses or answers, a password
\* leaves in clear only if the file asks for tls_mode = "plain".
PasswordOnlyOverTls ==
  exposed => Gives(file, "tls_mode") /\ file.tls_mode = "plain"

\* AsyncImapFactory::connect resolves anew: a login never uses a password that
\* password_command had stopped printing before the attempt began.
NeverStalePassword ==
  phase = "login" /\ ImapSecret(file) = "command" => password >= begun

\* Backoff: the n-th wait since the last login is the initial delay doubled n - 1
\* times, within half of it either way, and never above the maximum; a
\* counter at its limit does not bring it down.
BackedOff ==
  phase = "sleeping" =>
    LET cfg   == Config(file)
        grown == Least(cfg.reconnect_delay * Least(2^(failures - 1), 2^Width - 1),
                       cfg.max_reconnect_delay)
    IN  /\ delay <= cfg.max_reconnect_delay
        /\ 2 * delay <= 3 * grown
        /\ 2 * (delay + 1) > grown

\* Supervisor::run: once started, the daemon ends by itself only on a changed
\* UIDVALIDITY, and with code 0 only after a signal.
RunsUntilAsked ==
  [][phase \notin Startup /\ exit' # exit =>
       \/ exit' = "ok" /\ signal = "taken"
       \/ exit' = "validity" /\ phase = "session"
       \/ exit' = "killed" /\ handler # "ready"]_vars

\* Supervisor::run and SessionManager::run: a signal ends the process, at whatever
\* point of the start, of a connection the server leaves hanging, of a sleep or of
\* IDLE; or else a session waits for ever for the answer to a command, which has no
\* timeout and is not raced with the shutdown.
ShutdownCompletes ==
  signal = "pending" ~> (phase = "exited" \/ [](phase \in Commands))
=============================================================================
