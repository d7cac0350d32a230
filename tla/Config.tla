------------------------------- MODULE Config -------------------------------
(***************************************************************************)
(* The configuration (crates/config): which keys a file must have, what    *)
(* the others default to, what validate() refuses, and where a password    *)
(* comes from.  A file is a record of the keys it gives; the keys of [smtp]*)
(* start with smtp_, the jitter is in percent.  Keys that no component     *)
(* modelled here looks at ([logging], mailbox, starttls) are left out.     *)
(***************************************************************************)
EXTENDS Integers

Defaults ==
  [auth_method |-> "plain", tls_mode |-> "implicit", watch |-> FALSE,
   batch_size |-> 10, reconnect_delay |-> 5, max_reconnect_delay |-> 300,
   reconnect_jitter |-> 50]

Gives(file, key) == key \in DOMAIN file

HasSmtp(file) ==
  \E key \in {"smtp_host", "smtp_port", "smtp_username", "smtp_password",
              "smtp_password_command"} : Gives(file, key)

\* toml::from_str: a key without a default is missing.
Parses(file) ==
  /\ \A key \in {"host", "port", "username", "script_path"} : Gives(file, key)
  /\ HasSmtp(file) =>
       \A key \in {"smtp_host", "smtp_port", "smtp_username"} : Gives(file, key)

Config(file) ==
  [key \in DOMAIN file \cup DOMAIN Defaults |->
     IF Gives(file, key) THEN file[key] ELSE Defaults[key]]

\* The types of the fields, which toml::from_str refuses to deviate from.
Typed(file) ==
  LET cfg == Config(file)
  IN  /\ cfg.tls_mode \in {"implicit", "starttls", "plain"}
      /\ {cfg.reconnect_delay, cfg.max_reconnect_delay} \subseteq Nat
      /\ cfg.reconnect_jitter \in Int

\* Where resolve_secret takes the IMAP and the SMTP password from: a literal
\* goes before a command.
ImapSecret(file) ==
  IF Gives(file, "password") THEN "literal"
  ELSE IF Gives(file, "password_command") THEN "command" ELSE "none"

SmtpSecret(file) ==
  IF Gives(file, "smtp_password") THEN "literal"
  ELSE IF Gives(file, "smtp_password_command") THEN "command" ELSE "none"

Validates(file) ==
  LET cfg == Config(file)
  IN  /\ cfg.host # "" /\ cfg.port # 0
      /\ cfg.auth_method = "plain" /\ ImapSecret(file) # "none"
      /\ HasSmtp(file) =>
           cfg.smtp_host # "" /\ cfg.smtp_username # "" /\ SmtpSecret(file) # "none"
      /\ cfg.reconnect_jitter \in 0 .. 100
      /\ cfg.batch_size # 0

Loads(file) == Parses(file) /\ Validates(file)
=============================================================================
