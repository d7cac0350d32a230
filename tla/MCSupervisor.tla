---------------------------- MODULE MCSupervisor ----------------------------
(***************************************************************************)
(* Configuration files for Supervisor: every way to connect with every     *)
(* source of the password, delays below, at and beyond the maximum with    *)
(* every jitter, [smtp] sections, and files that are refused.              *)
(***************************************************************************)
EXTENDS Supervisor, TLC

Base == [host |-> "h", port |-> 1, username |-> "u", script_path |-> "s"]
With == Base @@ [password |-> "p", reconnect_delay |-> 1, max_reconnect_delay |-> 2]

Secrets == {[password |-> "p"], [password_command |-> "c"],
            [password |-> "p", password_command |-> "c"]}
Modes   == {[watch |-> TRUE]} \cup [tls_mode : {"implicit", "starttls", "plain"}]
Delays  == [reconnect_delay : {1, 4}, max_reconnect_delay : {2, 40},
            reconnect_jitter : {0, 50, 100}, tls_mode : {"plain"}]
Smtp    == [smtp_host |-> "m", smtp_port |-> 1, smtp_username |-> "u"]

Refused == {[host |-> ""], [port |-> 0], [auth_method |-> "oauth2"],
            [reconnect_jitter |-> 120], [batch_size |-> 0], Smtp,
            [smtp_password |-> "p"],
            [smtp_host |-> ""] @@ [smtp_password |-> "p"] @@ Smtp,
            [smtp_username |-> ""] @@ [smtp_password |-> "p"] @@ Smtp}

MCFiles ==
  {m @@ s @@ [reconnect_delay |-> 1, max_reconnect_delay |-> 2] @@ Base
     : m \in Modes, s \in Secrets}
  \cup {d @@ With : d \in Delays}
  \cup {s @@ Smtp @@ With : s \in {[smtp_password |-> "p"], [smtp_password_command |-> "c"]}}
  \cup {r @@ With : r \in Refused}
  \cup {Base, [host |-> "h"]}
=============================================================================
