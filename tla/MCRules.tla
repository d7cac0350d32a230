------------------------------ MODULE MCRules ------------------------------
(***************************************************************************)
(* Instances of Rules for TLC.  Two families of cases: every script of up  *)
(* to two of the statements below, between an optional addflag and an      *)
(* optional keep or discard, on one plain message; and, with a script that *)
(* redirects and with one that rejects, every message of up to three of    *)
(* the lines below, under four answers of the server's ENVELOPE.  Folder   *)
(* "new" is always filed into with :create.                                *)
(***************************************************************************)
EXTENDS Rules

MCFolders  == {"old", "new"}
MCExisting == {"old"}
MCServers  == [move : BOOLEAN, uidplus : BOOLEAN]

Stmt(st) == [st |-> st]
File(f, copy) == [st |-> "fileinto", folder |-> f, copy |-> copy, create |-> f = "new"]
Redirect_(copy, list) == [st |-> "redirect", copy |-> copy, list |-> list]

Statements ==
  {File(f, copy) : f \in MCFolders, copy \in BOOLEAN}
  \cup {Redirect_(FALSE, FALSE), Stmt("reject")}

Prologues == {<< >>, <<Stmt("addflag")>>, <<Stmt("execute"), Redirect_(TRUE, TRUE), Stmt("include")>>}

Programs ==
  {first \o body \o last :
     first \in Prologues, body \in SeqOf(Statements, 2),
     last \in {<< >>, <<Stmt("keep")>>, <<Stmt("discard")>>}}

MCTokens == {" ", ",", ":", "<", ">", "@", "a", "b", "x", "y", "to", "junk", "group",
             "Return-Path", "return-path"}

Lines == {
  <<"Return-Path", ":", " ", "<", "a", "@", "x", ">">>,
  <<"return-path", ":", "<", ">">>,
  <<"Return-Path", ":">>,
  <<" ", "<", "b", "@", "y", ">">>,
  <<"to", ":", "b", "@", "y">>,
  <<"junk">>,
  << >>}

Addr(mailbox, host) == [mailbox |-> mailbox, host |-> host]

Froms == {
  << >>,                              \* no ENVELOPE or no From
  <<Addr(<<"b">>, <<"y">>)>>,
  <<Addr(<<"group">>, << >>)>>,       \* the start of a group
  <<Addr(<< >>, << >>)>>}             \* NIL NIL

MCCases ==
  LET Mail(raw, from, p) == [raw |-> raw, from |-> from, program |-> p]
      b == Addr(<<"b">>, <<"y">>)
      senders == {<<Redirect_(FALSE, FALSE)>>, <<Stmt("reject")>>}
  IN  {Mail(<<<<"to", ":", "b", "@", "y">>>>, <<b>>, p) : p \in Programs}
      \cup {Mail(raw, from, p) : raw \in SeqOf(Lines, 2), from \in Froms, p \in senders}
      \cup {Mail(raw, <<b>>, p) : raw \in SeqOf(Lines, 3), p \in senders}
=============================================================================
