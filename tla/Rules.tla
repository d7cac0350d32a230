------------------------------- MODULE Rules -------------------------------
(***************************************************************************)
(* One message from the wire to its disposition: the sender is derived     *)
(* from its header lines (Headers), the script is evaluated (SieveEngine), *)
(* and the actions are carried out, with failures and retries              *)
(* (ActionExecutor).  What is promised is stated of the script and of the  *)
(* message, never of the intermediate lists.                               *)
(***************************************************************************)
EXTENDS ActionExecutor, SieveEngine, Headers

CONSTANTS
  Cases,  \* [raw, from, program]: a message and the script's statements
  Tokens  \* what lines are made of

\* The statements SieveEngine knows.
Statement ==
  [st : {"fileinto"}, folder : Folders, copy : BOOLEAN, create : BOOLEAN]
  \cup [st : {"redirect"}, copy : BOOLEAN, list : BOOLEAN]
  \cup [st : {"keep", "discard", "reject", "execute", "include", "addflag"}]

\* A line of a message, and an address of its ENVELOPE.
Text    == Seq(Tokens)
Address == [mailbox : Text, host : Text]

ASSUME RulesConstants ==
  /\ {" ", ",", "return-path"} \subseteq Tokens
  /\ \A c \in Cases : /\ c.program \in Seq(Statement)
                      /\ c.raw \in Seq(Text) /\ c.from \in Seq(Address)

VARIABLE case

rvars == <<vars, case>>

RInit ==
  /\ case \in Cases
  /\ Init(Evaluate(case.program), SenderKind(EnvelopeFrom(case.raw, case.from)))

\* Every fetch of the message yields the same, and so does every evaluation.
RNext == Next /\ UNCHANGED case

RSpec == RInit /\ [][RNext]_rvars

\* Commands end, and a message that failed is tried again.  Nothing brings back
\* one that was carried out.
RFairSpec == RSpec /\ WF_rvars(Execution /\ UNCHANGED case)

-----------------------------------------------------------------------------
(* What the script asks for                                                *)

Program == case.program
Filings == {i \in DOMAIN Program : Program[i].st = "fileinto"}
Moves   == {i \in Filings : ~Program[i].copy}
Targets == {Program[i].folder : i \in Filings}
Asks(st) == HasStatement(Program, st)

\* The keep, implicit (0) or explicit, that no later statement cancels.
Kept == \E k \in 0 .. Len(Program) :
          /\ k = 0 \/ Program[k].st = "keep"
          /\ \A j \in k + 1 .. Len(Program) : ~Cancels(Program[j])

\* One fileinto, or any number under a keep.  What README.md calls the mixed
\* case is one of those left out; there, and whenever the keep of a script with
\* several fileintos is cancelled, they all move and only the first files.
Supported == Kept \/ Cardinality(Filings) <= 1

\* No mail is lost: whatever fails in whatever order, the message is marked or
\* removed only when a copy is in a folder the script names, the script
\* discards it, or its sender has been notified of the rejection.
NeverLost ==
  msg # "inbox" =>
    \/ \E f \in Targets : copies[f] > 0
    \/ Asks("discard")
    \/ Asks("reject") /\ rejections > 0

\* execute() returns Ok only if what evaluate made of the script is what the
\* script says: it is filed wherever it should be, mail is sent, and it leaves
\* the mailbox just if it was moved, discarded or rejected.
OkMeansScript ==
  step = "ok" /\ Supported =>
    /\ \A f \in Targets : copies[f] > 0
    /\ \A i \in DOMAIN Program : Program[i].st = "redirect" /\ ~Program[i].list => redirects > 0
    /\ Asks("reject") => rejections > 0
    /\ (Asks("reject") \/ (Program # << >> /\ Last(Program).st = "discard")) => msg # "inbox"
    /\ (Moves # {} /\ ~Kept) => msg # "inbox"
    /\ (Kept /\ ~Asks("reject")) => msg = "inbox"

-----------------------------------------------------------------------------
(* What the header says                                                    *)

\* RFC 5322 by indices: field i is line i of the header with the continuation
\* lines that follow it.
LastOfField(raw, i) ==
  CHOOSE j \in i .. Len(raw) :
    /\ \A k \in i + 1 .. j : IsContinuation(raw[k])
    /\ j < Len(raw) => ~IsContinuation(raw[j + 1])

\* Lines i to j, unfolded.
Unfolded(raw, i, j) ==
  FlattenSeq([k \in 1 .. j - i + 1 |->
                IF k = 1 THEN raw[i] ELSE <<" ">> \o TrimStart(raw[i + k - 1])])

FieldText(raw, i) == Unfolded(raw, i, LastOfField(raw, i))

\* Position c divides the text of a field into name and body.
Divides(c, text) == text[c] = ":" /\ \A d \in 1 .. c - 1 : text[d] # ":"

IsFieldOf(name, raw, i) ==
  LET text == FieldText(raw, i)
  IN  /\ \A j \in 1 .. i : raw[j] # << >>
      /\ ~IsContinuation(raw[i])
      /\ \E c \in DOMAIN text :
           Divides(c, text) /\ Lower(Trim(SubSeq(text, 1, c - 1))) = name

FieldsOf(name, raw) == {i \in DOMAIN raw : IsFieldOf(name, raw, i)}

Body(raw, i) ==
  LET text == FieldText(raw, i)
      c    == CHOOSE d \in DOMAIN text : Divides(d, text)
  IN  Trim(SubSeq(text, c + 1, Len(text)))

\* The bodies of the fields of a name, in their order, with commas between.
Joined(name, raw) ==
  LET fields == FieldsOf(name, raw)
  IN  FlattenSeq([i \in DOMAIN raw |->
        IF i \notin fields THEN << >>
        ELSE IF \E j \in fields : j < i THEN <<",", " ">> \o Body(raw, i)
        ELSE Body(raw, i)])

\* parse_headers finds a field if, and only if, the header has one, and its value
\* is what the fields of that name say, folded or not, and nothing of the body
\* of the message, whatever comes between them.
HeadersExact ==
  step = "start" /\ faults = 0 =>
    \A name \in {ReturnPath, <<"to">>} :
      LET raw == case.raw
      IN  /\ name \in DOMAIN ParseHeaders(raw) <=> FieldsOf(name, raw) # {}
          /\ FieldsOf(name, raw) # {} => ParseHeaders(raw)[name] = Joined(name, raw)

\* The message says who sent it: one Return-Path field with one address, or
\* none and a From address.
HasSender ==
  LET paths == FieldsOf(ReturnPath, case.raw)
  IN  \/ \E i \in DOMAIN case.raw :
           /\ paths = {i}
           /\ LET body == Body(case.raw, i)
              IN  /\ Len(body) = 5 /\ body[1] = "<" /\ body[5] = ">"
                  /\ IsAddress(SubSeq(body, 2, 4))
      \/ /\ paths = {} /\ case.from # << >> /\ case.from[1].host # << >>
         /\ IsAddress(case.from[1].mailbox \o <<"@">> \o case.from[1].host)

\* Nothing in the script is bound to fail.
Feasible ==
  /\ (Asks("redirect") \/ Asks("reject")) => HasSmtp /\ HasSender
  /\ \A i \in Filings : Program[i].create \/ Program[i].folder \in Existing

Occurrences(P(_)) == Cardinality({i \in DOMAIN Program : P(Program[i])})

\* What can make an execution begin all over again.
Reasons == faults + returns

\* Mail is sent, and copies are made, once per statement of the script, and once
\* more only for a command that failed or a message that was carried out and
\* fetched again: no execution delivers anything twice, whatever evaluate made
\* of the script, nor is one tried again that has not met a failure.
RepeatsAccountedFor ==
  Feasible =>
    /\ redirects <= (1 + Reasons) * Occurrences(LAMBDA s : s.st = "redirect")
    /\ rejections <= (1 + Reasons) * Occurrences(LAMBDA s : s.st = "reject")
    /\ \A f \in Folders : copies[f] <=
         (1 + Reasons) * Occurrences(LAMBDA s : s.st = "fileinto" /\ s.folder = f)

\* A feasible script is carried out in the end, or a failed execution has
\* taken the message out of the retries' reach.
EventuallyDone == Feasible => <>(step = "ok" \/ (step = "err" /\ msg = "gone"))

=============================================================================
