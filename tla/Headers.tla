------------------------------ MODULE Headers ------------------------------
(***************************************************************************)
(* The header parser (types.rs, parse_headers) and the envelope sender     *)
(* fetch_uid_range derives from it (imap_client.rs), which redirect and    *)
(* reject send mail with.                                                  *)
(*                                                                         *)
(* A message is a sequence of lines, a line a sequence of tokens; the      *)
(* tokens that matter are " " (white space), ":", "<", ">", "," and "@".   *)
(* "Return-Path" and "return-path" are the same name in two cases.         *)
(***************************************************************************)
EXTENDS Integers, Sequences, SequencesExt

ReturnPath == <<"return-path">>

Lower(text) == [i \in DOMAIN text |-> IF text[i] = "Return-Path" THEN "return-path" ELSE text[i]]

TrimStart(text) ==
  IF \E i \in DOMAIN text : text[i] # " "
  THEN SubSeq(text, SelectInSeq(text, LAMBDA t : t # " "), Len(text))
  ELSE << >>
Trim(text) == Reverse(TrimStart(Reverse(TrimStart(text))))

IsContinuation(line) == line # << >> /\ line[1] = " "

-----------------------------------------------------------------------------
(* parse_headers                                                           *)

\* The lines up to the first empty one.
HeaderLines(raw) ==
  IF Contains(raw, << >>) THEN SubSeq(raw, 1, SelectInSeq(raw, LAMBDA l : l = << >>) - 1)
  ELSE raw

\* A continuation is appended to the line before it; one that has no line
\* before it is dropped.
AddLine(lines, line) ==
  IF ~IsContinuation(line) THEN Append(lines, line)
  ELSE IF lines = << >> THEN lines
  ELSE [lines EXCEPT ![Len(lines)] = @ \o <<" ">> \o TrimStart(line)]

\* Mutant: a continuation is taken for a line of its own.
Unfold_None(raw) == HeaderLines(raw)

\* First pass.
Unfold(raw) ==
  LET lines == HeaderLines(raw)
      unfolded[k \in 0 .. Len(lines)] ==
        IF k = 0 THEN << >> ELSE AddLine(unfolded[k - 1], lines[k])
  IN  unfolded[Len(lines)]

\* The first colon, 0 if there is none.
Colon(line) == SelectInSeq(line, LAMBDA t : t = ":")

\* str::split_once and what is done to the two halves.
Name(line)  == Lower(Trim(SubSeq(line, 1, Colon(line) - 1)))
Value(line) == Trim(SubSeq(line, Colon(line) + 1, Len(line)))

\* Mutant: the last field of a name is the one that counts.
Enter_Last(headers, line) ==
  IF Colon(line) = 0 THEN headers
  ELSE [key \in DOMAIN headers \cup {Name(line)} |->
          IF key = Name(line) THEN Value(line) ELSE headers[key]]

\* Second pass, one line: a value whose name is there already is added to it
\* after a comma.
Enter(headers, line) ==
  IF Colon(line) = 0 THEN headers
  ELSE [key \in DOMAIN headers \cup {Name(line)} |->
          IF key # Name(line) THEN headers[key]
          ELSE IF key \in DOMAIN headers THEN headers[key] \o <<",", " ">> \o Value(line)
          ELSE Value(line)]

ParseHeaders(raw) ==
  LET lines == Unfold(raw)
      headers[k \in 0 .. Len(lines)] ==
        IF k = 0 THEN [key \in {} |-> << >>] ELSE Enter(headers[k - 1], lines[k])
  IN  headers[Len(lines)]

-----------------------------------------------------------------------------
(* The envelope sender                                                     *)

\* NIL parts of an ENVELOPE address are empty; a group has no host.
AddrToString(addr) ==
  IF addr.host = << >> THEN addr.mailbox ELSE addr.mailbox \o <<"@">> \o addr.host

\* Both brackets are stripped, or neither.
Bare(path) ==
  IF Len(path) >= 2 /\ path[1] = "<" /\ path[Len(path)] = ">"
  THEN SubSeq(path, 2, Len(path) - 1)
  ELSE path

\* Return-Path, unless it is missing or empty; then the first From address of
\* the server's ENVELOPE, if there is one.  An Option is a sequence of at most
\* one string.
EnvelopeFrom(raw, from) ==
  LET headers == ParseHeaders(raw)
      path    == IF ReturnPath \in DOMAIN headers THEN Bare(Trim(headers[ReturnPath])) ELSE << >>
  IN  IF path # << >> THEN <<path>>
      ELSE IF from # << >> THEN <<AddrToString(from[1])>>
      ELSE << >>

\* LettreMailSender::send reads the empty string as the null reverse-path and
\* otherwise parses local@host.
IsAddress(text) ==
  /\ Len(text) = 3 /\ text[2] = "@"
  /\ {text[1], text[3]} \cap {"<", ">", " ", ",", ":", "@"} = {}

SenderKind(envelopeFrom) ==
  IF envelopeFrom = << >> THEN "none"
  ELSE IF envelopeFrom[1] = << >> THEN "empty"
  ELSE IF IsAddress(envelopeFrom[1]) THEN "address"
  ELSE "malformed"
=============================================================================
