---------------------------- MODULE HeadersProofs ----------------------------
(***************************************************************************)
(* The header parser returns what the header says, for every message: the  *)
(* two passes of parse_headers against the fields by indices (Joined), and *)
(* the sender that is derived from them.                                   *)
(***************************************************************************)
EXTENDS SieveEngineProofs

-----------------------------------------------------------------------------
(* Numbers and sequences                                                   *)

\* A set of numbers that is not empty has a least member.
LEMMA LeastMember ==
  ASSUME NEW I, I \subseteq Nat, I # {}
  PROVE  Min(I) \in I /\ \A i \in I : Min(I) <= i
<1>1. \E i \in I : \A j \in I : i <= j
  <2> SUFFICES ASSUME \A i \in I : \E j \in I : ~(i <= j) PROVE FALSE
    OBVIOUS
  <2> DEFINE T == {n \in Nat : \A m \in 0 .. n : m \notin I}
  <2>1. 0 \in T
    OBVIOUS
  <2>2. ASSUME NEW n \in T PROVE n + 1 \in T
    <3>1. n + 1 \notin I
      <4> SUFFICES ASSUME n + 1 \in I PROVE FALSE
        OBVIOUS
      <4>1. PICK j \in I : ~(n + 1 <= j)
        OBVIOUS
      <4>2. j \in 0 .. n
        BY <4>1
      <4> QED
        BY <4>2
    <3> QED
      BY <3>1
  <2>3. T = Nat
    <3>1. T \subseteq Nat
      OBVIOUS
    <3> HIDE DEF T
    <3> QED
      BY <2>1, <2>2, <3>1, Induction
  <2>4. PICK i \in I : TRUE
    OBVIOUS
  <2>5. i \in T /\ i \in 0 .. i
    BY <2>3
  <2> QED
    BY <2>5
<1> QED
  BY <1>1 DEF Min

\* FlattenSeq of one sequence more appends it.
LEMMA FlattenAppend ==
  ASSUME NEW S, NEW n \in Nat, NEW seqs \in [1 .. n + 1 -> Seq(S)]
  PROVE  LET init == [i \in 1 .. n |-> seqs[i]] IN
         /\ FlattenSeq(init) \in Seq(S)
         /\ FlattenSeq(seqs) = FlattenSeq(init) \o seqs[n + 1]
<1> DEFINE init == [i \in 1 .. n |-> seqs[i]]
<1>1. seqs \in Seq(Seq(S)) /\ Len(seqs) = n + 1
  OBVIOUS
<1>2. init \in Seq(Seq(S)) /\ Len(init) = n
  OBVIOUS
<1>3. \A i \in 1 .. n : init[i] = seqs[i]
  OBVIOUS
<1> HIDE DEF init
<1>4. PICK f : Appends(f, S, n + 1, seqs) /\ FlattenSeq(seqs) = f[n + 1]
  BY <1>1, Flattening
<1>5. PICK g : Appends(g, S, n, init) /\ FlattenSeq(init) = g[n]
  BY <1>2, Flattening
<1>6. g \in [0 .. n -> Seq(S)] /\ g[0] = f[0]
  BY <1>4, <1>5 DEF Appends
<1>7. \A i \in 1 .. n + 1 : f[i] = f[i - 1] \o seqs[i]
  BY <1>4 DEF Appends
<1>8. \A i \in 1 .. n : g[i] = g[i - 1] \o seqs[i]
  BY <1>3, <1>5 DEF Appends
<1> DEFINE T == {m \in Nat : f[m] = g[m]}
<1>9. \A m \in 0 .. n : m \in T
  <2>1. 0 \in T
    BY <1>6
  <2>2. ASSUME NEW m \in 0 .. n, m < n, m \in T PROVE m + 1 \in T
    <3>1. m + 1 \in 1 .. n /\ m + 1 \in 1 .. n + 1 /\ (m + 1) - 1 = m
      BY <2>2
    <3>2. f[m + 1] = f[m] \o seqs[m + 1]
      BY <3>1, <1>7
    <3>3. g[m + 1] = g[m] \o seqs[m + 1]
      BY <3>1, <1>8
    <3>4. f[m] = g[m]
      BY <2>2
    <3>5. f[m + 1] = g[m + 1]
      BY <3>2, <3>3, <3>4
    <3> QED
      BY <3>5
  <2> HIDE DEF T
  <2> QED
    BY <2>1, <2>2, BoundedInduction
<1>10. f[n] = g[n]
  BY <1>9
<1>11. f[n + 1] = f[n] \o seqs[n + 1]
  <2>1. n + 1 \in 1 .. n + 1 /\ (n + 1) - 1 = n
    OBVIOUS
  <2> QED
    BY <2>1, <1>7
<1>12. g[n] \in Seq(S)
  BY <1>6
<1> QED
  BY <1>4, <1>5, <1>10, <1>11, <1>12 DEF init

\* FlattenSeq of one sequence is the sequence.
LEMMA FlattenOne ==
  ASSUME NEW S, NEW seqs \in [1 .. 1 -> Seq(S)]
  PROVE  FlattenSeq(seqs) = seqs[1]
<1>1. seqs \in [1 .. 0 + 1 -> Seq(S)] /\ seqs[1] \in Seq(S)
  OBVIOUS
<1> DEFINE init == [i \in 1 .. 0 |-> seqs[i]]
<1>2. FlattenSeq(seqs) = FlattenSeq(init) \o seqs[0 + 1]
  BY <1>1, FlattenAppend
<1>3. init = << >> /\ Len(init) = 0
  OBVIOUS
<1>4. FlattenSeq(init) = << >>
  BY <1>3 DEF FlattenSeq
<1> QED
  BY <1>1, <1>2, <1>4

-----------------------------------------------------------------------------
(* Texts                                                                   *)

\* A text is a function of its positions, and empty when it has none.
LEMMA TextShape ==
  ASSUME NEW s \in Text
  PROVE  /\ Len(s) \in Nat /\ DOMAIN s = 1 .. Len(s) /\ s \in [1 .. Len(s) -> Tokens]
         /\ s = << >> <=> Len(s) = 0
BY EmptySeq DEF Text

\* Reversing a text yields a text of the same length, read from the other end.
LEMMA ReverseText ==
  ASSUME NEW s \in Text
  PROVE  /\ Reverse(s) \in Text /\ Len(Reverse(s)) = Len(s)
         /\ \A i \in 1 .. Len(s) : Reverse(s)[i] = s[Len(s) - i + 1]
<1>1. PICK n \in Nat : n = Len(s)
  BY DEF Text
<1>2. s \in [1 .. n -> Tokens]
  BY <1>1 DEF Text
<1>3. Reverse(s) = [i \in 1 .. n |-> s[n - i + 1]]
  BY <1>1 DEF Reverse
<1>4. \A i \in 1 .. n : n - i + 1 \in 1 .. n
  OBVIOUS
<1>5. Reverse(s) \in [1 .. n -> Tokens]
  BY <1>2, <1>3, <1>4
<1>6. Reverse(s) \in Text /\ Len(Reverse(s)) = n
  BY <1>5 DEF Text
<1> QED
  BY <1>1, <1>3, <1>6

\* A part of a text is a text.
LEMMA PartOfText ==
  ASSUME NEW s \in Text, NEW i \in 1 .. Len(s) + 1, NEW j \in 0 .. Len(s)
  PROVE  SubSeq(s, i, j) \in Text
BY DEF Text

\* What is trimmed is a text; a text that does not start with white space is left
\* as it is.
LEMMA TrimStartText ==
  ASSUME NEW s \in Text
  PROVE  /\ TrimStart(s) \in Text
         /\ s # << >> /\ s[1] # " " => TrimStart(s) = s
<1>1. PICK n \in Nat : n = Len(s) /\ DOMAIN s = 1 .. n
  BY DEF Text
<1>2. CASE \A i \in 1 .. n : s[i] = " "
  <2>1. TrimStart(s) = << >>
    BY <1>1, <1>2 DEF TrimStart
  <2>2. << >> \in Text
    BY DEF Text
  <2>3. ASSUME s # << >> PROVE s[1] = " "
    <3>1. 1 \in 1 .. n
      BY <1>1, <2>3, TextShape
    <3> QED
      BY <1>2, <3>1
  <2> QED
    BY <2>1, <2>2, <2>3
<1>3. CASE \E i \in 1 .. n : s[i] # " "
  <2> DEFINE I == {i \in 1 .. Len(s) : s[i] # " "}
             k == SelectInSeq(s, LAMBDA t : t # " ")
  <2>1. TrimStart(s) = SubSeq(s, k, Len(s))
    BY <1>1, <1>3 DEF TrimStart
  <2>2. I \subseteq Nat /\ I # {}
    <3>1. PICK i \in 1 .. n : s[i] # " "
      BY <1>3
    <3>2. i \in I
      BY <1>1, <3>1
    <3>3. I \subseteq 1 .. n
      BY <1>1
    <3>4. \A J : J \subseteq 1 .. n => J \subseteq Nat
      OBVIOUS
    <3> HIDE DEF I
    <3> QED
      BY <3>2, <3>3, <3>4
  <2>3. k = IF I # {} THEN Min(I) ELSE 0
    BY DEF SelectInSeq
  <2>4. Min(I) \in I /\ \A i \in I : Min(I) <= i
    <3> HIDE DEF I
    <3> QED
      BY <2>2, LeastMember
  <2>5. k \in 1 .. n /\ \A i \in I : k <= i
    BY <1>1, <2>2, <2>3, <2>4
  <2> HIDE DEF k
  <2>6. SubSeq(s, k, Len(s)) \in Text
    <3>1. \A m \in Nat : k \in 1 .. m => k \in 1 .. m + 1 /\ m \in 0 .. m
      OBVIOUS
    <3>2. k \in 1 .. Len(s) + 1 /\ Len(s) \in 0 .. Len(s)
      BY <1>1, <2>5, <3>1
    <3> QED
      BY <3>2, PartOfText
  <2>7. ASSUME s # << >>, s[1] # " " PROVE k = 1
    <3>1. n # 0
      BY <1>1, <2>7, TextShape
    <3>2. 1 \in 1 .. n
      BY <3>1
    <3>3. 1 \in I
      BY <1>1, <2>7, <3>2
    <3>4. k <= 1 /\ k \in 1 .. n
      BY <2>5, <3>3
    <3> QED
      BY <3>4
  <2>8. SubSeq(s, 1, Len(s)) = s
    BY DEF Text
  <2> QED
    BY <2>1, <2>6, <2>7, <2>8
<1> QED
  BY <1>2, <1>3

LEMMA TrimText ==
  ASSUME NEW s \in Text
  PROVE  /\ Trim(s) \in Text
         /\ s # << >> /\ s[1] # " " /\ s[Len(s)] # " " => Trim(s) = s
<1> DEFINE t == TrimStart(s)
           u == Reverse(t)
           v == TrimStart(u)
<1>1. t \in Text
  BY TrimStartText
<1>2. u \in Text
  BY <1>1, ReverseText
<1>3. v \in Text
  BY <1>2, TrimStartText
<1>4. Trim(s) = Reverse(v) /\ Reverse(v) \in Text
  BY <1>3, ReverseText DEF Trim
<1>5. ASSUME s # << >>, s[1] # " ", s[Len(s)] # " " PROVE Reverse(v) = s
  <2>1. t = s
    BY <1>5, TrimStartText
  <2>2. PICK n \in Nat : n = Len(s) /\ n > 0 /\ s \in [1 .. n -> Tokens]
    <3>1. Len(s) \in Nat /\ Len(s) # 0 /\ s \in [1 .. Len(s) -> Tokens]
      BY <1>5, TextShape
    <3>2. Len(s) > 0
      BY <3>1
    <3> QED
      BY <3>1, <3>2
  <2>3. Len(u) = n /\ \A i \in 1 .. n : u[i] = s[n - i + 1]
    BY <2>1, <2>2, ReverseText
  <2>4. u[1] # " " /\ u # << >>
    <3>1. u # << >>
      BY <1>2, <2>2, <2>3, TextShape
    <3>2. 1 \in 1 .. n /\ n - 1 + 1 = n
      BY <2>2
    <3> HIDE DEF u
    <3> QED
      BY <1>5, <2>2, <2>3, <3>1, <3>2
  <2>5. v = u
    BY <1>2, <2>4, TrimStartText
  <2>6. Len(Reverse(v)) = n /\ \A i \in 1 .. n : Reverse(v)[i] = s[i]
    <3>1. Len(Reverse(u)) = n /\ \A i \in 1 .. n : Reverse(u)[i] = u[n - i + 1]
      BY <1>2, <2>3, ReverseText
    <3>2. \A i \in 1 .. n : n - i + 1 \in 1 .. n /\ n - (n - i + 1) + 1 = i
      BY <2>2
    <3> QED
      BY <2>3, <2>5, <3>1, <3>2
  <2>7. Reverse(v) \in [1 .. n -> Tokens]
    BY <1>4, <2>6 DEF Text
  <2> HIDE DEF t, u, v
  <2> QED
    BY <2>2, <2>6, <2>7
<1> QED
  BY <1>4, <1>5

LEMMA LowerText ==
  ASSUME NEW s \in Text
  PROVE  Lower(s) \in Text
<1>1. PICK n \in Nat : s \in [1 .. n -> Tokens] /\ DOMAIN s = 1 .. n
  BY TextShape
<1>2. "return-path" \in Tokens
  BY RulesConstants
<1>3. \A i \in 1 .. n : Lower(s)[i] \in Tokens
  BY <1>1, <1>2 DEF Lower
<1>4. Lower(s) \in [1 .. n -> Tokens]
  BY <1>1, <1>3 DEF Lower
<1> QED
  BY <1>4 DEF Text

\* Colon is where split_once divides a line.
LEMMA ColonDivides ==
  ASSUME NEW line \in Text
  PROVE  /\ Colon(line) \in 0 .. Len(line)
         /\ Colon(line) # 0 => Colon(line) \in DOMAIN line /\ Divides(Colon(line), line)
         /\ \A c \in DOMAIN line : Divides(c, line) => c = Colon(line)
<1> DEFINE I == {i \in 1 .. Len(line) : line[i] = ":"}
<1>1. PICK n \in Nat : n = Len(line) /\ DOMAIN line = 1 .. n
  BY DEF Text
<1>2. Colon(line) = IF I # {} THEN Min(I) ELSE 0
  BY DEF Colon, SelectInSeq
<1>3. I \subseteq Nat
  BY <1>1
<1>4. I # {} => Min(I) \in I /\ \A i \in I : Min(I) <= i
  <2> HIDE DEF I
  <2> QED
    BY <1>3, LeastMember
<1>5. CASE I = {}
  BY <1>1, <1>2, <1>5 DEF Divides
<1>6. CASE I # {}
  <2>1. PICK k \in 1 .. n : k = Colon(line) /\ line[k] = ":" /\ \A i \in I : k <= i
    BY <1>1, <1>2, <1>4, <1>6
  <2>2. \A d \in 1 .. k - 1 : line[d] # ":"
    BY <1>1, <2>1
  <2>3. \A c \in 1 .. n : Divides(c, line) => c = k
    BY <1>1, <2>1, <2>2 DEF Divides
  <2> QED
    BY <1>1, <2>1, <2>2, <2>3 DEF Divides
<1> QED
  BY <1>5, <1>6

\* Name and value of a line are texts.
LEMMA NameValueText ==
  ASSUME NEW line \in Text, Colon(line) # 0
  PROVE  Name(line) \in Text /\ Value(line) \in Text
<1>1. PICK n \in Nat : n = Len(line)
  BY DEF Text
<1>2. Colon(line) \in 1 .. n
  BY <1>1, ColonDivides
<1>3. SubSeq(line, 1, Colon(line) - 1) \in Text /\ SubSeq(line, Colon(line) + 1, Len(line)) \in Text
  BY <1>1, <1>2, PartOfText
<1> QED
  BY <1>3, TrimText, LowerText DEF Name, Value

-----------------------------------------------------------------------------
(* The first pass                                                          *)

\* The header is what precedes the first empty line.
HeaderIs(lines, n, raw) ==
  /\ n \in 0 .. Len(raw)
  /\ lines \in [1 .. n -> Text]
  /\ \A i \in 1 .. n : lines[i] = raw[i] /\ raw[i] # << >>
  /\ n < Len(raw) => raw[n + 1] = << >>

LEMMA HeaderPart ==
  ASSUME NEW raw \in Seq(Text)
  PROVE  HeaderIs(HeaderLines(raw), Len(HeaderLines(raw)), raw)
<1>1. PICK n \in Nat : n = Len(raw) /\ DOMAIN raw = 1 .. n /\ raw \in [1 .. n -> Text]
  OBVIOUS
<1>2. CASE \A i \in 1 .. n : raw[i] # << >>
  <2>1. HeaderLines(raw) = raw
    BY <1>1, <1>2 DEF HeaderLines, Contains
  <2> QED
    BY <1>1, <1>2, <2>1 DEF HeaderIs
<1>3. CASE \E i \in 1 .. n : raw[i] = << >>
  <2> DEFINE I == {i \in 1 .. Len(raw) : raw[i] = << >>}
             k == SelectInSeq(raw, LAMBDA l : l = << >>)
  <2>1. HeaderLines(raw) = SubSeq(raw, 1, k - 1)
    BY <1>1, <1>3 DEF HeaderLines, Contains
  <2>2. PICK i \in 1 .. n : raw[i] = << >>
    BY <1>3
  <2>3. i \in I /\ I \subseteq 1 .. n
    BY <1>1, <2>2
  <2>4. I # {} /\ I \subseteq Nat
    <3>1. \A J : J \subseteq 1 .. n => J \subseteq Nat
      OBVIOUS
    <3> HIDE DEF I
    <3> QED
      BY <2>3, <3>1
  <2>5. k = IF I # {} THEN Min(I) ELSE 0
    BY DEF SelectInSeq
  <2>6. Min(I) \in I /\ \A j \in I : Min(I) <= j
    <3> HIDE DEF I
    <3> QED
      BY <2>4, LeastMember
  <2>7. k \in I /\ \A j \in I : k <= j
    BY <2>4, <2>5, <2>6
  <2> HIDE DEF k
  <2>8. k \in 1 .. n /\ raw[k] = << >>
    BY <1>1, <2>7
  <2>9. \A j \in 1 .. k - 1 : j \in 1 .. n /\ raw[j] # << >>
    <3> TAKE j \in 1 .. k - 1
    <3>1. j \in 1 .. n /\ ~(k <= j)
      BY <2>8
    <3> QED
      BY <1>1, <2>7, <3>1
  <2>10. PICK m \in Nat : m = k - 1
    BY <2>8
  <2>11. SubSeq(raw, 1, m) = [j \in 1 .. m |-> raw[j]]
    BY <1>1, <2>8, <2>10
  <2>12. \A j \in 1 .. m : j \in 1 .. n /\ raw[j] # << >> /\ raw[j] \in Text
    BY <1>1, <2>9, <2>10
  <2>13. PICK lines : lines = HeaderLines(raw) /\ lines = [j \in 1 .. m |-> raw[j]]
    BY <2>1, <2>10, <2>11
  <2>14. Len(lines) = m /\ lines \in [1 .. m -> Text]
    BY <2>12, <2>13
  <2>15. m < n /\ raw[m + 1] = << >>
    BY <2>8, <2>10
  <2> QED
    BY <1>1, <2>12, <2>13, <2>14, <2>15 DEF HeaderIs
<1> QED
  BY <1>2, <1>3

\* A line that is added leaves lines.
LEMMA AddLineType ==
  ASSUME NEW lines \in Seq(Text), NEW line \in Text
  PROVE  /\ AddLine(lines, line) \in Seq(Text)
         /\ IsContinuation(line) /\ lines = << >> => AddLine(lines, line) = lines
         /\ IsContinuation(line) /\ lines # << >> =>
              /\ Len(AddLine(lines, line)) = Len(lines)
              /\ \A j \in 1 .. Len(lines) : AddLine(lines, line)[j] =
                   IF j = Len(lines) THEN lines[j] \o (<<" ">> \o TrimStart(line)) ELSE lines[j]
         /\ ~IsContinuation(line) =>
              /\ Len(AddLine(lines, line)) = Len(lines) + 1
              /\ \A j \in 1 .. Len(lines) : AddLine(lines, line)[j] = lines[j]
              /\ AddLine(lines, line)[Len(lines) + 1] = line
<1>1. PICK n \in Nat : n = Len(lines) /\ lines \in [1 .. n -> Text] /\ (lines = << >> <=> n = 0)
  BY EmptySeq
<1>2. CASE ~IsContinuation(line)
  <2>1. AddLine(lines, line) = Append(lines, line)
    BY <1>2 DEF AddLine
  <2>2. /\ Append(lines, line) \in Seq(Text) /\ Len(Append(lines, line)) = n + 1
        /\ \A j \in 1 .. n : Append(lines, line)[j] = lines[j]
        /\ Append(lines, line)[n + 1] = line
    BY <1>1, AppendProperties
  <2> QED
    BY <1>1, <1>2, <2>1, <2>2
<1>3. CASE IsContinuation(line) /\ lines = << >>
  BY <1>3 DEF AddLine
<1>4. CASE IsContinuation(line) /\ lines # << >>
  <2>1. PICK t \in Text : t = TrimStart(line)
    BY TrimStartText
  <2>2. PICK u \in Text : u = <<" ">>
    <3>1. " " \in Tokens
      BY RulesConstants
    <3>2. \A x \in Tokens : <<x>> \in Seq(Tokens)
      OBVIOUS
    <3>3. <<" ">> \in Text
      BY <3>1, <3>2 DEF Text
    <3> QED
      BY <3>3, Zenon
  <2>3. n \in 1 .. n /\ lines[n] \in Text
    BY <1>1, <1>4
  <2>4. PICK last \in Text : last = lines[n]
    BY <2>3
  <2>5. (last \o u) \o t = last \o (u \o t) /\ last \o (u \o t) \in Text
    BY DEF Text
  <2>6. AddLine(lines, line) = [lines EXCEPT ![n] = (last \o u) \o t]
    BY <1>1, <1>4, <2>1, <2>2, <2>4 DEF AddLine
  <2>7. PICK new \in Text : new = last \o (u \o t)
    BY <2>5
  <2>8. AddLine(lines, line) = [lines EXCEPT ![n] = new]
    BY <2>5, <2>6, <2>7
  <2>9. [lines EXCEPT ![n] = new] \in [1 .. n -> Text]
    BY <1>1
  <2>10. AddLine(lines, line) \in Seq(Text) /\ Len(AddLine(lines, line)) = n
    BY <2>8, <2>9
  <2>11. \A j \in 1 .. n : AddLine(lines, line)[j] = IF j = n THEN new ELSE lines[j]
    BY <1>1, <2>8
  <2> QED
    BY <1>1, <1>4, <2>1, <2>2, <2>4, <2>7, <2>10, <2>11
<1> QED
  BY <1>2, <1>3, <1>4

\* The states of the first pass, line by line.
Unfolds(run, n, lines) ==
  /\ run \in [0 .. n -> Seq(Text)]
  /\ run[0] = << >>
  /\ \A k \in 1 .. n : run[k] = AddLine(run[k - 1], lines[k])

LEMMA Unfolding ==
  ASSUME NEW raw, NEW n \in Nat, n = Len(HeaderLines(raw)),
         \A k \in 1 .. n : HeaderLines(raw)[k] \in Text
  PROVE  \E run : Unfolds(run, n, HeaderLines(raw)) /\ Unfold(raw) = run[n]
<1> DEFINE lines == HeaderLines(raw)
           D == Seq(Text)
           g == [p \in D \X (1 .. n) |-> AddLine(p[1], lines[p[2]])]
           Sound(f) == f = [k \in 0 .. n |-> IF k = 0 THEN << >> ELSE AddLine(f[k - 1], lines[k])]
           f == CHOOSE f : Sound(f)
<1>1. PICK base \in D : base = << >>
  BY EmptySeq
<1>2. \A d \in D, k \in 1 .. n : AddLine(d, lines[k]) \in D
  BY AddLineType
<1>3. g \in [D \X (1 .. n) -> D]
  <2> HIDE DEF D, lines
  <2> QED
    BY <1>2
<1>4. \A d \in D, k \in 1 .. n : g[<<d, k>>] = AddLine(d, lines[k])
  OBVIOUS
<1>5. PICK run : Follows(run, D, base, n, g)
  <2>1. base \in D
    BY <1>1
  <2> HIDE DEF D, g
  <2> QED
    BY <1>3, <2>1, Recursion
<1>6. Sound(run)
  <2>1. run \in [0 .. n -> D] /\ run[0] = base /\ \A k \in 1 .. n : run[k] = g[<<run[k - 1], k>>]
    BY <1>5 DEF Follows
  <2>2. \A k \in 1 .. n : run[k] = AddLine(run[k - 1], lines[k])
    <3> TAKE k \in 1 .. n
    <3>1. k - 1 \in 0 .. n
      OBVIOUS
    <3>2. run[k - 1] \in D
      BY <2>1, <3>1
    <3> HIDE DEF D, g, lines
    <3> QED
      BY <1>4, <2>1, <3>2
  <2>3. \A k \in 0 .. n : run[k] = IF k = 0 THEN << >> ELSE AddLine(run[k - 1], lines[k])
    <3> TAKE k \in 0 .. n
    <3>1. k # 0 => k \in 1 .. n
      OBVIOUS
    <3> HIDE DEF D, g, lines
    <3> QED
      BY <1>1, <2>1, <2>2, <3>1
  <2> HIDE DEF D, g, lines
  <2> QED
    BY <2>1, <2>3
<1>7. Sound(f)
  <2> HIDE DEF Sound
  <2> QED
    BY <1>6
<1>8. Unfold(raw) = f[n]
  BY DEF Unfold
<1> HIDE DEF f
<1>9. \A k \in 0 .. n : f[k] = IF k = 0 THEN << >> ELSE AddLine(f[k - 1], lines[k])
  <2> HIDE DEF lines
  <2> QED
    BY <1>7
<1>10. f[0] = << >> /\ \A k \in 1 .. n : f[k] = AddLine(f[k - 1], lines[k])
  <2>1. 0 \in 0 .. n /\ \A k \in 1 .. n : k \in 0 .. n /\ k # 0
    OBVIOUS
  <2> HIDE DEF lines
  <2> QED
    BY <1>9, <2>1
<1>11. \A k \in 0 .. n : f[k] \in D
  <2> DEFINE T == {m \in Nat : f[m] \in D}
  <2>1. 0 \in T
    BY <1>1, <1>10
  <2>2. ASSUME NEW m \in 0 .. n, m < n, m \in T PROVE m + 1 \in T
    <3>1. m + 1 \in 1 .. n /\ (m + 1) - 1 = m /\ f[m] \in D
      BY <2>2
    <3>2. f[m + 1] = AddLine(f[m], lines[m + 1])
      BY <3>1, <1>10
    <3>3. f[m + 1] \in D
      <4> HIDE DEF D, lines
      <4> QED
        BY <1>2, <3>1, <3>2
    <3> QED
      BY <3>3
  <2>3. \A m \in 0 .. n : m \in T
    <3> HIDE DEF T
    <3> QED
      BY <2>1, <2>2, BoundedInduction
  <2> QED
    BY <2>3
<1>12. f \in [0 .. n -> D]
  <2>1. f = [k \in 0 .. n |-> f[k]]
    <3>1. DOMAIN f = 0 .. n /\ f = [k \in DOMAIN f |-> f[k]]
      <4> HIDE DEF lines
      <4> QED
        BY <1>7
    <3> QED
      BY <3>1
  <2> HIDE DEF D
  <2> QED
    BY <1>11, <2>1
<1> QED
  BY <1>8, <1>10, <1>12 DEF Unfolds

\* What a line adds to a field it continues.
Added(line) == <<" ">> \o TrimStart(line)

LEMMA AddedText ==
  ASSUME NEW line \in Text
  PROVE  Added(line) \in Text
<1>1. \A x \in Tokens : <<x>> \in Seq(Tokens)
  OBVIOUS
<1>2. <<" ">> \in Text
  BY <1>1, RulesConstants DEF Text
<1>3. \A u, t \in Text : u \o t \in Text
  BY DEF Text
<1>4. TrimStart(line) \in Text
  BY TrimStartText
<1> QED
  BY <1>2, <1>3, <1>4 DEF Added

\* The text of a field, line by line.
LEMMA UnfoldedLines ==
  ASSUME NEW raw \in Seq(Text), NEW i \in 1 .. Len(raw)
  PROVE  /\ Unfolded(raw, i, i) = raw[i]
         /\ \A j \in i .. Len(raw) : Unfolded(raw, i, j) \in Text
         /\ \A j \in i .. Len(raw) - 1 :
              Unfolded(raw, i, j + 1) = Unfolded(raw, i, j) \o Added(raw[j + 1])
<1> DEFINE part(k) == IF k = 1 THEN raw[i] ELSE Added(raw[i + k - 1])
           seqs(m) == [k \in 1 .. m |-> part(k)]
<1>1. PICK n \in Nat : n = Len(raw) /\ raw \in [1 .. n -> Text] /\ i \in 1 .. n
  OBVIOUS
<1>2. \A j \in i .. n : Unfolded(raw, i, j) = FlattenSeq(seqs(j - i + 1))
  BY DEF Unfolded, Added
<1>3. \A k \in 1 .. n - i + 1 : part(k) \in Text
  <2> TAKE k \in 1 .. n - i + 1
  <2>1. i + k - 1 \in 1 .. n
    BY <1>1
  <2> QED
    BY <1>1, <2>1, AddedText
<1>4. \A m \in 1 .. n - i + 1 : seqs(m) \in [1 .. m -> Text]
  <2> TAKE m \in 1 .. n - i + 1
  <2>1. \A k \in 1 .. m : k \in 1 .. n - i + 1
    OBVIOUS
  <2> HIDE DEF part
  <2> QED
    BY <1>3, <2>1
<1>5. ASSUME NEW j \in i .. n - 1
      PROVE  /\ Unfolded(raw, i, j + 1) = Unfolded(raw, i, j) \o Added(raw[j + 1])
             /\ Unfolded(raw, i, j) \in Text
  <2>1. PICK m \in Nat : m = j - i + 1
    BY <1>1
  <2>2. m + 1 \in 1 .. n - i + 1 /\ (j + 1) - i + 1 = m + 1 /\ m # 0 /\ i + (m + 1) - 1 = j + 1
    BY <1>1, <2>1
  <2>3. seqs(m + 1) \in [1 .. m + 1 -> Seq(Tokens)]
    BY <1>4, <2>2 DEF Text
  <2>4. seqs(m) = [k \in 1 .. m |-> seqs(m + 1)[k]]
    <3>1. \A k \in 1 .. m : k \in 1 .. m + 1
      OBVIOUS
    <3> HIDE DEF part
    <3> QED
      BY <3>1
  <2>5. seqs(m + 1)[m + 1] = Added(raw[j + 1])
    BY <2>2
  <2>6. FlattenSeq([k \in 1 .. m |-> seqs(m + 1)[k]]) \in Seq(Tokens)
    <3> HIDE DEF seqs
    <3> QED
      BY <2>3, FlattenAppend
  <2>7. FlattenSeq(seqs(m + 1)) = FlattenSeq([k \in 1 .. m |-> seqs(m + 1)[k]]) \o seqs(m + 1)[m + 1]
    <3> HIDE DEF seqs
    <3> QED
      BY <2>3, FlattenAppend
  <2>8. FlattenSeq(seqs(m)) \in Text /\ FlattenSeq(seqs(m + 1)) = FlattenSeq(seqs(m)) \o Added(raw[j + 1])
    <3> HIDE DEF seqs
    <3> QED
      BY <2>4, <2>5, <2>6, <2>7 DEF Text
  <2>9. j \in i .. n /\ j + 1 \in i .. n
    BY <1>1
  <2>10. Unfolded(raw, i, j) = FlattenSeq(seqs(m)) /\ Unfolded(raw, i, j + 1) = FlattenSeq(seqs(m + 1))
    <3> HIDE DEF seqs
    <3> QED
      BY <1>2, <2>1, <2>2, <2>9
  <2> HIDE DEF seqs
  <2> QED
    BY <2>8, <2>10
<1>6. Unfolded(raw, i, i) = raw[i]
  <2>1. i \in i .. n /\ i - i + 1 = 1 /\ 1 \in 1 .. n - i + 1
    BY <1>1
  <2>2. seqs(1) \in [1 .. 1 -> Seq(Tokens)] /\ seqs(1)[1] = raw[i]
    BY <1>4, <2>1 DEF Text
  <2>3. Unfolded(raw, i, i) = FlattenSeq(seqs(1))
    <3> HIDE DEF seqs
    <3> QED
      BY <1>2, <2>1
  <2> HIDE DEF seqs
  <2> QED
    BY <2>2, <2>3, FlattenOne
<1>7. ASSUME NEW j \in i .. n PROVE Unfolded(raw, i, j) \in Text
  <2>1. CASE j = i
    BY <1>1, <1>6, <2>1
  <2>2. CASE j # i
    <3>1. PICK k \in i .. n - 1 : j = k + 1
      BY <1>1, <2>2
    <3>2. Unfolded(raw, i, k) \in Text /\ Unfolded(raw, i, k + 1) = Unfolded(raw, i, k) \o Added(raw[k + 1])
      BY <1>5
    <3>3. k + 1 \in 1 .. n
      BY <1>1
    <3>4. Added(raw[k + 1]) \in Text
      BY <1>1, <3>3, AddedText
    <3>5. \A s, t \in Text : s \o t \in Text
      BY DEF Text
    <3> QED
      BY <3>1, <3>2, <3>4, <3>5
  <2> QED
    BY <2>1, <2>2
<1> QED
  BY <1>1, <1>5, <1>6, <1>7

\* A field ends where the continuation lines do.
LEMMA LastLine ==
  ASSUME NEW raw, NEW n \in Nat, Len(raw) = n, NEW i \in 1 .. n, NEW j \in i .. n,
         \A k \in i + 1 .. j : IsContinuation(raw[k]),
         j < n => ~IsContinuation(raw[j + 1])
  PROVE  LastOfField(raw, i) = j
<1> DEFINE Ends(l) == /\ \A k \in i + 1 .. l : IsContinuation(raw[k])
                      /\ l < n => ~IsContinuation(raw[l + 1])
<1>1. LastOfField(raw, i) = CHOOSE l \in i .. n : Ends(l)
  BY DEF LastOfField
<1>2. Ends(j)
  OBVIOUS
<1>3. ASSUME NEW l \in i .. n, Ends(l) PROVE l = j
  <2>1. CASE l < j
    <3>1. l + 1 \in i + 1 .. j /\ l < n
      BY <2>1
    <3> QED
      BY <1>3, <3>1
  <2>2. CASE j < l
    <3>1. j + 1 \in i + 1 .. l /\ j < n
      BY <2>2
    <3> QED
      BY <1>3, <3>1
  <2> QED
    BY <2>1, <2>2
<1> HIDE DEF Ends
<1> QED
  BY <1>1, <1>2, <1>3

\* The last line of the j-th of m fields that begin at the lines f[1] .. f[m],
\* when k lines have been read; f[0] = 0 stands for what precedes the first.
EndOf(f, m, k, j) == IF j < m THEN f[j + 1] - 1 ELSE k

\* After k lines of the header, lines are the fields that have begun.
Begun(lines, f, k, raw) ==
  /\ f \in [0 .. Len(lines) -> 0 .. k] /\ f[0] = 0
  /\ \A j \in 1 .. Len(lines) :
       /\ f[j - 1] < f[j]
       /\ ~IsContinuation(raw[f[j]])
       /\ lines[j] = Unfolded(raw, f[j], EndOf(f, Len(lines), k, j))
  /\ \A j \in 0 .. Len(lines) :
       \A i \in f[j] + 1 .. EndOf(f, Len(lines), k, j) : IsContinuation(raw[i])

\* A line goes to the last field or begins a new one.
LEMMA BegunStep ==
  ASSUME NEW raw \in Seq(Text), NEW k \in Nat, k < Len(raw), NEW lines \in Seq(Text),
         NEW f, Begun(lines, f, k, raw)
  PROVE  \E g : Begun(AddLine(lines, raw[k + 1]), g, k + 1, raw)
<1>1. PICK n \in Nat : n = Len(raw) /\ raw \in [1 .. n -> Text] /\ k + 1 \in 1 .. n
  OBVIOUS
<1>2. PICK m \in Nat : m = Len(lines) /\ (lines = << >> <=> m = 0)
  BY EmptySeq
<1>3. f \in [0 .. m -> 0 .. k] /\ f[0] = 0
  BY <1>2 DEF Begun
<1>4. \A j \in 1 .. m : /\ f[j - 1] < f[j] /\ ~IsContinuation(raw[f[j]])
                        /\ lines[j] = Unfolded(raw, f[j], EndOf(f, m, k, j))
  BY <1>2 DEF Begun
<1>5. \A j \in 0 .. m : \A i \in f[j] + 1 .. EndOf(f, m, k, j) : IsContinuation(raw[i])
  BY <1>2 DEF Begun
<1> DEFINE line == raw[k + 1]
           new  == AddLine(lines, line)
<1>6. line \in Text
  BY <1>1
<1>7. CASE IsContinuation(line)
  <2>1. Len(new) = m
    BY <1>2, <1>6, <1>7, AddLineType
  <2>2. f \in [0 .. m -> 0 .. k + 1]
    BY <1>3
  <2>3. ASSUME NEW j \in 1 .. m PROVE new[j] = Unfolded(raw, f[j], EndOf(f, m, k + 1, j))
    <3>1. new[j] = IF j = m THEN lines[j] \o Added(line) ELSE lines[j]
      <4>1. lines # << >>
        BY <1>2
      <4>2. \A l \in 1 .. Len(lines) : new[l] =
              IF l = Len(lines) THEN lines[l] \o Added(line) ELSE lines[l]
        <5> HIDE DEF line, new
        <5> QED
          BY <4>1, <1>6, <1>7, AddLineType DEF new, Added
      <4> HIDE DEF line, new
      <4> QED
        BY <4>2, <1>2
    <3>2. CASE j = m
      <4>1. f[j] \in 1 .. k
        <5>1. j \in 0 .. m /\ j - 1 \in 0 .. m /\ f[j - 1] < f[j]
          BY <1>4
        <5>2. f[j] \in 0 .. k /\ f[j - 1] \in 0 .. k
          BY <1>3, <5>1
        <5> QED
          BY <5>1, <5>2
      <4>2. f[j] \in 1 .. Len(raw) /\ k \in f[j] .. Len(raw) - 1
        BY <1>1, <4>1
      <4>3. lines[j] = Unfolded(raw, f[j], k)
        BY <1>4, <3>2 DEF EndOf
      <4>4. Unfolded(raw, f[j], k + 1) = lines[j] \o Added(line)
        BY <4>2, <4>3, UnfoldedLines
      <4>5. EndOf(f, m, k + 1, j) = k + 1
        BY <3>2 DEF EndOf
      <4>6. new[j] = lines[j] \o Added(line)
        <5> HIDE DEF new
        <5> QED
          BY <3>1, <3>2
      <4> HIDE DEF new, line
      <4> QED
        BY <4>4, <4>5, <4>6
    <3>3. CASE j # m
      <4>1. j < m
        BY <3>3
      <4>2. EndOf(f, m, k + 1, j) = EndOf(f, m, k, j)
        BY <4>1 DEF EndOf
      <4>3. new[j] = lines[j]
        BY <3>1, <3>3
      <4> QED
        BY <1>4, <4>2, <4>3
    <3> QED
      BY <3>2, <3>3
  <2>4. ASSUME NEW j \in 0 .. m, NEW i \in f[j] + 1 .. EndOf(f, m, k + 1, j)
        PROVE  IsContinuation(raw[i])
    <3>1. CASE i = k + 1
      BY <1>7, <3>1
    <3>2. CASE i # k + 1
      <4>1. f[j] \in 0 .. k
        BY <1>3
      <4>2. j < m => f[j + 1] \in 0 .. k
        BY <1>3
      <4>3. i \in f[j] + 1 .. EndOf(f, m, k, j)
        BY <3>2, <4>1, <4>2 DEF EndOf
      <4> QED
        BY <1>5, <4>3
    <3> QED
      BY <3>1, <3>2
  <2> HIDE DEF new
  <2>5. Begun(new, f, k + 1, raw)
    BY <1>3, <1>4, <2>1, <2>2, <2>3, <2>4 DEF Begun
  <2> QED
    BY <2>5 DEF new
<1>8. CASE ~IsContinuation(line)
  <2> DEFINE g == [j \in 0 .. m + 1 |-> IF j = m + 1 THEN k + 1 ELSE f[j]]
  <2>1. /\ Len(new) = m + 1
        /\ \A j \in 1 .. m : new[j] = lines[j]
        /\ new[m + 1] = line
    BY <1>2, <1>6, <1>8, AddLineType
  <2>2. \A j \in 0 .. m : f[j] \in 0 .. k /\ g[j] = f[j]
    BY <1>3
  <2>3. g[m + 1] = k + 1
    OBVIOUS
  <2>4. g \in [0 .. m + 1 -> 0 .. k + 1]
    <3>1. \A j \in 0 .. m + 1 : (IF j = m + 1 THEN k + 1 ELSE f[j]) \in 0 .. k + 1
      BY <1>3
    <3> QED
      BY <3>1
  <2> HIDE DEF g, new
  <2>5. \A j \in 0 .. m : EndOf(g, m + 1, k + 1, j) = EndOf(f, m, k, j)
    <3> TAKE j \in 0 .. m
    <3>1. CASE j = m
      BY <2>3, <3>1 DEF EndOf
    <3>2. CASE j # m
      <4>1. j + 1 \in 0 .. m /\ j < m /\ j < m + 1
        BY <3>2
      <4> QED
        BY <2>2, <4>1 DEF EndOf
    <3> QED
      BY <3>1, <3>2
  <2>6. EndOf(g, m + 1, k + 1, m + 1) = k + 1
    BY DEF EndOf
  <2>7. ASSUME NEW j \in 1 .. m + 1
        PROVE  /\ g[j - 1] < g[j] /\ ~IsContinuation(raw[g[j]])
               /\ new[j] = Unfolded(raw, g[j], EndOf(g, m + 1, k + 1, j))
    <3>1. CASE j = m + 1
      <4>1. j - 1 \in 0 .. m /\ g[j - 1] = f[m] /\ f[m] \in 0 .. k
        BY <2>2, <3>1
      <4>2. k + 1 \in 1 .. Len(raw)
        BY <1>1
      <4>3. Unfolded(raw, k + 1, k + 1) = line
        BY <4>2, UnfoldedLines
      <4> QED
        BY <1>8, <2>1, <2>3, <2>6, <3>1, <4>1, <4>3
    <3>2. CASE j # m + 1
      <4>1. j \in 1 .. m /\ j \in 0 .. m /\ j - 1 \in 0 .. m
        BY <3>2
      <4> QED
        BY <1>4, <2>1, <2>2, <2>5, <4>1
    <3> QED
      BY <3>1, <3>2
  <2>8. ASSUME NEW j \in 0 .. m + 1, NEW i \in g[j] + 1 .. EndOf(g, m + 1, k + 1, j)
        PROVE  IsContinuation(raw[i])
    <3>1. CASE j = m + 1
      BY <2>3, <2>6, <3>1
    <3>2. CASE j # m + 1
      <4>1. j \in 0 .. m
        BY <3>2
      <4> QED
        BY <1>5, <2>2, <2>5, <4>1
    <3> QED
      BY <3>1, <3>2
  <2>9. g[0] = 0
    BY <1>3, <2>2
  <2>10. Begun(new, g, k + 1, raw)
    BY <2>1, <2>4, <2>7, <2>8, <2>9 DEF Begun
  <2> QED
    BY <2>10 DEF new
<1> QED
  BY <1>7, <1>8

\* The first pass ends with the fields of the header.
LEMMA FieldsBegun ==
  ASSUME NEW raw \in Seq(Text)
  PROVE  \E n \in 0 .. Len(raw) :
           /\ \A i \in 1 .. n : raw[i] # << >>
           /\ n < Len(raw) => raw[n + 1] = << >>
           /\ Unfold(raw) \in Seq(Text)
           /\ \E f : Begun(Unfold(raw), f, n, raw)
<1>1. PICK n \in Nat : n = Len(HeaderLines(raw)) /\ HeaderIs(HeaderLines(raw), n, raw)
  BY HeaderPart DEF HeaderIs
<1>2. /\ n \in 0 .. Len(raw)
      /\ \A i \in 1 .. n : HeaderLines(raw)[i] \in Text /\ HeaderLines(raw)[i] = raw[i] /\ raw[i] # << >>
      /\ n < Len(raw) => raw[n + 1] = << >>
  BY <1>1 DEF HeaderIs
<1>3. PICK run : Unfolds(run, n, HeaderLines(raw)) /\ Unfold(raw) = run[n]
  BY <1>1, <1>2, Unfolding
<1>4. /\ run \in [0 .. n -> Seq(Text)] /\ run[0] = << >>
      /\ \A k \in 1 .. n : run[k] = AddLine(run[k - 1], raw[k])
  BY <1>2, <1>3 DEF Unfolds
<1> DEFINE T == {k \in Nat : \E f : Begun(run[k], f, k, raw)}
<1>5. 0 \in T
  <2> DEFINE f == [j \in 0 .. 0 |-> 0]
  <2>1. Len(run[0]) = 0
    BY <1>4
  <2>2. f \in [0 .. 0 -> 0 .. 0] /\ f[0] = 0
    OBVIOUS
  <2>3. EndOf(f, 0, 0, 0) = 0
    BY DEF EndOf
  <2>4. \A i \in f[0] + 1 .. EndOf(f, 0, 0, 0) : FALSE
    BY <2>2, <2>3
  <2>5. \A j \in 0 .. 0 : j = 0
    OBVIOUS
  <2>6. \A j \in 1 .. 0 : FALSE
    OBVIOUS
  <2> HIDE DEF f
  <2>7. Begun(run[0], f, 0, raw)
    BY <2>1, <2>2, <2>4, <2>5, <2>6 DEF Begun
  <2> QED
    BY <2>7
<1>6. ASSUME NEW k \in 0 .. n, k < n, k \in T PROVE k + 1 \in T
  <2>1. PICK f : Begun(run[k], f, k, raw)
    BY <1>6
  <2>2. run[k] \in Seq(Text)
    BY <1>4
  <2>3. k \in Nat /\ k < Len(raw) /\ k + 1 \in 1 .. n /\ (k + 1) - 1 = k
    BY <1>2, <1>6
  <2>4. \E g : Begun(AddLine(run[k], raw[k + 1]), g, k + 1, raw)
    BY <2>1, <2>2, <2>3, BegunStep
  <2>5. run[k + 1] = AddLine(run[k], raw[k + 1])
    BY <1>4, <2>3
  <2> QED
    BY <2>3, <2>4, <2>5
<1>7. \A k \in 0 .. n : k \in T
  <2> HIDE DEF T
  <2> QED
    BY <1>5, <1>6, BoundedInduction
<1>8. n \in 0 .. n /\ n \in T
  BY <1>7
<1>9. Unfold(raw) \in Seq(Text) /\ \E f : Begun(Unfold(raw), f, n, raw)
  BY <1>3, <1>4, <1>8
<1> QED
  BY <1>2, <1>9

\* A line after the first pass is the text of a field.
LEMMA LineOfField ==
  ASSUME NEW raw \in Seq(Text), NEW n \in 0 .. Len(raw), n < Len(raw) => raw[n + 1] = << >>,
         NEW lines \in Seq(Text), NEW f, Begun(lines, f, n, raw), NEW j \in 1 .. Len(lines)
  PROVE  /\ f[j] \in 1 .. n
         /\ ~IsContinuation(raw[f[j]])
         /\ FieldText(raw, f[j]) = lines[j]
<1>1. PICK m \in Nat : m = Len(lines) /\ j \in 1 .. m
  OBVIOUS
<1>2. f \in [0 .. m -> 0 .. n]
  BY <1>1 DEF Begun
<1>3. \A l \in 1 .. m : /\ f[l - 1] < f[l] /\ ~IsContinuation(raw[f[l]])
                        /\ lines[l] = Unfolded(raw, f[l], EndOf(f, m, n, l))
  BY <1>1 DEF Begun
<1>4. \A l \in 0 .. m : \A i \in f[l] + 1 .. EndOf(f, m, n, l) : IsContinuation(raw[i])
  BY <1>1 DEF Begun
<1>5. f[j] \in 1 .. n
  <2>1. j - 1 \in 0 .. m /\ j \in 0 .. m /\ f[j - 1] < f[j]
    BY <1>1, <1>3
  <2>2. f[j - 1] \in 0 .. n /\ f[j] \in 0 .. n
    BY <1>2, <2>1
  <2> QED
    BY <2>1, <2>2
<1>6. PICK e : e = EndOf(f, m, n, j)
  OBVIOUS
<1>7. e \in f[j] .. Len(raw) /\ (e < Len(raw) => ~IsContinuation(raw[e + 1]))
  <2>1. CASE j < m
    <3>1. j + 1 \in 0 .. m /\ j + 1 \in 1 .. m /\ (j + 1) - 1 = j
      BY <1>1, <2>1
    <3>2. f[j + 1] \in 0 .. n /\ f[j] < f[j + 1] /\ ~IsContinuation(raw[f[j + 1]])
      BY <1>2, <1>3, <3>1
    <3>3. e = f[j + 1] - 1
      BY <1>6, <2>1 DEF EndOf
    <3>4. e + 1 = f[j + 1] /\ e \in f[j] .. Len(raw)
      BY <1>5, <3>2, <3>3
    <3> QED
      BY <3>2, <3>4
  <2>2. CASE ~(j < m)
    <3>1. e = n
      BY <1>6, <2>2 DEF EndOf
    <3>2. ~IsContinuation(<< >>)
      BY DEF IsContinuation
    <3> QED
      BY <1>5, <3>1, <3>2
  <2> QED
    BY <2>1, <2>2
<1>8. \A i \in f[j] + 1 .. e : IsContinuation(raw[i])
  BY <1>1, <1>4, <1>6
<1>9. LastOfField(raw, f[j]) = e
  <2>1. PICK len \in Nat : len = Len(raw)
    OBVIOUS
  <2>2. PICK i \in 1 .. len : i = f[j]
    BY <1>5, <2>1
  <2> QED
    BY <1>7, <1>8, <2>1, <2>2, LastLine
<1> QED
  BY <1>1, <1>3, <1>5, <1>6, <1>9 DEF FieldText

\* Every line of the header that is no continuation begins a field.
LEMMA FieldFound ==
  ASSUME NEW raw, NEW n \in Nat, NEW lines \in Seq(Text), NEW f, Begun(lines, f, n, raw),
         NEW i \in 1 .. n, ~IsContinuation(raw[i])
  PROVE  \E j \in 1 .. Len(lines) : f[j] = i
<1>1. PICK m \in Nat : m = Len(lines)
  OBVIOUS
<1>2. f \in [0 .. m -> 0 .. n] /\ f[0] = 0
  BY <1>1 DEF Begun
<1>3. \A l \in 0 .. m : \A h \in f[l] + 1 .. EndOf(f, m, n, l) : IsContinuation(raw[h])
  BY <1>1 DEF Begun
<1> SUFFICES ASSUME \A j \in 1 .. m : f[j] # i PROVE FALSE
  BY <1>1
<1> DEFINE T == {j \in Nat : f[j] < i}
<1>4. 0 \in T
  BY <1>2
<1>5. ASSUME NEW j \in 0 .. m, j < m, j \in T PROVE j + 1 \in T
  <2>1. f[j] \in 0 .. n /\ f[j] < i /\ j + 1 \in 0 .. m /\ j + 1 \in 1 .. m
    BY <1>2, <1>5
  <2>2. f[j + 1] \in 0 .. n /\ f[j + 1] # i
    BY <1>2, <2>1
  <2>3. EndOf(f, m, n, j) = f[j + 1] - 1
    BY <1>5 DEF EndOf
  <2>4. ASSUME f[j + 1] > i PROVE FALSE
    <3>1. i \in f[j] + 1 .. EndOf(f, m, n, j)
      BY <2>1, <2>2, <2>3, <2>4
    <3> QED
      BY <1>3, <3>1
  <2>5. f[j + 1] < i
    BY <2>2, <2>4
  <2> QED
    BY <2>1, <2>5
<1>6. \A j \in 0 .. m : j \in T
  <2> HIDE DEF T
  <2> QED
    BY <1>4, <1>5, BoundedInduction
<1>7. f[m] < i /\ f[m] \in 0 .. n /\ m \in 0 .. m
  BY <1>2, <1>6
<1>8. EndOf(f, m, n, m) = n
  BY DEF EndOf
<1>9. i \in f[m] + 1 .. EndOf(f, m, n, m)
  BY <1>7, <1>8
<1> QED
  BY <1>3, <1>7, <1>9

\* The lines after the first pass, and the fields they are.
Fields(f, lines, raw) ==
  /\ lines \in Seq(Text)
  /\ f \in [0 .. Len(lines) -> 0 .. Len(raw)] /\ f[0] = 0
  /\ \A j \in 1 .. Len(lines) :
       /\ f[j - 1] < f[j]
       /\ \A name : f[j] \in FieldsOf(name, raw) <=> Colon(lines[j]) # 0 /\ Name(lines[j]) = name
       /\ Colon(lines[j]) # 0 => Body(raw, f[j]) = Value(lines[j])
  /\ \A name : \A i \in FieldsOf(name, raw) : \E j \in 1 .. Len(lines) : f[j] = i

LEMMA FieldsUnfolded ==
  ASSUME NEW raw \in Seq(Text)
  PROVE  \E f : Fields(f, Unfold(raw), raw)
<1> DEFINE lines == Unfold(raw)
<1>1. PICK n \in 0 .. Len(raw) :
        /\ \A i \in 1 .. n : raw[i] # << >>
        /\ n < Len(raw) => raw[n + 1] = << >>
        /\ lines \in Seq(Text)
        /\ \E f : Begun(lines, f, n, raw)
  BY FieldsBegun
<1>2. PICK f : Begun(lines, f, n, raw)
  BY <1>1
<1> HIDE DEF lines
<1>3. f \in [0 .. Len(lines) -> 0 .. Len(raw)] /\ f[0] = 0
  BY <1>2 DEF Begun
<1>4. \A j \in 1 .. Len(lines) : f[j - 1] < f[j]
  BY <1>2 DEF Begun
<1>5. ASSUME NEW j \in 1 .. Len(lines)
      PROVE  /\ \A name : f[j] \in FieldsOf(name, raw) <=> Colon(lines[j]) # 0 /\ Name(lines[j]) = name
             /\ Colon(lines[j]) # 0 => Body(raw, f[j]) = Value(lines[j])
  <2>1. PICK i \in 1 .. n : i = f[j] /\ ~IsContinuation(raw[i]) /\ FieldText(raw, i) = lines[j]
    <3>1. n < Len(raw) => raw[n + 1] = << >>
      BY <1>1
    <3>2. lines \in Seq(Text)
      BY <1>1
    <3>3. f[j] \in 1 .. n /\ ~IsContinuation(raw[f[j]]) /\ FieldText(raw, f[j]) = lines[j]
      BY <1>2, <3>1, <3>2, LineOfField
    <3> QED
      BY <3>3, Zenon
  <2>2. PICK line \in Text : line = lines[j]
    BY <1>1
  <2>3. \A h \in 1 .. i : raw[h] # << >>
    BY <1>1
  <2>4. i \in DOMAIN raw
    OBVIOUS
  <2>5. /\ Colon(line) # 0 => Colon(line) \in DOMAIN line /\ Divides(Colon(line), line)
        /\ \A c \in DOMAIN line : Divides(c, line) => c = Colon(line) /\ c # 0
    <3>1. \A c \in DOMAIN line : c # 0
      BY DEF Text
    <3> QED
      BY <3>1, ColonDivides
  <2>6. ASSUME NEW name
        PROVE  IsFieldOf(name, raw, i) <=> Colon(line) # 0 /\ Name(line) = name
    BY <2>1, <2>2, <2>3, <2>5 DEF IsFieldOf, Name
  <2>7. Colon(line) # 0 => Body(raw, i) = Value(line)
    <3>1. ASSUME Colon(line) # 0
          PROVE  (CHOOSE d \in DOMAIN line : Divides(d, line)) = Colon(line)
      BY <2>5, <3>1
    <3> QED
      BY <2>1, <2>2, <3>1 DEF Body, Value
  <2> QED
    BY <2>1, <2>2, <2>4, <2>6, <2>7 DEF FieldsOf
<1>6. ASSUME NEW name, NEW i \in FieldsOf(name, raw)
      PROVE  \E j \in 1 .. Len(lines) : f[j] = i
  <2>1. i \in 1 .. Len(raw) /\ (\A h \in 1 .. i : raw[h] # << >>) /\ ~IsContinuation(raw[i])
    BY DEF FieldsOf, IsFieldOf
  <2>2. i \in 1 .. n
    BY <1>1, <2>1
  <2> QED
    BY <1>1, <1>2, <2>1, <2>2, FieldFound
<1>7. Fields(f, lines, raw)
  BY <1>1, <1>3, <1>4, <1>5, <1>6 DEF Fields
<1> QED
  BY <1>7 DEF lines

-----------------------------------------------------------------------------
(* The second pass                                                         *)

\* Maps from field names to values.
HeaderMaps == UNION {[names -> Text] : names \in SUBSET Text}

\* What stands between the values of two fields of a name.
Comma == <<",", " ">>

LEMMA CommaText == Comma \in Text
<1>1. \A x, y \in Tokens : <<x, y>> \in Seq(Tokens)
  OBVIOUS
<1> QED
  BY <1>1, RulesConstants DEF Comma, Text

\* What a line enters.
LEMMA EnterType ==
  ASSUME NEW h \in HeaderMaps, NEW line \in Text
  PROVE  /\ Enter(h, line) \in HeaderMaps
         /\ Colon(line) = 0 => Enter(h, line) = h
         /\ Colon(line) # 0 =>
              /\ DOMAIN Enter(h, line) = DOMAIN h \cup {Name(line)}
              /\ \A key \in DOMAIN Enter(h, line) : Enter(h, line)[key] =
                   IF key # Name(line) THEN h[key]
                   ELSE IF key \in DOMAIN h THEN h[key] \o Comma \o Value(line)
                   ELSE Value(line)
<1>1. CASE Colon(line) = 0
  BY <1>1 DEF Enter
<1>2. CASE Colon(line) # 0
  <2> DEFINE entry(key) == IF key # Name(line) THEN h[key]
                           ELSE IF key \in DOMAIN h THEN h[key] \o Comma \o Value(line)
                           ELSE Value(line)
             names == DOMAIN h \cup {Name(line)}
  <2>1. Name(line) \in Text /\ Value(line) \in Text
    BY <1>2, NameValueText
  <2>2. Enter(h, line) = [key \in names |-> entry(key)]
    BY <1>2 DEF Enter, Comma
  <2>3. DOMAIN h \subseteq Text /\ \A key \in DOMAIN h : h[key] \in Text
    BY DEF HeaderMaps
  <2>4. \A s, t, u \in Text : s \o t \o u \in Text
    BY DEF Text
  <2>5. \A key \in names : entry(key) \in Text
    BY <2>1, <2>3, <2>4, CommaText
  <2>6. names \in SUBSET Text
    BY <2>1, <2>3
  <2> HIDE DEF entry, names
  <2>7. [key \in names |-> entry(key)] \in [names -> Text]
    BY <2>5
  <2>8. Enter(h, line) \in HeaderMaps
    BY <2>2, <2>6, <2>7 DEF HeaderMaps
  <2> QED
    BY <1>2, <2>2, <2>8 DEF entry, names
<1> QED
  BY <1>1, <1>2

\* The states of the second pass.
Enters(run, n, lines) ==
  /\ run \in [0 .. n -> HeaderMaps]
  /\ DOMAIN run[0] = {}
  /\ \A k \in 1 .. n : run[k] = Enter(run[k - 1], lines[k])

LEMMA Parsing ==
  ASSUME NEW raw, NEW n \in Nat, n = Len(Unfold(raw)), \A k \in 1 .. n : Unfold(raw)[k] \in Text
  PROVE  \E run : Enters(run, n, Unfold(raw)) /\ ParseHeaders(raw) = run[n]
<1> DEFINE lines == Unfold(raw)
           D == HeaderMaps
           base == [key \in {} |-> << >>]
           g == [p \in D \X (1 .. n) |-> Enter(p[1], lines[p[2]])]
           Sound(f) == f = [k \in 0 .. n |-> IF k = 0 THEN base ELSE Enter(f[k - 1], lines[k])]
           f == CHOOSE f : Sound(f)
<1>1. base \in D /\ DOMAIN base = {}
  <2>1. base \in [{} -> Text] /\ {} \in SUBSET Text
    OBVIOUS
  <2> QED
    BY <2>1 DEF HeaderMaps
<1> HIDE DEF base
<1>2. \A d \in D, k \in 1 .. n : Enter(d, lines[k]) \in D
  BY EnterType
<1> HIDE DEF D
<1>3. g \in [D \X (1 .. n) -> D]
  <2> HIDE DEF lines
  <2> QED
    BY <1>2
<1>4. \A d \in D, k \in 1 .. n : g[<<d, k>>] = Enter(d, lines[k])
  OBVIOUS
<1>5. PICK run : Follows(run, D, base, n, g)
  <2> HIDE DEF g
  <2> QED
    BY <1>1, <1>3, Recursion
<1>6. Sound(run)
  <2>1. run \in [0 .. n -> D] /\ run[0] = base /\ \A k \in 1 .. n : run[k] = g[<<run[k - 1], k>>]
    BY <1>5 DEF Follows
  <2>2. \A k \in 1 .. n : run[k] = Enter(run[k - 1], lines[k])
    <3> TAKE k \in 1 .. n
    <3>1. k - 1 \in 0 .. n
      OBVIOUS
    <3>2. run[k - 1] \in D
      BY <2>1, <3>1
    <3> HIDE DEF g, lines
    <3> QED
      BY <1>4, <2>1, <3>2
  <2>3. \A k \in 0 .. n : run[k] = IF k = 0 THEN base ELSE Enter(run[k - 1], lines[k])
    <3> TAKE k \in 0 .. n
    <3>1. k # 0 => k \in 1 .. n
      OBVIOUS
    <3> HIDE DEF g, lines
    <3> QED
      BY <2>1, <2>2, <3>1
  <2> HIDE DEF g, lines
  <2> QED
    BY <2>1, <2>3
<1>7. Sound(f)
  <2> HIDE DEF Sound
  <2> QED
    BY <1>6
<1>8. ParseHeaders(raw) = f[n]
  BY DEF ParseHeaders, base
<1> HIDE DEF f
<1>9. f[0] = base /\ \A k \in 1 .. n : f[k] = Enter(f[k - 1], lines[k])
  <2>1. \A k \in 0 .. n : f[k] = IF k = 0 THEN base ELSE Enter(f[k - 1], lines[k])
    <3> HIDE DEF lines
    <3> QED
      BY <1>7
  <2>2. 0 \in 0 .. n /\ \A k \in 1 .. n : k \in 0 .. n /\ k # 0
    OBVIOUS
  <2> HIDE DEF lines
  <2> QED
    BY <2>1, <2>2
<1>10. \A k \in 0 .. n : f[k] \in D
  <2> DEFINE T == {m \in Nat : f[m] \in D}
  <2>1. 0 \in T
    BY <1>1, <1>9
  <2>2. ASSUME NEW m \in 0 .. n, m < n, m \in T PROVE m + 1 \in T
    <3>1. m + 1 \in 1 .. n /\ (m + 1) - 1 = m /\ f[m] \in D
      BY <2>2
    <3>2. f[m + 1] = Enter(f[m], lines[m + 1])
      BY <1>9, <3>1
    <3>3. f[m + 1] \in D
      <4> HIDE DEF lines
      <4> QED
        BY <1>2, <3>1, <3>2
    <3> QED
      BY <3>3
  <2>3. \A m \in 0 .. n : m \in T
    <3> HIDE DEF T
    <3> QED
      BY <2>1, <2>2, BoundedInduction
  <2> QED
    BY <2>3
<1>11. f \in [0 .. n -> D]
  <2>1. DOMAIN f = 0 .. n /\ f = [k \in DOMAIN f |-> f[k]]
    <3> HIDE DEF lines
    <3> QED
      BY <1>7
  <2> QED
    BY <1>10, <2>1
<1> QED
  BY <1>1, <1>8, <1>9, <1>11 DEF Enters, D

LEMMA Increasing ==
  ASSUME NEW m \in Nat, NEW f \in [0 .. m -> Nat], \A j \in 1 .. m : f[j - 1] < f[j]
  PROVE  \A a, b \in 0 .. m : a <= b => f[a] <= f[b]
<1> SUFFICES ASSUME NEW a \in 0 .. m PROVE \A b \in 0 .. m : a <= b => f[a] <= f[b]
  OBVIOUS
<1> DEFINE T == {b \in Nat : a <= b => f[a] <= f[b]}
<1>1. 0 \in T
  <2>1. a <= 0 => a = 0
    OBVIOUS
  <2> QED
    BY <2>1
<1>2. ASSUME NEW b \in 0 .. m, b < m, b \in T PROVE b + 1 \in T
  <2> SUFFICES ASSUME a <= b + 1 PROVE f[a] <= f[b + 1]
    OBVIOUS
  <2>1. CASE a = b + 1
    BY <2>1
  <2>2. CASE a # b + 1
    <3>1. a <= b /\ b + 1 \in 1 .. m /\ (b + 1) - 1 = b /\ b + 1 \in 0 .. m
      BY <1>2, <2>2
    <3>2. f[a] <= f[b] /\ f[b] < f[b + 1]
      BY <1>2, <3>1
    <3>3. f[a] \in Nat /\ f[b] \in Nat /\ f[b + 1] \in Nat
      BY <3>1
    <3> QED
      BY <3>2, <3>3
  <2> QED
    BY <2>1, <2>2
<1>3. \A b \in 0 .. m : b \in T
  <2> HIDE DEF T
  <2> QED
    BY <1>1, <1>2, BoundedInduction
<1> QED
  BY <1>3

\* Nothing is appended by parts that are empty.
LEMMA NothingAppended ==
  ASSUME NEW S, NEW n \in Nat, NEW parts, NEW v, Appends(v, S, n, parts),
         NEW a \in 0 .. n, NEW b \in 0 .. n, a <= b, \A i \in a + 1 .. b : parts[i] = << >>
  PROVE  v[b] = v[a]
<1>1. v \in [0 .. n -> Seq(S)] /\ \A i \in 1 .. n : v[i] = v[i - 1] \o parts[i]
  BY DEF Appends
<1> DEFINE T == {x \in Nat : a <= x => v[x] = v[a]}
<1>2. 0 \in T
  <2>1. a <= 0 => a = 0
    OBVIOUS
  <2> QED
    BY <2>1
<1>3. ASSUME NEW x \in 0 .. b, x < b, x \in T PROVE x + 1 \in T
  <2> SUFFICES ASSUME a <= x + 1 PROVE v[x + 1] = v[a]
    OBVIOUS
  <2>1. CASE a = x + 1
    BY <2>1
  <2>2. CASE a # x + 1
    <3>1. a <= x /\ x + 1 \in 1 .. n /\ (x + 1) - 1 = x /\ x + 1 \in a + 1 .. b /\ x \in 0 .. n
      BY <1>3, <2>2
    <3>2. v[x + 1] = v[x] \o << >>
      BY <1>1, <3>1
    <3>3. v[x] = v[a] /\ v[x] \in Seq(S)
      BY <1>1, <1>3, <3>1
    <3>4. \A s \in Seq(S) : s \o << >> = s
      OBVIOUS
    <3> QED
      BY <3>2, <3>3, <3>4
  <2> QED
    BY <2>1, <2>2
<1>4. \A x \in 0 .. b : x \in T
  <2> HIDE DEF T
  <2> QED
    BY <1>2, <1>3, BoundedInduction
<1>5. b \in 0 .. b
  OBVIOUS
<1> QED
  BY <1>4, <1>5

\* The parts Joined is made of.
Parts(name, raw) ==
  [i \in DOMAIN raw |->
     IF i \notin FieldsOf(name, raw) THEN << >>
     ELSE IF \E j \in FieldsOf(name, raw) : j < i THEN Comma \o Body(raw, i)
     ELSE Body(raw, i)]

LEMMA PartsText ==
  ASSUME NEW raw \in Seq(Text), NEW name, NEW f, Fields(f, Unfold(raw), raw)
  PROVE  /\ Joined(name, raw) = FlattenSeq(Parts(name, raw))
         /\ Parts(name, raw) \in Seq(Text) /\ Len(Parts(name, raw)) = Len(raw)
<1>1. PICK n \in Nat : n = Len(raw) /\ DOMAIN raw = 1 .. n
  OBVIOUS
<1>2. ASSUME NEW i \in FieldsOf(name, raw) PROVE Body(raw, i) \in Text
  <2>1. PICK j \in 1 .. Len(Unfold(raw)) : f[j] = i
    BY DEF Fields
  <2>2. Unfold(raw)[j] \in Text /\ Colon(Unfold(raw)[j]) # 0 /\ Body(raw, i) = Value(Unfold(raw)[j])
    BY <2>1 DEF Fields
  <2> QED
    BY <2>2, NameValueText
<1>3. << >> \in Text /\ \A s, t \in Text : s \o t \in Text
  BY DEF Text
<1>4. \A i \in 1 .. n : Parts(name, raw)[i] \in Text
  BY <1>1, <1>2, <1>3, CommaText DEF Parts
<1>5. Parts(name, raw) \in [1 .. n -> Text]
  BY <1>1, <1>4 DEF Parts
<1>6. Joined(name, raw) = FlattenSeq(Parts(name, raw))
  BY DEF Joined, Parts, Comma
<1>7. Parts(name, raw) \in Seq(Text) /\ Len(Parts(name, raw)) = n
  BY <1>5
<1> QED
  BY <1>1, <1>6, <1>7

\* h says of a name what the fields up to line i say; v[i] joins their bodies.
SoFar(name, raw, h, i, v) ==
  /\ name \in DOMAIN h <=> \E l \in FieldsOf(name, raw) : l <= i
  /\ v[i] = IF name \in DOMAIN h THEN h[name] ELSE << >>

\* One line of the second pass.
LEMMA EnterExact ==
  ASSUME NEW raw \in Seq(Text), NEW name, NEW v, Appends(v, Tokens, Len(raw), Parts(name, raw)),
         NEW h \in HeaderMaps, NEW line \in Text,
         NEW a \in 0 .. Len(raw), NEW i \in 1 .. Len(raw), a < i,
         i \in FieldsOf(name, raw) <=> Colon(line) # 0 /\ Name(line) = name,
         Colon(line) # 0 => Body(raw, i) = Value(line),
         \A l \in FieldsOf(name, raw) : ~(a < l /\ l < i),
         SoFar(name, raw, h, a, v)
  PROVE  SoFar(name, raw, Enter(h, line), i, v)
<1> DEFINE fields == FieldsOf(name, raw)
           new == Enter(h, line)
<1>1. PICK n \in Nat : n = Len(raw) /\ DOMAIN raw = 1 .. n /\ a \in 0 .. n /\ i \in 1 .. n
  OBVIOUS
<1>2. v \in [0 .. n -> Seq(Tokens)] /\ \A l \in 1 .. n : v[l] = v[l - 1] \o Parts(name, raw)[l]
  BY <1>1 DEF Appends
<1>3. fields \subseteq 1 .. n
  BY <1>1 DEF FieldsOf
<1>4. i - 1 \in 0 .. n /\ a <= i - 1
  BY <1>1
<1>5. v[i - 1] = v[a]
  <2>1. \A l \in a + 1 .. i - 1 : Parts(name, raw)[l] = << >>
    <3> TAKE l \in a + 1 .. i - 1
    <3>1. l \in 1 .. n /\ a < l /\ l < i
      BY <1>1
    <3>2. l \notin FieldsOf(name, raw)
      BY <3>1
    <3> QED
      BY <1>1, <3>1, <3>2 DEF Parts
  <2>2. Appends(v, Tokens, n, Parts(name, raw))
    BY <1>1
  <2>3. PICK b \in 0 .. n : b = i - 1
    BY <1>4
  <2>4. a <= b /\ \A l \in a + 1 .. b : Parts(name, raw)[l] = << >>
    BY <1>4, <2>1, <2>3
  <2>5. v[b] = v[a]
    BY <1>1, <2>2, <2>4, NothingAppended
  <2> QED
    BY <2>3, <2>5
<1>6. v[i] = v[a] \o Parts(name, raw)[i] /\ v[a] \in Seq(Tokens)
  BY <1>1, <1>2, <1>5
<1>7. name \in DOMAIN h <=> \E l \in fields : l < i
  <2>1. \A l \in fields : l <= a <=> l < i
    <3> TAKE l \in fields
    <3>1. l \in 1 .. n /\ ~(a < l /\ l < i)
      BY <1>3
    <3> QED
      BY <1>1, <3>1
  <2> HIDE DEF fields
  <2> QED
    BY <2>1 DEF SoFar, fields
<1>8. v[a] = IF name \in DOMAIN h THEN h[name] ELSE << >>
  BY DEF SoFar
<1>9. CASE i \in fields
  <2>1. Colon(line) # 0 /\ Name(line) = name /\ Body(raw, i) = Value(line)
    BY <1>9
  <2>2. Value(line) \in Text
    BY <2>1, NameValueText
  <2>3. name \in DOMAIN new
    <3>1. DOMAIN new = DOMAIN h \cup {Name(line)}
      BY <2>1, EnterType
    <3> QED
      BY <2>1, <3>1
  <2>4. new[name] = IF name \in DOMAIN h THEN h[name] \o Comma \o Value(line) ELSE Value(line)
    BY <2>1, <2>3, EnterType
  <2>5. Parts(name, raw)[i] = IF name \in DOMAIN h THEN Comma \o Value(line) ELSE Value(line)
    BY <1>1, <1>7, <1>9, <2>1 DEF Parts
  <2>6. v[i] = new[name]
    <3>1. \A s, t, u \in Seq(Tokens) : s \o (t \o u) = s \o t \o u
      OBVIOUS
    <3>2. \A s \in Seq(Tokens) : << >> \o s = s
      OBVIOUS
    <3>3. Comma \in Seq(Tokens) /\ Value(line) \in Seq(Tokens)
      BY <2>2, CommaText DEF Text
    <3>4. CASE name \in DOMAIN h
      <4>1. v[a] = h[name] /\ h[name] \in Seq(Tokens)
        BY <1>6, <1>8, <3>4
      <4>2. v[i] = v[a] \o (Comma \o Value(line))
        BY <1>6, <2>5, <3>4
      <4>3. new[name] = h[name] \o Comma \o Value(line)
        BY <2>4, <3>4
      <4>4. h[name] \o (Comma \o Value(line)) = h[name] \o Comma \o Value(line)
        BY <3>1, <3>3, <4>1
      <4> HIDE DEF new
      <4> QED
        BY <4>1, <4>2, <4>3, <4>4
    <3>5. CASE name \notin DOMAIN h
      <4>1. v[a] = << >>
        BY <1>8, <3>5
      <4>2. v[i] = << >> \o Value(line)
        BY <1>6, <2>5, <3>5, <4>1
      <4>3. new[name] = Value(line)
        BY <2>4, <3>5
      <4>4. << >> \o Value(line) = Value(line)
        BY <3>2, <3>3
      <4> HIDE DEF new
      <4> QED
        BY <4>2, <4>3, <4>4
    <3> QED
      BY <3>4, <3>5
  <2>7. \E l \in FieldsOf(name, raw) : l <= i
    BY <1>9
  <2> HIDE DEF new
  <2>8. SoFar(name, raw, new, i, v)
    BY <2>3, <2>6, <2>7 DEF SoFar
  <2> QED
    BY <2>8 DEF new
<1>10. CASE i \notin fields
  <2>1. /\ name \in DOMAIN new <=> name \in DOMAIN h
        /\ name \in DOMAIN h => new[name] = h[name]
    <3>1. CASE Colon(line) = 0
      BY <3>1, EnterType
    <3>2. CASE Colon(line) # 0
      <4>1. Name(line) # name
        BY <1>10, <3>2
      <4> QED
        BY <3>2, <4>1, EnterType
    <3> QED
      BY <3>1, <3>2
  <2>2. Parts(name, raw)[i] = << >>
    BY <1>1, <1>10 DEF Parts
  <2>3. v[i] = v[a]
    <3>1. \A s \in Seq(Tokens) : s \o << >> = s
      OBVIOUS
    <3> QED
      BY <1>6, <2>2, <3>1
  <2>4. (\E l \in fields : l < i) <=> \E l \in fields : l <= i
    <3>1. \A l \in fields : l < i <=> l <= i
      <4> TAKE l \in fields
      <4>1. l # i /\ l \in 1 .. n
        BY <1>3, <1>10
      <4> QED
        BY <1>1, <4>1
    <3> HIDE DEF fields
    <3> QED
      BY <3>1
  <2> HIDE DEF new
  <2>5. SoFar(name, raw, new, i, v)
    <3>1. name \in DOMAIN new <=> \E l \in FieldsOf(name, raw) : l <= i
      BY <1>7, <2>1, <2>4
    <3> QED
      BY <1>8, <2>1, <2>3, <3>1 DEF SoFar
  <2> QED
    BY <2>5 DEF new
<1> QED
  BY <1>9, <1>10

\* parse_headers says of every name what the header says.
THEOREM ParseExact ==
  ASSUME NEW raw \in Seq(Text), NEW name
  PROVE  /\ name \in DOMAIN ParseHeaders(raw) <=> FieldsOf(name, raw) # {}
         /\ FieldsOf(name, raw) # {} => ParseHeaders(raw)[name] = Joined(name, raw)
<1>1. PICK f : Fields(f, Unfold(raw), raw)
  BY FieldsUnfolded
<1> DEFINE lines == Unfold(raw)
           fields == FieldsOf(name, raw)
<1>2. lines \in Seq(Text)
  BY <1>1 DEF Fields
<1>3. PICK m \in Nat : m = Len(lines) /\ lines \in [1 .. m -> Text]
  BY <1>2
<1>4. PICK n \in Nat : n = Len(raw)
  OBVIOUS
<1>5. f \in [0 .. m -> 0 .. n] /\ f[0] = 0
  BY <1>1, <1>3, <1>4 DEF Fields
<1>6. \A j \in 1 .. m :
        /\ f[j - 1] < f[j]
        /\ f[j] \in fields <=> Colon(lines[j]) # 0 /\ Name(lines[j]) = name
        /\ Colon(lines[j]) # 0 => Body(raw, f[j]) = Value(lines[j])
  BY <1>1, <1>3 DEF Fields
<1>7. \A i \in fields : \E j \in 1 .. m : f[j] = i
  BY <1>1, <1>3 DEF Fields
<1>8. \A j, l \in 0 .. m : j <= l => f[j] <= f[l]
  <2>1. f \in [0 .. m -> Nat]
    BY <1>5
  <2> QED
    BY <1>6, <2>1, Increasing
<1>9. PICK h : Enters(h, m, lines) /\ ParseHeaders(raw) = h[m]
  <2>1. \A k \in 1 .. m : lines[k] \in Text
    BY <1>3
  <2> QED
    BY <1>3, <2>1, Parsing
<1>10. /\ h \in [0 .. m -> HeaderMaps] /\ DOMAIN h[0] = {}
       /\ \A k \in 1 .. m : h[k] = Enter(h[k - 1], lines[k])
  BY <1>9 DEF Enters
<1>11. /\ Joined(name, raw) = FlattenSeq(Parts(name, raw))
       /\ Parts(name, raw) \in Seq(Seq(Tokens)) /\ Len(Parts(name, raw)) = n
  BY <1>1, <1>4, PartsText DEF Text
<1>12. PICK v : Appends(v, Tokens, n, Parts(name, raw)) /\ Joined(name, raw) = v[n]
  BY <1>11, Flattening
<1>13. v[0] = << >>
  BY <1>12 DEF Appends
<1> HIDE DEF lines, fields
<1> DEFINE T == {j \in Nat : SoFar(name, raw, h[j], f[j], v)}
<1>14. 0 \in T
  <2>1. \A l \in fields : ~(l <= 0)
    BY <1>4 DEF fields, FieldsOf
  <2> QED
    BY <1>5, <1>10, <1>13, <2>1 DEF SoFar, fields
<1>15. ASSUME NEW j \in 0 .. m, j < m, j \in T PROVE j + 1 \in T
  <2>1. j + 1 \in 1 .. m /\ (j + 1) - 1 = j /\ j + 1 \in 0 .. m
    BY <1>15
  <2>2. h[j + 1] = Enter(h[j], lines[j + 1]) /\ h[j] \in HeaderMaps /\ lines[j + 1] \in Text
    BY <1>3, <1>10, <2>1
  <2>3. f[j] \in 0 .. n /\ f[j + 1] \in 0 .. n /\ f[j] < f[j + 1]
    BY <1>5, <1>6, <2>1
  <2>4. f[j + 1] \in 1 .. Len(raw) /\ f[j] \in 0 .. Len(raw)
    BY <1>4, <2>3
  <2>5. \A l \in fields : ~(f[j] < l /\ l < f[j + 1])
    <3> SUFFICES ASSUME NEW l \in fields, f[j] < l, l < f[j + 1] PROVE FALSE
      OBVIOUS
    <3>1. PICK k \in 1 .. m : f[k] = l
      BY <1>7
    <3>2. k \in 0 .. m /\ (k <= j \/ j + 1 <= k) /\ f[k] \in 0 .. n
      BY <1>5, <2>1
    <3>3. f[k] <= f[j] \/ f[j + 1] <= f[k]
      BY <1>8, <2>1, <3>2
    <3> QED
      BY <2>3, <3>1, <3>2, <3>3
  <2>6. /\ f[j + 1] \in fields <=> Colon(lines[j + 1]) # 0 /\ Name(lines[j + 1]) = name
        /\ Colon(lines[j + 1]) # 0 => Body(raw, f[j + 1]) = Value(lines[j + 1])
    BY <1>6, <2>1
  <2>7. SoFar(name, raw, h[j], f[j], v)
    BY <1>15
  <2>8. Appends(v, Tokens, Len(raw), Parts(name, raw))
    BY <1>4, <1>12
  <2>9. SoFar(name, raw, Enter(h[j], lines[j + 1]), f[j + 1], v)
    BY <2>2, <2>3, <2>4, <2>5, <2>6, <2>7, <2>8, EnterExact DEF fields
  <2> QED
    BY <2>1, <2>2, <2>9
<1>16. \A j \in 0 .. m : j \in T
  <2> HIDE DEF T
  <2> QED
    BY <1>14, <1>15, BoundedInduction
<1>17. SoFar(name, raw, h[m], f[m], v) /\ m \in 0 .. m /\ f[m] \in 0 .. n
  BY <1>5, <1>16
<1>18. \A l \in fields : l <= f[m] /\ l \in 1 .. n
  <2> TAKE l \in fields
  <2>1. PICK k \in 1 .. m : f[k] = l
    BY <1>7
  <2>2. k \in 0 .. m /\ k <= m /\ m \in 0 .. m
    OBVIOUS
  <2>3. f[k] <= f[m]
    BY <1>8, <2>2
  <2> QED
    BY <1>4, <2>1, <2>3 DEF fields, FieldsOf
<1>19. v[n] = v[f[m]]
  <2>1. \A i \in f[m] + 1 .. n : Parts(name, raw)[i] = << >>
    <3> TAKE i \in f[m] + 1 .. n
    <3>1. i \in 1 .. n /\ ~(i <= f[m])
      BY <1>17
    <3>2. i \notin fields
      BY <1>18, <3>1
    <3> QED
      BY <1>4, <3>1, <3>2 DEF Parts, fields
  <2>2. n \in 0 .. n /\ f[m] <= n
    BY <1>17
  <2>3. PICK a \in 0 .. n : a = f[m]
    BY <1>17
  <2>4. a <= n /\ \A i \in a + 1 .. n : Parts(name, raw)[i] = << >>
    BY <2>1, <2>2, <2>3
  <2>5. v[n] = v[a]
    <3>1. Appends(v, Tokens, n, Parts(name, raw))
      BY <1>12
    <3>2. PICK b \in 0 .. n : b = n
      BY <2>2
    <3>3. a <= b /\ \A i \in a + 1 .. b : Parts(name, raw)[i] = << >>
      BY <2>4, <3>2
    <3>4. v[b] = v[a]
      BY <3>1, <3>3, NothingAppended
    <3> QED
      BY <3>2, <3>4
  <2> QED
    BY <2>3, <2>5
<1>20. name \in DOMAIN h[m] <=> FieldsOf(name, raw) # {}
  BY <1>17, <1>18 DEF SoFar, fields
<1>21. name \in DOMAIN h[m] => h[m][name] = v[n]
  BY <1>17, <1>19 DEF SoFar
<1> QED
  BY <1>9, <1>12, <1>20, <1>21

-----------------------------------------------------------------------------
(* The sender                                                              *)

\* A name that one field has is given the body of that field.
LEMMA JoinedOne ==
  ASSUME NEW raw \in Seq(Text), NEW name, NEW i, FieldsOf(name, raw) = {i}
  PROVE  Joined(name, raw) = Body(raw, i) /\ Body(raw, i) \in Text
<1>1. PICK n \in Nat : n = Len(raw) /\ DOMAIN raw = 1 .. n
  OBVIOUS
<1>2. PICK k \in 1 .. n : k = i
  BY <1>1 DEF FieldsOf
<1>3. PICK f : Fields(f, Unfold(raw), raw)
  BY FieldsUnfolded
<1>4. /\ Joined(name, raw) = FlattenSeq(Parts(name, raw))
      /\ Parts(name, raw) \in Seq(Seq(Tokens)) /\ Len(Parts(name, raw)) = n
  BY <1>1, <1>3, PartsText DEF Text
<1>5. PICK v : Appends(v, Tokens, n, Parts(name, raw)) /\ Joined(name, raw) = v[n]
  BY <1>4, Flattening
<1>6. v[0] = << >> /\ \A l \in 1 .. n : v[l] = v[l - 1] \o Parts(name, raw)[l]
  BY <1>5 DEF Appends
<1>7. \A l \in 1 .. n : l # k => Parts(name, raw)[l] = << >>
  BY <1>1, <1>2 DEF Parts
<1>8. Parts(name, raw)[k] = Body(raw, i)
  BY <1>1, <1>2 DEF Parts
<1>9. PICK b \in 0 .. n : b = k - 1
  OBVIOUS
<1>10. v[b] = v[0]
  <2>1. PICK a \in 0 .. n : a = 0
    OBVIOUS
  <2>2. a <= b /\ \A l \in a + 1 .. b : Parts(name, raw)[l] = << >>
    BY <1>7, <1>9, <2>1
  <2>3. v[b] = v[a]
    BY <1>5, <2>2, NothingAppended
  <2> QED
    BY <2>1, <2>3
<1>11. v[n] = v[k]
  <2>1. PICK a \in 0 .. n : a = k
    OBVIOUS
  <2>2. PICK c \in 0 .. n : c = n
    OBVIOUS
  <2>3. a <= c /\ \A l \in a + 1 .. c : Parts(name, raw)[l] = << >>
    BY <1>7, <2>1, <2>2
  <2>4. v[c] = v[a]
    BY <1>5, <2>3, NothingAppended
  <2> QED
    BY <2>1, <2>2, <2>4
<1>12. Body(raw, i) \in Seq(Tokens)
  BY <1>4, <1>8
<1>13. \A s \in Seq(Tokens) : << >> \o s = s
  OBVIOUS
<1>14. v[k] = << >> \o Body(raw, i)
  BY <1>6, <1>8, <1>9, <1>10
<1> QED
  BY <1>5, <1>11, <1>12, <1>13, <1>14 DEF Text

\* A message that says who sent it has a sender mail can be sent from.
LEMMA SenderFound ==
  ASSUME case \in Cases, HasSender
  PROVE  SenderKind(EnvelopeFrom(case.raw, case.from)) = "address"
<1> DEFINE raw == case.raw
           headers == ParseHeaders(raw)
           paths == FieldsOf(ReturnPath, raw)
<1>1. raw \in Seq(Text)
  BY RulesConstants
<1>2. /\ ReturnPath \in DOMAIN headers <=> paths # {}
      /\ paths # {} => headers[ReturnPath] = Joined(ReturnPath, raw)
  <2> HIDE DEF raw
  <2> QED
    BY <1>1, ParseExact
<1>3. ASSUME NEW text, IsAddress(text)
      PROVE  text # << >> /\ SenderKind(<<text>>) = "address"
  <2>1. text # << >>
    BY <1>3 DEF IsAddress
  <2>2. <<text>> # << >> /\ <<text>>[1] = text
    OBVIOUS
  <2> QED
    BY <1>3, <2>1, <2>2 DEF SenderKind
<1>4. CASE \E i \in DOMAIN raw : /\ paths = {i}
                                 /\ Len(Body(raw, i)) = 5 /\ Body(raw, i)[1] = "<" /\ Body(raw, i)[5] = ">"
                                 /\ IsAddress(SubSeq(Body(raw, i), 2, 4))
  <2>1. PICK i : /\ paths = {i}
                 /\ Len(Body(raw, i)) = 5 /\ Body(raw, i)[1] = "<" /\ Body(raw, i)[5] = ">"
                 /\ IsAddress(SubSeq(Body(raw, i), 2, 4))
    BY <1>4
  <2>2. Joined(ReturnPath, raw) = Body(raw, i) /\ Body(raw, i) \in Text
    <3> HIDE DEF raw
    <3> QED
      BY <1>1, <2>1, JoinedOne
  <2>3. PICK body \in Text : body = Body(raw, i)
    BY <2>2
  <2>4. Trim(body) = body
    <3>1. Len(body) = 5 /\ body[1] = "<" /\ body[5] = ">"
      BY <2>1, <2>3
    <3>2. body # << >>
      BY <3>1, TextShape
    <3>3. body[1] # " " /\ body[Len(body)] # " "
      <4>1. body[1] # " "
        BY <3>1
      <4>2. body[Len(body)] = ">"
        BY <3>1
      <4> QED
        BY <4>1, <4>2
    <3> QED
      BY <3>2, <3>3, TrimText
  <2>5. Bare(body) = SubSeq(body, 2, 4)
    BY <2>1, <2>3 DEF Bare
  <2>6. ReturnPath \in DOMAIN headers /\ headers[ReturnPath] = body
    BY <1>2, <2>1, <2>2, <2>3
  <2> DEFINE path == SubSeq(body, 2, 4)
  <2>7. IsAddress(path)
    BY <2>1, <2>3
  <2>8. Bare(Trim(headers[ReturnPath])) = path
    BY <2>4, <2>5, <2>6
  <2> HIDE DEF path
  <2>9. EnvelopeFrom(case.raw, case.from) = <<path>>
    BY <1>3, <2>6, <2>7, <2>8 DEF EnvelopeFrom
  <2> QED
    BY <1>3, <2>7, <2>9
<1>5. CASE /\ paths = {} /\ case.from # << >> /\ case.from[1].host # << >>
           /\ IsAddress(case.from[1].mailbox \o <<"@">> \o case.from[1].host)
  <2>1. ReturnPath \notin DOMAIN headers
    BY <1>2, <1>5
  <2>2. EnvelopeFrom(case.raw, case.from) = <<AddrToString(case.from[1])>>
    BY <1>5, <2>1 DEF EnvelopeFrom
  <2>3. AddrToString(case.from[1]) = case.from[1].mailbox \o <<"@">> \o case.from[1].host
    BY <1>5 DEF AddrToString
  <2> QED
    BY <1>3, <1>5, <2>2, <2>3
<1> QED
  BY <1>4, <1>5 DEF HasSender
=============================================================================
