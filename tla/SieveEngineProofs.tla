-------------------------- MODULE SieveEngineProofs --------------------------
(***************************************************************************)
(* What evaluate makes of a script, for every script: lemmas about         *)
(* SieveEngine.  Its recursions run along a sequence; that they are well   *)
(* defined, and what they return, follows by induction on the length.      *)
(***************************************************************************)
EXTENDS Rules, SequenceTheorems, FiniteSetTheorems, NaturalsInduction, WellFoundedInduction, TLAPS

-----------------------------------------------------------------------------
(* Induction and recursion over the natural numbers                        *)

\* A set of numbers with 0 and the successor of each of its members holds all.
LEMMA Induction ==
  ASSUME NEW T, T \subseteq Nat, 0 \in T, \A n \in T : n + 1 \in T
  PROVE  T = Nat
<1> SUFFICES ASSUME Nat \ T # {} PROVE FALSE
  OBVIOUS
<1> DEFINE R == OpToRel(<, Nat)
<1>1. IsWellFoundedOn(R, Nat)
  BY NatLessThanWellFounded
<1>2. Nat \ T \subseteq Nat
  OBVIOUS
<1>3. PICK x \in Nat \ T : \A y \in Nat \ T : <<y, x>> \notin R
  <2> HIDE DEF R
  <2> QED
    BY <1>1, <1>2, WFMin
<1>4. x # 0
  OBVIOUS
<1>5. x - 1 \in Nat /\ x - 1 \notin T
  <2>1. x - 1 \in Nat
    BY <1>4
  <2> QED
    BY <2>1
<1>6. <<x - 1, x>> \in R
  BY <1>5 DEF OpToRel
<1> QED
  BY <1>3, <1>5, <1>6

\* Induction up to a bound.
LEMMA BoundedInduction ==
  ASSUME NEW n \in Nat, NEW T, 0 \in T, \A m \in 0 .. n : m < n /\ m \in T => m + 1 \in T
  PROVE  \A m \in 0 .. n : m \in T
<1> DEFINE U == {m \in Nat : m <= n => m \in T}
<1>1. U \subseteq Nat /\ 0 \in U
  OBVIOUS
<1>2. ASSUME NEW m \in U PROVE m + 1 \in U
  <2> SUFFICES ASSUME m + 1 <= n PROVE m + 1 \in T
    OBVIOUS
  <2>1. m \in 0 .. n /\ m < n /\ m \in T
    OBVIOUS
  <2> QED
    BY <2>1
<1>3. U = Nat
  <2> HIDE DEF U
  <2> QED
    BY <1>1, <1>2, Induction
<1> QED
  BY <1>3

\* The values run[0] .. run[n] of a recursion that starts at base.
Follows(run, D, base, n, g) ==
  /\ run \in [0 .. n -> D]
  /\ run[0] = base
  /\ \A i \in 1 .. n : run[i] = g[<<run[i - 1], i>>]

\* A function defined by recursion along 0 .. n exists.
LEMMA Recursion ==
  ASSUME NEW D, NEW base \in D, NEW n \in Nat, NEW g \in [D \X (1 .. n) -> D]
  PROVE  \E run : Follows(run, D, base, n, g)
<1> DEFINE Good(m, f) == f[0] = base /\ \A i \in 1 .. m : f[i] = g[<<f[i - 1], i>>]
           T == {m \in Nat : m <= n => \E f \in [0 .. m -> D] : Good(m, f)}
<1>1. 0 \in T
  <2> DEFINE f == [i \in 0 .. 0 |-> base]
  <2>1. f \in [0 .. 0 -> D] /\ Good(0, f)
    OBVIOUS
  <2> QED
    BY <2>1
<1>2. ASSUME NEW m \in T PROVE m + 1 \in T
  <2> SUFFICES ASSUME m + 1 <= n
               PROVE  \E h \in [0 .. m + 1 -> D] : Good(m + 1, h)
    OBVIOUS
  <2>1. PICK f \in [0 .. m -> D] : Good(m, f)
    OBVIOUS
  <2> DEFINE h == [i \in 0 .. m + 1 |-> IF i = m + 1 THEN g[<<f[m], m + 1>>] ELSE f[i]]
  <2>2. g[<<f[m], m + 1>>] \in D
    OBVIOUS
  <2>3. h \in [0 .. m + 1 -> D]
    BY <2>2
  <2>4. h[0] = base
    BY <2>1
  <2>5. ASSUME NEW i \in 1 .. m + 1 PROVE h[i] = g[<<h[i - 1], i>>]
    <3>1. CASE i = m + 1
      <4>1. h[i] = g[<<f[m], i>>] /\ h[i - 1] = f[m]
        BY <3>1
      <4> HIDE DEF h
      <4> QED
        BY <4>1
    <3>2. CASE i # m + 1
      <4>1. h[i] = f[i] /\ h[i - 1] = f[i - 1]
        BY <3>2
      <4>2. i \in 1 .. m
        BY <3>2
      <4>3. f[i] = g[<<f[i - 1], i>>]
        BY <2>1, <4>2
      <4> HIDE DEF h
      <4> QED
        BY <4>1, <4>3
    <3> QED
      BY <3>1, <3>2
  <2> HIDE DEF h
  <2>6. Good(m + 1, h)
    BY <2>4, <2>5
  <2> QED
    BY <2>3, <2>6
<1>3. T = Nat
  <2> HIDE DEF T
  <2>1. T \subseteq Nat
    BY DEF T
  <2> QED
    BY <1>1, <1>2, <2>1, Induction
<1>4. n \in T
  <2> HIDE DEF T
  <2> QED
    BY <1>3
<1> QED
  BY <1>4 DEF Follows

-----------------------------------------------------------------------------
(* FlattenSeq                                                              *)

\* The sequences of seqs are appended one after the other.
Appends(run, S, n, seqs) ==
  /\ run \in [0 .. n -> Seq(S)]
  /\ run[0] = << >>
  /\ \A i \in 1 .. n : run[i] = run[i - 1] \o seqs[i]

\* They can be: the recursion has a solution.
LEMMA Concatenation ==
  ASSUME NEW S, NEW n \in Nat, NEW seqs \in [1 .. n -> Seq(S)]
  PROVE  \E run : Appends(run, S, n, seqs)
<1> DEFINE D == Seq(S)
           g == [p \in D \X (1 .. n) |-> p[1] \o seqs[p[2]]]
<1>1. PICK base \in D : base = << >>
  BY EmptySeq
<1>2. base \in D
  BY <1>1
<1>3. g \in [D \X (1 .. n) -> D]
  OBVIOUS
<1>4. \A d \in D, i \in 1 .. n : g[<<d, i>>] = d \o seqs[i]
  OBVIOUS
<1>5. PICK run : Follows(run, D, base, n, g)
  <2> HIDE DEF D, g
  <2> QED
    BY <1>2, <1>3, Recursion
<1>6. \A i \in 1 .. n : run[i] = run[i - 1] \o seqs[i]
  <2> TAKE i \in 1 .. n
  <2>1. i - 1 \in 0 .. n
    OBVIOUS
  <2>2. run[i - 1] \in D
    BY <2>1, <1>5 DEF Follows
  <2> HIDE DEF D, g
  <2> QED
    BY <2>2, <1>4, <1>5 DEF Follows
<1> QED
  BY <1>1, <1>5, <1>6 DEF Follows, Appends

\* FlattenSeq appends the sequences one after the other.
LEMMA Flattening ==
  ASSUME NEW S, NEW seqs \in Seq(Seq(S))
  PROVE  \E run : Appends(run, S, Len(seqs), seqs) /\ FlattenSeq(seqs) = run[Len(seqs)]
<1>1. PICK n \in Nat : n = Len(seqs)
  OBVIOUS
<1>2. n \in Nat /\ seqs \in [1 .. n -> Seq(S)]
  BY <1>1
<1>3. PICK run : Appends(run, S, n, seqs)
  BY <1>2, Concatenation
<1>4. run \in [0 .. n -> Seq(S)]
  BY <1>3 DEF Appends
<1>5. \A i \in 1 .. n : run[i] = run[i - 1] \o seqs[i]
  BY <1>3 DEF Appends
<1>6. run[0] = << >>
  BY <1>3 DEF Appends
<1>7. FlattenSeq(seqs) = run[n]
  <2>1. CASE n = 0
    <3>1. FlattenSeq(seqs) = seqs
      BY <2>1, <1>1 DEF FlattenSeq
    <3>2. seqs = << >>
      BY <2>1, <1>1, EmptySeq
    <3>3. run[n] = << >>
      BY <2>1, <1>6
    <3> QED
      BY <3>1, <3>2, <3>3
  <2>2. CASE n # 0
    <3> DEFINE Sound(f) == f = [i \in 1 .. n |-> IF i = 1 THEN seqs[i] ELSE f[i - 1] \o seqs[i]]
               h == [i \in 1 .. n |-> run[i]]
               f == CHOOSE f : Sound(f)
    <3>1. run[1] = seqs[1]
      <4>1. 1 \in 1 .. n
        BY <2>2, <1>2
      <4>2. run[1] = run[0] \o seqs[1]
        <5>1. 1 - 1 = 0
          OBVIOUS
        <5> QED
          BY <4>1, <5>1, <1>5
      <4>3. seqs[1] \in Seq(S)
        BY <4>1, <1>2
      <4>4. << >> \o seqs[1] = seqs[1]
        BY <4>3
      <4> QED
        BY <4>2, <4>4, <1>6
    <3>2. \A i \in 1 .. n : h[i] = IF i = 1 THEN seqs[i] ELSE h[i - 1] \o seqs[i]
      <4> TAKE i \in 1 .. n
      <4>1. CASE i = 1
        BY <4>1, <3>1
      <4>2. CASE i # 1
        <5>1. i - 1 \in 1 .. n
          BY <4>2, <1>2
        <5>2. h[i] = run[i] /\ h[i - 1] = run[i - 1]
          BY <5>1
        <5>3. run[i] = run[i - 1] \o seqs[i]
          BY <1>5
        <5> HIDE DEF h
        <5> QED
          BY <4>2, <5>2, <5>3
      <4> QED
        BY <4>1, <4>2
    <3>3. Sound(h)
      BY <3>2
    <3>4. Sound(f)
      BY <3>3
    <3>5. \A i \in 1 .. n : f[i] = IF i = 1 THEN seqs[i] ELSE f[i - 1] \o seqs[i]
      <4> HIDE DEF f
      <4> QED
        BY <3>4
    <3>6. FlattenSeq(seqs) = f[n]
      BY <2>2, <1>1 DEF FlattenSeq
    <3> DEFINE T == {m \in Nat : m + 1 <= n => f[m + 1] = run[m + 1]}
    <3> HIDE DEF f, h, Sound
    <3>7. 0 \in T
      BY <3>1, <3>5
    <3>8. ASSUME NEW m \in T PROVE m + 1 \in T
      <4> SUFFICES ASSUME NEW k \in 1 .. n, k = m + 2 PROVE f[k] = run[k]
        BY DEF T
      <4>1. k # 1 /\ k - 1 = m + 1
        BY DEF T
      <4>2. f[k] = f[k - 1] \o seqs[k]
        BY <4>1, <3>5
      <4>3. run[k] = run[k - 1] \o seqs[k]
        BY <1>5
      <4>4. f[k - 1] = run[k - 1]
        BY <4>1 DEF T
      <4> QED
        BY <4>2, <4>3, <4>4
    <3>9. T = Nat
      <4>1. T \subseteq Nat
        OBVIOUS
      <4> HIDE DEF T
      <4> QED
        BY <3>7, <3>8, <4>1, Induction
    <3>10. n - 1 \in T
      <4>1. n - 1 \in Nat
        BY <2>2, <1>2
      <4> QED
        BY <4>1, <3>9
    <3> QED
      BY <3>6, <3>10 DEF T
  <2> QED
    BY <2>1, <2>2
<1> QED
  BY <1>1, <1>3, <1>7

\* x occurs in s.
Elem(s, x) == \E i \in DOMAIN s : s[i] = x

\* The elements of a concatenation are those of its parts.
LEMMA ElemConcat ==
  ASSUME NEW S, NEW s \in Seq(S), NEW t \in Seq(S), NEW x
  PROVE  Elem(s \o t, x) <=> Elem(s, x) \/ Elem(t, x)
<1> DEFINE r == s \o t
<1>1. /\ r \in Seq(S) /\ Len(r) = Len(s) + Len(t)
      /\ \A i \in 1 .. Len(r) : r[i] = IF i <= Len(s) THEN s[i] ELSE t[i - Len(s)]
  BY ConcatProperties
<1>2. Len(s) \in Nat /\ Len(t) \in Nat
  OBVIOUS
<1>3. DOMAIN r = 1 .. Len(r) /\ DOMAIN s = 1 .. Len(s) /\ DOMAIN t = 1 .. Len(t)
  BY <1>1
<1> HIDE DEF r
<1>4. ASSUME Elem(r, x) PROVE Elem(s, x) \/ Elem(t, x)
  <2>1. PICK i \in 1 .. Len(r) : r[i] = x
    BY <1>3, <1>4 DEF Elem
  <2>2. CASE i <= Len(s)
    BY <2>1, <2>2, <1>1, <1>2, <1>3 DEF Elem
  <2>3. CASE i > Len(s)
    <3>1. i - Len(s) \in 1 .. Len(t)
      BY <2>3, <1>1, <1>2
    <3>2. t[i - Len(s)] = x
      BY <2>1, <2>3, <1>1, <1>2
    <3> QED
      BY <3>1, <3>2, <1>3 DEF Elem
  <2> QED
    BY <2>2, <2>3, <1>2
<1>5. ASSUME NEW i \in 1 .. Len(s), s[i] = x PROVE Elem(r, x)
  <2>1. i \in 1 .. Len(r) /\ i <= Len(s)
    BY <1>1, <1>2
  <2>2. r[i] = s[i]
    BY <2>1, <1>1
  <2> QED
    BY <2>1, <2>2, <1>3, <1>5 DEF Elem
<1>6. ASSUME NEW i \in 1 .. Len(t), t[i] = x PROVE Elem(r, x)
  <2>1. PICK k \in 1 .. Len(r) : k = Len(s) + i
    BY <1>1, <1>2
  <2>2. r[k] = t[i]
    <3>1. k > Len(s) /\ k - Len(s) = i
      BY <2>1, <1>2
    <3> QED
      BY <3>1, <1>1, <1>2
  <2> QED
    BY <2>2, <1>3, <1>6 DEF Elem
<1>7. Elem(s, x) \/ Elem(t, x) => Elem(r, x)
  BY <1>3, <1>5, <1>6 DEF Elem
<1> QED
  BY <1>4, <1>7 DEF r

\* Append adds one element.
LEMMA ElemAppend ==
  ASSUME NEW S, NEW s \in Seq(S), NEW y \in S, NEW x
  PROVE  Elem(Append(s, y), x) <=> Elem(s, x) \/ x = y
<1>1. Append(s, y) = s \o <<y>> /\ <<y>> \in Seq(S)
  BY AppendIsConcat
<1>2. Elem(<<y>>, x) <=> x = y
  BY DEF Elem
<1>3. PICK t \in Seq(S) : t = <<y>>
  BY <1>1
<1>4. Elem(s \o t, x) <=> Elem(s, x) \/ Elem(t, x)
  BY <1>3, ElemConcat
<1> QED
  BY <1>1, <1>2, <1>3, <1>4

\* FlattenSeq neither adds nor loses an element.
LEMMA FlattenElements ==
  ASSUME NEW S, NEW seqs \in Seq(Seq(S))
  PROVE  /\ FlattenSeq(seqs) \in Seq(S)
         /\ \A x : Elem(FlattenSeq(seqs), x) <=> \E i \in 1 .. Len(seqs) : Elem(seqs[i], x)
<1>1. PICK run : Appends(run, S, Len(seqs), seqs) /\ FlattenSeq(seqs) = run[Len(seqs)]
  BY Flattening
<1>2. PICK n \in Nat : n = Len(seqs)
  OBVIOUS
<1>3. \A i \in 1 .. n : seqs[i] \in Seq(S)
  BY <1>2
<1>4. /\ run \in [0 .. n -> Seq(S)]
      /\ run[0] = << >>
      /\ \A i \in 1 .. n : run[i] = run[i - 1] \o seqs[i]
  BY <1>1, <1>2 DEF Appends
<1> SUFFICES ASSUME NEW x PROVE Elem(run[n], x) <=> \E i \in 1 .. n : Elem(seqs[i], x)
  BY <1>1, <1>2, <1>4
<1> DEFINE Sound(m) == Elem(run[m], x) <=> \E i \in 1 .. m : Elem(seqs[i], x)
           T == {m \in Nat : m <= n => Sound(m)}
<1>5. 0 \in T
  BY <1>4 DEF Elem
<1>6. ASSUME NEW m \in T PROVE m + 1 \in T
  <2> SUFFICES ASSUME NEW k \in 1 .. n, k = m + 1 PROVE Sound(k)
    OBVIOUS
  <2>1. k - 1 \in 0 .. n /\ k - 1 = m
    OBVIOUS
  <2>2. run[k] = run[m] \o seqs[k] /\ run[m] \in Seq(S) /\ seqs[k] \in Seq(S)
    BY <2>1, <1>3, <1>4
  <2>3. Elem(run[k], x) <=> Elem(run[m], x) \/ Elem(seqs[k], x)
    BY <2>2, ElemConcat
  <2>4. Sound(m)
    BY <2>1
  <2>5. 1 .. k = (1 .. m) \cup {k}
    BY <2>1
  <2> QED
    BY <2>3, <2>4, <2>5
<1>7. T = Nat
  <2>1. T \subseteq Nat
    OBVIOUS
  <2> HIDE DEF T
  <2> QED
    BY <1>5, <1>6, <2>1, Induction
<1>8. n \in T
  <2> HIDE DEF T
  <2> QED
    BY <1>2, <1>7
<1> QED
  BY <1>8

-----------------------------------------------------------------------------
(* The interpreter                                                         *)

EventRecord == [event : Statement, flags : BOOLEAN]
Run == [flags : BOOLEAN, final : {"keep", "discard", "none"}, events : Seq(EventRecord)]

\* The states the interpreter goes through.
Interprets(run, program) ==
  /\ run \in [0 .. Len(program) -> Run]
  /\ run[0] = [flags |-> FALSE, final |-> "keep", events |-> << >>]
  /\ \A i \in 1 .. Len(program) : run[i] = Handle(run[i - 1], program[i])

StatementKinds == {"fileinto", "redirect", "keep", "discard", "reject", "execute", "include",
                   "addflag"}

\* The kinds of statements, and the fields of those that have some.
LEMMA StatementKind ==
  ASSUME NEW s \in Statement
  PROVE  /\ s.st \in StatementKinds
         /\ s.st = "fileinto" => /\ s.folder \in Folders /\ s.copy \in BOOLEAN /\ s.create \in BOOLEAN
                                 /\ DOMAIN s = {"st", "folder", "copy", "create"}
         /\ s.st = "redirect" => s.copy \in BOOLEAN /\ s.list \in BOOLEAN
<1>1. CASE s \in [st : {"fileinto"}, folder : Folders, copy : BOOLEAN, create : BOOLEAN]
  BY <1>1 DEF StatementKinds
<1>2. CASE s \in [st : {"redirect"}, copy : BOOLEAN, list : BOOLEAN]
  BY <1>2 DEF StatementKinds
<1>3. CASE s \in [st : {"keep", "discard", "reject", "execute", "include", "addflag"}]
  BY <1>3 DEF StatementKinds
<1> QED
  BY <1>1, <1>2, <1>3 DEF Statement

\* What is left of the implicit keep after one more statement.
LEMMA FinalAfterOne ==
  ASSUME NEW s \in Statement, NEW final \in {"keep", "discard", "none"}
  PROVE  /\ FinalAfter(final, s) \in {"keep", "discard", "none"}
         /\ FinalAfter(final, s) = "keep" <=> s.st = "keep" \/ (~Cancels(s) /\ final = "keep")
         /\ FinalAfter(final, s) = "discard" =>
              s.st = "discard" \/ (~Cancels(s) /\ s.st # "keep" /\ final = "discard")
         /\ s.st = "discard" => FinalAfter(final, s) = "discard"
<1>1. CASE s.st = "keep"
  BY <1>1 DEF FinalAfter, Cancels
<1>2. CASE s.st = "discard"
  BY <1>2 DEF FinalAfter, Cancels
<1>3. CASE s.st \notin {"keep", "discard"} /\ Cancels(s)
  BY <1>3 DEF FinalAfter
<1>4. CASE s.st \notin {"keep", "discard"} /\ ~Cancels(s)
  BY <1>4 DEF FinalAfter
<1> QED
  BY <1>1, <1>2, <1>3, <1>4

\* A step of the interpreter yields one of its states.
LEMMA HandleType ==
  ASSUME NEW r \in Run, NEW s \in Statement
  PROVE  Handle(r, s) \in Run
<1>1. r.flags \in BOOLEAN /\ r.final \in {"keep", "discard", "none"} /\ r.events \in Seq(EventRecord)
  BY DEF Run
<1>2. FinalAfter(r.final, s) \in {"keep", "discard", "none"}
  BY <1>1, FinalAfterOne
<1>3. (r.flags \/ s.st = "addflag") \in BOOLEAN
  OBVIOUS
<1>4. [event |-> s, flags |-> r.flags] \in EventRecord
  BY <1>1 DEF EventRecord
<1>5. Append(r.events, [event |-> s, flags |-> r.flags]) \in Seq(EventRecord)
  BY <1>1, <1>4, AppendProperties
<1> QED
  BY <1>1, <1>2, <1>3, <1>5 DEF Handle, Run

\* Interpret returns the last of the states the interpreter goes through.
LEMMA Interpretation ==
  ASSUME NEW program \in Seq(Statement)
  PROVE  \E run : Interprets(run, program) /\ Interpret(program) = run[Len(program)]
<1>1. PICK n \in Nat : n = Len(program)
  OBVIOUS
<1>2. PICK base \in Run : base = [flags |-> FALSE, final |-> "keep", events |-> << >>]
  BY EmptySeq DEF Run
<1>3. n \in Nat /\ base \in Run /\ \A i \in 1 .. n : program[i] \in Statement
  BY <1>1, <1>2
<1> DEFINE g == [p \in Run \X (1 .. n) |-> Handle(p[1], program[p[2]])]
<1>4. g \in [Run \X (1 .. n) -> Run]
  BY <1>3, HandleType
<1>5. \A r \in Run, i \in 1 .. n : g[<<r, i>>] = Handle(r, program[i])
  OBVIOUS
<1>6. PICK run : Follows(run, Run, base, n, g)
  <2> HIDE DEF g
  <2> QED
    BY <1>3, <1>4, Recursion
<1>7. run \in [0 .. n -> Run] /\ run[0] = base
  BY <1>6 DEF Follows
<1>8. \A i \in 1 .. n : run[i] = Handle(run[i - 1], program[i])
  <2> TAKE i \in 1 .. n
  <2>1. i - 1 \in 0 .. n
    BY <1>3
  <2>2. run[i - 1] \in Run
    BY <2>1, <1>7
  <2> HIDE DEF g
  <2> QED
    BY <2>2, <1>5, <1>6 DEF Follows
<1>9. Interprets(run, program)
  BY <1>1, <1>2, <1>7, <1>8 DEF Interprets
<1>10. Interpret(program) = run[n]
  <2> DEFINE Sound(f) == f = [i \in 0 .. n |->
               IF i = 0 THEN [flags |-> FALSE, final |-> "keep", events |-> << >>]
               ELSE Handle(f[i - 1], program[i])]
             f == CHOOSE f : Sound(f)
  <2>1. \A i \in 0 .. n : run[i] =
          IF i = 0 THEN [flags |-> FALSE, final |-> "keep", events |-> << >>]
          ELSE Handle(run[i - 1], program[i])
    BY <1>2, <1>3, <1>7, <1>8
  <2>2. Sound(run)
    BY <2>1, <1>7
  <2>3. Sound(f)
    BY <2>2
  <2>4. Interpret(program) = f[n]
    BY <1>1 DEF Interpret
  <2>5. \A i \in 0 .. n : f[i] =
          IF i = 0 THEN [flags |-> FALSE, final |-> "keep", events |-> << >>]
          ELSE Handle(f[i - 1], program[i])
    <3> HIDE DEF f
    <3> QED
      BY <2>3
  <2> DEFINE T == {m \in Nat : m <= n => f[m] = run[m]}
  <2> HIDE DEF f, Sound
  <2>6. 0 \in T
    BY <2>1, <2>5, <1>3
  <2>7. ASSUME NEW m \in T PROVE m + 1 \in T
    <3> SUFFICES ASSUME NEW k \in 1 .. n, k = m + 1 PROVE f[k] = run[k]
      OBVIOUS
    <3>1. k \in 0 .. n /\ k # 0 /\ k - 1 = m /\ f[m] = run[m]
      BY <1>3
    <3>2. f[k] = Handle(f[k - 1], program[k])
      BY <3>1, <2>5
    <3>3. run[k] = Handle(run[k - 1], program[k])
      BY <1>8
    <3> QED
      BY <3>1, <3>2, <3>3
  <2>8. T = Nat
    <3>1. T \subseteq Nat
      OBVIOUS
    <3> HIDE DEF T
    <3> QED
      BY <2>6, <2>7, <3>1, Induction
  <2>9. n \in T
    <3> HIDE DEF T
    <3> QED
      BY <2>8, <1>3
  <2> QED
    BY <2>4, <2>9
<1> QED
  BY <1>1, <1>9, <1>10

\* The keep, implicit (0) or explicit, that no later statement up to the m-th
\* cancels.
KeptAt(program, m) ==
  \E k \in 0 .. m :
    /\ k = 0 \/ program[k].st = "keep"
    /\ \A j \in k + 1 .. m : ~Cancels(program[j])

\* The implicit keep is left exactly when a keep, implicit or explicit, was not
\* cancelled; a discard is left only where the script has one.
LEMMA FinalKeep ==
  ASSUME NEW program \in Seq(Statement), NEW run, Interprets(run, program)
  PROVE  \A m \in 0 .. Len(program) :
           /\ run[m].final = "keep" <=> KeptAt(program, m)
           /\ run[m].final = "discard" => \E i \in 1 .. m : program[i].st = "discard"
<1>1. PICK n \in Nat : n = Len(program)
  OBVIOUS
<1>2. /\ run \in [0 .. n -> Run]
      /\ run[0] = [flags |-> FALSE, final |-> "keep", events |-> << >>]
      /\ \A i \in 1 .. n : run[i] = Handle(run[i - 1], program[i]) /\ program[i] \in Statement
  BY <1>1 DEF Interprets
<1> DEFINE Sound(m) == /\ run[m].final = "keep" <=> KeptAt(program, m)
                       /\ run[m].final = "discard" => \E i \in 1 .. m : program[i].st = "discard"
           T == {m \in Nat : m <= n => Sound(m)}
<1>3. 0 \in T
  BY <1>2 DEF KeptAt
<1>4. ASSUME NEW m \in T PROVE m + 1 \in T
  <2> SUFFICES ASSUME NEW k \in 1 .. n, k = m + 1 PROVE Sound(k)
    OBVIOUS
  <2>1. k - 1 = m /\ m \in 0 .. n /\ Sound(m)
    OBVIOUS
  <2> DEFINE s == program[k]
  <2>2. run[m] \in Run /\ s \in Statement
    BY <2>1, <1>2
  <2>3. run[m].final \in {"keep", "discard", "none"}
    BY <2>2 DEF Run
  <2>4. run[k].final = FinalAfter(run[m].final, s)
    <3> HIDE DEF T
    <3>1. run[k] = Handle(run[m], program[k])
      BY <2>1, <1>2
    <3> QED
      BY <3>1 DEF Handle
  <2>5. KeptAt(program, k) <=> s.st = "keep" \/ (~Cancels(s) /\ KeptAt(program, m))
    <3>1. ASSUME s.st = "keep" PROVE KeptAt(program, k)
      BY <3>1 DEF KeptAt
    <3>2. ASSUME ~Cancels(s), KeptAt(program, m) PROVE KeptAt(program, k)
      <4>1. PICK h \in 0 .. m : (h = 0 \/ program[h].st = "keep") /\ \A j \in h + 1 .. m : ~Cancels(program[j])
        BY <3>2 DEF KeptAt
      <4>2. \A j \in h + 1 .. k : ~Cancels(program[j])
        <5> TAKE j \in h + 1 .. k
        <5>1. j = k \/ j \in h + 1 .. m
          BY <2>1
        <5> HIDE DEF T
        <5> QED
          BY <5>1, <4>1, <3>2
      <4>3. h \in 0 .. k
        BY <2>1
      <4> QED
        BY <4>1, <4>2, <4>3 DEF KeptAt
    <3>3. ASSUME KeptAt(program, k), s.st # "keep" PROVE ~Cancels(s) /\ KeptAt(program, m)
      <4>1. PICK h \in 0 .. k : (h = 0 \/ program[h].st = "keep") /\ \A j \in h + 1 .. k : ~Cancels(program[j])
        BY <3>3 DEF KeptAt
      <4>2. h # k
        BY <4>1, <3>3
      <4>3. h \in 0 .. m /\ k \in h + 1 .. k /\ \A j \in h + 1 .. m : j \in h + 1 .. k
        BY <4>2, <2>1
      <4> QED
        BY <4>1, <4>3 DEF KeptAt
    <3> QED
      BY <3>1, <3>2, <3>3
  <2>6. \A i \in 1 .. m : i \in 1 .. k
    BY <2>1
  <2>7. k \in 1 .. k
    OBVIOUS
  <2> HIDE DEF T
  <2>8. /\ run[k].final = "keep" <=> s.st = "keep" \/ (~Cancels(s) /\ run[m].final = "keep")
        /\ run[k].final = "discard" => s.st = "discard" \/ run[m].final = "discard"
    BY <2>2, <2>3, <2>4, FinalAfterOne
  <2>9. run[k].final = "keep" <=> KeptAt(program, k)
    BY <2>1, <2>5, <2>8
  <2>10. run[k].final = "discard" => \E i \in 1 .. k : program[i].st = "discard"
    BY <2>1, <2>6, <2>7, <2>8
  <2> QED
    BY <2>9, <2>10
<1>5. T = Nat
  <2>1. T \subseteq Nat
    OBVIOUS
  <2> HIDE DEF T
  <2> QED
    BY <1>3, <1>4, <2>1, Induction
<1>6. ASSUME NEW m \in 0 .. n PROVE Sound(m)
  <2>1. m \in T
    <3> HIDE DEF T
    <3> QED
      BY <1>5
  <2> QED
    BY <2>1
<1> QED
  BY <1>1, <1>6

\* s is the statement of one of the events.
HasEvent(events, s) == \E e \in EventRecord : Elem(events, e) /\ e.event = s

\* An immediate event is among those of the first m statements if, and only if,
\* one of these is its statement.
LEMMA ImmediateEvents ==
  ASSUME NEW program \in Seq(Statement), NEW run, Interprets(run, program), NEW s
  PROVE  \A m \in 0 .. Len(program) :
           HasEvent(run[m].events, s) <=> s.st \in Immediate /\ \E i \in 1 .. m : program[i] = s
<1>1. PICK n \in Nat : n = Len(program)
  OBVIOUS
<1>2. /\ run \in [0 .. n -> Run]
      /\ run[0] = [flags |-> FALSE, final |-> "keep", events |-> << >>]
      /\ \A i \in 1 .. n : run[i] = Handle(run[i - 1], program[i]) /\ program[i] \in Statement
  BY <1>1 DEF Interprets
<1> DEFINE Sound(m) ==
             HasEvent(run[m].events, s) <=> s.st \in Immediate /\ \E i \in 1 .. m : program[i] = s
           T == {m \in Nat : m <= n => Sound(m)}
<1>3. 0 \in T
  BY <1>2 DEF HasEvent, Elem
<1>4. ASSUME NEW m \in T PROVE m + 1 \in T
  <2> SUFFICES ASSUME NEW k \in 1 .. n, k = m + 1 PROVE Sound(k)
    OBVIOUS
  <2>1. k - 1 = m /\ m \in 0 .. n /\ Sound(m) /\ 1 .. k = (1 .. m) \cup {k}
    OBVIOUS
  <2>2. run[m] \in Run /\ program[k] \in Statement
    BY <2>1, <1>2
  <2>3. run[m].events \in Seq(EventRecord) /\ run[m].flags \in BOOLEAN
    BY <2>2 DEF Run
  <2> DEFINE y == [event |-> program[k], flags |-> run[m].flags]
  <2>4. run[k].events = IF program[k].st \in Immediate THEN Append(run[m].events, y)
                        ELSE run[m].events
    <3> HIDE DEF T
    <3>1. run[k] = Handle(run[m], program[k])
      BY <2>1, <1>2
    <3> QED
      BY <3>1 DEF Handle
  <2>5. y \in EventRecord /\ y.event = program[k]
    BY <2>2, <2>3 DEF EventRecord
  <2> HIDE DEF T, y
  <2>6. CASE program[k].st \in Immediate
    <3>1. \A e : Elem(run[k].events, e) <=> Elem(run[m].events, e) \/ e = y
      BY <2>3, <2>4, <2>5, <2>6, ElemAppend
    <3>2. HasEvent(run[k].events, s) <=> HasEvent(run[m].events, s) \/ program[k] = s
      BY <2>5, <3>1 DEF HasEvent
    <3> QED
      BY <3>2, <2>1, <2>6
  <2>7. CASE program[k].st \notin Immediate
    <3>1. HasEvent(run[k].events, s) <=> HasEvent(run[m].events, s)
      BY <2>4, <2>7
    <3> QED
      BY <3>1, <2>1, <2>7
  <2> QED
    BY <2>6, <2>7
<1>5. T = Nat
  <2>1. T \subseteq Nat
    OBVIOUS
  <2> HIDE DEF T
  <2> QED
    BY <1>3, <1>4, <2>1, Induction
<1>6. ASSUME NEW m \in 0 .. n PROVE Sound(m)
  <2>1. m \in T
    <3> HIDE DEF T
    <3> QED
      BY <1>5
  <2> QED
    BY <2>1
<1> QED
  BY <1>1, <1>6

\* All the events: one more for what is left of the implicit keep.
LEMMA AllEvents ==
  ASSUME NEW program \in Seq(Statement)
  PROVE  LET final == Interpret(program).final IN
         /\ Events(program) \in Seq(EventRecord)
         /\ final \in {"keep", "discard", "none"}
         /\ final = "keep" <=> KeptAt(program, Len(program))
         /\ final = "discard" => HasStatement(program, "discard")
         /\ program # << >> /\ program[Len(program)].st = "discard" => final = "discard"
         /\ \A s : HasEvent(Events(program), s) <=>
                     \/ s.st \in Immediate /\ \E i \in DOMAIN program : program[i] = s
                     \/ final # "none" /\ s = [st |-> final]
<1>1. PICK run : Interprets(run, program) /\ Interpret(program) = run[Len(program)]
  BY Interpretation
<1>2. PICK n \in Nat : n = Len(program) /\ DOMAIN program = 1 .. n
  OBVIOUS
<1>3. /\ run \in [0 .. n -> Run]
      /\ \A i \in 1 .. n : run[i] = Handle(run[i - 1], program[i]) /\ program[i] \in Statement
  BY <1>1, <1>2 DEF Interprets
<1> DEFINE final == run[n].final
           last  == [event |-> [st |-> final], flags |-> run[n].flags]
<1>4. run[n] \in Run
  BY <1>2, <1>3
<1>5. final \in {"keep", "discard", "none"} /\ run[n].events \in Seq(EventRecord)
      /\ run[n].flags \in BOOLEAN
  BY <1>4 DEF Run
<1>6. final = "keep" <=> KeptAt(program, n)
  BY <1>1, <1>2, FinalKeep
<1>7. final = "discard" => HasStatement(program, "discard")
  BY <1>1, <1>2, FinalKeep DEF HasStatement
<1>8. ASSUME program # << >>, program[n].st = "discard" PROVE final = "discard"
  <2>1. n # 0
    BY <1>2, <1>8, EmptySeq
  <2>2. n \in 1 .. n /\ n - 1 \in 0 .. n
    BY <1>2, <2>1
  <2>3. run[n] = Handle(run[n - 1], program[n]) /\ run[n - 1] \in Run /\ program[n] \in Statement
    BY <2>2, <1>3
  <2>4. final = FinalAfter(run[n - 1].final, program[n])
    BY <2>3 DEF Handle
  <2>5. run[n - 1].final \in {"keep", "discard", "none"}
    BY <2>3 DEF Run
  <2> HIDE DEF final
  <2> QED
    BY <2>3, <2>4, <2>5, <1>8, FinalAfterOne
<1>9. final # "none" => last \in EventRecord
  BY <1>5 DEF EventRecord, Statement
<1>10. Events(program) = IF final = "none" THEN run[n].events ELSE Append(run[n].events, last)
  BY <1>1, <1>2 DEF Events
<1>11. \A s : HasEvent(run[n].events, s) <=>
                s.st \in Immediate /\ \E i \in DOMAIN program : program[i] = s
  <2> TAKE s
  <2>1. n \in 0 .. Len(program) /\ DOMAIN program = 1 .. n
    BY <1>2
  <2> QED
    BY <1>1, <2>1, ImmediateEvents
<1>12. last.event = [st |-> final]
  OBVIOUS
<1> HIDE DEF final, last
<1>13. Events(program) \in Seq(EventRecord)
  BY <1>5, <1>9, <1>10, AppendProperties
<1>14. ASSUME NEW s
       PROVE  HasEvent(Events(program), s) <=>
                \/ HasEvent(run[n].events, s)
                \/ final # "none" /\ s = [st |-> final]
  <2>1. CASE final = "none"
    BY <2>1, <1>10
  <2>2. CASE final # "none"
    <3>1. \A e : Elem(Events(program), e) <=> Elem(run[n].events, e) \/ e = last
      BY <2>2, <1>5, <1>9, <1>10, ElemAppend
    <3> QED
      BY <2>2, <3>1, <1>9, <1>12 DEF HasEvent
  <2> QED
    BY <2>1, <2>2
<1>15. final = Interpret(program).final
  BY <1>1, <1>2 DEF final
<1> QED
  BY <1>2, <1>5, <1>6, <1>7, <1>8, <1>11, <1>13, <1>14, <1>15

-----------------------------------------------------------------------------
(* The actions                                                             *)

\* The fileinto action of a filing statement, before the copies are found.
Filed(s) == [op |-> "fileinto", folder |-> s.folder, copy |-> FALSE, create |-> s.create]

\* Statements that become an action that is only an op.
Plain(s) == s.st \notin {"fileinto", "include"} /\ ~(s.st = "redirect" /\ s.list)

\* The actions of one event: its flags, and one action of its own or none.
LEMMA EventActions ==
  ASSUME NEW e \in EventRecord
  PROVE  /\ ActionsOf(e) \in Seq(ActionRecords)
         /\ \A a : Elem(ActionsOf(e), a) <=>
                     \/ e.flags /\ e.event.st \in {"keep", "fileinto"} /\ a = [op |-> "setflag"]
                     \/ e.event.st = "fileinto" /\ a = Filed(e.event)
                     \/ Plain(e.event) /\ a = [op |-> e.event.st]
<1> DEFINE s == e.event
           own == CASE s.st = "fileinto" -> <<Filed(s)>>
                    [] s.st = "include" \/ (s.st = "redirect" /\ s.list) -> << >>
                    [] OTHER -> <<[op |-> s.st]>>
<1>1. s \in Statement /\ e.flags \in BOOLEAN
  BY DEF EventRecord
<1>2. s.st \in StatementKinds /\ (s.st = "redirect" => s.list \in BOOLEAN)
  BY <1>1, StatementKind
<1>3. ActionsOf(e) = Flagged(e) \o own
  BY DEF ActionsOf, Filed
<1>4. Flagged(e) \in Seq(ActionRecords)
  <2>1. [op |-> "setflag"] \in ActionRecords
    BY DEF ActionRecords
  <2> QED
    BY <2>1, EmptySeq DEF Flagged
<1>5. \A a : Elem(Flagged(e), a) <=>
               e.flags /\ e.event.st \in {"keep", "fileinto"} /\ a = [op |-> "setflag"]
  BY DEF Flagged, Elem
<1>6. \/ s.st = "fileinto" /\ own = <<Filed(s)>> /\ Filed(s) \in ActionRecords /\ ~Plain(s)
      \/ s.st # "fileinto" /\ own = << >> /\ ~Plain(s)
      \/ s.st # "fileinto" /\ own = <<[op |-> s.st]>> /\ [op |-> s.st] \in ActionRecords /\ Plain(s)
  <2>1. CASE s.st = "fileinto"
    <3>1. own = <<Filed(s)>>
      BY <2>1
    <3>2. Filed(s) \in ActionRecords
      BY <2>1, <1>1, StatementKind DEF Filed, ActionRecords
    <3>3. ~Plain(s)
      BY <2>1 DEF Plain
    <3> QED
      BY <2>1, <3>1, <3>2, <3>3
  <2>2. CASE s.st = "include" \/ (s.st = "redirect" /\ s.list)
    BY <2>2 DEF Plain
  <2>3. CASE s.st \notin {"fileinto", "include"} /\ ~(s.st = "redirect" /\ s.list)
    <3>1. own = <<[op |-> s.st]>>
      BY <2>3
    <3>2. [op |-> s.st] \in ActionRecords
      BY <2>3, <1>2 DEF StatementKinds, ActionRecords
    <3> QED
      BY <2>3, <3>1, <3>2 DEF Plain
  <2> QED
    BY <2>1, <2>2, <2>3
<1> HIDE DEF own
<1>7. own \in Seq(ActionRecords)
  <2>1. own = << >> \/ \E a \in ActionRecords : own = <<a>>
    BY <1>6
  <2>2. ASSUME NEW a \in ActionRecords PROVE <<a>> \in Seq(ActionRecords)
    OBVIOUS
  <2> QED
    BY <2>1, <2>2, EmptySeq
<1>8. ASSUME NEW a
       PROVE  Elem(own, a) <=> (s.st = "fileinto" /\ a = Filed(s)) \/ (Plain(s) /\ a = [op |-> s.st])
  BY <1>6 DEF Elem
<1>9. ActionsOf(e) \in Seq(ActionRecords)
  BY <1>3, <1>4, <1>7, ConcatProperties
<1>10. \A a : Elem(ActionsOf(e), a) <=> Elem(Flagged(e), a) \/ Elem(own, a)
  BY <1>3, <1>4, <1>7, ElemConcat
<1>11. ASSUME NEW a
      PROVE  Elem(ActionsOf(e), a) <=>
               \/ e.flags /\ s.st \in {"keep", "fileinto"} /\ a = [op |-> "setflag"]
               \/ s.st = "fileinto" /\ a = Filed(s)
               \/ Plain(s) /\ a = [op |-> s.st]
  <2>1. Elem(Flagged(e), a) <=>
          e.flags /\ s.st \in {"keep", "fileinto"} /\ a = [op |-> "setflag"]
    BY <1>5
  <2>2. Elem(own, a) <=> \/ s.st = "fileinto" /\ a = Filed(s)
                         \/ Plain(s) /\ a = [op |-> s.st]
    BY <1>8
  <2> QED
    BY <2>1, <2>2, <1>10, Zenon
<1> QED
  BY <1>9, <1>11

\* The actions of the events, before the keeps are looked at.
Translated(program) ==
  FlattenSeq([i \in DOMAIN Events(program) |-> ActionsOf(Events(program)[i])])

\* A list has an action of a kind when one of its elements is of that kind.
LEMMA HasActionElem ==
  ASSUME NEW list, NEW op
  PROVE  HasAction(list, op) <=> \E a : Elem(list, a) /\ a.op = op
BY DEF HasAction, Elem

\* The actions of all events are those of each.
LEMMA TranslatedElements ==
  ASSUME NEW program \in Seq(Statement)
  PROVE  /\ Translated(program) \in Seq(ActionRecords)
         /\ \A a : Elem(Translated(program), a) <=>
                     \E e \in EventRecord : Elem(Events(program), e) /\ Elem(ActionsOf(e), a)
<1> DEFINE events == Events(program)
<1>1. events \in Seq(EventRecord)
  BY AllEvents
<1>2. PICK n \in Nat : n = Len(events) /\ DOMAIN events = 1 .. n
  BY <1>1
<1>3. \A i \in 1 .. n : events[i] \in EventRecord
  BY <1>1, <1>2
<1> HIDE DEF events
<1> DEFINE seqs == [i \in 1 .. n |-> ActionsOf(events[i])]
<1>4. \A i \in 1 .. n : seqs[i] \in Seq(ActionRecords) /\ seqs[i] = ActionsOf(events[i])
  BY <1>3, EventActions
<1>5. seqs \in Seq(Seq(ActionRecords)) /\ Len(seqs) = n
  <2>1. seqs \in [1 .. n -> Seq(ActionRecords)]
    BY <1>3, EventActions
  <2> HIDE DEF seqs
  <2> QED
    BY <1>2, <2>1
<1>6. Translated(program) = FlattenSeq(seqs)
  BY <1>2 DEF Translated, events
<1> HIDE DEF seqs
<1>7. /\ FlattenSeq(seqs) \in Seq(ActionRecords)
      /\ \A a : Elem(FlattenSeq(seqs), a) <=> \E i \in 1 .. n : Elem(seqs[i], a)
  BY <1>5, FlattenElements
<1>8. ASSUME NEW a
      PROVE  (\E i \in 1 .. n : Elem(seqs[i], a)) <=>
             \E e \in EventRecord : Elem(events, e) /\ Elem(ActionsOf(e), a)
  <2>1. ASSUME NEW i \in 1 .. n, Elem(seqs[i], a)
        PROVE  \E e \in EventRecord : Elem(events, e) /\ Elem(ActionsOf(e), a)
    <3>1. Elem(events, events[i])
      BY <1>2 DEF Elem
    <3> QED
      BY <2>1, <3>1, <1>3, <1>4
  <2>2. ASSUME NEW e \in EventRecord, Elem(events, e), Elem(ActionsOf(e), a)
        PROVE  \E i \in 1 .. n : Elem(seqs[i], a)
    <3>1. PICK i \in 1 .. n : events[i] = e
      BY <2>2, <1>2 DEF Elem
    <3> QED
      BY <2>2, <3>1, <1>4
  <2> QED
    BY <2>1, <2>2
<1> QED
  BY <1>6, <1>7, <1>8 DEF events

\* The fileinto actions are those of the statements; the others stand for an
\* event each.
LEMMA TranslatedActions ==
  ASSUME NEW program \in Seq(Statement)
  PROVE  LET list == Translated(program) IN
         /\ \A a : Elem(list, a) /\ a.op = "fileinto" =>
              \E k \in DOMAIN program : program[k].st = "fileinto" /\ a = Filed(program[k])
         /\ \A k \in DOMAIN program : program[k].st = "fileinto" => Elem(list, Filed(program[k]))
         /\ \A op \in {"keep", "discard"} : HasAction(list, op) <=> Interpret(program).final = op
         /\ HasAction(list, "reject") <=> HasStatement(program, "reject")
         /\ HasAction(list, "redirect") <=>
              \E k \in DOMAIN program : program[k].st = "redirect" /\ ~program[k].list
<1> DEFINE list == Translated(program)
           events == Events(program)
           final == Interpret(program).final
<1>1. final \in {"keep", "discard", "none"}
  BY AllEvents
<1>2. \A s : HasEvent(events, s) <=>
               \/ s.st \in Immediate /\ \E i \in DOMAIN program : program[i] = s
               \/ final # "none" /\ s = [st |-> final]
  BY AllEvents
<1>3. \A a : Elem(list, a) <=> \E e \in EventRecord : Elem(events, e) /\ Elem(ActionsOf(e), a)
  BY TranslatedElements
<1>4. \A k \in DOMAIN program : program[k] \in Statement
  OBVIOUS
<1> HIDE DEF list, events, final
<1>5. ASSUME NEW a, Elem(list, a), a.op = "fileinto"
      PROVE  \E k \in DOMAIN program : program[k].st = "fileinto" /\ a = Filed(program[k])
  <2>1. PICK e \in EventRecord : Elem(events, e) /\ Elem(ActionsOf(e), a)
    BY <1>3, <1>5
  <2>2. \/ a = [op |-> "setflag"]
        \/ e.event.st = "fileinto" /\ a = Filed(e.event)
        \/ Plain(e.event) /\ a = [op |-> e.event.st]
    BY <2>1, EventActions
  <2>3. e.event.st = "fileinto" /\ a = Filed(e.event)
    <3>1. a # [op |-> "setflag"]
      BY <1>5
    <3>2. ASSUME Plain(e.event), a = [op |-> e.event.st] PROVE FALSE
      BY <1>5, <3>2 DEF Plain
    <3> QED
      BY <2>2, <3>1, <3>2
  <2>4. HasEvent(events, e.event)
    BY <2>1 DEF HasEvent
  <2>5. e.event # [st |-> final]
    BY <2>3, <1>1
  <2>6. \E i \in DOMAIN program : program[i] = e.event
    BY <2>4, <2>5, <1>2
  <2> QED
    BY <2>3, <2>6
<1>6. ASSUME NEW k \in DOMAIN program, program[k].st = "fileinto"
      PROVE  Elem(list, Filed(program[k]))
  <2>1. HasEvent(events, program[k])
    BY <1>2, <1>6 DEF Immediate
  <2>2. PICK e \in EventRecord : Elem(events, e) /\ e.event = program[k]
    BY <2>1 DEF HasEvent
  <2>3. Elem(ActionsOf(e), Filed(program[k]))
    BY <2>2, <1>6, EventActions
  <2> QED
    BY <2>2, <2>3, <1>3
<1>7. ASSUME NEW op \in {"keep", "discard", "reject", "redirect"}
      PROVE  HasAction(list, op) <=> \E s : HasEvent(events, s) /\ Plain(s) /\ s.st = op
  <2>1. ASSUME HasAction(list, op)
        PROVE  \E s : HasEvent(events, s) /\ Plain(s) /\ s.st = op
    <3>1. PICK a : Elem(list, a) /\ a.op = op
      BY <2>1, HasActionElem
    <3>2. PICK e \in EventRecord : Elem(events, e) /\ Elem(ActionsOf(e), a)
      BY <1>3, <3>1
    <3>3. \/ a = [op |-> "setflag"]
          \/ e.event.st = "fileinto" /\ a = Filed(e.event)
          \/ Plain(e.event) /\ a = [op |-> e.event.st]
      BY <3>2, EventActions
    <3>4. a # [op |-> "setflag"] /\ a # Filed(e.event)
      BY <3>1 DEF Filed
    <3>5. HasEvent(events, e.event)
      BY <3>2 DEF HasEvent
    <3> QED
      BY <3>1, <3>3, <3>4, <3>5
  <2>2. ASSUME NEW s, HasEvent(events, s), Plain(s), s.st = op
        PROVE  HasAction(list, op)
    <3>1. PICK e \in EventRecord : Elem(events, e) /\ e.event = s
      BY <2>2 DEF HasEvent
    <3>2. Elem(ActionsOf(e), [op |-> op])
      BY <2>2, <3>1, EventActions
    <3>3. Elem(list, [op |-> op])
      BY <3>1, <3>2, <1>3
    <3>4. [op |-> op].op = op
      OBVIOUS
    <3> QED
      BY <3>3, <3>4, HasActionElem
  <2> QED
    BY <2>1, <2>2
<1>8. ASSUME NEW op \in {"keep", "discard"}
      PROVE  HasAction(list, op) <=> final = op
  <2>1. op \notin Immediate
    BY DEF Immediate
  <2>2. ASSUME NEW s, HasEvent(events, s), s.st = op PROVE final = op
    BY <2>1, <2>2, <1>2
  <2>3. ASSUME final = op PROVE \E s : HasEvent(events, s) /\ Plain(s) /\ s.st = op
    <3>1. HasEvent(events, [st |-> op])
      BY <2>3, <1>2
    <3>2. Plain([st |-> op]) /\ [st |-> op].st = op
      BY DEF Plain
    <3> QED
      BY <3>1, <3>2
  <2> QED
    BY <2>2, <2>3, <1>7
<1>9. ASSUME NEW op \in {"reject", "redirect"}
      PROVE  HasAction(list, op) <=> \E k \in DOMAIN program : program[k].st = op /\ Plain(program[k])
  <2>1. op \in Immediate
    BY DEF Immediate
  <2>2. ASSUME NEW s, s.st = op
        PROVE  HasEvent(events, s) <=> \E k \in DOMAIN program : program[k] = s
    <3>1. s # [st |-> final]
      BY <2>2, <1>1
    <3> QED
      BY <2>1, <2>2, <3>1, <1>2
  <2> QED
    BY <2>2, <1>7
<1>10. HasAction(list, "reject") <=> HasStatement(program, "reject")
  BY <1>9 DEF Plain, HasStatement
<1>11. HasAction(list, "redirect") <=>
         \E k \in DOMAIN program : program[k].st = "redirect" /\ ~program[k].list
  <2>1. \A k \in DOMAIN program : program[k].st = "redirect" => (Plain(program[k]) <=> ~program[k].list)
    BY DEF Plain
  <2> QED
    BY <2>1, <1>9
<1> QED
  BY <1>5, <1>6, <1>8, <1>10, <1>11 DEF list, final

\* A fileinto has all its fields, and as a copy it is a fileinto still.
LEMMA ActionKind ==
  ASSUME NEW a \in ActionRecords
  PROVE  a.op = "fileinto" => /\ a \in [op : {"fileinto"}, folder : Folders, copy : BOOLEAN, create : BOOLEAN]
                              /\ [a EXCEPT !.copy = TRUE] \in ActionRecords
<1> HAVE a.op = "fileinto"
<1>1. a \in [op : {"fileinto"}, folder : Folders, copy : BOOLEAN, create : BOOLEAN]
  BY DEF ActionRecords
<1>2. [a EXCEPT !.copy = TRUE] \in [op : {"fileinto"}, folder : Folders, copy : BOOLEAN, create : BOOLEAN]
  BY <1>1
<1> QED
  BY <1>1, <1>2 DEF ActionRecords

\* A keep is supplied when no action disposes of the message.
LEMMA ImplicitKeepElements ==
  ASSUME NEW list \in Seq(ActionRecords)
  PROVE  /\ ImplicitKeep(list) \in Seq(ActionRecords)
         /\ \A a : a.op # "keep" => (Elem(ImplicitKeep(list), a) <=> Elem(list, a))
         /\ HasAction(list, "fileinto") => ImplicitKeep(list) = list
<1> DEFINE y == [op |-> "keep"]
<1>1. y \in ActionRecords
  BY DEF ActionRecords
<1>2. ImplicitKeep(list) = list \/ ImplicitKeep(list) = Append(list, y)
  BY DEF ImplicitKeep
<1>3. ImplicitKeep(list) \in Seq(ActionRecords)
  BY <1>1, <1>2, AppendProperties
<1>4. ASSUME NEW a, a.op # "keep" PROVE Elem(ImplicitKeep(list), a) <=> Elem(list, a)
  <2>1. a # y
    BY <1>4
  <2>2. Elem(Append(list, y), a) <=> Elem(list, a) \/ a = y
    BY <1>1, ElemAppend
  <2> QED
    BY <2>1, <2>2, <1>2
<1>5. HasAction(list, "fileinto") => ImplicitKeep(list) = list
  BY DEF ImplicitKeep, Dispositions
<1> QED
  BY <1>3, <1>4, <1>5

\* With a keep among them every fileinto becomes a copy and the keeps go.
LEMMA CopyDetectionElements ==
  ASSUME NEW list \in Seq(ActionRecords)
  PROVE  /\ CopyDetection(list) \in Seq(ActionRecords)
         /\ ~(HasAction(list, "fileinto") /\ HasAction(list, "keep")) => CopyDetection(list) = list
         /\ HasAction(list, "fileinto") /\ HasAction(list, "keep") =>
              \A a : Elem(CopyDetection(list), a) <=>
                \E b \in ActionRecords :
                  /\ Elem(list, b)
                  /\ \/ b.op = "fileinto" /\ a = [b EXCEPT !.copy = TRUE]
                     \/ b.op \notin {"keep", "fileinto"} /\ a = b
<1>1. CASE ~(HasAction(list, "fileinto") /\ HasAction(list, "keep"))
  BY <1>1 DEF CopyDetection
<1>2. CASE HasAction(list, "fileinto") /\ HasAction(list, "keep")
  <2>1. PICK n \in Nat : n = Len(list) /\ DOMAIN list = 1 .. n
    OBVIOUS
  <2>2. \A i \in 1 .. n : list[i] \in ActionRecords
    BY <2>1
  <2> DEFINE part(b) == CASE b.op = "keep"     -> << >>
                          [] b.op = "fileinto" -> <<[b EXCEPT !.copy = TRUE]>>
                          [] OTHER             -> <<b>>
             seqs == [i \in 1 .. n |-> part(list[i])]
  <2>3. CopyDetection(list) = FlattenSeq(seqs)
    BY <1>2, <2>1 DEF CopyDetection
  <2>4. ASSUME NEW b \in ActionRecords
        PROVE  \/ b.op = "keep" /\ part(b) = << >>
               \/ b.op = "fileinto" /\ part(b) = <<[b EXCEPT !.copy = TRUE]>>
               \/ b.op \notin {"keep", "fileinto"} /\ part(b) = <<b>>
    <3>1. CASE b.op = "keep"
      BY <3>1
    <3>2. CASE b.op = "fileinto"
      BY <3>2
    <3>3. CASE b.op \notin {"keep", "fileinto"}
      BY <3>3
    <3> QED
      BY <3>1, <3>2, <3>3
  <2> HIDE DEF part
  <2>5. ASSUME NEW b \in ActionRecords PROVE part(b) \in Seq(ActionRecords)
    <3>1. part(b) = << >> \/ \E a \in ActionRecords : part(b) = <<a>>
      BY <2>4, ActionKind
    <3>2. ASSUME NEW a \in ActionRecords PROVE <<a>> \in Seq(ActionRecords)
      OBVIOUS
    <3> QED
      BY <3>1, <3>2, EmptySeq
  <2>6. ASSUME NEW b \in ActionRecords, NEW a
        PROVE  Elem(part(b), a) <=> \/ b.op = "fileinto" /\ a = [b EXCEPT !.copy = TRUE]
                                    \/ b.op \notin {"keep", "fileinto"} /\ a = b
    <3>1. CASE b.op = "keep" /\ part(b) = << >>
      BY <3>1 DEF Elem
    <3>2. CASE b.op = "fileinto" /\ part(b) = <<[b EXCEPT !.copy = TRUE]>>
      <4>1. PICK c : c = [b EXCEPT !.copy = TRUE]
        OBVIOUS
      <4>2. Elem(<<c>>, a) <=> a = c
        BY DEF Elem
      <4>3. part(b) = <<c>> /\ b.op = "fileinto"
        BY <3>2, <4>1
      <4>4. Elem(part(b), a) <=> a = c
        BY <4>2, <4>3
      <4> QED
        BY <4>1, <4>3, <4>4
    <3>3. CASE b.op \notin {"keep", "fileinto"} /\ part(b) = <<b>>
      BY <3>3 DEF Elem
    <3>4. \/ b.op = "keep" /\ part(b) = << >>
          \/ b.op = "fileinto" /\ part(b) = <<[b EXCEPT !.copy = TRUE]>>
          \/ b.op \notin {"keep", "fileinto"} /\ part(b) = <<b>>
      BY <2>4
    <3> QED
      BY <3>1, <3>2, <3>3, <3>4, Zenon
  <2>7. seqs \in Seq(Seq(ActionRecords)) /\ Len(seqs) = n
    <3>1. seqs \in [1 .. n -> Seq(ActionRecords)]
      BY <2>2, <2>5
    <3> HIDE DEF seqs
    <3> QED
      BY <2>1, <3>1
  <2>8. \A i \in 1 .. n : seqs[i] = part(list[i])
    OBVIOUS
  <2> HIDE DEF seqs
  <2>9. /\ FlattenSeq(seqs) \in Seq(ActionRecords)
        /\ \A a : Elem(FlattenSeq(seqs), a) <=> \E i \in 1 .. n : Elem(seqs[i], a)
    BY <2>7, FlattenElements
  <2>10. ASSUME NEW a
         PROVE  (\E i \in 1 .. n : Elem(seqs[i], a)) <=>
                  \E b \in ActionRecords : Elem(list, b) /\ Elem(part(b), a)
    <3>1. ASSUME NEW i \in 1 .. n, Elem(seqs[i], a)
          PROVE  \E b \in ActionRecords : Elem(list, b) /\ Elem(part(b), a)
      <4>1. Elem(list, list[i])
        BY <2>1 DEF Elem
      <4> QED
        BY <3>1, <4>1, <2>2, <2>8
    <3>2. ASSUME NEW b \in ActionRecords, Elem(list, b), Elem(part(b), a)
          PROVE  \E i \in 1 .. n : Elem(seqs[i], a)
      <4>1. PICK i \in 1 .. n : list[i] = b
        BY <3>2, <2>1 DEF Elem
      <4> QED
        BY <3>2, <4>1, <2>8
    <3> QED
      BY <3>1, <3>2
  <2>11. ASSUME NEW a
         PROVE  Elem(CopyDetection(list), a) <=>
                  \E b \in ActionRecords :
                    /\ Elem(list, b)
                    /\ \/ b.op = "fileinto" /\ a = [b EXCEPT !.copy = TRUE]
                       \/ b.op \notin {"keep", "fileinto"} /\ a = b
    BY <2>3, <2>6, <2>9, <2>10
  <2> QED
    BY <1>2, <2>3, <2>9, <2>11
<1> QED
  BY <1>1, <1>2

\* What evaluate returns: every filing becomes a fileinto, a copy just when the
\* keep is not cancelled, and nothing else does; a discard is what the script
\* ends on, with the keep gone; rejects and redirects are the script's.
THEOREM Evaluation ==
  ASSUME NEW program \in Seq(Statement)
  PROVE  LET list == Evaluate(program)
             keeps == KeptAt(program, Len(program))
         IN
         /\ list \in Seq(ActionRecords)
         /\ \A a : Elem(list, a) /\ a.op = "fileinto" =>
              /\ a.copy <=> keeps
              /\ \E k \in DOMAIN program : /\ program[k].st = "fileinto"
                                           /\ a.folder = program[k].folder /\ a.create = program[k].create
         /\ \A k \in DOMAIN program : program[k].st = "fileinto" =>
              \E a : Elem(list, a) /\ a.op = "fileinto" /\ a.folder = program[k].folder
         /\ HasAction(list, "discard") => HasStatement(program, "discard") /\ ~keeps
         /\ program # << >> /\ program[Len(program)].st = "discard" => HasAction(list, "discard")
         /\ HasAction(list, "reject") <=> HasStatement(program, "reject")
         /\ HasAction(list, "redirect") <=>
              \E k \in DOMAIN program : program[k].st = "redirect" /\ ~program[k].list
<1> DEFINE list0 == Translated(program)
           list1 == ImplicitKeep(list0)
           list  == CopyDetection(list1)
           keeps  == KeptAt(program, Len(program))
           copying == HasAction(list1, "fileinto") /\ HasAction(list1, "keep")
<1>1. Evaluate(program) = list
  BY DEF Evaluate, Translated
<1>2. list0 \in Seq(ActionRecords)
  BY TranslatedElements
<1>3. /\ list1 \in Seq(ActionRecords)
      /\ \A a : a.op # "keep" => (Elem(list1, a) <=> Elem(list0, a))
      /\ HasAction(list0, "fileinto") => list1 = list0
  BY <1>2, ImplicitKeepElements
<1>4. /\ list \in Seq(ActionRecords)
      /\ ~copying => list = list1
      /\ copying =>
           \A a : Elem(list, a) <=>
             \E b \in ActionRecords :
               /\ Elem(list1, b)
               /\ \/ b.op = "fileinto" /\ a = [b EXCEPT !.copy = TRUE]
                  \/ b.op \notin {"keep", "fileinto"} /\ a = b
  BY <1>3, CopyDetectionElements
<1>5. /\ \A a : Elem(list0, a) /\ a.op = "fileinto" =>
           \E k \in DOMAIN program : program[k].st = "fileinto" /\ a = Filed(program[k])
      /\ \A k \in DOMAIN program : program[k].st = "fileinto" => Elem(list0, Filed(program[k]))
      /\ \A op \in {"keep", "discard"} : HasAction(list0, op) <=> Interpret(program).final = op
      /\ HasAction(list0, "reject") <=> HasStatement(program, "reject")
      /\ HasAction(list0, "redirect") <=>
           \E k \in DOMAIN program : program[k].st = "redirect" /\ ~program[k].list
  BY TranslatedActions
<1>6. /\ Interpret(program).final = "keep" <=> keeps
      /\ Interpret(program).final = "discard" => HasStatement(program, "discard")
      /\ program # << >> /\ program[Len(program)].st = "discard" => Interpret(program).final = "discard"
  BY AllEvents
<1> HIDE DEF list0, list1, list, keeps
<1>7. \A a : Elem(list1, a) => a \in ActionRecords
  BY <1>3 DEF Elem
<1>8. HasAction(list1, "fileinto") => (copying <=> keeps)
  <2>1. ASSUME HasAction(list1, "fileinto") PROVE list1 = list0
    <3>1. PICK a : Elem(list1, a) /\ a.op = "fileinto"
      BY <2>1, HasActionElem
    <3>2. HasAction(list0, "fileinto")
      BY <3>1, <1>3, HasActionElem
    <3> QED
      BY <3>2, <1>3
  <2>2. HasAction(list0, "keep") <=> keeps
    BY <1>5, <1>6
  <2> QED
    BY <2>1, <2>2
<1>9. ASSUME NEW a, Elem(list, a), a.op = "fileinto"
      PROVE  /\ a.copy <=> keeps
             /\ \E k \in DOMAIN program : /\ program[k].st = "fileinto"
                                          /\ a.folder = program[k].folder /\ a.create = program[k].create
  <2>1. CASE copying
    <3>1. PICK b \in ActionRecords : /\ Elem(list1, b)
                                     /\ \/ b.op = "fileinto" /\ a = [b EXCEPT !.copy = TRUE]
                                        \/ b.op \notin {"keep", "fileinto"} /\ a = b
      BY <2>1, <1>4, <1>9
    <3>2. b.op = "fileinto" /\ a = [b EXCEPT !.copy = TRUE]
      BY <3>1, <1>9
    <3>3. b \in [op : {"fileinto"}, folder : Folders, copy : BOOLEAN, create : BOOLEAN]
      BY <3>2, ActionKind
    <3>4. a.copy = TRUE /\ a.folder = b.folder /\ a.create = b.create
      BY <3>2, <3>3
    <3>5. PICK k \in DOMAIN program : program[k].st = "fileinto" /\ b = Filed(program[k])
      BY <3>1, <3>2, <1>3, <1>5
    <3>6. b.folder = program[k].folder /\ b.create = program[k].create
      BY <3>5 DEF Filed
    <3> QED
      BY <2>1, <3>4, <3>5, <3>6, <1>8
  <2>2. CASE ~copying
    <3>1. Elem(list1, a)
      BY <2>2, <1>4, <1>9
    <3>2. PICK k \in DOMAIN program : program[k].st = "fileinto" /\ a = Filed(program[k])
      BY <3>1, <1>3, <1>5, <1>9
    <3>3. a.copy = FALSE /\ a.folder = program[k].folder /\ a.create = program[k].create
      BY <3>2 DEF Filed
    <3>4. HasAction(list1, "fileinto")
      BY <3>1, <1>9, HasActionElem
    <3> QED
      BY <2>2, <3>2, <3>3, <3>4, <1>8
  <2> QED
    BY <2>1, <2>2
<1>10. ASSUME NEW k \in DOMAIN program, program[k].st = "fileinto"
       PROVE  \E a : Elem(list, a) /\ a.op = "fileinto" /\ a.folder = program[k].folder
  <2> DEFINE b == Filed(program[k])
  <2>1. b.op = "fileinto" /\ b.folder = program[k].folder
    BY DEF Filed
  <2>2. Elem(list1, b)
    BY <2>1, <1>3, <1>5, <1>10
  <2>3. b \in [op : {"fileinto"}, folder : Folders, copy : BOOLEAN, create : BOOLEAN]
    BY <2>1, <2>2, <1>7, ActionKind
  <2>4. b \in ActionRecords
    BY <2>2, <1>7
  <2> HIDE DEF b
  <2>5. CASE copying
    <3>1. Elem(list, [b EXCEPT !.copy = TRUE])
      BY <2>1, <2>2, <2>4, <2>5, <1>4
    <3>2. [b EXCEPT !.copy = TRUE].op = "fileinto" /\ [b EXCEPT !.copy = TRUE].folder = b.folder
      BY <2>1, <2>3
    <3> QED
      BY <2>1, <3>1, <3>2
  <2>6. CASE ~copying
    BY <2>1, <2>2, <2>6, <1>4
  <2> QED
    BY <2>5, <2>6
<1>11. ASSUME NEW op \in {"discard", "reject", "redirect"}
       PROVE  HasAction(list, op) <=> HasAction(list0, op)
  <2>1. HasAction(list0, op) <=> HasAction(list1, op)
    BY <1>3, HasActionElem
  <2>2. CASE copying
    <3>1. ASSUME HasAction(list, op) PROVE HasAction(list1, op)
      <4>1. PICK a : Elem(list, a) /\ a.op = op
        BY <3>1, HasActionElem
      <4>2. PICK b \in ActionRecords : /\ Elem(list1, b)
                                       /\ \/ b.op = "fileinto" /\ a = [b EXCEPT !.copy = TRUE]
                                          \/ b.op \notin {"keep", "fileinto"} /\ a = b
        BY <2>2, <4>1, <1>4
      <4>3. b.op = "fileinto" => a.op = "fileinto" \/ a # [b EXCEPT !.copy = TRUE]
        <5> HAVE b.op = "fileinto"
        <5>1. b \in [op : {"fileinto"}, folder : Folders, copy : BOOLEAN, create : BOOLEAN]
          BY ActionKind
        <5> QED
          BY <5>1
      <4>4. a = b
        BY <4>1, <4>2, <4>3
      <4> QED
        BY <4>1, <4>2, <4>4, HasActionElem
    <3>2. ASSUME HasAction(list1, op) PROVE HasAction(list, op)
      <4>1. PICK a : Elem(list1, a) /\ a.op = op
        BY <3>2, HasActionElem
      <4>2. a \in ActionRecords /\ a.op \notin {"keep", "fileinto"}
        BY <4>1, <1>7
      <4>3. Elem(list, a)
        BY <2>2, <4>1, <4>2, <1>4
      <4> QED
        BY <4>1, <4>3, HasActionElem
    <3> QED
      BY <2>1, <3>1, <3>2
  <2>3. CASE ~copying
    BY <2>1, <2>3, <1>4
  <2> QED
    BY <2>2, <2>3
<1>12. HasAction(list, "discard") <=> Interpret(program).final = "discard"
  BY <1>5, <1>11
<1>13. HasAction(list, "discard") => HasStatement(program, "discard") /\ ~keeps
  BY <1>6, <1>12
<1>14. program # << >> /\ program[Len(program)].st = "discard" => HasAction(list, "discard")
  BY <1>6, <1>12
<1>15. HasAction(list, "reject") <=> HasStatement(program, "reject")
  BY <1>5, <1>11
<1>16. HasAction(list, "redirect") <=>
         \E k \in DOMAIN program : program[k].st = "redirect" /\ ~program[k].list
  BY <1>5, <1>11
<1> QED
  BY <1>1, <1>4, <1>9, <1>10, <1>13, <1>14, <1>15, <1>16 DEF keeps

-----------------------------------------------------------------------------
(* How many of the statements become actions                               *)

\* The elements of s that are in A, counted.
Tally(s, A) == Cardinality({i \in DOMAIN s : s[i] \in A})

LEMMA TallyShort ==
  ASSUME NEW A
  PROVE  /\ Tally(<< >>, A) = 0
         /\ \A x : Tally(<<x>>, A) = IF x \in A THEN 1 ELSE 0
<1>1. Tally(<< >>, A) = 0
  <2>1. {i \in DOMAIN << >> : << >>[i] \in A} = {}
    OBVIOUS
  <2> QED
    BY <2>1, FS_EmptySet DEF Tally
<1>2. ASSUME NEW x PROVE Tally(<<x>>, A) = IF x \in A THEN 1 ELSE 0
  <2>1. {i \in DOMAIN <<x>> : <<x>>[i] \in A} = IF x \in A THEN {1} ELSE {}
    OBVIOUS
  <2> QED
    BY <2>1, FS_EmptySet, FS_Singleton DEF Tally
<1> QED
  BY <1>1, <1>2

LEMMA TallyType ==
  ASSUME NEW S, NEW s \in Seq(S), NEW A
  PROVE  /\ IsFiniteSet({i \in DOMAIN s : s[i] \in A})
         /\ Tally(s, A) \in Nat
<1>1. PICK n \in Nat : n = Len(s) /\ DOMAIN s = 1 .. n
  OBVIOUS
<1>2. IsFiniteSet(1 .. n)
  BY FS_Interval
<1>3. {i \in DOMAIN s : s[i] \in A} \in SUBSET (1 .. n)
  BY <1>1
<1>4. IsFiniteSet({i \in DOMAIN s : s[i] \in A})
  BY <1>2, <1>3, FS_Subset
<1> QED
  BY <1>4, FS_CardinalityType DEF Tally

\* A concatenation has no more than its parts.
LEMMA TallyConcat ==
  ASSUME NEW S, NEW s \in Seq(S), NEW t \in Seq(S), NEW A
  PROVE  Tally(s \o t, A) <= Tally(s, A) + Tally(t, A)
<1>1. PICK n \in Nat : n = Len(s) /\ DOMAIN s = 1 .. n
  OBVIOUS
<1>2. PICK m \in Nat : m = Len(t) /\ DOMAIN t = 1 .. m
  OBVIOUS
<1> DEFINE r == s \o t
           I == {i \in DOMAIN s : s[i] \in A}
           J == {i \in DOMAIN t : t[i] \in A}
           R == {i \in DOMAIN r : r[i] \in A}
           K == {i \in R : n < i}
           f == [i \in K |-> i - n]
<1>3. /\ r \in Seq(S) /\ DOMAIN r = 1 .. n + m
      /\ \A i \in 1 .. n + m : r[i] = IF i <= n THEN s[i] ELSE t[i - n]
  BY <1>1, <1>2, ConcatProperties
<1>4. IsFiniteSet(I) /\ IsFiniteSet(J)
  BY TallyType
<1> HIDE DEF r
<1>5. R \subseteq I \cup K
  BY <1>1, <1>3
<1>6. f \in Injection(K, J)
  <2>1. \A i \in K : i \in 1 .. n + m /\ i - n \in 1 .. m /\ t[i - n] \in A
    BY <1>3
  <2>2. f \in [K -> J]
    BY <2>1, <1>2
  <2>3. \A a, b \in K : f[a] = f[b] => a = b
    BY <2>1
  <2> HIDE DEF f, K, J
  <2> QED
    BY <2>2, <2>3 DEF Injection, IsInjective
<1> HIDE DEF I, J, R, K, f
<1>7. IsFiniteSet(K) /\ Cardinality(K) <= Cardinality(J)
  BY <1>4, <1>6, FS_Injection
<1>8. /\ IsFiniteSet(I \cup K)
      /\ Cardinality(I \cup K) = Cardinality(I) + Cardinality(K) - Cardinality(I \cap K)
  BY <1>4, <1>7, FS_Union
<1>9. Cardinality(R) <= Cardinality(I \cup K) /\ Cardinality(R) \in Nat
  BY <1>5, <1>8, FS_Subset, FS_CardinalityType
<1>10. IsFiniteSet(I \cap K)
  BY <1>4, FS_Subset
<1>11. /\ Cardinality(I) \in Nat /\ Cardinality(J) \in Nat /\ Cardinality(K) \in Nat
       /\ Cardinality(I \cap K) \in Nat
  BY <1>4, <1>7, <1>10, FS_CardinalityType
<1>12. Cardinality(R) <= Cardinality(I) + Cardinality(J)
  BY <1>7, <1>8, <1>9, <1>11
<1> QED
  BY <1>12 DEF Tally, r, I, J, R

\* One element more.
LEMMA CountedOneMore ==
  ASSUME NEW J, NEW k \in Nat
  PROVE  /\ IsFiniteSet(J \cap (1 .. k)) /\ Cardinality(J \cap (1 .. k)) \in Nat
         /\ Cardinality(J \cap (1 .. k + 1)) =
              Cardinality(J \cap (1 .. k)) + (IF k + 1 \in J THEN 1 ELSE 0)
<1>1. IsFiniteSet(1 .. k)
  BY FS_Interval
<1>2. IsFiniteSet(J \cap (1 .. k))
  BY <1>1, FS_Subset
<1>3. J \cap (1 .. k + 1) = IF k + 1 \in J THEN (J \cap (1 .. k)) \cup {k + 1} ELSE J \cap (1 .. k)
  OBVIOUS
<1>4. k + 1 \notin J \cap (1 .. k)
  OBVIOUS
<1>5. Cardinality((J \cap (1 .. k)) \cup {k + 1}) = Cardinality(J \cap (1 .. k)) + 1
  BY <1>2, <1>4, FS_AddElement
<1>6. Cardinality(J \cap (1 .. k)) \in Nat
  BY <1>2, FS_CardinalityType
<1> QED
  BY <1>2, <1>3, <1>5, <1>6

\* FlattenSeq of parts of which only those in J have an element in A, and one.
LEMMA FlattenTally ==
  ASSUME NEW S, NEW n \in Nat, NEW seqs \in [1 .. n -> Seq(S)], NEW A, NEW J, J \subseteq 1 .. n,
         \A i \in 1 .. n : Tally(seqs[i], A) <= IF i \in J THEN 1 ELSE 0
  PROVE  Tally(FlattenSeq(seqs), A) <= Cardinality(J)
<1>1. seqs \in Seq(Seq(S)) /\ Len(seqs) = n
  OBVIOUS
<1>2. PICK v : Appends(v, S, n, seqs) /\ FlattenSeq(seqs) = v[n]
  BY <1>1, Flattening
<1>3. v \in [0 .. n -> Seq(S)] /\ v[0] = << >> /\ \A i \in 1 .. n : v[i] = v[i - 1] \o seqs[i]
  BY <1>2 DEF Appends
<1> DEFINE T == {k \in Nat : Tally(v[k], A) <= Cardinality(J \cap (1 .. k))}
<1>4. 0 \in T
  <2>1. J \cap (1 .. 0) = {}
    OBVIOUS
  <2>2. Cardinality(J \cap (1 .. 0)) = 0
    BY <2>1, FS_EmptySet
  <2> QED
    BY <1>3, <2>2, TallyShort
<1>5. ASSUME NEW k \in 0 .. n, k < n, k \in T PROVE k + 1 \in T
  <2>1. k + 1 \in 1 .. n /\ (k + 1) - 1 = k /\ v[k] \in Seq(S) /\ k \in Nat
    BY <1>3, <1>5
  <2>2. v[k + 1] = v[k] \o seqs[k + 1] /\ seqs[k + 1] \in Seq(S)
    BY <1>3, <2>1
  <2>3. Tally(v[k] \o seqs[k + 1], A) <= Tally(v[k], A) + Tally(seqs[k + 1], A)
    BY <2>1, <2>2, TallyConcat
  <2>4. v[k] \o seqs[k + 1] \in Seq(S)
    BY <2>1, <2>2, ConcatProperties
  <2>5. Tally(v[k + 1], A) \in Nat /\ Tally(v[k], A) \in Nat /\ Tally(seqs[k + 1], A) \in Nat
    BY <2>1, <2>2, <2>4, TallyType
  <2>6. Tally(seqs[k + 1], A) <= IF k + 1 \in J THEN 1 ELSE 0
    BY <2>1
  <2>7. /\ Cardinality(J \cap (1 .. k)) \in Nat
        /\ Cardinality(J \cap (1 .. k + 1)) =
             Cardinality(J \cap (1 .. k)) + (IF k + 1 \in J THEN 1 ELSE 0)
    BY <2>1, CountedOneMore
  <2>8. Tally(v[k], A) <= Cardinality(J \cap (1 .. k))
    BY <1>5
  <2>9. Tally(v[k + 1], A) <= Tally(v[k], A) + Tally(seqs[k + 1], A)
    BY <2>2, <2>3
  <2>10. Tally(v[k + 1], A) <= Cardinality(J \cap (1 .. k + 1))
    BY <2>5, <2>6, <2>7, <2>8, <2>9
  <2> QED
    BY <2>1, <2>10
<1>6. \A k \in 0 .. n : k \in T
  <2> HIDE DEF T
  <2> QED
    BY <1>4, <1>5, BoundedInduction
<1>7. n \in 0 .. n
  OBVIOUS
<1>8. J \cap (1 .. n) = J
  BY Zenon
<1> QED
  BY <1>2, <1>6, <1>7, <1>8

\* Events whose statements are in K.
EventsIn(K) == {e \in EventRecord : e.event \in K}

\* The statements that send mail or make copies.
Deliveries == {s \in Statement : s.st \in {"fileinto", "redirect", "reject"}}

\* Each event of a delivery is a statement of the program.
LEMMA EventsTally ==
  ASSUME NEW program \in Seq(Statement), NEW K, K \subseteq Deliveries
  PROVE  Tally(Events(program), EventsIn(K)) <= Tally(program, K)
<1>1. PICK run : Interprets(run, program) /\ Interpret(program) = run[Len(program)]
  BY Interpretation
<1>2. PICK n \in Nat : n = Len(program) /\ DOMAIN program = 1 .. n
  OBVIOUS
<1>3. /\ run \in [0 .. n -> Run]
      /\ run[0] = [flags |-> FALSE, final |-> "keep", events |-> << >>]
      /\ \A i \in 1 .. n : run[i] = Handle(run[i - 1], program[i]) /\ program[i] \in Statement
  BY <1>1, <1>2 DEF Interprets
<1> DEFINE A == EventsIn(K)
           J == {i \in DOMAIN program : program[i] \in K}
           T == {k \in Nat : Tally(run[k].events, A) <= Cardinality(J \cap (1 .. k))}
<1>4. ASSUME NEW s, NEW r \in Seq(EventRecord), NEW y \in EventRecord, s = Append(r, y)
      PROVE  /\ Tally(s, A) \in Nat /\ Tally(r, A) \in Nat
             /\ Tally(s, A) <= Tally(r, A) + (IF y \in A THEN 1 ELSE 0)
  <2>1. s = r \o <<y>> /\ s \in Seq(EventRecord)
    BY <1>4, AppendIsConcat, AppendProperties
  <2>2. <<y>> \in Seq(EventRecord)
    OBVIOUS
  <2> HIDE DEF A
  <2>3. Tally(r \o <<y>>, A) <= Tally(r, A) + Tally(<<y>>, A)
    BY <2>2, TallyConcat
  <2>4. Tally(<<y>>, A) = IF y \in A THEN 1 ELSE 0
    BY TallyShort
  <2>5. Tally(s, A) \in Nat /\ Tally(r, A) \in Nat
    BY <2>1, TallyType
  <2> QED
    BY <2>1, <2>3, <2>4, <2>5
<1>5. 0 \in T
  <2>1. J \cap (1 .. 0) = {}
    OBVIOUS
  <2>2. Cardinality(J \cap (1 .. 0)) = 0
    BY <2>1, FS_EmptySet
  <2>3. run[0].events = << >>
    BY <1>3
  <2> HIDE DEF A, J
  <2> QED
    BY <2>2, <2>3, TallyShort
<1>6. ASSUME NEW k \in 0 .. n, k < n, k \in T PROVE k + 1 \in T
  <2>1. k + 1 \in 1 .. n /\ (k + 1) - 1 = k /\ k \in Nat
    BY <1>6
  <2>2. run[k + 1] = Handle(run[k], program[k + 1]) /\ run[k] \in Run /\ program[k + 1] \in Statement
    BY <1>3, <2>1
  <2>3. run[k].events \in Seq(EventRecord) /\ run[k].flags \in BOOLEAN
    BY <2>2 DEF Run
  <2> DEFINE y == [event |-> program[k + 1], flags |-> run[k].flags]
  <2>4. run[k + 1].events = IF program[k + 1].st \in Immediate THEN Append(run[k].events, y)
                            ELSE run[k].events
    BY <2>2 DEF Handle
  <2>5. y \in EventRecord /\ (y \in A <=> program[k + 1] \in K)
    BY <2>2, <2>3 DEF EventRecord, EventsIn
  <2>6. k + 1 \in J <=> program[k + 1] \in K
    BY <1>2, <2>1
  <2>7. /\ Cardinality(J \cap (1 .. k)) \in Nat
        /\ Cardinality(J \cap (1 .. k + 1)) =
             Cardinality(J \cap (1 .. k)) + (IF k + 1 \in J THEN 1 ELSE 0)
    <3> HIDE DEF J
    <3> QED
      BY <2>1, CountedOneMore
  <2>8. Tally(run[k].events, A) <= Cardinality(J \cap (1 .. k)) /\ Tally(run[k].events, A) \in Nat
    <3>1. Tally(run[k].events, A) <= Cardinality(J \cap (1 .. k))
      BY <1>6
    <3> HIDE DEF A, J, T
    <3> QED
      BY <2>3, <3>1, TallyType
  <2>9. Tally(run[k + 1].events, A) <= Cardinality(J \cap (1 .. k + 1))
    <3>1. CASE program[k + 1].st \in Immediate
      <4>1. run[k + 1].events = Append(run[k].events, y)
        BY <2>4, <3>1
      <4>2. /\ Tally(run[k + 1].events, A) \in Nat
            /\ Tally(run[k + 1].events, A) <= Tally(run[k].events, A) + (IF y \in A THEN 1 ELSE 0)
        <5> HIDE DEF y, A, J, T
        <5> QED
          BY <1>4, <2>3, <2>5, <4>1
      <4> HIDE DEF y, A, J, T
      <4> QED
        BY <2>5, <2>6, <2>7, <2>8, <4>2
    <3>2. CASE program[k + 1].st \notin Immediate
      <4>1. run[k + 1].events = run[k].events
        BY <2>4, <3>2
      <4> HIDE DEF y, A, J, T
      <4> QED
        BY <2>7, <2>8, <4>1
    <3> QED
      BY <3>1, <3>2
  <2> QED
    BY <2>1, <2>9
<1>7. \A k \in 0 .. n : k \in T
  <2> HIDE DEF T
  <2> QED
    BY <1>5, <1>6, BoundedInduction
<1>8. Tally(run[n].events, A) <= Tally(program, K)
  <2>1. n \in 0 .. n
    OBVIOUS
  <2>2. J \subseteq 1 .. n
    BY <1>2
  <2>3. J \cap (1 .. n) = J
    BY <2>2, Zenon
  <2>4. Tally(run[n].events, A) <= Cardinality(J \cap (1 .. n))
    BY <1>7, <2>1
  <2> QED
    BY <2>3, <2>4 DEF Tally
<1>9. CASE run[n].final = "none"
  <2>1. Events(program) = run[n].events
    BY <1>1, <1>2, <1>9 DEF Events
  <2> QED
    BY <1>8, <2>1
<1>10. CASE run[n].final # "none"
  <2> DEFINE y == [event |-> [st |-> run[n].final], flags |-> run[n].flags]
  <2>1. Events(program) = Append(run[n].events, y)
    BY <1>1, <1>2, <1>10 DEF Events
  <2>2. run[n] \in Run
    BY <1>3
  <2>3. /\ run[n].events \in Seq(EventRecord) /\ run[n].flags \in BOOLEAN
        /\ run[n].final \in {"keep", "discard"}
    BY <1>10, <2>2 DEF Run
  <2>4. y \in EventRecord
    BY <2>3 DEF EventRecord, Statement
  <2>5. y \notin A
    <3>1. y.event.st \in {"keep", "discard"}
      BY <2>3
    <3> QED
      BY <3>1 DEF EventsIn, Deliveries
  <2> HIDE DEF y, A
  <2>6. /\ Tally(Events(program), A) \in Nat /\ Tally(run[n].events, A) \in Nat
        /\ Tally(Events(program), A) <= Tally(run[n].events, A) + 0
    BY <1>4, <2>1, <2>3, <2>4, <2>5
  <2>7. Tally(program, K) \in Nat
    BY TallyType
  <2>8. Tally(Events(program), A) <= Tally(program, K)
    BY <1>8, <2>6, <2>7
  <2> QED
    BY <2>8 DEF A
<1> QED
  BY <1>9, <1>10

\* The actions in A are those of statements in K, as copies or not, and none of
\* them is what evaluate supplies.
Stems(A, K) ==
  /\ K \subseteq Deliveries
  /\ \A op \in {"setflag", "keep"} : [op |-> op] \notin A
  /\ \A s \in Statement : /\ s.st = "fileinto" /\ Filed(s) \in A => s \in K
                          /\ Plain(s) /\ [op |-> s.st] \in A => s \in K
  /\ \A a \in ActionRecords : a.op = "fileinto" /\ [a EXCEPT !.copy = TRUE] \in A => a \in A

\* An event adds one action at most.
LEMMA ActionsTally ==
  ASSUME NEW e \in EventRecord, NEW A, NEW K, Stems(A, K)
  PROVE  Tally(ActionsOf(e), A) <= IF e \in EventsIn(K) THEN 1 ELSE 0
<1> DEFINE s == e.event
           own == CASE s.st = "fileinto" -> <<Filed(s)>>
                    [] s.st = "include" \/ (s.st = "redirect" /\ s.list) -> << >>
                    [] OTHER -> <<[op |-> s.st]>>
<1>1. s \in Statement
  BY DEF EventRecord
<1>2. ActionsOf(e) = Flagged(e) \o own
  BY DEF ActionsOf, Filed
<1>3. PICK S : Flagged(e) \in Seq(S) /\ own \in Seq(S)
  <2> DEFINE x == [op |-> "setflag"]
             y == [op |-> s.st]
             z == Filed(s)
             S == {x, y, z}
  <2>1. \A w \in S : <<w>> \in Seq(S)
    OBVIOUS
  <2>2. Flagged(e) = << >> \/ Flagged(e) = <<x>>
    BY DEF Flagged
  <2>3. own = << >> \/ own = <<y>> \/ own = <<z>>
    <3> HIDE DEF y, z
    <3>1. CASE s.st = "fileinto"
      BY <3>1 DEF z
    <3>2. CASE s.st = "include" \/ (s.st = "redirect" /\ s.list)
      BY <3>2
    <3>3. CASE s.st \notin {"fileinto", "include"} /\ ~(s.st = "redirect" /\ s.list)
      BY <3>3 DEF y
    <3> QED
      BY <3>1, <3>2, <3>3
  <2>4. x \in S /\ y \in S /\ z \in S /\ << >> \in Seq(S)
    OBVIOUS
  <2> HIDE DEF x, y, z, S, own
  <2> QED
    BY <2>1, <2>2, <2>3, <2>4
<1>4. Tally(Flagged(e), A) = 0
  <2>1. [op |-> "setflag"] \notin A
    BY DEF Stems
  <2>2. Flagged(e) = << >> \/ Flagged(e) = <<[op |-> "setflag"]>>
    BY DEF Flagged
  <2> QED
    BY <2>1, <2>2, TallyShort
<1>5. Tally(own, A) <= IF e \in EventsIn(K) THEN 1 ELSE 0
  <2>1. ASSUME NEW x, x \in A => s \in K
        PROVE  Tally(<<x>>, A) <= IF e \in EventsIn(K) THEN 1 ELSE 0
    <3>1. Tally(<<x>>, A) = IF x \in A THEN 1 ELSE 0
      BY TallyShort
    <3>2. x \in A => e \in EventsIn(K)
      BY <2>1 DEF EventsIn
    <3> QED
      BY <3>1, <3>2
  <2>2. Tally(<< >>, A) <= IF e \in EventsIn(K) THEN 1 ELSE 0
    BY TallyShort
  <2>3. CASE s.st = "fileinto"
    <3>1. Filed(s) \in A => s \in K
      BY <1>1, <2>3 DEF Stems
    <3>2. own = <<Filed(s)>>
      BY <2>3
    <3> HIDE DEF own, s
    <3> QED
      BY <2>1, <3>1, <3>2
  <2>4. CASE s.st = "include" \/ (s.st = "redirect" /\ s.list)
    <3>1. own = << >>
      BY <2>4
    <3> QED
      BY <2>2, <3>1
  <2>5. CASE s.st \notin {"fileinto", "include"} /\ ~(s.st = "redirect" /\ s.list)
    <3>1. Plain(s)
      BY <2>5 DEF Plain
    <3>2. [op |-> s.st] \in A => s \in K
      BY <1>1, <3>1 DEF Stems
    <3>3. own = <<[op |-> s.st]>>
      BY <2>5
    <3> HIDE DEF own, s
    <3> QED
      BY <2>1, <3>2, <3>3
  <2> QED
    BY <2>3, <2>4, <2>5
<1> HIDE DEF own
<1>6. Tally(Flagged(e) \o own, A) <= Tally(Flagged(e), A) + Tally(own, A)
  BY <1>3, TallyConcat
<1>7. Flagged(e) \o own \in Seq(S)
  BY <1>3, ConcatProperties
<1>8. Tally(Flagged(e) \o own, A) \in Nat /\ Tally(own, A) \in Nat
  BY <1>3, <1>7, TallyType
<1> QED
  BY <1>2, <1>4, <1>5, <1>6, <1>8

\* A keep that is supplied adds none, nor does looking for copies.
LEMMA KeepTally ==
  ASSUME NEW list \in Seq(ActionRecords), NEW A, NEW K, Stems(A, K)
  PROVE  Tally(ImplicitKeep(list), A) <= Tally(list, A)
<1> DEFINE y == [op |-> "keep"]
<1>1. y \in ActionRecords /\ y \notin A
  BY DEF ActionRecords, Stems
<1>2. ImplicitKeep(list) = list \/ ImplicitKeep(list) = Append(list, y)
  BY DEF ImplicitKeep
<1> HIDE DEF y
<1>3. Append(list, y) = list \o <<y>> /\ Append(list, y) \in Seq(ActionRecords)
  BY <1>1, AppendIsConcat, AppendProperties
<1>4. <<y>> \in Seq(ActionRecords)
  BY <1>1
<1>5. Tally(list \o <<y>>, A) <= Tally(list, A) + Tally(<<y>>, A)
  BY <1>4, TallyConcat
<1>6. Tally(<<y>>, A) = 0
  BY <1>1, TallyShort
<1>7. Tally(list, A) \in Nat /\ Tally(Append(list, y), A) \in Nat
  BY <1>3, TallyType
<1>8. Tally(Append(list, y), A) <= Tally(list, A)
  BY <1>3, <1>5, <1>6, <1>7
<1>9. CASE ImplicitKeep(list) = list
  BY <1>7, <1>9
<1>10. CASE ImplicitKeep(list) = Append(list, y)
  BY <1>8, <1>10
<1> QED
  BY <1>2, <1>9, <1>10

LEMMA CopyTally ==
  ASSUME NEW list \in Seq(ActionRecords), NEW A, NEW K, Stems(A, K)
  PROVE  Tally(CopyDetection(list), A) <= Tally(list, A)
<1>1. PICK n \in Nat : n = Len(list) /\ DOMAIN list = 1 .. n
  OBVIOUS
<1> DEFINE part(b) == CASE b.op = "keep"     -> << >>
                        [] b.op = "fileinto" -> <<[b EXCEPT !.copy = TRUE]>>
                        [] OTHER             -> <<b>>
           seqs == [i \in 1 .. n |-> part(list[i])]
           J == {i \in DOMAIN list : list[i] \in A}
<1>2. CASE ~(HasAction(list, "fileinto") /\ HasAction(list, "keep"))
  <2>1. CopyDetection(list) = list
    BY <1>2 DEF CopyDetection
  <2>2. Tally(list, A) \in Nat
    BY TallyType
  <2> QED
    BY <2>1, <2>2
<1>3. CASE HasAction(list, "fileinto") /\ HasAction(list, "keep")
  <2>1. CopyDetection(list) = FlattenSeq(seqs)
    BY <1>1, <1>3 DEF CopyDetection
  <2>2. ASSUME NEW b \in ActionRecords
        PROVE  /\ part(b) \in Seq(ActionRecords)
               /\ Tally(part(b), A) <= IF b \in A THEN 1 ELSE 0
    <3>1. ASSUME NEW a \in ActionRecords, a \in A => b \in A
          PROVE  <<a>> \in Seq(ActionRecords) /\ Tally(<<a>>, A) <= IF b \in A THEN 1 ELSE 0
      <4>1. Tally(<<a>>, A) = IF a \in A THEN 1 ELSE 0
        BY TallyShort
      <4>2. <<a>> \in Seq(ActionRecords)
        OBVIOUS
      <4> QED
        BY <3>1, <4>1, <4>2
    <3>2. CASE b.op = "keep"
      <4>1. part(b) = << >>
        BY <3>2
      <4>2. << >> \in Seq(ActionRecords)
        OBVIOUS
      <4> HIDE DEF part
      <4> QED
        BY <4>1, <4>2, TallyShort
    <3>3. CASE b.op = "fileinto"
      <4>1. part(b) = <<[b EXCEPT !.copy = TRUE]>>
        BY <3>3
      <4>2. PICK a \in ActionRecords : a = [b EXCEPT !.copy = TRUE]
        BY <3>3, ActionKind
      <4>3. a \in A => b \in A
        BY <3>3, <4>2 DEF Stems
      <4> HIDE DEF part
      <4> QED
        BY <3>1, <4>1, <4>2, <4>3
    <3>4. CASE b.op \notin {"keep", "fileinto"}
      <4>1. part(b) = <<b>>
        BY <3>4
      <4> HIDE DEF part
      <4> QED
        BY <3>1, <4>1
    <3> QED
      BY <3>2, <3>3, <3>4
  <2>3. \A i \in 1 .. n : list[i] \in ActionRecords
    BY <1>1
  <2> HIDE DEF part
  <2>4. seqs \in [1 .. n -> Seq(ActionRecords)]
    BY <2>2, <2>3
  <2>5. \A i \in 1 .. n : Tally(seqs[i], A) <= IF i \in J THEN 1 ELSE 0
    BY <1>1, <2>2, <2>3
  <2>6. J \subseteq 1 .. n
    BY <1>1
  <2> HIDE DEF seqs, J
  <2>7. Tally(FlattenSeq(seqs), A) <= Cardinality(J)
    BY <2>4, <2>5, <2>6, FlattenTally
  <2> QED
    BY <2>1, <2>7 DEF Tally, J
<1> QED
  BY <1>2, <1>3

\* What evaluate returns has no more deliveries than the script.
LEMMA EvaluateTally ==
  ASSUME NEW program \in Seq(Statement), NEW A, NEW K, Stems(A, K)
  PROVE  Tally(Evaluate(program), A) <= Tally(program, K)
<1> DEFINE events == Events(program)
           list0 == Translated(program)
           list1 == ImplicitKeep(list0)
           J == {i \in DOMAIN events : events[i] \in EventsIn(K)}
<1>1. events \in Seq(EventRecord)
  BY AllEvents
<1>2. PICK n \in Nat : n = Len(events) /\ DOMAIN events = 1 .. n
  BY <1>1
<1>3. list0 \in Seq(ActionRecords)
  BY TranslatedElements
<1>4. list1 \in Seq(ActionRecords)
  BY <1>3, ImplicitKeepElements
<1>5. Tally(list0, A) <= Tally(events, EventsIn(K))
  <2> DEFINE seqs == [i \in 1 .. n |-> ActionsOf(events[i])]
  <2>1. list0 = FlattenSeq(seqs)
    BY <1>2 DEF Translated
  <2>2. \A i \in 1 .. n : events[i] \in EventRecord
    BY <1>1, <1>2
  <2> HIDE DEF events
  <2>3. seqs \in [1 .. n -> Seq(ActionRecords)]
    BY <2>2, EventActions
  <2>4. \A i \in 1 .. n : Tally(seqs[i], A) <= IF i \in J THEN 1 ELSE 0
    BY <1>2, <2>2, ActionsTally
  <2>5. J \subseteq 1 .. n
    BY <1>2
  <2> HIDE DEF seqs, J
  <2>6. Tally(FlattenSeq(seqs), A) <= Cardinality(J)
    BY <2>3, <2>4, <2>5, FlattenTally
  <2> HIDE DEF list0
  <2> QED
    BY <2>1, <2>6 DEF Tally, J
<1>6. Tally(events, EventsIn(K)) <= Tally(program, K)
  BY EventsTally DEF Stems
<1>7. Tally(list1, A) <= Tally(list0, A)
  BY <1>3, KeepTally
<1>8. Tally(CopyDetection(list1), A) <= Tally(list1, A) /\ CopyDetection(list1) \in Seq(ActionRecords)
  BY <1>4, CopyTally, CopyDetectionElements
<1>9. Evaluate(program) = CopyDetection(list1)
  BY DEF Evaluate, Translated
<1> HIDE DEF events, list0, list1
<1>10. /\ Tally(program, K) \in Nat /\ Tally(events, EventsIn(K)) \in Nat /\ Tally(list0, A) \in Nat
       /\ Tally(list1, A) \in Nat /\ Tally(CopyDetection(list1), A) \in Nat
  BY <1>1, <1>3, <1>4, <1>8, TallyType
<1> QED
  BY <1>5, <1>6, <1>7, <1>8, <1>9, <1>10

\* A script's redirects, rejects and filings are each carried out once at most:
\* evaluate makes no second action of a statement.
THEOREM NothingTwice ==
  ASSUME NEW program \in Seq(Statement)
  PROVE  LET list == Evaluate(program) IN
         /\ \A st \in {"redirect", "reject"} :
              Cardinality({i \in DOMAIN list : list[i].op = st})
                <= Cardinality({i \in DOMAIN program : program[i].st = st})
         /\ \A f \in Folders :
              Cardinality({i \in DOMAIN list : list[i].op = "fileinto" /\ list[i].folder = f})
                <= Cardinality({i \in DOMAIN program : program[i].st = "fileinto" /\ program[i].folder = f})
<1> DEFINE list == Evaluate(program)
<1>1. list \in Seq(ActionRecords)
  BY Evaluation
<1>2. /\ \A i \in DOMAIN list : list[i] \in ActionRecords
      /\ \A i \in DOMAIN program : program[i] \in Statement
  <2> HIDE DEF list
  <2> QED
    BY <1>1
<1> HIDE DEF list
<1>3. ASSUME NEW st \in {"redirect", "reject"}
      PROVE  Cardinality({i \in DOMAIN list : list[i].op = st})
               <= Cardinality({i \in DOMAIN program : program[i].st = st})
  <2> DEFINE A == {a \in ActionRecords : a.op = st}
             K == {s \in Statement : s.st = st}
  <2>1. Stems(A, K)
    <3>1. K \subseteq Deliveries
      BY DEF Deliveries
    <3>2. \A op \in {"setflag", "keep"} : [op |-> op] \notin A
      OBVIOUS
    <3>3. ASSUME NEW s \in Statement
          PROVE  /\ s.st = "fileinto" /\ Filed(s) \in A => s \in K
                 /\ Plain(s) /\ [op |-> s.st] \in A => s \in K
      BY DEF Filed
    <3>4. ASSUME NEW a \in ActionRecords, a.op = "fileinto"
          PROVE  [a EXCEPT !.copy = TRUE] \notin A
      <4>1. a \in [op : {"fileinto"}, folder : Folders, copy : BOOLEAN, create : BOOLEAN]
        BY <3>4, ActionKind
      <4>2. [a EXCEPT !.copy = TRUE].op = "fileinto"
        BY <4>1
      <4> QED
        BY <4>2
    <3> HIDE DEF A, K
    <3> QED
      BY <3>1, <3>2, <3>3, <3>4 DEF Stems
  <2>2. {i \in DOMAIN list : list[i].op = st} = {i \in DOMAIN list : list[i] \in A}
    BY <1>2
  <2>3. {i \in DOMAIN program : program[i].st = st} = {i \in DOMAIN program : program[i] \in K}
    BY <1>2
  <2> HIDE DEF A, K
  <2>4. Tally(list, A) <= Tally(program, K)
    BY <2>1, EvaluateTally DEF list
  <2> QED
    BY <2>2, <2>3, <2>4 DEF Tally
<1>4. ASSUME NEW f \in Folders
      PROVE  Cardinality({i \in DOMAIN list : list[i].op = "fileinto" /\ list[i].folder = f})
               <= Cardinality({i \in DOMAIN program : program[i].st = "fileinto" /\ program[i].folder = f})
  <2> DEFINE A == {a \in ActionRecords : a.op = "fileinto" /\ a.folder = f}
             K == {s \in Statement : s.st = "fileinto" /\ s.folder = f}
  <2>1. Stems(A, K)
    <3>1. K \subseteq Deliveries
      BY DEF Deliveries
    <3>2. \A op \in {"setflag", "keep"} : [op |-> op] \notin A
      OBVIOUS
    <3>3. ASSUME NEW s \in Statement
          PROVE  /\ s.st = "fileinto" /\ Filed(s) \in A => s \in K
                 /\ Plain(s) /\ [op |-> s.st] \in A => s \in K
      BY DEF Filed, Plain
    <3>4. ASSUME NEW a \in ActionRecords, a.op = "fileinto", [a EXCEPT !.copy = TRUE] \in A
          PROVE  a \in A
      <4>1. a \in [op : {"fileinto"}, folder : Folders, copy : BOOLEAN, create : BOOLEAN]
        BY <3>4, ActionKind
      <4>2. [a EXCEPT !.copy = TRUE].folder = a.folder
        BY <4>1
      <4> QED
        BY <3>4, <4>2
    <3> HIDE DEF A, K
    <3> QED
      BY <3>1, <3>2, <3>3, <3>4 DEF Stems
  <2>2. {i \in DOMAIN list : list[i].op = "fileinto" /\ list[i].folder = f}
          = {i \in DOMAIN list : list[i] \in A}
    BY <1>2
  <2>3. {i \in DOMAIN program : program[i].st = "fileinto" /\ program[i].folder = f}
          = {i \in DOMAIN program : program[i] \in K}
    BY <1>2
  <2> HIDE DEF A, K
  <2>4. Tally(list, A) <= Tally(program, K)
    BY <2>1, EvaluateTally DEF list
  <2> QED
    BY <2>2, <2>3, <2>4 DEF Tally
<1> QED
  BY <1>3, <1>4 DEF list
=============================================================================
