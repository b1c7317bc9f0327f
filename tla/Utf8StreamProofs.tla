--------------------------- MODULE Utf8StreamProofs ---------------------------
(***************************************************************************)
(* Proofs about the reassembly of characters. Drained is recursive, and    *)
(* what it computes is proved by induction over the length of the bytes.   *)
(***************************************************************************)
EXTENDS Utf8Stream, SequenceTheorems, WellFoundedInduction, TLAPS

Out == Bytes \cup {Replacement}
Parts == [out : Seq(Out), rest : Seq(Bytes)]

(* A set that a number is in if all smaller numbers are holds all numbers. *)
LEMMA SetInduction ==
  ASSUME NEW T, \A n \in Nat : (\A m \in 0 .. n - 1 : m \in T) => n \in T
  PROVE  Nat \subseteq T
<1>. SUFFICES ASSUME Nat \ T # {} PROVE FALSE
  OBVIOUS
<1>1. PICK n \in Nat \ T : \A m \in Nat \ T : <<m, n>> \notin OpToRel(<, Nat)
  BY NatLessThanWellFounded, WFMin, Zenon
<1>2. \A m \in Nat \ T : ~(m < n)
  BY <1>1, Zenon DEF OpToRel
<1>3. \A m \in 0 .. n - 1 : m \in T
  BY <1>2
<1>. QED
  BY <1>1, <1>3

(* One iteration passes at least one byte of s, and no more than it has.   *)
LEMMA LoopStep ==
  ASSUME NEW s \in Seq(Bytes), s # <<>>
  PROVE  /\ Taken(s) \in 1 .. Len(s)
         /\ Piece(s) \in Seq(Out)
         /\ After(s) \in Seq(Bytes)
         /\ Len(After(s)) = Len(s) - Taken(s)
<1>1. Len(s) \in Nat \ {0} /\ \A i \in 1 .. Len(s) : s[i] \in Bytes
  OBVIOUS
<1>2. Taken(s) \in 1 .. Len(s)
  BY <1>1 DEF Taken, Whole, Width
<1>3. Piece(s) \in Seq(Out)
  <2>1. CASE Whole(s)
    BY <1>1, <1>2, <2>1, SubSeqProperties DEF Piece, Out
  <2>2. CASE ~Whole(s)
    BY <2>2 DEF Piece, Out
  <2>. QED
    BY <2>1, <2>2
<1>4. After(s) \in Seq(Bytes) /\ Len(After(s)) = Len(s) - Taken(s)
  BY <1>1, <1>2, SubSeqProperties DEF After
<1>. QED
  BY <1>2, <1>3, <1>4

(***************************************************************************)
(* Drained exists: its equation has a solution on the sequences up to each *)
(* length, two solutions agree, and together they make one on all.         *)
(***************************************************************************)
UpTo(n) == {s \in Seq(Bytes) : Len(s) <= n}

(* What the equation gives for s, g being what it gives for shorter ones.  *)
Step(g, s) ==
  IF s = <<>> \/ Awaits(s) THEN [out |-> <<>>, rest |-> s]
  ELSE [out |-> Piece(s) \o g[After(s)].out, rest |-> g[After(s)].rest]

Solves(g, n) == g \in [UpTo(n) -> Parts] /\ \A s \in UpTo(n) : g[s] = Step(g, s)

(* The equation refers to shorter sequences only, and keeps the type.      *)
LEMMA StepLocal ==
  ASSUME NEW s \in Seq(Bytes), NEW g, NEW h,
         \A r \in Seq(Bytes) : Len(r) < Len(s) => g[r] = h[r] /\ g[r] \in Parts
  PROVE  Step(g, s) = Step(h, s) /\ Step(g, s) \in Parts
<1>1. CASE s = <<>> \/ Awaits(s)
  BY <1>1, EmptySeq DEF Step, Parts
<1>2. CASE ~(s = <<>> \/ Awaits(s))
  <2>1. After(s) \in Seq(Bytes) /\ Len(After(s)) < Len(s) /\ Piece(s) \in Seq(Out)
    BY <1>2, LoopStep
  <2>2. g[After(s)] = h[After(s)] /\ g[After(s)] \in Parts
    BY <2>1
  <2>3. Piece(s) \o g[After(s)].out \in Seq(Out)
    BY <2>1, <2>2, ConcatProperties DEF Parts
  <2>. QED
    BY <1>2, <2>2, <2>3 DEF Step, Parts
<1>. QED
  BY <1>1, <1>2

(* Two solutions agree where both are defined.                             *)
LEMMA SolutionsAgree ==
  ASSUME NEW n \in Nat, NEW m \in Nat, NEW g, NEW h, Solves(g, n), Solves(h, m)
  PROVE  \A s \in UpTo(n) \cap UpTo(m) : g[s] = h[s]
<1>. DEFINE T == {k \in Nat : \A s \in UpTo(n) \cap UpTo(m) : Len(s) = k => g[s] = h[s]}
<1>1. ASSUME NEW k \in Nat, \A j \in 0 .. k - 1 : j \in T
      PROVE  k \in T
  <2>. SUFFICES ASSUME NEW s \in UpTo(n) \cap UpTo(m), Len(s) = k
                PROVE  g[s] = h[s]
    OBVIOUS
  <2>1. ASSUME NEW r \in Seq(Bytes), Len(r) < Len(s)
        PROVE  g[r] = h[r] /\ g[r] \in Parts
    <3>1. r \in UpTo(n) \cap UpTo(m) /\ Len(r) \in 0 .. k - 1
      BY <2>1 DEF UpTo
    <3>. QED
      BY <1>1, <3>1 DEF Solves
  <2>2. Step(g, s) = Step(h, s)
    BY <2>1, StepLocal DEF UpTo
  <2>. QED
    BY <2>2 DEF Solves
<1>2. Nat \subseteq T
  <2>. HIDE DEF T
  <2>. QED
    BY <1>1, SetInduction
<1>. QED
  BY <1>2 DEF UpTo

(* There is a solution on the sequences up to every length.                *)
LEMMA SolutionExists == \A n \in Nat : \E g : Solves(g, n)
<1>. DEFINE T == {n \in Nat : \E g : Solves(g, n)}
<1>1. ASSUME NEW n \in Nat, \A m \in 0 .. n - 1 : m \in T
      PROVE  n \in T
  <2>1. PICK g : \A r \in UpTo(n - 1) : g[r] \in Parts /\ g[r] = Step(g, r)
    <3>1. CASE n = 0
      BY <3>1 DEF UpTo
    <3>2. CASE n # 0
      BY <1>1, <3>2 DEF Solves
    <3>. QED
      BY <3>1, <3>2
  <2>. DEFINE h == [s \in UpTo(n) |-> Step(g, s)]
  <2>2. ASSUME NEW s \in UpTo(n)
        PROVE  h[s] = Step(h, s) /\ h[s] \in Parts
    <3>1. ASSUME NEW r \in Seq(Bytes), Len(r) < Len(s)
          PROVE  g[r] = h[r] /\ g[r] \in Parts
      <4>1. r \in UpTo(n - 1) /\ r \in UpTo(n)
        BY <3>1 DEF UpTo
      <4>. QED
        BY <2>1, <4>1
    <3>. HIDE DEF h
    <3>2. Step(g, s) = Step(h, s) /\ Step(g, s) \in Parts
      BY <3>1, StepLocal DEF UpTo
    <3>. QED
      BY <3>2 DEF h
  <2>3. Solves(h, n)
    BY <2>2 DEF Solves
  <2>. QED
    BY <2>3
<1>2. Nat \subseteq T
  <2>. HIDE DEF T
  <2>. QED
    BY <1>1, SetInduction
<1>. QED
  BY <1>2

(* Drained satisfies its equation, and gives a sequence of bytes and       *)
(* replacements to put out and a sequence of bytes to keep.                *)
LEMMA DrainedEquation ==
  ASSUME NEW s \in Seq(Bytes)
  PROVE  Drained[s] = Step(Drained, s) /\ Drained[s] \in Parts
<1>. DEFINE G(n) == CHOOSE g : Solves(g, n)
            F == [r \in Seq(Bytes) |-> G(Len(r))[r]]
<1>1. \A n \in Nat : Solves(G(n), n)
  BY SolutionExists
<1>2. ASSUME NEW r \in Seq(Bytes), NEW n \in Nat, Len(r) <= n
      PROVE  F[r] = G(n)[r] /\ F[r] \in Parts
  <2>1. r \in UpTo(n) \cap UpTo(Len(r)) /\ Len(r) \in Nat
    BY <1>2 DEF UpTo
  <2>. HIDE DEF G
  <2>2. G(n)[r] = G(Len(r))[r]
    BY <1>1, <2>1, SolutionsAgree
  <2>3. G(n)[r] \in Parts
    BY <1>1, <2>1 DEF Solves
  <2>. QED
    BY <2>2, <2>3
<1>. HIDE DEF G
<1>3. ASSUME NEW r \in Seq(Bytes)
      PROVE  F[r] = Step(F, r) /\ F[r] \in Parts
  <2>1. Len(r) \in Nat /\ r \in UpTo(Len(r))
    BY DEF UpTo
  <2>2. F[r] = Step(G(Len(r)), r)
    BY <1>1, <2>1 DEF Solves
  <2>. HIDE DEF F
  <2>3. \A q \in Seq(Bytes) : Len(q) < Len(r) => F[q] = G(Len(r))[q] /\ F[q] \in Parts
    BY <1>2, <2>1
  <2>4. Step(F, r) = Step(G(Len(r)), r)
    BY <2>3, StepLocal
  <2>. QED
    BY <1>2, <2>1, <2>2, <2>4
<1>4. F = [r \in Seq(Bytes) |->
             IF r = <<>> \/ Awaits(r) THEN [out |-> <<>>, rest |-> r]
             ELSE [out |-> Piece(r) \o F[After(r)].out, rest |-> F[After(r)].rest]]
  <2>1. F = [r \in Seq(Bytes) |-> F[r]]
    OBVIOUS
  <2>. HIDE DEF F
  <2>2. \A r \in Seq(Bytes) : F[r] = Step(F, r)
    BY <1>3
  <2>. QED
    BY <2>1, <2>2, Zenon DEF Step
<1>. HIDE DEF F
<1>5. Drained = [r \in Seq(Bytes) |->
             IF r = <<>> \/ Awaits(r) THEN [out |-> <<>>, rest |-> r]
             ELSE [out  |-> Piece(r) \o Drained[After(r)].out,
                   rest |-> Drained[After(r)].rest]]
  BY <1>4, Zenon DEF Drained
<1>6. \A r \in Seq(Bytes) : Drained[r] = Step(Drained, r)
  BY <1>5, Zenon DEF Step
<1>. DEFINE T == {n \in Nat : \A r \in Seq(Bytes) : Len(r) = n => Drained[r] \in Parts}
<1>7. ASSUME NEW n \in Nat, \A m \in 0 .. n - 1 : m \in T
      PROVE  n \in T
  <2>. SUFFICES ASSUME NEW r \in Seq(Bytes), Len(r) = n
                PROVE  Drained[r] \in Parts
    OBVIOUS
  <2>1. \A q \in Seq(Bytes) : Len(q) < Len(r) => Drained[q] \in Parts
    BY <1>7
  <2>. QED
    BY <1>6, <2>1, StepLocal
<1>8. Nat \subseteq T
  <2>. HIDE DEF T
  <2>. QED
    BY <1>7, SetInduction
<1>. QED
  BY <1>6, <1>8

(* What is put out and kept, by cases: the loop stops, or goes on after a  *)
(* step; in both the two are sequences.                                    *)
LEMMA DrainedStops ==
  ASSUME NEW s \in Seq(Bytes), s = <<>> \/ Awaits(s)
  PROVE  Drained[s].out = <<>> /\ Drained[s].rest = s
<1>1. Drained[s] = [out |-> <<>>, rest |-> s]
  BY DrainedEquation DEF Step
<1>. QED
  BY <1>1

(* Else it puts out the piece and goes on behind it.                       *)
LEMMA DrainedGoesOn ==
  ASSUME NEW s \in Seq(Bytes), s # <<>>, ~Awaits(s)
  PROVE  /\ Drained[s].out = Piece(s) \o Drained[After(s)].out
         /\ Drained[s].rest = Drained[After(s)].rest
<1>. DEFINE out == Piece(s) \o Drained[After(s)].out
            rest == Drained[After(s)].rest
<1>1. Drained[s] = [out |-> out, rest |-> rest]
  BY DrainedEquation, Zenon DEF Step
<1>. HIDE DEF out, rest
<1>2. Drained[s].out = out /\ Drained[s].rest = rest
  BY <1>1
<1>. QED
  BY <1>2 DEF out, rest

(* What is put out and what is kept are sequences.                         *)
LEMMA DrainedTypes ==
  ASSUME NEW s \in Seq(Bytes)
  PROVE  Drained[s].out \in Seq(Out) /\ Drained[s].rest \in Seq(Bytes)
BY DrainedEquation DEF Parts

(* Bytes that arrive later do not change what the loop does at the start   *)
(* of s, unless it stops there.                                            *)
LEMMA StepOfConcat ==
  ASSUME NEW s \in Seq(Bytes), NEW t \in Seq(Bytes), s # <<>>, ~Awaits(s)
  PROVE  /\ s \o t \in Seq(Bytes) /\ s \o t # <<>> /\ ~Awaits(s \o t)
         /\ Whole(s \o t) <=> Whole(s)
         /\ Piece(s \o t) = Piece(s) /\ After(s \o t) = After(s) \o t
<1>1. /\ Len(s) \in Nat \ {0} /\ Len(t) \in Nat
      /\ s \o t \in Seq(Bytes) /\ Len(s \o t) = Len(s) + Len(t)
      /\ \A i \in 1 .. Len(s) : (s \o t)[i] = s[i] /\ s[i] \in Bytes
      /\ \A i \in 1 .. Len(t) : (s \o t)[Len(s) + i] = t[i] /\ t[i] \in Bytes
  BY ConcatProperties
<1>2. Width(s[1]) \in 1 .. 4 /\ Width((s \o t)[1]) = Width(s[1])
  BY <1>1 DEF Width
<1>3. Whole(s \o t) <=> Whole(s)
  BY <1>1, <1>2 DEF Whole, Awaits
<1>4. ~Awaits(s \o t)
  BY <1>1, <1>2 DEF Awaits
<1>5. Taken(s \o t) = Taken(s) /\ Taken(s) \in 1 .. Len(s)
  BY <1>2, <1>3, LoopStep DEF Taken
<1>6. Piece(s \o t) = Piece(s)
  <2>1. SubSeq(s \o t, 1, Taken(s)) = SubSeq(s, 1, Taken(s))
    BY <1>1, <1>5, SubSeqOfConcat1
  <2>. QED
    BY <1>3, <1>5, <2>1, Zenon DEF Piece
<1>7. After(s \o t) = After(s) \o t
  <2>. DEFINE w == Taken(s)
              n == Len(s) + Len(t)
  <2>1. /\ After(s) \in Seq(Bytes) /\ Len(After(s)) = Len(s) - w
        /\ \A i \in 1 .. Len(s) - w : After(s)[i] = s[w + i]
    BY <1>1, <1>5, SubSeqProperties, LoopStep DEF After
  <2>2. After(s \o t) = SubSeq(s \o t, w + 1, n)
    BY <1>1, <1>5 DEF After
  <2>. HIDE DEF w, n
  <2>3. w \in 1 .. Len(s) /\ n = Len(s) + Len(t)
    BY <1>5 DEF w, n
  <2>4. \A i \in 1 .. n : (s \o t)[i] \in Bytes
    BY <1>1, <2>3, ElementOfSeq
  <2>5. /\ After(s \o t) \in Seq(Bytes) /\ Len(After(s \o t)) = n - w
        /\ \A i \in 1 .. n - w : After(s \o t)[i] = (s \o t)[w + i]
    <3>1. w + 1 \in Int /\ n \in Int /\ \A i \in w + 1 .. n : (s \o t)[i] \in Bytes
      BY <1>1, <2>3, <2>4
    <3>. QED
      BY <1>1, <2>2, <2>3, <3>1, SubSeqProperties
  <2>6. /\ After(s) \o t \in Seq(Bytes) /\ Len(After(s) \o t) = n - w
        /\ \A i \in 1 .. n - w : (After(s) \o t)[i] =
             IF i <= Len(After(s)) THEN After(s)[i] ELSE t[i - Len(After(s))]
    <3>1. /\ After(s) \o t \in Seq(Bytes)
          /\ Len(After(s) \o t) = Len(After(s)) + Len(t)
          /\ \A i \in 1 .. Len(After(s)) + Len(t) : (After(s) \o t)[i] =
               IF i <= Len(After(s)) THEN After(s)[i] ELSE t[i - Len(After(s))]
      BY <2>1, ConcatProperties
    <3>2. Len(After(s)) + Len(t) = n - w
      BY <1>1, <2>1, <2>3
    <3>. QED
      BY <3>1, <3>2
  <2>7. \A i \in 1 .. n - w : After(s \o t)[i] = (After(s) \o t)[i]
    <3>. TAKE i \in 1 .. n - w
    <3>1. CASE i <= Len(After(s))
      <4>1. (s \o t)[w + i] = s[w + i]
        BY <1>1, <2>1, <2>3, <3>1
      <4>. QED
        BY <1>1, <2>1, <2>3, <2>5, <2>6, <3>1, <4>1
    <3>2. CASE ~(i <= Len(After(s)))
      <4>. DEFINE j == i - Len(After(s))
      <4>1. j \in 1 .. Len(t) /\ Len(s) + j = w + i
        BY <1>1, <2>1, <2>3, <3>2
      <4>2. (s \o t)[Len(s) + j] = t[j]
        BY <1>1, <4>1
      <4>. QED
        BY <2>5, <2>6, <3>2, <4>1, <4>2
    <3>. QED
      BY <3>1, <3>2
  <2>. QED
    BY <1>1, <2>3, <2>5, <2>6, <2>7, SeqEqual
<1>. QED
  BY <1>1, <1>3, <1>4, <1>6, <1>7

(* Concatenation is associative.                                           *)
LEMMA Associative ==
  ASSUME NEW S, NEW x \in Seq(S), NEW y \in Seq(S), NEW z \in Seq(S)
  PROVE  x \o (y \o z) = (x \o y) \o z
BY ConcatAssociative

(* Draining s and then what follows, with what was kept of s before it,    *)
(* puts out what draining all at once does, and keeps the same             *)
(* (llama-bridge.cpp:256-318).                                             *)
THEOREM DrainedInTwo ==
  ASSUME NEW s \in Seq(Bytes), NEW t \in Seq(Bytes)
  PROVE  /\ Drained[s \o t].out = Drained[s].out \o Drained[Drained[s].rest \o t].out
         /\ Drained[s \o t].rest = Drained[Drained[s].rest \o t].rest
<1>. DEFINE InTwo(r) ==
       /\ Drained[r \o t].out = Drained[r].out \o Drained[Drained[r].rest \o t].out
       /\ Drained[r \o t].rest = Drained[Drained[r].rest \o t].rest
            T == {n \in Nat : \A r \in Seq(Bytes) : Len(r) = n => InTwo(r)}
<1>1. ASSUME NEW n \in Nat, \A m \in 0 .. n - 1 : m \in T
      PROVE  n \in T
  <2>. SUFFICES ASSUME NEW r \in Seq(Bytes), Len(r) = n
                PROVE  InTwo(r)
    OBVIOUS
  <2>1. r \o t \in Seq(Bytes)
    BY ConcatProperties
  <2>2. CASE r = <<>> \/ Awaits(r)
    <3>1. Drained[r].out = <<>> /\ Drained[r].rest = r
      BY <2>2, DrainedStops
    <3>2. Drained[r \o t].out \in Seq(Out)
      BY <2>1, DrainedTypes
    <3>. QED
      BY <3>1, <3>2, ConcatEmptySeq
  <2>3. CASE ~(r = <<>> \/ Awaits(r))
    <3>. DEFINE a == After(r)
                d == Drained[a]
                e == Drained[d.rest \o t]
    <3>1. a \in Seq(Bytes) /\ Len(a) \in 0 .. n - 1 /\ Piece(r) \in Seq(Out)
      BY <2>3, LoopStep
    <3>2. InTwo(a)
      BY <1>1, <3>1
    <3>3. d.out \in Seq(Out) /\ d.rest \in Seq(Bytes)
      BY <3>1, DrainedTypes
    <3>4. e.out \in Seq(Out)
      BY <3>3, ConcatProperties, DrainedTypes
    <3>5. Drained[r].out = Piece(r) \o d.out /\ Drained[r].rest = d.rest
      BY <2>3, DrainedGoesOn
    <3>6. /\ Drained[r \o t].out = Piece(r) \o Drained[a \o t].out
          /\ Drained[r \o t].rest = Drained[a \o t].rest
      BY <2>3, StepOfConcat, DrainedGoesOn
    <3>. HIDE DEF a, d
    <3>7. Piece(r) \o (d.out \o e.out) = (Piece(r) \o d.out) \o e.out
      <4>. DEFINE x == Piece(r)
                  y == d.out
                  z == e.out
      <4>1. x \in Seq(Out) /\ y \in Seq(Out) /\ z \in Seq(Out)
        BY <3>1, <3>3, <3>4
      <4>. HIDE DEF x, y, z
      <4>2. x \o (y \o z) = (x \o y) \o z
        BY <4>1, Associative
      <4>. QED
        BY <4>2 DEF x, y, z
    <3>. QED
      BY <3>2, <3>5, <3>6, <3>7 DEF d
  <2>. QED
    BY <2>2, <2>3
<1>2. Nat \subseteq T
  <2>. HIDE DEF T
  <2>. QED
    BY <1>1, SetInduction
<1>3. InTwo(s)
  <2>. HIDE DEF InTwo
  <2>. QED
    BY <1>2
<1>. QED
  BY <1>3

(* What is kept is nothing, or the beginning of one character.             *)
LEMMA RestIsABeginning ==
  ASSUME NEW s \in Seq(Bytes), Drained[s].rest # <<>>
  PROVE  LET rest == Drained[s].rest
         IN  /\ rest[1] \in First /\ Len(rest) < SizeOf[rest[1]]
             /\ \A k \in 2 .. Len(rest) : rest[k] = "c"
<1>. DEFINE Begins(r) == r # <<>> => /\ r[1] \in First /\ Len(r) < SizeOf[r[1]]
                                    /\ \A k \in 2 .. Len(r) : r[k] = "c"
            T == {n \in Nat : \A r \in Seq(Bytes) : Len(r) = n => Begins(Drained[r].rest)}
<1>1. ASSUME NEW n \in Nat, \A m \in 0 .. n - 1 : m \in T
      PROVE  n \in T
  <2>. SUFFICES ASSUME NEW r \in Seq(Bytes), Len(r) = n
                PROVE  Begins(Drained[r].rest)
    OBVIOUS
  <2>1. CASE r = <<>>
    <3>1. Drained[r].rest = <<>>
      BY <2>1, DrainedStops
    <3>. QED
      BY <3>1
  <2>2. CASE r # <<>> /\ Awaits(r)
    <3>1. Len(r) \in Nat \ {0} /\ r[1] \in Bytes
      BY <2>2
    <3>2. r[1] \in First /\ Len(r) < SizeOf[r[1]]
      BY <2>2, <3>1 DEF Awaits, Width, SizeOf, First, Bytes
    <3>3. Drained[r].rest = r
      BY <2>2, DrainedStops
    <3>. QED
      BY <2>2, <3>2, <3>3 DEF Awaits
  <2>3. CASE ~(r = <<>> \/ Awaits(r))
    <3>1. After(r) \in Seq(Bytes) /\ Len(After(r)) \in 0 .. n - 1
      BY <2>3, LoopStep
    <3>2. Begins(Drained[After(r)].rest)
      BY <1>1, <3>1
    <3>. HIDE DEF Begins
    <3>. QED
      BY <2>3, <3>2, DrainedGoesOn
  <2>. QED
    BY <2>1, <2>2, <2>3
<1>2. Nat \subseteq T
  <2>. HIDE DEF T
  <2>. QED
    BY <1>1, SetInduction
<1>. QED
  BY <1>2

(***************************************************************************)
(* Whole characters.                                                       *)
(***************************************************************************)

(* Whole characters followed by whole characters are whole characters.     *)
LEMMA WellFormedConcat ==
  ASSUME NEW p \in Seq(Out), NEW q \in Seq(Out), WellFormed(p), WellFormed(q)
  PROVE  WellFormed(p \o q)
<1>. DEFINE u == p \o q
            m == Len(p)
            n == Len(q)
            Holds(s, i) ==
              /\ s[i] # "x"
              /\ s[i] \in First => /\ i + SizeOf[s[i]] - 1 <= Len(s)
                                   /\ \A k \in 1 .. SizeOf[s[i]] - 1 : s[i + k] = "c"
              /\ s[i] = "c" => \E k \in 1 .. 3 : /\ i - k >= 1 /\ s[i - k] \in First
                                                 /\ k < SizeOf[s[i - k]]
<1>1. /\ m \in Nat /\ n \in Nat /\ Len(u) = m + n /\ DOMAIN u = 1 .. m + n
      /\ DOMAIN p = 1 .. m /\ DOMAIN q = 1 .. n
      /\ \A i \in 1 .. m : u[i] = p[i]
      /\ \A i \in 1 .. n : u[m + i] = q[i]
  BY ConcatProperties
<1>2. /\ \A i \in 1 .. m : Holds(p, i)
      /\ \A i \in 1 .. n : Holds(q, i)
  BY <1>1 DEF WellFormed
<1>3. \A b \in First : SizeOf[b] \in 2 .. 4
  BY DEF SizeOf, First
<1>4. Len(p) = m /\ Len(q) = n
  OBVIOUS
<1>. HIDE DEF u, m, n
<1>5. ASSUME NEW i \in 1 .. m
      PROVE  Holds(u, i)
  <2>1. u[i] = p[i] /\ Holds(p, i)
    BY <1>1, <1>2
  <2>2. ASSUME p[i] \in First
        PROVE  /\ i + SizeOf[p[i]] - 1 <= m + n
               /\ \A k \in 1 .. SizeOf[p[i]] - 1 : u[i + k] = "c"
    <3>1. i + SizeOf[p[i]] - 1 <= m /\ SizeOf[p[i]] \in 2 .. 4
      BY <1>3, <1>4, <2>1, <2>2
    <3>2. \A k \in 1 .. SizeOf[p[i]] - 1 : i + k \in 1 .. m /\ p[i + k] = "c"
      BY <1>1, <2>1, <2>2, <3>1
    <3>. QED
      BY <1>1, <3>1, <3>2
  <2>3. ASSUME p[i] = "c"
        PROVE  \E k \in 1 .. 3 : i - k >= 1 /\ u[i - k] \in First /\ k < SizeOf[u[i - k]]
    <3>1. PICK k \in 1 .. 3 : i - k >= 1 /\ p[i - k] \in First /\ k < SizeOf[p[i - k]]
      BY <2>1, <2>3
    <3>2. i - k \in 1 .. m
      BY <1>1, <3>1
    <3>3. u[i - k] = p[i - k]
      BY <1>1, <3>2
    <3>. QED
      BY <3>1, <3>3
  <2>. QED
    BY <1>1, <2>1, <2>2, <2>3
<1>6. ASSUME NEW j \in 1 .. n
      PROVE  Holds(u, m + j)
  <2>1. u[m + j] = q[j] /\ Holds(q, j) /\ m + j \in Nat
    BY <1>1, <1>2
  <2>2. ASSUME q[j] \in First
        PROVE  /\ m + j + SizeOf[q[j]] - 1 <= m + n
               /\ \A k \in 1 .. SizeOf[q[j]] - 1 : u[m + j + k] = "c"
    <3>1. j + SizeOf[q[j]] - 1 <= n /\ SizeOf[q[j]] \in 2 .. 4
      BY <1>3, <1>4, <2>1, <2>2
    <3>2. ASSUME NEW k \in 1 .. SizeOf[q[j]] - 1
          PROVE  u[m + j + k] = "c"
      <4>1. j + k \in 1 .. n /\ q[j + k] = "c" /\ m + (j + k) = m + j + k
        BY <1>1, <2>1, <2>2, <3>1
      <4>2. u[m + (j + k)] = q[j + k]
        BY <1>1, <4>1
      <4>. QED
        BY <4>1, <4>2
    <3>. QED
      BY <1>1, <3>1, <3>2
  <2>3. ASSUME q[j] = "c"
        PROVE  \E k \in 1 .. 3 : /\ m + j - k >= 1 /\ u[m + j - k] \in First
                                /\ k < SizeOf[u[m + j - k]]
    <3>1. PICK k \in 1 .. 3 : j - k >= 1 /\ q[j - k] \in First /\ k < SizeOf[q[j - k]]
      BY <2>1, <2>3
    <3>2. j - k \in 1 .. n /\ m + (j - k) = m + j - k /\ m + j - k >= 1
      BY <1>1, <3>1
    <3>3. u[m + (j - k)] = q[j - k]
      BY <1>1, <3>2
    <3>. QED
      BY <3>1, <3>2, <3>3
  <2>. QED
    BY <1>1, <2>1, <2>2, <2>3
<1>7. \A i \in 1 .. m + n : Holds(u, i)
  <2>. HIDE DEF Holds
  <2>1. \A i \in 1 .. m + n : i \in 1 .. m \/ (i - m \in 1 .. n /\ m + (i - m) = i)
    BY <1>1
  <2>. QED
    BY <1>5, <1>6, <2>1
<1>8. WellFormed(u)
  BY <1>1, <1>7 DEF WellFormed
<1>. QED
  BY <1>8 DEF u

(* A step puts out one whole character, or the replacement.                *)
LEMMA PieceWellFormed ==
  ASSUME NEW s \in Seq(Bytes), s # <<>>
  PROVE  WellFormed(Piece(s))
<1>1. CASE Whole(s)
  <2>. DEFINE p == Piece(s)
  <2>1. /\ Len(s) \in Nat /\ s[1] \in First \cup {"a"}
        /\ Width(s[1]) \in 1 .. Len(s) /\ Width(s[1]) <= 4
        /\ s[1] \in First => SizeOf[s[1]] = Width(s[1])
        /\ s[1] = "a" => Width(s[1]) = 1
    BY <1>1 DEF Whole, Width, First, SizeOf
  <2>2. /\ DOMAIN p = 1 .. Width(s[1]) /\ Len(p) = Width(s[1])
        /\ \A i \in 1 .. Width(s[1]) : p[i] = s[i]
    BY <1>1, <2>1, SubSeqProperties DEF Piece, Taken
  <2>3. p[1] = s[1] /\ \A i \in 2 .. Width(s[1]) : p[i] = "c"
    BY <1>1, <2>1, <2>2 DEF Whole
  <2>. HIDE DEF p
  <2>4. "c" \notin First /\ "a" \notin First /\ "x" \notin First
    BY DEF First
  <2>5. WellFormed(p)
    <3>. SUFFICES ASSUME NEW i \in 1 .. Width(s[1])
                  PROVE  /\ p[i] # "x"
                         /\ p[i] \in First =>
                              /\ i + SizeOf[p[i]] - 1 <= Width(s[1])
                              /\ \A k \in 1 .. SizeOf[p[i]] - 1 : p[i + k] = "c"
                         /\ p[i] = "c" =>
                              \E k \in 1 .. 3 : /\ i - k >= 1 /\ p[i - k] \in First
                                               /\ k < SizeOf[p[i - k]]
      BY <2>2 DEF WellFormed
    <3>1. CASE i = 1
      BY <2>1, <2>3, <2>4, <3>1
    <3>2. CASE i # 1
      <4>1. i - 1 \in 1 .. 3 /\ i - (i - 1) = 1 /\ p[i] = "c"
        BY <2>1, <2>3, <3>2
      <4>2. s[1] \in First /\ i - 1 < SizeOf[s[1]]
        BY <2>1, <3>2
      <4>. QED
        BY <2>3, <2>4, <4>1, <4>2
    <3>. QED
      BY <3>1, <3>2
  <2>. QED
    BY <2>5 DEF p
<1>2. CASE ~Whole(s)
  <2>1. Piece(s) = <<Replacement>>
    BY <1>2 DEF Piece
  <2>2. WellFormed(<<Replacement>>)
    BY DEF WellFormed, Replacement, First
  <2>. QED
    BY <2>1, <2>2
<1>. QED
  BY <1>1, <1>2

(* Whatever the bytes are, what is put out of them is whole characters and *)
(* replacements (llama-bridge.cpp:250-255).                                *)
THEOREM OutIsWellFormed ==
  ASSUME NEW s \in Seq(Bytes)
  PROVE  WellFormed(Drained[s].out)
<1>. DEFINE T == {n \in Nat : \A r \in Seq(Bytes) :
                      Len(r) = n => WellFormed(Drained[r].out)}
<1>1. ASSUME NEW n \in Nat, \A m \in 0 .. n - 1 : m \in T
      PROVE  n \in T
  <2>. SUFFICES ASSUME NEW r \in Seq(Bytes), Len(r) = n
                PROVE  WellFormed(Drained[r].out)
    OBVIOUS
  <2>1. CASE r = <<>> \/ Awaits(r)
    <3>1. Drained[r].out = <<>>
      BY <2>1, DrainedStops
    <3>2. WellFormed(<<>>)
      BY DEF WellFormed
    <3>. QED
      BY <3>1, <3>2
  <2>2. CASE ~(r = <<>> \/ Awaits(r))
    <3>1. After(r) \in Seq(Bytes) /\ Len(After(r)) \in 0 .. n - 1 /\ Piece(r) \in Seq(Out)
      BY <2>2, LoopStep
    <3>2. WellFormed(Drained[After(r)].out) /\ Drained[After(r)].out \in Seq(Out)
      BY <1>1, <3>1, DrainedTypes
    <3>3. WellFormed(Piece(r) \o Drained[After(r)].out)
      BY <2>2, <3>1, <3>2, PieceWellFormed, WellFormedConcat
    <3>. QED
      BY <2>2, <3>3, DrainedGoesOn
  <2>. QED
    BY <2>1, <2>2
<1>2. Nat \subseteq T
  <2>. HIDE DEF T
  <2>. QED
    BY <1>1, SetInduction
<1>. QED
  BY <1>2

(***************************************************************************)
(* Valid text.                                                             *)
(***************************************************************************)

(* Whole characters begin with a whole character, and whole characters     *)
(* follow it.                                                              *)
LEMMA WellFormedBegins ==
  ASSUME NEW s \in Seq(Bytes), s # <<>>, WellFormed(s)
  PROVE  Whole(s) /\ ~Awaits(s) /\ WellFormed(After(s))
<1>1. /\ Len(s) \in Nat \ {0} /\ DOMAIN s = 1 .. Len(s)
      /\ \A i \in 1 .. Len(s) : s[i] \in Bytes
  OBVIOUS
<1>2. s[1] \in First \cup {"a"}
  BY <1>1 DEF WellFormed, Bytes
<1>3. /\ s[1] \in First => SizeOf[s[1]] = Width(s[1])
      /\ s[1] \notin First => Width(s[1]) = 1
      /\ Width(s[1]) \in 1 .. 4
      /\ "c" \notin First /\ "a" \notin First
  BY <1>2 DEF SizeOf, Width, First
<1>4. Width(s[1]) <= Len(s) /\ \A k \in 2 .. Width(s[1]) : s[k] = "c"
  <2>1. CASE s[1] \in First
    <3>1. /\ 1 + Width(s[1]) - 1 <= Len(s)
          /\ \A k \in 1 .. Width(s[1]) - 1 : s[1 + k] = "c"
      BY <1>1, <1>3, <2>1 DEF WellFormed
    <3>2. \A k \in 2 .. Width(s[1]) : k - 1 \in 1 .. Width(s[1]) - 1 /\ 1 + (k - 1) = k
      BY <1>3
    <3>. QED
      BY <1>3, <3>1, <3>2
  <2>2. CASE s[1] \notin First
    BY <1>1, <1>3, <2>2
  <2>. QED
    BY <2>1, <2>2
<1>5. Whole(s) /\ ~Awaits(s) /\ Taken(s) = Width(s[1])
  BY <1>1, <1>2, <1>3, <1>4 DEF Whole, Awaits, Taken
<1>6. WellFormed(After(s))
  <2>. DEFINE r == After(s)
              w == Taken(s)
              n == Len(s)
  <2>1. /\ w \in 1 .. n /\ n \in Nat /\ DOMAIN r = 1 .. n - w /\ Len(r) = n - w
        /\ \A i \in 1 .. n - w : r[i] = s[w + i]
    BY <1>1, LoopStep, SubSeqProperties DEF After
  <2>2. \A i \in 1 .. n :
          /\ s[i] # "x"
          /\ s[i] \in First => /\ i + SizeOf[s[i]] - 1 <= n
                               /\ \A k \in 1 .. SizeOf[s[i]] - 1 : s[i + k] = "c"
          /\ s[i] = "c" => \E k \in 1 .. 3 : /\ i - k >= 1 /\ s[i - k] \in First
                                             /\ k < SizeOf[s[i - k]]
    BY <1>1 DEF WellFormed
  <2>3. /\ s[1] \in First => SizeOf[s[1]] = w
        /\ \A k \in 2 .. w : s[k] \notin First
        /\ s[1] \in First \/ w = 1
    BY <1>3, <1>4, <1>5
  <2>. HIDE DEF r, w, n
  <2>4. ASSUME NEW j \in 1 .. n - w
        PROVE  /\ r[j] # "x"
               /\ r[j] \in First => /\ j + SizeOf[r[j]] - 1 <= n - w
                                    /\ \A k \in 1 .. SizeOf[r[j]] - 1 : r[j + k] = "c"
               /\ r[j] = "c" => \E k \in 1 .. 3 : /\ j - k >= 1 /\ r[j - k] \in First
                                                  /\ k < SizeOf[r[j - k]]
    <3>1. w + j \in 1 .. n /\ r[j] = s[w + j]
      BY <2>1
    <3>2. ASSUME r[j] \in First
          PROVE  /\ j + SizeOf[r[j]] - 1 <= n - w
                 /\ \A k \in 1 .. SizeOf[r[j]] - 1 : r[j + k] = "c"
      <4>1. w + j + SizeOf[r[j]] - 1 <= n /\ SizeOf[r[j]] \in 2 .. 4
        BY <2>2, <3>1, <3>2 DEF SizeOf, First
      <4>2. ASSUME NEW k \in 1 .. SizeOf[r[j]] - 1
            PROVE  r[j + k] = "c"
        <5>1. s[w + j + k] = "c"
          BY <2>2, <3>1, <3>2
        <5>2. j + k \in 1 .. n - w /\ w + (j + k) = w + j + k
          BY <2>1, <4>1
        <5>. QED
          BY <2>1, <5>1, <5>2
      <4>. QED
        BY <2>1, <4>1, <4>2
    <3>3. ASSUME r[j] = "c"
          PROVE  \E k \in 1 .. 3 : j - k >= 1 /\ r[j - k] \in First /\ k < SizeOf[r[j - k]]
      <4>. DEFINE i == w + j
      <4>0. i \in 1 .. n /\ s[i] = "c"
        BY <3>1, <3>3
      <4>. HIDE DEF i
      <4>1. PICK k \in 1 .. 3 : i - k >= 1 /\ s[i - k] \in First /\ k < SizeOf[s[i - k]]
        BY <2>2, <4>0
      <4>2. i = w + j
        BY DEF i
      <4>3. j - k >= 1
        <5>. SUFFICES ASSUME i - k <= w PROVE FALSE
          BY <2>1, <4>2
        <5>1. i - k = 1
          BY <2>1, <2>3, <4>1, <4>2
        <5>2. k < w
          BY <2>1, <2>3, <4>1, <5>1
        <5>. QED
          BY <2>1, <4>2, <5>1, <5>2
      <4>4. r[j - k] = s[i - k]
        <5>1. j - k \in 1 .. n - w /\ w + (j - k) = i - k
          BY <2>1, <4>2, <4>3
        <5>. QED
          BY <2>1, <5>1
      <4>. QED
        BY <4>1, <4>3, <4>4
    <3>. QED
      BY <2>2, <3>1, <3>2, <3>3
  <2>5. WellFormed(r)
    BY <2>1, <2>4 DEF WellFormed
  <2>. QED
    BY <2>5 DEF r
<1>. QED
  BY <1>5, <1>6

(* Of whole characters nothing is kept.                                    *)
LEMMA NothingKept ==
  ASSUME NEW s \in Seq(Bytes), WellFormed(s)
  PROVE  Drained[s].rest = <<>>
<1>. DEFINE T == {n \in Nat : \A r \in Seq(Bytes) :
                    Len(r) = n /\ WellFormed(r) => Drained[r].rest = <<>>}
<1>1. ASSUME NEW n \in Nat, \A m \in 0 .. n - 1 : m \in T
      PROVE  n \in T
  <2>. SUFFICES ASSUME NEW r \in Seq(Bytes), Len(r) = n, WellFormed(r)
                PROVE  Drained[r].rest = <<>>
    OBVIOUS
  <2>1. CASE r = <<>>
    BY <2>1, DrainedStops
  <2>2. CASE r # <<>>
    <3>1. After(r) \in Seq(Bytes) /\ Len(After(r)) \in 0 .. n - 1
      BY <2>2, LoopStep
    <3>2. ~Awaits(r) /\ WellFormed(After(r))
      BY <2>2, WellFormedBegins
    <3>3. Drained[After(r)].rest = <<>>
      BY <1>1, <3>1, <3>2
    <3>. QED
      BY <2>2, <3>2, <3>3, DrainedGoesOn
  <2>. QED
    BY <2>1, <2>2
<1>2. Nat \subseteq T
  <2>. HIDE DEF T
  <2>. QED
    BY <1>1, SetInduction
<1>. QED
  BY <1>2

(* A step on the beginning of valid text puts out what it passes, and what *)
(* it leaves is the beginning of valid text.                               *)
LEMMA ContinuesStep ==
  ASSUME NEW s \in Seq(Bytes), Continues(s), s # <<>>, ~Awaits(s)
  PROVE  Piece(s) \o After(s) = s /\ Continues(After(s))
<1>1. PICK tail \in Tails : WellFormed(s \o tail)
  BY DEF Continues
<1>2. tail \in Seq(Bytes)
  <2>1. PICK k \in 0 .. 3 : tail = SubSeq(<<"c", "c", "c">>, 1, k)
    BY DEF Tails
  <2>2. \A i \in 1 .. k : <<"c", "c", "c">>[i] \in Bytes
    BY DEF Bytes
  <2>. QED
    BY <2>1, <2>2, SubSeqProperties
<1>3. /\ s \o tail \in Seq(Bytes) /\ s \o tail # <<>>
      /\ Whole(s \o tail) <=> Whole(s)
      /\ After(s \o tail) = After(s) \o tail
  BY <1>2, StepOfConcat
<1>4. Whole(s) /\ WellFormed(After(s) \o tail)
  <2>. DEFINE u == s \o tail
  <2>1. u \in Seq(Bytes) /\ u # <<>> /\ WellFormed(u)
    BY <1>1, <1>3, Zenon
  <2>. HIDE DEF u
  <2>2. Whole(u) /\ WellFormed(After(u))
    BY <2>1, WellFormedBegins
  <2>. QED
    BY <1>3, <2>2, Zenon DEF u
<1>5. Piece(s) \o After(s) = s
  <2>1. Len(s) \in Nat \ {0} /\ Taken(s) \in 1 .. Len(s)
    BY LoopStep
  <2>2. \A k \in 1 .. Len(s) : SubSeq(s, 1, k) \o SubSeq(s, k + 1, Len(s)) = SubSeq(s, 1, Len(s))
    BY <2>1, ConcatAdjacentSubSeq
  <2>3. SubSeq(s, 1, Len(s)) = s
    BY SubSeqFull
  <2>. QED
    BY <1>4, <2>1, <2>2, <2>3, Zenon DEF Piece, After
<1>. QED
  BY <1>4, <1>5 DEF Continues

(* Of valid text, what is put out followed by what is kept is all of it.   *)
THEOREM NothingLost ==
  ASSUME NEW s \in Seq(Bytes), Continues(s)
  PROVE  Drained[s].out \o Drained[s].rest = s
<1>. DEFINE All(r) == Drained[r].out \o Drained[r].rest = r
            T == {n \in Nat : \A r \in Seq(Bytes) : Len(r) = n /\ Continues(r) => All(r)}
<1>1. ASSUME NEW n \in Nat, \A m \in 0 .. n - 1 : m \in T
      PROVE  n \in T
  <2>. SUFFICES ASSUME NEW r \in Seq(Bytes), Len(r) = n, Continues(r)
                PROVE  All(r)
    OBVIOUS
  <2>1. CASE r = <<>> \/ Awaits(r)
    <3>1. Drained[r].out = <<>> /\ Drained[r].rest = r
      BY <2>1, DrainedStops
    <3>. QED
      BY <3>1, ConcatEmptySeq
  <2>2. CASE ~(r = <<>> \/ Awaits(r))
    <3>. DEFINE a == After(r)
                x == Piece(r)
                y == Drained[a].out
                z == Drained[a].rest
    <3>1. a \in Seq(Bytes) /\ Len(a) \in 0 .. n - 1 /\ x \in Seq(Out)
      BY <2>2, LoopStep
    <3>2. x \o a = r /\ Continues(a)
      BY <2>2, ContinuesStep
    <3>3. y \o z = a
      BY <1>1, <3>1, <3>2
    <3>4. y \in Seq(Out) /\ z \in Seq(Out)
      BY <3>1, DrainedTypes, SeqMonotonic DEF Out
    <3>5. Drained[r].out = x \o y /\ Drained[r].rest = z
      BY <2>2, DrainedGoesOn
    <3>. HIDE DEF a, x, y, z
    <3>6. x \o (y \o z) = (x \o y) \o z
      BY <3>1, <3>4, Associative
    <3>. QED
      BY <3>2, <3>3, <3>5, <3>6
  <2>. QED
    BY <2>1, <2>2
<1>2. Nat \subseteq T
  <2>. HIDE DEF T
  <2>. QED
    BY <1>1, SetInduction
<1>3. All(s)
  <2>. HIDE DEF All
  <2>. QED
    BY <1>2
<1>. QED
  BY <1>3

(***************************************************************************)
(* The invariant: the text and the carry are what draining all bytes so    *)
(* far in one piece puts out and keeps, and the end of a generation gives  *)
(* away the carry, or passes it on.                                        *)
(***************************************************************************)
Fed == fed \in Seq(Bytes) /\ Len(fed) <= MaxBytes
InOnePiece == text = Drained[fed].out /\ carry = Drained[fed].rest
GivenAway ==
  /\ carry = <<>>
  /\ bridge = "llama" => text = Drained[fed].out
  /\ bridge = "colibri" => text = Drained[fed].out \o Drained[fed].rest

IInv ==
  /\ bridge \in {"llama", "colibri"} /\ ended \in BOOLEAN
  /\ Fed
  /\ ~ended => InOnePiece
  /\ ended => GivenAway

(* Nothing has come in and nothing has gone out.                           *)
LEMMA InitIInv == Init => IInv
<1>. SUFFICES ASSUME Init PROVE IInv
  OBVIOUS
<1>1. Fed
  BY StreamAssumption DEF Init, Fed
<1>2. InOnePiece
  <2>1. fed = <<>> /\ text = <<>> /\ carry = <<>>
    BY DEF Init
  <2>2. Drained[<<>>].out = <<>> /\ Drained[<<>>].rest = <<>>
    BY EmptySeq, DrainedStops
  <2>. QED
    BY <2>1, <2>2, Zenon DEF InOnePiece
<1>. QED
  BY <1>1, <1>2 DEF Init, IInv

(* A token: DrainedInTwo.                                                  *)
LEMMA FeedIInv ==
  ASSUME IInv, NEW k \in 1 .. MaxPiece, NEW piece \in [1 .. k -> Bytes], Feed(piece)
  PROVE  IInv'
<1>1. piece \in Seq(Bytes)
  BY StreamAssumption
<1>2. fed \in Seq(Bytes) /\ ~ended /\ InOnePiece /\ ~ended'
  BY DEF IInv, Fed, Feed
<1>3. Fed'
  <2>1. fed' = fed \o piece /\ Len(fed) + Len(piece) <= MaxBytes
    BY DEF Feed
  <2>. QED
    BY <1>1, <1>2, <2>1, ConcatProperties DEF Fed
<1>4. InOnePiece'
  <2>1. /\ fed' = fed \o piece
        /\ text' = Drained[fed].out \o Drained[Drained[fed].rest \o piece].out
        /\ carry' = Drained[Drained[fed].rest \o piece].rest
    BY <1>2, Zenon DEF Feed, InOnePiece
  <2>2. /\ Drained[fed \o piece].out
             = Drained[fed].out \o Drained[Drained[fed].rest \o piece].out
        /\ Drained[fed \o piece].rest = Drained[Drained[fed].rest \o piece].rest
    BY <1>1, <1>2, DrainedInTwo
  <2>. QED
    BY <2>1, <2>2, Zenon DEF InOnePiece
<1>. QED
  BY <1>2, <1>3, <1>4 DEF IInv, Feed

(* The end: each bridge deals with the carry in its way.                   *)
LEMMA EndIInv == IInv /\ End => IInv'
<1>. SUFFICES ASSUME IInv, End PROVE IInv'
  OBVIOUS
<1>1. ~ended /\ ended' = TRUE /\ fed' = fed /\ bridge' = bridge /\ InOnePiece /\ Fed
  BY DEF IInv, End
<1>2. Fed'
  BY <1>1 DEF Fed
<1>3. GivenAway'
  BY <1>1 DEF End, InOnePiece, GivenAway
<1>. QED
  BY <1>1, <1>2, <1>3 DEF IInv

(* Every step keeps the invariant,                                         *)
LEMMA NextIInv == IInv /\ [Next]_vars => IInv'
<1>. SUFFICES ASSUME IInv, [Next]_vars PROVE IInv'
  OBVIOUS
<1>1. CASE End
  BY <1>1, EndIInv
<1>2. ASSUME NEW k \in 1 .. MaxPiece, NEW piece \in [1 .. k -> Bytes], Feed(piece)
      PROVE  IInv'
  BY <1>2, FeedIInv
<1>3. CASE UNCHANGED vars
  BY <1>3 DEF vars, IInv, Fed, InOnePiece, GivenAway
<1>. QED
  BY <1>1, <1>2, <1>3 DEF Next

(* so it holds in every behaviour.                                         *)
LEMMA SpecIInv == Spec => []IInv
<1>. QED
  BY InitIInv, NextIInv, PTL DEF Spec

(* Every variable keeps its type, and the carry is never more than the     *)
(* beginning of one character (llama-bridge.cpp:299-303).                  *)
THEOREM StreamTypeCorrect == Spec => []TypeOK
<1>1. IInv => TypeOK
  <2>. SUFFICES ASSUME IInv PROVE TypeOK
    OBVIOUS
  <2>1. /\ fed \in Seq(Bytes) /\ Len(fed) <= MaxBytes
        /\ bridge \in {"llama", "colibri"} /\ ended \in BOOLEAN
    BY DEF IInv, Fed
  <2>2. Drained[fed].out \in Seq(Out) /\ Drained[fed].rest \in Seq(Out)
    BY <2>1, DrainedTypes, SeqMonotonic DEF Out
  <2>3. text \in Seq(Out)
    BY <2>1, <2>2, ConcatProperties DEF IInv, InOnePiece, GivenAway
  <2>4. carry # <<>> => carry = Drained[fed].rest
    BY DEF IInv, InOnePiece, GivenAway
  <2>5. carry # <<>> => /\ carry[1] \in First /\ Len(carry) < SizeOf[carry[1]]
                        /\ \A k \in 2 .. Len(carry) : carry[k] = "c"
    BY <2>1, <2>4, RestIsABeginning
  <2>. QED
    BY <2>1, <2>3, <2>5 DEF TypeOK, Out
<1>. QED
  BY SpecIInv, <1>1, PTL

(* Where the tokens cut the bytes makes no difference to the text, however *)
(* long the answer and its pieces are (llama-bridge.cpp:256-318).          *)
THEOREM TextIsCutIndependent == Spec => []CutIndependent
<1>1. IInv => CutIndependent
  BY DEF IInv, InOnePiece, CutIndependent
<1>. QED
  BY SpecIInv, <1>1, PTL

(* Whatever bytes the tokens are, Kotlin gets whole characters only, up to *)
(* the end of a llama.cpp generation (llama-bridge.cpp:250-255, 731-736).  *)
THEOREM OnlyWholeCharactersOut == Spec => []OnlyWholeCharacters
<1>1. IInv => OnlyWholeCharacters
  <2>. SUFFICES ASSUME IInv, ~ended \/ bridge = "llama" PROVE WellFormed(text)
    BY DEF OnlyWholeCharacters
  <2>1. fed \in Seq(Bytes) /\ text = Drained[fed].out
    BY DEF IInv, Fed, InOnePiece, GivenAway
  <2>. QED
    BY <2>1, OutIsWellFormed
<1>. QED
  BY SpecIInv, <1>1, PTL

(* What is whole already can be continued to be whole, by nothing.         *)
LEMMA WholeContinues ==
  ASSUME NEW s \in Seq(Bytes), WellFormed(s)
  PROVE  Continues(s)
<1>1. SubSeq(<<"c", "c", "c">>, 1, 0) = <<>>
  OBVIOUS
<1>2. <<>> \in Tails
  BY <1>1, 0 \in 0 .. 3 DEF Tails
<1>3. s \o <<>> = s
  BY ConcatEmptySeq
<1>. QED
  BY <1>2, <1>3, Zenon DEF Continues

(* Of a valid text of any length nothing is lost, added or replaced: text  *)
(* and carry are all of it, and at the end, if no character is cut off     *)
(* there, the text is (llama-bridge.cpp:299-303, 731-736,                  *)
(* colibri_jni_bridge.cpp:147-150, 833-838).                               *)
THEOREM ValidTextIsKept == Spec => []ValidTextKept
<1>1. ASSUME IInv, ~ended, Continues(fed)
      PROVE  text \o carry = fed
  <2>1. Drained[fed].out \o Drained[fed].rest = fed
    BY <1>1, NothingLost DEF IInv, Fed
  <2>. QED
    BY <1>1, <2>1, Zenon DEF IInv, InOnePiece
<1>2. ASSUME IInv, ended, WellFormed(fed)
      PROVE  text = fed
  <2>1. fed \in Seq(Bytes)
    BY <1>2 DEF IInv, Fed
  <2>2. Continues(fed)
    BY <1>2, <2>1, WholeContinues
  <2>3. Drained[fed].out \o Drained[fed].rest = fed
    BY <2>1, <2>2, NothingLost
  <2>4. Drained[fed].out = fed
    BY <1>2, <2>1, <2>3, NothingKept, DrainedTypes, ConcatEmptySeq
  <2>5. bridge = "colibri" => text = fed
    BY <1>2, <2>3, Zenon DEF IInv, GivenAway
  <2>6. bridge = "llama" => text = fed
    BY <1>2, <2>4, Zenon DEF IInv, GivenAway
  <2>. QED
    BY <1>2, <2>5, <2>6 DEF IInv
<1>3. IInv => ValidTextKept
  BY <1>1, <1>2 DEF ValidTextKept
<1>. QED
  BY SpecIInv, <1>3, PTL
=============================================================================
