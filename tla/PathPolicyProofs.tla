--------------------------- MODULE PathPolicyProofs ---------------------------
(***************************************************************************)
(* Proofs about PathPolicy, for paths of any length.  The induction along  *)
(* a path is over the set of lengths for which a fact holds: a set of      *)
(* naturals that has 0 and with each of its elements the next is all of    *)
(* them (SetInduction).                                                    *)
(***************************************************************************)
EXTENDS PathPolicy, TLAPS, FiniteSetTheorems, SequenceTheorems, WellFoundedInduction

\* Induction over the natural numbers, as a statement about a set.
LEMMA SetInduction ==
  ASSUME NEW S, 0 \in S, \A n \in Nat : n \in S => n + 1 \in S
  PROVE  Nat \subseteq S
  <1> DEFINE T == Nat \ S
  <1>1. CASE T # {}
    <2>1. PICK x \in T : \A y \in T : <<y, x>> \notin OpToRel(<, Nat)
      <3>1. T \subseteq Nat
        OBVIOUS
      <3> HIDE DEF T
      <3> QED BY <1>1, <3>1, NatLessThanWellFounded, WFMin
    <2>2. x \in Nat /\ x # 0
      OBVIOUS
    <2>3. x - 1 \in Nat /\ x - 1 < x /\ x - 1 + 1 = x
      BY <2>2
    <2>4. <<x - 1, x>> \in OpToRel(<, Nat)
      BY <2>2, <2>3 DEF OpToRel
    <2>5. x - 1 \in S
      BY <2>1, <2>3, <2>4
    <2> QED BY <2>1, <2>2, <2>3, <2>5
  <1> QED BY <1>1

------------------------------------------------------------------------------
(* Walking a path. *)

Names == Segments \ {"", ".", ".."}

\* Walked is the function its definition says it is.
LEMMA WalkedIsAFunction ==
  ASSUME NEW path \in Seq(Segments)
  PROVE  Walked(path) = [i \in 0..Len(path) |->
           IF i = 0 THEN <<>> ELSE Walk(Rooted(path), Walked(path)[i - 1], path[i])]
  <1> DEFINE W(f, i) == IF i = 0 THEN <<>> ELSE Walk(Rooted(path), f[i - 1], path[i])
             Has(n) == \E f : f = [i \in 0..n |-> W(f, i)]
             S == {n \in Nat : Has(n)}
  <1>1. 0 \in S
    <2>1. [i \in 0..0 |-> <<>>] = [i \in 0..0 |-> W([j \in 0..0 |-> <<>>], i)]
      OBVIOUS
    <2> QED BY <2>1
  <1>2. ASSUME NEW n \in Nat, n \in S PROVE n + 1 \in S
    <2>1. PICK f : f = [i \in 0..n |-> W(f, i)]
      BY <1>2
    <2> DEFINE last == Walk(Rooted(path), f[n], path[n + 1])
               g == [i \in 0..(n + 1) |-> IF i = n + 1 THEN last ELSE f[i]]
    <2>2. ASSUME NEW i \in 0..(n + 1) PROVE g[i] = W(g, i)
      <3>1. CASE i = n + 1
        <4>1. g[i] = last /\ i # 0 /\ i - 1 = n /\ g[n] = f[n]
          BY <3>1
        <4> HIDE DEF g
        <4> QED BY <3>1, <4>1
      <3>2. CASE i = 0
        <4>1. g[i] = f[i]
          BY <3>2
        <4>2. f[i] = W(f, i)
          BY <2>1, <3>2
        <4> QED BY <3>2, <4>1, <4>2
      <3>3. CASE i \in 1..n
        <4>1. g[i] = f[i] /\ g[i - 1] = f[i - 1] /\ i # 0
          BY <3>3
        <4>2. f[i] = W(f, i)
          BY <2>1, <3>3
        <4> HIDE DEF g
        <4> QED BY <3>3, <4>1, <4>2
      <3> QED BY <3>1, <3>2, <3>3
    <2>3. g = [i \in 0..(n + 1) |-> W(g, i)]
      BY <2>2
    <2> HIDE DEF g
    <2> QED BY <2>3
  <1>3. Len(path) \in S
    <2> HIDE DEF S
    <2> QED BY <1>1, <1>2, SetInduction
  <1>4. Has(Len(path))
    BY <1>3
  <1>5. Walked(path) = CHOOSE f : f = [i \in 0..Len(path) |-> W(f, i)]
    BY DEF Walked
  <1> QED BY <1>4, <1>5

\* The walk starts with nothing and takes one segment after the other.
LEMMA WalkedStep ==
  ASSUME NEW path \in Seq(Segments)
  PROVE  /\ Walked(path)[0] = <<>>
         /\ \A i \in 0..(Len(path) - 1) :
              Walked(path)[i + 1] = Walk(Rooted(path), Walked(path)[i], path[i + 1])
  <1> PICK w : w = Walked(path)
    OBVIOUS
  <1> PICK n \in Nat : n = Len(path)
    OBVIOUS
  <1>1. w = [i \in 0..n |-> IF i = 0 THEN <<>> ELSE Walk(Rooted(path), w[i - 1], path[i])]
    BY WalkedIsAFunction
  <1>2. w[0] = <<>>
    BY <1>1
  <1>3. ASSUME NEW i \in 0..(n - 1) PROVE w[i + 1] = Walk(Rooted(path), w[i], path[i + 1])
    <2>1. i + 1 \in 0..n /\ i + 1 # 0 /\ i + 1 - 1 = i
      OBVIOUS
    <2> QED BY <1>1, <2>1
  <1> QED BY <1>2, <1>3

------------------------------------------------------------------------------
(* What one segment does to what is left of a relative path. *)

\* A prefix and the next element are the next prefix.
LEMMA PrefixGrows ==
  ASSUME NEW T, NEW seq \in Seq(T), NEW n \in Nat, n + 1 <= Len(seq)
  PROVE  SubSeq(seq, 1, n + 1) = Append(SubSeq(seq, 1, n), seq[n + 1])
  <1>1. /\ Len(seq) \in Nat /\ seq[n + 1] \in T
        /\ \A i \in 1..(n + 1) : seq[i] \in T
    BY LenProperties, ElementOfSeq
  <1> DEFINE a == SubSeq(seq, 1, n)
             b == SubSeq(seq, 1, n + 1)
  <1>2. a \in Seq(T) /\ Len(a) = n /\ \A i \in 1..n : a[i] = seq[i]
    BY <1>1, SubSeqProperties
  <1>3. b \in Seq(T) /\ Len(b) = n + 1 /\ \A i \in 1..(n + 1) : b[i] = seq[i]
    BY <1>1, SubSeqProperties
  <1> HIDE DEF a, b
  <1>4. /\ Append(a, seq[n + 1]) \in Seq(T) /\ Len(Append(a, seq[n + 1])) = n + 1
        /\ \A i \in 1..n : Append(a, seq[n + 1])[i] = seq[i]
        /\ Append(a, seq[n + 1])[n + 1] = seq[n + 1]
    BY <1>1, <1>2, AppendProperties
  <1>5. \A i \in 1..(n + 1) : b[i] = Append(a, seq[n + 1])[i]
    BY <1>3, <1>4
  <1> QED BY <1>3, <1>4, <1>5, SeqEqual DEF a, b

\* Cleaning leaves a path of names as it is.
LEMMA NamesStay ==
  ASSUME NEW path \in Seq(Names), path # <<>>
  PROVE  ~ Rooted(path) /\ Clean(path) = path
  <1> PICK w : w = Walked(path)
    OBVIOUS
  <1> DEFINE S == {n \in Nat : n <= Len(path) => w[n] = SubSeq(path, 1, n)}
  <1>1. path \in Seq(Segments) /\ Len(path) \in Nat \ {0}
    BY SeqMonotonic, EmptySeq DEF Names
  <1>2. ~ Rooted(path)
    <2>1. Head(path) \in Names
      BY <1>1
    <2> QED BY <2>1 DEF Rooted, Names
  <1>3. 0 \in S
    <2>1. w[0] = <<>>
      BY <1>1, WalkedStep
    <2>2. SubSeq(path, 1, 0) = <<>>
      BY SubSeqEmpty
    <2> QED BY <2>1, <2>2
  <1>4. ASSUME NEW n \in Nat, n \in S PROVE n + 1 \in S
    <2> SUFFICES ASSUME n + 1 <= Len(path) PROVE w[n + 1] = SubSeq(path, 1, n + 1)
      OBVIOUS
    <2>1. n \in 0..(Len(path) - 1) /\ n + 1 \in 1..Len(path) /\ path[n + 1] \in Names
      BY <1>1
    <2>2. w[n] = SubSeq(path, 1, n)
      BY <1>4, <2>1
    <2>3. w[n + 1] = Walk(Rooted(path), w[n], path[n + 1])
      BY <1>1, <2>1, WalkedStep
    <2>4. path[n + 1] \in Segments
      BY <2>1 DEF Names
    <2>5. w[n + 1] = Append(SubSeq(path, 1, n), path[n + 1])
      <3>1. path[n + 1] \notin {"", ".", ".."}
        BY <2>1 DEF Names
      <3> QED BY <2>2, <2>3, <3>1 DEF Walk
    <2>6. Append(SubSeq(path, 1, n), path[n + 1]) = SubSeq(path, 1, n + 1)
      BY <1>1, <2>1, PrefixGrows
    <2> QED BY <2>5, <2>6
  <1>5. Len(path) \in S
    <2> HIDE DEF S
    <2> QED BY <1>1, <1>3, <1>4, SetInduction
  <1>6. w[Len(path)] = path
    <2>1. SubSeq(path, 1, Len(path)) = path
      BY <1>1
    <2> QED BY <1>1, <1>5, <2>1
  <1> QED BY <1>2, <1>6 DEF Clean

\* A leading "." is walked over.
LEMMA DotIsSkipped ==
  ASSUME NEW path \in Seq(Segments), Len(path) > 1, Head(path) = ".", ~ Rooted(Tail(path))
  PROVE  Clean(path) = Clean(Tail(path))
  <1> PICK s : s = Tail(path)
    OBVIOUS
  <1> PICK w : w = Walked(path)
    OBVIOUS
  <1> PICK v : v = Walked(s)
    OBVIOUS
  <1> DEFINE S == {n \in Nat : n <= Len(s) => w[n + 1] = v[n]}
  <1>1. /\ s \in Seq(Segments) /\ Len(path) = Len(s) + 1 /\ Len(s) \in Nat
        /\ path[1] = "." /\ \A i \in 1..Len(s) : path[i + 1] = s[i]
    OBVIOUS
  <1>2. ~ Rooted(path) /\ ~ Rooted(s)
    <2>1. ~ Rooted(s)
      OBVIOUS
    <2>2. ~ Rooted(path)
      BY DEF Rooted
    <2> QED BY <2>1, <2>2
  <1>3. 0 \in S
    <2>0. 0 \in 0..(Len(path) - 1)
      BY <1>1
    <2>1. w[0] = <<>> /\ v[0] = <<>> /\ w[0 + 1] = Walk(Rooted(path), w[0], path[0 + 1])
      BY <1>1, <2>0, WalkedStep
    <2>2. w[1] = <<>>
      BY <1>1, <2>1 DEF Walk
    <2> QED BY <2>1, <2>2
  <1>4. ASSUME NEW n \in Nat, n \in S PROVE n + 1 \in S
    <2> SUFFICES ASSUME n + 1 <= Len(s) PROVE w[n + 1 + 1] = v[n + 1]
      OBVIOUS
    <2>1. /\ n \in 0..(Len(s) - 1) /\ n + 1 \in 0..(Len(path) - 1)
          /\ n + 1 \in 1..Len(s) /\ n <= Len(s)
      BY <1>1
    <2>2. w[n + 1] = v[n] /\ path[n + 1 + 1] = s[n + 1]
      BY <1>1, <1>4, <2>1
    <2>3. v[n + 1] = Walk(Rooted(s), v[n], s[n + 1])
      BY <1>1, <2>1, WalkedStep
    <2>4. w[n + 1 + 1] = Walk(Rooted(path), w[n + 1], path[n + 1 + 1])
      BY <1>1, <2>1, WalkedStep
    <2> QED BY <1>2, <2>2, <2>3, <2>4 DEF Walk
  <1>5. Len(s) \in S
    <2> HIDE DEF S
    <2> QED BY <1>1, <1>3, <1>4, SetInduction
  <1>6. w[Len(path)] = v[Len(s)]
    BY <1>1, <1>5
  <1> QED BY <1>2, <1>6 DEF Clean

------------------------------------------------------------------------------
(* Where a relative path leads. *)

CountOf(path, k, S) == Cardinality({i \in 1..k : path[i] \in S})
Ups(path, k) == CountOf(path, k, {".."})
Downs(path, k) == CountOf(path, k, Names)

\* Each segment is counted once.
LEMMA CountStep ==
  ASSUME NEW path, NEW k \in Nat, NEW S
  PROVE  /\ CountOf(path, k, S) \in Nat /\ CountOf(path, k + 1, S) \in Nat
         /\ CountOf(path, k + 1, S) =
              IF path[k + 1] \in S THEN CountOf(path, k, S) + 1 ELSE CountOf(path, k, S)
  <1> DEFINE A == {i \in 1..k : path[i] \in S}
             B == {i \in 1..(k + 1) : path[i] \in S}
  <1>1. IsFiniteSet(A) /\ Cardinality(A) \in Nat
    <2>1. IsFiniteSet(1..k)
      BY FS_Interval
    <2> QED BY <2>1, FS_Subset, FS_CardinalityType
  <1>2. CASE path[k + 1] \in S
    <2>1. B = A \cup {k + 1} /\ k + 1 \notin A
      BY <1>2
    <2> HIDE DEF A, B
    <2>2. Cardinality(B) = Cardinality(A) + 1
      BY <1>1, <2>1, FS_AddElement
    <2> QED BY <1>1, <1>2, <2>2 DEF CountOf, A, B
  <1>3. CASE path[k + 1] \notin S
    <2>1. B = A
      BY <1>3
    <2> QED BY <1>1, <1>3, <2>1 DEF CountOf
  <1> QED BY <1>2, <1>3

\* Front and Last of a sequence that has a last element.
LEMMA FrontAndLast ==
  ASSUME NEW T, NEW seq \in Seq(T), seq # <<>>
  PROVE  /\ Len(seq) \in Nat \ {0}
         /\ Front(seq) \in Seq(T) /\ Len(Front(seq)) = Len(seq) - 1
         /\ \A i \in 1..(Len(seq) - 1) : Front(seq)[i] = seq[i]
         /\ Last(seq) \in T /\ Last(seq) = seq[Len(seq)]
  <1> PICK n : n = Len(seq)
    OBVIOUS
  <1>1. n \in Nat \ {0}
    BY EmptySeq
  <1>2. \A i \in 1..n : seq[i] \in T
    BY ElementOfSeq
  <1>3. n \in 1..n /\ n - 1 \in Int /\ \A i \in 1..(n - 1) : i \in 1..n
    BY <1>1
  <1> PICK f : f = SubSeq(seq, 1, n - 1)
    OBVIOUS
  <1>4. /\ f \in Seq(T) /\ Len(f) = (IF 1 <= n - 1 THEN n - 1 - 1 + 1 ELSE 0)
        /\ \A i \in 1..(n - 1 - 1 + 1) : f[i] = seq[1 + i - 1]
    BY <1>2, <1>3, SubSeqProperties
  <1>5. Len(f) = n - 1 /\ \A i \in 1..(n - 1) : f[i] = seq[i]
    BY <1>1, <1>4
  <1> QED BY <1>1, <1>2, <1>3, <1>4, <1>5 DEF Front, Last

\* After k segments: either the walk has left the directory it starts in, and what is
\* left of the path begins with ".."; or out is where it is now, below.
Level(path, k, out) ==
  \/ out \in Seq(Segments) /\ out # <<>> /\ out[1] = ".."
  \/ /\ out \in Seq(Names)
     /\ Downs(path, k) = Ups(path, k) + Len(out)
     /\ \A j \in 1..k : Ups(path, j) <= Downs(path, j)

\* One more segment keeps track of where the walk is.
LEMMA LevelStep ==
  ASSUME NEW path \in Seq(Segments), NEW k \in Nat, k + 1 <= Len(path), NEW out,
         ~ Rooted(path), Level(path, k, out)
  PROVE  Level(path, k + 1, Walk(Rooted(path), out, path[k + 1]))
  <1> PICK s : s = path[k + 1]
    OBVIOUS
  <1> PICK next : next = Walk(Rooted(path), out, s)
    OBVIOUS
  <1>1. s \in Segments /\ k + 1 \in 1..Len(path)
    BY LenProperties, ElementOfSeq
  <1>2. next = IF s \in {"", "."} THEN out
               ELSE IF s # ".." THEN Append(out, s)
               ELSE IF out # <<>> /\ Last(out) # ".." THEN Front(out)
               ELSE Append(out, s)
    BY DEF Walk
  <1>3. /\ Ups(path, k) \in Nat /\ Downs(path, k) \in Nat
        /\ Ups(path, k + 1) = IF s = ".." THEN Ups(path, k) + 1 ELSE Ups(path, k)
        /\ Downs(path, k + 1) = IF s \in Names THEN Downs(path, k) + 1 ELSE Downs(path, k)
    BY CountStep DEF Ups, Downs
  <1>4. CASE out \in Seq(Segments) /\ out # <<>> /\ out[1] = ".."
    <2>1. Len(out) \in Nat \ {0}
      BY <1>4, EmptySeq
    <2>2. CASE next = out
      BY <1>4, <2>2 DEF Level
    <2>3. CASE next = Append(out, s)
      <3>1. next \in Seq(Segments) /\ next # <<>> /\ next[1] = out[1]
        BY <1>1, <1>4, <2>1, <2>3, AppendProperties
      <3> QED BY <1>4, <3>1 DEF Level
    <2>4. CASE next = Front(out) /\ Last(out) # ".."
      <3>1. Len(out) # 1
        BY <1>4, <2>4 DEF Last
      <3>2. next \in Seq(Segments) /\ Len(next) = Len(out) - 1 /\ next[1] = out[1]
        BY <1>4, <2>1, <2>4, <3>1, FrontAndLast
      <3>3. next # <<>>
        BY <2>1, <3>1, <3>2, EmptySeq
      <3> QED BY <1>4, <3>2, <3>3 DEF Level
    <2> QED BY <1>2, <2>2, <2>3, <2>4
  <1>5. CASE /\ out \in Seq(Names)
             /\ Downs(path, k) = Ups(path, k) + Len(out)
             /\ \A j \in 1..k : Ups(path, j) <= Downs(path, j)
    <2>1. Len(out) \in Nat /\ \A i \in 1..Len(out) : out[i] \in Names
      BY <1>5, LenProperties, ElementOfSeq
    <2>2. ASSUME next \in Seq(Names), Downs(path, k + 1) = Ups(path, k + 1) + Len(next)
          PROVE  Level(path, k + 1, next)
      <3>1. Len(next) \in Nat /\ Ups(path, k + 1) \in Nat
        BY <1>3, <2>2, LenProperties
      <3>2. Ups(path, k + 1) <= Downs(path, k + 1)
        BY <2>2, <3>1
      <3>3. \A j \in 1..(k + 1) : j \in 1..k \/ j = k + 1
        OBVIOUS
      <3> QED BY <1>5, <2>2, <3>2, <3>3 DEF Level
    <2>3. CASE s \in {"", "."}
      <3>1. next = out /\ s # ".." /\ s \notin Names
        BY <1>2, <2>3 DEF Names
      <3> QED BY <1>3, <1>5, <2>2, <3>1
    <2>4. CASE s \in Names
      <3>1. next = Append(out, s) /\ s # ".."
        BY <1>2, <2>4 DEF Names
      <3>2. next \in Seq(Names) /\ Len(next) = Len(out) + 1
        BY <1>5, <2>4, <3>1, AppendProperties
      <3> QED BY <1>3, <1>5, <2>1, <2>2, <2>4, <3>1, <3>2
    <2>5. CASE s = ".." /\ out # <<>>
      <3>1. Len(out) \in Nat \ {0} /\ s \notin Names
        BY <1>5, <2>5, EmptySeq DEF Names
      <3>2. Last(out) # ".."
        <4>1. Last(out) \in Names
          BY <1>5, <2>5, FrontAndLast
        <4> QED BY <4>1 DEF Names
      <3>3. next = Front(out)
        BY <1>2, <2>5, <3>2
      <3>4. next \in Seq(Names) /\ Len(next) = Len(out) - 1
        BY <1>5, <2>5, <3>3, FrontAndLast
      <3> QED BY <1>3, <1>5, <2>2, <2>5, <3>1, <3>4
    <2>6. CASE s = ".." /\ out = <<>>
      <3>1. next = Append(out, s) /\ out \in Seq(Segments)
        BY <1>2, <2>6, EmptySeq
      <3>2. Len(out) = 0
        BY <2>6
      <3>3. next \in Seq(Segments) /\ next # <<>> /\ next[Len(out) + 1] = s
        BY <1>1, <3>1, AppendProperties
      <3> QED BY <2>6, <3>2, <3>3 DEF Level
    <2> QED BY <1>1, <2>3, <2>4, <2>5, <2>6 DEF Names
  <1> QED BY <1>4, <1>5 DEF Level

\* So does the whole path.
LEMMA LevelAlong ==
  ASSUME NEW path \in Seq(Segments), ~ Rooted(path)
  PROVE  Level(path, Len(path), Walked(path)[Len(path)])
  <1> PICK w : w = Walked(path)
    OBVIOUS
  <1> DEFINE S == {n \in Nat : n <= Len(path) => Level(path, n, w[n])}
  <1>1. 0 \in S
    <2>1. w[0] = <<>>
      BY WalkedStep
    <2>2. \A T : CountOf(path, 0, T) = 0
      <3>1. \A T : {i \in 1..0 : path[i] \in T} = {}
        OBVIOUS
      <3> QED BY <3>1, FS_EmptySet DEF CountOf
    <2>3. Level(path, 0, <<>>)
      BY <2>2, EmptySeq DEF Level, Ups, Downs
    <2> QED BY <2>1, <2>3
  <1>2. ASSUME NEW n \in Nat, n \in S PROVE n + 1 \in S
    <2> SUFFICES ASSUME n + 1 <= Len(path) PROVE Level(path, n + 1, w[n + 1])
      OBVIOUS
    <2>1. n \in 0..(Len(path) - 1) /\ n <= Len(path)
      BY LenProperties
    <2>2. w[n + 1] = Walk(Rooted(path), w[n], path[n + 1])
      BY <2>1, WalkedStep
    <2>3. Level(path, n, w[n])
      BY <1>2, <2>1
    <2> QED BY <2>2, <2>3, LevelStep
  <1>3. Len(path) \in S
    <2> HIDE DEF S
    <2> QED BY <1>1, <1>2, LenProperties, SetInduction
  <1> QED BY <1>3, LenProperties

\* Sequences of one and of two elements; how any other begins.
LEMMA One ==
  \A s : Len(<<s>>) = 1 /\ <<s>>[1] = s /\ Head(<<s>>) = s
  OBVIOUS

LEMMA FirstOfPath ==
  ASSUME NEW T, NEW seq \in Seq(T), seq # <<>>
  PROVE  /\ Len(seq) \in Nat \ {0} /\ Head(seq) = seq[1] /\ seq[1] \in T
         /\ SubSeq(seq, 1, 1) = <<seq[1]>>
  <1>1. Len(seq) \in Nat \ {0}
    BY EmptySeq
  <1>2. seq[1] \in T /\ Head(seq) = seq[1]
    BY <1>1, ElementOfSeq
  <1>3. SubSeq(seq, 1, 0 + 1) = Append(SubSeq(seq, 1, 0), seq[0 + 1])
    <2>1. 0 \in Nat /\ 0 + 1 <= Len(seq)
      BY <1>1
    <2> QED BY <2>1, PrefixGrows
  <1>4. SubSeq(seq, 1, 0) = <<>>
    BY SubSeqEmpty
  <1>5. 0 + 1 = 1 /\ Append(<<>>, seq[1]) = <<seq[1]>>
    OBVIOUS
  <1>6. SubSeq(seq, 1, 1) = <<seq[1]>>
    BY <1>3, <1>4, <1>5
  <1> QED BY <1>1, <1>2, <1>6

LEMMA Two ==
  ASSUME NEW T, NEW s \in T, NEW t \in T
  PROVE  SubSeq(<<s, t>>, 1, 1) = <<s>>
  <1> PICK seq : seq = <<s, t>>
    OBVIOUS
  <1>1. Len(seq) = 2 /\ seq[1] = s /\ seq \in Seq(T)
    OBVIOUS
  <1>2. seq # <<>>
    BY <1>1
  <1> QED BY <1>1, <1>2, FirstOfPath

\* A relative path that cleans to something other than "." or "../..." never leaves
\* its directory, and what it cleans to are names.
LEMMA CleanBelow ==
  ASSUME NEW path \in Seq(Segments), ~ Rooted(path),
         Clean(path) # <<".">>, Head(Clean(path)) # ".."
  PROVE  Clean(path) \in Seq(Names) /\ Clean(path) # <<>> /\ StaysInside(path)
  <1> PICK out : out = Walked(path)[Len(path)]
    OBVIOUS
  <1>1. Clean(path) = out /\ out # <<>>
    BY DEF Clean
  <1>2. Level(path, Len(path), out)
    BY LevelAlong
  <1>3. out \in Seq(Names) /\ \A j \in 1..Len(path) : Ups(path, j) <= Downs(path, j)
    <2>1. CASE out \in Seq(Segments) /\ out # <<>> /\ out[1] = ".."
      <3>1. Head(out) = out[1]
        BY <2>1
      <3> QED BY <1>1, <2>1, <3>1
    <2> QED BY <1>2, <2>1 DEF Level
  <1> QED BY <1>1, <1>3 DEF StaysInside, Ups, Downs, CountOf, Names

\* A path of names is spelled the only way there is.
LEMMA NamesAreCanonical ==
  ASSUME NEW path \in Seq(Names), path # <<>>
  PROVE  canonicalizePath(path) = path /\ StaysInside(path)
  <1>1. ~ Rooted(path) /\ Clean(path) = path
    BY NamesStay
  <1>2. /\ path \in Seq(Segments) /\ Len(path) \in Nat \ {0}
        /\ Head(path) \in Names /\ Head(path) = path[1]
    <2>1. Names \subseteq Segments
      BY DEF Names
    <2>2. path \in Seq(Segments)
      BY <2>1, SeqMonotonic
    <2> QED BY <2>2, FirstOfPath
  <1>3. Head(path) \notin {"", ".", ".."}
    BY <1>2 DEF Names
  <1>4. path # <<".">> /\ path # <<"">>
    BY <1>3, One
  <1>5. TrimDot(TrimSlash(path)) = path
    BY <1>1, <1>3 DEF TrimSlash, TrimDot
  <1>6. canonicalizePath(path) = path
    BY <1>1, <1>3, <1>4, <1>5 DEF canonicalizePath
  <1> QED BY <1>1, <1>2, <1>3, <1>4, <1>6, CleanBelow

\* The path that Execute writes is the path that the policy judges.
LEMMA WrittenPath ==
  ASSUME NEW raw \in Seq(Segments), raw # <<>>, safeRelativePath(raw) # NoPath
  PROVE  LET path == safeRelativePath(raw) IN
         /\ path \in Seq(Names) /\ path # <<>>
         /\ canonicalizePath(raw) = path /\ canonicalizePath(path) = path
         /\ StaysInside(raw) /\ StaysInside(path)
  <1> PICK path : path = safeRelativePath(raw)
    OBVIOUS
  <1>1. /\ path = Clean(TrimDot(raw)) /\ TrimDot(raw) # <<"">> /\ ~ Rooted(TrimDot(raw))
        /\ path # <<".">> /\ Head(path) # ".."
    BY DEF safeRelativePath
  <1>2. Len(raw) \in Nat \ {0}
    BY EmptySeq
  <1>3. ~ Rooted(raw) /\ Clean(raw) = path /\ raw # <<"">>
    <2>1. CASE Len(raw) > 1 /\ Head(raw) = "."
      <3>1. TrimDot(raw) = Tail(raw)
        BY <2>1 DEF TrimDot
      <3>2. Clean(raw) = path
        BY <1>1, <2>1, <3>1, DotIsSkipped
      <3>3. ~ Rooted(raw)
        BY <2>1 DEF Rooted
      <3>4. ASSUME raw = <<"">> PROVE FALSE
        <4>1. Len(raw) = 1
          BY <3>4, One
        <4> QED BY <2>1, <4>1
      <3> QED BY <3>2, <3>3, <3>4
    <2>2. CASE ~ (Len(raw) > 1 /\ Head(raw) = ".")
      <3>1. TrimDot(raw) = raw
        BY <2>2 DEF TrimDot
      <3> QED BY <1>1, <3>1
    <2> QED BY <2>1, <2>2
  <1>4. path \in Seq(Names) /\ path # <<>> /\ StaysInside(raw)
    BY <1>1, <1>3, CleanBelow
  <1>5. canonicalizePath(path) = path /\ StaysInside(path)
    BY <1>4, NamesAreCanonical
  <1>6. canonicalizePath(raw) = path
    <2>1. path # <<"">> /\ ~ Rooted(path) /\ Clean(path) = path
      <3>1. Head(path) \in Names
        BY <1>4, HeadTailProperties
      <3>2. path # <<"">>
        BY <3>1, One DEF Names
      <3> QED BY <1>4, <3>2, NamesStay
    <2>2. TrimDot(TrimSlash(path)) = path
      BY <1>1, <1>5, <2>1, <1>4 DEF canonicalizePath, NoPath
    <2> QED BY <1>1, <1>3, <2>2 DEF canonicalizePath
  <1> QED BY <1>4, <1>5, <1>6

\* Execute writes nothing built-in that the policy lets pass.
LEMMA PassedIsOutside ==
  ASSUME NEW path \in Seq(Names), path # <<>>, CheckPaths({path})
  PROVE  IsOutside(path)
  <1>1. /\ canonicalizePath(path) = path
        /\ Len(path) \in Nat \ {0}
        /\ \A k \in 1..Len(path) : path[k] \in Names
    BY NamesAreCanonical, EmptySeq, ElementOfSeq
  <1>2. \A prefix \in builtinForbiddenPrefixes : ~ matchesForbiddenPrefix(path, prefix)
    BY <1>1 DEF CheckPaths, forbiddenPathPrefixes
  <1>3. ASSUME NEW d \in {".git", ".github", "secrets"}, Len(path) > 1, path[1] = d PROVE FALSE
    <2> DEFINE prefix == <<d, "">>
    <2>1. Len(prefix) = 2 /\ prefix[1] = d /\ prefix[2] = "" /\ Last(prefix) = ""
      BY DEF Last
    <2>2. Front(prefix) = <<d>>
      <3>1. d \in Segments /\ "" \in Segments
        BY SegmentsAssumption
      <3>2. SubSeq(prefix, 1, 1) = <<d>>
        BY <3>1, Two
      <3>3. Len(prefix) - 1 = 1
        OBVIOUS
      <3> HIDE DEF prefix
      <3> QED BY <3>2, <3>3 DEF Front
    <2>3. SubSeq(path, 1, 2 - 1) = <<d>>
      <3>1. SubSeq(path, 1, 1) = <<d>> /\ 2 - 1 = 1
        BY <1>3, FirstOfPath
      <3> QED BY <3>1
    <2>4. HasPrefix(path, prefix)
      <3> HIDE DEF prefix
      <3>1. Len(path) >= 2 /\ BeginsWith(path[2], "")
        BY <1>1, <1>3 DEF BeginsWith
      <3> QED BY <2>1, <2>2, <2>3, <3>1 DEF HasPrefix
    <2>5. matchesForbiddenPrefix(path, prefix)
      BY <2>1, <2>4 DEF matchesForbiddenPrefix
    <2>6. prefix \in builtinForbiddenPrefixes
      BY DEF builtinForbiddenPrefixes
    <2> QED BY <1>2, <2>5, <2>6
  <1>4. ASSUME Len(path) = 1, path[1] = ".env" \/ <<path[1], ".env">> \in Dotted PROVE FALSE
    <2> DEFINE prefix == <<".env">>
    <2>1. Len(prefix) = 1 /\ prefix[1] = ".env" /\ Last(prefix) = ".env" /\ Head(prefix) = ".env"
      BY DEF Last
    <2>2. Front(prefix) = <<>> /\ SubSeq(path, 1, 1 - 1) = <<>>
      BY <2>1, SubSeqEmpty DEF Front
    <2>3. BeginsWith(path[1], ".env")
      BY <1>4, SegmentsAssumption DEF BeginsWith
    <2>4. HasPrefix(path, prefix)
      BY <1>4, <2>1, <2>2, <2>3 DEF HasPrefix
    <2>5. path[1] = ".env" => path = prefix
      BY <1>4, <2>1
    <2>6. matchesForbiddenPrefix(path, prefix)
      BY <1>4, <2>1, <2>4, <2>5 DEF matchesForbiddenPrefix
    <2>7. prefix \in builtinForbiddenPrefixes
      BY DEF builtinForbiddenPrefixes
    <2> QED BY <1>2, <2>6, <2>7
  <1>5. \A k \in 1..Len(path) : path[k] \notin {"", ".", ".."}
    BY <1>1 DEF Names
  <1> QED BY <1>3, <1>4, <1>5 DEF IsOutside

\* The paths looked at are sequences of at least one segment.
LEMMA PathShape == ASSUME NEW raw \in Paths PROVE raw \in Seq(Segments) /\ raw # <<>>
  <1>1. PICK n \in 1..MaxSegments : raw \in [1..n -> Segments]
    BY DEF Paths
  <1>2. n \in Nat \ {0}
    <2>1. MaxSegments \in Nat
      BY SegmentsAssumption
    <2> QED BY <2>1
  <1>3. raw \in Seq(Segments) /\ DOMAIN raw = 1..n /\ 1 \in 1..n
    BY <1>1, <1>2, SeqDef
  <1> QED BY <1>3

\* Whatever way a path of any length is spelled, the policy judges it under the name
\* Execute writes it to; that lies inside the working directory and, if it is let
\* pass, in nothing built-in (policy.go:62-95 and 153-171, runner.go:190-210).
THEOREM PathsJudgedAsWritten == JudgedAsWritten
  <1> SUFFICES ASSUME NEW raw \in Paths, safeRelativePath(raw) # NoPath
               PROVE  LET path == safeRelativePath(raw) IN
                      /\ StaysInside(raw) /\ StaysInside(path)
                      /\ CheckPaths({raw}) <=> CheckPaths({path})
                      /\ RequiresApproval({raw}) <=> RequiresApproval({path})
                      /\ CheckPaths({raw}) => canonicalizePath(raw) = path /\ IsOutside(path)
    BY DEF JudgedAsWritten
  <1> PICK path : path = safeRelativePath(raw)
    OBVIOUS
  <1>1. raw \in Seq(Segments) /\ raw # <<>>
    BY PathShape
  <1>2. /\ path \in Seq(Names) /\ path # <<>>
        /\ canonicalizePath(raw) = path /\ canonicalizePath(path) = path
        /\ StaysInside(raw) /\ StaysInside(path)
    BY <1>1, WrittenPath
  <1>3. CheckPaths({raw}) <=> CheckPaths({path})
    BY <1>2 DEF CheckPaths
  <1>4. RequiresApproval({raw}) <=> RequiresApproval({path})
    BY <1>2 DEF RequiresApproval
  <1>5. CheckPaths({raw}) => IsOutside(path)
    BY <1>2, <1>3, PassedIsOutside
  <1> QED BY <1>2, <1>3, <1>4, <1>5

==============================================================================
