---------------------------- MODULE StreamLemmas ----------------------------
(***************************************************************************)
(* Facts about sequences, sets of natural numbers and FlattenSeq, and      *)
(* about streams of frames, that the proofs about both ends of a tunnel    *)
(* share.                                                                  *)
(***************************************************************************)
EXTENDS Frame, SequenceTheorems, FiniteSetTheorems, TLAPS

-----------------------------------------------------------------------------
(* Queues *)

\* What taking the first element off a queue leaves.
LEMMA TailFacts ==
    ASSUME NEW S, NEW s \in Seq(S), s # <<>>
    PROVE  /\ Tail(s) \in Seq(S)
           /\ Len(s) \in Nat /\ Len(s) >= 1
           /\ Len(Tail(s)) = Len(s) - 1
           /\ DOMAIN s = 1..Len(s)
           /\ DOMAIN Tail(s) = 1..(Len(s) - 1)
           /\ Head(s) = s[1] /\ Head(s) \in S
           /\ \A i \in 1..(Len(s) - 1) : Tail(s)[i] = s[i + 1]
    OBVIOUS

\* A sequence without elements is the empty one.
LEMMA EmptyFacts == ASSUME NEW S, NEW s \in Seq(S), Len(s) = 0 PROVE s = <<>>
    OBVIOUS

\* What adding an element at the end of a queue gives.
LEMMA AppendFacts ==
    ASSUME NEW S, NEW s \in Seq(S), NEW e \in S
    PROVE  /\ Append(s, e) \in Seq(S)
           /\ Len(s) \in Nat
           /\ Len(Append(s, e)) = Len(s) + 1
           /\ DOMAIN s = 1..Len(s)
           /\ DOMAIN Append(s, e) = 1..(Len(s) + 1)
           /\ \A i \in 1..Len(s) : Append(s, e)[i] = s[i]
           /\ Append(s, e)[Len(s) + 1] = e
           /\ Append(s, e) # <<>>
           /\ s # <<>> => Head(Append(s, e)) = Head(s)
    BY SMTT(30)

\* What adding an element in front of a queue gives.
LEMMA ConsFacts ==
    ASSUME NEW S, NEW s \in Seq(S), NEW x \in S
    PROVE  /\ <<x>> \o s \in Seq(S)
           /\ Len(s) \in Nat /\ Len(<<x>> \o s) = Len(s) + 1
           /\ (<<x>> \o s)[1] = x
           /\ \A i \in 1..Len(s) : (<<x>> \o s)[i + 1] = s[i]
<1> DEFINE z == <<x>> \o s
<1>1. <<x>> \in Seq(S) /\ Len(<<x>>) = 1 /\ <<x>>[1] = x /\ Len(s) \in Nat
  OBVIOUS
<1>2. z \in Seq(S) /\ Len(z) = Len(s) + 1 /\ z[1] = x
  BY <1>1
<1>3. \A i \in 1..Len(s) : z[i + 1] = s[i]
  BY <1>1
<1> QED BY <1>1, <1>2, <1>3

\* A function on 1..n is a sequence of length n.
LEMMA FunctionIsSeq ==
    ASSUME NEW S, NEW n \in Nat, NEW f \in [1..n -> S]
    PROVE  f \in Seq(S) /\ Len(f) = n
    OBVIOUS

\* The first n elements of a sequence, and one more.
LEMMA PrefixFacts ==
    ASSUME NEW S, NEW s \in Seq(S), NEW n \in Nat, n <= Len(s)
    PROVE  /\ SubSeq(s, 1, n) \in Seq(S)
           /\ Len(SubSeq(s, 1, n)) = n
           /\ \A i \in 1..n : SubSeq(s, 1, n)[i] = s[i]
    OBVIOUS

\* A prefix one element longer is the prefix with that element appended.
LEMMA PrefixGrows ==
    ASSUME NEW S, NEW s \in Seq(S), NEW n \in Nat, n + 1 <= Len(s)
    PROVE  /\ s[n + 1] \in S
           /\ SubSeq(s, 1, n + 1) = Append(SubSeq(s, 1, n), s[n + 1])
<1>1. s[n + 1] \in S
  OBVIOUS
<1>2. /\ SubSeq(s, 1, n) \in Seq(S) /\ Len(SubSeq(s, 1, n)) = n
      /\ \A i \in 1..n : SubSeq(s, 1, n)[i] = s[i]
  BY PrefixFacts
<1>3. /\ SubSeq(s, 1, n + 1) \in Seq(S) /\ Len(SubSeq(s, 1, n + 1)) = n + 1
      /\ \A i \in 1..(n + 1) : SubSeq(s, 1, n + 1)[i] = s[i]
  BY PrefixFacts
<1> DEFINE a == SubSeq(s, 1, n)
           b == SubSeq(s, 1, n + 1)
           c == Append(a, s[n + 1])
<1>4. c \in Seq(S) /\ Len(c) = n + 1
      /\ \A i \in 1..(n + 1) : c[i] = s[i]
  <2> HIDE DEF a
  <2> QED BY <1>1, <1>2, AppendFacts DEF a
<1> HIDE DEF a, b, c
<1>5. b = c
  BY <1>3, <1>4, SeqEqual DEF b
<1> QED BY <1>1, <1>5 DEF a, b, c

\* Two sequences, one after the other, under a name the provers do not simplify.
Joined(x, y) == x \o y

\* z has the elements of x and then those of y.
Joins(z, x, y) ==
    /\ Len(x) \in Nat /\ Len(y) \in Nat
    /\ Len(z) = Len(x) + Len(y)
    /\ \A k \in 1..Len(x) : z[k] = x[k]
    /\ \A k \in 1..Len(y) : z[Len(x) + k] = y[k]

\* The elements of two sequences, one after the other.
LEMMA ConcatFacts ==
    ASSUME NEW S, NEW x \in Seq(S), NEW y \in Seq(S)
    PROVE  Joined(x, y) \in Seq(S) /\ Joins(Joined(x, y), x, y)
<1> DEFINE z == x \o y
           m == Len(x)
           n == Len(y)
<1>0. m \in Nat /\ n \in Nat
  OBVIOUS
<1>1. z \in Seq(S) /\ Len(z) = m + n
  OBVIOUS
<1>2. \A k \in 1..m : z[k] = x[k]
  OBVIOUS
<1>3. ASSUME NEW k \in 1..n PROVE z[m + k] = y[k]
  <2> DEFINE i == m + k
  <2>1. i \in 1..(m + n) /\ ~(i <= m) /\ i - m = k
    BY <1>0
  <2> HIDE DEF i
  <2>2. (x \o y)[i] = y[i - m]
    BY <2>1
  <2> QED BY <2>1, <2>2 DEF i
<1>4. z = Joined(x, y)
  BY DEF Joined
<1>5. Joins(z, x, y)
  BY <1>0, <1>1, <1>2, <1>3 DEF Joins
<1> HIDE DEF z
<1> QED BY <1>1, <1>4, <1>5

\* The elements of a sequence from one place to another.
LEMMA SliceFacts ==
    ASSUME NEW S, NEW s \in Seq(S), NEW a \in Nat, NEW b \in Nat, a <= b, b <= Len(s)
    PROVE  /\ SubSeq(s, a + 1, b) \in Seq(S)
           /\ Len(SubSeq(s, a + 1, b)) = b - a
           /\ \A k \in 1..(b - a) : SubSeq(s, a + 1, b)[k] = s[a + k]
<1>1. SubSeq(s, a + 1, b) \in Seq(S) /\ Len(SubSeq(s, a + 1, b)) = b - a
  OBVIOUS
<1>2. \A k \in 1..(b - a) : SubSeq(s, a + 1, b)[k] = s[a + k]
  OBVIOUS
<1> QED BY <1>1, <1>2

\* A sequence with the same elements is that slice.
LEMMA SliceIs ==
    ASSUME NEW S, NEW s \in Seq(S), NEW a \in Nat, NEW b \in Nat, a <= b, b <= Len(s),
           NEW t \in Seq(S), Len(t) = b - a, \A k \in 1..(b - a) : t[k] = s[a + k]
    PROVE  t = SubSeq(s, a + 1, b)
<1> DEFINE u == SubSeq(s, a + 1, b)
<1>1. u \in Seq(S) /\ Len(u) = b - a /\ \A k \in 1..(b - a) : u[k] = s[a + k]
  BY SliceFacts
<1> HIDE DEF u
<1>2. \A k \in 1..Len(t) : t[k] = u[k]
  BY <1>1
<1>3. t = u
  BY <1>1, <1>2, SeqEqual
<1> QED BY <1>3 DEF u

\* Adjacent slices.
LEMMA SlicesJoin ==
    ASSUME NEW S, NEW s \in Seq(S), NEW a \in Nat, NEW b \in Nat, NEW c \in Nat,
           a <= b, b <= c, c <= Len(s)
    PROVE  SubSeq(s, a + 1, b) \o SubSeq(s, b + 1, c) = SubSeq(s, a + 1, c)
<1> DEFINE x == SubSeq(s, a + 1, b)
           y == SubSeq(s, b + 1, c)
           z == x \o y
<1>0. Len(s) \in Nat
  OBVIOUS
<1>1. /\ x \in Seq(S) /\ Len(x) = b - a /\ \A k \in 1..(b - a) : x[k] = s[a + k]
      /\ y \in Seq(S) /\ Len(y) = c - b /\ \A k \in 1..(c - b) : y[k] = s[b + k]
  BY <1>0, SliceFacts
<1> HIDE DEF x, y
<1>2. /\ z \in Seq(S) /\ Len(z) = c - a
      /\ \A k \in 1..(b - a) : z[k] = x[k]
      /\ \A k \in 1..(c - b) : z[(b - a) + k] = y[k]
  <2> DEFINE m == b - a
             n == c - b
  <2>1. m \in Nat /\ n \in Nat /\ m + n = c - a
    OBVIOUS
  <2>2. Len(x) = m /\ Len(y) = n /\ x \in Seq(S) /\ y \in Seq(S)
    BY <1>1
  <2> HIDE DEF m, n
  <2>4. z = Joined(x, y)
    BY DEF Joined
  <2> HIDE DEF z
  <2>3. /\ z \in Seq(S) /\ Len(z) = m + n
        /\ \A k \in 1..m : z[k] = x[k]
        /\ \A k \in 1..n : z[m + k] = y[k]
    <3>1. z \in Seq(S) /\ Joins(z, x, y)
      BY <2>2, <2>4, ConcatFacts
    <3> QED BY <2>2, <3>1 DEF Joins
  <2> QED BY <2>1, <2>3 DEF m, n
<1> HIDE DEF z
<1>3. ASSUME NEW k \in 1..(c - a) PROVE z[k] = s[a + k]
  <2>1. CASE k <= b - a
    BY <1>1, <1>2, <2>1
  <2>2. CASE k > b - a
    <3> DEFINE i == k - (b - a)
    <3>1. i \in 1..(c - b) /\ b + i = a + k /\ (b - a) + i = k
      BY <2>2
    <3> HIDE DEF i
    <3>2. y[i] = s[b + i] /\ z[(b - a) + i] = y[i]
      BY <1>1, <1>2, <3>1
    <3> QED BY <3>1, <3>2
  <2> QED BY <2>1, <2>2
<1> HIDE DEF z
<1>4. z = SubSeq(s, a + 1, c)
  BY <1>0, <1>2, <1>3, SliceIs
<1> QED BY <1>4 DEF x, y, z

\* x is the slice of s that begins behind place a, and y what follows it up to c.
Cuts(s, a, c, x, y) ==
    /\ a + Len(x) <= c
    /\ x = SubSeq(s, a + 1, a + Len(x))
    /\ y = SubSeq(s, a + Len(x) + 1, c)

\* The slice of s from behind place a to place c.
Slice(s, a, c) == SubSeq(s, a + 1, c)

\* A slice cut in two.
LEMMA SliceCut ==
    ASSUME NEW S, NEW s \in Seq(S), NEW a \in Nat, NEW c \in Nat, a <= c, c <= Len(s),
           NEW x \in Seq(S), NEW y \in Seq(S), Joined(x, y) = Slice(s, a, c)
    PROVE  Cuts(s, a, c, x, y)
<1> DEFINE z == SubSeq(s, a + 1, c)
           n == Len(x)
<1>0. Len(s) \in Nat /\ n \in Nat /\ Len(y) \in Nat
  OBVIOUS
<1>1. z \in Seq(S) /\ Len(z) = c - a /\ \A k \in 1..(c - a) : z[k] = s[a + k]
  BY SliceFacts
<1>2. /\ Len(z) = n + Len(y)
      /\ \A k \in 1..n : z[k] = x[k]
      /\ \A k \in 1..Len(y) : z[n + k] = y[k]
  <2> HIDE DEF z
  <2>1. Joined(x, y) = z
    BY DEF z, Slice
  <2>2. Joins(z, x, y)
    BY <2>1, ConcatFacts
  <2> QED BY <2>2 DEF Joins
<1> HIDE DEF z
<1>3. /\ Len(x) = (a + n) - a /\ a + n \in Nat /\ a <= a + n
      /\ a + n <= c /\ Len(y) = c - (a + n) /\ a + n <= Len(s)
  <2> DEFINE m == Len(y)
  <2>1. n \in Nat /\ m \in Nat /\ Len(s) \in Nat /\ c - a = n + m
    BY <1>0, <1>1, <1>2
  <2>2. Len(x) = n
    OBVIOUS
  <2> HIDE DEF n, m
  <2>3. n = (a + n) - a /\ a + n \in Nat /\ a <= a + n /\ a + n <= c /\ m = c - (a + n)
        /\ a + n <= Len(s)
    BY <2>1
  <2> QED BY <2>2, <2>3 DEF m
<1> HIDE DEF n
<1>4. ASSUME NEW k \in 1..((a + n) - a) PROVE x[k] = s[a + k]
  <2>1. n \in Nat /\ k \in 1..n /\ k \in 1..(c - a)
    BY <1>0, <1>3 DEF n
  <2> QED BY <1>1, <1>2, <2>1
<1>5. ASSUME NEW k \in 1..(c - (a + n)) PROVE y[k] = s[(a + n) + k]
  <2>1. n + k \in 1..(c - a) /\ k \in 1..Len(y) /\ a + (n + k) = (a + n) + k
    <3>1. n \in Nat
      BY <1>0 DEF n
    <3> QED BY <1>3, <3>1
  <2>2. z[n + k] = s[a + (n + k)]
    BY <1>1, <2>1
  <2> QED BY <1>2, <2>1, <2>2
<1>6. x = SubSeq(s, a + 1, a + n)
  BY <1>3, <1>4, SliceIs
<1>7. y = SubSeq(s, (a + n) + 1, c)
  BY <1>3, <1>5, SliceIs
<1> QED BY <1>3, <1>6, <1>7 DEF n, Cuts

-----------------------------------------------------------------------------
(* Induction *)

\* A set of natural numbers has a least element.
LEMMA LeastNat ==
    ASSUME NEW T \in SUBSET Nat, T # {}
    PROVE  \E x \in T : \A y \in T : x <= y
<1>1. IsWellFoundedOn(OpToRel(<,Nat), Nat)
  BY NatLessThanWellFounded
<1>2. \A y \in T, x \in T : y < x => <<y, x>> \in OpToRel(<,Nat)
  BY DEF OpToRel
<1>3. PICK x \in T : \A y \in T : ~ (<<y, x>> \in OpToRel(<,Nat))
  BY <1>1, WFMin
<1>4. \A y \in T : ~(y < x)
  BY <1>2, <1>3, Zenon
<1> QED BY <1>4

\* Induction over the natural numbers, for a set instead of a predicate.
LEMMA NatSetInduction ==
    ASSUME NEW S, 0 \in S, \A n \in Nat : n \in S => n + 1 \in S
    PROVE  Nat \subseteq S
<1> SUFFICES ASSUME ~(Nat \subseteq S) PROVE FALSE
  OBVIOUS
<1>1. Nat \ S \in SUBSET Nat /\ Nat \ S # {}
  OBVIOUS
<1>2. PICK x \in Nat \ S : \A y \in Nat \ S : x <= y
  BY <1>1, LeastNat
<1>3. x # 0 /\ x - 1 \in Nat
  BY <1>2
<1>4. x - 1 \in S
  BY <1>2, <1>3
<1> QED BY <1>2, <1>3, <1>4

-----------------------------------------------------------------------------
(* FlattenSeq *)

\* f is the function FlattenSeq is defined with, on the first n elements.
Flattens(f, seqs, n) ==
    f = [i \in 1..n |-> IF i = 1 THEN seqs[i] ELSE f[i-1] \o seqs[i]]

\* There is a function that flattens the first n sequences, for every n.
LEMMA FlattensExists == ASSUME NEW seqs PROVE \A n \in Nat : \E f : Flattens(f, seqs, n)
<1> DEFINE P == {n \in Nat : \E f : Flattens(f, seqs, n)}
<1>1. 0 \in P
  <2>1. Flattens([i \in 1..0 |-> i], seqs, 0)
    BY DEF Flattens
  <2> QED BY <2>1
<1>2. ASSUME NEW n \in Nat, n \in P PROVE n + 1 \in P
  <2>1. PICK f : Flattens(f, seqs, n)
    BY <1>2
  <2> DEFINE g == [i \in 1..(n + 1) |-> IF i = n + 1
                     THEN IF n = 0 THEN seqs[1] ELSE f[n] \o seqs[n + 1]
                     ELSE f[i]]
             h == [i \in 1..(n + 1) |-> IF i = 1 THEN seqs[i] ELSE g[i-1] \o seqs[i]]
  <2>2. ASSUME NEW i \in 1..(n + 1) PROVE g[i] = h[i]
    <3>1. CASE i = n + 1
      <4>1. CASE n = 0
        BY <3>1, <4>1
      <4>2. CASE n # 0
        <5>1. i - 1 \in 1..n /\ i # 1 /\ i - 1 = n /\ i - 1 \in 1..(n + 1) /\ i - 1 # n + 1
          BY <3>1, <4>2
        <5>2. g[i] = f[n] \o seqs[n + 1] /\ g[i - 1] = f[n]
          BY <3>1, <4>2, <5>1
        <5>3. h[i] = g[i - 1] \o seqs[i]
          BY <5>1
        <5> QED BY <3>1, <5>2, <5>3
      <4> QED BY <4>1, <4>2
    <3>2. CASE i # n + 1
      <4>1. i \in 1..n /\ g[i] = f[i]
        BY <3>2
      <4>2. f[i] = IF i = 1 THEN seqs[i] ELSE f[i-1] \o seqs[i]
        BY <2>1, <4>1 DEF Flattens
      <4>3. i # 1 => g[i - 1] = f[i - 1]
        BY <4>1
      <4> QED BY <4>1, <4>2, <4>3
    <3> QED BY <3>1, <3>2
  <2>3. g = h
    BY <2>2
  <2>4. Flattens(g, seqs, n + 1)
    BY <2>3, Zenon DEF Flattens
  <2> HIDE DEF g
  <2> QED BY <2>4
<1> HIDE DEF P
<1>3. Nat \subseteq P
  BY <1>1, <1>2, NatSetInduction
<1> QED BY <1>3 DEF P

\* One step of the recursion.
LEMMA FlattensStep ==
    ASSUME NEW seqs, NEW n \in Nat, NEW f, Flattens(f, seqs, n), NEW i \in 1..n
    PROVE  f[i] = IF i = 1 THEN seqs[i] ELSE f[i-1] \o seqs[i]
<1> DEFINE g == [k \in 1..n |-> IF k = 1 THEN seqs[k] ELSE f[k-1] \o seqs[k]]
<1>1. f = g
  BY DEF Flattens
<1>2. g[i] = IF i = 1 THEN seqs[i] ELSE f[i-1] \o seqs[i]
  OBVIOUS
<1> HIDE DEF g
<1> QED BY <1>1, <1>2

\* It is determined by the sequences it flattens.
LEMMA FlattensUnique ==
    ASSUME NEW seqs, NEW seqs2, NEW n \in Nat, NEW m \in Nat, n <= m,
           \A i \in 1..n : seqs[i] = seqs2[i],
           NEW f, Flattens(f, seqs, n), NEW g, Flattens(g, seqs2, m)
    PROVE  \A i \in 1..n : f[i] = g[i]
<1> DEFINE P == {k \in Nat : k + 1 \in 1..n => f[k + 1] = g[k + 1]}
<1>0. /\ \A i \in 1..n : f[i] = IF i = 1 THEN seqs[i] ELSE f[i-1] \o seqs[i]
      /\ \A i \in 1..n : g[i] = IF i = 1 THEN seqs[i] ELSE g[i-1] \o seqs[i]
  BY FlattensStep
<1>1. 0 \in P
  BY <1>0
<1>2. ASSUME NEW k \in Nat, k \in P PROVE k + 1 \in P
  <2> SUFFICES ASSUME (k + 1) + 1 \in 1..n PROVE f[(k + 1) + 1] = g[(k + 1) + 1]
    OBVIOUS
  <2>1. k + 1 \in 1..n /\ (k + 1) + 1 # 1 /\ ((k + 1) + 1) - 1 = k + 1
    OBVIOUS
  <2>2. f[k + 1] = g[k + 1]
    BY <1>2, <2>1
  <2> QED BY <1>0, <2>1, <2>2
<1> HIDE DEF P
<1>3. Nat \subseteq P
  BY <1>1, <1>2, NatSetInduction
<1>4. ASSUME NEW i \in 1..n PROVE f[i] = g[i]
  <2>1. i - 1 \in Nat /\ (i - 1) + 1 = i
    OBVIOUS
  <2>2. i - 1 \in P
    BY <1>3, <2>1
  <2> QED BY <2>1, <2>2 DEF P
<1> QED BY <1>4

\* FlattenSeq is that function's last value.
LEMMA FlattenIs ==
    ASSUME NEW S, NEW seqs \in Seq(S), Len(seqs) \in Nat \ {0}
    PROVE  \E f : Flattens(f, seqs, Len(seqs)) /\ FlattenSeq(seqs) = f[Len(seqs)]
<1> DEFINE f == CHOOSE f : Flattens(f, seqs, Len(seqs))
<1>1. Flattens(f, seqs, Len(seqs))
  BY FlattensExists
<1>2. FlattenSeq(seqs) = f[Len(seqs)]
  BY DEF FlattenSeq, Flattens
<1> QED BY <1>1, <1>2

\* Flattening nothing.
LEMMA FlattenEmpty == FlattenSeq(<<>>) = <<>>
  BY DEF FlattenSeq

\* Flattening one element more.
LEMMA FlattenMore ==
    ASSUME NEW S, NEW seqs \in Seq(S), NEW longer \in Seq(S), NEW n \in Nat \ {0}, Len(seqs) = n, Len(longer) = n + 1,
           \A i \in 1..n : seqs[i] = longer[i]
    PROVE  FlattenSeq(longer) = FlattenSeq(seqs) \o longer[n + 1]
<1>1. PICK g : Flattens(g, longer, n + 1) /\ FlattenSeq(longer) = g[n + 1]
  BY FlattenIs
<1>2. PICK f : Flattens(f, seqs, n) /\ FlattenSeq(seqs) = f[n]
  BY FlattenIs
<1>3. ASSUME NEW m \in Nat, m = n + 1 PROVE g[m] = g[n] \o longer[m]
  <2>1. Flattens(g, longer, m) /\ m \in 1..m /\ m # 1 /\ m - 1 = n
    BY <1>1, <1>3
  <2>2. g[m] = IF m = 1 THEN longer[m] ELSE g[m - 1] \o longer[m]
    <3> DEFINE h == [k \in 1..m |-> IF k = 1 THEN longer[k] ELSE g[k-1] \o longer[k]]
    <3>1. g = h
      BY <2>1 DEF Flattens
    <3>2. h[m] = IF m = 1 THEN longer[m] ELSE g[m - 1] \o longer[m]
      BY <2>1
    <3> HIDE DEF h
    <3> QED BY <3>1, <3>2
  <2> QED BY <2>1, <2>2
<1>4. n \in Nat /\ n + 1 \in Nat /\ n <= n + 1 /\ n \in 1..n
  OBVIOUS
<1>5. f[n] = g[n]
  BY <1>1, <1>2, <1>4, FlattensUnique, SMTT(30)
<1>6. g[n + 1] = g[n] \o longer[n + 1]
  BY <1>3, <1>4
<1> QED BY <1>1, <1>2, <1>5, <1>6

\* Flattening one sequence gives it back.
LEMMA FlattenOne ==
    ASSUME NEW S, NEW seqs \in Seq(S), Len(seqs) = 1 PROVE FlattenSeq(seqs) = seqs[1]
<1>1. PICK g : Flattens(g, seqs, 1) /\ FlattenSeq(seqs) = g[1]
  BY FlattenIs
<1> QED BY <1>1, FlattensStep

\* A sequence appended to the list goes behind the flattened ones.
LEMMA FlattenAppend ==
    ASSUME NEW S, NEW seqs \in Seq(Seq(S)), NEW e \in Seq(S)
    PROVE  FlattenSeq(Append(seqs, e)) = FlattenSeq(seqs) \o e
<1> DEFINE longer == Append(seqs, e)
<1>1. /\ Len(seqs) \in Nat /\ Len(longer) = Len(seqs) + 1
      /\ \A i \in 1..Len(seqs) : seqs[i] = longer[i]
      /\ longer[Len(seqs) + 1] = e
      /\ longer \in Seq(Seq(S)) /\ seqs \in Seq(Seq(S))
  OBVIOUS
<1> HIDE DEF longer
<1>2. CASE seqs = <<>>
  <2>1. FlattenSeq(longer) = e
    <3>1. Len(longer) = 1 /\ longer[1] = e
      BY <1>1, <1>2
    <3> QED BY <1>1, <3>1, FlattenOne
  <2>2. FlattenSeq(seqs) = <<>>
    BY <1>2, FlattenEmpty
  <2> QED BY <2>1, <2>2 DEF longer
<1>3. CASE seqs # <<>>
  <2>1. Len(seqs) \in Nat \ {0}
    BY <1>3
  <2>2. FlattenSeq(longer) = FlattenSeq(seqs) \o longer[Len(seqs) + 1]
    BY <1>1, <2>1, FlattenMore
  <2> QED BY <1>1, <2>2 DEF longer
<1> QED BY <1>2, <1>3

\* Flattening sequences over S gives one.
LEMMA FlattenType ==
    ASSUME NEW S, NEW seqs \in Seq(Seq(S))
    PROVE  FlattenSeq(seqs) \in Seq(S)
<1>1. CASE seqs = <<>>
  <2>1. FlattenSeq(seqs) = <<>>
    BY <1>1, FlattenEmpty
  <2> QED BY <2>1
<1>2. CASE seqs # <<>>
  <2> DEFINE n == Len(seqs)
  <2>1. n \in Nat \ {0} /\ \A i \in 1..n : seqs[i] \in Seq(S)
    BY <1>2
  <2>2. PICK f : Flattens(f, seqs, n) /\ FlattenSeq(seqs) = f[n]
    BY <2>1, FlattenIs
  <2>3. \A i \in 1..n : f[i] = IF i = 1 THEN seqs[i] ELSE f[i-1] \o seqs[i]
    <3> DEFINE h == [k \in 1..n |-> IF k = 1 THEN seqs[k] ELSE f[k-1] \o seqs[k]]
    <3>1. f = h
      BY <2>2 DEF Flattens
    <3>2. \A i \in 1..n : h[i] = IF i = 1 THEN seqs[i] ELSE f[i-1] \o seqs[i]
      OBVIOUS
    <3> HIDE DEF h
    <3> QED BY <3>1, <3>2
  <2> HIDE DEF n
  <2> DEFINE P == {k \in Nat : k + 1 \in 1..n => f[k + 1] \in Seq(S)}
  <2>4. 0 \in P
    BY <2>1, <2>3
  <2>5. ASSUME NEW k \in Nat, k \in P PROVE k + 1 \in P
    <3> SUFFICES ASSUME NEW m, m = (k + 1) + 1, m \in 1..n PROVE f[m] \in Seq(S)
      OBVIOUS
    <3>1. k + 1 \in 1..n /\ m # 1 /\ m - 1 = k + 1
      BY <2>1
    <3>2. f[m] = f[k + 1] \o seqs[m] /\ f[k + 1] \in Seq(S) /\ seqs[m] \in Seq(S)
      BY <2>1, <2>3, <2>5, <3>1
    <3> QED BY <3>2
  <2> HIDE DEF P
  <2>6. Nat \subseteq P
    BY <2>4, <2>5, NatSetInduction
  <2>7. n - 1 \in P /\ (n - 1) + 1 = n /\ n \in 1..n
    BY <2>1, <2>6
  <2> QED BY <2>2, <2>7 DEF P
<1> QED BY <1>1, <1>2

-----------------------------------------------------------------------------
(* Prefixes of concatenations *)

\* What starts with the first bytes of a piece starts with the piece's owner.
LEMMA PartIsPrefix ==
    ASSUME NEW S, NEW a \in Seq(S), NEW b \in Seq(S), NEW c \in Seq(S),
           NEW k \in Nat, k <= Len(b)
    PROVE  IsPrefix(a \o SubSeq(b, 1, k), (a \o b) \o c)
<1> DEFINE part == SubSeq(b, 1, k)
           short == a \o part
           long == (a \o b) \o c
<1>1. /\ part \in Seq(S) /\ Len(part) = k /\ \A i \in 1..k : part[i] = b[i]
  BY PrefixFacts
<1> HIDE DEF part
<1>2. /\ short \in Seq(S) /\ Len(short) = Len(a) + k
      /\ \A i \in 1..(Len(a) + k) :
            short[i] = IF i <= Len(a) THEN a[i] ELSE part[i - Len(a)]
  <2>1. short \in Seq(S) /\ Joins(short, a, part)
    BY <1>1, ConcatFacts DEF Joined
  <2> DEFINE m == Len(a)
  <2>2. /\ m \in Nat /\ Len(short) = m + k
        /\ \A i \in 1..m : short[i] = a[i]
        /\ \A i \in 1..k : short[m + i] = part[i]
    BY <1>1, <2>1 DEF Joins
  <2> HIDE DEF m, short
  <2>3. ASSUME NEW i \in 1..(m + k) PROVE short[i] = IF i <= m THEN a[i] ELSE part[i - m]
    <3>1. i <= m => i \in 1..m
      BY <2>2
    <3>2. ~(i <= m) => i - m \in 1..k /\ m + (i - m) = i
      BY <2>2
    <3>3. ~(i <= m) => short[m + (i - m)] = part[i - m]
      BY <2>2, <3>2
    <3> QED BY <2>2, <3>1, <3>2, <3>3
  <2> QED BY <2>1, <2>2, <2>3 DEF m
<1>3. /\ long \in Seq(S) /\ Len(long) = (Len(a) + Len(b)) + Len(c)
      /\ \A i \in 1..(Len(a) + Len(b)) :
            long[i] = IF i <= Len(a) THEN a[i] ELSE b[i - Len(a)]
  OBVIOUS
<1> HIDE DEF short, long
<1>4. Len(a) \in Nat /\ Len(b) \in Nat /\ Len(c) \in Nat
  OBVIOUS
<1>5. ASSUME NEW i \in 1..Len(short) PROVE short[i] = long[i]
  <2>1. i \in 1..(Len(a) + k) /\ i \in 1..(Len(a) + Len(b))
    BY <1>2, <1>4
  <2>2. ~(i <= Len(a)) => i - Len(a) \in 1..k
    BY <1>4, <2>1
  <2> QED BY <1>1, <1>2, <1>3, <2>1, <2>2
<1>6. Len(short) \in Nat /\ Len(short) <= Len(long)
  BY <1>2, <1>3, <1>4
<1>7. SubSeq(short, 1, Len(short)) = SubSeq(long, 1, Len(short))
  <2> DEFINE x == SubSeq(short, 1, Len(short))
             y == SubSeq(long, 1, Len(short))
  <2>1. /\ x \in Seq(S) /\ Len(x) = Len(short)
        /\ \A i \in 1..Len(short) : x[i] = short[i]
    BY <1>2, <1>6, PrefixFacts
  <2>2. /\ y \in Seq(S) /\ Len(y) = Len(short)
        /\ \A i \in 1..Len(short) : y[i] = long[i]
    BY <1>3, <1>6, PrefixFacts
  <2> HIDE DEF x, y
  <2>3. x = y
    BY <1>5, <2>1, <2>2, SeqEqual
  <2> QED BY <2>3 DEF x, y
<1>8. IsPrefix(short, long)
  BY <1>6, <1>7 DEF IsPrefix
<1> QED BY <1>8 DEF short, long, part

\* Going on from where a first part ends gives a longer first part.
LEMMA PartsJoin ==
    ASSUME NEW S, NEW s \in Seq(S), NEW b \in Nat, NEW n \in Nat, b + n <= Len(s)
    PROVE  SubSeq(s, 1, b) \o SubSeq(SubSeq(s, b + 1, Len(s)), 1, n) = SubSeq(s, 1, b + n)
<1> DEFINE x == SubSeq(s, 1, b)
           rest == SubSeq(s, b + 1, Len(s))
           y == SubSeq(rest, 1, n)
           z == SubSeq(s, 1, b + n)
<1>0. Len(s) \in Nat
  OBVIOUS
<1>1. x \in Seq(S) /\ Len(x) = b /\ \A i \in 1..b : x[i] = s[i]
  <2>1. b <= Len(s)
    BY <1>0
  <2> QED BY <2>1, PrefixFacts
<1>2. /\ rest \in Seq(S) /\ Len(rest) = Len(s) - b
      /\ \A i \in 1..(Len(s) - b) : rest[i] = s[b + i]
  BY <1>0
<1> HIDE DEF rest
<1>3. y \in Seq(S) /\ Len(y) = n /\ \A i \in 1..n : y[i] = s[b + i]
  <2>1. n <= Len(rest)
    BY <1>0, <1>2
  <2>2. y \in Seq(S) /\ Len(y) = n /\ \A i \in 1..n : y[i] = rest[i]
    BY <1>2, <2>1, PrefixFacts
  <2> HIDE DEF y
  <2>3. ASSUME NEW i \in 1..n PROVE i \in 1..(Len(s) - b)
    BY <1>0
  <2> QED BY <1>2, <2>2, <2>3
<1>4. z \in Seq(S) /\ Len(z) = b + n /\ \A i \in 1..(b + n) : z[i] = s[i]
  <2>1. b + n \in Nat
    OBVIOUS
  <2> QED BY <2>1, PrefixFacts
<1> HIDE DEF x, y, z
<1> DEFINE w == x \o y
<1>5. /\ w \in Seq(S) /\ Len(w) = b + n
      /\ \A i \in 1..(b + n) : w[i] = IF i <= b THEN x[i] ELSE y[i - b]
  <2>1. x \in Seq(S) /\ y \in Seq(S) /\ b \in Nat /\ n \in Nat /\ Len(x) = b /\ Len(y) = n
    BY <1>1, <1>3
  <2> QED BY <2>1
<1> HIDE DEF w
<1>6. ASSUME NEW i \in 1..(b + n) PROVE w[i] = z[i]
  <2>1. i <= b => i \in 1..b
    OBVIOUS
  <2>2. ~(i <= b) => i - b \in 1..n /\ b + (i - b) = i
    OBVIOUS
  <2> QED BY <1>1, <1>3, <1>4, <1>5, <2>1, <2>2
<1>7. w = z
  BY <1>4, <1>5, <1>6, SeqEqual
<1> QED BY <1>7 DEF w, x, y, z, rest

\* Concatenation is associative.
LEMMA ConcatRight ==
    ASSUME NEW S, NEW a \in Seq(S), NEW b \in Seq(S), NEW c \in Seq(S)
    PROVE  (a \o b) \o c = a \o (b \o c)
  OBVIOUS

-----------------------------------------------------------------------------
(* Flattening from the front *)

\* A sequence put in front of the list goes before the flattened ones.
LEMMA FlattenCons ==
    ASSUME NEW S, NEW first \in Seq(S), NEW seqs \in Seq(Seq(S))
    PROVE  FlattenSeq(<<first>> \o seqs) = first \o FlattenSeq(seqs)
<1> DEFINE P == {n \in Nat : \A s \in Seq(Seq(S)) :
                    Len(s) = n => FlattenSeq(<<first>> \o s) = first \o FlattenSeq(s)}
<1>1. 0 \in P
  <2> SUFFICES ASSUME NEW s \in Seq(Seq(S)), Len(s) = 0
               PROVE  FlattenSeq(<<first>> \o s) = first \o FlattenSeq(s)
    OBVIOUS
  <2>1. s = <<>> /\ <<first>> \in Seq(Seq(S)) /\ Len(<<first>>) = 1 /\ <<first>>[1] = first
    OBVIOUS
  <2>2. <<first>> \o s = <<first>>
    BY <2>1, ConcatEmptySeq
  <2>3. FlattenSeq(<<first>>) = first
    BY <2>1, FlattenOne
  <2>4. FlattenSeq(s) = <<>> /\ first \o <<>> = first
    BY <2>1, FlattenEmpty, ConcatEmptySeq
  <2> QED BY <2>2, <2>3, <2>4
<1>2. ASSUME NEW n \in Nat, n \in P PROVE n + 1 \in P
  <2>0. n + 1 \in Nat
    OBVIOUS
  <2> SUFFICES ASSUME NEW s \in Seq(Seq(S)), Len(s) = n + 1
               PROVE  FlattenSeq(<<first>> \o s) = first \o FlattenSeq(s)
    BY <2>0, Zenon
  <2> DEFINE front == SubSeq(s, 1, n)
             last == s[n + 1]
  <2>1. /\ front \in Seq(Seq(S)) /\ Len(front) = n /\ last \in Seq(S)
        /\ s = Append(front, last)
    <3>1. n + 1 <= Len(s) /\ n <= Len(s)
      OBVIOUS
    <3>2. /\ last \in Seq(S)
          /\ SubSeq(s, 1, n + 1) = Append(front, last)
      BY <3>1, PrefixGrows
    <3>3. SubSeq(s, 1, n + 1) = s
      BY SubSeqFull
    <3>4. front \in Seq(Seq(S)) /\ Len(front) = n
      BY <3>1, PrefixFacts
    <3> QED BY <3>2, <3>3, <3>4
  <2> HIDE DEF front, last
  <2>2. <<first>> \o s = Append(<<first>> \o front, last)
    BY <2>1
  <2>3. <<first>> \o front \in Seq(Seq(S))
    BY <2>1
  <2>4. FlattenSeq(<<first>> \o s) = FlattenSeq(<<first>> \o front) \o last
    BY <2>1, <2>2, <2>3, FlattenAppend
  <2>5. FlattenSeq(<<first>> \o front) = first \o FlattenSeq(front)
    BY <1>2, <2>1
  <2>6. FlattenSeq(s) = FlattenSeq(front) \o last /\ FlattenSeq(front) \in Seq(S)
    BY <2>1, FlattenAppend, FlattenType
  <2> DEFINE flat == FlattenSeq(front)
  <2>7. (first \o flat) \o last = first \o (flat \o last)
    <3>1. first \in Seq(S) /\ flat \in Seq(S) /\ last \in Seq(S)
      BY <2>1, <2>6
    <3> HIDE DEF flat
    <3> QED BY <3>1, SMTT(60)
  <2> QED BY <2>4, <2>5, <2>6, <2>7
<1> HIDE DEF P
<1>3. Nat \subseteq P
  BY <1>1, <1>2, NatSetInduction
<1>4. Len(seqs) \in Nat
  OBVIOUS
<1> QED BY <1>3, <1>4 DEF P

\* A sequence without its first piece.
LEMMA FlattenTail ==
    ASSUME NEW S, NEW seqs \in Seq(Seq(S)), seqs # <<>>
    PROVE  /\ FlattenSeq(seqs) = Head(seqs) \o FlattenSeq(Tail(seqs))
           /\ Head(seqs) \in Seq(S) /\ Tail(seqs) \in Seq(Seq(S))
<1>1. Head(seqs) \in Seq(S) /\ Tail(seqs) \in Seq(Seq(S))
  OBVIOUS
<1>2. seqs = <<Head(seqs)>> \o Tail(seqs)
  OBVIOUS
<1>3. FlattenSeq(<<Head(seqs)>> \o Tail(seqs)) = Head(seqs) \o FlattenSeq(Tail(seqs))
  BY <1>1, FlattenCons
<1> QED BY <1>1, <1>2, <1>3

-----------------------------------------------------------------------------
(* How often an element occurs *)

Occurrences(s, e) == Cardinality({i \in DOMAIN s : s[i] = e})

\* How often an element occurs is a number, 0 exactly if it does not.
LEMMA OccursNat ==
    ASSUME NEW S, NEW s \in Seq(S), NEW e
    PROVE  /\ IsFiniteSet({i \in DOMAIN s : s[i] = e})
           /\ Occurrences(s, e) \in Nat
           /\ Occurrences(s, e) = 0 <=> \A i \in DOMAIN s : s[i] # e
<1> DEFINE at == {i \in DOMAIN s : s[i] = e}
<1>1. Len(s) \in Nat /\ DOMAIN s = 1..Len(s)
  OBVIOUS
<1>2. IsFiniteSet(1..Len(s)) /\ at \in SUBSET (1..Len(s))
  BY <1>1, FS_Interval
<1>3. IsFiniteSet(at)
  BY <1>2, FS_Subset
<1>4. Cardinality(at) \in Nat /\ (Cardinality(at) = 0 <=> at = {})
  BY <1>3, FS_CardinalityType, FS_EmptySet
<1> QED BY <1>3, <1>4 DEF Occurrences

\* Nothing occurs in the empty sequence.
LEMMA OccursNone == ASSUME NEW e PROVE Occurrences(<<>>, e) = 0
<1>1. {i \in DOMAIN <<>> : <<>>[i] = e} = {}
  OBVIOUS
<1> QED BY <1>1, FS_EmptySet DEF Occurrences

\* An appended element occurs once more.
LEMMA OccursAppend ==
    ASSUME NEW S, NEW s \in Seq(S), NEW x \in S, NEW e
    PROVE  Occurrences(Append(s, x), e) = Occurrences(s, e) + (IF x = e THEN 1 ELSE 0)
<1> DEFINE longer == Append(s, x)
           at == {i \in DOMAIN s : s[i] = e}
           after == {i \in DOMAIN longer : longer[i] = e}
<1>1. /\ Len(s) \in Nat /\ DOMAIN s = 1..Len(s) /\ DOMAIN longer = 1..(Len(s) + 1)
      /\ \A i \in 1..Len(s) : longer[i] = s[i]
      /\ longer[Len(s) + 1] = x
  BY AppendFacts
<1>2. IsFiniteSet(at) /\ Cardinality(at) \in Nat
  BY OccursNat DEF Occurrences
<1>5. Occurrences(s, e) = Cardinality(at) /\ Occurrences(longer, e) = Cardinality(after)
  BY DEF Occurrences
<1> HIDE DEF longer
<1>3. ASSUME x = e
      PROVE  Occurrences(longer, e) = Occurrences(s, e) + (IF x = e THEN 1 ELSE 0)
  <2>1. after = at \cup {Len(s) + 1} /\ Len(s) + 1 \notin at
    BY <1>1, <1>3
  <2> HIDE DEF at, after
  <2>2. Cardinality(after) = Cardinality(at) + 1
    BY <1>2, <2>1, FS_AddElement
  <2> QED BY <1>3, <1>5, <2>2
<1>4. ASSUME x # e
      PROVE  Occurrences(longer, e) = Occurrences(s, e) + (IF x = e THEN 1 ELSE 0)
  <2>1. after = at
    BY <1>1, <1>4
  <2> HIDE DEF at, after
  <2> QED BY <1>2, <1>4, <1>5, <2>1
<1>6. Occurrences(longer, e) = Occurrences(s, e) + (IF x = e THEN 1 ELSE 0)
  BY <1>3, <1>4
<1> QED BY <1>6 DEF longer

\* The occurrences in both parts of a concatenation add up.
LEMMA OccursConcat ==
    ASSUME NEW S, NEW s \in Seq(S), NEW t \in Seq(S), NEW e
    PROVE  Occurrences(s \o t, e) = Occurrences(s, e) + Occurrences(t, e)
<1> DEFINE P == {n \in Nat : \A u \in Seq(S) : Len(u) = n =>
                    Occurrences(s \o u, e) = Occurrences(s, e) + Occurrences(u, e)}
<1>0. Occurrences(s, e) \in Nat
  BY OccursNat
<1>1. 0 \in P
  <2> SUFFICES ASSUME NEW u \in Seq(S), Len(u) = 0
               PROVE  Occurrences(s \o u, e) = Occurrences(s, e) + Occurrences(u, e)
    OBVIOUS
  <2>1. u = <<>>
    OBVIOUS
  <2>2. s \o u = s /\ Occurrences(u, e) = 0
    BY <2>1, OccursNone, ConcatEmptySeq
  <2> QED BY <1>0, <2>2
<1>2. ASSUME NEW n \in Nat, n \in P PROVE n + 1 \in P
  <2> SUFFICES ASSUME NEW u \in Seq(S), Len(u) = n + 1
               PROVE  Occurrences(s \o u, e) = Occurrences(s, e) + Occurrences(u, e)
    OBVIOUS
  <2> DEFINE front == SubSeq(u, 1, n)
             last == u[n + 1]
  <2>1. front \in Seq(S) /\ Len(front) = n /\ last \in S /\ u = Append(front, last)
    <3>1. n + 1 <= Len(u) /\ n <= Len(u)
      OBVIOUS
    <3>2. last \in S /\ SubSeq(u, 1, n + 1) = Append(front, last)
      BY <3>1, PrefixGrows
    <3>3. SubSeq(u, 1, n + 1) = u
      BY SubSeqFull
    <3>4. front \in Seq(S) /\ Len(front) = n
      BY <3>1, PrefixFacts
    <3> QED BY <3>2, <3>3, <3>4
  <2> HIDE DEF front, last
  <2> DEFINE x == IF last = e THEN 1 ELSE 0
             w == s \o front
  <2>2. s \o u = Append(w, last) /\ w \in Seq(S)
    BY <2>1
  <2>3. Occurrences(s \o u, e) = Occurrences(w, e) + x
    <3> HIDE DEF w
    <3> QED BY <2>1, <2>2, OccursAppend
  <2>6. Occurrences(u, e) = Occurrences(front, e) + x
    BY <2>1, OccursAppend
  <2>7. x \in Nat
    OBVIOUS
  <2> HIDE DEF x
  <2>4. Occurrences(s \o front, e) = Occurrences(s, e) + Occurrences(front, e)
    BY <1>2, <2>1
  <2>5. Occurrences(front, e) \in Nat
    BY <2>1, OccursNat
  <2> QED BY <1>0, <2>3, <2>4, <2>5, <2>6, <2>7
<1> HIDE DEF P
<1>3. Len(t) \in P
  BY <1>1, <1>2, NatSetInduction
<1> QED BY <1>3 DEF P

\* A first element more.
LEMMA OccursCons ==
    ASSUME NEW S, NEW s \in Seq(S), NEW x \in S, NEW e
    PROVE  Occurrences(<<x>> \o s, e) = (IF x = e THEN 1 ELSE 0) + Occurrences(s, e)
<1>1. <<>> \in Seq(S) /\ Append(<<>>, x) = <<x>> /\ <<x>> \in Seq(S)
  OBVIOUS
<1>2. Occurrences(<<x>>, e) = Occurrences(<<>>, e) + (IF x = e THEN 1 ELSE 0)
  <2> DEFINE nil == <<>>
  <2>1. nil \in Seq(S) /\ Append(nil, x) = <<x>>
    BY <1>1
  <2> HIDE DEF nil
  <2>2. Occurrences(Append(nil, x), e) = Occurrences(nil, e) + (IF x = e THEN 1 ELSE 0)
    <3>1. nil \in Seq(S) /\ x \in S
      BY <2>1
    <3>2. \A t \in Seq(S), y \in S :
             Occurrences(Append(t, y), e) = Occurrences(t, e) + (IF y = e THEN 1 ELSE 0)
      BY OccursAppend
    <3> QED BY <3>1, <3>2
  <2> QED BY <2>1, <2>2 DEF nil
<1>3. Occurrences(<<x>> \o s, e) = Occurrences(<<x>>, e) + Occurrences(s, e)
  BY <1>1, OccursConcat
<1>4. Occurrences(<<>>, e) = 0 /\ Occurrences(s, e) \in Nat
  BY OccursNone, OccursNat
<1> QED BY <1>2, <1>3, <1>4

\* What is left of a sequence after its first n elements, and after one more.
LEMMA SuffixFacts ==
    ASSUME NEW S, NEW s \in Seq(S), NEW n \in Nat, n < Len(s)
    PROVE  /\ SubSeq(s, n + 1, Len(s)) = <<s[n + 1]>> \o SubSeq(s, (n + 1) + 1, Len(s))
           /\ SubSeq(s, (n + 1) + 1, Len(s)) \in Seq(S)
           /\ s[n + 1] \in S
<1> DEFINE w == SubSeq(s, n + 1, Len(s))
           rest == SubSeq(s, (n + 1) + 1, Len(s))
           x == s[n + 1]
           z == <<x>> \o rest
<1>1. x \in S /\ Len(s) \in Nat
  OBVIOUS
<1>2. w \in Seq(S) /\ Len(w) = Len(s) - n
  OBVIOUS
<1>3. rest \in Seq(S) /\ Len(rest) = Len(s) - (n + 1)
  OBVIOUS
<1>4. \A i \in 1..(Len(s) - n) : w[i] = s[n + i]
  BY <1>1
<1>5. \A i \in 1..(Len(s) - (n + 1)) : rest[i] = s[(n + 1) + i]
  BY <1>1
<1> HIDE DEF x, w, rest
<1>6. z \in Seq(S) /\ Len(z) = 1 + Len(rest) /\ z[1] = x
      /\ \A i \in 1..Len(rest) : z[i + 1] = rest[i]
  <2>1. <<x>> \in Seq(S) /\ Len(<<x>>) = 1 /\ <<x>>[1] = x /\ Len(rest) \in Nat
    BY <1>1, <1>3
  <2>2. z \in Seq(S) /\ Len(z) = 1 + Len(rest) /\ z[1] = x
    BY <1>3, <2>1
  <2>3. \A i \in 1..Len(rest) : z[i + 1] = rest[i]
    BY <1>3, <2>1
  <2> QED BY <2>2, <2>3
<1> HIDE DEF z
<1>7. \A i \in 1..Len(w) : w[i] = z[i]
  <2> SUFFICES ASSUME NEW i \in 1..Len(w) PROVE w[i] = z[i]
    OBVIOUS
  <2>1. CASE i = 1
    <3>1. w[1] = s[n + 1]
      BY <1>1, <1>2, <1>4, <2>1
    <3> QED BY <1>6, <2>1, <3>1 DEF x
  <2>2. CASE i # 1
    <3>1. i - 1 \in 1..(Len(s) - (n + 1)) /\ (i - 1) + 1 = i /\ i \in 1..(Len(s) - n)
          /\ (n + 1) + (i - 1) = n + i
      BY <1>1, <1>2, <2>2
    <3>2. z[(i - 1) + 1] = rest[i - 1]
      BY <1>3, <1>6, <3>1
    <3>3. rest[i - 1] = s[(n + 1) + (i - 1)] /\ w[i] = s[n + i]
      BY <1>4, <1>5, <3>1
    <3> QED BY <3>1, <3>2, <3>3
  <2> QED BY <2>1, <2>2
<1>8. Len(w) = Len(z)
  BY <1>1, <1>2, <1>3, <1>6
<1>9. w = z
  BY <1>2, <1>6, <1>7, <1>8, SeqEqual
<1> QED BY <1>1, <1>3, <1>9 DEF w, x, z, rest

\* What occurs in a piece occurs in the whole.
LEMMA FlattenHas ==
    ASSUME NEW S, NEW seqs \in Seq(Seq(S)), NEW i \in DOMAIN seqs, NEW e,
           Occurrences(seqs[i], e) >= 1
    PROVE  Occurrences(FlattenSeq(seqs), e) >= 1
<1> DEFINE Has(s) == \A j \in DOMAIN s :
                        Occurrences(s[j], e) >= 1 => Occurrences(FlattenSeq(s), e) >= 1
           P == {n \in Nat : \A s \in Seq(Seq(S)) : Len(s) = n => Has(s)}
<1>1. 0 \in P
  <2>1. \A s \in Seq(Seq(S)) : Len(s) = 0 => DOMAIN s = {}
    OBVIOUS
  <2> QED BY <2>1
<1>2. ASSUME NEW n \in Nat, n \in P PROVE n + 1 \in P
  <2>0. n + 1 \in Nat
    OBVIOUS
  <2> SUFFICES ASSUME NEW s \in Seq(Seq(S)), Len(s) = n + 1 PROVE Has(s)
    BY <2>0, Zenon
  <2> DEFINE front == SubSeq(s, 1, n)
             last == s[n + 1]
  <2>1. /\ front \in Seq(Seq(S)) /\ Len(front) = n /\ last \in Seq(S)
        /\ s = Append(front, last) /\ \A j \in 1..n : front[j] = s[j]
    <3>1. n + 1 <= Len(s) /\ n <= Len(s)
      OBVIOUS
    <3>2. /\ last \in Seq(S)
          /\ SubSeq(s, 1, n + 1) = Append(front, last)
      BY <3>1, PrefixGrows
    <3>3. SubSeq(s, 1, n + 1) = s
      BY SubSeqFull
    <3>4. front \in Seq(Seq(S)) /\ Len(front) = n /\ \A j \in 1..n : front[j] = s[j]
      BY <3>1, PrefixFacts
    <3> QED BY <3>2, <3>3, <3>4
  <2>2. DOMAIN s = 1..(n + 1) /\ s[n + 1] = last
    OBVIOUS
  <2>3. DOMAIN front = 1..n
    BY <2>1
  <2> HIDE DEF front, last
  <2> DEFINE x == FlattenSeq(front)
             y == FlattenSeq(s)
  <2>4. x \in Seq(S) /\ y = x \o last
    BY <2>1, FlattenAppend, FlattenType
  <2>5. Occurrences(x \o last, e) = Occurrences(x, e) + Occurrences(last, e)
    <3> HIDE DEF x
    <3> QED BY <2>1, <2>4, OccursConcat
  <2>6. Occurrences(x, e) \in Nat /\ Occurrences(last, e) \in Nat
    <3> HIDE DEF x
    <3> QED BY <2>1, <2>4, OccursNat
  <2>7. Has(front)
    BY <1>2, <2>1
  <2>8. ASSUME NEW j \in 1..(n + 1), Occurrences(s[j], e) >= 1
        PROVE  Occurrences(y, e) >= 1
    <3>1. CASE j = n + 1
      <4>1. Occurrences(last, e) >= 1
        BY <2>2, <2>8, <3>1
      <4>2. Occurrences(y, e) = Occurrences(x, e) + Occurrences(last, e)
        BY <2>4, <2>5
      <4> HIDE DEF x, y
      <4> QED BY <2>6, <4>1, <4>2
    <3>2. CASE j # n + 1
      <4>1. j \in 1..n
        BY <3>2
      <4>2. Occurrences(x, e) >= 1
        <5>1. j \in DOMAIN front /\ Occurrences(front[j], e) >= 1
          BY <2>1, <2>3, <2>8, <4>1
        <5> QED BY <2>7, <5>1
      <4>3. Occurrences(y, e) = Occurrences(x, e) + Occurrences(last, e)
        BY <2>4, <2>5
      <4> HIDE DEF x, y
      <4> QED BY <2>6, <4>2, <4>3
    <3> QED BY <3>1, <3>2
  <2> QED BY <2>2, <2>8
<1> HIDE DEF P
<1>3. Nat \subseteq P
  BY <1>1, <1>2, NatSetInduction
<1>4. Len(seqs) \in Nat
  OBVIOUS
<1>5. Has(seqs)
  BY <1>3, <1>4 DEF P
<1> QED BY <1>5

\* What is in a sequence occurs in it.
LEMMA OccursThere ==
    ASSUME NEW S, NEW s \in Seq(S), NEW i \in DOMAIN s
    PROVE  Occurrences(s, s[i]) >= 1
<1>1. Occurrences(s, s[i]) \in Nat /\ Occurrences(s, s[i]) # 0
  BY OccursNat
<1> QED BY <1>1

\* An element that occurs at most once has one place only.
LEMMA OccursOnce ==
    ASSUME NEW S, NEW s \in Seq(S), NEW e, Occurrences(s, e) <= 1,
           NEW i \in DOMAIN s, NEW j \in DOMAIN s, s[i] = e, s[j] = e
    PROVE  i = j
<1> DEFINE at == {k \in DOMAIN s : s[k] = e}
<1>1. IsFiniteSet(at) /\ Cardinality(at) \in Nat /\ Cardinality(at) <= 1
  BY OccursNat DEF Occurrences
<1>2. i \in at /\ j \in at
  OBVIOUS
<1> HIDE DEF at
<1>3. Cardinality(at) # 0
  BY <1>1, <1>2, FS_EmptySet
<1>4. PICK x : at = {x}
  <2>1. Cardinality(at) = 1
    BY <1>1, <1>3
  <2> QED BY <1>1, <2>1, FS_Singleton
<1> QED BY <1>2, <1>4

\* As many values as arguments, when no two arguments have the same value.
LEMMA ImageCount ==
    ASSUME NEW S, IsFiniteSet(S), NEW f, DOMAIN f = S, f = [x \in S |-> f[x]],
           \A x, y \in S : f[x] = f[y] => x = y
    PROVE  /\ IsFiniteSet({f[x] : x \in S})
           /\ Cardinality({f[x] : x \in S}) = Cardinality(S)
<1> DEFINE T == {f[x] : x \in S}
<1>1. f \in [S -> T]
  OBVIOUS
<1>2. \A t \in T : \E x \in S : f[x] = t
  OBVIOUS
<1> HIDE DEF T
<1>3. f \in Surjection(S, T)
  BY <1>1, <1>2 DEF Surjection
<1>4. f \in Injection(S, T)
  <2>1. \A x, y \in S : f[x] = f[y] => x = y
    OBVIOUS
  <2> QED BY <1>1, <2>1, Zenon DEF Injection, IsInjective
<1>5. IsFiniteSet(T) /\ Cardinality(T) = Cardinality(S)
  BY <1>3, <1>4, FS_Surjection
<1> QED BY <1>5 DEF T

\* Disjoint sets.
LEMMA DisjointCount ==
    ASSUME NEW S, IsFiniteSet(S), NEW T, IsFiniteSet(T), S \cap T = {}
    PROVE  /\ IsFiniteSet(S \cup T)
           /\ Cardinality(S \cup T) = Cardinality(S) + Cardinality(T)
<1>1. /\ IsFiniteSet(S \cup T)
      /\ Cardinality(S \cup T) = Cardinality(S) + Cardinality(T) - Cardinality(S \cap T)
  BY FS_Union
<1>2. Cardinality(S) \in Nat /\ Cardinality(T) \in Nat
  BY FS_CardinalityType
<1>3. Cardinality(S \cap T) = 0
  BY FS_EmptySet
<1> QED BY <1>1, <1>2, <1>3

\* The places of a sequence.
LEMMA PlacesCount ==
    ASSUME NEW S, NEW s \in Seq(S)
    PROVE  IsFiniteSet(DOMAIN s) /\ Cardinality(DOMAIN s) = Len(s) /\ Len(s) \in Nat
<1>1. DOMAIN s = 1..Len(s) /\ Len(s) \in Nat
  OBVIOUS
<1> DEFINE n == Len(s)
<1> HIDE DEF n
<1>2. n \in Nat
  BY <1>1 DEF n
<1>3. IsFiniteSet(1..n) /\ Cardinality(1..n) = IF 1 > n THEN 0 ELSE n - 1 + 1
  BY <1>2, FS_Interval
<1>4. Cardinality(1..n) = n
  BY <1>2, <1>3
<1> QED BY <1>1, <1>3, <1>4 DEF n

\* Another sequence begins with this one.
Extends(bytes, longer) ==
    /\ Len(bytes) <= Len(longer)
    /\ \A k \in 1..Len(bytes) : longer[k] = bytes[k]

\* A prefix does.
LEMMA PrefixExtends ==
    ASSUME NEW S, NEW s \in Seq(S), NEW t \in Seq(S), IsPrefix(s, t)
    PROVE  Extends(s, t)
<1>1. /\ Len(s) \in Nat /\ Len(t) \in Nat /\ Len(s) <= Len(t)
      /\ SubSeq(s, 1, Len(s)) = SubSeq(t, 1, Len(s))
  BY DEF IsPrefix
<1>2. \A k \in 1..Len(s) : SubSeq(t, 1, Len(s))[k] = t[k]
  BY <1>1, PrefixFacts
<1>3. SubSeq(s, 1, Len(s)) = s
  BY SubSeqFull
<1> QED BY <1>1, <1>2, <1>3 DEF Extends

\* So does the first of two sequences, one after the other.
LEMMA ConcatExtends ==
    ASSUME NEW S, NEW s \in Seq(S), NEW t \in Seq(S)
    PROVE  Joined(s, t) \in Seq(S) /\ Extends(s, Joined(s, t))
<1>1. Joined(s, t) \in Seq(S) /\ Joins(Joined(s, t), s, t)
  BY ConcatFacts
<1> QED BY <1>1 DEF Joins, Extends

-----------------------------------------------------------------------------
(* Frames and the stream *)

\* Packets have bytes.
PacketSizes == Nat \ {0}

\* What a header and the first bytes of a packet make.
FrameOf(header, packet, size) ==
    HeaderBytes(header) \o [k \in 1..size |-> PayloadByte(packet, k)]

\* Headers with the magic number.
Headers == [magic : {TRUE}, size : PacketSizes, crc : Nat \X Nat]

\* The bytes of headers and payloads are bytes.
LEMMA ByteTypes ==
    /\ \A header \in Headers, k \in Nat : HeaderByte(header, k) \in Bytes
    /\ \A packet, k \in Nat : PayloadByte(packet, k) \in Bytes
<1>1. ASSUME NEW header \in Headers, NEW k \in Nat PROVE HeaderByte(header, k) \in Bytes
  <2>1. header.magic \in BOOLEAN /\ header.size \in PacketSizes /\ header.crc \in Nat \X Nat
    BY DEF Headers
  <2>2. header.size \in Nat
    BY <2>1 DEF PacketSizes
  <2> QED BY <2>1, <2>2 DEF HeaderByte, Bytes
<1> QED BY <1>1 DEF PayloadByte, Bytes

\* A frame is its header's bytes and then its payload's.
LEMMA FrameOfType ==
    ASSUME NEW header \in Headers, NEW packet \in Nat, NEW size \in Nat
    PROVE  /\ FrameOf(header, packet, size) \in Seq(Bytes)
           /\ Len(FrameOf(header, packet, size)) = wire_size + size
           /\ \A k \in 1..(wire_size + size) :
                 FrameOf(header, packet, size)[k] =
                     IF k <= wire_size THEN HeaderByte(header, k)
                     ELSE PayloadByte(packet, k - wire_size)
<1> DEFINE h == HeaderBytes(header)
           l == [k \in 1..size |-> PayloadByte(packet, k)]
<1>1. wire_size \in Nat
  BY WireSizeAssumption
<1>2. h \in [1..wire_size -> Bytes]
  BY <1>1, ByteTypes DEF HeaderBytes
<1>3. l \in [1..size -> Bytes]
  BY ByteTypes
<1>4. \A k \in 1..wire_size : h[k] = HeaderByte(header, k)
  BY DEF HeaderBytes
<1>5. \A k \in 1..size : l[k] = PayloadByte(packet, k)
  OBVIOUS
<1>6. FrameOf(header, packet, size) = h \o l
  BY DEF FrameOf
<1> HIDE DEF h, l
<1>7. /\ h \in Seq(Bytes) /\ Len(h) = wire_size
      /\ l \in Seq(Bytes) /\ Len(l) = size
  BY <1>1, <1>2, <1>3, FunctionIsSeq
<1>8. /\ h \o l \in Seq(Bytes) /\ Len(h \o l) = wire_size + size
      /\ \A k \in 1..(wire_size + size) :
            (h \o l)[k] = IF k <= wire_size THEN h[k] ELSE l[k - wire_size]
  BY <1>1, <1>7
<1>9. ASSUME NEW k \in 1..(wire_size + size)
      PROVE  (h \o l)[k] = IF k <= wire_size THEN HeaderByte(header, k)
                           ELSE PayloadByte(packet, k - wire_size)
  <2>1. k <= wire_size => k \in 1..wire_size
    BY <1>1
  <2>2. ~(k <= wire_size) => k - wire_size \in 1..size
    BY <1>1
  <2> QED BY <1>4, <1>5, <1>8, <2>1, <2>2
<1> QED BY <1>6, <1>8, <1>9

\* The checksum of a packet's first bytes.
LEMMA PacketCrc ==
    ASSUME NEW packet \in Nat, NEW size \in PacketSizes
    PROVE  crc32c([k \in 1..size |-> PayloadByte(packet, k)]) \in Nat \X Nat
<1> DEFINE l == [k \in 1..size |-> PayloadByte(packet, k)]
<1>0. size \in Nat /\ size >= 1
  BY DEF PacketSizes
<1>1. DOMAIN l = 1..size /\ l[1].packet \in Nat
  BY <1>0 DEF PayloadByte
<1>2. Len(l) \in Nat
  <2>1. l \in [1..size -> Bytes]
    BY <1>0, ByteTypes
  <2> HIDE DEF l
  <2> QED BY <1>0, <2>1, FunctionIsSeq
<1>3. ASSUME NEW bytes, Len(bytes) \in Nat, bytes[1].packet \in Nat
      PROVE  crc32c(bytes) \in Nat \X Nat
  BY <1>3 DEF crc32c
<1> QED BY <1>1, <1>2, <1>3

\* FrameBytes is the frame of the header kick_send_ makes.
LEMMA FrameBytesType ==
    ASSUME NEW packet \in Nat, NEW size \in PacketSizes
    PROVE  /\ FrameBytes(packet, size) =
                FrameOf(FrameHeader(size, crc32c([k \in 1..size |-> PayloadByte(packet, k)])),
                        packet, size)
           /\ FrameBytes(packet, size) \in Seq(Bytes)
           /\ Len(FrameBytes(packet, size)) = wire_size + size
<1> DEFINE c == crc32c([k \in 1..size |-> PayloadByte(packet, k)])
           header == FrameHeader(size, c)
<1>0. size \in Nat
  BY DEF PacketSizes
<1>1. c \in Nat \X Nat
  BY PacketCrc
<1>2. FrameBytes(packet, size) = FrameOf(header, packet, size)
  BY DEF FrameBytes, FrameOf
<1> HIDE DEF c
<1>3. header \in Headers
  BY <1>1 DEF FrameHeader, Headers
<1> HIDE DEF header
<1>4. /\ FrameOf(header, packet, size) \in Seq(Bytes)
      /\ Len(FrameOf(header, packet, size)) = wire_size + size
  BY <1>0, <1>3, FrameOfType
<1> QED BY <1>2, <1>4 DEF header, c

\* One packet more appends its frame to the stream.
LEMMA StreamAppend ==
    ASSUME NEW sizes \in Seq(PacketSizes), NEW size \in PacketSizes
    PROVE  /\ FrameStream(sizes) \in Seq(Bytes)
           /\ FrameStream(Append(sizes, size)) =
                FrameStream(sizes) \o FrameBytes(Len(sizes) + 1, size)
           /\ FrameBytes(Len(sizes) + 1, size) \in Seq(Bytes)
<1> DEFINE frames(s) == [p \in DOMAIN s |-> FrameBytes(p, s[p])]
           frame == FrameBytes(Len(sizes) + 1, size)
<1>1. frames(Append(sizes, size)) = Append(frames(sizes), frame)
  OBVIOUS
<1>2. frame \in Seq(Bytes)
  <2>1. Len(sizes) + 1 \in Nat
    OBVIOUS
  <2> QED BY <2>1, FrameBytesType
<1>3. frames(sizes) \in Seq(Seq(Bytes))
  <2>1. ASSUME NEW p \in 1..Len(sizes) PROVE FrameBytes(p, sizes[p]) \in Seq(Bytes)
    <3>1. p \in Nat /\ sizes[p] \in PacketSizes
      OBVIOUS
    <3> QED BY <3>1, FrameBytesType
  <2>2. frames(sizes) \in [1..Len(sizes) -> Seq(Bytes)] /\ Len(sizes) \in Nat
    BY <2>1
  <2> HIDE DEF frames
  <2> QED BY <2>2, FunctionIsSeq
<1>4. /\ FrameStream(sizes) = FlattenSeq(frames(sizes))
      /\ FrameStream(Append(sizes, size)) = FlattenSeq(frames(Append(sizes, size)))
  BY DEF FrameStream
<1> HIDE DEF frames, frame
<1>5. /\ FlattenSeq(frames(sizes)) \in Seq(Bytes)
      /\ FlattenSeq(Append(frames(sizes), frame)) = FlattenSeq(frames(sizes)) \o frame
  BY <1>2, <1>3, FlattenType, FlattenAppend
<1> QED BY <1>1, <1>2, <1>4, <1>5 DEF frame

\* The stream of the first packets grows frame by frame.
LEMMA StreamGrows ==
    ASSUME NEW sizes \in Seq(PacketSizes), NEW n \in Nat, n + 1 <= Len(sizes)
    PROVE  /\ FrameStream(SubSeq(sizes, 1, n)) \in Seq(Bytes)
           /\ FrameStream(SubSeq(sizes, 1, n + 1)) =
                FrameStream(SubSeq(sizes, 1, n)) \o FrameBytes(n + 1, sizes[n + 1])
           /\ FrameBytes(n + 1, sizes[n + 1]) \in Seq(Bytes)
<1>1. /\ SubSeq(sizes, 1, n) \in Seq(PacketSizes) /\ Len(SubSeq(sizes, 1, n)) = n
      /\ sizes[n + 1] \in PacketSizes
      /\ SubSeq(sizes, 1, n + 1) = Append(SubSeq(sizes, 1, n), sizes[n + 1])
  <2>1. n <= Len(sizes)
    OBVIOUS
  <2>2. SubSeq(sizes, 1, n) \in Seq(PacketSizes) /\ Len(SubSeq(sizes, 1, n)) = n
    BY <2>1, PrefixFacts
  <2>3. /\ sizes[n + 1] \in PacketSizes
        /\ SubSeq(sizes, 1, n + 1) = Append(SubSeq(sizes, 1, n), sizes[n + 1])
    BY PrefixGrows
  <2> QED BY <2>2, <2>3
<1> QED BY <1>1, StreamAppend

\* The frames of the first packets begin the stream of all.
LEMMA StreamBegins ==
    ASSUME NEW sizes \in Seq(PacketSizes), NEW n \in 0..Len(sizes)
    PROVE  \E rest \in Seq(Bytes) :
              FrameStream(sizes) = FrameStream(SubSeq(sizes, 1, n)) \o rest
<1> DEFINE stream(k) == FrameStream(SubSeq(sizes, 1, k))
           Q(k) == n + k <= Len(sizes)
                   => stream(n) \in Seq(Bytes)
                      /\ \E rest \in Seq(Bytes) : stream(n + k) = stream(n) \o rest
           P == {k \in Nat : Q(k)}
<1>1. ASSUME NEW k \in 0..Len(sizes) PROVE stream(k) \in Seq(Bytes)
  <2>1. SubSeq(sizes, 1, k) \in Seq(PacketSizes) /\ 1 \in PacketSizes
    BY PrefixFacts DEF PacketSizes
  <2> QED BY <2>1, StreamAppend
<1>2. 0 \in P
  <2>1. stream(n) \in Seq(Bytes) /\ <<>> \in Seq(Bytes) /\ n + 0 = n
    BY <1>1
  <2> HIDE DEF stream
  <2>2. stream(n) = stream(n) \o <<>>
    BY <2>1, ConcatEmptySeq
  <2> QED BY <2>1, <2>2
<1>3. ASSUME NEW k \in Nat, k \in P PROVE k + 1 \in P
  <2> SUFFICES ASSUME n + (k + 1) <= Len(sizes)
               PROVE  stream(n) \in Seq(Bytes)
                      /\ \E rest \in Seq(Bytes) : stream(n + (k + 1)) = stream(n) \o rest
    <3>1. Q(k + 1)
      <4> HIDE DEF stream
      <4> QED OBVIOUS
    <3> HIDE DEF Q
    <3> QED BY <3>1
  <2> DEFINE frame == FrameBytes((n + k) + 1, sizes[(n + k) + 1])
  <2>1. /\ stream((n + k) + 1) = stream(n + k) \o frame
        /\ stream(n + k) \in Seq(Bytes) /\ frame \in Seq(Bytes)
    BY StreamGrows
  <2>2. stream(n) \in Seq(Bytes) /\ (n + k) + 1 = n + (k + 1)
    BY <1>1
  <2>3. PICK rest \in Seq(Bytes) : stream(n + k) = stream(n) \o rest
    <3>1. n + k <= Len(sizes)
      OBVIOUS
    <3> HIDE DEF stream
    <3> QED BY <1>3, <3>1
  <2> HIDE DEF frame, stream
  <2>4. (stream(n) \o rest) \o frame = stream(n) \o (rest \o frame)
    <3>1. ASSUME NEW a \in Seq(Bytes), NEW b \in Seq(Bytes), NEW c \in Seq(Bytes)
          PROVE  (a \o b) \o c = a \o (b \o c)
      BY SMTT(30)
    <3> QED BY <2>1, <2>2, <3>1
  <2>5. rest \o frame \in Seq(Bytes)
    BY <2>1, <2>3
  <2> QED BY <2>1, <2>2, <2>3, <2>4, <2>5
<1> HIDE DEF P
<1>4. Len(sizes) - n \in P /\ n + (Len(sizes) - n) = Len(sizes)
  BY <1>2, <1>3, NatSetInduction
<1>5. \E rest \in Seq(Bytes) : stream(n + (Len(sizes) - n)) = stream(n) \o rest
  BY <1>4 DEF P
<1>6. SubSeq(sizes, 1, Len(sizes)) = sizes
  BY SubSeqFull
<1> QED BY <1>4, <1>5, <1>6


\* A received header has the fields of the header it was made of.
LEMMA HeaderFields ==
    ASSUME NEW header, NEW data, \A k \in 1..wire_size : data[k] = HeaderByte(header, k)
    PROVE  /\ is_magic_valid(data) = header.magic
           /\ get_size(data) = header.size
           /\ get_crc(data) = header.crc
<1>1. /\ FieldAt(0) \in 1..wire_size /\ FieldAt(8) \in 1..wire_size
      /\ FieldAt(12) \in 1..wire_size
  BY WireSizeAssumption DEF FieldAt
<1>2. ASSUME NEW k \in 1..wire_size
      PROVE  /\ "magic" \in DOMAIN data[k] /\ "size" \in DOMAIN data[k]
             /\ "crc" \in DOMAIN data[k] /\ data[k].at = k
             /\ data[k]["magic"] = header.magic /\ data[k]["size"] = header.size
             /\ data[k]["crc"] = header.crc
  <2> DEFINE byte == [magic |-> header.magic, size |-> header.size, crc |-> header.crc,
                      at |-> k]
  <2>1. data[k] = byte
    BY DEF HeaderByte
  <2>2. /\ "magic" \in DOMAIN byte /\ "size" \in DOMAIN byte /\ "crc" \in DOMAIN byte
        /\ byte.at = k /\ byte["magic"] = header.magic /\ byte["size"] = header.size
        /\ byte["crc"] = header.crc
    OBVIOUS
  <2> HIDE DEF byte
  <2> QED BY <2>1, <2>2
<1>3. is_magic_valid(data) = header.magic
  BY <1>1, <1>2 DEF is_magic_valid, get_u32_
<1>4. get_size(data) = header.size
  BY <1>1, <1>2 DEF get_size, get_u32_
<1>5. get_crc(data) = header.crc
  BY <1>1, <1>2 DEF get_crc, get_u32_
<1> QED BY <1>3, <1>4, <1>5

\* The payload of a packet, and the header of its frame.
PacketBytes(packet, size) == [k \in 1..size |-> PayloadByte(packet, k)]
PacketHeader(packet, size) == FrameHeader(size, crc32c(PacketBytes(packet, size)))

\* The bytes of a packet's frame.
LEMMA FrameBytesAre ==
    ASSUME NEW packet \in Nat, NEW size \in PacketSizes
    PROVE  /\ FrameBytes(packet, size) \in Seq(Bytes)
           /\ Len(FrameBytes(packet, size)) = wire_size + size
           /\ \A k \in 1..wire_size :
                 FrameBytes(packet, size)[k] = HeaderByte(PacketHeader(packet, size), k)
           /\ \A k \in 1..size :
                 FrameBytes(packet, size)[wire_size + k] = PayloadByte(packet, k)
<1> DEFINE header == PacketHeader(packet, size)
<1>1. header \in Headers
  BY PacketCrc DEF FrameHeader, Headers, PacketHeader, PacketBytes
<1>2. FrameBytes(packet, size) = FrameOf(header, packet, size)
  BY FrameBytesType DEF PacketHeader, PacketBytes
<1> HIDE DEF header
<1>3. size \in Nat /\ wire_size \in Nat
  BY WireSizeAssumption DEF PacketSizes
<1>4. /\ FrameOf(header, packet, size) \in Seq(Bytes)
      /\ Len(FrameOf(header, packet, size)) = wire_size + size
      /\ \A k \in 1..(wire_size + size) :
            FrameOf(header, packet, size)[k] =
                IF k <= wire_size THEN HeaderByte(header, k)
                ELSE PayloadByte(packet, k - wire_size)
  BY <1>1, <1>3, FrameOfType
<1>5. ASSUME NEW k \in 1..wire_size
      PROVE  FrameBytes(packet, size)[k] = HeaderByte(header, k)
  <2>1. k \in 1..(wire_size + size) /\ k <= wire_size
    BY <1>3
  <2> QED BY <1>2, <1>4, <2>1
<1>6. ASSUME NEW k \in 1..size
      PROVE  FrameBytes(packet, size)[wire_size + k] = PayloadByte(packet, k)
  <2> DEFINE j == wire_size + k
  <2>1. j \in 1..(wire_size + size) /\ ~(j <= wire_size) /\ j - wire_size = k
    BY <1>3
  <2> HIDE DEF j
  <2>2. FrameOf(header, packet, size)[j] = PayloadByte(packet, k)
    BY <1>4, <2>1
  <2> QED BY <1>2, <2>2 DEF j
<1> QED BY <1>2, <1>4, <1>5, <1>6 DEF header

\* ends[p] is where the frame of packet p ends in the stream.
Layout(ends, stream, sizes) ==
    /\ ends \in [0..Len(sizes) -> Nat]
    /\ ends[0] = 0
    /\ stream \in Seq(Bytes) /\ Len(stream) = ends[Len(sizes)]
    /\ \A p \in 0..Len(sizes) : ends[p] <= Len(stream)
    /\ \A p \in 1..Len(sizes) :
          /\ ends[p] = ends[p - 1] + wire_size + sizes[p]
          /\ \A k \in 1..(wire_size + sizes[p]) :
                stream[ends[p - 1] + k] = FrameBytes(p, sizes[p])[k]

\* One frame more.
LEMMA LayoutAppend ==
    ASSUME NEW sizes \in Seq(PacketSizes), NEW size \in PacketSizes,
           NEW stream, NEW ends, Layout(ends, stream, sizes)
    PROVE  \E longer : Layout(longer, stream \o FrameBytes(Len(sizes) + 1, size),
                              Append(sizes, size))
<1> DEFINE n == Len(sizes)
           frame == FrameBytes(n + 1, size)
           more == Append(sizes, size)
           whole == Joined(stream, frame)
           longer == [p \in 0..(n + 1) |-> IF p <= n THEN ends[p] ELSE ends[n] + wire_size + size]
<1>1. n \in Nat /\ size \in Nat /\ wire_size \in Nat
  BY WireSizeAssumption DEF PacketSizes
<1>2. frame \in Seq(Bytes) /\ Len(frame) = wire_size + size
  <2>1. n + 1 \in Nat
    BY <1>1
  <2> HIDE DEF n
  <2> QED BY <2>1, FrameBytesAre
<1>3. /\ Len(more) = n + 1 /\ more[n + 1] = size
      /\ \A p \in 1..n : more[p] = sizes[p]
  BY AppendFacts
<1>4. /\ ends \in [0..n -> Nat] /\ ends[0] = 0
      /\ stream \in Seq(Bytes) /\ Len(stream) = ends[n]
      /\ \A p \in 0..n : ends[p] <= Len(stream)
      /\ \A p \in 1..n :
            /\ ends[p] = ends[p - 1] + wire_size + sizes[p]
            /\ \A k \in 1..(wire_size + sizes[p]) :
                  stream[ends[p - 1] + k] = FrameBytes(p, sizes[p])[k]
  BY DEF Layout
<1>5. \A p \in 1..n : sizes[p] \in Nat
  BY DEF PacketSizes
<1> HIDE DEF n, frame, more
<1>6. whole \in Seq(Bytes) /\ Joins(whole, stream, frame)
  BY <1>2, <1>4, ConcatFacts
<1> HIDE DEF whole
<1>7. /\ Len(whole) = ends[n] + (wire_size + size)
      /\ \A k \in 1..ends[n] : whole[k] = stream[k]
      /\ \A k \in 1..(wire_size + size) : whole[ends[n] + k] = frame[k]
  BY <1>2, <1>4, <1>6 DEF Joins
<1>8. /\ longer \in [0..(n + 1) -> Nat] /\ longer[n + 1] = ends[n] + wire_size + size
      /\ \A p \in 0..n : longer[p] = ends[p]
  BY <1>1, <1>4
<1> HIDE DEF longer
<1>9. ASSUME NEW p \in 1..(n + 1)
      PROVE  /\ longer[p] = longer[p - 1] + wire_size + more[p]
             /\ \A k \in 1..(wire_size + more[p]) :
                   whole[longer[p - 1] + k] = FrameBytes(p, more[p])[k]
  <2>1. CASE p = n + 1
    <3>1. longer[p - 1] = ends[n] /\ more[p] = size /\ FrameBytes(p, more[p]) = frame
      BY <1>1, <1>3, <1>8, <2>1 DEF frame, n
    <3> QED BY <1>7, <1>8, <2>1, <3>1
  <2>2. CASE p # n + 1
    <3>1. p \in 1..n /\ p - 1 \in 0..n /\ p \in 0..n
      BY <1>1, <2>2
    <3>2. longer[p] = ends[p] /\ longer[p - 1] = ends[p - 1] /\ more[p] = sizes[p]
      BY <1>3, <1>8, <3>1
    <3>3. ends[p] = ends[p - 1] + wire_size + sizes[p]
      BY <1>4, <3>1
    <3>4. ASSUME NEW k \in 1..(wire_size + sizes[p])
          PROVE  whole[ends[p - 1] + k] = FrameBytes(p, sizes[p])[k]
      <4>1. stream[ends[p - 1] + k] = FrameBytes(p, sizes[p])[k]
        BY <1>4, <3>1
      <4>2. ends[p] <= ends[n]
        BY <1>4, <3>1
      <4>3. ends[p - 1] + k \in 1..ends[n]
        <5>1. /\ ends[p - 1] \in Nat /\ ends[p] \in Nat /\ ends[n] \in Nat
              /\ sizes[p] \in Nat
          BY <1>1, <1>4, <1>5, <3>1
        <5>2. k \in 1..(wire_size + sizes[p])
          OBVIOUS
        <5>3. ASSUME NEW a \in Nat, NEW b \in Nat, NEW c \in Nat, NEW w \in Nat, NEW z \in Nat,
                     b = a + w + z, b <= c, NEW j \in 1..(w + z)
              PROVE  a + j \in 1..c
          BY <5>3
        <5> QED BY <1>1, <3>3, <4>2, <5>1, <5>2, <5>3
      <4> QED BY <1>7, <4>1, <4>3
    <3> QED BY <3>2, <3>3, <3>4
  <2> QED BY <2>1, <2>2
<1>10. longer[0] = 0
  BY <1>1, <1>4, <1>8
<1>11. Layout(longer, whole, more)
  <2>1. Len(whole) = longer[n + 1]
    BY <1>1, <1>4, <1>7, <1>8
  <2>2. ASSUME NEW p \in 0..(n + 1) PROVE longer[p] <= Len(whole)
    <3>1. CASE p = n + 1
      BY <1>8, <2>1, <3>1
    <3>2. CASE p # n + 1
      <4>1. p \in 0..n
        BY <1>1, <3>2
      <4>2. longer[p] = ends[p] /\ ends[p] <= ends[n] /\ ends[p] \in Nat /\ ends[n] \in Nat
        BY <1>1, <1>4, <1>8, <4>1
      <4> QED BY <1>1, <1>7, <4>2
    <3> QED BY <3>1, <3>2
  <2> QED BY <1>3, <1>6, <1>8, <1>9, <1>10, <2>1, <2>2 DEF Layout
<1> QED BY <1>11 DEF whole, frame, more, n, Joined

\* Every stream of frames is laid out so.
LEMMA StreamLayout ==
    ASSUME NEW sizes \in Seq(PacketSizes)
    PROVE  \E ends : Layout(ends, FrameStream(sizes), sizes)
<1> DEFINE first(n) == SubSeq(sizes, 1, n)
           P == {n \in Nat : n <= Len(sizes)
                               => \E ends : Layout(ends, FrameStream(first(n)), first(n))}
<1>1. 0 \in P
  <2>1. first(0) = <<>>
    BY SubSeqEmpty
  <2>2. FrameStream(<<>>) = <<>>
    <3>1. [p \in DOMAIN <<>> |-> FrameBytes(p, <<>>[p])] = <<>>
      OBVIOUS
    <3> QED BY <3>1, FlattenEmpty DEF FrameStream
  <2> DEFINE ends == [p \in {0} |-> 0]
  <2>3. ends \in [0..0 -> Nat] /\ ends[0] = 0
    OBVIOUS
  <2> HIDE DEF ends
  <2>4. Layout(ends, <<>>, <<>>)
    BY <2>3 DEF Layout
  <2> QED BY <2>1, <2>2, <2>4
<1>2. ASSUME NEW n \in Nat, n \in P PROVE n + 1 \in P
  <2> SUFFICES ASSUME n + 1 <= Len(sizes)
               PROVE  \E ends : Layout(ends, FrameStream(first(n + 1)), first(n + 1))
    OBVIOUS
  <2>1. /\ first(n) \in Seq(PacketSizes) /\ Len(first(n)) = n
        /\ sizes[n + 1] \in PacketSizes
        /\ first(n + 1) = Append(first(n), sizes[n + 1])
    <3>1. n <= Len(sizes)
      OBVIOUS
    <3> QED BY <3>1, PrefixFacts, PrefixGrows
  <2>2. PICK ends : Layout(ends, FrameStream(first(n)), first(n))
    <3>1. n <= Len(sizes)
      OBVIOUS
    <3> QED BY <1>2, <3>1
  <2>3. FrameStream(first(n + 1)) = FrameStream(first(n)) \o FrameBytes(n + 1, sizes[n + 1])
    BY StreamGrows
  <2> HIDE DEF first
  <2>4. \E longer : Layout(longer, FrameStream(first(n)) \o FrameBytes(Len(first(n)) + 1, sizes[n + 1]),
                           Append(first(n), sizes[n + 1]))
    BY <2>1, <2>2, LayoutAppend
  <2> QED BY <2>1, <2>3, <2>4
<1> HIDE DEF P
<1>3. Len(sizes) \in P
  BY <1>1, <1>2, NatSetInduction
<1>4. first(Len(sizes)) = sizes /\ Len(sizes) \in Nat
  BY SubSeqFull
<1>5. \E ends : Layout(ends, FrameStream(first(Len(sizes))), first(Len(sizes)))
  <2> HIDE DEF first
  <2> QED BY <1>3, <1>4 DEF P
<1> QED BY <1>4, <1>5


-----------------------------------------------------------------------------
(* The part of a queue that has some of its types *)

PartOf(e, types) == IF e.type \in types THEN <<e>> ELSE <<>>
Parts(queue, types) == [i \in 1..Len(queue) |-> PartOf(queue[i], types)]

\* The elements of these types, in their order.
Chosen(queue, types) == FlattenSeq(Parts(queue, types))

\* One piece for each element.
LEMMA PartsType ==
    ASSUME NEW S, NEW queue \in Seq(S), NEW types
    PROVE  Parts(queue, types) \in Seq(Seq(S)) /\ Len(Parts(queue, types)) = Len(queue)
<1>1. Len(queue) \in Nat /\ \A i \in 1..Len(queue) : queue[i] \in S
  OBVIOUS
<1>2. \A i \in 1..Len(queue) : PartOf(queue[i], types) \in Seq(S)
  BY <1>1 DEF PartOf
<1>3. Parts(queue, types) \in [1..Len(queue) -> Seq(S)]
  BY <1>2 DEF Parts
<1> QED BY <1>1, <1>3, FunctionIsSeq

\* The chosen part is a sequence of the same elements.
LEMMA ChosenType ==
    ASSUME NEW S, NEW queue \in Seq(S), NEW types PROVE Chosen(queue, types) \in Seq(S)
  BY PartsType, FlattenType DEF Chosen

\* Of an empty queue there is nothing to choose.
LEMMA ChosenEmpty == ASSUME NEW types PROVE Chosen(<<>>, types) = <<>>
<1> DEFINE none == Parts(<<>>, types)
<1>1. none \in Seq(Seq({})) /\ Len(none) = 0
  <2>1. <<>> \in Seq({}) /\ Len(<<>>) = 0
    OBVIOUS
  <2> QED BY <2>1, PartsType
<1> HIDE DEF none
<1>2. none = <<>>
  BY <1>1, EmptyFacts
<1> QED BY <1>2, FlattenEmpty DEF Chosen, none

\* An element added at the end of the queue is added to the part it belongs to.
LEMMA ChosenAppend ==
    ASSUME NEW S, NEW queue \in Seq(S), NEW e \in S, NEW types
    PROVE  Chosen(Append(queue, e), types)
             = IF e.type \in types THEN Append(Chosen(queue, types), e) ELSE Chosen(queue, types)
<1> DEFINE longer == Append(queue, e)
           before == Parts(queue, types)
           after == Parts(longer, types)
           piece == PartOf(e, types)
<1>1. /\ longer \in Seq(S) /\ Len(queue) \in Nat /\ Len(longer) = Len(queue) + 1
      /\ \A i \in 1..Len(queue) : longer[i] = queue[i]
      /\ longer[Len(queue) + 1] = e
  BY AppendFacts
<1> HIDE DEF longer
<1>2. /\ before \in Seq(Seq(S)) /\ Len(before) = Len(queue)
      /\ after \in Seq(Seq(S)) /\ Len(after) = Len(longer)
  BY <1>1, PartsType
<1>3. piece \in Seq(S)
  BY DEF PartOf
<1>4. /\ \A i \in 1..Len(queue) : after[i] = before[i]
      /\ after[Len(queue) + 1] = piece
  BY <1>1 DEF Parts
<1> HIDE DEF before, after, piece
<1>5. after = Append(before, piece)
  <2>1. /\ Append(before, piece) \in Seq(Seq(S))
        /\ Len(Append(before, piece)) = Len(before) + 1
        /\ \A i \in 1..Len(before) : Append(before, piece)[i] = before[i]
        /\ Append(before, piece)[Len(before) + 1] = piece
    BY <1>2, <1>3, AppendFacts
  <2>2. \A i \in 1..Len(after) : after[i] = Append(before, piece)[i]
    BY <1>1, <1>2, <1>4, <2>1
  <2> QED BY <1>1, <1>2, <2>1, <2>2, SeqEqual
<1>6. Chosen(longer, types) = Chosen(queue, types) \o piece
  BY <1>2, <1>3, <1>5, FlattenAppend DEF Chosen, before, after
<1>7. Chosen(queue, types) \in Seq(S)
  BY ChosenType
<1>8. CASE e.type \in types
  <2>1. piece = <<e>>
    BY <1>8 DEF piece, PartOf
  <2> DEFINE chosen == Chosen(queue, types)
  <2>2. chosen \in Seq(S)
    BY <1>7
  <2> HIDE DEF chosen
  <2>3. chosen \o <<e>> = Append(chosen, e)
    BY <2>2, AppendIsConcat
  <2> QED BY <1>6, <1>8, <2>1, <2>3 DEF longer, chosen
<1>9. CASE e.type \notin types
  <2>1. piece = <<>>
    BY <1>9 DEF piece, PartOf
  <2> QED BY <1>6, <1>7, <1>9, <2>1, ConcatEmptySeq DEF longer
<1> QED BY <1>8, <1>9

\* What taking the first element off the queue does to the part.
LEMMA ChosenTail ==
    ASSUME NEW S, NEW queue \in Seq(S), queue # <<>>, NEW types
    PROVE  IF Head(queue).type \in types
           THEN /\ Chosen(queue, types) # <<>>
                /\ Head(Chosen(queue, types)) = Head(queue)
                /\ Chosen(Tail(queue), types) = Tail(Chosen(queue, types))
           ELSE Chosen(Tail(queue), types) = Chosen(queue, types)
<1> DEFINE rest == Tail(queue)
           all == Parts(queue, types)
           piece == PartOf(Head(queue), types)
           chosen == Chosen(rest, types)
<1>1. /\ rest \in Seq(S) /\ Len(queue) \in Nat /\ Len(queue) >= 1
      /\ Len(rest) = Len(queue) - 1 /\ Head(queue) = queue[1] /\ Head(queue) \in S
      /\ \A i \in 1..(Len(queue) - 1) : rest[i] = queue[i + 1]
  BY TailFacts
<1> HIDE DEF rest
<1>2. /\ all \in Seq(Seq(S)) /\ Len(all) = Len(queue)
      /\ Parts(rest, types) \in Seq(Seq(S)) /\ Len(Parts(rest, types)) = Len(queue) - 1
  BY <1>1, PartsType
<1>3. all[1] = piece /\ \A i \in 1..(Len(queue) - 1) : Parts(rest, types)[i] = all[i + 1]
  BY <1>1 DEF Parts
<1> HIDE DEF all
<1>4. all # <<>>
  BY <1>1, <1>2
<1>5. /\ Head(all) = piece /\ Tail(all) \in Seq(Seq(S)) /\ Len(Tail(all)) = Len(queue) - 1
      /\ \A i \in 1..(Len(queue) - 1) : Tail(all)[i] = all[i + 1]
  BY <1>2, <1>3, <1>4, TailFacts
<1>6. Tail(all) = Parts(rest, types)
  BY <1>1, <1>2, <1>3, <1>5, SeqEqual
<1>7. Chosen(queue, types) = piece \o chosen
  BY <1>2, <1>4, <1>5, <1>6, FlattenTail DEF Chosen, all
<1>8. chosen \in Seq(S)
  BY <1>1, ChosenType
<1> HIDE DEF chosen
<1>9. CASE Head(queue).type \in types
  <2>1. piece = <<Head(queue)>>
    BY <1>9 DEF PartOf
  <2>2. PICK x \in S : x = Head(queue)
    BY <1>1
  <2>3. <<x>> \o chosen # <<>> /\ Head(<<x>> \o chosen) = x /\ Tail(<<x>> \o chosen) = chosen
    BY <1>8, SMTT(30)
  <2> HIDE DEF piece
  <2> QED BY <1>7, <1>9, <2>1, <2>2, <2>3 DEF chosen, rest
<1>10. CASE Head(queue).type \notin types
  <2>1. piece = <<>>
    BY <1>10 DEF PartOf
  <2> QED BY <1>7, <1>8, <1>10, <2>1, ConcatEmptySeq DEF chosen, rest
<1> QED BY <1>9, <1>10

\* place says where in the queue each element of the part is.
ChosenAt(place, queue, types) ==
    LET part == Chosen(queue, types)
    IN  /\ \A i \in DOMAIN part : /\ place[i] \in DOMAIN queue
                                  /\ queue[place[i]] = part[i]
                                  /\ part[i].type \in types
        /\ \A i, j \in DOMAIN part : place[i] = place[j] => i = j
        /\ \A k \in DOMAIN queue :
              queue[k].type \in types => \E i \in DOMAIN part : place[i] = k

\* Every queue has such places.
LEMMA ChosenPlaces ==
    ASSUME NEW S, NEW queue \in Seq(S), NEW types
    PROVE  \E place : ChosenAt(place, queue, types)
<1> DEFINE P == {n \in Nat : \A q \in Seq(S) : Len(q) = n => \E place : ChosenAt(place, q, types)}
<1>1. 0 \in P
  <2> SUFFICES ASSUME NEW q \in Seq(S), Len(q) = 0 PROVE \E place : ChosenAt(place, q, types)
    OBVIOUS
  <2>1. q = <<>> /\ Chosen(q, types) = <<>>
    BY EmptyFacts, ChosenEmpty
  <2>2. ChosenAt(<<>>, q, types)
    BY <2>1 DEF ChosenAt
  <2> QED BY <2>2
<1>2. ASSUME NEW n \in Nat, n \in P PROVE n + 1 \in P
  <2>0. n + 1 \in Nat
    OBVIOUS
  <2> SUFFICES ASSUME NEW q \in Seq(S), Len(q) = n + 1
               PROVE  \E place : ChosenAt(place, q, types)
    BY <2>0, Zenon
  <2> DEFINE front == SubSeq(q, 1, n)
             last == q[n + 1]
  <2>1. front \in Seq(S) /\ Len(front) = n /\ last \in S /\ q = Append(front, last)
    <3>1. n + 1 <= Len(q) /\ n <= Len(q)
      OBVIOUS
    <3>2. last \in S /\ SubSeq(q, 1, n + 1) = Append(front, last)
      BY <3>1, PrefixGrows
    <3>3. SubSeq(q, 1, n + 1) = q
      BY SubSeqFull
    <3>4. front \in Seq(S) /\ Len(front) = n
      BY <3>1, PrefixFacts
    <3> QED BY <3>2, <3>3, <3>4
  <2> HIDE DEF front, last
  <2>2. PICK place : ChosenAt(place, front, types)
    BY <1>2, <2>1
  <2> DEFINE part == Chosen(front, types)
             longer == Chosen(q, types)
  <2>3. part \in Seq(S) /\ longer = IF last.type \in types THEN Append(part, last) ELSE part
    BY <2>1, ChosenType, ChosenAppend
  <2>4. /\ DOMAIN front = 1..n /\ DOMAIN q = 1..(n + 1)
        /\ \A i \in 1..n : q[i] = front[i]
        /\ q[n + 1] = last
    BY <2>1
  <2>5. /\ \A i \in DOMAIN part : /\ place[i] \in DOMAIN front /\ front[place[i]] = part[i]
                                  /\ part[i].type \in types
        /\ \A i, j \in DOMAIN part : place[i] = place[j] => i = j
        /\ \A k \in DOMAIN front :
              front[k].type \in types => \E i \in DOMAIN part : place[i] = k
    BY <2>2 DEF ChosenAt
  <2> HIDE DEF part, longer
  <2>6. CASE last.type \notin types
    <3>1. longer = part
      BY <2>3, <2>6
    <3>2. \A i \in DOMAIN part : /\ place[i] \in DOMAIN q /\ q[place[i]] = part[i]
                                 /\ part[i].type \in types
      BY <2>4, <2>5
    <3>3. \A k \in DOMAIN q : q[k].type \in types => \E i \in DOMAIN part : place[i] = k
      BY <2>4, <2>5, <2>6
    <3>4. ChosenAt(place, q, types)
      BY <2>5, <3>1, <3>2, <3>3 DEF ChosenAt, longer
    <3> QED BY <3>4
  <2>7. CASE last.type \in types
    <3> DEFINE m == Len(part)
               wider == [i \in 1..(m + 1) |-> IF i = m + 1 THEN n + 1 ELSE place[i]]
    <3>1. /\ m \in Nat /\ DOMAIN part = 1..m /\ DOMAIN longer = 1..(m + 1)
          /\ \A i \in 1..m : longer[i] = part[i]
          /\ longer[m + 1] = last
      BY <2>1, <2>3, <2>7, AppendFacts
    <3> HIDE DEF m
    <3>2. /\ \A i \in 1..m : wider[i] = place[i] /\ wider[i] \in 1..n
          /\ wider[m + 1] = n + 1
      <4>1. m + 1 \in 1..(m + 1)
        BY <3>1
      <4>2. \A i \in 1..m : place[i] \in 1..n
        BY <2>4, <2>5, <3>1
      <4>3. \A i \in 1..m : i \in 1..(m + 1) /\ i # m + 1
        BY <3>1
      <4>4. \A i \in 1..m : wider[i] = place[i]
        BY <4>3
      <4> QED BY <4>1, <4>2, <4>4
    <3> HIDE DEF wider
    <3>3. \A i \in DOMAIN longer : /\ wider[i] \in DOMAIN q /\ q[wider[i]] = longer[i]
                                   /\ longer[i].type \in types
      <4> SUFFICES ASSUME NEW i \in 1..(m + 1)
                   PROVE  /\ wider[i] \in 1..(n + 1) /\ q[wider[i]] = longer[i]
                          /\ longer[i].type \in types
        BY <2>4, <3>1
      <4>1. CASE i = m + 1
        BY <2>4, <2>7, <3>1, <3>2, <4>1
      <4>2. CASE i # m + 1
        <5>1. i \in 1..m
          BY <3>1, <4>2
        <5>2. wider[i] = place[i] /\ wider[i] \in 1..n /\ longer[i] = part[i]
          BY <3>1, <3>2, <5>1
        <5> QED BY <2>4, <2>5, <3>1, <5>1, <5>2
      <4> QED BY <4>1, <4>2
    <3>4. \A i, j \in DOMAIN longer : wider[i] = wider[j] => i = j
      <4> SUFFICES ASSUME NEW i \in 1..(m + 1), NEW j \in 1..(m + 1), wider[i] = wider[j]
                   PROVE  i = j
        BY <3>1
      <4>1. (i \in 1..m \/ i = m + 1) /\ (j \in 1..m \/ j = m + 1)
        BY <3>1
      <4>2. \A k \in 1..m : wider[k] # n + 1
        BY <3>2
      <4>3. CASE i \in 1..m /\ j \in 1..m
        BY <2>5, <3>1, <3>2, <4>3
      <4> QED BY <3>2, <4>1, <4>2, <4>3
    <3>5. \A k \in DOMAIN q : q[k].type \in types => \E i \in DOMAIN longer : wider[i] = k
      <4> SUFFICES ASSUME NEW k \in 1..(n + 1), q[k].type \in types
                   PROVE  \E i \in 1..(m + 1) : wider[i] = k
        BY <2>4, <3>1
      <4>1. CASE k = n + 1
        BY <3>1, <3>2, <4>1
      <4>2. CASE k # n + 1
        <5>1. k \in 1..n
          BY <4>2
        <5>2. PICK i \in 1..m : place[i] = k
          BY <2>4, <2>5, <3>1, <5>1
        <5>3. i \in 1..(m + 1) /\ wider[i] = k
          BY <3>1, <3>2, <5>2
        <5> QED BY <5>3
      <4> QED BY <4>1, <4>2
    <3>6. ChosenAt(wider, q, types)
      BY <3>3, <3>4, <3>5 DEF ChosenAt, longer
    <3> QED BY <3>6
  <2> QED BY <2>6, <2>7
<1> HIDE DEF P
<1>3. Nat \subseteq P
  BY <1>1, <1>2, NatSetInduction
<1>4. Len(queue) \in Nat
  OBVIOUS
<1> QED BY <1>3, <1>4 DEF P

=============================================================================
