--------------------------- MODULE StreamTextProofs ---------------------------
(***************************************************************************)
(* Proofs about StreamText, for every pair of tags, every text and every   *)
(* way the network and the upstream cut it.                                *)
(*                                                                         *)
(* The functions of the model call themselves: Extracted frame by frame,   *)
(* Filtered tag by tag, FlattenSeq and ShowAll element by element.  That   *)
(* such a function exists is RecursionExists, and what it computes is      *)
(* shown by Induction, which is about a set of numbers and not about an    *)
(* operator.  Two facts carry the rest:                                    *)
(*                                                                         *)
(*   FilteredCut     the filter of a text cut in two is the filter of its  *)
(*                   first part, and then of what it held back and the     *)
(*                   second;                                               *)
(*   ExtractedCut    the same of the frames of bytes cut in two.           *)
(***************************************************************************)
EXTENDS StreamText, SequenceTheorems, WellFoundedInduction, TLAPS

-----------------------------------------------------------------------------
(* Induction and recursion over the natural numbers.                        *)

\* The order of the natural numbers, as a set of pairs.
Below == {p \in Nat \X Nat : p[1] < p[2]}

LEMMA BelowWellFounded == IsWellFoundedOn(Below, Nat)
<1>1. IsWellFoundedOn(OpToRel(<, Nat), Nat)
  BY NatLessThanWellFounded, Zenon
<1>2. OpToRel(<, Nat) = {p \in Nat \X Nat : p[1] < p[2]}
  BY Zenon DEF OpToRel
<1> QED BY <1>1, <1>2, Zenon DEF Below

\* A set of numbers has a least one.
LEMMA LeastNat ==
  ASSUME NEW T \in SUBSET Nat, T # {}
  PROVE  \E n \in T : \A m \in T : n <= m
<1>1. \E n \in T : \A m \in T : ~(<<m, n>> \in Below)
  BY WFMin, BelowWellFounded
<1>2. \A m, n \in Nat : <<m, n>> \in Below <=> m < n
  BY DEF Below
<1>3. \A m, n \in Nat : ~(<<m, n>> \in Below) => n <= m
  BY <1>2
<1> QED BY <1>1, <1>3

\* A set of numbers that holds every number whose predecessors it holds.
LEMMA Induction ==
  ASSUME NEW T, \A n \in Nat : (\A m \in 0 .. n - 1 : m \in T) => n \in T
  PROVE  Nat \subseteq T
<1> SUFFICES ASSUME Nat \ T # {} PROVE FALSE
  OBVIOUS
<1>1. PICK n \in Nat \ T : \A m \in Nat \ T : n <= m
  BY LeastNat
<1> QED BY <1>1

-----------------------------------------------------------------------------
(* A function that calls itself with smaller arguments exists.              *)

\* f follows the recursion on the arguments it has.
Follows(f, D, stop, base, next, comb) ==
  \A d \in D : f[d] = IF d \in stop THEN base[d] ELSE comb[<<d, f[next[d]]>>]
Smaller(D, size, n) == {d \in D : size[d] < n}

LEMMA RecursionUpTo ==
  ASSUME NEW D, NEW X, NEW size \in [D -> Nat], NEW stop \in SUBSET D,
         NEW base \in [D -> X], NEW next \in [D -> D], NEW comb \in [D \X X -> X],
         \A d \in D \ stop : size[next[d]] < size[d],
         NEW n \in Nat
  PROVE  \E f \in [Smaller(D, size, n) -> X] :
            Follows(f, Smaller(D, size, n), stop, base, next, comb)
<1> DEFINE Up(m) == Smaller(D, size, m)
           T == {m \in Nat : \E f \in [Up(m) -> X] : Follows(f, Up(m), stop, base, next, comb)}
<1>1. 0 \in T
  <2>1. Up(0) = {}
    BY DEF Smaller
  <2>2. [d \in {} |-> d] \in [{} -> X]
    OBVIOUS
  <2> QED BY <2>1, <2>2 DEF Follows
<1>2. ASSUME NEW m \in Nat, m \in T PROVE m + 1 \in T
  <2>1. PICK f \in [Up(m) -> X] : Follows(f, Up(m), stop, base, next, comb)
    BY <1>2
  <2> DEFINE g == [d \in Up(m + 1) |-> IF d \in stop THEN base[d] ELSE comb[<<d, f[next[d]]>>]]
  <2>2. \A d \in Up(m + 1) \ stop : next[d] \in Up(m)
    BY DEF Smaller
  <2>3. g \in [Up(m + 1) -> X]
    <3>1. \A d \in Up(m + 1) : d \in D
      BY DEF Smaller
    <3>2. \A d \in Up(m + 1) \ stop : <<d, f[next[d]]>> \in D \X X
      BY <2>1, <2>2, <3>1
    <3> QED BY <2>1, <2>2, <3>1, <3>2
  <2>4. \A d \in Up(m) : d \in Up(m + 1) /\ g[d] = f[d]
    BY <2>1 DEF Smaller, Follows
  <2>5. Follows(g, Up(m + 1), stop, base, next, comb)
    <3> SUFFICES ASSUME NEW d \in Up(m + 1)
                 PROVE g[d] = IF d \in stop THEN base[d] ELSE comb[<<d, g[next[d]]>>]
      BY DEF Follows
    <3>1. g[d] = IF d \in stop THEN base[d] ELSE comb[<<d, f[next[d]]>>]
      OBVIOUS
    <3>2. d \notin stop => g[next[d]] = f[next[d]]
      BY <2>2, <2>4
    <3> QED BY <3>1, <3>2
  <2> HIDE DEF g
  <2>6. \E h \in [Up(m + 1) -> X] : Follows(h, Up(m + 1), stop, base, next, comb)
    BY <2>3, <2>5
  <2> QED BY <2>6
<1>3. \A m \in Nat : (\A k \in 0 .. m - 1 : k \in T) => m \in T
  <2> SUFFICES ASSUME NEW m \in Nat, \A k \in 0 .. m - 1 : k \in T PROVE m \in T
    OBVIOUS
  <2> HIDE DEF T
  <2>1. CASE m = 0
    BY <1>1, <2>1
  <2>2. CASE m # 0
    <3>1. m - 1 \in Nat /\ m - 1 \in T /\ (m - 1) + 1 = m
      BY <2>2
    <3> QED BY <3>1, <1>2
  <2> QED BY <2>1, <2>2
<1>4. Nat \subseteq T
  <2> HIDE DEF T
  <2> QED BY <1>3, Induction
<1> QED BY <1>4

\* A function that calls itself with smaller arguments exists.
LEMMA RecursionExists ==
  ASSUME NEW D, NEW X, NEW size \in [D -> Nat], NEW stop \in SUBSET D,
         NEW base \in [D -> X], NEW next \in [D -> D], NEW comb \in [D \X X -> X],
         \A d \in D \ stop : size[next[d]] < size[d]
  PROVE  \E f \in [D -> X] : Follows(f, D, stop, base, next, comb)
<1> DEFINE Good(n) == {f \in [Smaller(D, size, n) -> X] :
                         Follows(f, Smaller(D, size, n), stop, base, next, comb)}
<1>1. PICK upTo : \A n \in Nat : upTo[n] \in Good(n)
  <2>1. \A n \in Nat : \E g : g \in Good(n)
    BY RecursionUpTo
  <2> HIDE DEF Good
  <2>2. \A n \in Nat : [m \in Nat |-> CHOOSE g : g \in Good(m)][n] \in Good(n)
    BY <2>1
  <2> QED BY <2>2
<1> DEFINE f == [d \in D |-> upTo[size[d] + 1][d]]
           Agreed == {k \in Nat : \A d \in D, n \in Nat :
                                    size[d] = k /\ k < n => f[d] = upTo[n][d]}
<1>2. ASSUME NEW k \in Nat, \A j \in 0 .. k - 1 : j \in Agreed PROVE k \in Agreed
  <2> SUFFICES ASSUME NEW d \in D, NEW n \in Nat, size[d] = k, k < n PROVE f[d] = upTo[n][d]
    OBVIOUS
  <2> DEFINE value(m) == IF d \in stop THEN base[d] ELSE comb[<<d, upTo[m][next[d]]>>]
  <2>1. d \in Smaller(D, size, n) /\ d \in Smaller(D, size, k + 1)
    BY DEF Smaller
  <2>2. upTo[n][d] = value(n) /\ upTo[k + 1][d] = value(k + 1)
    BY <1>1, <2>1 DEF Follows
  <2>3. d \notin stop => upTo[n][next[d]] = upTo[k + 1][next[d]]
    <3> SUFFICES ASSUME d \notin stop PROVE upTo[n][next[d]] = upTo[k + 1][next[d]]
      OBVIOUS
    <3>1. next[d] \in D /\ size[next[d]] \in 0 .. k - 1
      OBVIOUS
    <3>2. size[next[d]] \in Agreed
      BY <1>2, <3>1
    <3> HIDE DEF f
    <3>3. \A m \in Nat : size[next[d]] < m => f[next[d]] = upTo[m][next[d]]
      BY <3>1, <3>2
    <3> QED BY <3>1, <3>3
  <2> QED BY <2>2, <2>3
<1>3. ASSUME NEW d \in D, NEW n \in Nat, size[d] < n PROVE f[d] = upTo[n][d]
  <2> HIDE DEF Agreed
  <2>1. Nat \subseteq Agreed
    BY <1>2, Induction
  <2>2. size[d] \in Agreed
    BY <2>1
  <2> QED BY <2>2, <1>3 DEF Agreed
<1>4. f \in [D -> X]
  <2> SUFFICES ASSUME NEW d \in D PROVE f[d] \in X
    OBVIOUS
  <2>1. upTo[size[d] + 1] \in [Smaller(D, size, size[d] + 1) -> X]
    BY <1>1
  <2>2. d \in Smaller(D, size, size[d] + 1)
    BY DEF Smaller
  <2> QED BY <2>1, <2>2
<1>5. Follows(f, D, stop, base, next, comb)
  <2> SUFFICES ASSUME NEW d \in D
               PROVE f[d] = IF d \in stop THEN base[d] ELSE comb[<<d, f[next[d]]>>]
    BY DEF Follows
  <2>1. d \in Smaller(D, size, size[d] + 1)
    BY DEF Smaller
  <2>2. upTo[size[d] + 1][d] = IF d \in stop THEN base[d] ELSE comb[<<d, upTo[size[d] + 1][next[d]]>>]
    BY <1>1, <2>1 DEF Follows
  <2>3. d \notin stop => f[next[d]] = upTo[size[d] + 1][next[d]]
    <3> HIDE DEF f
    <3> QED BY <1>3
  <2>4. f[d] = upTo[size[d] + 1][d]
    OBVIOUS
  <2> QED BY <2>2, <2>3, <2>4
<1> QED BY <1>4, <1>5

-----------------------------------------------------------------------------
(* Sequences cut in two, and where a tag is found in them.                  *)

\* A sequence cut at k.
LEMMA CutInTwo ==
  ASSUME NEW S, NEW s \in Seq(S), NEW k \in 0 .. Len(s)
  PROVE  /\ SubSeq(s, 1, k) \in Seq(S) /\ Len(SubSeq(s, 1, k)) = k
         /\ \A j \in 1 .. k : SubSeq(s, 1, k)[j] = s[j]
         /\ SubSeq(s, k + 1, Len(s)) \in Seq(S) /\ Len(SubSeq(s, k + 1, Len(s))) = Len(s) - k
         /\ \A j \in 1 .. Len(s) - k : SubSeq(s, k + 1, Len(s))[j] = s[k + j]
         /\ SubSeq(s, 1, k) \o SubSeq(s, k + 1, Len(s)) = s
<1>1. \A j \in 1 .. Len(s) : s[j] \in S
  OBVIOUS
<1>2. /\ SubSeq(s, 1, k) \in Seq(S) /\ Len(SubSeq(s, 1, k)) = k
      /\ \A j \in 1 .. k : SubSeq(s, 1, k)[j] = s[j]
  <2>1. \A j \in 1 .. k : s[j] \in S
    BY <1>1
  <2> QED BY <2>1, SubSeqProperties
<1>3. /\ SubSeq(s, k + 1, Len(s)) \in Seq(S) /\ Len(SubSeq(s, k + 1, Len(s))) = Len(s) - k
      /\ \A j \in 1 .. Len(s) - k : SubSeq(s, k + 1, Len(s))[j] = s[k + j]
  <2>1. \A j \in k + 1 .. Len(s) : s[j] \in S
    BY <1>1
  <2> QED BY <2>1, SubSeqProperties
<1>4. SubSeq(s, 1, k) \o SubSeq(s, k + 1, Len(s)) = SubSeq(s, 1, Len(s))
  <2>1. 1 \in 1 .. Len(s) + 1 /\ k \in 1 - 1 .. Len(s) /\ Len(s) \in k .. Len(s)
    OBVIOUS
  <2> QED BY <2>1, ConcatAdjacentSubSeq
<1> QED BY <1>2, <1>3, <1>4, SubSeqFull

\* What is behind a place of the first of two sequences.
LEMMA CutFirst ==
  ASSUME NEW S, NEW s \in Seq(S), NEW t \in Seq(S), NEW k \in 0 .. Len(s)
  PROVE  /\ SubSeq(s \o t, 1, k) = SubSeq(s, 1, k)
         /\ SubSeq(s \o t, k + 1, Len(s \o t)) = SubSeq(s, k + 1, Len(s)) \o t
<1>1. s \o t \in Seq(S) /\ Len(s \o t) = Len(s) + Len(t) /\ k \in 0 .. Len(s \o t)
  BY ConcatProperties
<1>2. \A j \in 1 .. Len(s) + Len(t) : (s \o t)[j] = IF j <= Len(s) THEN s[j] ELSE t[j - Len(s)]
  BY ConcatProperties
<1> DEFINE a == SubSeq(s, k + 1, Len(s))
           b == SubSeq(s \o t, k + 1, Len(s \o t))
<1>3. a \in Seq(S) /\ Len(a) = Len(s) - k /\ \A j \in 1 .. Len(s) - k : a[j] = s[k + j]
  BY CutInTwo
<1>4. b \in Seq(S) /\ Len(b) = Len(s) + Len(t) - k
      /\ \A j \in 1 .. Len(s) + Len(t) - k : b[j] = (s \o t)[k + j]
  BY <1>1, CutInTwo
<1>5. a \o t \in Seq(S) /\ Len(a \o t) = Len(a) + Len(t)
      /\ \A j \in 1 .. Len(a) + Len(t) : (a \o t)[j] = IF j <= Len(a) THEN a[j] ELSE t[j - Len(a)]
  <2> HIDE DEF a
  <2> QED BY <1>3, ConcatProperties
<1>6. \A j \in 1 .. Len(b) : b[j] = (a \o t)[j]
  <2> HIDE DEF a, b
  <2> SUFFICES ASSUME NEW j \in 1 .. Len(b) PROVE b[j] = (a \o t)[j]
    OBVIOUS
  <2>1. k + j \in 1 .. Len(s) + Len(t) /\ j \in 1 .. Len(a) + Len(t)
    BY <1>3, <1>4
  <2>2. b[j] = IF k + j <= Len(s) THEN s[k + j] ELSE t[k + j - Len(s)]
    BY <1>2, <1>4, <2>1
  <2>3. (a \o t)[j] = IF j <= Len(s) - k THEN s[k + j] ELSE t[j - (Len(s) - k)]
    BY <1>3, <1>5, <2>1
  <2>4. k + j - Len(s) = j - (Len(s) - k)
    OBVIOUS
  <2> QED BY <2>2, <2>3, <2>4
<1>7. a \o t = b
  <2> HIDE DEF a, b
  <2>1. Len(a \o t) = Len(b) /\ \A j \in 1 .. Len(a \o t) : (a \o t)[j] = b[j]
    BY <1>3, <1>4, <1>5, <1>6
  <2> QED BY <1>4, <1>5, <2>1, SeqEqual
<1>8. SubSeq(s \o t, 1, k) = SubSeq(s, 1, k)
  <2> DEFINE c == SubSeq(s, 1, k)
             d == SubSeq(s \o t, 1, k)
  <2>1. c \in Seq(S) /\ Len(c) = k /\ \A j \in 1 .. k : c[j] = s[j]
    BY CutInTwo
  <2>2. d \in Seq(S) /\ Len(d) = k /\ \A j \in 1 .. k : d[j] = (s \o t)[j]
    BY <1>1, CutInTwo
  <2> HIDE DEF c, d
  <2>3. \A j \in 1 .. k : c[j] = d[j]
    BY <1>2, <2>1, <2>2
  <2> QED BY <2>1, <2>2, <2>3, SeqEqual
<1> QED BY <1>7, <1>8

\* What is behind a place of the second of two sequences.
LEMMA CutSecond ==
  ASSUME NEW S, NEW s \in Seq(S), NEW t \in Seq(S), NEW k \in 0 .. Len(t)
  PROVE  /\ SubSeq(s \o t, 1, Len(s) + k) = s \o SubSeq(t, 1, k)
         /\ SubSeq(s \o t, Len(s) + k + 1, Len(s \o t)) = SubSeq(t, k + 1, Len(t))
<1> DEFINE a == SubSeq(t, 1, k)
           b == SubSeq(t, k + 1, Len(t))
           c == s \o a
<1>1. a \in Seq(S) /\ Len(a) = k /\ b \in Seq(S) /\ t = a \o b
  BY CutInTwo
<1>2. c \in Seq(S) /\ Len(c) = Len(s) + k
  <2> HIDE DEF a
  <2> QED BY <1>1, ConcatProperties
<1>3. s \o t = c \o b
  <2> HIDE DEF a, b
  <2> QED BY <1>1, ConcatAssociative
<1>4. /\ SubSeq(c \o b, 1, Len(c)) = SubSeq(c, 1, Len(c))
      /\ SubSeq(c \o b, Len(c) + 1, Len(c \o b)) = SubSeq(c, Len(c) + 1, Len(c)) \o b
  <2> HIDE DEF b, c
  <2>1. Len(c) \in 0 .. Len(c)
    BY <1>2
  <2> QED BY <1>1, <1>2, <2>1, CutFirst
<1>5. SubSeq(c, 1, Len(c)) = c /\ SubSeq(c, Len(c) + 1, Len(c)) = <<>>
  <2> HIDE DEF c
  <2> QED BY <1>2, SubSeqFull, SubSeqEmpty
<1>6. <<>> \o b = b
  <2> HIDE DEF b
  <2> QED BY <1>1, ConcatEmptySeq
<1> HIDE DEF a, b, c
<1>7. SubSeq(s \o t, 1, Len(s) + k) = c /\ SubSeq(s \o t, Len(s) + k + 1, Len(s \o t)) = b
  BY <1>2, <1>3, <1>4, <1>5, <1>6
<1> QED BY <1>7 DEF a, b, c

\* An occurrence of a tag is within its sequence.
IsAt(s, tag, k) ==
  /\ k \in 1 .. Len(s) /\ k + Len(tag) <= Len(s) + 1
  /\ \A j \in 1 .. Len(tag) : s[k + j - 1] = tag[j]

LEMMA FoundWithin ==
  ASSUME NEW S, NEW s \in Seq(S), NEW tag \in Seq(S)
  PROVE  \A k : k \in Found(s, tag) <=> IsAt(s, tag, k)
<1>1. DOMAIN s = 1 .. Len(s) /\ DOMAIN tag = 1 .. Len(tag)
  BY LenProperties
<1> QED BY <1>1 DEF Found, At, IsAt

\* What ends within the first of two sequences is found in it.
LEMMA FoundFirst ==
  ASSUME NEW S, NEW s \in Seq(S), NEW t \in Seq(S), NEW tag \in Seq(S) \ {<<>>},
         NEW k \in 1 .. Len(s), k + Len(tag) <= Len(s) + 1
  PROVE  k \in Found(s \o t, tag) <=> k \in Found(s, tag)
<1>1. s \o t \in Seq(S) /\ Len(s \o t) = Len(s) + Len(t)
      /\ \A j \in 1 .. Len(s) + Len(t) : (s \o t)[j] = IF j <= Len(s) THEN s[j] ELSE t[j - Len(s)]
  BY ConcatProperties
<1>2. Len(tag) \in Nat /\ Len(t) \in Nat /\ Len(s) \in Nat
  OBVIOUS
<1>3. \A j \in 1 .. Len(tag) : k + j - 1 \in 1 .. Len(s)
  BY <1>2
<1>4. \A j \in 1 .. Len(tag) : (s \o t)[k + j - 1] = s[k + j - 1]
  BY <1>1, <1>2, <1>3
<1>5. k \in Found(s, tag) <=> IsAt(s, tag, k)
  BY FoundWithin
<1>6. k \in Found(s \o t, tag) <=> IsAt(s \o t, tag, k)
  BY <1>1, FoundWithin
<1>7. IsAt(s \o t, tag, k) <=> IsAt(s, tag, k)
  BY <1>1, <1>2, <1>4 DEF IsAt
<1> QED BY <1>5, <1>6, <1>7

\* What begins in the second of two sequences is found in it.
LEMMA FoundSecond ==
  ASSUME NEW S, NEW s \in Seq(S), NEW t \in Seq(S), NEW tag \in Seq(S), NEW k \in Nat \ {0}
  PROVE  Len(s) + k \in Found(s \o t, tag) <=> k \in Found(t, tag)
<1>1. s \o t \in Seq(S) /\ Len(s \o t) = Len(s) + Len(t)
      /\ \A j \in 1 .. Len(s) + Len(t) : (s \o t)[j] = IF j <= Len(s) THEN s[j] ELSE t[j - Len(s)]
  BY ConcatProperties
<1>2. Len(tag) \in Nat /\ Len(t) \in Nat /\ Len(s) \in Nat
  OBVIOUS
<1>3. k \in 1 .. Len(t) /\ k + Len(tag) <= Len(t) + 1
      => \A j \in 1 .. Len(tag) : (s \o t)[Len(s) + k + j - 1] = t[k + j - 1]
  BY <1>1, <1>2
<1>4. k \in Found(t, tag) <=> IsAt(t, tag, k)
  BY FoundWithin
<1>5. Len(s) + k \in Found(s \o t, tag) <=> IsAt(s \o t, tag, Len(s) + k)
  BY <1>1, FoundWithin
<1>6. IsAt(s \o t, tag, Len(s) + k) <=> IsAt(t, tag, k)
  <2>1. Len(s) + k \in 1 .. Len(s \o t) <=> k \in 1 .. Len(t)
    BY <1>1, <1>2
  <2>2. Len(s) + k + Len(tag) <= Len(s \o t) + 1 <=> k + Len(tag) <= Len(t) + 1
    BY <1>1, <1>2
  <2> QED BY <1>3, <2>1, <2>2 DEF IsAt
<1> QED BY <1>4, <1>5, <1>6

LEMMA MinOf ==
  ASSUME NEW T \in SUBSET Nat, T # {}
  PROVE  Min(T) \in T /\ \A n \in T : Min(T) <= n
BY LeastNat DEF Min

-----------------------------------------------------------------------------
(* What is held back because a tag may begin with it.                       *)

Begins(s, tag) ==
  {k \in 1 .. Len(tag) - 1 : k <= Len(s) /\ \A j \in 1 .. k : tag[j] = s[Len(s) - k + j]}

\* A suffix, element by element.
LEMMA SuffixIs ==
  ASSUME NEW S, NEW p \in Seq(S), NEW s \in Seq(S)
  PROVE  IsSuffix(p, s) <=> /\ Len(p) <= Len(s)
                            /\ \A j \in 1 .. Len(p) : p[j] = s[Len(s) - Len(p) + j]
<1> DEFINE a == Reverse(p)
           b == Reverse(s)
           n == Len(p)
<1>1. a \in Seq(S) /\ Len(a) = n /\ \A j \in 1 .. n : a[j] = p[n - j + 1]
  <2>1. a = [j \in 1 .. n |-> p[n - j + 1]]
    BY DEF Reverse
  <2> QED BY <2>1
<1>2. b \in Seq(S) /\ Len(b) = Len(s) /\ \A j \in 1 .. Len(s) : b[j] = s[Len(s) - j + 1]
  <2>1. b = [j \in 1 .. Len(s) |-> s[Len(s) - j + 1]]
    BY DEF Reverse
  <2> QED BY <2>1
<1>3. IsSuffix(p, s) <=> n <= Len(s) /\ SubSeq(a, 1, n) = SubSeq(b, 1, n)
  BY <1>1, <1>2 DEF IsSuffix, IsPrefix
<1>4. ASSUME n <= Len(s)
      PROVE SubSeq(a, 1, n) = SubSeq(b, 1, n) <=> \A j \in 1 .. n : a[j] = b[j]
  <2> DEFINE c == SubSeq(a, 1, n)
             d == SubSeq(b, 1, n)
  <2> HIDE DEF a, b
  <2>1. n \in 0 .. Len(a) /\ n \in 0 .. Len(b)
    BY <1>1, <1>2, <1>4
  <2>2. c \in Seq(S) /\ Len(c) = n /\ \A j \in 1 .. n : c[j] = a[j]
    BY <1>1, <2>1, CutInTwo
  <2>3. d \in Seq(S) /\ Len(d) = n /\ \A j \in 1 .. n : d[j] = b[j]
    BY <1>2, <2>1, CutInTwo
  <2> HIDE DEF c, d
  <2>4. c = d <=> \A j \in 1 .. n : c[j] = d[j]
    BY <2>2, <2>3, SeqEqual
  <2> QED BY <2>2, <2>3, <2>4 DEF c, d
<1>5. ASSUME n <= Len(s)
      PROVE (\A j \in 1 .. n : a[j] = b[j])
              <=> \A j \in 1 .. n : p[j] = s[Len(s) - n + j]
  <2> HIDE DEF a, b
  <2>1. ASSUME \A j \in 1 .. n : a[j] = b[j], NEW j \in 1 .. n PROVE p[j] = s[Len(s) - n + j]
    <3> DEFINE i == n - j + 1
    <3>1. i \in 1 .. n /\ i \in 1 .. Len(s)
      BY <1>5
    <3>2. n - i + 1 = j /\ Len(s) - i + 1 = Len(s) - n + j
      OBVIOUS
    <3> HIDE DEF i
    <3>3. a[i] = p[n - i + 1] /\ b[i] = s[Len(s) - i + 1] /\ a[i] = b[i]
      BY <1>1, <1>2, <2>1, <3>1
    <3> QED BY <3>2, <3>3
  <2>2. ASSUME \A j \in 1 .. n : p[j] = s[Len(s) - n + j], NEW j \in 1 .. n PROVE a[j] = b[j]
    <3>1. n - j + 1 \in 1 .. n /\ j \in 1 .. Len(s)
      BY <1>5
    <3>2. p[n - j + 1] = s[Len(s) - n + (n - j + 1)]
      BY <2>2, <3>1
    <3>3. Len(s) - n + (n - j + 1) = Len(s) - j + 1
      OBVIOUS
    <3> QED BY <1>1, <1>2, <3>1, <3>2, <3>3
  <2> QED BY <2>1, <2>2
<1> QED BY <1>3, <1>4, <1>5

LEMMA PendingIs ==
  ASSUME NEW S, NEW s \in Seq(S), NEW tag \in Seq(S)
  PROVE  Pending(s, tag) =
           IF Begins(s, tag) = {} THEN <<>> ELSE SubSeq(tag, 1, Max(Begins(s, tag)))
<1>1. ASSUME NEW k \in 1 .. Len(tag) - 1
      PROVE k <= Len(s) /\ IsSuffix(SubSeq(tag, 1, k), s) <=> k \in Begins(s, tag)
  <2> DEFINE p == SubSeq(tag, 1, k)
  <2>1. k \in 0 .. Len(tag)
    OBVIOUS
  <2>2. p \in Seq(S) /\ Len(p) = k /\ \A j \in 1 .. k : p[j] = tag[j]
    BY <2>1, CutInTwo
  <2> HIDE DEF p
  <2>3. IsSuffix(p, s) <=> /\ Len(p) <= Len(s)
                           /\ \A j \in 1 .. Len(p) : p[j] = s[Len(s) - Len(p) + j]
    BY <2>2, SuffixIs
  <2> QED BY <2>2, <2>3 DEF p, Begins
<1>2. {k \in 1 .. Len(tag) - 1 : k <= Len(s) /\ IsSuffix(SubSeq(tag, 1, k), s)} = Begins(s, tag)
  BY <1>1 DEF Begins
<1> QED BY <1>2 DEF Pending

LEMMA MaxOf ==
  ASSUME NEW T \in SUBSET Nat, T # {}, NEW bound \in Nat, \A n \in T : n <= bound
  PROVE  Max(T) \in T /\ \A n \in T : n <= Max(T)
<1> DEFINE U == {m \in Nat : \A n \in T : n <= m}
<1>1. bound \in U
  OBVIOUS
<1>2. PICK m \in U : \A k \in U : m <= k
  <2> HIDE DEF U
  <2>1. U \subseteq Nat
    BY DEF U
  <2> QED BY <1>1, <2>1, LeastNat
<1>3. m \in T
  <2> SUFFICES ASSUME m \notin T PROVE FALSE
    OBVIOUS
  <2>1. PICK n \in T : TRUE
    OBVIOUS
  <2>2. m - 1 \in Nat /\ \A k \in T : k <= m - 1
    BY <1>2, <2>1
  <2> QED BY <1>2, <2>2
<1>4. \A n \in T : n <= m
  BY <1>2
<1> QED BY <1>3, <1>4 DEF Max

\* How much is held back: an end of the text, shorter than the tag and its beginning.
Kept(s, tag) == Len(Pending(s, tag))

\* What Pending holds back is the longest end of s that begins the tag.
LEMMA KeptIs ==
  ASSUME NEW S, NEW s \in Seq(S), NEW tag \in Seq(S) \ {<<>>}
  PROVE  /\ Pending(s, tag) \in Seq(S)
         /\ Kept(s, tag) \in 0 .. Len(s)
         /\ Pending(s, tag) = SubSeq(s, Len(s) - Kept(s, tag) + 1, Len(s))
         /\ Pending(s, tag) = SubSeq(tag, 1, Kept(s, tag))
         /\ Kept(s, tag) # 0 => Kept(s, tag) \in Begins(s, tag)
         /\ \A k \in Begins(s, tag) : k <= Kept(s, tag)
<1> DEFINE B == Begins(s, tag)
           p == Pending(s, tag)
<1>1. CASE B = {}
  <2>1. p = <<>>
    BY <1>1, PendingIs
  <2>2. SubSeq(s, Len(s) - 0 + 1, Len(s)) = <<>> /\ SubSeq(tag, 1, 0) = <<>> /\ Len(<<>>) = 0
    BY SubSeqEmpty
  <2> QED BY <1>1, <2>1, <2>2 DEF Kept
<1>2. CASE B # {}
  <2> DEFINE n == Max(B)
  <2>1. p = SubSeq(tag, 1, n)
    BY <1>2, PendingIs
  <2>2. B \subseteq Nat /\ \A k \in B : k <= Len(s)
    BY DEF Begins
  <2>3. n \in B /\ \A k \in B : k <= n
    <3> HIDE DEF B
    <3>1. Len(s) \in Nat
      OBVIOUS
    <3> QED BY <1>2, <2>2, <3>1, MaxOf
  <2> HIDE DEF n
  <2>4. n \in 1 .. Len(tag) - 1 /\ n <= Len(s) /\ \A j \in 1 .. n : tag[j] = s[Len(s) - n + j]
    BY <2>3 DEF Begins
  <2>5. p \in Seq(S) /\ Len(p) = n /\ \A j \in 1 .. n : p[j] = tag[j]
    <3>1. n \in 0 .. Len(tag)
      BY <2>4
    <3> HIDE DEF p
    <3> QED BY <2>1, <3>1, CutInTwo
  <2> DEFINE k == Len(s) - n
             q == SubSeq(s, k + 1, Len(s))
  <2>6. q \in Seq(S) /\ Len(q) = Len(s) - k /\ \A j \in 1 .. Len(s) - k : q[j] = s[k + j]
    <3>1. k \in 0 .. Len(s)
      BY <2>4
    <3> HIDE DEF k
    <3> QED BY <3>1, CutInTwo
  <2>7. Len(s) - k = n
    BY <2>4
  <2>8. p = q
    <3> HIDE DEF p, q
    <3>1. Len(p) = Len(q) /\ \A j \in 1 .. Len(p) : p[j] = q[j]
      BY <2>4, <2>5, <2>6, <2>7
    <3> QED BY <2>5, <2>6, <3>1, SeqEqual
  <2>9. Kept(s, tag) = n
    BY <2>5 DEF Kept
  <2> QED BY <2>1, <2>3, <2>4, <2>5, <2>8, <2>9
<1> QED BY <1>1, <1>2

-----------------------------------------------------------------------------
(* The thinking filter.                                                     *)

Outcomes == [hidden : BOOLEAN, pending : Texts, visible : Texts]

Tag(f) == IF f.hidden THEN Close ELSE Open
Tags(f) == Found(f.pending, Tag(f))
Before(f, k) == IF f.hidden THEN <<>> ELSE SubSeq(f.pending, 1, k)
Behind(f, k) ==
  [hidden |-> ~f.hidden, pending |-> SubSeq(f.pending, k + Len(Tag(f)), Len(f.pending))]

\* What the filter makes of a text without a tag, and of one with a first tag at k.
NoTag(f) ==
  [hidden |-> f.hidden, pending |-> Pending(f.pending, Tag(f)),
   visible |-> Before(f, Len(f.pending) - Kept(f.pending, Tag(f)))]
TagAt(f, k, after) == [after EXCEPT !.visible = Before(f, k - 1) \o @]

LEMMA TagType ==
  ASSUME NEW f \in Filters
  PROVE  /\ f.hidden \in BOOLEAN /\ f.pending \in Texts
         /\ Tag(f) \in Texts \ {<<>>} /\ Len(Tag(f)) \in Nat \ {0} /\ Len(f.pending) \in Nat
<1>1. f.hidden \in BOOLEAN /\ f.pending \in Texts
  BY DEF Filters
<1>2. Tag(f) \in Texts \ {<<>>}
  BY <1>1, TextAssumption DEF Tag
<1>3. Len(Tag(f)) \in Nat \ {0} /\ Len(f.pending) \in Nat
  BY <1>1, <1>2 DEF Texts
<1> QED BY <1>1, <1>2, <1>3

\* The first tag of a filter's text, and the smaller text behind it.
LEMMA FirstTag ==
  ASSUME NEW f \in Filters, Tags(f) # {}
  PROVE  /\ Min(Tags(f)) \in Tags(f)
         /\ \A k \in Tags(f) : Min(Tags(f)) <= k
         /\ Min(Tags(f)) \in 1 .. Len(f.pending)
         /\ Min(Tags(f)) + Len(Tag(f)) <= Len(f.pending) + 1
         /\ Before(f, Min(Tags(f)) - 1) \in Texts
         /\ Behind(f, Min(Tags(f))) \in Filters
         /\ Len(Behind(f, Min(Tags(f))).pending) < Len(f.pending)
<1> DEFINE k == Min(Tags(f))
           s == f.pending
           n == Len(Tag(f))
<1>1. \A m : m \in Tags(f) <=> IsAt(s, Tag(f), m)
  BY TagType, FoundWithin DEF Tags, Texts
<1>2. k \in Tags(f) /\ \A m \in Tags(f) : k <= m
  <2>1. Tags(f) \subseteq Nat
    BY <1>1 DEF IsAt
  <2> QED BY <2>1, MinOf
<1> HIDE DEF k
<1>3. k \in 1 .. Len(s) /\ k + n <= Len(s) + 1
  BY <1>1, <1>2 DEF IsAt
<1>4. Before(f, k - 1) \in Texts
  <2>1. k - 1 \in 0 .. Len(s)
    BY <1>3
  <2>2. SubSeq(s, 1, k - 1) \in Texts
    BY <2>1, TagType, CutInTwo DEF Texts
  <2>3. <<>> \in Texts
    BY DEF Texts
  <2> QED BY <2>2, <2>3 DEF Before
<1>5. SubSeq(s, k + n, Len(s)) \in Texts /\ Len(SubSeq(s, k + n, Len(s))) < Len(s)
  <2> DEFINE m == k + n - 1
  <2>1. m \in 0 .. Len(s) /\ m + 1 = k + n /\ Len(s) - m < Len(s)
    BY <1>3, TagType
  <2> HIDE DEF m
  <2>2. SubSeq(s, m + 1, Len(s)) \in Texts /\ Len(SubSeq(s, m + 1, Len(s))) = Len(s) - m
    BY <2>1, TagType, CutInTwo DEF Texts
  <2> QED BY <2>1, <2>2
<1>6. Behind(f, k) \in Filters /\ Len(Behind(f, k).pending) < Len(s)
  BY <1>5, TagType DEF Behind, Filters
<1> QED BY <1>2, <1>3, <1>4, <1>6 DEF k

LEMMA NoTagType ==
  ASSUME NEW f \in Filters
  PROVE  NoTag(f) \in Outcomes
<1> DEFINE n == Kept(f.pending, Tag(f))
<1>1. Pending(f.pending, Tag(f)) \in Texts /\ n \in 0 .. Len(f.pending)
  BY TagType, KeptIs DEF Texts
<1> HIDE DEF n
<1>2. Before(f, Len(f.pending) - n) \in Texts
  <2>1. Len(f.pending) - n \in 0 .. Len(f.pending)
    BY <1>1, TagType
  <2>2. SubSeq(f.pending, 1, Len(f.pending) - n) \in Texts
    BY <2>1, TagType, CutInTwo DEF Texts
  <2>3. <<>> \in Texts
    BY DEF Texts
  <2> QED BY <2>2, <2>3 DEF Before
<1> QED BY <1>1, <1>2, TagType DEF NoTag, Outcomes, n

\* Filtered is the function its equation says, with outcomes as values.
LEMMA FilteredDef ==
  /\ Filtered \in [Filters -> Outcomes]
  /\ \A f \in Filters :
       Filtered[f] = IF Tags(f) = {} THEN NoTag(f)
                     ELSE TagAt(f, Min(Tags(f)), Filtered[Behind(f, Min(Tags(f)))])
<1> DEFINE size == [f \in Filters |-> Len(f.pending)]
           stop == {f \in Filters : Tags(f) = {}}
           base == [f \in Filters |-> NoTag(f)]
           next == [f \in Filters |-> IF f \in stop THEN f ELSE Behind(f, Min(Tags(f)))]
           comb == [p \in Filters \X Outcomes |->
                      IF p[1] \in stop THEN p[2] ELSE TagAt(p[1], Min(Tags(p[1])), p[2])]
<1>1. size \in [Filters -> Nat] /\ stop \in SUBSET Filters
  BY TagType
<1>2. base \in [Filters -> Outcomes]
  BY NoTagType
<1>3. next \in [Filters -> Filters] /\ \A f \in Filters \ stop : size[next[f]] < size[f]
  BY FirstTag
<1>4. comb \in [Filters \X Outcomes -> Outcomes]
  <2> SUFFICES ASSUME NEW f \in Filters \ stop, NEW o \in Outcomes
               PROVE TagAt(f, Min(Tags(f)), o) \in Outcomes
    OBVIOUS
  <2>1. Before(f, Min(Tags(f)) - 1) \in Texts
    BY FirstTag
  <2>2. Before(f, Min(Tags(f)) - 1) \o o.visible \in Texts
    BY <2>1 DEF Outcomes, Texts
  <2> QED BY <2>2 DEF TagAt, Outcomes
<1>5. PICK g \in [Filters -> Outcomes] : Follows(g, Filters, stop, base, next, comb)
  <2> HIDE DEF size, stop, base, next, comb
  <2> QED BY <1>1, <1>2, <1>3, <1>4, RecursionExists
<1>6. \A f \in Filters : g[f] = IF Tags(f) = {} THEN NoTag(f)
                                ELSE TagAt(f, Min(Tags(f)), g[Behind(f, Min(Tags(f)))])
  <2> SUFFICES ASSUME NEW f \in Filters
               PROVE g[f] = IF Tags(f) = {} THEN NoTag(f)
                            ELSE TagAt(f, Min(Tags(f)), g[Behind(f, Min(Tags(f)))])
    OBVIOUS
  <2>1. g[f] = IF f \in stop THEN base[f] ELSE comb[<<f, g[next[f]]>>]
    BY <1>5 DEF Follows
  <2>2. f \notin stop => next[f] = Behind(f, Min(Tags(f))) /\ next[f] \in Filters
    BY <1>3
  <2> QED BY <2>1, <2>2, <1>5
<1> DEFINE body(h) == [f \in Filters |-> IF Tags(f) = {} THEN NoTag(f)
                                         ELSE TagAt(f, Min(Tags(f)), h[Behind(f, Min(Tags(f)))])]
<1>7. g = body(g)
  BY <1>6
<1>8. Filtered = CHOOSE h : h = body(h)
  BY DEF Filtered, Tags, NoTag, TagAt, Behind, Before, Tag, Kept
<1>9. Filtered = body(Filtered)
  <2> HIDE DEF body
  <2> QED BY <1>7, <1>8
<1>10. \A f \in Filters :
         Filtered[f] = IF Tags(f) = {} THEN NoTag(f)
                       ELSE TagAt(f, Min(Tags(f)), Filtered[Behind(f, Min(Tags(f)))])
  BY <1>9
<1> DEFINE T == {n \in Nat : \A f \in Filters : Len(f.pending) = n => Filtered[f] \in Outcomes}
<1>11. ASSUME NEW n \in Nat, \A m \in 0 .. n - 1 : m \in T PROVE n \in T
  <2> SUFFICES ASSUME NEW f \in Filters, Len(f.pending) = n PROVE Filtered[f] \in Outcomes
    OBVIOUS
  <2>1. CASE Tags(f) = {}
    BY <2>1, <1>10, NoTagType
  <2>2. CASE Tags(f) # {}
    <3> DEFINE h == Behind(f, Min(Tags(f)))
    <3>1. h \in Filters /\ Len(h.pending) < n /\ Len(h.pending) \in Nat
      BY <2>2, FirstTag, TagType
    <3>2. Filtered[h] \in Outcomes
      <4> HIDE DEF h
      <4>1. Len(h.pending) \in T
        BY <1>11, <3>1
      <4> QED BY <4>1, <3>1
    <3>3. comb[<<f, Filtered[h]>>] \in Outcomes
      <4> HIDE DEF h, comb
      <4> QED BY <1>4, <3>2
    <3>4. TagAt(f, Min(Tags(f)), Filtered[h]) \in Outcomes
      BY <2>2, <3>2, <3>3
    <3> QED BY <2>2, <3>4, <1>10
  <2> QED BY <2>1, <2>2
<1>12. Filtered \in [Filters -> Outcomes]
  <2>1. Nat \subseteq T
    <3> HIDE DEF T
    <3> QED BY <1>11, Induction
  <2>2. \A f \in Filters : Filtered[f] \in Outcomes
    BY <2>1, TagType
  <2> QED BY <1>9, <2>2
<1> QED BY <1>10, <1>12

-----------------------------------------------------------------------------
(* A text cut in two: what is behind the cut is filtered with what was held *)
(* back before it.                                                          *)

\* A text but for what is held back of it.
Sure(s, tag) == SubSeq(s, 1, Len(s) - Kept(s, tag))

\* What is held back of s decides with t where the tags of both are.
Decides(s, t, tag) ==
  /\ Len(Sure(s, tag)) = Len(s) - Kept(s, tag)
  /\ s \o t = Sure(s, tag) \o (Pending(s, tag) \o t)
  /\ \A k \in Found(s \o t, tag) : k > Len(Sure(s, tag))
  /\ Pending(s \o t, tag) = Pending(Pending(s, tag) \o t, tag)

\* In a text without a tag, no tag begins ahead of what is held back.
LEMMA HeldBack ==
  ASSUME NEW S, NEW s \in Seq(S), NEW t \in Seq(S), NEW tag \in Seq(S) \ {<<>>},
         Found(s, tag) = {}
  PROVE  /\ {Pending(s, tag), Sure(s, tag), Pending(s, tag) \o t} \subseteq Seq(S)
         /\ Decides(s, t, tag)
<1> DEFINE n == Kept(s, tag)
           p == Pending(s, tag)
           k0 == Len(s) - n
           c == SubSeq(s, 1, k0)
           u == p \o t
           w == s \o t
<1>1. /\ p \in Seq(S) /\ n \in 0 .. Len(s) /\ Len(p) = n
      /\ p = SubSeq(s, k0 + 1, Len(s))
      /\ \A k \in Begins(s, tag) : k <= n
  BY KeptIs DEF Kept
<1> HIDE DEF n, p
<1>2. k0 \in 0 .. Len(s) /\ Len(s) \in Nat /\ Len(t) \in Nat /\ Len(tag) \in Nat \ {0}
  BY <1>1
<1>3. c \in Seq(S) /\ Len(c) = k0 /\ s = c \o p
  <2> HIDE DEF k0
  <2> QED BY <1>1, <1>2, CutInTwo
<1> HIDE DEF c
<1>4. u \in Seq(S) /\ Len(u) = n + Len(t)
  BY <1>1, ConcatProperties
<1>5. w = c \o u
  <2>1. (c \o p) \o t = c \o (p \o t)
    <3>1. p \in Seq(S) /\ c \in Seq(S)
      BY <1>1, <1>3
    <3> QED BY <3>1, ConcatAssociative
  <2>2. (c \o p) \o t = s \o t
    BY <1>3, Zenon
  <2> QED BY <2>1, <2>2
<1>6. w \in Seq(S) /\ Len(w) = Len(s) + Len(t)
      /\ \A j \in 1 .. Len(s) : w[j] = s[j]
  BY <1>2, ConcatProperties
<1>7. Len(w) = k0 + Len(u) /\ \A j \in 1 .. Len(u) : w[k0 + j] = u[j]
  <2> HIDE DEF u, w, k0
  <2>1. /\ c \o u \in Seq(S) /\ Len(c \o u) = Len(c) + Len(u)
        /\ \A j \in 1 .. Len(c) + Len(u) :
             (c \o u)[j] = IF j <= Len(c) THEN c[j] ELSE u[j - Len(c)]
    BY <1>3, <1>4, ConcatProperties
  <2> QED BY <1>2, <1>3, <1>4, <1>5, <2>1
<1>8. ASSUME NEW k \in Found(w, tag) PROVE k > Len(c)
  <2> SUFFICES ASSUME k <= k0 PROVE FALSE
    <3> HIDE DEF w, k0
    <3>1. k \in 1 .. Len(w)
      BY <1>6, FoundWithin DEF IsAt
    <3> QED BY <3>1, <1>2, <1>3, <1>6
  <2> HIDE DEF w
  <2>1. k \in 1 .. Len(w) /\ \A j \in 1 .. Len(tag) : w[k + j - 1] = tag[j]
    BY <1>6, FoundWithin DEF IsAt
  <2>2. k \in 1 .. Len(s)
    BY <1>2, <2>1
  <2>3. k + Len(tag) > Len(s) + 1
    <3> SUFFICES ASSUME k + Len(tag) <= Len(s) + 1 PROVE FALSE
      BY <1>2, <2>2
    <3>1. k \in Found(s, tag)
      BY <2>2, FoundFirst DEF w
    <3> QED BY <3>1
  <2> DEFINE m == Len(s) - k + 1
  <2>4. m \in 1 .. Len(tag) - 1 /\ m <= Len(s) /\ m > n
    BY <1>1, <1>2, <2>2, <2>3
  <2>5. \A j \in 1 .. m : tag[j] = s[Len(s) - m + j]
    <3> SUFFICES ASSUME NEW j \in 1 .. m PROVE tag[j] = s[Len(s) - m + j]
      OBVIOUS
    <3>1. j \in 1 .. Len(tag) /\ k + j - 1 \in 1 .. Len(s) /\ Len(s) - m + j = k + j - 1
      BY <2>2, <2>4
    <3> HIDE DEF m
    <3> QED BY <1>6, <2>1, <3>1
  <2>6. m \in Begins(s, tag)
    <3> HIDE DEF m
    <3> QED BY <2>4, <2>5 DEF Begins
  <2> QED BY <1>1, <2>4, <2>6
<1>9. Begins(w, tag) = Begins(u, tag)
  <2> HIDE DEF u, w
  <2>1. ASSUME NEW k \in 1 .. Len(tag) - 1, k <= Len(u)
        PROVE k \in Begins(w, tag) <=> k \in Begins(u, tag)
    <3>1. k <= Len(w)
      BY <1>2, <1>4, <1>7, <2>1
    <3>2. \A j \in 1 .. k : w[Len(w) - k + j] = u[Len(u) - k + j]
      <4> SUFFICES ASSUME NEW j \in 1 .. k PROVE w[Len(w) - k + j] = u[Len(u) - k + j]
        OBVIOUS
      <4> DEFINE i == Len(u) - k + j
      <4>1. i \in 1 .. Len(u) /\ Len(w) - k + j = k0 + i
        BY <1>1, <1>2, <1>4, <1>7, <2>1
      <4> HIDE DEF i, k0
      <4> QED BY <1>7, <4>1 DEF i
    <3> QED BY <2>1, <3>1, <3>2 DEF Begins
  <2>2. ASSUME NEW k \in Begins(w, tag) PROVE k <= Len(u)
    <3> SUFFICES ASSUME k > Len(u) PROVE FALSE
      BY <1>1, <1>2, <1>4 DEF Begins
    <3>1. k \in 1 .. Len(tag) - 1 /\ k <= Len(w) /\ \A j \in 1 .. k : tag[j] = w[Len(w) - k + j]
      BY DEF Begins
    <3> DEFINE m == k - Len(t)
    <3>2. m \in 1 .. Len(tag) - 1 /\ m <= Len(s) /\ m > n
      BY <1>1, <1>2, <1>4, <1>6, <3>1
    <3>3. \A j \in 1 .. m : tag[j] = s[Len(s) - m + j]
      <4> SUFFICES ASSUME NEW j \in 1 .. m PROVE tag[j] = s[Len(s) - m + j]
        OBVIOUS
      <4> DEFINE i == Len(s) - m + j
      <4>1. j \in 1 .. k /\ i \in 1 .. Len(s) /\ Len(w) - k + j = i
        BY <1>2, <1>6, <3>1, <3>2
      <4>2. tag[j] = w[i]
        BY <3>1, <4>1
      <4> HIDE DEF i
      <4>3. w[i] = s[i]
        BY <1>6, <4>1
      <4> QED BY <4>2, <4>3 DEF i
    <3>4. m \in Begins(s, tag)
      <4> HIDE DEF m
      <4> QED BY <3>2, <3>3 DEF Begins
    <3> QED BY <1>1, <3>2, <3>4
  <2>3. ASSUME NEW k \in Begins(u, tag) PROVE k <= Len(u)
    BY DEF Begins
  <2> QED BY <2>1, <2>2, <2>3 DEF Begins
<1>10. Pending(w, tag) = Pending(u, tag)
  <2> HIDE DEF u, w
  <2> QED BY <1>4, <1>6, <1>9, PendingIs
<1> QED BY <1>1, <1>3, <1>4, <1>5, <1>8, <1>10 DEF p, c, n, Sure, Decides

More(f, t) == [hidden |-> f.hidden, pending |-> f.pending \o t]
Left(o) == [hidden |-> o.hidden, pending |-> o.pending]
Prepend(v, o) == [o EXCEPT !.visible = v \o @]

LEMMA PrependIs ==
  ASSUME NEW v, NEW hidden, NEW pending, NEW visible
  PROVE  Prepend(v, [hidden |-> hidden, pending |-> pending, visible |-> visible])
           = [hidden |-> hidden, pending |-> pending, visible |-> v \o visible]
BY DEF Prepend

LEMMA MoreIs ==
  ASSUME NEW hidden, NEW pending, NEW t
  PROVE  More([hidden |-> hidden, pending |-> pending], t)
           = [hidden |-> hidden, pending |-> pending \o t]
BY DEF More

LEMMA TextsAssociative ==
  \A a, b, c \in Texts : (a \o b) \o c = a \o (b \o c)
BY ConcatAssociative DEF Texts

LEMMA MinIs ==
  ASSUME NEW T \in SUBSET Nat, NEW k \in T, \A m \in T : k <= m
  PROVE  Min(T) = k
<1> DEFINE m == Min(T)
<1>1. m \in T /\ \A n \in T : m <= n
  BY MinOf
<1> HIDE DEF m
<1>2. m \in Nat /\ k \in Nat /\ m <= k /\ k <= m
  BY <1>1
<1> QED BY <1>2 DEF m

LEMMA MoreType ==
  ASSUME NEW f \in Filters, NEW t \in Texts
  PROVE  /\ More(f, t) \in Filters
         /\ More(f, t).hidden = f.hidden /\ Tag(More(f, t)) = Tag(f)
         /\ More(f, t).pending = f.pending \o t
<1>1. f.pending \o t \in Texts
  BY TagType DEF Texts
<1> QED BY <1>1, TagType DEF More, Tag, Filters

\* A first tag stays the first one when more text comes.
LEMMA CutBehindTag ==
  ASSUME NEW f \in Filters, NEW t \in Texts, Tags(f) # {}
  PROVE  LET k == Min(Tags(f))
             g == More(f, t) IN
         /\ Tags(g) # {} /\ Min(Tags(g)) = k
         /\ Behind(g, k) = More(Behind(f, k), t)
         /\ Before(g, k - 1) = Before(f, k - 1)
<1> DEFINE k == Min(Tags(f))
           g == More(f, t)
           s == f.pending
           n == Len(Tag(f))
<1>1. /\ k \in Tags(f) /\ \A m \in Tags(f) : k <= m
      /\ k \in 1 .. Len(s) /\ k + n <= Len(s) + 1
      /\ Behind(f, k) \in Filters
  BY FirstTag
<1>2. s \in Seq(Chars) /\ t \in Seq(Chars) /\ Tag(f) \in Seq(Chars) \ {<<>>} /\ n \in Nat \ {0}
  BY TagType DEF Texts
<1>3. g \in Filters /\ g.hidden = f.hidden /\ Tag(g) = Tag(f) /\ g.pending = s \o t
  BY MoreType
<1> HIDE DEF k, g
<1>4. ASSUME NEW m \in 1 .. Len(s), m + n <= Len(s) + 1
      PROVE m \in Tags(g) <=> m \in Tags(f)
  BY <1>2, <1>3, <1>4, FoundFirst DEF Tags
<1>5. k \in Tags(g)
  BY <1>1, <1>4
<1>6. ASSUME NEW m \in Tags(g) PROVE m \in Nat /\ k <= m
  <2>1. m \in Found(s \o t, Tag(f)) /\ s \o t \in Seq(Chars)
    BY <1>2, <1>3 DEF Tags
  <2>2. m \in Nat \ {0}
    <3> HIDE DEF s
    <3>1. IsAt(s \o t, Tag(f), m)
      BY <1>2, <2>1, FoundWithin
    <3> QED BY <3>1 DEF IsAt
  <2>3. CASE m + n <= Len(s) + 1
    <3>1. m \in 1 .. Len(s)
      BY <1>2, <2>2, <2>3
    <3> QED BY <1>1, <1>4, <2>2, <2>3, <3>1
  <2>4. CASE m + n > Len(s) + 1
    BY <1>1, <1>2, <2>2, <2>4
  <2> QED BY <1>2, <2>2, <2>3, <2>4
<1>7. Min(Tags(g)) = k
  BY <1>5, <1>6, MinIs
<1>8. SubSeq(g.pending, k + n, Len(g.pending)) = SubSeq(s, k + n, Len(s)) \o t
  <2> DEFINE i == k + n - 1
  <2>1. i \in 0 .. Len(s) /\ i + 1 = k + n
    BY <1>1, <1>2
  <2> HIDE DEF i
  <2> QED BY <1>2, <1>3, <2>1, CutFirst
<1>9. Behind(g, k) = More(Behind(f, k), t)
  <2>1. (~g.hidden) = (~f.hidden)
    BY <1>3
  <2>2. Behind(g, k) = [hidden |-> ~f.hidden, pending |-> SubSeq(s, k + n, Len(s)) \o t]
    BY <1>3, <1>8, <2>1 DEF Behind
  <2>3. More(Behind(f, k), t)
          = [hidden |-> ~f.hidden, pending |-> SubSeq(s, k + n, Len(s)) \o t]
    BY MoreIs DEF Behind
  <2> QED BY <2>2, <2>3
<1>10. Before(g, k - 1) = Before(f, k - 1)
  <2>1. k - 1 \in 0 .. Len(s)
    BY <1>1
  <2>2. SubSeq(g.pending, 1, k - 1) = SubSeq(s, 1, k - 1)
    BY <1>2, <1>3, <2>1, CutFirst
  <2> QED BY <1>3, <2>2 DEF Before
<1> QED BY <1>5, <1>7, <1>9, <1>10 DEF k, g

\* Without a tag, what was held back and what comes next decide.
LEMMA CutWithoutTag ==
  ASSUME NEW f \in Filters, NEW t \in Texts, Tags(f) = {}
  PROVE  LET o == NoTag(f)
             g == More(f, t)
             h == More(Left(o), t) IN
         /\ Left(o) \in Filters
         /\ Tags(h) = {} => Tags(g) = {} /\ NoTag(g) = Prepend(o.visible, NoTag(h))
         /\ Tags(h) # {} => /\ Tags(g) # {}
                            /\ Behind(g, Min(Tags(g))) = Behind(h, Min(Tags(h)))
                            /\ Before(g, Min(Tags(g)) - 1)
                                 = o.visible \o Before(h, Min(Tags(h)) - 1)
<1> DEFINE o == NoTag(f)
           g == More(f, t)
           h == More(Left(o), t)
           s == f.pending
           tag == Tag(f)
           n == Kept(s, tag)
           p == Pending(s, tag)
           c == Sure(s, tag)
           u == p \o t
           w == s \o t
<1>1. s \in Seq(Chars) /\ t \in Seq(Chars) /\ tag \in Seq(Chars) \ {<<>>}
  BY TagType DEF Texts
<1>2. Found(s, tag) = {}
  BY DEF Tags
<1>3. /\ p \in Seq(Chars) /\ c \in Seq(Chars) /\ u \in Seq(Chars)
      /\ Len(c) = Len(s) - n /\ w = c \o u
      /\ \A k \in Found(w, tag) : k > Len(c)
      /\ Pending(w, tag) = Pending(u, tag)
  <2> HIDE DEF s, tag
  <2>1. tag \in Seq(Chars) \ {<<>>} /\ s \in Seq(Chars) /\ t \in Seq(Chars)
    BY <1>1
  <2>2. {Pending(s, tag), Sure(s, tag), Pending(s, tag) \o t} \subseteq Seq(Chars)
    BY <1>2, <2>1, HeldBack, Zenon
  <2>3. Decides(s, t, tag)
    BY <1>2, <2>1, HeldBack, Zenon
  <2> QED BY <2>2, <2>3 DEF Decides
<1>4. o \in Outcomes /\ o.hidden = f.hidden /\ o.pending = p
      /\ o.visible = IF f.hidden THEN <<>> ELSE c
  BY NoTagType DEF NoTag, Before, Sure
<1>5. Left(o) \in Filters
  BY <1>4 DEF Left, Outcomes, Filters
<1>6. g \in Filters /\ g.hidden = f.hidden /\ Tag(g) = tag /\ g.pending = w
  BY MoreType
<1>7. h \in Filters /\ h.hidden = f.hidden /\ Tag(h) = tag /\ h.pending = u
  <2>1. Left(o).hidden = f.hidden /\ Left(o).pending = p /\ Tag(Left(o)) = tag
    BY <1>4 DEF Left, Tag
  <2> HIDE DEF o, p, tag
  <2> QED BY <1>5, <2>1, MoreType
<1> HIDE DEF c, p, n, u, w, o, g, h, tag
<1>8. w \in Seq(Chars) /\ Len(w) = Len(c) + Len(u) /\ Len(c) \in Nat /\ Len(u) \in Nat
      /\ Len(tag) \in Nat \ {0}
  <2>1. c \o u \in Seq(Chars) /\ Len(c \o u) = Len(c) + Len(u)
    BY <1>3, ConcatProperties
  <2> QED BY <1>1, <1>3, <2>1
<1>9. Tags(g) = Found(w, tag) /\ Tags(h) = Found(u, tag)
  BY <1>6, <1>7 DEF Tags
<1>10. \A k \in Nat \ {0} : Len(c) + k \in Tags(g) <=> k \in Tags(h)
  <2>1. \A k \in Nat \ {0} : Len(c) + k \in Found(c \o u, tag) <=> k \in Found(u, tag)
    BY <1>1, <1>3, FoundSecond
  <2> QED BY <1>3, <1>9, <2>1
<1>11. \A k \in Tags(h) : k \in 1 .. Len(u) /\ k + Len(tag) <= Len(u) + 1
  BY <1>1, <1>3, <1>9, FoundWithin DEF IsAt
<1>12. \A m \in Tags(g) : m \in Nat /\ m > Len(c) /\ m - Len(c) \in Tags(h)
  <2> SUFFICES ASSUME NEW m \in Tags(g) PROVE m \in Nat /\ m > Len(c) /\ m - Len(c) \in Tags(h)
    OBVIOUS
  <2>1. m \in 1 .. Len(w)
    BY <1>1, <1>8, <1>9, FoundWithin DEF IsAt
  <2>2. m > Len(c)
    BY <1>3, <1>9
  <2>3. m - Len(c) \in Nat \ {0} /\ Len(c) + (m - Len(c)) = m
    BY <1>8, <2>1, <2>2
  <2> QED BY <1>10, <2>1, <2>2, <2>3
<1>13. ASSUME NEW k \in 0 .. Len(u)
       PROVE Before(g, Len(c) + k) = o.visible \o Before(h, k)
  <2>1. SubSeq(c \o u, 1, Len(c) + k) = c \o SubSeq(u, 1, k)
    BY <1>3, CutSecond
  <2>2. <<>> \o <<>> = <<>>
    OBVIOUS
  <2> QED BY <1>3, <1>4, <1>6, <1>7, <2>1, <2>2 DEF Before
<1>14. ASSUME Tags(h) = {} PROVE Tags(g) = {} /\ NoTag(g) = Prepend(o.visible, NoTag(h))
  <2>1. Tags(g) = {}
    BY <1>12, <1>14
  <2> DEFINE i == Kept(w, tag)
             k == Len(u) - i
  <2>2. i = Kept(u, tag) /\ i \in 0 .. Len(u)
    BY <1>1, <1>3, KeptIs DEF Kept
  <2> HIDE DEF i
  <2>3. k \in 0 .. Len(u) /\ Len(w) - i = Len(c) + k
    BY <1>8, <2>2
  <2> HIDE DEF k
  <2>4. Before(g, Len(w) - i) = o.visible \o Before(h, Len(u) - i)
    BY <1>13, <2>3 DEF k
  <2>5. NoTag(g) = [hidden |-> f.hidden, pending |-> Pending(w, tag),
                    visible |-> Before(g, Len(w) - i)]
    BY <1>6 DEF NoTag, i
  <2>6. NoTag(h) = [hidden |-> f.hidden, pending |-> Pending(u, tag),
                    visible |-> Before(h, Len(u) - i)]
    BY <1>7, <2>2 DEF NoTag
  <2>7. Prepend(o.visible, NoTag(h)) = [hidden |-> f.hidden, pending |-> Pending(u, tag),
                                        visible |-> o.visible \o Before(h, Len(u) - i)]
    BY <2>6, PrependIs
  <2> QED BY <1>3, <2>1, <2>4, <2>5, <2>7
<1>15. ASSUME Tags(h) # {}
       PROVE  /\ Tags(g) # {}
              /\ Behind(g, Min(Tags(g))) = Behind(h, Min(Tags(h)))
              /\ Before(g, Min(Tags(g)) - 1) = o.visible \o Before(h, Min(Tags(h)) - 1)
  <2> DEFINE k == Min(Tags(h))
             m == Len(c) + k
  <2>1. k \in Tags(h) /\ \A i \in Tags(h) : k <= i
    BY <1>7, <1>15, FirstTag
  <2> HIDE DEF k
  <2>2. k \in 1 .. Len(u) /\ k + Len(tag) <= Len(u) + 1
    BY <1>11, <2>1
  <2>3. m \in Tags(g)
    BY <1>10, <2>1, <2>2
  <2>4. Tags(g) \subseteq Nat /\ \A i \in Tags(g) : m <= i
    <3>1. \A i \in Tags(g) : i \in Nat /\ k <= i - Len(c)
      BY <1>12, <2>1
    <3> QED BY <1>8, <2>2, <3>1
  <2>5. Min(Tags(g)) = m
    <3> HIDE DEF m
    <3> QED BY <2>3, <2>4, MinIs
  <2>6. SubSeq(w, m + Len(tag), Len(w)) = SubSeq(u, k + Len(tag), Len(u))
    <3> DEFINE j == k + Len(tag) - 1
    <3>1. j \in 0 .. Len(u) /\ j + 1 = k + Len(tag) /\ Len(c) + j + 1 = m + Len(tag)
      BY <1>8, <2>2
    <3> HIDE DEF j, m
    <3>2. SubSeq(c \o u, Len(c) + j + 1, Len(c \o u)) = SubSeq(u, j + 1, Len(u))
      BY <1>3, <3>1, CutSecond
    <3> QED BY <1>3, <3>1, <3>2
  <2>7. Behind(g, m) = Behind(h, k)
    BY <1>6, <1>7, <2>6 DEF Behind
  <2>8. Before(g, m - 1) = o.visible \o Before(h, k - 1)
    <3>1. k - 1 \in 0 .. Len(u) /\ Len(c) + (k - 1) = m - 1
      BY <1>8, <2>2
    <3> HIDE DEF m
    <3>2. Before(g, Len(c) + (k - 1)) = o.visible \o Before(h, k - 1)
      BY <1>13, <3>1
    <3> QED BY <3>1, <3>2
  <2> QED BY <2>3, <2>5, <2>7, <2>8 DEF k
<1> QED BY <1>5, <1>14, <1>15 DEF o, g, h

\* A text cut anywhere is filtered as in one piece.
LEMMA FilteredCut ==
  ASSUME NEW f \in Filters, NEW t \in Texts
  PROVE  /\ Left(Filtered[f]) \in Filters
         /\ Filtered[More(f, t)]
              = Prepend(Filtered[f].visible, Filtered[More(Left(Filtered[f]), t)])
<1> DEFINE Cut(e) == /\ Left(Filtered[e]) \in Filters
                     /\ Filtered[More(e, t)]
                          = Prepend(Filtered[e].visible, Filtered[More(Left(Filtered[e]), t)])
           T == {n \in Nat : \A e \in Filters : Len(e.pending) = n => Cut(e)}
<1>1. ASSUME NEW n \in Nat, \A m \in 0 .. n - 1 : m \in T PROVE n \in T
  <2> SUFFICES ASSUME NEW e \in Filters, Len(e.pending) = n PROVE Cut(e)
    OBVIOUS
  <2> DEFINE g == More(e, t)
             k == Min(Tags(e))
             b == Behind(e, k)
             o == NoTag(e)
             h == More(Left(o), t)
  <2>1. g \in Filters
    BY MoreType
  <2>2. CASE Tags(e) # {}
    <3>1. b \in Filters /\ Len(b.pending) \in 0 .. n - 1 /\ Before(e, k - 1) \in Texts
      BY <2>2, FirstTag, TagType
    <3> HIDE DEF b
    <3>2. Cut(b)
      <4> HIDE DEF Cut
      <4>1. Len(b.pending) \in T
        BY <1>1, <3>1
      <4> QED BY <3>1, <4>1
    <3>3. Filtered[e] = TagAt(e, k, Filtered[b])
      BY <2>2, FilteredDef DEF b
    <3>4. Filtered[g] = TagAt(g, k, Filtered[More(b, t)])
      BY <2>1, <2>2, FilteredDef, CutBehindTag DEF b
    <3>5. Before(g, k - 1) = Before(e, k - 1)
      BY <2>2, CutBehindTag
    <3> DEFINE v == Before(e, k - 1)
               x == Filtered[b]
               y == Filtered[More(Left(x), t)]
    <3>6. x \in Outcomes /\ Left(x) \in Filters /\ More(Left(x), t) \in Filters /\ y \in Outcomes
      BY <3>1, <3>2, FilteredDef, MoreType
    <3> HIDE DEF v, x, y, g, k
    <3>7. Left(Filtered[e]) = Left(x) /\ Filtered[e].visible = v \o x.visible
      BY <3>3, <3>6 DEF TagAt, Left, Outcomes, v, x
    <3>8. Filtered[More(b, t)] = Prepend(x.visible, y)
      BY <3>2 DEF x, y
    <3>9. Filtered[g] = Prepend(v, Prepend(x.visible, y))
      BY <3>4, <3>5, <3>8 DEF TagAt, Prepend, v
    <3>10. Prepend(v, Prepend(x.visible, y)) = Prepend(v \o x.visible, y)
      <4>1. v \o (x.visible \o y.visible) = (v \o x.visible) \o y.visible
        <5>1. v \in Texts /\ x.visible \in Texts /\ y.visible \in Texts
          BY <3>1, <3>6 DEF Outcomes, v
        <5> QED BY <5>1, TextsAssociative
      <4> QED BY <3>6, <4>1 DEF Prepend, Outcomes
    <3> QED BY <3>6, <3>7, <3>9, <3>10 DEF g, y
  <2>3. CASE Tags(e) = {}
    <3>1. Filtered[e] = o
      BY <2>3, FilteredDef
    <3>2. /\ Left(o) \in Filters
          /\ Tags(h) = {} => Tags(g) = {} /\ NoTag(g) = Prepend(o.visible, NoTag(h))
          /\ Tags(h) # {} => /\ Tags(g) # {}
                             /\ Behind(g, Min(Tags(g))) = Behind(h, Min(Tags(h)))
                             /\ Before(g, Min(Tags(g)) - 1)
                                  = o.visible \o Before(h, Min(Tags(h)) - 1)
      BY <2>3, CutWithoutTag
    <3>3. h \in Filters
      <4> HIDE DEF o
      <4> QED BY <3>2, MoreType
    <3> HIDE DEF o, g, h
    <3>4. CASE Tags(h) = {}
      <4>1. Filtered[g] = NoTag(g) /\ Filtered[h] = NoTag(h)
        BY <2>1, <3>2, <3>3, <3>4, FilteredDef
      <4> QED BY <3>1, <3>2, <3>4, <4>1 DEF g, h
    <3>5. CASE Tags(h) # {}
      <4> DEFINE i == Min(Tags(h))
                 j == Min(Tags(g))
                 x == Filtered[Behind(h, i)]
      <4>1. Filtered[h] = TagAt(h, i, x) /\ Filtered[g] = TagAt(g, j, x)
        BY <2>1, <3>2, <3>3, <3>5, FilteredDef
      <4>2. x \in Outcomes /\ Before(h, i - 1) \in Texts
        BY <3>3, <3>5, FirstTag, FilteredDef
      <4>3. o.visible \in Texts
        BY NoTagType DEF Outcomes, o
      <4> HIDE DEF i, j, x
      <4>4. Before(g, j - 1) = o.visible \o Before(h, i - 1)
        BY <3>2, <3>5 DEF i, j
      <4>5. (o.visible \o Before(h, i - 1)) \o x.visible = o.visible \o (Before(h, i - 1) \o x.visible)
        <5>1. o.visible \in Texts /\ Before(h, i - 1) \in Texts /\ x.visible \in Texts
          BY <4>2, <4>3 DEF Outcomes
        <5> QED BY <5>1, TextsAssociative
      <4>6. Filtered[g] = Prepend(o.visible, Filtered[h])
        BY <4>1, <4>2, <4>4, <4>5 DEF TagAt, Prepend, Outcomes
      <4> QED BY <3>1, <3>2, <4>6 DEF g, h
    <3> QED BY <3>4, <3>5
  <2> QED BY <2>2, <2>3
<1>2. Len(f.pending) \in T
  <2> HIDE DEF T
  <2> QED BY <1>1, Induction, TagType
<1> QED BY <1>2

-----------------------------------------------------------------------------
(* The filter over a whole text is the definition of what may be shown.     *)

Starting(s) == [hidden |-> FALSE, pending |-> s]
Whole(o) == o.visible \o (IF o.hidden THEN <<>> ELSE o.pending)

\* What is behind the first pair of tags.
Inside(s) == Behind(Starting(s), Min(Tags(Starting(s))))
Outside(s) == Behind(Inside(s), Min(Tags(Inside(s))))

LEMMA StartingType ==
  ASSUME NEW s \in Texts
  PROVE  /\ Starting(s) \in Filters /\ Starting(s).hidden = FALSE /\ Starting(s).pending = s
         /\ Tag(Starting(s)) = Open
BY DEF Starting, Filters, Tag

LEMMA InsideType ==
  ASSUME NEW s \in Texts, Tags(Starting(s)) # {}
  PROVE  /\ Inside(s) \in Filters /\ Inside(s).hidden = TRUE /\ Len(Inside(s).pending) < Len(s)
         /\ Tag(Inside(s)) = Close
<1>1. Inside(s) \in Filters /\ Len(Inside(s).pending) < Len(s)
  BY StartingType, FirstTag DEF Inside
<1>2. Inside(s).hidden = TRUE
  BY StartingType DEF Inside, Behind
<1> QED BY <1>1, <1>2 DEF Tag

LEMMA OutsideType ==
  ASSUME NEW s \in Texts, Tags(Starting(s)) # {}, Tags(Inside(s)) # {}
  PROVE  /\ Outside(s).pending \in Texts /\ Outside(s) = Starting(Outside(s).pending)
         /\ Len(Outside(s).pending) < Len(s)
<1>1. Inside(s) \in Filters /\ Inside(s).hidden = TRUE /\ Len(Inside(s).pending) < Len(s)
  BY InsideType
<1>2. Outside(s) \in Filters /\ Len(Outside(s).pending) < Len(Inside(s).pending)
  BY <1>1, FirstTag DEF Outside
<1>3. Outside(s).hidden = FALSE
  BY <1>1 DEF Outside, Behind
<1>4. Outside(s) = [hidden |-> Outside(s).hidden, pending |-> Outside(s).pending]
  BY <1>2 DEF Filters
<1>5. Outside(s).pending \in Texts
  BY <1>2, TagType
<1>6. Len(Outside(s).pending) \in Nat /\ Len(Inside(s).pending) \in Nat /\ Len(s) \in Nat
  BY <1>1, <1>2, TagType DEF Texts
<1> QED BY <1>1, <1>2, <1>3, <1>4, <1>5, <1>6 DEF Starting

StripBody(h) ==
  [s \in Texts |->
     IF Tags(Starting(s)) = {} THEN s
     ELSE SubSeq(s, 1, Min(Tags(Starting(s))) - 1) \o
            IF Tags(Inside(s)) = {} THEN <<>> ELSE h[Outside(s).pending]]

LEMMA WholeStrips ==
  LET g == [s \in Texts |-> Whole(Filtered[Starting(s)])] IN g = StripBody(g)
<1> DEFINE g == [s \in Texts |-> Whole(Filtered[Starting(s)])]
<1> SUFFICES ASSUME NEW s \in Texts PROVE g[s] = StripBody(g)[s]
  BY DEF StripBody
<1> DEFINE f == Starting(s)
           k == Min(Tags(f))
           i == Inside(s)
           v == SubSeq(s, 1, k - 1)
<1>1. g[s] = Whole(Filtered[f])
  OBVIOUS
<1>2. f \in Filters /\ f.hidden = FALSE /\ f.pending = s /\ Tag(f) = Open
  BY StartingType
<1> HIDE DEF f
<1>3. CASE Tags(f) = {}
  <2> DEFINE n == Kept(s, Open)
             m == Len(s) - n
  <2>1. Filtered[f] = NoTag(f)
    BY <1>2, <1>3, FilteredDef
  <2>2. Pending(s, Open) = SubSeq(s, m + 1, Len(s)) /\ m \in 0 .. Len(s)
    BY <1>2, TagType, KeptIs DEF Texts
  <2> HIDE DEF m
  <2>3. SubSeq(s, 1, m) \o SubSeq(s, m + 1, Len(s)) = s
    BY <2>2, CutInTwo DEF Texts
  <2>4. Whole(NoTag(f)) = SubSeq(s, 1, m) \o Pending(s, Open)
    BY <1>2 DEF Whole, NoTag, Before, m
  <2> QED BY <1>1, <1>3, <2>1, <2>2, <2>3, <2>4 DEF StripBody, f
<1>4. CASE Tags(f) # {}
  <2>1. i \in Filters /\ i.hidden = TRUE /\ i = Behind(f, k)
    BY <1>4, InsideType DEF f, Inside
  <2>2. Before(f, k - 1) = v
    BY <1>2 DEF Before
  <2>3. Filtered[f] = TagAt(f, k, Filtered[i])
    BY <1>2, <1>4, <2>1, FilteredDef
  <2>4. v \in Texts
    BY <1>2, <1>4, <2>2, FirstTag
  <2> DEFINE x == Filtered[i]
  <2>5. x \in Outcomes
    BY <2>1, FilteredDef
  <2> HIDE DEF i, k, v, x, g
  <2>6. Filtered[f] = [x EXCEPT !.visible = v \o @]
    BY <2>2, <2>3 DEF TagAt, x
  <2>7. /\ Filtered[f].visible = v \o x.visible
        /\ Filtered[f].hidden = x.hidden /\ Filtered[f].pending = x.pending
    BY <2>5, <2>6 DEF Outcomes
  <2>8. CASE Tags(i) = {}
    <3>1. x = NoTag(i)
      BY <2>1, <2>8, FilteredDef DEF x
    <3>2. x.visible = <<>> /\ x.hidden = TRUE
      BY <2>1, <3>1 DEF NoTag, Before
    <3>3. v \o <<>> = v
      BY <2>4, ConcatEmptySeq DEF Texts
    <3>4. g[s] = v \o <<>>
      BY <1>1, <2>7, <3>2, <3>3 DEF Whole
    <3>5. StripBody(g)[s] = v \o <<>>
      BY <1>4, <2>8 DEF StripBody, f, i, v, k
    <3> QED BY <3>4, <3>5
  <2>9. CASE Tags(i) # {}
    <3> DEFINE e == Outside(s)
               y == Filtered[e]
               rest == IF y.hidden THEN <<>> ELSE y.pending
    <3>1. e.pending \in Texts /\ e = Starting(e.pending) /\ e \in Filters
      BY <1>4, <2>9, OutsideType, StartingType DEF f, i
    <3> HIDE DEF e
    <3>2. x = TagAt(i, Min(Tags(i)), y)
      BY <2>1, <2>9, FilteredDef DEF x, e, i, Outside
    <3>3. y \in Outcomes
      BY <3>1, FilteredDef
    <3> HIDE DEF y
    <3>4. x = [y EXCEPT !.visible = <<>> \o @]
      BY <2>1, <3>2 DEF TagAt, Before
    <3>5. x.visible = y.visible /\ x.hidden = y.hidden /\ x.pending = y.pending
      BY <3>3, <3>4, ConcatEmptySeq DEF Outcomes, Texts
    <3>6. Whole(Filtered[f]) = (v \o y.visible) \o rest
      BY <2>7, <3>5 DEF Whole
    <3>7. (v \o y.visible) \o rest = v \o (y.visible \o rest)
      <4>1. rest \in Texts /\ y.visible \in Texts
        BY <3>3 DEF Outcomes, Texts
      <4> QED BY <2>4, <4>1, TextsAssociative
    <3>8. g[e.pending] = y.visible \o rest
      BY <3>1 DEF g, Whole, y
    <3>9. StripBody(g)[s] = v \o g[e.pending]
      BY <1>4, <2>9 DEF StripBody, f, i, v, k, e
    <3> QED BY <1>1, <3>6, <3>7, <3>8, <3>9
  <2> QED BY <2>8, <2>9
<1> QED BY <1>3, <1>4

\* A text in one piece: what the filter shows of it and what it holds back.
LEMMA StripIsWhole ==
  ASSUME NEW s \in Texts
  PROVE  Strip[s] = Whole(Filtered[Starting(s)])
<1> DEFINE g == [u \in Texts |-> Whole(Filtered[Starting(u)])]
<1>1. g = StripBody(g)
  BY WholeStrips
<1>2. ASSUME NEW u \in Texts
      PROVE  /\ Tags(Starting(u)) = Found(u, Open)
             /\ Inside(u).pending
                  = SubSeq(u, Min(Found(u, Open)) + Len(Open), Len(u))
  BY StartingType DEF Tags, Inside, Behind
<1>3. ASSUME NEW u \in Texts, Tags(Starting(u)) # {}
      PROVE  /\ Tags(Inside(u)) = Found(Inside(u).pending, Close)
             /\ Outside(u).pending = SubSeq(Inside(u).pending,
                  Min(Found(Inside(u).pending, Close)) + Len(Close), Len(Inside(u).pending))
  BY <1>3, InsideType DEF Tags, Outside, Behind
<1> DEFINE body(h) == [u \in Texts |->
             IF Found(u, Open) = {} THEN u
             ELSE LET k == Min(Found(u, Open))
                      inside == SubSeq(u, k + Len(Open), Len(u)) IN
                  SubSeq(u, 1, k - 1) \o
                    IF Found(inside, Close) = {} THEN <<>>
                    ELSE h[SubSeq(inside, Min(Found(inside, Close)) + Len(Close), Len(inside))]]
<1>4. ASSUME NEW h PROVE body(h) = StripBody(h)
  <2> SUFFICES ASSUME NEW u \in Texts PROVE body(h)[u] = StripBody(h)[u]
    BY DEF StripBody
  <2> QED BY <1>2, <1>3 DEF StripBody
<1>5. Strip = CHOOSE h : h = body(h)
  BY DEF Strip
<1>6. Strip = StripBody(Strip)
  <2> HIDE DEF body, g
  <2> QED BY <1>1, <1>4, <1>5
<1> DEFINE T == {n \in Nat : \A u \in Texts : Len(u) = n => Strip[u] = g[u]}
<1>7. ASSUME NEW n \in Nat, \A m \in 0 .. n - 1 : m \in T PROVE n \in T
  <2> HIDE DEF g
  <2> SUFFICES ASSUME NEW u \in Texts, Len(u) = n PROVE Strip[u] = g[u]
    OBVIOUS
  <2>1. ASSUME Tags(Starting(u)) # {}, Tags(Inside(u)) # {}
        PROVE Strip[Outside(u).pending] = g[Outside(u).pending]
    <3> DEFINE q == Outside(u).pending
    <3>1. q \in Texts /\ Len(q) \in 0 .. n - 1
      BY <2>1, OutsideType DEF Texts
    <3> HIDE DEF q
    <3>2. Len(q) \in T
      BY <1>7, <3>1
    <3> QED BY <3>1, <3>2 DEF q
  <2>2. StripBody(Strip)[u] = StripBody(g)[u]
    BY <2>1 DEF StripBody
  <2> QED BY <1>1, <1>6, <2>2
<1>8. Len(s) \in T
  <2> HIDE DEF T
  <2> QED BY <1>7, Induction DEF Texts
<1> QED BY <1>8

-----------------------------------------------------------------------------
(* Texts one after the other.                                               *)

Flattens(f, ts) ==
  f = [k \in 1 .. Len(ts) |-> IF k = 1 THEN ts[k] ELSE f[k - 1] \o ts[k]]

LEMMA FlattenExists ==
  ASSUME NEW ts \in Seq(Texts), ts # <<>>
  PROVE  \E f : /\ Flattens(f, ts) /\ FlattenSeq(ts) = f[Len(ts)]
                /\ f \in [1 .. Len(ts) -> Texts]
<1> DEFINE D == 1 .. Len(ts)
           size == [k \in D |-> k]
           stop == {1}
           base == [k \in D |-> ts[k]]
           next == [k \in D |-> IF k = 1 THEN 1 ELSE k - 1]
           comb == [p \in D \X Texts |-> p[2] \o ts[p[1]]]
<1>1. Len(ts) \in Nat \ {0} /\ \A k \in D : ts[k] \in Texts
  BY EmptySeq
<1>2. size \in [D -> Nat] /\ stop \in SUBSET D /\ base \in [D -> Texts] /\ next \in [D -> D]
      /\ \A k \in D \ stop : size[next[k]] < size[k]
  BY <1>1
<1>3. comb \in [D \X Texts -> Texts]
  <2> SUFFICES ASSUME NEW k \in D, NEW t \in Texts PROVE t \o ts[k] \in Texts
    OBVIOUS
  <2> QED BY <1>1 DEF Texts
<1>4. PICK g \in [D -> Texts] : Follows(g, D, stop, base, next, comb)
  <2> HIDE DEF D, size, stop, base, next, comb
  <2> QED BY <1>2, <1>3, RecursionExists
<1>5. Flattens(g, ts)
  <2> SUFFICES ASSUME NEW k \in D PROVE g[k] = IF k = 1 THEN ts[k] ELSE g[k - 1] \o ts[k]
    BY DEF Flattens
  <2>1. g[k] = IF k = 1 THEN ts[k] ELSE comb[<<k, g[next[k]]>>]
    BY <1>4 DEF Follows
  <2>2. k # 1 => next[k] = k - 1 /\ k - 1 \in D
    BY <1>1
  <2> QED BY <2>1, <2>2
<1> DEFINE f == CHOOSE h : Flattens(h, ts)
<1>6. Flattens(f, ts)
  BY <1>5
<1>7. FlattenSeq(ts) = f[Len(ts)]
  BY <1>1 DEF FlattenSeq, Flattens
<1> HIDE DEF f
<1> DEFINE T == {n \in Nat : n \in D => f[n] \in Texts}
<1>8. ASSUME NEW n \in Nat, \A m \in 0 .. n - 1 : m \in T PROVE n \in T
  <2> SUFFICES ASSUME n \in D PROVE f[n] \in Texts
    OBVIOUS
  <2>1. f[n] = IF n = 1 THEN ts[n] ELSE f[n - 1] \o ts[n]
    BY <1>6 DEF Flattens
  <2>2. n # 1 => f[n - 1] \in Texts
    BY <1>8
  <2> QED BY <1>1, <2>1, <2>2 DEF Texts
<1>9. \A n \in D : f[n] \in Texts
  <2>1. Nat \subseteq T
    <3> HIDE DEF T
    <3> QED BY <1>8, Induction
  <2> QED BY <2>1
<1>10. f \in [D -> Texts]
  BY <1>6, <1>9 DEF Flattens
<1> QED BY <1>6, <1>7, <1>10

LEMMA FlattensAt ==
  ASSUME NEW ts \in Seq(Texts), NEW f, Flattens(f, ts), NEW k \in 1 .. Len(ts)
  PROVE  f[k] = IF k = 1 THEN ts[k] ELSE f[k - 1] \o ts[k]
BY Zenon DEF Flattens

LEMMA FlattenAgrees ==
  ASSUME NEW ts \in Seq(Texts), NEW us \in Seq(Texts), NEW f, NEW g,
         Flattens(f, ts), Flattens(g, us),
         Len(ts) <= Len(us), \A k \in 1 .. Len(ts) : ts[k] = us[k]
  PROVE  \A k \in 1 .. Len(ts) : f[k] = g[k]
<1> DEFINE n == Len(ts)
<1> DEFINE T == {k \in Nat : k \in 1 .. n => f[k] = g[k]}
<1>1. ASSUME NEW k \in Nat, \A m \in 0 .. k - 1 : m \in T PROVE k \in T
  <2> SUFFICES ASSUME k \in 1 .. n PROVE f[k] = g[k]
    OBVIOUS
  <2>0. k \in 1 .. Len(ts) /\ k \in 1 .. Len(us)
    OBVIOUS
  <2>1. f[k] = IF k = 1 THEN ts[k] ELSE f[k - 1] \o ts[k]
    BY <2>0, FlattensAt
  <2>2. g[k] = IF k = 1 THEN us[k] ELSE g[k - 1] \o us[k]
    BY <2>0, FlattensAt
  <2>3. k # 1 => f[k - 1] = g[k - 1]
    BY <1>1
  <2> QED BY <2>1, <2>2, <2>3
<1>2. Nat \subseteq T
  <2> HIDE DEF T
  <2> QED BY <1>1, Induction
<1> QED BY <1>2

LEMMA FlattenAppend ==
  ASSUME NEW ts \in Seq(Texts), NEW t \in Texts
  PROVE  /\ FlattenSeq(ts) \in Texts
         /\ FlattenSeq(Append(ts, t)) = FlattenSeq(ts) \o t
<1> DEFINE us == Append(ts, t)
           n == Len(ts)
<1>1. us \in Seq(Texts) /\ us # <<>> /\ Len(us) = n + 1 /\ us[n + 1] = t
      /\ n \in Nat /\ \A k \in 1 .. n : us[k] = ts[k]
  BY AppendProperties
<1> HIDE DEF us
<1>2. PICK g : Flattens(g, us) /\ FlattenSeq(us) = g[n + 1]
  BY <1>1, FlattenExists
<1>3. CASE ts = <<>>
  <2>1. FlattenSeq(ts) = <<>> /\ n = 0
    BY <1>3 DEF FlattenSeq
  <2>2. g[1] = us[1]
    BY <1>1, <1>2 DEF Flattens
  <2>3. <<>> \o t = t
    BY ConcatEmptySeq DEF Texts
  <2>4. <<>> \in Texts
    BY DEF Texts
  <2> QED BY <1>1, <1>2, <2>1, <2>2, <2>3, <2>4 DEF us
<1>4. CASE ts # <<>>
  <2>1. n # 0
    BY <1>4, EmptySeq
  <2>2. PICK f : /\ Flattens(f, ts) /\ FlattenSeq(ts) = f[n]
                 /\ f \in [1 .. n -> Texts]
    BY <1>4, FlattenExists
  <2>3. \A k \in 1 .. n : f[k] = g[k]
    <3>1. Len(ts) <= Len(us) /\ \A k \in 1 .. Len(ts) : ts[k] = us[k]
      BY <1>1
    <3>2. Flattens(g, us) /\ Flattens(f, ts) /\ us \in Seq(Texts)
      BY <1>1, <1>2, <2>2
    <3> QED BY <3>1, <3>2, FlattenAgrees
  <2>4. f[n] = g[n] /\ f[n] \in Texts
    BY <1>1, <2>1, <2>2, <2>3
  <2>5. g[n + 1] = g[n] \o us[n + 1]
    <3>1. n + 1 \in 1 .. Len(us) /\ n + 1 # 1 /\ (n + 1) - 1 = n
      BY <1>1, <2>1
    <3> QED BY <1>2, <3>1 DEF Flattens
  <2> QED BY <1>1, <1>2, <2>2, <2>4, <2>5 DEF us
<1> QED BY <1>3, <1>4

LEMMA FlattenEmpty == FlattenSeq(<<>>) = <<>>
BY DEF FlattenSeq

\* The text of two runs of texts.
LEMMA FlattenConcat ==
  ASSUME NEW ts \in Seq(Texts), NEW us \in Seq(Texts)
  PROVE  FlattenSeq(ts \o us) = FlattenSeq(ts) \o FlattenSeq(us)
<1> DEFINE Goal(xs) == FlattenSeq(ts \o xs) = FlattenSeq(ts) \o FlattenSeq(xs)
           T == {n \in Nat : \A xs \in Seq(Texts) : Len(xs) = n => Goal(xs)}
<1>0. FlattenSeq(ts) \in Texts
  BY FlattenAppend DEF Texts
<1>1. ASSUME NEW n \in Nat, \A m \in 0 .. n - 1 : m \in T PROVE n \in T
  <2> SUFFICES ASSUME NEW xs \in Seq(Texts), Len(xs) = n PROVE Goal(xs)
    OBVIOUS
  <2>1. CASE xs = <<>>
    <3>1. ts \o <<>> = ts
      BY ConcatEmptySeq
    <3>2. FlattenSeq(ts) \o <<>> = FlattenSeq(ts)
      BY <1>0, ConcatEmptySeq DEF Texts
    <3> QED BY <2>1, <3>1, <3>2, FlattenEmpty
  <2>2. CASE xs # <<>>
    <3>1. PICK ys \in Seq(Texts), t \in Texts : xs = Append(ys, t)
      BY <2>2, SequenceEmptyOrAppend
    <3>2. Len(ys) \in 0 .. n - 1
      BY <3>1
    <3>3. Goal(ys)
      <4> HIDE DEF Goal
      <4>1. Len(ys) \in T
        BY <1>1, <3>2
      <4> QED BY <4>1
    <3>4. ts \o Append(ys, t) = Append(ts \o ys, t)
      <4>1. Append(ys, t) = ys \o <<t>> /\ <<t>> \in Seq(Texts)
        BY AppendIsConcat
      <4>2. ts \o ys \in Seq(Texts)
        BY ConcatProperties
      <4>3. Append(ts \o ys, t) = (ts \o ys) \o <<t>>
        BY <4>2, AppendIsConcat
      <4>4. (ts \o ys) \o <<t>> = ts \o (ys \o <<t>>)
        BY <4>1, ConcatAssociative
      <4> QED BY <4>1, <4>3, <4>4
    <3>5. FlattenSeq(Append(ts \o ys, t)) = FlattenSeq(ts \o ys) \o t
      <4>1. ts \o ys \in Seq(Texts)
        BY ConcatProperties
      <4> QED BY <4>1, FlattenAppend
    <3>6. FlattenSeq(Append(ys, t)) = FlattenSeq(ys) \o t /\ FlattenSeq(ys) \in Texts
      BY FlattenAppend
    <3>7. (FlattenSeq(ts) \o FlattenSeq(ys)) \o t = FlattenSeq(ts) \o (FlattenSeq(ys) \o t)
      BY <1>0, <3>6, TextsAssociative
    <3> QED BY <3>1, <3>3, <3>4, <3>5, <3>6, <3>7
  <2> QED BY <2>1, <2>2
<1>2. Nat \subseteq T
  <2> HIDE DEF T
  <2> QED BY <1>1, Induction
<1> QED BY <1>2

Marks == Deltas \cup {NoDelta}
TextsFor(i, ds) == [k \in DOMAIN ds |-> IF ds[k].item = i THEN ds[k].text ELSE <<>>]

LEMMA MarkType ==
  ASSUME NEW d \in Marks
  PROVE  d.text \in Texts
<1>1. <<>> \in Texts
  BY DEF Texts
<1>2. CASE d \in Deltas
  BY <1>2 DEF Deltas
<1>3. CASE d = NoDelta
  <2>1. d.text = <<>>
    BY <1>3 DEF NoDelta
  <2> QED BY <1>1, <2>1
<1> QED BY <1>2, <1>3 DEF Marks

LEMMA TextsForType ==
  ASSUME NEW i, NEW ds \in Seq(Marks)
  PROVE  /\ TextsFor(i, ds) \in Seq(Texts) /\ Len(TextsFor(i, ds)) = Len(ds)
         /\ \A k \in 1 .. Len(ds) :
              TextsFor(i, ds)[k] = IF ds[k].item = i THEN ds[k].text ELSE <<>>
<1>1. DOMAIN ds = 1 .. Len(ds) /\ Len(ds) \in Nat /\ \A k \in 1 .. Len(ds) : ds[k] \in Marks
  OBVIOUS
<1>2. <<>> \in Texts
  BY DEF Texts
<1>3. \A k \in 1 .. Len(ds) : ds[k].text \in Texts
  BY <1>1, MarkType
<1>4. TextsFor(i, ds) = [k \in 1 .. Len(ds) |-> IF ds[k].item = i THEN ds[k].text ELSE <<>>]
  BY <1>1 DEF TextsFor
<1>5. TextsFor(i, ds) \in [1 .. Len(ds) -> Texts]
  BY <1>2, <1>3, <1>4
<1> QED BY <1>1, <1>4, <1>5

LEMMA TextOfType ==
  ASSUME NEW i, NEW ds \in Seq(Marks)
  PROVE  TextOf(i, ds) \in Texts
<1>1. TextsFor(i, ds) \in Seq(Texts)
  BY TextsForType
<1>2. FlattenSeq(TextsFor(i, ds)) \in Texts
  BY <1>1, FlattenAppend DEF Texts
<1> QED BY <1>2 DEF TextOf, TextsFor

\* The text of two runs of deltas.
LEMMA TextOfConcat ==
  ASSUME NEW i, NEW a \in Seq(Marks), NEW b \in Seq(Marks)
  PROVE  TextOf(i, a \o b) = TextOf(i, a) \o TextOf(i, b)
<1> DEFINE ab == a \o b
           x == TextsFor(i, a)
           y == TextsFor(i, b)
           z == TextsFor(i, ab)
<1>1. /\ ab \in Seq(Marks) /\ Len(ab) = Len(a) + Len(b) /\ Len(a) \in Nat /\ Len(b) \in Nat
      /\ \A k \in 1 .. Len(a) + Len(b) : ab[k] = IF k <= Len(a) THEN a[k] ELSE b[k - Len(a)]
  BY ConcatProperties
<1> HIDE DEF ab
<1>2. x \in Seq(Texts) /\ Len(x) = Len(a)
      /\ \A k \in 1 .. Len(a) : x[k] = IF a[k].item = i THEN a[k].text ELSE <<>>
  BY TextsForType
<1>3. y \in Seq(Texts) /\ Len(y) = Len(b)
      /\ \A k \in 1 .. Len(b) : y[k] = IF b[k].item = i THEN b[k].text ELSE <<>>
  BY TextsForType
<1>4. z \in Seq(Texts) /\ Len(z) = Len(a) + Len(b)
      /\ \A k \in 1 .. Len(a) + Len(b) :
           z[k] = IF ab[k].item = i THEN ab[k].text ELSE <<>>
  <2>1. ab \in Seq(Marks) /\ Len(ab) = Len(a) + Len(b)
    BY <1>1
  <2>2. z \in Seq(Texts) /\ Len(z) = Len(ab)
        /\ \A k \in 1 .. Len(ab) : z[k] = IF ab[k].item = i THEN ab[k].text ELSE <<>>
    BY <2>1, TextsForType
  <2> QED BY <2>1, <2>2
<1> HIDE DEF x, y, z
<1>5. x \o y \in Seq(Texts) /\ Len(x \o y) = Len(a) + Len(b)
      /\ \A k \in 1 .. Len(a) + Len(b) : (x \o y)[k] = IF k <= Len(a) THEN x[k] ELSE y[k - Len(a)]
  <2>1. x \in Seq(Texts) /\ y \in Seq(Texts) /\ Len(x) = Len(a) /\ Len(y) = Len(b)
    BY <1>2, <1>3
  <2>2. /\ x \o y \in Seq(Texts) /\ Len(x \o y) = Len(x) + Len(y)
        /\ \A k \in 1 .. Len(x) + Len(y) : (x \o y)[k] = IF k <= Len(x) THEN x[k] ELSE y[k - Len(x)]
    BY <2>1, ConcatProperties
  <2> QED BY <2>1, <2>2
<1>6. \A k \in 1 .. Len(a) + Len(b) : z[k] = (x \o y)[k]
  <2> SUFFICES ASSUME NEW k \in 1 .. Len(a) + Len(b) PROVE z[k] = (x \o y)[k]
    OBVIOUS
  <2>1. CASE k <= Len(a)
    <3>1. k \in 1 .. Len(a)
      BY <2>1, <1>1
    <3>2. ab[k] = a[k] /\ (x \o y)[k] = x[k]
      BY <2>1, <1>1, <1>5
    <3>3. x[k] = IF a[k].item = i THEN a[k].text ELSE <<>>
      BY <3>1, <1>2
    <3>4. z[k] = IF ab[k].item = i THEN ab[k].text ELSE <<>>
      BY <1>4
    <3> QED BY <3>2, <3>3, <3>4
  <2>2. CASE k > Len(a)
    <3> DEFINE m == k - Len(a)
    <3>1. m \in 1 .. Len(b) /\ ~(k <= Len(a))
      BY <2>2, <1>1
    <3>2. ab[k] = b[m] /\ (x \o y)[k] = y[m]
      BY <3>1, <1>1, <1>5
    <3> HIDE DEF m
    <3>3. y[m] = IF b[m].item = i THEN b[m].text ELSE <<>>
      BY <3>1, <1>3
    <3>4. z[k] = IF ab[k].item = i THEN ab[k].text ELSE <<>>
      BY <1>4
    <3> QED BY <3>2, <3>3, <3>4
  <2>3. k <= Len(a) \/ k > Len(a)
    BY <1>1
  <2> QED BY <2>1, <2>2, <2>3
<1>7. z = x \o y
  BY <1>4, <1>5, <1>6, SeqEqual
<1>8. FlattenSeq(z) = FlattenSeq(x) \o FlattenSeq(y)
  BY <1>2, <1>3, <1>7, FlattenConcat
<1> QED BY <1>8 DEF TextOf, TextsFor, ab, x, y, z

LEMMA TextOfEmpty ==
  ASSUME NEW i
  PROVE  TextOf(i, <<>>) = <<>>
<1>1. TextsFor(i, <<>>) = <<>>
  BY DEF TextsFor
<1> QED BY <1>1, FlattenEmpty DEF TextOf, TextsFor

LEMMA TextOfOne ==
  ASSUME NEW i, NEW d \in Marks
  PROVE  TextOf(i, <<d>>) = IF d.item = i THEN d.text ELSE <<>>
<1> DEFINE t == IF d.item = i THEN d.text ELSE <<>>
<1>1. t \in Texts
  BY MarkType DEF Texts
<1>2. TextsFor(i, <<d>>) = Append(<<>>, t)
  BY DEF TextsFor
<1>3. FlattenSeq(Append(<<>>, t)) = FlattenSeq(<<>>) \o t
  <2>1. <<>> \in Seq(Texts)
    OBVIOUS
  <2> HIDE DEF t
  <2> QED BY <1>1, <2>1, FlattenAppend
<1>4. <<>> \o t = t
  BY <1>1, ConcatEmptySeq DEF Texts
<1> QED BY <1>2, <1>3, <1>4, FlattenEmpty DEF TextOf, TextsFor

-----------------------------------------------------------------------------
(* One delta after the other.                                               *)

States == [filters : [Items -> Filters], shown : [Items -> Texts]]

\* The filters and what was shown are those of the texts h in one piece.
Agrees(state, h) ==
  \A i \in Items : /\ state.filters[i] = Left(Filtered[Starting(h[i])])
                   /\ state.shown[i] = Filtered[Starting(h[i])].visible
Heard(h, ds) == [i \in Items |-> h[i] \o TextOf(i, ds)]

LEMMA HeardType ==
  ASSUME NEW h \in [Items -> Texts], NEW ds \in Seq(Marks)
  PROVE  Heard(h, ds) \in [Items -> Texts]
<1> SUFFICES ASSUME NEW i \in Items PROVE h[i] \o TextOf(i, ds) \in Texts
  BY DEF Heard
<1>1. TextOf(i, ds) \in Texts /\ h[i] \in Texts
  BY TextOfType
<1> QED BY <1>1 DEF Texts

LEMMA SetPending ==
  ASSUME NEW h, NEW p, NEW q
  PROVE  [[hidden |-> h, pending |-> p] EXCEPT !.pending = q] = [hidden |-> h, pending |-> q]
OBVIOUS

LEMMA AddIsMore ==
  ASSUME NEW f \in Filters, NEW t
  PROVE  [f EXCEPT !.pending = @ \o t] = More(f, t)
<1>1. f = [hidden |-> f.hidden, pending |-> f.pending]
  BY DEF Filters
<1>2. [[hidden |-> f.hidden, pending |-> f.pending] EXCEPT !.pending = f.pending \o t]
        = [hidden |-> f.hidden, pending |-> f.pending \o t]
  BY SetPending
<1> QED BY <1>1, <1>2 DEF More

\* One delta keeps the filters in agreement with the texts.
LEMMA ShowOne ==
  ASSUME NEW state \in States, NEW d \in Deltas
  PROVE  /\ Show(state, d) \in States
         /\ \A h \in [Items -> Texts] :
              Agrees(state, h) => Agrees(Show(state, d), Heard(h, <<d>>))
<1> DEFINE i == d.item
           old == state.filters[i]
           new == Filtered[More(old, d.text)]
           next == Show(state, d)
<1>1. i \in Items /\ d.text \in Texts /\ d \in Marks
  BY DEF Deltas, Marks
<1>2. /\ state.filters \in [Items -> Filters] /\ state.shown \in [Items -> Texts]
      /\ old \in Filters
  BY <1>1 DEF States
<1>3. [old EXCEPT !.pending = @ \o d.text] = More(old, d.text)
  <2> HIDE DEF old
  <2> QED BY <1>2, AddIsMore
<1>4. new \in Outcomes
  BY <1>1, <1>2, MoreType, FilteredDef
<1>5. /\ next.filters = [state.filters EXCEPT ![i] = Left(new)]
      /\ next.shown = [state.shown EXCEPT ![i] = @ \o new.visible]
      /\ next = [filters |-> next.filters, shown |-> next.shown]
  BY <1>3 DEF Show, Left
<1> HIDE DEF i, new, next
<1>6. next \in States
  <2>1. Left(new) \in Filters
    BY <1>4 DEF Left, Filters, Outcomes
  <2>2. state.shown[i] \o new.visible \in Texts
    BY <1>1, <1>2, <1>4 DEF Outcomes, Texts, i
  <2>3. next.filters \in [Items -> Filters] /\ next.shown \in [Items -> Texts]
    BY <1>2, <1>5, <2>1, <2>2
  <2> QED BY <1>5, <2>3 DEF States
<1>7. ASSUME NEW h \in [Items -> Texts], Agrees(state, h) PROVE Agrees(next, Heard(h, <<d>>))
  <2> SUFFICES ASSUME NEW k \in Items
               PROVE /\ next.filters[k] = Left(Filtered[Starting(Heard(h, <<d>>)[k])])
                     /\ next.shown[k] = Filtered[Starting(Heard(h, <<d>>)[k])].visible
    BY DEF Agrees
  <2>1. Heard(h, <<d>>)[k] = h[k] \o (IF d.item = k THEN d.text ELSE <<>>)
    BY <1>1, TextOfOne DEF Heard
  <2>2. /\ state.filters[k] = Left(Filtered[Starting(h[k])])
        /\ state.shown[k] = Filtered[Starting(h[k])].visible
    BY <1>7 DEF Agrees
  <2>3. CASE k # i
    <3>1. h[k] \o <<>> = h[k]
      BY ConcatEmptySeq DEF Texts
    <3>2. next.filters[k] = state.filters[k] /\ next.shown[k] = state.shown[k]
      BY <1>2, <1>5, <2>3
    <3> QED BY <2>1, <2>2, <2>3, <3>1, <3>2 DEF i
  <2>4. CASE k = i
    <3> DEFINE f == Starting(h[k])
    <3>1. f \in Filters
      BY StartingType
    <3>2. Starting(h[k] \o d.text) = More(f, d.text)
      BY DEF Starting, More
    <3> HIDE DEF f
    <3>3. Filtered[More(f, d.text)]
            = Prepend(Filtered[f].visible, Filtered[More(Left(Filtered[f]), d.text)])
      BY <1>1, <3>1, FilteredCut
    <3>4. Left(Filtered[f]) = state.filters[i] /\ Filtered[f].visible = state.shown[i]
      BY <2>2, <2>4 DEF f
    <3>5. Filtered[More(f, d.text)] = Prepend(state.shown[i], new)
      BY <3>3, <3>4 DEF new, i
    <3>6. /\ Left(Prepend(state.shown[i], new)) = Left(new)
          /\ Prepend(state.shown[i], new).visible = state.shown[i] \o new.visible
      BY <1>4 DEF Prepend, Left, Outcomes
    <3>7. next.filters[k] = Left(new) /\ next.shown[k] = state.shown[i] \o new.visible
      BY <1>2, <1>5, <2>4
    <3>8. Heard(h, <<d>>)[k] = h[k] \o d.text
      BY <2>1, <2>4 DEF i
    <3> QED BY <3>2, <3>5, <3>6, <3>7, <3>8
  <2> QED BY <2>3, <2>4
<1> QED BY <1>6, <1>7 DEF next

LEMMA HeardMore ==
  ASSUME NEW h \in [Items -> Texts], NEW a \in Seq(Marks), NEW b \in Seq(Marks)
  PROVE  Heard(h, a \o b) = Heard(Heard(h, a), b)
<1> SUFFICES ASSUME NEW i \in Items
             PROVE h[i] \o TextOf(i, a \o b) = (h[i] \o TextOf(i, a)) \o TextOf(i, b)
  BY DEF Heard
<1>1. TextOf(i, a) \in Texts /\ TextOf(i, b) \in Texts /\ h[i] \in Texts
  BY TextOfType
<1>2. TextOf(i, a \o b) = TextOf(i, a) \o TextOf(i, b)
  BY TextOfConcat
<1> QED BY <1>1, <1>2, TextsAssociative

LEMMA HeardNothing ==
  ASSUME NEW h \in [Items -> Texts]
  PROVE  Heard(h, <<>>) = h
<1>1. \A i \in Items : h[i] \o <<>> = h[i]
  BY ConcatEmptySeq DEF Texts
<1> QED BY <1>1, TextOfEmpty DEF Heard

Shows(f, state, ds) ==
  f = [k \in 0 .. Len(ds) |-> IF k = 0 THEN state ELSE Show(f[k - 1], ds[k])]

LEMMA ShowAllExists ==
  ASSUME NEW state \in States, NEW ds \in Seq(Deltas)
  PROVE  \E f : Shows(f, state, ds) /\ ShowAll(state, ds) = f[Len(ds)]
<1> DEFINE D == 0 .. Len(ds)
           size == [k \in D |-> k]
           stop == {0}
           base == [k \in D |-> state]
           next == [k \in D |-> IF k = 0 THEN 0 ELSE k - 1]
           comb == [p \in D \X States |-> IF p[1] = 0 THEN state ELSE Show(p[2], ds[p[1]])]
<1>1. Len(ds) \in Nat /\ \A k \in D : k # 0 => ds[k] \in Deltas
  OBVIOUS
<1>2. size \in [D -> Nat] /\ stop \in SUBSET D /\ base \in [D -> States] /\ next \in [D -> D]
      /\ \A k \in D \ stop : size[next[k]] < size[k]
  BY <1>1
<1>3. comb \in [D \X States -> States]
  <2> SUFFICES ASSUME NEW k \in D, k # 0, NEW s \in States PROVE Show(s, ds[k]) \in States
    OBVIOUS
  <2>1. ds[k] \in Deltas
    BY <1>1
  <2> QED BY <2>1, ShowOne
<1>4. PICK g \in [D -> States] : Follows(g, D, stop, base, next, comb)
  <2> HIDE DEF D, size, stop, base, next, comb
  <2> QED BY <1>2, <1>3, RecursionExists
<1>5. Shows(g, state, ds)
  <2>1. ASSUME NEW k \in D PROVE g[k] = IF k = 0 THEN state ELSE Show(g[k - 1], ds[k])
    <3>1. g[k] = IF k = 0 THEN state ELSE comb[<<k, g[next[k]]>>]
      BY <1>4 DEF Follows
    <3>2. k # 0 => next[k] = k - 1 /\ k - 1 \in D /\ g[k - 1] \in States
      BY <1>1
    <3>3. CASE k = 0
      BY <3>1, <3>3
    <3>4. CASE k # 0
      <4>1. comb[<<k, g[k - 1]>>] = Show(g[k - 1], ds[k])
        BY <3>2, <3>4
      <4> QED BY <3>1, <3>2, <3>4, <4>1
    <3> QED BY <3>3, <3>4
  <2>2. g = [k \in D |-> g[k]]
    OBVIOUS
  <2> QED BY <2>1, <2>2 DEF Shows
<1> DEFINE f == CHOOSE h : Shows(h, state, ds)
<1>6. Shows(f, state, ds)
  BY <1>5
<1>7. ShowAll(state, ds) = f[Len(ds)]
  BY DEF ShowAll, Shows
<1> QED BY <1>6, <1>7

LEMMA ShowsAt ==
  ASSUME NEW f, NEW state, NEW ds, Shows(f, state, ds), NEW k \in 0 .. Len(ds)
  PROVE  f[k] = IF k = 0 THEN state ELSE Show(f[k - 1], ds[k])
BY Zenon DEF Shows

\* The filters agree with the texts in one piece after any deltas.
LEMMA ShowAllAgrees ==
  ASSUME NEW state \in States, NEW ds \in Seq(Deltas), NEW h \in [Items -> Texts],
         Agrees(state, h)
  PROVE  /\ ShowAll(state, ds) \in States
         /\ Agrees(ShowAll(state, ds), Heard(h, ds))
<1>1. PICK f : Shows(f, state, ds) /\ ShowAll(state, ds) = f[Len(ds)]
  BY ShowAllExists
<1>0. Len(ds) \in Nat /\ ds \in Seq(Marks)
  BY DEF Marks
<1> DEFINE T == {k \in Nat : k <= Len(ds) =>
                   f[k] \in States /\ Agrees(f[k], Heard(h, SubSeq(ds, 1, k)))}
<1>2. ASSUME NEW k \in Nat, \A m \in 0 .. k - 1 : m \in T PROVE k \in T
  <2> SUFFICES ASSUME k <= Len(ds)
               PROVE f[k] \in States /\ Agrees(f[k], Heard(h, SubSeq(ds, 1, k)))
    OBVIOUS
  <2>0. k \in 0 .. Len(ds)
    BY <1>0
  <2>1. f[k] = IF k = 0 THEN state ELSE Show(f[k - 1], ds[k])
    BY <1>1, <2>0, ShowsAt
  <2>2. CASE k = 0
    <3>1. SubSeq(ds, 1, 0) = <<>>
      OBVIOUS
    <3> QED BY <2>1, <2>2, <3>1, HeardNothing
  <2>3. CASE k # 0
    <3> DEFINE m == k - 1
               p == SubSeq(ds, 1, m)
               d == ds[k]
    <3>1. m \in 0 .. k - 1 /\ m <= Len(ds) /\ m + 1 = k /\ m \in Nat
      BY <2>3, <2>0
    <3>2. f[m] \in States /\ Agrees(f[m], Heard(h, p))
      BY <1>2, <3>1
    <3>3. d \in Deltas /\ d \in Marks
      BY <2>0, <2>3 DEF Marks
    <3>4. p \in Seq(Marks) /\ <<d>> \in Seq(Marks)
      BY <1>0, <3>1, <3>3
    <3>5. SubSeq(ds, 1, k) = p \o <<d>>
      <4>1. SubSeq(ds, 1, k) \in Seq(Marks) /\ Len(SubSeq(ds, 1, k)) = k
            /\ \A j \in 1 .. k : SubSeq(ds, 1, k)[j] = ds[j]
        BY <1>0, <2>0, CutInTwo
      <4>2. p \in Seq(Marks) /\ Len(p) = m /\ \A j \in 1 .. m : p[j] = ds[j]
        <5>1. m \in 0 .. Len(ds)
          BY <1>0, <3>1
        <5> QED BY <1>0, <5>1, CutInTwo
      <4> DEFINE q == SubSeq(ds, 1, k)
                 r == p \o <<d>>
      <4> HIDE DEF q, p, m
      <4>3. r \in Seq(Marks) /\ Len(r) = k /\ \A j \in 1 .. k : r[j] = ds[j]
        BY <3>1, <3>4, <4>2
      <4> HIDE DEF r
      <4>4. q = r
        BY <4>1, <4>3, SeqEqual DEF q
      <4> QED BY <4>4 DEF q, r
    <3> HIDE DEF m, p, d
    <3>6. Heard(h, p) \in [Items -> Texts]
      BY <3>4, HeardType
    <3>7. Heard(h, p \o <<d>>) = Heard(Heard(h, p), <<d>>)
      BY <3>4, HeardMore
    <3>8. Show(f[m], d) \in States /\ Agrees(Show(f[m], d), Heard(Heard(h, p), <<d>>))
      BY <3>2, <3>3, <3>6, ShowOne
    <3>9. f[k] = Show(f[m], d)
      BY <2>1, <2>3 DEF m, d
    <3> QED BY <3>5, <3>7, <3>8, <3>9
  <2> QED BY <2>2, <2>3
<1>3. Len(ds) \in T
  <2> HIDE DEF T
  <2> QED BY <1>0, <1>2, Induction
<1>4. SubSeq(ds, 1, Len(ds)) = ds
  BY <1>0
<1>5. f[Len(ds)] \in States /\ Agrees(f[Len(ds)], Heard(h, SubSeq(ds, 1, Len(ds))))
  BY <1>0, <1>3
<1> QED BY <1>1, <1>4, <1>5

-----------------------------------------------------------------------------
(* Blank lines.                                                             *)

Short(b, k) == k + 1 <= Len(b) /\ b[k] = LF /\ b[k + 1] = LF
Long(b, k) == k + 3 <= Len(b) /\ b[k] = CR /\ b[k + 1] = LF /\ b[k + 2] = CR /\ b[k + 3] = LF
Blanks(b) == {k \in 1 .. Len(b) : Short(b, k) \/ Long(b, k)}
Width(b, k) == IF Short(b, k) THEN 2 ELSE 4

LEMMA ByteType ==
  /\ CR \in Bytes /\ LF \in Bytes /\ Comment \in Bytes /\ EventName \in Bytes
  /\ CR # LF
  /\ \A b \in Bytes : b.is = "data" => b.item \in Items /\ b.text \in Texts
  /\ CR.is # "data" /\ LF.is # "data" /\ Comment.is # "data" /\ EventName.is # "data"
<1>1. CR \in Bytes /\ LF \in Bytes /\ Comment \in Bytes /\ EventName \in Bytes
  BY DEF Bytes
<1>2. /\ CR.is = "CR" /\ LF.is = "LF" /\ Comment.is = "comment" /\ EventName.is = "event"
  BY DEF CR, LF, Comment, EventName, Byte
<1>3. ASSUME NEW b \in Bytes, b.is = "data" PROVE b.item \in Items /\ b.text \in Texts
  <2>1. b \notin {CR, LF, Comment, EventName}
    BY <1>2, <1>3
  <2>2. b \in [is : {"data"}, item : Items, text : Texts]
    BY <2>1 DEF Bytes
  <2> QED BY <2>2
<1> QED BY <1>1, <1>2, <1>3

\* find_frame_delimiter looks for these blank lines and no others.
LEMMA DelimitersAre ==
  ASSUME NEW b \in Seq(Bytes)
  PROVE  \A k, n : <<k, n>> \in Delimiters(b) <=> k \in Blanks(b) /\ n = Width(b, k)
<1>1. \A k : k \in Found(b, <<LF, LF>>) <=> k \in 1 .. Len(b) /\ Short(b, k)
  <2>1. <<LF, LF>> \in Seq(Bytes)
    BY ByteType
  <2>2. \A k : k \in Found(b, <<LF, LF>>) <=> IsAt(b, <<LF, LF>>, k)
    BY <2>1, FoundWithin
  <2>3. ASSUME NEW k \in 1 .. Len(b) PROVE IsAt(b, <<LF, LF>>, k) <=> Short(b, k)
    <3>1. Len(<<LF, LF>>) = 2 /\ <<LF, LF>>[1] = LF /\ <<LF, LF>>[2] = LF
      OBVIOUS
    <3>2. 1 .. 2 = {1, 2} /\ k + 1 - 1 = k /\ k + 2 - 1 = k + 1
      OBVIOUS
    <3>3. (\A j \in 1 .. 2 : b[k + j - 1] = <<LF, LF>>[j]) <=> b[k] = LF /\ b[k + 1] = LF
      BY <3>1, <3>2
    <3>4. k + 2 <= Len(b) + 1 <=> k + 1 <= Len(b)
      OBVIOUS
    <3> QED BY <3>1, <3>3, <3>4 DEF IsAt, Short
  <2>4. \A k : IsAt(b, <<LF, LF>>, k) => k \in 1 .. Len(b)
    BY DEF IsAt
  <2> QED BY <2>2, <2>3, <2>4
<1>2. \A k : k \in Found(b, <<CR, LF, CR, LF>>) <=> k \in 1 .. Len(b) /\ Long(b, k)
  <2> DEFINE t == <<CR, LF, CR, LF>>
  <2>1. t \in Seq(Bytes)
    BY ByteType
  <2>2. \A k : k \in Found(b, t) <=> IsAt(b, t, k)
    BY <2>1, FoundWithin
  <2>3. ASSUME NEW k \in 1 .. Len(b) PROVE IsAt(b, t, k) <=> Long(b, k)
    <3>1. Len(t) = 4 /\ t[1] = CR /\ t[2] = LF /\ t[3] = CR /\ t[4] = LF
      OBVIOUS
    <3>2. 1 .. 4 = {1, 2, 3, 4} /\ k + 1 - 1 = k /\ k + 2 - 1 = k + 1 /\ k + 3 - 1 = k + 2
          /\ k + 4 - 1 = k + 3
      OBVIOUS
    <3> HIDE DEF t
    <3>3. (\A j \in 1 .. 4 : b[k + j - 1] = t[j])
            <=> b[k] = CR /\ b[k + 1] = LF /\ b[k + 2] = CR /\ b[k + 3] = LF
      BY <3>1, <3>2
    <3>4. k + 4 <= Len(b) + 1 <=> k + 3 <= Len(b)
      OBVIOUS
    <3> QED BY <3>1, <3>3, <3>4 DEF IsAt, Long
  <2>4. \A k : IsAt(b, t, k) => k \in 1 .. Len(b)
    BY DEF IsAt
  <2> QED BY <2>2, <2>3, <2>4
<1>3. \A k : ~(Short(b, k) /\ Long(b, k))
  <2>1. CR # LF
    BY ByteType
  <2> QED BY <2>1 DEF Short, Long
<1>4. \A k, n : <<k, n>> \in Delimiters(b)
                  <=> \/ k \in Found(b, <<LF, LF>>) /\ n = 2
                      \/ k \in Found(b, <<CR, LF, CR, LF>>) /\ n = 4
  BY DEF Delimiters
<1>5. \A k : k \in Blanks(b) <=> k \in 1 .. Len(b) /\ (Short(b, k) \/ Long(b, k))
  BY DEF Blanks
<1>6. \A k : (Short(b, k) => Width(b, k) = 2) /\ (Long(b, k) => Width(b, k) = 4)
  BY <1>3 DEF Width
<1>7. ASSUME NEW k, NEW n
      PROVE <<k, n>> \in Delimiters(b) <=> k \in Blanks(b) /\ n = Width(b, k)
  <2>1. <<k, n>> \in Delimiters(b)
          <=> k \in 1 .. Len(b) /\ ((Short(b, k) /\ n = 2) \/ (Long(b, k) /\ n = 4))
    <3>1. <<k, n>> \in Delimiters(b)
            <=> \/ k \in Found(b, <<LF, LF>>) /\ n = 2
                \/ k \in Found(b, <<CR, LF, CR, LF>>) /\ n = 4
      BY <1>4
    <3>2. k \in Found(b, <<LF, LF>>) <=> k \in 1 .. Len(b) /\ Short(b, k)
      BY <1>1
    <3>3. k \in Found(b, <<CR, LF, CR, LF>>) <=> k \in 1 .. Len(b) /\ Long(b, k)
      BY <1>2
    <3> QED BY <3>1, <3>2, <3>3
  <2>2. k \in Blanks(b) <=> k \in 1 .. Len(b) /\ (Short(b, k) \/ Long(b, k))
    BY <1>5
  <2>3. CASE Short(b, k)
    BY <1>3, <1>6, <2>1, <2>2, <2>3, Zenon
  <2>4. CASE Long(b, k)
    BY <1>3, <1>6, <2>1, <2>2, <2>4, Zenon
  <2>5. CASE ~Short(b, k) /\ ~Long(b, k)
    BY <2>1, <2>2, <2>5
  <2> QED BY <2>3, <2>4, <2>5
<1> QED BY <1>7

\* The first blank line is the one find_frame_delimiter finds.
LEMMA FirstIs ==
  ASSUME NEW b \in Seq(Bytes)
  PROVE  /\ Delimiters(b) = {} <=> Blanks(b) = {}
         /\ Blanks(b) # {} =>
              /\ Min(Blanks(b)) \in Blanks(b) /\ \A k \in Blanks(b) : Min(Blanks(b)) <= k
              /\ First(Delimiters(b)) = <<Min(Blanks(b)), Width(b, Min(Blanks(b)))>>
<1> DEFINE D == Delimiters(b)
           m == Min(Blanks(b))
<1>1. \A d \in D : d = <<d[1], d[2]>>
  BY DEF Delimiters
<1>2. \A k, n : <<k, n>> \in D <=> k \in Blanks(b) /\ n = Width(b, k)
  BY DelimitersAre
<1> HIDE DEF D
<1>3. D = {} <=> Blanks(b) = {}
  <2>1. ASSUME NEW d \in D PROVE Blanks(b) # {}
    <3>1. <<d[1], d[2]>> \in D
      BY <1>1
    <3> QED BY <1>2, <3>1
  <2>2. ASSUME NEW k \in Blanks(b) PROVE D # {}
    <3>1. <<k, Width(b, k)>> \in D
      BY <1>2, <2>2
    <3> QED BY <3>1
  <2> QED BY <2>1, <2>2
<1>4. ASSUME Blanks(b) # {}
      PROVE /\ m \in Blanks(b) /\ \A k \in Blanks(b) : m <= k
            /\ First(D) = <<m, Width(b, m)>>
  <2>1. m \in Blanks(b) /\ \A k \in Blanks(b) : m <= k
    <3>1. Blanks(b) \in SUBSET Nat
      BY DEF Blanks
    <3> QED BY <1>4, <3>1, MinOf
  <2> HIDE DEF m
  <2> DEFINE c == <<m, Width(b, m)>>
             g == First(D)
  <2>2. c \in D /\ c[1] = m
    BY <1>2, <2>1
  <2>3. \A e \in D : c[1] <= e[1]
    BY <1>1, <1>2, <2>1, <2>2
  <2>4. g \in D /\ \A e \in D : g[1] <= e[1]
    <3> HIDE DEF c
    <3> QED BY <2>2, <2>3 DEF First
  <2> HIDE DEF g
  <2>5. g[1] \in Blanks(b) /\ g = <<g[1], Width(b, g[1])>>
    BY <1>1, <1>2, <2>4
  <2>6. g[1] <= m /\ m <= g[1] /\ g[1] \in Nat /\ m \in Nat
    BY <2>1, <2>2, <2>4, <2>5 DEF Blanks
  <2>7. g[1] = m
    BY <2>6
  <2> QED BY <2>1, <2>5, <2>7 DEF g
<1> QED BY <1>3, <1>4 DEF D, m

FrameOf(b) == SubSeq(b, 1, Min(Blanks(b)) - 1)
AfterIt(b) == SubSeq(b, Min(Blanks(b)) + Width(b, Min(Blanks(b))), Len(b))

LEMMA FirstBlank ==
  ASSUME NEW b \in Seq(Bytes), Blanks(b) # {}
  PROVE  /\ Min(Blanks(b)) \in 1 .. Len(b)
         /\ Min(Blanks(b)) + Width(b, Min(Blanks(b))) \in 1 .. Len(b) + 1
         /\ FrameOf(b) \in Seq(Bytes) /\ AfterIt(b) \in Seq(Bytes)
         /\ Len(AfterIt(b)) < Len(b)
<1> DEFINE m == Min(Blanks(b))
           w == Width(b, m)
<1>1. m \in Blanks(b)
  BY FirstIs
<1> HIDE DEF m
<1>2. m \in 1 .. Len(b) /\ m + w <= Len(b) + 1 /\ w \in {2, 4} /\ Len(b) \in Nat
  BY <1>1 DEF Blanks, Width, Short, Long
<1> HIDE DEF w
<1>3. m - 1 \in 0 .. Len(b) /\ (m + w) - 1 \in 0 .. Len(b) /\ ((m + w) - 1) + 1 = m + w
      /\ Len(b) - ((m + w) - 1) < Len(b)
  BY <1>2
<1>4. SubSeq(b, 1, m - 1) \in Seq(Bytes)
  BY <1>3, CutInTwo
<1>5. SubSeq(b, m + w, Len(b)) \in Seq(Bytes) /\ Len(SubSeq(b, m + w, Len(b))) < Len(b)
  <2> DEFINE n == (m + w) - 1
  <2>1. n \in 0 .. Len(b) /\ n + 1 = m + w /\ Len(b) - n < Len(b)
    BY <1>3
  <2> HIDE DEF n
  <2>2. SubSeq(b, n + 1, Len(b)) \in Seq(Bytes) /\ Len(SubSeq(b, n + 1, Len(b))) = Len(b) - n
    BY <2>1, CutInTwo
  <2> QED BY <2>1, <2>2
<1>6. m + w \in 1 .. Len(b) + 1
  BY <1>2
<1> QED BY <1>2, <1>4, <1>5, <1>6 DEF FrameOf, AfterIt, m, w

-----------------------------------------------------------------------------
(* What a frame says.                                                       *)

LinesOf(g) ==
  [k \in DOMAIN g |-> IF k \in {j \in DOMAIN g : g[j].is = "data"} THEN g[k].text ELSE <<>>]

LEMMA LinesType ==
  ASSUME NEW g \in Seq(Bytes)
  PROVE  /\ LinesOf(g) \in Seq(Texts) /\ Len(LinesOf(g)) = Len(g) /\ DOMAIN g = 1 .. Len(g)
         /\ \A k \in 1 .. Len(g) : LinesOf(g)[k] = IF g[k].is = "data" THEN g[k].text ELSE <<>>
<1>1. DOMAIN g = 1 .. Len(g) /\ Len(g) \in Nat /\ \A k \in 1 .. Len(g) : g[k] \in Bytes
  OBVIOUS
<1>2. <<>> \in Texts
  BY DEF Texts
<1>3. LinesOf(g) = [k \in 1 .. Len(g) |-> IF g[k].is = "data" THEN g[k].text ELSE <<>>]
  BY <1>1 DEF LinesOf
<1>4. \A k \in 1 .. Len(g) : (IF g[k].is = "data" THEN g[k].text ELSE <<>>) \in Texts
  BY <1>1, <1>2, ByteType
<1>5. LinesOf(g) \in [1 .. Len(g) -> Texts]
  BY <1>3, <1>4
<1> QED BY <1>1, <1>3, <1>5

LEMMA DeltasOfType ==
  ASSUME NEW g \in Seq(Bytes)
  PROVE  DeltasOf(g) \in Seq(Deltas)
<1> DEFINE data == {k \in DOMAIN g : g[k].is = "data"}
           d == [item |-> g[Min(data)].item, text |-> FlattenSeq(LinesOf(g))]
<1>1. DeltasOf(g) = IF data = {} THEN <<>> ELSE <<d>>
  BY DEF DeltasOf, LinesOf
<1>2. DOMAIN g = 1 .. Len(g) /\ Len(g) \in Nat /\ \A k \in 1 .. Len(g) : g[k] \in Bytes
  OBVIOUS
<1>3. ASSUME data # {} PROVE d \in Deltas
  <2>1. Min(data) \in data
    <3>1. data \in SUBSET Nat
      BY <1>2
    <3> QED BY <1>3, <3>1, MinOf
  <2>2. g[Min(data)].item \in Items
    BY <1>2, <2>1, ByteType
  <2>3. FlattenSeq(LinesOf(g)) \in Texts
    <3>1. LinesOf(g) \in Seq(Texts) /\ <<>> \in Texts
      BY LinesType DEF Texts
    <3> QED BY <3>1, FlattenAppend
  <2> QED BY <2>2, <2>3 DEF Deltas
<1> HIDE DEF d
<1> QED BY <1>1, <1>3

-----------------------------------------------------------------------------
(* Frame by frame.                                                          *)

Extracts == [deltas : Seq(Deltas), rest : Seq(Bytes)]

\* Extracted is the function its equation says.
LEMMA ExtractedDef ==
  /\ Extracted \in [Seq(Bytes) -> Extracts]
  /\ \A b \in Seq(Bytes) :
       Extracted[b] = IF Blanks(b) = {} THEN [deltas |-> <<>>, rest |-> b]
                      ELSE [deltas |-> DeltasOf(FrameOf(b)) \o Extracted[AfterIt(b)].deltas,
                            rest |-> Extracted[AfterIt(b)].rest]
<1> DEFINE D == Seq(Bytes)
           size == [b \in D |-> Len(b)]
           stop == {b \in D : Blanks(b) = {}}
           base == [b \in D |-> [deltas |-> <<>>, rest |-> b]]
           next == [b \in D |-> IF b \in stop THEN b ELSE AfterIt(b)]
           comb == [p \in D \X Extracts |->
                      IF p[1] \in stop THEN p[2]
                      ELSE [deltas |-> DeltasOf(FrameOf(p[1])) \o p[2].deltas, rest |-> p[2].rest]]
<1>1. size \in [D -> Nat] /\ stop \in SUBSET D
  OBVIOUS
<1>2. base \in [D -> Extracts]
  <2>1. <<>> \in Seq(Deltas)
    OBVIOUS
  <2> QED BY <2>1 DEF Extracts
<1>3. next \in [D -> D] /\ \A b \in D \ stop : size[next[b]] < size[b]
  BY FirstBlank
<1>4. comb \in [D \X Extracts -> Extracts]
  <2> SUFFICES ASSUME NEW b \in D \ stop, NEW o \in Extracts
               PROVE [deltas |-> DeltasOf(FrameOf(b)) \o o.deltas, rest |-> o.rest] \in Extracts
    OBVIOUS
  <2>1. FrameOf(b) \in Seq(Bytes)
    BY FirstBlank
  <2>2. DeltasOf(FrameOf(b)) \in Seq(Deltas)
    BY <2>1, DeltasOfType
  <2>3. o.deltas \in Seq(Deltas) /\ o.rest \in Seq(Bytes)
    BY DEF Extracts
  <2>4. DeltasOf(FrameOf(b)) \o o.deltas \in Seq(Deltas)
    BY <2>2, <2>3, ConcatProperties
  <2> QED BY <2>3, <2>4 DEF Extracts
<1>5. PICK g \in [D -> Extracts] : Follows(g, D, stop, base, next, comb)
  <2> HIDE DEF D, size, stop, base, next, comb
  <2> QED BY <1>1, <1>2, <1>3, <1>4, RecursionExists
<1> DEFINE body(h) ==
             [b \in D |-> IF Blanks(b) = {} THEN [deltas |-> <<>>, rest |-> b]
                          ELSE [deltas |-> DeltasOf(FrameOf(b)) \o h[AfterIt(b)].deltas,
                                rest |-> h[AfterIt(b)].rest]]
<1>6. \A b \in D :
        g[b] = IF Blanks(b) = {} THEN [deltas |-> <<>>, rest |-> b]
               ELSE [deltas |-> DeltasOf(FrameOf(b)) \o g[AfterIt(b)].deltas,
                     rest |-> g[AfterIt(b)].rest]
  <2> SUFFICES ASSUME NEW b \in D
               PROVE g[b] = IF Blanks(b) = {} THEN [deltas |-> <<>>, rest |-> b]
                            ELSE [deltas |-> DeltasOf(FrameOf(b)) \o g[AfterIt(b)].deltas,
                                  rest |-> g[AfterIt(b)].rest]
    OBVIOUS
  <2>1. g[b] = IF b \in stop THEN base[b] ELSE comb[<<b, g[next[b]]>>]
    BY <1>5 DEF Follows
  <2>2. b \notin stop => next[b] = AfterIt(b) /\ next[b] \in D
    BY <1>3
  <2> QED BY <2>1, <2>2, <1>5
<1>7. g = body(g)
  BY <1>6
<1>8. Extracted = CHOOSE h : h = body(h)
  <2>1. \A b \in D : Delimiters(b) = {} <=> Blanks(b) = {}
    BY FirstIs
  <2>2. \A b \in D : Blanks(b) # {} =>
          First(Delimiters(b)) = <<Min(Blanks(b)), Width(b, Min(Blanks(b)))>>
    BY FirstIs
  <2> DEFINE code(h) ==
               [b \in Seq(Bytes) |->
                  IF Delimiters(b) = {} THEN [deltas |-> <<>>, rest |-> b]
                  ELSE LET d == First(Delimiters(b))
                           after == h[SubSeq(b, d[1] + d[2], Len(b))] IN
                       [deltas |-> DeltasOf(SubSeq(b, 1, d[1] - 1)) \o after.deltas,
                        rest |-> after.rest]]
  <2>3. \A h : code(h) = body(h)
    <3> SUFFICES ASSUME NEW h, NEW b \in D PROVE code(h)[b] = body(h)[b]
      OBVIOUS
    <3>1. CASE Blanks(b) = {}
      BY <2>1, <3>1
    <3>2. CASE Blanks(b) # {}
      <4> DEFINE m == Min(Blanks(b))
                 w == Width(b, m)
                 d == First(Delimiters(b))
      <4>1. d = <<m, w>>
        BY <2>2, <3>2
      <4>2. d[1] = m /\ d[2] = w
        BY <4>1
      <4>3. code(h)[b] = [deltas |-> DeltasOf(SubSeq(b, 1, d[1] - 1))
                                       \o h[SubSeq(b, d[1] + d[2], Len(b))].deltas,
                          rest |-> h[SubSeq(b, d[1] + d[2], Len(b))].rest]
        BY <2>1, <3>2
      <4>4. body(h)[b] = [deltas |-> DeltasOf(SubSeq(b, 1, m - 1)) \o h[SubSeq(b, m + w, Len(b))].deltas,
                          rest |-> h[SubSeq(b, m + w, Len(b))].rest]
        BY <3>2 DEF FrameOf, AfterIt
      <4> HIDE DEF d, m, w, code, body
      <4> QED BY <4>2, <4>3, <4>4, Zenon
    <3> QED BY <3>1, <3>2
  <2>4. Extracted = CHOOSE h : h = code(h)
    BY DEF Extracted
  <2> HIDE DEF code, body
  <2>5. (CHOOSE h : h = code(h)) = CHOOSE h : h = body(h)
    BY <2>3
  <2> QED BY <2>4, <2>5
<1>9. Extracted = body(Extracted)
  <2> HIDE DEF body
  <2> QED BY <1>7, <1>8
<1>10. \A b \in Seq(Bytes) :
         Extracted[b] = IF Blanks(b) = {} THEN [deltas |-> <<>>, rest |-> b]
                        ELSE [deltas |-> DeltasOf(FrameOf(b)) \o Extracted[AfterIt(b)].deltas,
                              rest |-> Extracted[AfterIt(b)].rest]
  BY <1>9
<1> DEFINE T == {n \in Nat : \A b \in D : Len(b) = n => Extracted[b] \in Extracts}
<1>11. ASSUME NEW n \in Nat, \A m \in 0 .. n - 1 : m \in T PROVE n \in T
  <2> SUFFICES ASSUME NEW b \in D, Len(b) = n PROVE Extracted[b] \in Extracts
    OBVIOUS
  <2>1. CASE Blanks(b) = {}
    BY <2>1, <1>2, <1>10
  <2>2. CASE Blanks(b) # {}
    <3>1. AfterIt(b) \in Seq(Bytes) /\ Len(AfterIt(b)) \in 0 .. n - 1
      BY <2>2, FirstBlank
    <3>2. Extracted[AfterIt(b)] \in Extracts
      BY <1>11, <3>1
    <3>3. comb[<<b, Extracted[AfterIt(b)]>>] \in Extracts
      BY <1>4, <3>2
    <3> QED BY <1>10, <2>2, <3>2, <3>3
  <2> QED BY <2>1, <2>2
<1>12. \A b \in D : Extracted[b] \in Extracts
  <2>1. Nat \subseteq T
    <3> HIDE DEF T
    <3> QED BY <1>11, Induction
  <2> QED BY <2>1
<1>13. Extracted = [b \in Seq(Bytes) |-> Extracted[b]]
  BY <1>9
<1> QED BY <1>10, <1>12, <1>13

LEMMA ExtractedType ==
  ASSUME NEW b \in Seq(Bytes)
  PROVE  /\ Extracted[b].deltas \in Seq(Deltas) /\ Extracted[b].deltas \in Seq(Marks)
         /\ Extracted[b].rest \in Seq(Bytes)
<1>1. Extracted[b] \in Extracts
  BY ExtractedDef
<1>2. Extracted[b].deltas \in Seq(Deltas) /\ Extracted[b].rest \in Seq(Bytes)
  BY <1>1 DEF Extracts
<1>3. Seq(Deltas) \subseteq Seq(Marks)
  BY DEF Marks
<1> QED BY <1>2, <1>3

\* A blank line that is whole stays the first one, whatever bytes come behind it: none
\* that begins before it can be completed.
LEMMA FirstBlankStays ==
  ASSUME NEW a \in Seq(Bytes), NEW b \in Seq(Bytes), Blanks(a) # {}
  PROVE  /\ Blanks(a \o b) # {}
         /\ Min(Blanks(a \o b)) = Min(Blanks(a))
         /\ Width(a \o b, Min(Blanks(a))) = Width(a, Min(Blanks(a)))
<1> DEFINE c == a \o b
           m == Min(Blanks(a))
           n == Min(Blanks(c))
<1>1. /\ c \in Seq(Bytes) /\ Len(c) = Len(a) + Len(b) /\ Len(a) \in Nat /\ Len(b) \in Nat
      /\ \A k \in 1 .. Len(a) : c[k] = a[k]
  BY ConcatProperties
<1>2. m \in Blanks(a) /\ \A k \in Blanks(a) : m <= k
  BY FirstIs
<1> HIDE DEF c, m
<1>3. ASSUME NEW k \in Nat \ {0}, k + 1 <= Len(a) PROVE Short(c, k) <=> Short(a, k)
  <2>1. k \in 1 .. Len(a) /\ k + 1 \in 1 .. Len(a) /\ k + 1 <= Len(c)
    BY <1>1, <1>3
  <2>2. c[k] = a[k] /\ c[k + 1] = a[k + 1]
    BY <1>1, <2>1
  <2> QED BY <1>3, <2>1, <2>2 DEF Short
<1>4. ASSUME NEW k \in Nat \ {0}, k + 3 <= Len(a) PROVE Long(c, k) <=> Long(a, k)
  <2>1. /\ k \in 1 .. Len(a) /\ k + 1 \in 1 .. Len(a) /\ k + 2 \in 1 .. Len(a) /\ k + 3 \in 1 .. Len(a)
        /\ k + 3 <= Len(c)
    BY <1>1, <1>4
  <2>2. c[k] = a[k] /\ c[k + 1] = a[k + 1] /\ c[k + 2] = a[k + 2] /\ c[k + 3] = a[k + 3]
    BY <1>1, <2>1
  <2> QED BY <1>4, <2>1, <2>2 DEF Long
<1>5. m \in 1 .. Len(a) /\ (Short(a, m) \/ Long(a, m)) /\ m + 1 <= Len(a)
  BY <1>1, <1>2 DEF Blanks, Short, Long
<1>6. (Short(c, m) <=> Short(a, m)) /\ (Short(a, m) \/ Long(c, m))
  <2>1. Short(c, m) <=> Short(a, m)
    BY <1>3, <1>5
  <2>2. Long(a, m) => m + 3 <= Len(a)
    BY DEF Long
  <2>3. Long(a, m) => Long(c, m)
    BY <1>4, <1>5, <2>2
  <2> QED BY <1>5, <2>1, <2>3
<1>7. m \in Blanks(c) /\ Width(c, m) = Width(a, m)
  <2>1. m \in 1 .. Len(c)
    BY <1>1, <1>5
  <2> QED BY <1>6, <2>1 DEF Blanks, Width
<1>8. n \in Blanks(c) /\ \A k \in Blanks(c) : n <= k
  BY <1>1, <1>7, FirstIs
<1> HIDE DEF n
<1>9. n \in 1 .. Len(c) /\ (Short(c, n) \/ Long(c, n)) /\ n <= m
  BY <1>7, <1>8 DEF Blanks
<1>10. ASSUME n < m PROVE FALSE
  <2>0. n \in Nat \ {0} /\ m \in Nat /\ n + 1 <= Len(a) /\ n \in 1 .. Len(a)
    BY <1>1, <1>5, <1>9, <1>10
  <2>1. ~Short(a, n) /\ ~Long(a, n)
    BY <1>2, <1>10, <2>0 DEF Blanks
  <2>2. ~Short(c, n)
    BY <1>3, <2>0, <2>1
  <2>3. Long(c, n) /\ ~(n + 3 <= Len(a))
    BY <1>4, <1>9, <2>0, <2>1, <2>2
  <2>4. ~Long(a, m)
    BY <1>10, <2>0, <2>3 DEF Long
  <2>5. Short(a, m) /\ m = n + 1
    <3>1. Short(a, m)
      BY <1>5, <2>4
    <3> QED BY <1>1, <1>5, <1>10, <2>0, <2>3, <3>1
  <2>6. Short(c, n + 1)
    BY <1>6, <2>5
  <2>7. c[n + 2] = LF /\ c[n + 2] = CR
    <3>1. (n + 1) + 1 = n + 2
      BY <2>0
    <3>2. c[(n + 1) + 1] = LF
      BY <2>6 DEF Short
    <3>3. c[n + 2] = CR
      BY <2>3 DEF Long
    <3> QED BY <3>1, <3>2, <3>3
  <2> QED BY <2>7, ByteType
<1>11. n = m
  BY <1>5, <1>9, <1>10
<1> QED BY <1>7, <1>11 DEF c, m, n

\* Bytes cut between a and b: what is left of a is all that is needed of it.
CutAt(a, b) ==
  /\ Extracted[a \o b].deltas = Extracted[a].deltas \o Extracted[Extracted[a].rest \o b].deltas
  /\ Extracted[a \o b].rest = Extracted[Extracted[a].rest \o b].rest

LEMMA DeltasAssociative ==
  \A x, y, z \in Seq(Deltas) : x \o (y \o z) = (x \o y) \o z
BY ConcatAssociative

\* A cut behind the first frame, from the one in what is behind that frame.
LEMMA CutBehindFrame ==
  ASSUME NEW a \in Seq(Bytes), NEW b \in Seq(Bytes), Blanks(a) # {},
         CutAt(AfterIt(a), b)
  PROVE  CutAt(a, b)
<1> DEFINE c == a \o b
           m == Min(Blanks(a))
           w == Width(a, m)
           x == DeltasOf(FrameOf(a))
           r == AfterIt(a)
           e == Extracted[r].rest
<1>1. c \in Seq(Bytes)
  BY ConcatProperties
<1>2. Blanks(c) # {} /\ Min(Blanks(c)) = m /\ Width(c, m) = w
  BY FirstBlankStays
<1>3. m \in 1 .. Len(a) /\ m + w \in 1 .. Len(a) + 1 /\ FrameOf(a) \in Seq(Bytes) /\ r \in Seq(Bytes)
  BY FirstBlank
<1>4. FrameOf(c) = FrameOf(a)
  <2>1. SubSeq(c, 1, m - 1) = SubSeq(a, 1, m - 1)
    <3>1. m - 1 \in 0 .. Len(a)
      BY <1>3
    <3> HIDE DEF m
    <3> QED BY <3>1, CutFirst
  <2> QED BY <1>2, <2>1 DEF FrameOf
<1>5. AfterIt(c) = r \o b
  <2>1. SubSeq(c, m + w, Len(c)) = SubSeq(a, m + w, Len(a)) \o b
    <3> DEFINE n == (m + w) - 1
    <3>1. n \in 0 .. Len(a) /\ n + 1 = m + w
      BY <1>3
    <3> HIDE DEF n, m, w
    <3>2. SubSeq(c, n + 1, Len(c)) = SubSeq(a, n + 1, Len(a)) \o b
      BY <3>1, CutFirst
    <3> QED BY <3>1, <3>2
  <2> QED BY <1>2, <2>1 DEF AfterIt
<1>6. Extracted[a] = [deltas |-> x \o Extracted[r].deltas, rest |-> e]
  BY ExtractedDef
<1>7. Extracted[c] = [deltas |-> x \o Extracted[r \o b].deltas, rest |-> Extracted[r \o b].rest]
  <2>1. Extracted[c] = [deltas |-> DeltasOf(FrameOf(c)) \o Extracted[AfterIt(c)].deltas,
                        rest |-> Extracted[AfterIt(c)].rest]
    BY <1>1, <1>2, ExtractedDef
  <2> QED BY <1>4, <1>5, <2>1
<1>8. /\ Extracted[r \o b].deltas = Extracted[r].deltas \o Extracted[e \o b].deltas
      /\ Extracted[r \o b].rest = Extracted[e \o b].rest
  BY DEF CutAt
<1>9. x \in Seq(Deltas) /\ Extracted[r].deltas \in Seq(Deltas) /\ Extracted[e \o b].deltas \in Seq(Deltas)
  <2>1. x \in Seq(Deltas)
    BY <1>3, DeltasOfType
  <2>2. Extracted[r].deltas \in Seq(Deltas) /\ e \in Seq(Bytes)
    BY <1>3, ExtractedType
  <2>3. e \o b \in Seq(Bytes)
    BY <2>2, ConcatProperties
  <2>4. Extracted[e \o b].deltas \in Seq(Deltas)
    BY <2>3, ExtractedType
  <2> QED BY <2>1, <2>2, <2>4
<1> HIDE DEF c, m, w, x, r, e
<1>10. x \o (Extracted[r].deltas \o Extracted[e \o b].deltas)
         = (x \o Extracted[r].deltas) \o Extracted[e \o b].deltas
  BY <1>9, DeltasAssociative
<1>11. Extracted[a].deltas = x \o Extracted[r].deltas /\ Extracted[a].rest = e
  BY <1>6
<1>12. Extracted[c].deltas = x \o Extracted[r \o b].deltas /\ Extracted[c].rest = Extracted[r \o b].rest
  BY <1>7
<1> QED BY <1>8, <1>10, <1>11, <1>12 DEF CutAt, c

\* Bytes cut anywhere give the same frames, and leave the same behind.
LEMMA ExtractedCut ==
  ASSUME NEW a \in Seq(Bytes), NEW b \in Seq(Bytes)
  PROVE  CutAt(a, b)
<1> DEFINE T == {n \in Nat : \A s \in Seq(Bytes) : Len(s) = n => CutAt(s, b)}
<1>1. ASSUME NEW n \in Nat, \A m \in 0 .. n - 1 : m \in T PROVE n \in T
  <2> SUFFICES ASSUME NEW s \in Seq(Bytes), Len(s) = n PROVE CutAt(s, b)
    OBVIOUS
  <2>1. CASE Blanks(s) = {}
    <3>1. Extracted[s] = [deltas |-> <<>>, rest |-> s]
      BY <2>1, ExtractedDef
    <3>2. Extracted[s].deltas = <<>> /\ Extracted[s].rest = s
      BY <3>1
    <3>3. s \o b \in Seq(Bytes)
      BY ConcatProperties
    <3>4. Extracted[s \o b].deltas \in Seq(Deltas)
      BY <3>3, ExtractedType
    <3>5. <<>> \o Extracted[s \o b].deltas = Extracted[s \o b].deltas
      BY <3>4, ConcatEmptySeq
    <3> QED BY <3>2, <3>5 DEF CutAt
  <2>2. CASE Blanks(s) # {}
    <3>1. AfterIt(s) \in Seq(Bytes) /\ Len(AfterIt(s)) \in 0 .. n - 1
      BY <2>2, FirstBlank
    <3>2. CutAt(AfterIt(s), b)
      BY <1>1, <3>1
    <3> QED BY <2>2, <3>2, CutBehindFrame
  <2> QED BY <2>1, <2>2
<1>2. Len(a) \in T
  <2> HIDE DEF T
  <2> QED BY <1>1, Induction
<1> QED BY <1>2

-----------------------------------------------------------------------------
(* The frames the upstream sends.                                           *)

LEMMA FlattenNothing ==
  ASSUME NEW ts \in Seq(Texts), \A k \in 1 .. Len(ts) : ts[k] = <<>>
  PROVE  FlattenSeq(ts) = <<>>
<1> DEFINE Goal(xs) == (\A k \in 1 .. Len(xs) : xs[k] = <<>>) => FlattenSeq(xs) = <<>>
           T == {n \in Nat : \A xs \in Seq(Texts) : Len(xs) = n => Goal(xs)}
<1>1. ASSUME NEW n \in Nat, \A m \in 0 .. n - 1 : m \in T PROVE n \in T
  <2> SUFFICES ASSUME NEW xs \in Seq(Texts), Len(xs) = n PROVE Goal(xs)
    OBVIOUS
  <2>1. CASE xs = <<>>
    BY <2>1, FlattenEmpty
  <2>2. CASE xs # <<>>
    <3>1. PICK ys \in Seq(Texts), t \in Texts : xs = Append(ys, t)
      BY <2>2, SequenceEmptyOrAppend
    <3>2. Len(ys) \in 0 .. n - 1 /\ Len(xs) = Len(ys) + 1 /\ xs[Len(xs)] = t
          /\ \A k \in 1 .. Len(ys) : xs[k] = ys[k]
      BY <3>1
    <3>3. Goal(ys)
      <4> HIDE DEF Goal
      <4>1. Len(ys) \in T
        BY <1>1, <3>2
      <4> QED BY <4>1
    <3>4. FlattenSeq(xs) = FlattenSeq(ys) \o t
      BY <3>1, FlattenAppend
    <3>5. <<>> \o <<>> = <<>>
      OBVIOUS
    <3>6. ASSUME \A k \in 1 .. Len(xs) : xs[k] = <<>> PROVE FlattenSeq(ys) = <<>> /\ t = <<>>
      <4>1. \A k \in 1 .. Len(ys) : k \in 1 .. Len(xs)
        BY <3>2
      <4>2. \A k \in 1 .. Len(ys) : ys[k] = <<>>
        BY <3>2, <3>6, <4>1
      <4>3. Len(xs) \in 1 .. Len(xs)
        BY <3>2
      <4>4. t = <<>>
        BY <3>2, <3>6, <4>3
      <4> QED BY <3>3, <4>2, <4>4
    <3> QED BY <3>4, <3>5, <3>6
  <2> QED BY <2>1, <2>2
<1>2. Len(ts) \in T
  <2> HIDE DEF T
  <2> QED BY <1>1, Induction
<1>3. Goal(ts)
  BY <1>2
<1> QED BY <1>3

\* A run of texts of which one is not empty.
LEMMA FlattenOnly ==
  ASSUME NEW ts \in Seq(Texts), NEW j \in 1 .. Len(ts),
         \A k \in 1 .. Len(ts) : k # j => ts[k] = <<>>
  PROVE  FlattenSeq(ts) = ts[j]
<1> DEFINE a == SubSeq(ts, 1, j)
           c == SubSeq(a, 1, j - 1)
           b == SubSeq(ts, j + 1, Len(ts))
<1>1. /\ a \in Seq(Texts) /\ Len(a) = j /\ \A k \in 1 .. j : a[k] = ts[k]
      /\ b \in Seq(Texts) /\ Len(b) = Len(ts) - j /\ \A k \in 1 .. Len(ts) - j : b[k] = ts[j + k]
      /\ ts = a \o b
  <2>1. j \in 0 .. Len(ts)
    OBVIOUS
  <2> QED BY <2>1, CutInTwo
<1> HIDE DEF a, b
<1>2. /\ c \in Seq(Texts) /\ Len(c) = j - 1 /\ \A k \in 1 .. j - 1 : c[k] = a[k]
  <2>1. j - 1 \in 0 .. Len(a)
    BY <1>1
  <2> QED BY <1>1, <2>1, CutInTwo
<1> HIDE DEF c
<1>3. ts[j] \in Texts
  OBVIOUS
<1>4. a = Append(c, ts[j])
  <2> DEFINE d == Append(c, ts[j])
  <2>1. d \in Seq(Texts) /\ Len(d) = j /\ \A k \in 1 .. j : d[k] = ts[k]
    BY <1>1, <1>2, <1>3
  <2> HIDE DEF d
  <2>2. a = d
    BY <1>1, <2>1, SeqEqual
  <2> QED BY <2>2 DEF d
<1>5. FlattenSeq(b) = <<>>
  <2>1. \A k \in 1 .. Len(b) : b[k] = <<>>
    BY <1>1
  <2> QED BY <1>1, <2>1, FlattenNothing
<1>6. FlattenSeq(c) = <<>>
  <2>1. \A k \in 1 .. Len(c) : c[k] = <<>>
    BY <1>1, <1>2
  <2> QED BY <1>2, <2>1, FlattenNothing
<1>7. FlattenSeq(a) = <<>> \o ts[j]
  BY <1>2, <1>3, <1>4, <1>6, FlattenAppend
<1>8. <<>> \o ts[j] = ts[j] /\ ts[j] \o <<>> = ts[j]
  BY <1>3, ConcatEmptySeq DEF Texts
<1>9. FlattenSeq(ts) = FlattenSeq(a) \o FlattenSeq(b)
  BY <1>1, FlattenConcat
<1> QED BY <1>5, <1>7, <1>8, <1>9

\* A frame with one data line that says something.
LEMMA DeltasOfOne ==
  ASSUME NEW g \in Seq(Bytes), NEW j \in 1 .. Len(g), NEW i, NEW text,
         g[j] = Byte("data", i, text),
         \A k \in 1 .. Len(g) : g[k].is = "data" => k = j \/ (j < k /\ g[k].text = <<>>)
  PROVE  DeltasOf(g) = <<[item |-> i, text |-> text]>>
<1> DEFINE data == {k \in DOMAIN g : g[k].is = "data"}
           d == [item |-> g[Min(data)].item, text |-> FlattenSeq(LinesOf(g))]
<1>1. DeltasOf(g) = IF data = {} THEN <<>> ELSE <<d>>
  BY DEF DeltasOf, LinesOf
<1>2. g[j].is = "data" /\ g[j].item = i /\ g[j].text = text
  BY DEF Byte
<1>3. Min(data) = j
  <2>1. data \in SUBSET Nat /\ j \in data /\ \A k \in data : j <= k
    BY <1>2
  <2> HIDE DEF data
  <2>2. Min(data) \in data /\ Min(data) <= j
    BY <2>1, MinOf
  <2>3. Min(data) \in Nat /\ j <= Min(data)
    BY <2>1, <2>2
  <2> QED BY <2>2, <2>3
<1>4. FlattenSeq(LinesOf(g)) = text
  <2>1. /\ LinesOf(g) \in Seq(Texts) /\ Len(LinesOf(g)) = Len(g)
        /\ \A k \in 1 .. Len(g) : LinesOf(g)[k] = IF g[k].is = "data" THEN g[k].text ELSE <<>>
    BY LinesType
  <2>2. LinesOf(g)[j] = text
    BY <1>2, <2>1
  <2>3. \A k \in 1 .. Len(g) : k # j => LinesOf(g)[k] = <<>>
    BY <2>1
  <2> DEFINE ls == LinesOf(g)
  <2>4. ls \in Seq(Texts) /\ j \in 1 .. Len(ls) /\ \A k \in 1 .. Len(ls) : k # j => ls[k] = <<>>
    BY <2>1, <2>3
  <2> HIDE DEF ls
  <2>5. FlattenSeq(ls) = ls[j]
    BY <2>4, FlattenOnly
  <2> QED BY <2>2, <2>5 DEF ls
<1>5. data # {}
  BY <1>2, LinesType
<1> QED BY <1>1, <1>2, <1>3, <1>4, <1>5

LEMMA DeltasOfNone ==
  ASSUME NEW g \in Seq(Bytes), \A k \in 1 .. Len(g) : g[k].is # "data"
  PROVE  DeltasOf(g) = <<>>
<1>1. {k \in DOMAIN g : g[k].is = "data"} = {}
  OBVIOUS
<1> QED BY <1>1 DEF DeltasOf

Packets == [byte : Bytes, whole : Marks]
Sent(w) == [k \in DOMAIN w |-> w[k].byte]
Completes(w) == [k \in DOMAIN w |-> w[k].whole]

LEMMA PacketsType ==
  ASSUME NEW w \in Seq(Packets)
  PROVE  /\ Sent(w) \in Seq(Bytes) /\ Len(Sent(w)) = Len(w)
         /\ \A k \in 1 .. Len(w) : Sent(w)[k] = w[k].byte
         /\ Completes(w) \in Seq(Marks) /\ Len(Completes(w)) = Len(w)
         /\ \A k \in 1 .. Len(w) : Completes(w)[k] = w[k].whole
<1>1. DOMAIN w = 1 .. Len(w) /\ Len(w) \in Nat /\ \A k \in 1 .. Len(w) : w[k] \in Packets
  OBVIOUS
<1>2. \A k \in 1 .. Len(w) : w[k].byte \in Bytes /\ w[k].whole \in Marks
  BY <1>1 DEF Packets
<1>3. Sent(w) = [k \in 1 .. Len(w) |-> w[k].byte] /\ Completes(w) = [k \in 1 .. Len(w) |-> w[k].whole]
  BY <1>1 DEF Sent, Completes
<1>4. Sent(w) \in [1 .. Len(w) -> Bytes] /\ Completes(w) \in [1 .. Len(w) -> Marks]
  BY <1>2, <1>3
<1> QED BY <1>1, <1>3, <1>4

\* A sequence that begins with x and goes on with y.
LEMMA Pieced ==
  ASSUME NEW S, NEW x \in Seq(S), NEW y \in Seq(S), NEW z \in Seq(S), Len(z) = Len(x) + Len(y),
         \A k \in 1 .. Len(x) : z[k] = x[k],
         \A k \in 1 .. Len(y) : z[Len(x) + k] = y[k]
  PROVE  z = x \o y
<1> DEFINE u == x \o y
<1>1. u \in Seq(S) /\ Len(u) = Len(x) + Len(y) /\ Len(x) \in Nat /\ Len(y) \in Nat
      /\ \A k \in 1 .. Len(x) + Len(y) : u[k] = IF k <= Len(x) THEN x[k] ELSE y[k - Len(x)]
  BY ConcatProperties
<1> HIDE DEF u
<1>2. ASSUME NEW k \in 1 .. Len(z) PROVE z[k] = u[k]
  <2>1. CASE k <= Len(x)
    <3>1. k \in 1 .. Len(x)
      BY <1>1, <2>1
    <3> QED BY <1>1, <2>1, <3>1
  <2>2. CASE ~(k <= Len(x))
    <3> DEFINE m == k - Len(x)
    <3>1. m \in 1 .. Len(y) /\ Len(x) + m = k
      BY <1>1, <2>2
    <3>2. u[k] = y[m]
      BY <1>1, <2>2
    <3> HIDE DEF m
    <3>3. z[Len(x) + m] = y[m]
      BY <3>1
    <3> QED BY <3>1, <3>2, <3>3
  <2> QED BY <2>1, <2>2
<1>3. z = u
  BY <1>1, <1>2, SeqEqual
<1> QED BY <1>3 DEF u

\* What two stretches of the wire carry.
LEMMA PacketsConcat ==
  ASSUME NEW p \in Seq(Packets), NEW q \in Seq(Packets)
  PROVE  /\ p \o q \in Seq(Packets)
         /\ Sent(p \o q) = Sent(p) \o Sent(q)
         /\ Completes(p \o q) = Completes(p) \o Completes(q)
<1> DEFINE w == p \o q
           x == Sent(p)
           y == Sent(q)
           z == Sent(w)
           f == Completes(p)
           g == Completes(q)
           h == Completes(w)
<1>1. /\ w \in Seq(Packets) /\ Len(w) = Len(p) + Len(q) /\ Len(p) \in Nat /\ Len(q) \in Nat
      /\ \A k \in 1 .. Len(p) + Len(q) : w[k] = IF k <= Len(p) THEN p[k] ELSE q[k - Len(p)]
  BY ConcatProperties
<1>2. /\ x \in Seq(Bytes) /\ Len(x) = Len(p) /\ \A k \in 1 .. Len(p) : x[k] = p[k].byte
      /\ f \in Seq(Marks) /\ Len(f) = Len(p) /\ \A k \in 1 .. Len(p) : f[k] = p[k].whole
  BY PacketsType
<1>3. /\ y \in Seq(Bytes) /\ Len(y) = Len(q) /\ \A k \in 1 .. Len(q) : y[k] = q[k].byte
      /\ g \in Seq(Marks) /\ Len(g) = Len(q) /\ \A k \in 1 .. Len(q) : g[k] = q[k].whole
  BY PacketsType
<1> HIDE DEF w
<1>4. /\ z \in Seq(Bytes) /\ Len(z) = Len(w) /\ \A k \in 1 .. Len(w) : z[k] = w[k].byte
      /\ h \in Seq(Marks) /\ Len(h) = Len(w) /\ \A k \in 1 .. Len(w) : h[k] = w[k].whole
  BY <1>1, PacketsType
<1> HIDE DEF x, y, z, f, g, h
<1>5. ASSUME NEW k \in 1 .. Len(p) PROVE k \in 1 .. Len(w) /\ w[k] = p[k]
  BY <1>1
<1>6. ASSUME NEW k \in 1 .. Len(q) PROVE Len(p) + k \in 1 .. Len(w) /\ w[Len(p) + k] = q[k]
  <2> DEFINE n == Len(p) + k
  <2>1. n \in 1 .. Len(p) + Len(q) /\ ~(n <= Len(p)) /\ n - Len(p) = k
    BY <1>1
  <2> HIDE DEF n
  <2>2. w[n] = q[k] /\ n \in 1 .. Len(w)
    BY <1>1, <2>1
  <2> QED BY <2>2 DEF n
<1>7. z = x \o y
  <2>1. Len(z) = Len(x) + Len(y) /\ \A k \in 1 .. Len(x) : z[k] = x[k]
    BY <1>1, <1>2, <1>3, <1>4, <1>5
  <2>2. \A k \in 1 .. Len(y) : z[Len(x) + k] = y[k]
    BY <1>2, <1>3, <1>4, <1>6
  <2> QED BY <1>2, <1>3, <1>4, <2>1, <2>2, Pieced
<1>8. h = f \o g
  <2>1. Len(h) = Len(f) + Len(g) /\ \A k \in 1 .. Len(f) : h[k] = f[k]
    BY <1>1, <1>2, <1>3, <1>4, <1>5
  <2>2. \A k \in 1 .. Len(g) : h[Len(f) + k] = g[k]
    BY <1>2, <1>3, <1>4, <1>6
  <2> QED BY <1>2, <1>3, <1>4, <2>1, <2>2, Pieced
<1> QED BY <1>1, <1>7, <1>8 DEF w, x, y, z, f, g, h

\* What has come of the bytes in front of a cut is what they complete, wherever the cut
\* is, and all of them together leave nothing behind.
Faithful(b, w) ==
  /\ \A p, q \in Seq(Packets) : w = p \o q =>
       \A i \in Items : TextOf(i, Extracted[b \o Sent(p)].deltas) = TextOf(i, Completes(p))
  /\ Extracted[b \o Sent(w)].rest = <<>>

Packed(s, d) ==
  [k \in DOMAIN s |-> [byte |-> s[k], whole |-> IF k = Len(s) THEN d ELSE NoDelta]]

LEMMA PackedType ==
  ASSUME NEW s \in Seq(Bytes), NEW d \in Marks
  PROVE  /\ Packed(s, d) \in Seq(Packets) /\ Len(Packed(s, d)) = Len(s)
         /\ Sent(Packed(s, d)) = s
         /\ \A k \in 1 .. Len(s) :
              Packed(s, d)[k].whole = IF k = Len(s) THEN d ELSE NoDelta
<1> DEFINE w == Packed(s, d)
<1>1. DOMAIN s = 1 .. Len(s) /\ Len(s) \in Nat /\ \A k \in 1 .. Len(s) : s[k] \in Bytes
  OBVIOUS
<1>2. w = [k \in 1 .. Len(s) |-> [byte |-> s[k], whole |-> IF k = Len(s) THEN d ELSE NoDelta]]
  BY <1>1 DEF Packed
<1> HIDE DEF w
<1>3. \A k \in 1 .. Len(s) : /\ w[k] \in Packets /\ w[k].byte = s[k]
                             /\ w[k].whole = IF k = Len(s) THEN d ELSE NoDelta
  <2> SUFFICES ASSUME NEW k \in 1 .. Len(s)
               PROVE /\ w[k] \in Packets /\ w[k].byte = s[k]
                     /\ w[k].whole = IF k = Len(s) THEN d ELSE NoDelta
    OBVIOUS
  <2> DEFINE v == IF k = Len(s) THEN d ELSE NoDelta
  <2>1. v \in Marks /\ s[k] \in Bytes
    BY <1>1 DEF Marks
  <2>2. w[k] = [byte |-> s[k], whole |-> v]
    BY <1>2
  <2> HIDE DEF v
  <2>3. w[k] \in Packets /\ w[k].byte = s[k] /\ w[k].whole = v
    BY <2>1, <2>2 DEF Packets
  <2> QED BY <2>3 DEF v
<1>4. w \in Seq(Packets) /\ Len(w) = Len(s)
  <2>1. w \in [1 .. Len(s) -> Packets]
    BY <1>2, <1>3
  <2> QED BY <1>1, <2>1
<1>5. Sent(w) = s
  <2>1. Sent(w) \in Seq(Bytes) /\ Len(Sent(w)) = Len(s) /\ \A k \in 1 .. Len(s) : Sent(w)[k] = s[k]
    BY <1>3, <1>4, PacketsType
  <2> DEFINE z == Sent(w)
  <2> HIDE DEF z
  <2>2. z = s
    BY <2>1, SeqEqual DEF z
  <2> QED BY <2>2 DEF z
<1> QED BY <1>3, <1>4, <1>5 DEF w

\* Two ways to cut one sequence.
TwoWays(S, w, f, p, q) ==
  \/ \E r \in Seq(S) : w = p \o r
  \/ \E r \in Seq(S) : p = w \o r /\ f = r \o q

LEMMA TwoCuts ==
  ASSUME NEW S, NEW w \in Seq(S), NEW f \in Seq(S), NEW p \in Seq(S), NEW q \in Seq(S),
         w \o f = p \o q
  PROVE  TwoWays(S, w, f, p, q)
<1> DEFINE z == w \o f
<1>1. Len(w) \in Nat /\ Len(p) \in Nat /\ Len(f) \in Nat /\ Len(q) \in Nat
      /\ Len(z) = Len(w) + Len(f) /\ Len(z) = Len(p) + Len(q)
  BY ConcatProperties
<1>2. CASE Len(p) <= Len(w)
  <2> DEFINE n == Len(p)
             r == SubSeq(w, n + 1, Len(w))
  <2>1. n \in 0 .. Len(w) /\ n \in 0 .. Len(p)
    BY <1>1, <1>2
  <2> HIDE DEF n
  <2>2. r \in Seq(S) /\ SubSeq(w, 1, n) \o r = w
    BY <2>1, CutInTwo
  <2>3. SubSeq(z, 1, n) = SubSeq(w, 1, n)
    BY <2>1, CutFirst
  <2>4. SubSeq(p \o q, 1, n) = SubSeq(p, 1, n)
    BY <2>1, CutFirst
  <2>5. SubSeq(p, 1, n) = p
    BY DEF n
  <2>6. w = p \o r
    BY <2>2, <2>3, <2>4, <2>5
  <2> QED BY <2>2, <2>6 DEF TwoWays
<1>3. CASE ~(Len(p) <= Len(w))
  <2> DEFINE n == Len(p) - Len(w)
             r == SubSeq(f, 1, n)
             g == SubSeq(f, n + 1, Len(f))
  <2>1. n \in 0 .. Len(f) /\ Len(w) + n = Len(p) /\ Len(p) \in 0 .. Len(p)
    BY <1>1, <1>3
  <2> HIDE DEF n
  <2>2. r \in Seq(S) /\ g \in Seq(S) /\ r \o g = f
    BY <2>1, CutInTwo
  <2>3. SubSeq(z, 1, Len(w) + n) = w \o r /\ SubSeq(z, Len(w) + n + 1, Len(z)) = g
    BY <2>1, CutSecond
  <2>4. SubSeq(p \o q, 1, Len(p)) = SubSeq(p, 1, Len(p))
        /\ SubSeq(p \o q, Len(p) + 1, Len(p \o q)) = SubSeq(p, Len(p) + 1, Len(p)) \o q
    BY <2>1, CutFirst
  <2>5. SubSeq(p, 1, Len(p)) = p /\ SubSeq(p, Len(p) + 1, Len(p)) = <<>> /\ <<>> \o q = q
    <3>1. SubSeq(p, 1, Len(p)) = p /\ <<>> \o q = q
      BY ConcatEmptySeq
    <3>2. SubSeq(p, Len(p) + 1, Len(p)) \in Seq(S) /\ Len(SubSeq(p, Len(p) + 1, Len(p))) = 0
      BY <2>1, CutInTwo
    <3> QED BY <3>1, <3>2, EmptySeq
  <2> HIDE DEF r, g
  <2>6. p = w \o r /\ q = g
    BY <2>1, <2>3, <2>4, <2>5
  <2>7. f = r \o q
    BY <2>2, <2>6
  <2> QED BY <2>2, <2>6, <2>7 DEF TwoWays
<1> QED BY <1>2, <1>3

\* A frame with one blank line, at its end.
LEMMA LoneFrame ==
  ASSUME NEW s \in Seq(Bytes), NEW d \in Marks, NEW m \in 1 .. Len(s),
         Blanks(s) = {m}, m + Width(s, m) = Len(s) + 1,
         \A i \in Items : TextOf(i, DeltasOf(SubSeq(s, 1, m - 1))) = TextOf(i, <<d>>)
  PROVE  Faithful(<<>>, Packed(s, d))
<1> DEFINE w == Packed(s, d)
<1>1. /\ w \in Seq(Packets) /\ Len(w) = Len(s) /\ Sent(w) = s
      /\ \A k \in 1 .. Len(s) : w[k].whole = IF k = Len(s) THEN d ELSE NoDelta
  BY PackedType
<1> HIDE DEF w
<1>2. Min(Blanks(s)) = m
  BY FirstIs
<1>3. Extracted[s].rest = <<>> /\ Extracted[s].deltas = DeltasOf(SubSeq(s, 1, m - 1))
  <2>1. AfterIt(s) \in Seq(Bytes) /\ FrameOf(s) = SubSeq(s, 1, m - 1) /\ FrameOf(s) \in Seq(Bytes)
    BY <1>2, FirstBlank DEF FrameOf
  <2>2. AfterIt(s) = <<>>
    <3>1. AfterIt(s) = SubSeq(s, Len(s) + 1, Len(s))
      BY <1>2 DEF AfterIt
    <3>2. Len(SubSeq(s, Len(s) + 1, Len(s))) = 0
      <4>1. Len(s) \in 0 .. Len(s)
        OBVIOUS
      <4> QED BY <4>1, CutInTwo
    <3> QED BY <2>1, <3>1, <3>2, EmptySeq
  <2>3. Extracted[<<>>] = [deltas |-> <<>>, rest |-> <<>>]
    <3>1. <<>> \in Seq(Bytes) /\ Blanks(<<>>) = {}
      BY DEF Blanks
    <3> QED BY <3>1, ExtractedDef
  <2>4. Extracted[s] = [deltas |-> DeltasOf(FrameOf(s)) \o Extracted[<<>>].deltas,
                        rest |-> Extracted[<<>>].rest]
    BY <2>2, ExtractedDef
  <2>5. DeltasOf(FrameOf(s)) \o <<>> = DeltasOf(FrameOf(s))
    BY <2>1, DeltasOfType, ConcatEmptySeq
  <2>6. Extracted[<<>>].deltas = <<>> /\ Extracted[<<>>].rest = <<>>
    BY <2>3
  <2>7. Extracted[s] = [deltas |-> DeltasOf(FrameOf(s)), rest |-> <<>>]
    BY <2>4, <2>5, <2>6
  <2> QED BY <2>1, <2>7
<1>4. ASSUME NEW p \in Seq(Packets), NEW q \in Seq(Packets), w = p \o q, NEW i \in Items
      PROVE TextOf(i, Extracted[Sent(p)].deltas) = TextOf(i, Completes(p))
  <2>1. /\ Sent(p) \in Seq(Bytes) /\ Len(Sent(p)) = Len(p)
        /\ Completes(p) \in Seq(Marks) /\ Len(Completes(p)) = Len(p)
        /\ \A k \in 1 .. Len(p) : Completes(p)[k] = p[k].whole
    BY PacketsType
  <2>2. Len(p) + Len(q) = Len(s) /\ Len(p) \in Nat /\ Len(q) \in Nat
        /\ \A k \in 1 .. Len(p) : w[k] = p[k]
    BY <1>1, <1>4, ConcatProperties
  <2>3. s = Sent(p) \o Sent(q) /\ Sent(q) \in Seq(Bytes)
    BY <1>1, <1>4, PacketsConcat, PacketsType
  <2>4. \A k \in 1 .. Len(p) : TextsFor(i, Completes(p))[k]
                                 = IF Completes(p)[k].item = i THEN Completes(p)[k].text ELSE <<>>
    BY <2>1, TextsForType
  <2>5. \A k \in 1 .. Len(p) : k # Len(s) => TextsFor(i, Completes(p))[k] = <<>>
    <3>1. \A k \in 1 .. Len(p) : k # Len(s) => Completes(p)[k] = NoDelta
      BY <1>1, <2>1, <2>2
    <3>2. NoDelta.text = <<>>
      BY DEF NoDelta
    <3> QED BY <2>4, <3>1, <3>2
  <2>6. TextsFor(i, Completes(p)) \in Seq(Texts) /\ Len(TextsFor(i, Completes(p))) = Len(p)
        /\ TextOf(i, Completes(p)) = FlattenSeq(TextsFor(i, Completes(p)))
    <3>1. TextsFor(i, Completes(p)) \in Seq(Texts) /\ Len(TextsFor(i, Completes(p))) = Len(p)
      BY <2>1, TextsForType
    <3>2. TextOf(i, Completes(p)) = FlattenSeq(TextsFor(i, Completes(p)))
      BY DEF TextOf, TextsFor
    <3> QED BY <3>1, <3>2
  <2>7. CASE Len(q) = 0
    <3>1. Len(p) = Len(s) /\ Len(p) \in 1 .. Len(p)
      BY <2>2, <2>7
    <3>2. Completes(p)[Len(p)] = d
      BY <1>1, <2>1, <2>2, <3>1
    <3>3. TextOf(i, Completes(p)) = IF d.item = i THEN d.text ELSE <<>>
      <4> DEFINE ts == TextsFor(i, Completes(p))
      <4>1. ts \in Seq(Texts) /\ Len(p) \in 1 .. Len(ts)
            /\ \A k \in 1 .. Len(ts) : k # Len(p) => ts[k] = <<>>
        BY <2>5, <2>6, <3>1
      <4> HIDE DEF ts
      <4>2. FlattenSeq(ts) = ts[Len(p)]
        BY <4>1, FlattenOnly
      <4> QED BY <2>4, <2>6, <3>1, <3>2, <4>2 DEF ts
    <3>4. TextOf(i, <<d>>) = IF d.item = i THEN d.text ELSE <<>>
      BY TextOfOne
    <3>5. Sent(p) = s
      <4>1. Sent(q) = <<>>
        BY <2>3, <2>7, PacketsType, EmptySeq
      <4> QED BY <2>1, <2>3, <4>1, ConcatEmptySeq
    <3> QED BY <1>3, <3>3, <3>4, <3>5
  <2>8. CASE Len(q) # 0
    <3>1. TextOf(i, Completes(p)) = <<>>
      <4>1. \A k \in 1 .. Len(p) : k # Len(s)
        BY <2>2, <2>8
      <4> QED BY <2>5, <2>6, <4>1, FlattenNothing
    <3>2. Blanks(Sent(p)) = {}
      <4> DEFINE a == Sent(p)
                 n == Min(Blanks(a))
      <4> SUFFICES ASSUME Blanks(a) # {} PROVE FALSE
        OBVIOUS
      <4>1. n = m /\ Width(s, n) = Width(a, n)
        BY <1>2, <2>1, <2>3, FirstBlankStays
      <4>2. n + Width(a, n) \in 1 .. Len(a) + 1
        BY <2>1, FirstBlank
      <4> QED BY <2>1, <2>2, <2>8, <4>1, <4>2
    <3>3. Extracted[Sent(p)] = [deltas |-> <<>>, rest |-> Sent(p)]
      BY <2>1, <3>2, ExtractedDef
    <3>4. Extracted[Sent(p)].deltas = <<>>
      BY <3>3
    <3> QED BY <3>1, <3>4, TextOfEmpty
  <2> QED BY <2>7, <2>8
<1>5. \A p \in Seq(Packets) : <<>> \o Sent(p) = Sent(p)
  BY PacketsType, ConcatEmptySeq
<1> QED BY <1>1, <1>3, <1>4, <1>5 DEF Faithful, w

LEMMA TextsCancel ==
  \A a, b, c, d \in Texts : a = b /\ a \o c = b \o d => c = d
<1>1. \A a, c, d \in Texts : a \o c = a \o d => c = d
  BY ConcatSimplifications DEF Texts
<1> QED BY <1>1

LEMMA BytesAssociative ==
  \A x, y, z \in Seq(Bytes) : x \o (y \o z) = (x \o y) \o z
BY ConcatAssociative

LEMMA PacketsAssociative ==
  \A x, y, z \in Seq(Packets) : (x \o y) \o z = x \o (y \o z)
BY ConcatAssociative

\* More on the way.
LEMMA FaithfulMore ==
  ASSUME NEW b \in Seq(Bytes), NEW w \in Seq(Packets), NEW f \in Seq(Packets),
         Faithful(b, w), Faithful(<<>>, f)
  PROVE  Faithful(b, w \o f)
<1> DEFINE x == b \o Sent(w)
<1>1. Sent(w) \in Seq(Bytes) /\ x \in Seq(Bytes) /\ Extracted[x].rest = <<>>
      /\ Sent(f) \in Seq(Bytes) /\ w \o <<>> = w /\ <<>> \in Seq(Packets)
  BY PacketsType, ConcatProperties, ConcatEmptySeq DEF Faithful
<1> HIDE DEF x
<1>2. ASSUME NEW r \in Seq(Packets)
      PROVE /\ Extracted[b \o Sent(w \o r)].deltas
                 = Extracted[x].deltas \o Extracted[<<>> \o Sent(r)].deltas
            /\ Extracted[b \o Sent(w \o r)].rest = Extracted[<<>> \o Sent(r)].rest
  <2>1. Sent(r) \in Seq(Bytes) /\ Sent(w \o r) = Sent(w) \o Sent(r)
    BY PacketsType, PacketsConcat
  <2>2. b \o Sent(w \o r) = x \o Sent(r)
    <3>1. Sent(w) \in Seq(Bytes)
      BY PacketsType
    <3>2. b \o (Sent(w) \o Sent(r)) = (b \o Sent(w)) \o Sent(r)
      BY <2>1, <3>1, BytesAssociative
    <3> QED BY <2>1, <3>2 DEF x
  <2>3. CutAt(x, Sent(r))
    BY <1>1, <2>1, ExtractedCut
  <2> QED BY <1>1, <2>2, <2>3 DEF CutAt
<1>3. Extracted[b \o Sent(w \o f)].rest = <<>>
  BY <1>2 DEF Faithful
<1>4. ASSUME NEW p \in Seq(Packets), NEW q \in Seq(Packets), w \o f = p \o q, NEW i \in Items
      PROVE TextOf(i, Extracted[b \o Sent(p)].deltas) = TextOf(i, Completes(p))
  <2>1. CASE \E r \in Seq(Packets) : w = p \o r
    BY <2>1 DEF Faithful
  <2>2. CASE \E r \in Seq(Packets) : p = w \o r /\ f = r \o q
    <3>1. PICK r \in Seq(Packets) : p = w \o r /\ f = r \o q
      BY <2>2
    <3> DEFINE u == Extracted[x].deltas
               v == Extracted[<<>> \o Sent(r)].deltas
    <3>2. Extracted[b \o Sent(p)].deltas = u \o v
      BY <1>2, <3>1
    <3>3. Completes(p) = Completes(w) \o Completes(r)
      BY <3>1, PacketsConcat
    <3>4. u \in Seq(Marks) /\ v \in Seq(Marks) /\ Completes(w) \in Seq(Marks) /\ Completes(r) \in Seq(Marks)
      <4>1. <<>> \o Sent(r) \in Seq(Bytes)
        BY PacketsType, ConcatProperties
      <4> QED BY <1>1, <4>1, ExtractedType, PacketsType
    <3>5. TextOf(i, u) = TextOf(i, Completes(w))
      BY <1>1 DEF Faithful, x
    <3>6. TextOf(i, v) = TextOf(i, Completes(r))
      BY <3>1 DEF Faithful
    <3> HIDE DEF u, v
    <3>7. TextOf(i, u \o v) = TextOf(i, u) \o TextOf(i, v)
      BY <3>4, TextOfConcat
    <3>8. TextOf(i, Completes(w) \o Completes(r)) = TextOf(i, Completes(w)) \o TextOf(i, Completes(r))
      BY <3>4, TextOfConcat
    <3> QED BY <3>2, <3>3, <3>5, <3>6, <3>7, <3>8
  <2>3. \/ \E r \in Seq(Packets) : w = p \o r
        \/ \E r \in Seq(Packets) : p = w \o r /\ f = r \o q
    <3>1. TwoWays(Packets, w, f, p, q)
      BY <1>4, TwoCuts, Zenon
    <3> QED BY <3>1 DEF TwoWays
  <2> QED BY <2>1, <2>2, <2>3
<1> QED BY <1>3, <1>4 DEF Faithful

\* Some of it has arrived.
LEMMA FaithfulBehind ==
  ASSUME NEW b \in Seq(Bytes), NEW p \in Seq(Packets), NEW q \in Seq(Packets),
         Faithful(b, p \o q)
  PROVE  /\ \A i \in Items : TextOf(i, Extracted[b \o Sent(p)].deltas) = TextOf(i, Completes(p))
         /\ Faithful(Extracted[b \o Sent(p)].rest, q)
<1> DEFINE x == b \o Sent(p)
           e == Extracted[x].rest
<1>1. Sent(p) \in Seq(Bytes) /\ x \in Seq(Bytes) /\ e \in Seq(Bytes)
  <2>1. Sent(p) \in Seq(Bytes)
    BY PacketsType
  <2>2. x \in Seq(Bytes)
    BY <2>1, ConcatProperties
  <2> QED BY <2>1, <2>2, ExtractedType
<1>2. \A i \in Items : TextOf(i, Extracted[x].deltas) = TextOf(i, Completes(p))
  BY DEF Faithful
<1> HIDE DEF x, e
<1>3. ASSUME NEW r \in Seq(Packets)
      PROVE /\ Extracted[b \o Sent(p \o r)].deltas = Extracted[x].deltas \o Extracted[e \o Sent(r)].deltas
            /\ Extracted[b \o Sent(p \o r)].rest = Extracted[e \o Sent(r)].rest
  <2>1. Sent(r) \in Seq(Bytes) /\ Sent(p \o r) = Sent(p) \o Sent(r)
    BY PacketsType, PacketsConcat
  <2>2. b \o Sent(p \o r) = x \o Sent(r)
    <3>1. Sent(p) \in Seq(Bytes)
      BY PacketsType
    <3>2. b \o (Sent(p) \o Sent(r)) = (b \o Sent(p)) \o Sent(r)
      BY <2>1, <3>1, BytesAssociative
    <3> QED BY <2>1, <3>2 DEF x
  <2>3. CutAt(x, Sent(r))
    BY <1>1, <2>1, ExtractedCut
  <2> QED BY <2>2, <2>3 DEF CutAt, e
<1>4. Extracted[e \o Sent(q)].rest = <<>>
  BY <1>3 DEF Faithful
<1>5. ASSUME NEW r \in Seq(Packets), NEW s \in Seq(Packets), q = r \o s, NEW i \in Items
      PROVE TextOf(i, Extracted[e \o Sent(r)].deltas) = TextOf(i, Completes(r))
  <2> DEFINE u == Extracted[x].deltas
             v == Extracted[e \o Sent(r)].deltas
  <2>1. p \o q = (p \o r) \o s /\ p \o r \in Seq(Packets)
    BY <1>5, PacketsAssociative, ConcatProperties
  <2>2. TextOf(i, Extracted[b \o Sent(p \o r)].deltas) = TextOf(i, Completes(p \o r))
    BY <2>1 DEF Faithful
  <2>3. Completes(p \o r) = Completes(p) \o Completes(r)
    BY PacketsConcat
  <2>4. u \in Seq(Marks) /\ v \in Seq(Marks) /\ Completes(p) \in Seq(Marks) /\ Completes(r) \in Seq(Marks)
    <3>1. e \o Sent(r) \in Seq(Bytes)
      BY <1>1, PacketsType, ConcatProperties
    <3> QED BY <1>1, <3>1, ExtractedType, PacketsType
  <2>5. Extracted[b \o Sent(p \o r)].deltas = u \o v
    BY <1>3
  <2>6. TextOf(i, u) = TextOf(i, Completes(p))
    BY <1>2
  <2> HIDE DEF u, v
  <2>7. TextOf(i, u \o v) = TextOf(i, u) \o TextOf(i, v)
    BY <2>4, TextOfConcat
  <2>8. TextOf(i, Completes(p) \o Completes(r)) = TextOf(i, Completes(p)) \o TextOf(i, Completes(r))
    BY <2>4, TextOfConcat
  <2>9. TextOf(i, u) \in Texts /\ TextOf(i, v) \in Texts /\ TextOf(i, Completes(p)) \in Texts
        /\ TextOf(i, Completes(r)) \in Texts
    BY <2>4, TextOfType
  <2>10. TextOf(i, u) \o TextOf(i, v) = TextOf(i, Completes(p)) \o TextOf(i, Completes(r))
    BY <2>2, <2>3, <2>5, <2>7, <2>8
  <2>11. TextOf(i, v) = TextOf(i, Completes(r))
    BY <2>6, <2>9, <2>10, TextsCancel
  <2> QED BY <2>11 DEF v
<1> QED BY <1>2, <1>4, <1>5 DEF Faithful, x, e

Data(i, text) == Byte("data", i, text)

LEMMA DataType ==
  ASSUME NEW i \in Items, NEW text \in Texts
  PROVE  /\ Data(i, text) \in Bytes /\ Data(i, text).is = "data" /\ Data(i, text).text = text
         /\ Data(i, text) # LF /\ Data(i, text) # CR
<1>1. Data(i, text).is = "data" /\ Data(i, text).text = text /\ Data(i, text) \in Bytes
  BY DEF Data, Byte, Bytes
<1> QED BY <1>1, ByteType

\* A frame by its bytes: the only blank line is the one that ends it.
Named(e, x) == <<EventName>> \o e \o (<<x>> \o e) \o e
Quiet(e) == <<Comment>> \o e \o e
TwoLines(e, x, y) == e \o (<<x>> \o e) \o (<<y>> \o e) \o e
NamedLF(x) == Named(<<LF>>, x)
NamedCRLF(x) == Named(<<CR, LF>>, x)
QuietLF == Quiet(<<LF>>)
QuietCRLF == Quiet(<<CR, LF>>)
TwoLinesLF(x, y) == TwoLines(<<LF>>, x, y)
TwoLinesCRLF(x, y) == TwoLines(<<CR, LF>>, x, y)

LEMMA OthersAreNoLineEnd ==
  /\ EventName # LF /\ EventName # CR /\ Comment # LF /\ Comment # CR /\ CR # LF
BY DEF EventName, Comment, LF, CR, Byte

LEMMA FirstPart ==
  ASSUME NEW S, NEW s \in Seq(S), NEW t \in Seq(S), Len(t) <= Len(s),
         \A k \in 1 .. Len(t) : s[k] = t[k]
  PROVE  SubSeq(s, 1, Len(t)) = t
<1> DEFINE n == Len(t)
           u == SubSeq(s, 1, n)
<1>1. n \in 0 .. Len(s)
  OBVIOUS
<1> HIDE DEF n
<1>2. u \in Seq(S) /\ Len(u) = n /\ \A k \in 1 .. n : u[k] = s[k]
  BY <1>1, CutInTwo
<1> HIDE DEF u
<1>3. u = t
  BY <1>2, SeqEqual DEF n
<1> QED BY <1>3 DEF u, n

\* A frame's bytes g and the blank line of k bytes that ends it.
OneBlank(s, n, k, g) ==
  /\ s \in Seq(Bytes) /\ Len(s) = n + k
  /\ Blanks(s) = {n + 1} /\ Width(s, n + 1) = k
  /\ SubSeq(s, 1, n) = g

LEMMA NamedLFBlank ==
  ASSUME NEW x \in Bytes, x # LF, x # CR
  PROVE  OneBlank(NamedLF(x), 3, 2, <<EventName, LF, x>>)
<1> DEFINE s == NamedLF(x)
<1>1. s \in Seq(Bytes)
  BY ByteType DEF NamedLF, Named
<1>2. Len(s) = 5 /\ s[1] = EventName /\ s[2] = LF /\ s[3] = x /\ s[4] = LF /\ s[5] = LF
  BY ByteType DEF NamedLF, Named
<1> HIDE DEF s
<1>3. SubSeq(s, 1, 3) = <<EventName, LF, x>>
  <2> DEFINE t == <<EventName, LF, x>>
  <2>1. t \in Seq(Bytes)
    BY ByteType
  <2>2. Len(t) = 3 /\ t[1] = EventName /\ t[2] = LF /\ t[3] = x
    OBVIOUS
  <2> HIDE DEF t
  <2>3. Len(t) <= Len(s) /\ 1 .. Len(t) = {1, 2, 3}
    BY <1>2, <2>2
  <2>4. \A k \in 1 .. Len(t) : s[k] = t[k]
    BY <1>2, <2>2, <2>3
  <2>5. SubSeq(s, 1, Len(t)) = t
    BY <1>1, <2>1, <2>3, <2>4, FirstPart
  <2> QED BY <2>2, <2>5 DEF t
<1>4. Short(s, 4) /\ ~Short(s, 1) /\ ~Short(s, 2) /\ ~Short(s, 3) /\ ~Short(s, 5)
  BY <1>2, OthersAreNoLineEnd DEF Short
<1>5. ~Long(s, 1) /\ ~Long(s, 2) /\ ~Long(s, 3) /\ ~Long(s, 4) /\ ~Long(s, 5)
  BY <1>2, OthersAreNoLineEnd DEF Long
<1>6. 1 .. Len(s) = {1, 2, 3, 4, 5}
  BY <1>2
<1>7. Blanks(s) = {4} /\ Width(s, 4) = 2
  BY <1>4, <1>5, <1>6 DEF Blanks, Width
<1>8. 3 + 2 = Len(s) /\ 3 + 1 = 4
  BY <1>2
<1> QED BY <1>1, <1>3, <1>7, <1>8 DEF s, OneBlank

LEMMA NamedCRLFBlank ==
  ASSUME NEW x \in Bytes, x # LF, x # CR
  PROVE  OneBlank(NamedCRLF(x), 4, 4, <<EventName, CR, LF, x>>)
<1> DEFINE s == NamedCRLF(x)
<1>1. s \in Seq(Bytes)
  BY ByteType DEF NamedCRLF, Named
<1>2. Len(s) = 8 /\ s[1] = EventName /\ s[2] = CR /\ s[3] = LF /\ s[4] = x /\ s[5] = CR /\ s[6] = LF
      /\ s[7] = CR /\ s[8] = LF
  BY ByteType DEF NamedCRLF, Named
<1> HIDE DEF s
<1>3. SubSeq(s, 1, 4) = <<EventName, CR, LF, x>>
  <2> DEFINE t == <<EventName, CR, LF, x>>
  <2>1. t \in Seq(Bytes)
    BY ByteType
  <2>2. Len(t) = 4 /\ t[1] = EventName /\ t[2] = CR /\ t[3] = LF /\ t[4] = x
    OBVIOUS
  <2> HIDE DEF t
  <2>3. Len(t) <= Len(s) /\ 1 .. Len(t) = {1, 2, 3, 4}
    BY <1>2, <2>2
  <2>4. \A k \in 1 .. Len(t) : s[k] = t[k]
    BY <1>2, <2>2, <2>3
  <2>5. SubSeq(s, 1, Len(t)) = t
    BY <1>1, <2>1, <2>3, <2>4, FirstPart
  <2> QED BY <2>2, <2>5 DEF t
<1>4. /\ ~Short(s, 1) /\ ~Short(s, 2) /\ ~Short(s, 3) /\ ~Short(s, 4) /\ ~Short(s, 5) /\ ~Short(s, 6)
      /\ ~Short(s, 7) /\ ~Short(s, 8)
  BY <1>2, OthersAreNoLineEnd DEF Short
<1>5. /\ ~Long(s, 1) /\ ~Long(s, 2) /\ ~Long(s, 3) /\ ~Long(s, 4) /\ Long(s, 5) /\ ~Long(s, 6)
      /\ ~Long(s, 7) /\ ~Long(s, 8)
  BY <1>2, OthersAreNoLineEnd DEF Long
<1>6. 1 .. Len(s) = {1, 2, 3, 4, 5, 6, 7, 8}
  BY <1>2
<1>7. Blanks(s) = {5} /\ Width(s, 5) = 4
  BY <1>4, <1>5, <1>6 DEF Blanks, Width
<1>8. 4 + 4 = Len(s) /\ 4 + 1 = 5
  BY <1>2
<1> QED BY <1>1, <1>3, <1>7, <1>8 DEF s, OneBlank

LEMMA QuietLFBlank ==
  OneBlank(QuietLF, 1, 2, <<Comment>>)
<1> DEFINE s == QuietLF
<1>1. s \in Seq(Bytes)
  BY ByteType DEF QuietLF, Quiet
<1>2. Len(s) = 3 /\ s[1] = Comment /\ s[2] = LF /\ s[3] = LF
  BY ByteType DEF QuietLF, Quiet
<1> HIDE DEF s
<1>3. SubSeq(s, 1, 1) = <<Comment>>
  <2> DEFINE t == <<Comment>>
  <2>1. t \in Seq(Bytes)
    BY ByteType
  <2>2. Len(t) = 1 /\ t[1] = Comment
    OBVIOUS
  <2> HIDE DEF t
  <2>3. Len(t) <= Len(s) /\ 1 .. Len(t) = {1}
    BY <1>2, <2>2
  <2>4. \A k \in 1 .. Len(t) : s[k] = t[k]
    BY <1>2, <2>2, <2>3
  <2>5. SubSeq(s, 1, Len(t)) = t
    BY <1>1, <2>1, <2>3, <2>4, FirstPart
  <2> QED BY <2>2, <2>5 DEF t
<1>4. ~Short(s, 1) /\ Short(s, 2) /\ ~Short(s, 3)
  BY <1>2, OthersAreNoLineEnd DEF Short
<1>5. ~Long(s, 1) /\ ~Long(s, 2) /\ ~Long(s, 3)
  BY <1>2, OthersAreNoLineEnd DEF Long
<1>6. 1 .. Len(s) = {1, 2, 3}
  BY <1>2
<1>7. Blanks(s) = {2} /\ Width(s, 2) = 2
  BY <1>4, <1>5, <1>6 DEF Blanks, Width
<1>8. 1 + 2 = Len(s) /\ 1 + 1 = 2
  BY <1>2
<1> QED BY <1>1, <1>3, <1>7, <1>8 DEF s, OneBlank

LEMMA QuietCRLFBlank ==
  OneBlank(QuietCRLF, 1, 4, <<Comment>>)
<1> DEFINE s == QuietCRLF
<1>1. s \in Seq(Bytes)
  BY ByteType DEF QuietCRLF, Quiet
<1>2. Len(s) = 5 /\ s[1] = Comment /\ s[2] = CR /\ s[3] = LF /\ s[4] = CR /\ s[5] = LF
  BY ByteType DEF QuietCRLF, Quiet
<1> HIDE DEF s
<1>3. SubSeq(s, 1, 1) = <<Comment>>
  <2> DEFINE t == <<Comment>>
  <2>1. t \in Seq(Bytes)
    BY ByteType
  <2>2. Len(t) = 1 /\ t[1] = Comment
    OBVIOUS
  <2> HIDE DEF t
  <2>3. Len(t) <= Len(s) /\ 1 .. Len(t) = {1}
    BY <1>2, <2>2
  <2>4. \A k \in 1 .. Len(t) : s[k] = t[k]
    BY <1>2, <2>2, <2>3
  <2>5. SubSeq(s, 1, Len(t)) = t
    BY <1>1, <2>1, <2>3, <2>4, FirstPart
  <2> QED BY <2>2, <2>5 DEF t
<1>4. ~Short(s, 1) /\ ~Short(s, 2) /\ ~Short(s, 3) /\ ~Short(s, 4) /\ ~Short(s, 5)
  BY <1>2, OthersAreNoLineEnd DEF Short
<1>5. ~Long(s, 1) /\ Long(s, 2) /\ ~Long(s, 3) /\ ~Long(s, 4) /\ ~Long(s, 5)
  BY <1>2, OthersAreNoLineEnd DEF Long
<1>6. 1 .. Len(s) = {1, 2, 3, 4, 5}
  BY <1>2
<1>7. Blanks(s) = {2} /\ Width(s, 2) = 4
  BY <1>4, <1>5, <1>6 DEF Blanks, Width
<1>8. 1 + 4 = Len(s) /\ 1 + 1 = 2
  BY <1>2
<1> QED BY <1>1, <1>3, <1>7, <1>8 DEF s, OneBlank

LEMMA TwoLinesLFBlank ==
  ASSUME NEW x \in Bytes, x # LF, x # CR, NEW y \in Bytes, y # LF, y # CR
  PROVE  OneBlank(TwoLinesLF(x, y), 4, 2, <<LF, x, LF, y>>)
<1> DEFINE s == TwoLinesLF(x, y)
<1>1. s \in Seq(Bytes)
  BY ByteType DEF TwoLinesLF, TwoLines
<1>2. Len(s) = 6 /\ s[1] = LF /\ s[2] = x /\ s[3] = LF /\ s[4] = y /\ s[5] = LF /\ s[6] = LF
  BY ByteType DEF TwoLinesLF, TwoLines
<1> HIDE DEF s
<1>3. SubSeq(s, 1, 4) = <<LF, x, LF, y>>
  <2> DEFINE t == <<LF, x, LF, y>>
  <2>1. t \in Seq(Bytes)
    BY ByteType
  <2>2. Len(t) = 4 /\ t[1] = LF /\ t[2] = x /\ t[3] = LF /\ t[4] = y
    OBVIOUS
  <2> HIDE DEF t
  <2>3. Len(t) <= Len(s) /\ 1 .. Len(t) = {1, 2, 3, 4}
    BY <1>2, <2>2
  <2>4. \A k \in 1 .. Len(t) : s[k] = t[k]
    BY <1>2, <2>2, <2>3
  <2>5. SubSeq(s, 1, Len(t)) = t
    BY <1>1, <2>1, <2>3, <2>4, FirstPart
  <2> QED BY <2>2, <2>5 DEF t
<1>4. /\ ~Short(s, 1) /\ ~Short(s, 2) /\ ~Short(s, 3) /\ ~Short(s, 4) /\ Short(s, 5) /\ ~Short(s, 6)
  BY <1>2, OthersAreNoLineEnd DEF Short
<1>5. /\ ~Long(s, 1) /\ ~Long(s, 2) /\ ~Long(s, 3) /\ ~Long(s, 4) /\ ~Long(s, 5) /\ ~Long(s, 6)
  BY <1>2, OthersAreNoLineEnd DEF Long
<1>6. 1 .. Len(s) = {1, 2, 3, 4, 5, 6}
  BY <1>2
<1>7. Blanks(s) = {5} /\ Width(s, 5) = 2
  BY <1>4, <1>5, <1>6 DEF Blanks, Width
<1>8. 4 + 2 = Len(s) /\ 4 + 1 = 5
  BY <1>2
<1> QED BY <1>1, <1>3, <1>7, <1>8 DEF s, OneBlank

LEMMA TwoLinesCRLFBlank ==
  ASSUME NEW x \in Bytes, x # LF, x # CR, NEW y \in Bytes, y # LF, y # CR
  PROVE  OneBlank(TwoLinesCRLF(x, y), 6, 4, <<CR, LF, x, CR, LF, y>>)
<1> DEFINE s == TwoLinesCRLF(x, y)
<1>1. s \in Seq(Bytes)
  BY ByteType DEF TwoLinesCRLF, TwoLines
<1>2. /\ Len(s) = 10 /\ s[1] = CR /\ s[2] = LF /\ s[3] = x /\ s[4] = CR /\ s[5] = LF /\ s[6] = y
      /\ s[7] = CR /\ s[8] = LF /\ s[9] = CR /\ s[10] = LF
  BY ByteType DEF TwoLinesCRLF, TwoLines
<1> HIDE DEF s
<1>3. SubSeq(s, 1, 6) = <<CR, LF, x, CR, LF, y>>
  <2> DEFINE t == <<CR, LF, x, CR, LF, y>>
  <2>1. t \in Seq(Bytes)
    BY ByteType
  <2>2. Len(t) = 6 /\ t[1] = CR /\ t[2] = LF /\ t[3] = x /\ t[4] = CR /\ t[5] = LF /\ t[6] = y
    OBVIOUS
  <2> HIDE DEF t
  <2>3. Len(t) <= Len(s) /\ 1 .. Len(t) = {1, 2, 3, 4, 5, 6}
    BY <1>2, <2>2
  <2>4. \A k \in 1 .. Len(t) : s[k] = t[k]
    BY <1>2, <2>2, <2>3
  <2>5. SubSeq(s, 1, Len(t)) = t
    BY <1>1, <2>1, <2>3, <2>4, FirstPart
  <2> QED BY <2>2, <2>5 DEF t
<1>4. /\ ~Short(s, 1) /\ ~Short(s, 2) /\ ~Short(s, 3) /\ ~Short(s, 4) /\ ~Short(s, 5) /\ ~Short(s, 6)
      /\ ~Short(s, 7) /\ ~Short(s, 8) /\ ~Short(s, 9) /\ ~Short(s, 10)
  BY <1>2, OthersAreNoLineEnd DEF Short
<1>5. /\ ~Long(s, 1) /\ ~Long(s, 2) /\ ~Long(s, 3) /\ ~Long(s, 4) /\ ~Long(s, 5) /\ ~Long(s, 6)
      /\ Long(s, 7) /\ ~Long(s, 8) /\ ~Long(s, 9) /\ ~Long(s, 10)
  BY <1>2, OthersAreNoLineEnd DEF Long
<1>6. 1 .. Len(s) = {1, 2, 3, 4, 5, 6, 7, 8, 9, 10}
  BY <1>2
<1>7. Blanks(s) = {7} /\ Width(s, 7) = 4
  BY <1>4, <1>5, <1>6 DEF Blanks, Width
<1>8. 6 + 4 = Len(s) /\ 6 + 1 = 7
  BY <1>2
<1> QED BY <1>1, <1>3, <1>7, <1>8 DEF s, OneBlank

\* The frame's data says what its last byte completes.
SaysIt(g, d) == \A i \in Items : TextOf(i, DeltasOf(g)) = TextOf(i, <<d>>)

LEMMA LoneFrameSays ==
  ASSUME NEW s, NEW d \in Marks, NEW n \in Nat, NEW k \in Nat \ {0}, NEW g,
         OneBlank(s, n, k, g), SaysIt(g, d)
  PROVE  Faithful(<<>>, Packed(s, d))
<1> DEFINE m == n + 1
<1>1. s \in Seq(Bytes) /\ Len(s) = n + k /\ Blanks(s) = {m} /\ Width(s, m) = k
      /\ SubSeq(s, 1, n) = g
  BY DEF OneBlank
<1>2. m \in 1 .. Len(s) /\ m + Width(s, m) = Len(s) + 1 /\ m - 1 = n
  BY <1>1
<1> HIDE DEF m
<1>3. \A i \in Items : TextOf(i, DeltasOf(SubSeq(s, 1, m - 1))) = TextOf(i, <<d>>)
  BY <1>1, <1>2 DEF SaysIt
<1> QED BY <1>1, <1>2, <1>3, LoneFrame

LEMMA OneSays ==
  ASSUME NEW g \in Seq(Bytes), NEW j \in 1 .. Len(g), NEW i \in Items, NEW text \in Texts,
         g[j] = Data(i, text),
         \A k \in 1 .. Len(g) : g[k].is = "data" => k = j \/ (j < k /\ g[k].text = <<>>)
  PROVE  SaysIt(g, [item |-> i, text |-> text])
<1>1. g[j] = Byte("data", i, text)
  BY DEF Data
<1>2. DeltasOf(g) = <<[item |-> i, text |-> text]>>
  BY <1>1, DeltasOfOne
<1> QED BY <1>2 DEF SaysIt

LEMMA NoneSays ==
  ASSUME NEW g \in Seq(Bytes), \A k \in 1 .. Len(g) : g[k].is # "data"
  PROVE  SaysIt(g, NoDelta)
<1> SUFFICES ASSUME NEW i \in Items PROVE TextOf(i, DeltasOf(g)) = TextOf(i, <<NoDelta>>)
  BY DEF SaysIt
<1>1. TextOf(i, <<NoDelta>>) = <<>>
  <2>1. NoDelta \in Marks /\ NoDelta.text = <<>>
    BY DEF Marks, NoDelta
  <2> QED BY <2>1, TextOfOne
<1> QED BY <1>1, DeltasOfNone, TextOfEmpty

LEMMA NamedFaithful ==
  ASSUME NEW i \in Items, NEW text \in Texts
  PROVE  /\ Faithful(<<>>, Packed(NamedLF(Data(i, text)), [item |-> i, text |-> text]))
         /\ Faithful(<<>>, Packed(NamedCRLF(Data(i, text)), [item |-> i, text |-> text]))
<1> DEFINE x == Data(i, text)
           d == [item |-> i, text |-> text]
<1>1. x \in Bytes /\ x # LF /\ x # CR /\ d \in Marks
  BY DataType DEF Marks, Deltas
<1>2. SaysIt(<<EventName, LF, x>>, d)
  <2> DEFINE g == <<EventName, LF, x>>
  <2>1. g \in Seq(Bytes) /\ Len(g) = 3 /\ g[1] = EventName /\ g[2] = LF /\ g[3] = x
    BY <1>1, ByteType
  <2> HIDE DEF g
  <2>2. 1 .. Len(g) = {1, 2, 3} /\ 3 \in 1 .. Len(g)
    BY <2>1
  <2>3. \A k \in 1 .. Len(g) : g[k].is = "data" => k = 3
    BY <2>1, <2>2, ByteType
  <2>4. SaysIt(g, d)
    BY <2>1, <2>2, <2>3, OneSays
  <2> QED BY <2>4 DEF g
<1>3. SaysIt(<<EventName, CR, LF, x>>, d)
  <2> DEFINE g == <<EventName, CR, LF, x>>
  <2>1. g \in Seq(Bytes) /\ Len(g) = 4 /\ g[1] = EventName /\ g[2] = CR /\ g[3] = LF /\ g[4] = x
    BY <1>1, ByteType
  <2> HIDE DEF g
  <2>2. 1 .. Len(g) = {1, 2, 3, 4} /\ 4 \in 1 .. Len(g)
    BY <2>1
  <2>3. \A k \in 1 .. Len(g) : g[k].is = "data" => k = 4
    BY <2>1, <2>2, ByteType
  <2>4. SaysIt(g, d)
    BY <2>1, <2>2, <2>3, OneSays
  <2> QED BY <2>4 DEF g
<1> HIDE DEF x, d
<1>4. Faithful(<<>>, Packed(NamedLF(x), d))
  <2> DEFINE s == NamedLF(x)
             g == <<EventName, LF, x>>
  <2>1. OneBlank(s, 3, 2, g)
    BY <1>1, NamedLFBlank
  <2>2. SaysIt(g, d) /\ 3 \in Nat /\ 2 \in Nat \ {0}
    BY <1>2
  <2> HIDE DEF s, g
  <2> QED BY <1>1, <2>1, <2>2, LoneFrameSays DEF s
<1>5. Faithful(<<>>, Packed(NamedCRLF(x), d))
  <2> DEFINE s == NamedCRLF(x)
             g == <<EventName, CR, LF, x>>
  <2>1. OneBlank(s, 4, 4, g)
    BY <1>1, NamedCRLFBlank
  <2>2. SaysIt(g, d) /\ 4 \in Nat /\ 4 \in Nat \ {0}
    BY <1>3
  <2> HIDE DEF s, g
  <2> QED BY <1>1, <2>1, <2>2, LoneFrameSays DEF s
<1> QED BY <1>4, <1>5 DEF x, d

LEMMA QuietFaithful ==
  /\ Faithful(<<>>, Packed(QuietLF, NoDelta))
  /\ Faithful(<<>>, Packed(QuietCRLF, NoDelta))
<1>1. NoDelta \in Marks
  BY DEF Marks
<1>2. SaysIt(<<Comment>>, NoDelta)
  <2> DEFINE g == <<Comment>>
  <2>1. g \in Seq(Bytes) /\ \A k \in 1 .. Len(g) : g[k].is # "data"
    BY ByteType
  <2> HIDE DEF g
  <2>2. SaysIt(g, NoDelta)
    BY <2>1, NoneSays
  <2> QED BY <2>2 DEF g
<1>3. Faithful(<<>>, Packed(QuietLF, NoDelta))
  <2> DEFINE s == QuietLF
             g == <<Comment>>
  <2>1. OneBlank(s, 1, 2, g)
    BY QuietLFBlank
  <2>2. SaysIt(g, NoDelta) /\ 1 \in Nat /\ 2 \in Nat \ {0}
    BY <1>2
  <2> HIDE DEF s, g
  <2> QED BY <1>1, <2>1, <2>2, LoneFrameSays DEF s
<1>4. Faithful(<<>>, Packed(QuietCRLF, NoDelta))
  <2> DEFINE s == QuietCRLF
             g == <<Comment>>
  <2>1. OneBlank(s, 1, 4, g)
    BY QuietCRLFBlank
  <2>2. SaysIt(g, NoDelta) /\ 1 \in Nat /\ 4 \in Nat \ {0}
    BY <1>2
  <2> HIDE DEF s, g
  <2> QED BY <1>1, <2>1, <2>2, LoneFrameSays DEF s
<1> QED BY <1>3, <1>4

LEMMA TwoLinesFaithful ==
  ASSUME NEW i \in Items, NEW text \in Texts
  PROVE  /\ Faithful(<<>>, Packed(TwoLinesLF(Data(i, text), Data(i, <<>>)),
                                  [item |-> i, text |-> text]))
         /\ Faithful(<<>>, Packed(TwoLinesCRLF(Data(i, text), Data(i, <<>>)),
                                  [item |-> i, text |-> text]))
<1> DEFINE x == Data(i, text)
           y == Data(i, <<>>)
           d == [item |-> i, text |-> text]
<1>0. <<>> \in Texts
  BY DEF Texts
<1>1. /\ x \in Bytes /\ x # LF /\ x # CR /\ d \in Marks
      /\ y \in Bytes /\ y # LF /\ y # CR /\ y.text = <<>>
  BY <1>0, DataType DEF Marks, Deltas
<1>2. SaysIt(<<LF, x, LF, y>>, d)
  <2> DEFINE g == <<LF, x, LF, y>>
  <2>1. g \in Seq(Bytes) /\ Len(g) = 4 /\ g[1] = LF /\ g[2] = x /\ g[3] = LF /\ g[4] = y
    BY <1>1, ByteType
  <2> HIDE DEF g, y
  <2>2. 1 .. Len(g) = {1, 2, 3, 4} /\ 2 \in 1 .. Len(g)
    BY <2>1
  <2>3. \A k \in 1 .. Len(g) : g[k].is = "data" => k = 2 \/ (2 < k /\ g[k].text = <<>>)
    BY <1>1, <2>1, <2>2, ByteType
  <2>4. SaysIt(g, d)
    BY <2>1, <2>2, <2>3, OneSays
  <2> QED BY <2>4 DEF g
<1>3. SaysIt(<<CR, LF, x, CR, LF, y>>, d)
  <2> DEFINE g == <<CR, LF, x, CR, LF, y>>
  <2>1. g \in Seq(Bytes) /\ Len(g) = 6 /\ g[1] = CR /\ g[2] = LF /\ g[3] = x /\ g[4] = CR
        /\ g[5] = LF /\ g[6] = y
    BY <1>1, ByteType
  <2> HIDE DEF g, y
  <2>2. 1 .. Len(g) = {1, 2, 3, 4, 5, 6} /\ 3 \in 1 .. Len(g)
    BY <2>1
  <2>3. \A k \in 1 .. Len(g) : g[k].is = "data" => k = 3 \/ (3 < k /\ g[k].text = <<>>)
    BY <1>1, <2>1, <2>2, ByteType
  <2>4. SaysIt(g, d)
    BY <2>1, <2>2, <2>3, OneSays
  <2> QED BY <2>4 DEF g
<1> HIDE DEF x, y, d
<1>4. Faithful(<<>>, Packed(TwoLinesLF(x, y), d))
  <2> DEFINE s == TwoLinesLF(x, y)
             g == <<LF, x, LF, y>>
  <2>1. OneBlank(s, 4, 2, g)
    BY <1>1, TwoLinesLFBlank
  <2>2. SaysIt(g, d) /\ 4 \in Nat /\ 2 \in Nat \ {0}
    BY <1>2
  <2> HIDE DEF s, g
  <2> QED BY <1>1, <2>1, <2>2, LoneFrameSays DEF s
<1>5. Faithful(<<>>, Packed(TwoLinesCRLF(x, y), d))
  <2> DEFINE s == TwoLinesCRLF(x, y)
             g == <<CR, LF, x, CR, LF, y>>
  <2>1. OneBlank(s, 6, 4, g)
    BY <1>1, TwoLinesCRLFBlank
  <2>2. SaysIt(g, d) /\ 6 \in Nat /\ 4 \in Nat \ {0}
    BY <1>3
  <2> HIDE DEF s, g
  <2> QED BY <1>1, <2>1, <2>2, LoneFrameSays DEF s
<1> QED BY <1>4, <1>5 DEF x, y, d

\* Two frames on the wire, of which the second completes the delta.
LEMMA PackedTogether ==
  ASSUME NEW a \in Seq(Bytes), NEW b \in Seq(Bytes), b # <<>>, NEW d \in Marks
  PROVE  Packed(a \o b, d) = Packed(a, NoDelta) \o Packed(b, d)
<1> DEFINE c == a \o b
           x == Packed(a, NoDelta)
           y == Packed(b, d)
           z == Packed(c, d)
           P(byte, mark) == [byte |-> byte, whole |-> mark]
<1>1. /\ c \in Seq(Bytes) /\ Len(c) = Len(a) + Len(b) /\ Len(a) \in Nat /\ Len(b) \in Nat
      /\ \A k \in 1 .. Len(a) + Len(b) : c[k] = IF k <= Len(a) THEN a[k] ELSE b[k - Len(a)]
  BY ConcatProperties
<1>2. Len(b) # 0
  BY EmptySeq
<1>3. NoDelta \in Marks
  BY DEF Marks
<1> HIDE DEF c
<1>4. x \in Seq(Packets) /\ Len(x) = Len(a)
      /\ \A k \in 1 .. Len(a) : x[k] = P(a[k], IF k = Len(a) THEN NoDelta ELSE NoDelta)
  <2>1. x \in Seq(Packets) /\ Len(x) = Len(a)
    BY <1>3, PackedType
  <2> QED BY <2>1 DEF Packed
<1>5. y \in Seq(Packets) /\ Len(y) = Len(b)
      /\ \A k \in 1 .. Len(b) : y[k] = P(b[k], IF k = Len(b) THEN d ELSE NoDelta)
  <2>1. y \in Seq(Packets) /\ Len(y) = Len(b)
    BY PackedType
  <2>2. DOMAIN b = 1 .. Len(b)
    OBVIOUS
  <2>3. y = [k \in 1 .. Len(b) |-> P(b[k], IF k = Len(b) THEN d ELSE NoDelta)]
    BY <2>2 DEF Packed
  <2> HIDE DEF y, P
  <2> QED BY <2>1, <2>3
<1>6. z \in Seq(Packets) /\ Len(z) = Len(c)
      /\ \A k \in 1 .. Len(c) : z[k] = P(c[k], IF k = Len(c) THEN d ELSE NoDelta)
  <2>1. z \in Seq(Packets) /\ Len(z) = Len(c)
    BY <1>1, PackedType
  <2> QED BY <1>1, <2>1 DEF Packed
<1> HIDE DEF x, y, z, P
<1>7. ASSUME NEW k \in 1 .. Len(x) PROVE z[k] = x[k]
  <2>1. k \in 1 .. Len(c) /\ k # Len(c) /\ k \in 1 .. Len(a) /\ c[k] = a[k]
    BY <1>1, <1>2, <1>4
  <2> QED BY <1>4, <1>6, <2>1
<1>8. ASSUME NEW k \in 1 .. Len(y) PROVE z[Len(x) + k] = y[k]
  <2> DEFINE n == Len(x) + k
  <2>1. n \in 1 .. Len(c) /\ (n = Len(c) <=> k = Len(b)) /\ k \in 1 .. Len(b) /\ ~(n <= Len(a))
        /\ n - Len(a) = k
    <3>1. Len(x) = Len(a) /\ Len(y) = Len(b) /\ k \in 1 .. Len(b)
      BY <1>4, <1>5
    <3>2. Len(c) = Len(a) + Len(b) /\ Len(a) \in Nat /\ Len(b) \in Nat /\ n = Len(a) + k
          /\ k \in Nat /\ 1 <= k /\ k <= Len(b)
      BY <1>1, <3>1
    <3> HIDE DEF n
    <3>3. /\ n \in 1 .. Len(c)
          /\ n = Len(c) <=> k = Len(b)
          /\ ~(n <= Len(a))
          /\ n - Len(a) = k
      BY <3>2
    <3> QED BY <3>1, <3>3
  <2> HIDE DEF n
  <2>2. c[n] = b[k]
    BY <1>1, <2>1
  <2>3. z[n] = P(c[n], IF n = Len(c) THEN d ELSE NoDelta)
    BY <1>6, <2>1
  <2>4. y[k] = P(b[k], IF k = Len(b) THEN d ELSE NoDelta)
    BY <1>5, <2>1
  <2>5. z[n] = y[k]
    BY <2>1, <2>2, <2>3, <2>4
  <2> QED BY <2>5 DEF n
<1>9. z = x \o y
  <2>1. Len(z) = Len(x) + Len(y)
    BY <1>1, <1>4, <1>5, <1>6
  <2> QED BY <1>4, <1>5, <1>6, <1>7, <1>8, <2>1, Pieced
<1> QED BY <1>9 DEF x, y, z, c

\* The second shape of Frames is a comment frame and a frame behind it.
LEMMA QuietThenTwoLines ==
  ASSUME NEW e \in Seq(Bytes), NEW x \in Bytes, NEW y \in Bytes
  PROVE  <<Comment>> \o e \o e \o e \o (<<x>> \o e) \o (<<y>> \o e) \o e
           = Quiet(e) \o TwoLines(e, x, y)
<1> DEFINE q == <<Comment>> \o e \o e
           u == <<x>> \o e
           v == <<y>> \o e
<1>1. q \in Seq(Bytes) /\ u \in Seq(Bytes) /\ v \in Seq(Bytes)
  <2>1. <<Comment>> \in Seq(Bytes) /\ <<x>> \in Seq(Bytes) /\ <<y>> \in Seq(Bytes)
    BY ByteType
  <2>2. <<Comment>> \o e \in Seq(Bytes)
    BY <2>1, ConcatProperties
  <2> QED BY <2>1, <2>2, ConcatProperties
<1> HIDE DEF q, u, v
<1>2. e \o u \in Seq(Bytes) /\ (e \o u) \o v \in Seq(Bytes)
  <2>1. e \o u \in Seq(Bytes)
    BY <1>1, ConcatProperties
  <2> QED BY <1>1, <2>1, ConcatProperties
<1>3. q \o (e \o u) = (q \o e) \o u
  BY <1>1, BytesAssociative
<1>4. q \o ((e \o u) \o v) = (q \o (e \o u)) \o v
  BY <1>1, <1>2, BytesAssociative
<1>5. q \o (((e \o u) \o v) \o e) = (q \o ((e \o u) \o v)) \o e
  BY <1>1, <1>2, BytesAssociative
<1>6. q \o (((e \o u) \o v) \o e) = (((q \o e) \o u) \o v) \o e
  BY <1>3, <1>4, <1>5
<1> QED BY <1>6 DEF Quiet, TwoLines, q, u, v

\* Both ways a delta is put on the way.
LEMMA FramesFaithful ==
  ASSUME ends \in {<<LF>>, <<CR, LF>>}, NEW i \in Items, NEW text \in Texts,
         NEW s \in Frames(i, text)
  PROVE  s \in Seq(Bytes) /\ Faithful(<<>>, Packed(s, [item |-> i, text |-> text]))
<1> DEFINE x == Data(i, text)
           y == Data(i, <<>>)
           d == [item |-> i, text |-> text]
           named == <<EventName>> \o ends \o (<<x>> \o ends) \o ends
           lines == <<Comment>> \o ends \o ends \o ends \o (<<x>> \o ends) \o (<<y>> \o ends) \o ends
<1>0. <<>> \in Texts
  BY DEF Texts
<1>1. s = named \/ s = lines
  BY DEF Frames, Data
<1>2. /\ x \in Bytes /\ x # LF /\ x # CR /\ d \in Marks
      /\ y \in Bytes /\ y # LF /\ y # CR
  BY <1>0, DataType DEF Marks, Deltas
<1>3. /\ Faithful(<<>>, Packed(NamedLF(x), d)) /\ Faithful(<<>>, Packed(NamedCRLF(x), d))
      /\ Faithful(<<>>, Packed(TwoLinesLF(x, y), d)) /\ Faithful(<<>>, Packed(TwoLinesCRLF(x, y), d))
  BY NamedFaithful, TwoLinesFaithful
<1>4. /\ NamedLF(x) \in Seq(Bytes) /\ NamedCRLF(x) \in Seq(Bytes)
      /\ TwoLinesLF(x, y) \in Seq(Bytes) /\ TwoLinesCRLF(x, y) \in Seq(Bytes)
      /\ QuietLF \in Seq(Bytes) /\ QuietCRLF \in Seq(Bytes)
      /\ TwoLinesLF(x, y) # <<>> /\ TwoLinesCRLF(x, y) # <<>>
  <2>1. NamedLF(x) \in Seq(Bytes) /\ NamedCRLF(x) \in Seq(Bytes)
    BY <1>2, NamedLFBlank, NamedCRLFBlank DEF OneBlank
  <2>2. QuietLF \in Seq(Bytes) /\ QuietCRLF \in Seq(Bytes)
    BY QuietLFBlank, QuietCRLFBlank DEF OneBlank
  <2>3. TwoLinesLF(x, y) \in Seq(Bytes) /\ Len(TwoLinesLF(x, y)) = 4 + 2
    BY <1>2, TwoLinesLFBlank DEF OneBlank
  <2>4. TwoLinesCRLF(x, y) \in Seq(Bytes) /\ Len(TwoLinesCRLF(x, y)) = 6 + 4
    BY <1>2, TwoLinesCRLFBlank DEF OneBlank
  <2>5. Len(<<>>) # 4 + 2 /\ Len(<<>>) # 6 + 4
    OBVIOUS
  <2>6. TwoLinesLF(x, y) # <<>> /\ TwoLinesCRLF(x, y) # <<>>
    BY <2>3, <2>4, <2>5, Zenon
  <2> QED BY <2>1, <2>2, <2>3, <2>4, <2>6
<1>5. NoDelta \in Marks
  BY DEF Marks
<1> HIDE DEF x, y, d
<1>6. CASE ends = <<LF>>
  <2>1. named = NamedLF(x)
    BY <1>6 DEF NamedLF, Named
  <2>2. lines = QuietLF \o TwoLinesLF(x, y)
    <3>1. <<LF>> \in Seq(Bytes)
      BY ByteType
    <3>2. <<Comment>> \o <<LF>> \o <<LF>> \o <<LF>> \o (<<x>> \o <<LF>>) \o (<<y>> \o <<LF>>) \o <<LF>>
            = Quiet(<<LF>>) \o TwoLines(<<LF>>, x, y)
      BY <1>2, <3>1, QuietThenTwoLines
    <3> QED BY <1>6, <3>2 DEF QuietLF, TwoLinesLF
  <2>3. Packed(QuietLF \o TwoLinesLF(x, y), d)
          = Packed(QuietLF, NoDelta) \o Packed(TwoLinesLF(x, y), d)
    BY <1>2, <1>4, PackedTogether
  <2>4. Packed(QuietLF, NoDelta) \in Seq(Packets) /\ Packed(TwoLinesLF(x, y), d) \in Seq(Packets)
    BY <1>2, <1>4, <1>5, PackedType
  <2>5. Faithful(<<>>, Packed(QuietLF, NoDelta) \o Packed(TwoLinesLF(x, y), d))
    <3>1. <<>> \in Seq(Bytes)
      OBVIOUS
    <3> QED BY <1>3, <2>4, <3>1, QuietFaithful, FaithfulMore
  <2>6. QuietLF \o TwoLinesLF(x, y) \in Seq(Bytes)
    BY <1>4, ConcatProperties
  <2> HIDE DEF named, lines
  <2> QED BY <1>1, <1>3, <1>4, <2>1, <2>2, <2>3, <2>5, <2>6 DEF d
<1>7. CASE ends = <<CR, LF>>
  <2>1. named = NamedCRLF(x)
    BY <1>7 DEF NamedCRLF, Named
  <2>2. lines = QuietCRLF \o TwoLinesCRLF(x, y)
    <3>1. <<CR, LF>> \in Seq(Bytes)
      BY ByteType
    <3>2. <<Comment>> \o <<CR, LF>> \o <<CR, LF>> \o <<CR, LF>> \o (<<x>> \o <<CR, LF>>) \o (<<y>> \o <<CR, LF>>) \o <<CR, LF>>
            = Quiet(<<CR, LF>>) \o TwoLines(<<CR, LF>>, x, y)
      BY <1>2, <3>1, QuietThenTwoLines
    <3> QED BY <1>7, <3>2 DEF QuietCRLF, TwoLinesCRLF
  <2>3. Packed(QuietCRLF \o TwoLinesCRLF(x, y), d)
          = Packed(QuietCRLF, NoDelta) \o Packed(TwoLinesCRLF(x, y), d)
    BY <1>2, <1>4, PackedTogether
  <2>4. Packed(QuietCRLF, NoDelta) \in Seq(Packets) /\ Packed(TwoLinesCRLF(x, y), d) \in Seq(Packets)
    BY <1>2, <1>4, <1>5, PackedType
  <2>5. Faithful(<<>>, Packed(QuietCRLF, NoDelta) \o Packed(TwoLinesCRLF(x, y), d))
    <3>1. <<>> \in Seq(Bytes)
      OBVIOUS
    <3> QED BY <1>3, <2>4, <3>1, QuietFaithful, FaithfulMore
  <2>6. QuietCRLF \o TwoLinesCRLF(x, y) \in Seq(Bytes)
    BY <1>4, ConcatProperties
  <2> HIDE DEF named, lines
  <2> QED BY <1>1, <1>3, <1>4, <2>1, <2>2, <2>3, <2>5, <2>6 DEF d
<1> QED BY <1>6, <1>7

-----------------------------------------------------------------------------
(* The invariant.                                                           *)

\* The types of the variables.
TypeOK ==
  /\ ends \in {<<LF>>, <<CR, LF>>}
  /\ wire \in Seq(Packets)
  /\ left \in 0 .. MaxText
  /\ buffer \in Seq(Bytes)
  /\ filters \in [Items -> Filters]
  /\ shown \in [Items -> Texts]
  /\ heard \in [Items -> Texts]

\* Whatever is on the way will be read as it was sent, and what was read was shown as
\* if it had come in one piece.
Shown == [filters |-> filters, shown |-> shown]
IInv == TypeOK /\ Faithful(buffer, wire) /\ Agrees(Shown, heard)

\* Nothing is shown, and nothing held back, of an empty text.
LEMMA NothingYet ==
  /\ Left(Filtered[Starting(<<>>)]) = Plain
  /\ Filtered[Starting(<<>>)].visible = <<>>
<1> DEFINE f == Starting(<<>>)
<1>1. <<>> \in Texts
  BY DEF Texts
<1>2. f \in Filters /\ f.hidden = FALSE /\ f.pending = <<>> /\ Tag(f) = Open
  BY <1>1, StartingType
<1>3. Tags(f) = {}
  <2>1. DOMAIN f.pending = {}
    BY <1>2
  <2> QED BY <2>1 DEF Tags, Found
<1>4. Filtered[f] = NoTag(f)
  BY <1>2, <1>3, FilteredDef
<1>5. Pending(<<>>, Open) = <<>> /\ Kept(<<>>, Open) = 0
  <2>1. Open \in Seq(Chars) \ {<<>>} /\ <<>> \in Seq(Chars)
    BY TextAssumption DEF Texts
  <2>2. Pending(<<>>, Open) \in Seq(Chars) /\ Kept(<<>>, Open) \in 0 .. Len(<<>>)
        /\ Pending(<<>>, Open) = SubSeq(Open, 1, Kept(<<>>, Open))
    BY <2>1, KeptIs
  <2>3. Kept(<<>>, Open) = 0
    BY <2>2
  <2> QED BY <2>2, <2>3
<1>6. Before(f, 0) = <<>>
  BY <1>2 DEF Before
<1> HIDE DEF f
<1>7. Filtered[f] = [hidden |-> FALSE, pending |-> <<>>, visible |-> <<>>]
  <2>1. Len(<<>>) - 0 = 0
    OBVIOUS
  <2> QED BY <1>2, <1>4, <1>5, <1>6, <2>1 DEF NoTag
<1> QED BY <1>7 DEF Left, Plain, f

LEMMA InitIInv == Init => IInv
<1> SUFFICES ASSUME Init PROVE IInv
  OBVIOUS
<1>1. <<>> \in Texts /\ Plain \in Filters
  BY DEF Texts, Plain, Filters
<1>2. TypeOK
  <2>1. wire \in Seq(Packets) /\ buffer \in Seq(Bytes) /\ left \in 0 .. MaxText
    BY TextAssumption DEF Init
  <2> QED BY <1>1, <2>1 DEF TypeOK, Init
<1>3. Faithful(buffer, wire)
  <2>1. Sent(<<>>) = <<>> /\ Completes(<<>>) = <<>> /\ <<>> \in Seq(Packets) /\ <<>> \in Seq(Bytes)
    BY DEF Sent, Completes
  <2>2. Extracted[<<>>] = [deltas |-> <<>>, rest |-> <<>>]
    <3>1. Blanks(<<>>) = {}
      BY DEF Blanks
    <3> QED BY <2>1, <3>1, ExtractedDef
  <2>3. ASSUME NEW p \in Seq(Packets), NEW q \in Seq(Packets), <<>> = p \o q PROVE p = <<>>
    BY <2>3, ConcatSimplifications
  <2>4. <<>> \o <<>> = <<>>
    OBVIOUS
  <2>5. Extracted[<<>>].deltas = <<>> /\ Extracted[<<>>].rest = <<>>
    BY <2>2
  <2>6. Faithful(<<>>, <<>>)
    BY <2>1, <2>3, <2>4, <2>5 DEF Faithful
  <2> QED BY <2>6 DEF Init
<1>4. Agrees(Shown, heard)
  <2> SUFFICES ASSUME NEW i \in Items
               PROVE /\ filters[i] = Left(Filtered[Starting(heard[i])])
                     /\ shown[i] = Filtered[Starting(heard[i])].visible
    BY DEF Agrees, Shown
  <2>1. filters[i] = Plain /\ shown[i] = <<>> /\ heard[i] = <<>>
    BY DEF Init
  <2> QED BY <2>1, NothingYet
<1> QED BY <1>2, <1>3, <1>4 DEF IInv

\* Send: whole frames are put behind what is on the way.
LEMMA SendKeeps ==
  ASSUME IInv, Send
  PROVE  IInv'
<1>1. TypeOK /\ Faithful(buffer, wire) /\ Agrees(Shown, heard)
  BY DEF IInv
<1> DEFINE Put(i, text, s) ==
             /\ wire' = wire \o Packed(s, [item |-> i, text |-> text])
             /\ left' = left - Len(text)
             /\ UNCHANGED <<ends, buffer, filters, shown, heard>>
<1>0. PICK i \in Items, text \in UNION {[1 .. n -> Chars] : n \in 1 .. left} :
        \E s \in Frames(i, text) : Put(i, text, s)
  BY DEF Send, Packed
<1>2. PICK s \in Frames(i, text) : Put(i, text, s)
  BY <1>0
<1> DEFINE d == [item |-> i, text |-> text]
           f == Packed(s, d)
<1>3. text \in Texts /\ Len(text) \in 1 .. left
  <2>1. PICK n \in 1 .. left : text \in [1 .. n -> Chars]
    OBVIOUS
  <2>2. n \in Nat
    BY <1>1 DEF TypeOK
  <2>3. text \in Seq(Chars) /\ Len(text) = n
    BY <2>1, <2>2
  <2> QED BY <2>3 DEF Texts
<1>4. s \in Seq(Bytes) /\ Faithful(<<>>, f)
  BY <1>1, <1>3, FramesFaithful DEF TypeOK
<1>5. f \in Seq(Packets)
  <2>1. d \in Marks
    BY <1>3 DEF Marks, Deltas
  <2> HIDE DEF d
  <2> QED BY <1>4, <2>1, PackedType
<1> HIDE DEF f
<1>6. Faithful(buffer, wire \o f) /\ wire \o f \in Seq(Packets)
  BY <1>1, <1>4, <1>5, FaithfulMore, ConcatProperties DEF TypeOK
<1>7. wire' = wire \o f /\ buffer' = buffer /\ filters' = filters /\ shown' = shown /\ heard' = heard
      /\ ends' = ends
  BY <1>2 DEF f
<1>8. left' \in 0 .. MaxText
  BY <1>1, <1>2, <1>3, TextAssumption DEF TypeOK
<1>9. TypeOK'
  BY <1>1, <1>6, <1>7, <1>8 DEF TypeOK
<1>10. Faithful(buffer, wire)'
  BY <1>6, <1>7 DEF Faithful
<1>11. Agrees(Shown, heard)'
  BY <1>1, <1>7 DEF Agrees, Shown
<1> QED BY <1>9, <1>10, <1>11 DEF IInv

\* Receive: the bytes in front of a cut are taken off the wire.
LEMMA ReceiveKeeps ==
  ASSUME IInv, Receive
  PROVE  IInv'
<1>1. TypeOK /\ Faithful(buffer, wire) /\ Agrees(Shown, heard)
  BY DEF IInv
<1>2. PICK n \in 1 .. Len(wire) :
        LET bytes == [k \in 1 .. n |-> wire[k].byte]
            found == Extracted[buffer \o bytes]
            after == ShowAll([filters |-> filters, shown |-> shown], found.deltas) IN
        /\ buffer' = found.rest
        /\ filters' = after.filters /\ shown' = after.shown
        /\ heard' = [i \in Items |-> heard[i] \o TextOf(i, [k \in 1 .. n |-> wire[k].whole])]
        /\ wire' = SubSeq(wire, n + 1, Len(wire))
        /\ UNCHANGED <<ends, left>>
  BY DEF Receive
<1> DEFINE p == SubSeq(wire, 1, n)
           q == SubSeq(wire, n + 1, Len(wire))
           x == buffer \o Sent(p)
           ds == Extracted[x].deltas
           after == ShowAll(Shown, ds)
<1>3. /\ p \in Seq(Packets) /\ Len(p) = n /\ \A k \in 1 .. n : p[k] = wire[k]
      /\ q \in Seq(Packets) /\ p \o q = wire
  <2>1. n \in 0 .. Len(wire)
    OBVIOUS
  <2> QED BY <1>1, <2>1, CutInTwo DEF TypeOK
<1> HIDE DEF p
<1>4. [k \in 1 .. n |-> wire[k].byte] = Sent(p) /\ [k \in 1 .. n |-> wire[k].whole] = Completes(p)
  <2>1. DOMAIN p = 1 .. n
    BY <1>3
  <2> QED BY <1>3, <2>1 DEF Sent, Completes
<1>5. /\ buffer' = Extracted[x].rest /\ filters' = after.filters /\ shown' = after.shown
      /\ heard' = Heard(heard, Completes(p)) /\ wire' = q /\ ends' = ends /\ left' = left
  BY <1>2, <1>4 DEF Shown, Heard
<1> HIDE DEF q
<1>6. x \in Seq(Bytes)
  BY <1>1, <1>3, PacketsType, ConcatProperties DEF TypeOK
<1>7. ds \in Seq(Deltas) /\ ds \in Seq(Marks) /\ buffer' \in Seq(Bytes)
  BY <1>5, <1>6, ExtractedType
<1>8. (\A i \in Items : TextOf(i, ds) = TextOf(i, Completes(p))) /\ Faithful(Extracted[x].rest, q)
  <2>1. buffer \in Seq(Bytes) /\ Faithful(buffer, p \o q)
    BY <1>1, <1>3 DEF TypeOK
  <2> QED BY <1>3, <2>1, FaithfulBehind
<1>9. Shown \in States /\ heard \in [Items -> Texts]
  BY <1>1 DEF TypeOK, Shown, States
<1> HIDE DEF ds
<1>10. after \in States /\ Agrees(after, Heard(heard, ds))
  BY <1>1, <1>7, <1>9, ShowAllAgrees
<1>11. Heard(heard, ds) = Heard(heard, Completes(p))
  BY <1>8 DEF Heard
<1>12. Heard(heard, ds) \in [Items -> Texts]
  BY <1>7, <1>9, HeardType
<1> HIDE DEF x, after
<1>13. TypeOK'
  <2>1. filters' \in [Items -> Filters] /\ shown' \in [Items -> Texts]
    BY <1>5, <1>10 DEF States
  <2> QED BY <1>1, <1>3, <1>5, <1>7, <1>11, <1>12, <2>1 DEF TypeOK
<1>14. Faithful(buffer, wire)'
  BY <1>5, <1>8 DEF Faithful
<1>15. Agrees(Shown, heard)'
  BY <1>5, <1>10, <1>11 DEF Agrees, Shown
<1> QED BY <1>13, <1>14, <1>15 DEF IInv

LEMMA StutterKeeps ==
  ASSUME IInv, UNCHANGED vars
  PROVE  IInv'
<1>1. /\ ends' = ends /\ wire' = wire /\ left' = left /\ buffer' = buffer /\ filters' = filters
      /\ shown' = shown /\ heard' = heard
  BY DEF vars
<1> QED BY <1>1 DEF IInv, TypeOK, Faithful, Agrees, Shown

\* Sending and receiving keep the filters in step with the texts, and the buffer with
\* the bytes on the way (sse.rs:137, relay.rs:2689).
THEOREM Invariant == Spec => []IInv
<1>1. ASSUME IInv, [Next]_vars PROVE IInv'
  BY <1>1, SendKeeps, ReceiveKeeps, StutterKeeps DEF Next
<1> QED BY <1>1, InitIInv, PTL DEF Spec

\* Every variable has its type: the buffer, the filters and the texts stay sequences of
\* what was sent, whatever the cuts.
THEOREM TextTypeCorrect == Spec => []TypeOK
<1>1. IInv => TypeOK
  BY DEF IInv
<1> QED BY <1>1, Invariant, PTL

LEMMA WhatIsShown ==
  ASSUME IInv, NEW i \in Items
  PROVE  /\ shown[i] = Filtered[Starting(heard[i])].visible
         /\ filters[i] = Left(Filtered[Starting(heard[i])])
         /\ heard[i] \in Texts
BY DEF IInv, TypeOK, Agrees, Shown

\* A client is shown what it would be shown of the text in one piece, but for what may
\* begin a tag, however extract_sse_frames and filter_provider_thinking_delta get it.
THEOREM CutsAreLossless == Spec => []CutsDoNotMatter
<1>1. ASSUME IInv PROVE CutsDoNotMatter
  <2> SUFFICES ASSUME NEW i \in Items
               PROVE shown[i] \o (IF filters[i].hidden THEN <<>> ELSE filters[i].pending)
                       = Strip[heard[i]]
    BY DEF CutsDoNotMatter
  <2> DEFINE o == Filtered[Starting(heard[i])]
  <2>1. shown[i] = o.visible /\ filters[i] = Left(o) /\ heard[i] \in Texts
    BY <1>1, WhatIsShown
  <2>2. filters[i].hidden = o.hidden /\ filters[i].pending = o.pending
    BY <2>1 DEF Left
  <2>3. Strip[heard[i]] = Whole(o)
    BY <2>1, StripIsWhole
  <2> HIDE DEF o
  <2> QED BY <2>1, <2>2, <2>3 DEF Whole
<1> QED BY <1>1, Invariant, PTL

\* Nothing that was shown is taken back, whatever text comes next.
LEMMA VisibleStays ==
  ASSUME NEW s \in Texts, NEW more \in Texts
  PROVE  IsPrefix(Filtered[Starting(s)].visible, Strip[s \o more])
<1> DEFINE f == Starting(s)
           v == Filtered[f].visible
           o == Filtered[More(Left(Filtered[f]), more)]
           rest == Whole(o)
<1>1. f \in Filters /\ s \o more \in Texts
  <2>1. s \o more \in Texts
    BY ConcatProperties DEF Texts
  <2> QED BY <2>1, StartingType
<1>2. v \in Texts
  BY <1>1, FilteredDef DEF Outcomes
<1>3. Left(Filtered[f]) \in Filters /\ Filtered[More(f, more)] = Prepend(v, o)
  BY <1>1, FilteredCut
<1>4. o \in Outcomes
  BY <1>3, MoreType, FilteredDef
<1>5. Starting(s \o more) = More(f, more)
  BY DEF Starting, More
<1>6. Strip[s \o more] = Whole(Prepend(v, o))
  BY <1>1, <1>3, <1>5, StripIsWhole
<1> HIDE DEF f, v, o
<1>7. o.visible \in Texts /\ o.pending \in Texts /\ <<>> \in Texts
  BY <1>4 DEF Outcomes, Texts
<1>8. rest \in Texts
  <2>1. (IF o.hidden THEN <<>> ELSE o.pending) \in Texts
    BY <1>7
  <2> QED BY <1>7, <2>1, ConcatProperties DEF Whole, Texts
<1>9. Whole(Prepend(v, o)) = v \o rest
  <2> DEFINE tail == IF o.hidden THEN <<>> ELSE o.pending
  <2>1. tail \in Texts
    BY <1>7
  <2>2. Prepend(v, o).visible = v \o o.visible /\ Prepend(v, o).hidden = o.hidden
        /\ Prepend(v, o).pending = o.pending
    BY <1>4 DEF Prepend, Outcomes
  <2>3. Whole(Prepend(v, o)) = (v \o o.visible) \o tail
    BY <2>2 DEF Whole
  <2>4. rest = o.visible \o tail
    BY DEF Whole
  <2> HIDE DEF tail, rest
  <2>5. (v \o o.visible) \o tail = v \o (o.visible \o tail)
    BY <1>2, <1>7, <2>1, TextsAssociative
  <2> QED BY <2>3, <2>4, <2>5
<1> HIDE DEF rest
<1>10. IsPrefix(v, v \o rest)
  <2>1. v \in Seq(Chars) /\ rest \in Seq(Chars)
    BY <1>2, <1>8 DEF Texts
  <2>2. Len(v) \in 0 .. Len(v) /\ Len(v) <= Len(v \o rest)
    BY <2>1, ConcatProperties
  <2>3. SubSeq(v \o rest, 1, Len(v)) = SubSeq(v, 1, Len(v))
    BY <2>1, <2>2, CutFirst
  <2> QED BY <2>2, <2>3 DEF IsPrefix
<1> QED BY <1>6, <1>9, <1>10 DEF v, f

\* What filter_provider_thinking_delta has let through stays visible whatever comes.
THEOREM ShownIsNeverTakenBack == Spec => []NothingTakenBack
<1>1. ASSUME IInv PROVE NothingTakenBack
  <2> SUFFICES ASSUME NEW i \in Items, NEW k \in DOMAIN Open
               PROVE IsPrefix(shown[i], Strip[heard[i] \o SubSeq(Open, k, Len(Open))])
    BY DEF NothingTakenBack
  <2> DEFINE more == SubSeq(Open, k, Len(Open))
  <2>1. more \in Texts
    BY TextAssumption DEF Texts
  <2>2. shown[i] = Filtered[Starting(heard[i])].visible /\ heard[i] \in Texts
    BY <1>1, WhatIsShown
  <2> HIDE DEF more
  <2>3. IsPrefix(Filtered[Starting(heard[i])].visible, Strip[heard[i] \o more])
    BY <2>1, <2>2, VisibleStays
  <2> QED BY <2>2, <2>3 DEF more
<1> QED BY <1>1, Invariant, PTL
=============================================================================
