--------------------------- MODULE SequenceLemmas ---------------------------
(***************************************************************************)
(* What the operators on sequences that the models use return, for every   *)
(* argument.  Induction is over sets of natural numbers, from the          *)
(* well-foundedness of their order.                                        *)
(***************************************************************************)
EXTENDS Ascending, SequencesExt, FiniteSetTheorems, SequenceTheorems,
        WellFoundedInduction, TLAPS

-----------------------------------------------------------------------------
(* Induction. *)

\* A set of naturals has a least element.
LEMMA LeastElement ==
  ASSUME NEW T \in SUBSET Nat, T # {}
  PROVE  \E m \in T : \A n \in T : m <= n
  <1> DEFINE R == { s \in Nat \X Nat : s[1] < s[2] }
  <1>1. IsWellFoundedOn(R, Nat)
    BY NatLessThanWellFounded DEF OpToRel
  <1> HIDE DEF R
  <1>2. PICK m \in T : \A n \in T : << n, m >> \notin R
    BY <1>1, WFMin
  <1>3. \A n \in T : ~ n < m
    BY <1>2 DEF R
  <1> QED
    BY <1>3

\* What holds of a and passes from n to n + 1 holds of all numbers from a to b.
LEMMA Induction ==
  ASSUME NEW a \in Nat, NEW b \in Nat, NEW T,
         a \in T, \A n \in a .. b - 1 : n \in T => n + 1 \in T
  PROVE  a .. b \subseteq T
  <1> SUFFICES ASSUME (a .. b) \ T # {} PROVE FALSE
    OBVIOUS
  <1> DEFINE U == (a .. b) \ T
  <1>1. U \in SUBSET Nat /\ U # {}
    OBVIOUS
  <1> HIDE DEF U
  <1>2. PICK m \in U : \A n \in U : m <= n
    BY <1>1, LeastElement
  <1> USE DEF U
  <1>3. m - 1 \in a .. b - 1
    BY <1>2
  <1>4. m - 1 \in T
    BY <1>2, <1>3
  <1> QED
    BY <1>2, <1>3, <1>4

\* What holds of << >> and is preserved by Append holds of all sequences.
LEMMA SequenceInduction ==
  ASSUME NEW S, NEW T, << >> \in T,
         \A s \in Seq(S), x \in S : s \in T => Append(s, x) \in T
  PROVE  Seq(S) \subseteq T
  <1> DEFINE U == { n \in Nat : \A s \in Seq(S) : Len(s) = n => s \in T }
  <1>1. 0 \in U
    BY EmptySeq
  <1>2. ASSUME NEW n \in Nat, n \in U PROVE n + 1 \in U
    <2> SUFFICES ASSUME NEW s \in Seq(S), Len(s) = n + 1 PROVE s \in T
      OBVIOUS
    <2>1. PICK t \in Seq(S), x \in S : s = Append(t, x)
      BY SequenceEmptyOrAppend
    <2>2. Len(t) = n
      BY <2>1
    <2> QED
      BY <1>2, <2>1, <2>2
  <1>3. ASSUME NEW n \in Nat PROVE n \in U
    <2>1. 0 .. n \subseteq U
      <3> HIDE DEF U
      <3> QED
        BY <1>1, <1>2, Induction
    <2> QED
      BY <2>1
  <1> QED
    BY <1>3

-----------------------------------------------------------------------------
(* FlattenSeq. *)

\* The equation that defines FlattenSeq, for the first n sequences of s.
Flattens(s, f, n) == f = [ i \in 1 .. n |-> IF i = 1 THEN s[i] ELSE f[i - 1] \o s[i] ]

\* It has a solution.
LEMMA FlattenDef ==
  ASSUME NEW S, NEW s \in Seq(S), s # << >>
  PROVE  \E f : /\ f[1] = s[1]
                /\ \A i \in 1 .. Len(s) - 1 : f[i + 1] = f[i] \o s[i + 1]
                /\ FlattenSeq(s) = f[Len(s)]
  <1> DEFINE N == Len(s)
             T == { n \in Nat : \E f : Flattens(s, f, n) }
  <1>1. N \in Nat /\ N >= 1
    OBVIOUS
  <1> HIDE DEF N
  <1>2. 1 \in T
    <2> DEFINE g == [ i \in 1 .. 1 |-> s[1] ]
    <2>1. g = [ i \in 1 .. 1 |-> IF i = 1 THEN s[i] ELSE g[i - 1] \o s[i] ]
      OBVIOUS
    <2> HIDE DEF g
    <2>2. Flattens(s, g, 1)
      BY <2>1 DEF Flattens
    <2> QED
      BY <2>2
  <1>3. \A n \in 1 .. N - 1 : n \in T => n + 1 \in T
    <2> SUFFICES ASSUME NEW n \in 1 .. N - 1, n \in T PROVE n + 1 \in T
      OBVIOUS
    <2>1. PICK f : Flattens(s, f, n)
      OBVIOUS
    <2>2. n \in Nat /\ n >= 1
      BY <1>1
    <2> DEFINE g == [ i \in 1 .. n + 1 |-> IF i <= n THEN f[i] ELSE f[n] \o s[i] ]
    <2>3. \A i \in 1 .. n + 1 : g[i] = IF i = 1 THEN s[i] ELSE g[i - 1] \o s[i]
      <3> SUFFICES ASSUME NEW i \in 1 .. n + 1
                   PROVE  g[i] = IF i = 1 THEN s[i] ELSE g[i - 1] \o s[i]
        OBVIOUS
      <3>1. CASE i <= n
        <4>1. i \in 1 .. n /\ (i # 1 => i - 1 \in 1 .. n)
          BY <2>2, <3>1
        <4>2. f[i] = IF i = 1 THEN s[i] ELSE f[i - 1] \o s[i]
          BY <2>1, <4>1 DEF Flattens
        <4>3. g[i] = f[i] /\ (i # 1 => g[i - 1] = f[i - 1])
          BY <2>2, <4>1
        <4> QED
          BY <4>2, <4>3
      <3>2. CASE i = n + 1
        BY <2>2, <3>2
      <3> QED
        BY <2>2, <3>1, <3>2
    <2>4. g = [ i \in 1 .. n + 1 |-> IF i = 1 THEN s[i] ELSE g[i - 1] \o s[i] ]
      BY <2>3
    <2> HIDE DEF g
    <2>5. Flattens(s, g, n + 1)
      BY <2>4 DEF Flattens
    <2> QED
      BY <2>2, <2>5
  <1>4. 1 .. N \subseteq T
    <2> HIDE DEF T
    <2> QED
      BY <1>1, <1>2, <1>3, Induction
  <1>5. \E f : Flattens(s, f, N)
    BY <1>1, <1>4
  <1> DEFINE flat == CHOOSE f : Flattens(s, f, N)
  <1>6. Flattens(s, flat, N)
    BY <1>5
  <1>7. FlattenSeq(s) = flat[N]
    BY <1>1 DEF FlattenSeq, Flattens, N
  <1> HIDE DEF flat
  <1>8. \A i \in 1 .. N : flat[i] = IF i = 1 THEN s[i] ELSE flat[i - 1] \o s[i]
    BY <1>6 DEF Flattens
  <1>9. flat[1] = s[1]
    BY <1>1, <1>8
  <1>10. \A i \in 1 .. N - 1 : flat[i + 1] = flat[i] \o s[i + 1]
    <2> SUFFICES ASSUME NEW i \in 1 .. N - 1 PROVE flat[i + 1] = flat[i] \o s[i + 1]
      OBVIOUS
    <2>1. i + 1 \in 1 .. N /\ i + 1 # 1 /\ (i + 1) - 1 = i
      BY <1>1
    <2> QED
      BY <1>8, <2>1
  <1> QED
    BY <1>7, <1>9, <1>10 DEF N

\* Nothing flattened, and a single sequence.
LEMMA FlattenEmpty == FlattenSeq(<< >>) = << >>
  BY DEF FlattenSeq

LEMMA FlattenSingle ==
  ASSUME NEW x
  PROVE  FlattenSeq(<< x >>) = x
  <1>1. << x >> \in Seq({x}) /\ << x >> # << >> /\ Len(<< x >>) = 1 /\ << x >>[1] = x
    OBVIOUS
  <1> QED
    BY <1>1, FlattenDef

\* One more sequence at the end.
LEMMA FlattenAppend ==
  ASSUME NEW S, NEW s \in Seq(Seq(S)), NEW x \in Seq(S)
  PROVE  /\ FlattenSeq(s) \in Seq(S)
         /\ FlattenSeq(Append(s, x)) = FlattenSeq(s) \o x
  <1>1. CASE s = << >>
    <2>1. Append(s, x) = << x >> /\ << >> \in Seq(S) /\ << >> \o x = x
      BY <1>1
    <2> QED
      BY <1>1, <2>1, FlattenEmpty, FlattenSingle
  <1>2. CASE s # << >>
    <2> DEFINE N == Len(s)
               u == Append(s, x)
    <2>1. /\ N \in Nat /\ N >= 1
          /\ u \in Seq(Seq(S)) /\ u # << >> /\ Len(u) = N + 1
          /\ \A i \in 1 .. N : u[i] = s[i]
          /\ u[N + 1] = x
      BY <1>2, AppendProperties
    <2>2. PICK f : /\ f[1] = s[1]
                   /\ \A i \in 1 .. N - 1 : f[i + 1] = f[i] \o s[i + 1]
                   /\ FlattenSeq(s) = f[N]
      BY <1>2, FlattenDef
    <2> HIDE DEF N, u
    <2>3. PICK g : /\ g[1] = u[1]
                   /\ \A i \in 1 .. Len(u) - 1 : g[i + 1] = g[i] \o u[i + 1]
                   /\ FlattenSeq(u) = g[Len(u)]
      BY <2>1, FlattenDef
    <2>4. \A i \in 1 .. N : s[i] \in Seq(S)
      BY DEF N
    <2>5. \A i \in 1 .. N : g[i + 1] = g[i] \o u[i + 1]
      <3>1. Len(u) - 1 = N
        BY <2>1
      <3> QED
        BY <2>3, <3>1
    <2> DEFINE T == { n \in Nat : f[n] \in Seq(S) /\ g[n] = f[n] }
    <2>6. 1 \in T
      BY <2>1, <2>2, <2>3, <2>4
    <2>7. \A n \in 1 .. N - 1 : n \in T => n + 1 \in T
      <3> SUFFICES ASSUME NEW n \in 1 .. N - 1, n \in T PROVE n + 1 \in T
        OBVIOUS
      <3>1. n \in 1 .. N /\ n + 1 \in 1 .. N /\ n + 1 \in Nat
        BY <2>1
      <3>2. f[n + 1] = f[n] \o s[n + 1] /\ g[n + 1] = g[n] \o s[n + 1]
        BY <2>1, <2>2, <2>5, <3>1
      <3>3. f[n] \in Seq(S) /\ g[n] = f[n] /\ s[n + 1] \in Seq(S)
        BY <2>4, <3>1
      <3>4. f[n] \o s[n + 1] \in Seq(S)
        BY <3>3
      <3>5. f[n + 1] \in Seq(S) /\ g[n + 1] = f[n + 1]
        BY <3>2, <3>3, <3>4
      <3> QED
        BY <3>1, <3>5
    <2>8. 1 .. N \subseteq T
      <3> HIDE DEF T
      <3> QED
        BY <2>1, <2>6, <2>7, Induction
    <2>9. f[N] \in Seq(S) /\ g[N] = f[N]
      BY <2>1, <2>8
    <2>10. g[N + 1] = g[N] \o x
      <3>1. N \in 1 .. N /\ u[N + 1] = x
        BY <2>1
      <3> QED
        BY <2>5, <3>1
    <2> QED
      BY <2>1, <2>2, <2>3, <2>9, <2>10 DEF u
  <1> QED
    BY <1>1, <1>2

\* Where the elements of a concatenation come from.
LEMMA ConcatIndices ==
  ASSUME NEW S, NEW s \in Seq(S), NEW t \in Seq(S)
  PROVE  /\ s \o t \in Seq(S) /\ Len(s \o t) = Len(s) + Len(t)
         /\ DOMAIN (s \o t) = 1 .. Len(s) + Len(t)
         /\ \A k \in 1 .. Len(s) : (s \o t)[k] = s[k]
         /\ \A k \in 1 .. Len(s) + Len(t) :
              k \notin 1 .. Len(s) => k - Len(s) \in 1 .. Len(t) /\ (s \o t)[k] = t[k - Len(s)]
  OBVIOUS

\* When a sequence is a concatenation.
LEMMA ConcatEqual ==
  ASSUME NEW S, NEW f \in Seq(S), NEW g \in Seq(S), NEW h \in Seq(S),
         Len(h) = Len(f) + Len(g),
         \A k \in 1 .. Len(f) : h[k] = f[k],
         \A k \in 1 .. Len(g) : h[Len(f) + k] = g[k]
  PROVE  h = f \o g
  <1> DEFINE c == f \o g
  <1>1. /\ c \in Seq(S) /\ Len(c) = Len(f) + Len(g)
        /\ \A k \in 1 .. Len(f) : c[k] = f[k]
        /\ \A k \in 1 .. Len(f) + Len(g) :
             k \notin 1 .. Len(f) => k - Len(f) \in 1 .. Len(g) /\ c[k] = g[k - Len(f)]
    BY ConcatIndices
  <1>2. Len(f) \in Nat /\ Len(g) \in Nat
    OBVIOUS
  <1> HIDE DEF c
  <1>3. ASSUME NEW k \in 1 .. Len(f) + Len(g) PROVE h[k] = c[k]
    <2>1. CASE k \in 1 .. Len(f)
      BY <1>1, <2>1
    <2>2. CASE k \notin 1 .. Len(f)
      <3>1. k - Len(f) \in 1 .. Len(g) /\ k = Len(f) + (k - Len(f))
        BY <1>2, <2>2
      <3> QED
        BY <1>1, <2>2, <3>1
    <2> QED
      BY <2>1, <2>2
  <1>4. h = c
    BY <1>1, <1>3, SeqEqual
  <1> QED
    BY <1>4 DEF c

\* The elements of a concatenation are those of both sequences.
LEMMA ConcatElements ==
  ASSUME NEW S, NEW s \in Seq(S), NEW t \in Seq(S)
  PROVE  ToSet(s \o t) = ToSet(s) \cup ToSet(t)
  <1>1. ASSUME NEW i \in 1 .. Len(t) PROVE (s \o t)[Len(s) + i] = t[i]
    OBVIOUS
  <1>2. \A i \in 1 .. Len(s) : (s \o t)[i] = s[i]
    OBVIOUS
  <1>3. /\ DOMAIN s = 1 .. Len(s) /\ DOMAIN t = 1 .. Len(t) /\ Len(s) \in Nat /\ Len(t) \in Nat
        /\ DOMAIN (s \o t) = 1 .. Len(s) + Len(t)
    OBVIOUS
  <1>4. \A i \in 1 .. Len(s) + Len(t) :
          \/ i \in 1 .. Len(s)
          \/ i - Len(s) \in 1 .. Len(t) /\ i = Len(s) + (i - Len(s))
    BY <1>3
  <1>5. ToSet(s \o t) \subseteq ToSet(s) \cup ToSet(t)
    BY <1>1, <1>2, <1>3, <1>4 DEF ToSet
  <1>6. \A i \in 1 .. Len(s) : i \in 1 .. Len(s) + Len(t)
    BY <1>3
  <1>7. \A i \in 1 .. Len(t) : Len(s) + i \in 1 .. Len(s) + Len(t)
    BY <1>3
  <1> QED
    <2>1. ToSet(s) \subseteq ToSet(s \o t)
      BY <1>2, <1>3, <1>6 DEF ToSet
    <2>2. ToSet(t) \subseteq ToSet(s \o t)
      BY <1>1, <1>3, <1>7 DEF ToSet
    <2> QED
      BY <1>5, <2>1, <2>2

\* The elements of a sequence are its first one and the others.
LEMMA HeadTail ==
  ASSUME NEW S, NEW s \in Seq(S), s # << >>
  PROVE  ToSet(s) = {Head(s)} \cup ToSet(Tail(s))
  <1>1. /\ DOMAIN s = 1 .. Len(s) /\ Len(s) \in Nat \ {0}
        /\ DOMAIN Tail(s) = 1 .. Len(s) - 1
        /\ s[1] = Head(s)
        /\ \A k \in 1 .. Len(s) - 1 : Tail(s)[k] = s[k + 1]
    OBVIOUS
  <1>2. ASSUME NEW k \in 1 .. Len(s) PROVE s[k] \in {Head(s)} \cup ToSet(Tail(s))
    <2>1. CASE k = 1
      BY <1>1, <2>1
    <2>2. CASE k # 1
      <3>1. k - 1 \in 1 .. Len(s) - 1 /\ (k - 1) + 1 = k
        BY <1>1, <2>2
      <3>2. Tail(s)[k - 1] = s[k]
        BY <1>1, <3>1
      <3> QED
        BY <1>1, <3>1, <3>2 DEF ToSet
    <2> QED
      BY <2>1, <2>2
  <1>3. ASSUME NEW k \in 1 .. Len(s) - 1 PROVE Tail(s)[k] \in ToSet(s)
    <2>1. k + 1 \in 1 .. Len(s)
      BY <1>1
    <2> QED
      BY <1>1, <2>1 DEF ToSet
  <1>4. Head(s) \in ToSet(s)
    BY <1>1 DEF ToSet
  <1>5. ToSet(s) \subseteq {Head(s)} \cup ToSet(Tail(s))
    BY <1>1, <1>2 DEF ToSet
  <1>6. ToSet(Tail(s)) \subseteq ToSet(s)
    BY <1>1, <1>3 DEF ToSet
  <1> QED
    BY <1>4, <1>5, <1>6

\* The elements are those of the sequences.
LEMMA FlattenElements ==
  ASSUME NEW S
  PROVE  \A s \in Seq(Seq(S)) : ToSet(FlattenSeq(s)) = UNION { ToSet(s[i]) : i \in DOMAIN s }
  <1> DEFINE Elements(s) == UNION { ToSet(s[i]) : i \in DOMAIN s }
             T == { s \in Seq(Seq(S)) : ToSet(FlattenSeq(s)) = Elements(s) }
  <1>1. << >> \in T
    BY FlattenEmpty DEF ToSet
  <1>2. ASSUME NEW s \in Seq(Seq(S)), NEW x \in Seq(S), s \in T PROVE Append(s, x) \in T
    <2>1. FlattenSeq(s) \in Seq(S) /\ FlattenSeq(Append(s, x)) = FlattenSeq(s) \o x
      BY FlattenAppend
    <2>2. ToSet(FlattenSeq(s) \o x) = ToSet(FlattenSeq(s)) \cup ToSet(x)
      BY <2>1, ConcatElements
    <2>3. Elements(Append(s, x)) = Elements(s) \cup ToSet(x)
      <3>1. /\ DOMAIN Append(s, x) = 1 .. Len(s) + 1 /\ DOMAIN s = 1 .. Len(s)
            /\ Len(s) \in Nat
            /\ \A i \in 1 .. Len(s) : Append(s, x)[i] = s[i]
            /\ Append(s, x)[Len(s) + 1] = x
        OBVIOUS
      <3>2. 1 .. Len(s) + 1 = (1 .. Len(s)) \cup {Len(s) + 1}
        BY <3>1
      <3> QED
        BY <3>1, <3>2
    <2>4. Append(s, x) \in Seq(Seq(S))
      OBVIOUS
    <2> HIDE DEF Elements
    <2> QED
      BY <1>2, <2>1, <2>2, <2>3, <2>4
  <1> HIDE DEF T
  <1>3. Seq(Seq(S)) \subseteq T
    BY <1>1, <1>2, SequenceInduction
  <1> QED
    BY <1>3 DEF T

\* FlattenSeq distributes over concatenation.
LEMMA FlattenConcat ==
  ASSUME NEW S, NEW s \in Seq(Seq(S))
  PROVE  \A t \in Seq(Seq(S)) : FlattenSeq(s \o t) = FlattenSeq(s) \o FlattenSeq(t)
  <1> DEFINE T == { t \in Seq(Seq(S)) : FlattenSeq(s \o t) = FlattenSeq(s) \o FlattenSeq(t) }
  <1>1. << >> \in T
    <2>1. FlattenSeq(s) \in Seq(S) /\ << >> \in Seq(S) /\ s \o << >> = s
      BY FlattenAppend
    <2> QED
      BY <2>1, FlattenEmpty
  <1>2. ASSUME NEW t \in Seq(Seq(S)), NEW x \in Seq(S), t \in T PROVE Append(t, x) \in T
    <2>1. s \o t \in Seq(Seq(S)) /\ s \o Append(t, x) = Append(s \o t, x)
      OBVIOUS
    <2>2. FlattenSeq(s \o Append(t, x)) = (FlattenSeq(s) \o FlattenSeq(t)) \o x
      BY <1>2, <2>1, FlattenAppend
    <2>3. /\ FlattenSeq(s) \in Seq(S) /\ FlattenSeq(t) \in Seq(S)
          /\ FlattenSeq(Append(t, x)) = FlattenSeq(t) \o x
      BY FlattenAppend, EmptySeq
    <2>4. (FlattenSeq(s) \o FlattenSeq(t)) \o x = FlattenSeq(s) \o (FlattenSeq(t) \o x)
      BY <2>3, ConcatAssociative
    <2> QED
      BY <2>2, <2>3, <2>4, AppendProperties
  <1> HIDE DEF T
  <1>3. Seq(Seq(S)) \subseteq T
    BY <1>1, <1>2, SequenceInduction
  <1> QED
    BY <1>3 DEF T

-----------------------------------------------------------------------------
(* Ascending and Selected. *)

\* Ranks are positions, and grow with the elements.
LEMMA RankType ==
  ASSUME NEW K \in SUBSET Int, IsFiniteSet(K)
  PROVE  /\ \A k \in K : Rank(K, k) \in 1 .. Cardinality(K)
         /\ \A j, k \in K : j < k => Rank(K, j) < Rank(K, k)
  <1> DEFINE UpTo(k) == { j \in K : j <= k }
  <1>1. \A k \in Int : IsFiniteSet(UpTo(k)) /\ UpTo(k) \in SUBSET K
    BY FS_Subset
  <1>2. ASSUME NEW k \in K PROVE Rank(K, k) \in 1 .. Cardinality(K)
    <2>1. k \in UpTo(k)
      OBVIOUS
    <2>2. Cardinality(UpTo(k)) \in Nat \ {0}
      BY <1>1, <2>1, FS_EmptySet, FS_CardinalityType
    <2>3. Cardinality(UpTo(k)) <= Cardinality(K) /\ Cardinality(K) \in Nat
      BY <1>1, FS_Subset, FS_CardinalityType
    <2> QED
      BY <2>2, <2>3 DEF Rank
  <1>3. ASSUME NEW j \in K, NEW k \in K, j < k PROVE Rank(K, j) < Rank(K, k)
    <2>0. j \in Int /\ k \in Int /\ \A i \in K : i \in Int
      OBVIOUS
    <2>4. (\A i \in K : i <= j => i <= k) /\ k <= k /\ ~ k <= j
      BY <1>3, <2>0
    <2>1. UpTo(j) \in SUBSET UpTo(k) /\ k \in UpTo(k) /\ k \notin UpTo(j)
      BY <2>4
    <2>2. /\ Cardinality(UpTo(j)) <= Cardinality(UpTo(k))
          /\ Cardinality(UpTo(k)) = Cardinality(UpTo(j)) => UpTo(k) = UpTo(j)
      BY <1>1, <2>1, FS_Subset
    <2> QED
      BY <1>2, <2>1, <2>2 DEF Rank
  <1> QED
    BY <1>2, <1>3

\* Ascending(K) enumerates K, in its order.
LEMMA AscendingProperties ==
  ASSUME NEW K \in SUBSET Int, IsFiniteSet(K)
  PROVE  /\ Cardinality(K) \in Nat
         /\ Ascending(K) \in [1 .. Cardinality(K) -> K]
         /\ \A n \in 1 .. Cardinality(K) : Rank(K, Ascending(K)[n]) = n
         /\ \A k \in K : Rank(K, k) \in 1 .. Cardinality(K) /\ Ascending(K)[Rank(K, k)] = k
         /\ \A m, n \in 1 .. Cardinality(K) : m < n => Ascending(K)[m] < Ascending(K)[n]
  <1> DEFINE N == Cardinality(K)
             rank == [ k \in K |-> Rank(K, k) ]
  <1>1. N \in Nat /\ IsFiniteSet(1 .. N) /\ Cardinality(1 .. N) = N
    BY FS_CardinalityType, FS_Interval
  <1>2. rank \in Injection(K, 1 .. N)
    BY RankType DEF Injection, IsInjective
  <1>3. rank \in Surjection(K, 1 .. N)
    <2> HIDE DEF rank, N
    <2> QED
      BY <1>1, <1>2, FS_Injection DEF N
  <1>4. \A n \in 1 .. N : \E k \in K : Rank(K, k) = n
    BY <1>3 DEF Surjection
  <1>5. \A n \in 1 .. N : Ascending(K)[n] \in K /\ Rank(K, Ascending(K)[n]) = n
    BY <1>4 DEF Ascending
  <1>6. Ascending(K) \in [1 .. N -> K]
    BY <1>5 DEF Ascending
  <1>7. \A j, k \in K : Rank(K, j) = Rank(K, k) => j = k
    BY RankType
  <1>8. \A k \in K : Rank(K, k) \in 1 .. N /\ Ascending(K)[Rank(K, k)] = k
    BY <1>5, <1>7, RankType
  <1>9. ASSUME NEW m \in 1 .. N, NEW n \in 1 .. N, m < n
        PROVE  Ascending(K)[m] < Ascending(K)[n]
    <2>1. Ascending(K)[m] \in K /\ Ascending(K)[n] \in K
      BY <1>5
    <2> DEFINE a == Ascending(K)[m]
               b == Ascending(K)[n]
    <2>2. a \in Int /\ b \in Int /\ Rank(K, a) = m /\ Rank(K, b) = n
      BY <1>5, <2>1
    <2>3. m \in Int /\ n \in Int
      BY <1>1
    <2> HIDE DEF a, b
    <2>4. a # b /\ ~ (b < a)
      BY <1>9, <2>1, <2>2, <2>3, RankType DEF a, b
    <2> QED
      BY <2>2, <2>4 DEF a, b
  <1> QED
    BY <1>1, <1>5, <1>6, <1>8, <1>9

\* If the elements of K come before those of L, those of both come in this order.
LEMMA AscendingUnion ==
  ASSUME NEW K \in SUBSET Int, IsFiniteSet(K), NEW L \in SUBSET Int, IsFiniteSet(L),
         \A k \in K, l \in L : k < l
  PROVE  /\ Cardinality(K \cup L) = Cardinality(K) + Cardinality(L)
         /\ \A n \in 1 .. Cardinality(K) : Ascending(K \cup L)[n] = Ascending(K)[n]
         /\ \A n \in 1 .. Cardinality(L) :
              Ascending(K \cup L)[Cardinality(K) + n] = Ascending(L)[n]
  <1> DEFINE U == K \cup L
  <1>0. (\A k \in K : k \in Int) /\ (\A l \in L : l \in Int)
    OBVIOUS
  <1>1. /\ Cardinality(K) \in Nat /\ Cardinality(L) \in Nat
        /\ IsFiniteSet(U) /\ U \in SUBSET Int
      BY FS_CardinalityType, FS_Union
  <1>2. Cardinality(U) = Cardinality(K) + Cardinality(L)
    <2>1. K \cap L = {}
      BY <1>0
    <2>2. Cardinality(U) = Cardinality(K) + Cardinality(L) - Cardinality(K \cap L)
      BY FS_Union
    <2>3. Cardinality(K \cap L) = 0
      BY <2>1, FS_EmptySet
    <2> QED
      BY <1>1, <2>2, <2>3
  <1>3. ASSUME NEW k \in K PROVE Rank(U, k) = Rank(K, k)
    <2>0. \A l \in L : ~ l <= k
      BY <1>0
    <2>1. { j \in U : j <= k } = { j \in K : j <= k }
      BY <2>0
    <2> QED
      BY <2>1 DEF Rank
  <1>4. ASSUME NEW l \in L PROVE Rank(U, l) = Cardinality(K) + Rank(L, l)
    <2> DEFINE M == { j \in L : j <= l }
    <2>0. (\A k \in K : k <= l) /\ K \cap L = {}
      BY <1>0
    <2>1. { j \in U : j <= l } = K \cup M /\ K \cap M = {}
      BY <2>0
    <2>2. IsFiniteSet(M) /\ Cardinality(M) \in Nat
      BY FS_Subset, FS_CardinalityType
    <2>3. Cardinality(K \cup M) = Cardinality(K) + Cardinality(M)
      <3>1. Cardinality(K \cup M) = Cardinality(K) + Cardinality(M) - Cardinality(K \cap M)
        BY <2>2, FS_Union
      <3>2. Cardinality(K \cap M) = 0
        BY <2>1, FS_EmptySet
      <3> QED
        BY <1>1, <2>2, <3>1, <3>2
    <2> QED
      BY <2>1, <2>3 DEF Rank
  <1>5. ASSUME NEW n \in 1 .. Cardinality(K) PROVE Ascending(U)[n] = Ascending(K)[n]
    <2>1. Ascending(K)[n] \in K /\ Rank(K, Ascending(K)[n]) = n
      BY AscendingProperties
    <2>2. Rank(U, Ascending(K)[n]) = n /\ Ascending(K)[n] \in U
      BY <1>3, <2>1
    <2> QED
      BY <1>1, <2>2, AscendingProperties
  <1>6. ASSUME NEW n \in 1 .. Cardinality(L)
        PROVE  Ascending(U)[Cardinality(K) + n] = Ascending(L)[n]
    <2>1. Ascending(L)[n] \in L /\ Rank(L, Ascending(L)[n]) = n
      BY AscendingProperties
    <2>2. Rank(U, Ascending(L)[n]) = Cardinality(K) + n /\ Ascending(L)[n] \in U
      BY <1>4, <2>1
    <2> QED
      BY <1>1, <2>2, AscendingProperties
  <1> QED
    BY <1>2, <1>5, <1>6

\* What Selected returns.
LEMMA SelectedProperties ==
  ASSUME NEW s, NEW K \in SUBSET Int, IsFiniteSet(K)
  PROVE  /\ Selected(s, K) \in Seq({ s[k] : k \in K })
         /\ Len(Selected(s, K)) = Cardinality(K)
         /\ ToSet(Selected(s, K)) = { s[k] : k \in K }
  <1> DEFINE N == Cardinality(K)
             V == { s[k] : k \in K }
  <1>1. /\ N \in Nat
        /\ \A n \in 1 .. N : Ascending(K)[n] \in K
        /\ \A k \in K : \E n \in 1 .. N : Ascending(K)[n] = k
    BY AscendingProperties
  <1>2. /\ DOMAIN Selected(s, K) = 1 .. N
        /\ \A n \in 1 .. N : Selected(s, K)[n] = s[Ascending(K)[n]]
    BY DEF Selected
  <1>3. Selected(s, K) \in [1 .. N -> V]
    BY <1>1 DEF Selected
  <1> HIDE DEF N, V
  <1>4. Selected(s, K) \in Seq(V) /\ Len(Selected(s, K)) = N
    BY <1>1, <1>3
  <1>5. ToSet(Selected(s, K)) \subseteq V
    BY <1>2, <1>3 DEF ToSet
  <1>6. V \subseteq ToSet(Selected(s, K))
    BY <1>1, <1>2 DEF ToSet, V
  <1> QED
    BY <1>4, <1>5, <1>6 DEF N, V

\* Selected depends on the elements at the positions only.
LEMMA SelectedSame ==
  ASSUME NEW s, NEW t, NEW K \in SUBSET Int, IsFiniteSet(K), \A k \in K : s[k] = t[k]
  PROVE  Selected(s, K) = Selected(t, K)
  BY AscendingProperties DEF Selected

\* Earlier positions and later ones.
LEMMA SelectedUnion ==
  ASSUME NEW s, NEW K \in SUBSET Int, IsFiniteSet(K), NEW L \in SUBSET Int, IsFiniteSet(L),
         \A k \in K, l \in L : k < l
  PROVE  Selected(s, K \cup L) = Selected(s, K) \o Selected(s, L)
  <1> DEFINE M == Cardinality(K)
             N == Cardinality(L)
             V == { s[k] : k \in K \cup L }
  <1>1. IsFiniteSet(K \cup L) /\ K \cup L \in SUBSET Int
    BY FS_Union
  <1>2. M \in Nat /\ N \in Nat /\ Cardinality(K \cup L) = M + N
    BY AscendingUnion, FS_CardinalityType
  <1>3. /\ Selected(s, K) \in Seq(V) /\ Len(Selected(s, K)) = M
        /\ Selected(s, L) \in Seq(V) /\ Len(Selected(s, L)) = N
        /\ Selected(s, K \cup L) \in Seq(V) /\ Len(Selected(s, K \cup L)) = M + N
    <2>1. { s[k] : k \in K } \subseteq V /\ { s[k] : k \in L } \subseteq V
      OBVIOUS
    <2>2. /\ Selected(s, K) \in Seq({ s[k] : k \in K })
          /\ Selected(s, L) \in Seq({ s[k] : k \in L })
      BY SelectedProperties
    <2> HIDE DEF V
    <2>3. Selected(s, K) \in Seq(V) /\ Selected(s, L) \in Seq(V)
      BY <2>1, <2>2, SeqMonotonic
    <2> QED
      BY <1>1, <1>2, <2>3, SelectedProperties DEF V
  <1>4. \A n \in 1 .. M : Selected(s, K \cup L)[n] = Selected(s, K)[n]
    <2>1. \A n \in 1 .. M : n \in 1 .. M + N
      BY <1>2
    <2> QED
      BY <1>2, <2>1, AscendingUnion DEF Selected
  <1>5. \A n \in 1 .. N : Selected(s, K \cup L)[M + n] = Selected(s, L)[n]
    <2>1. \A n \in 1 .. N : M + n \in 1 .. M + N
      BY <1>2
    <2> QED
      BY <1>2, <2>1, AscendingUnion DEF Selected
  <1> DEFINE f == Selected(s, K)
             g == Selected(s, L)
             h == Selected(s, K \cup L)
  <1> HIDE DEF M, N, V, f, g, h
  <1>6. /\ f \in Seq(V) /\ Len(f) = M /\ g \in Seq(V) /\ Len(g) = N
        /\ h \in Seq(V) /\ Len(h) = M + N
        /\ \A n \in 1 .. M : h[n] = f[n]
        /\ \A n \in 1 .. N : h[M + n] = g[n]
    BY <1>3, <1>4, <1>5 DEF f, g, h
  <1>7. h = f \o g
    BY <1>6, ConcatEqual
  <1> QED
    BY <1>7 DEF f, g, h

\* One position, and none.
LEMMA SelectedSingle ==
  ASSUME NEW s, NEW k \in Int
  PROVE  Selected(s, {k}) = << s[k] >>
  <1>1. IsFiniteSet({k}) /\ Cardinality({k}) = 1
    BY FS_Singleton
  <1>2. Ascending({k})[1] = k
    BY <1>1, AscendingProperties
  <1> QED
    BY <1>1, <1>2 DEF Selected

LEMMA SelectedNone ==
  ASSUME NEW s
  PROVE  Selected(s, {}) = << >>
  BY FS_EmptySet DEF Selected

-----------------------------------------------------------------------------
(* Prefixes. *)

\* IsPrefix, element by element.
LEMMA PrefixElements ==
  ASSUME NEW S, NEW s \in Seq(S), NEW t \in Seq(S)
  PROVE  IsPrefix(s, t) <=>
           Len(s) <= Len(t) /\ \A k \in 1 .. Len(s) : s[k] = t[k]
  <1>1. CASE Len(s) <= Len(t)
    <2>1. SubSeq(s, 1, Len(s)) = s
      OBVIOUS
    <2>2. /\ SubSeq(t, 1, Len(s)) \in Seq(S)
          /\ Len(SubSeq(t, 1, Len(s))) = Len(s)
          /\ \A k \in 1 .. Len(s) : SubSeq(t, 1, Len(s))[k] = t[k]
      BY <1>1
    <2> DEFINE u == SubSeq(t, 1, Len(s))
    <2> HIDE DEF u
    <2>3. s = u <=> \A k \in 1 .. Len(s) : s[k] = u[k]
      BY <2>2, SeqEqual DEF u
    <2> QED
      BY <1>1, <2>1, <2>2, <2>3 DEF IsPrefix, u
  <1>2. CASE ~ Len(s) <= Len(t)
    BY <1>2 DEF IsPrefix
  <1> QED
    BY <1>1, <1>2

\* Every sequence is a prefix of itself.
LEMMA PrefixSame ==
  ASSUME NEW S, NEW s \in Seq(S)
  PROVE  IsPrefix(s, s)
  BY PrefixElements

\* A prefix remains one when its superior grows.
LEMMA PrefixConcat ==
  ASSUME NEW S, NEW s \in Seq(S), NEW t \in Seq(S), NEW u \in Seq(S), IsPrefix(s, t)
  PROVE  IsPrefix(s, t \o u)
  <1>1. t \o u \in Seq(S) /\ Len(t \o u) = Len(t) + Len(u)
    OBVIOUS
  <1>2. \A k \in 1 .. Len(t) : (t \o u)[k] = t[k]
    OBVIOUS
  <1>3. Len(s) \in Nat /\ Len(t) \in Nat /\ Len(u) \in Nat
    OBVIOUS
  <1>4. Len(s) <= Len(t) /\ \A k \in 1 .. Len(s) : s[k] = t[k]
    BY PrefixElements
  <1> DEFINE c == t \o u
  <1> HIDE DEF c
  <1>5. Len(s) <= Len(c) /\ \A k \in 1 .. Len(s) : s[k] = c[k]
    BY <1>1, <1>2, <1>3, <1>4 DEF c
  <1> QED
    BY <1>1, <1>5, PrefixElements DEF c

\* A sequence followed by a part of another is a prefix of both.
LEMMA PartConcat ==
  ASSUME NEW S, NEW s \in Seq(S), NEW t \in Seq(S), NEW n \in 0 .. Len(t)
  PROVE  /\ s \o SubSeq(t, 1, n) \in Seq(S)
         /\ IsPrefix(s \o SubSeq(t, 1, n), s \o t)
  <1> DEFINE u == SubSeq(t, 1, n)
             a == s \o u
             b == s \o t
  <1>1. u \in Seq(S) /\ Len(u) = n /\ \A k \in 1 .. n : u[k] = t[k]
    OBVIOUS
  <1>2. Len(s) \in Nat /\ Len(t) \in Nat /\ n \in Nat /\ n <= Len(t)
    OBVIOUS
  <1> HIDE DEF u
  <1>3. /\ a \in Seq(S) /\ Len(a) = Len(s) + n
        /\ \A k \in 1 .. Len(s) : a[k] = s[k]
        /\ \A k \in 1 .. Len(s) + n : k \notin 1 .. Len(s) => a[k] = u[k - Len(s)]
    BY <1>1
  <1>4. /\ b \in Seq(S) /\ Len(b) = Len(s) + Len(t)
        /\ \A k \in 1 .. Len(s) : b[k] = s[k]
        /\ \A k \in 1 .. Len(s) + Len(t) : k \notin 1 .. Len(s) => b[k] = t[k - Len(s)]
    OBVIOUS
  <1> HIDE DEF a, b
  <1>5. ASSUME NEW k \in 1 .. Len(a) PROVE a[k] = b[k]
    <2>1. CASE k \in 1 .. Len(s)
      BY <1>3, <1>4, <2>1
    <2>2. CASE k \notin 1 .. Len(s)
      <3>1. k - Len(s) \in 1 .. n /\ k \in 1 .. Len(s) + n /\ k \in 1 .. Len(s) + Len(t)
        BY <1>2, <1>3, <2>2
      <3> QED
        BY <1>1, <1>3, <1>4, <2>2, <3>1
    <2> QED
      BY <2>1, <2>2
  <1>6. IsPrefix(a, b)
    BY <1>2, <1>3, <1>4, <1>5, PrefixElements
  <1> QED
    BY <1>3, <1>6 DEF a, b, u

\* The last of some sequences longer by another one.
LEMMA FlattenLonger ==
  ASSUME NEW S, NEW u \in Seq(Seq(S)), NEW y \in Seq(S), NEW x \in Seq(S)
  PROVE  FlattenSeq(Append(u, y \o x)) = FlattenSeq(Append(u, y)) \o x
  <1>1. y \o x \in Seq(S)
    OBVIOUS
  <1>2. /\ FlattenSeq(u) \in Seq(S)
        /\ FlattenSeq(Append(u, y)) = FlattenSeq(u) \o y
        /\ FlattenSeq(Append(u, y \o x)) = FlattenSeq(u) \o (y \o x)
    BY <1>1, FlattenAppend
  <1>3. FlattenSeq(u) \o (y \o x) = (FlattenSeq(u) \o y) \o x
    BY <1>2, ConcatAssociative
  <1> QED
    BY <1>2, <1>3

\* The last of some sequences grows.
LEMMA FlattenGrow ==
  ASSUME NEW S, NEW s \in Seq(Seq(S)), s # << >>, NEW x \in Seq(S)
  PROVE  LET grown == [s EXCEPT ![Len(s)] = s[Len(s)] \o x] IN
         grown \in Seq(Seq(S)) /\ FlattenSeq(grown) = FlattenSeq(s) \o x
  <1>1. PICK u \in Seq(Seq(S)), y \in Seq(S) : s = Append(u, y)
    BY SequenceEmptyOrAppend
  <1>2. /\ Len(s) = Len(u) + 1 /\ s[Len(s)] = y /\ Len(u) \in Nat
        /\ \A k \in 1 .. Len(u) : s[k] = u[k]
    BY <1>1
  <1> DEFINE grown == [s EXCEPT ![Len(s)] = s[Len(s)] \o x]
  <1>3. y \o x \in Seq(S)
    OBVIOUS
  <1>4. grown = Append(u, y \o x)
    <2>1. /\ grown \in Seq(Seq(S)) /\ Len(grown) = Len(u) + 1
          /\ grown[Len(u) + 1] = y \o x
          /\ \A k \in 1 .. Len(u) : grown[k] = u[k]
      BY <1>2, <1>3
    <2> DEFINE v == Append(u, y \o x)
    <2>2. /\ v \in Seq(Seq(S)) /\ Len(v) = Len(u) + 1
          /\ v[Len(u) + 1] = y \o x
          /\ \A k \in 1 .. Len(u) : v[k] = u[k]
      BY <1>3, AppendProperties
    <2> HIDE DEF grown, v
    <2>3. \A k \in 1 .. Len(u) + 1 : k \in 1 .. Len(u) \/ k = Len(u) + 1
      BY <1>2
    <2>4. \A k \in 1 .. Len(grown) : grown[k] = v[k]
      BY <2>1, <2>2, <2>3
    <2>5. grown = v
      BY <2>1, <2>2, <2>4, SeqEqual
    <2> QED
      BY <2>5 DEF v
  <1>5. FlattenSeq(grown) = FlattenSeq(s) \o x
    <2> HIDE DEF grown
    <2> QED
      BY <1>1, <1>4, FlattenLonger
  <1>6. grown \in Seq(Seq(S))
    BY <1>1, <1>3, <1>4
  <1> QED
    BY <1>5, <1>6

-----------------------------------------------------------------------------
(* Sequences put together. *)

\* Positions in a sequence, and positions d further on.
PositionsIn(K, s) == K \subseteq DOMAIN s
Moved(K, d) == { k + d : k \in K }

\* Positions that are all moved by d come in the same order.
LEMMA AscendingShift ==
  ASSUME NEW K \in SUBSET Int, IsFiniteSet(K), NEW d \in Int
  PROVE  LET L == Moved(K, d) IN
         /\ L \in SUBSET Int /\ IsFiniteSet(L) /\ Cardinality(L) = Cardinality(K)
         /\ \A n \in 1 .. Cardinality(K) : Ascending(L)[n] = Ascending(K)[n] + d
  <1> DEFINE L == Moved(K, d)
  <1>1. ASSUME NEW M \in SUBSET K
        PROVE  /\ Moved(M, d) \in SUBSET Int /\ IsFiniteSet(Moved(M, d))
               /\ Cardinality(Moved(M, d)) = Cardinality(M)
    <2> DEFINE f == [ k \in M |-> k + d ]
    <2>1. IsFiniteSet(M) /\ \A k \in M : k \in Int
      BY FS_Subset
    <2>2. f \in Bijection(M, Moved(M, d))
      <3>1. \A j, k \in M : j + d = k + d => j = k
        BY <2>1
      <3>2. f \in Injection(M, Moved(M, d))
        BY <3>1 DEF Injection, IsInjective, Moved
      <3>3. f \in Surjection(M, Moved(M, d))
        BY DEF Surjection, Moved
      <3> QED
        BY <3>2, <3>3 DEF Bijection
    <2>3. Moved(M, d) \in SUBSET Int
      <3>1. \A k \in M : k + d \in Int
        BY <2>1
      <3> QED
        BY <3>1 DEF Moved
    <2>4. IsFiniteSet(Moved(M, d)) /\ Cardinality(Moved(M, d)) = Cardinality(M)
      <3> DEFINE N == Moved(M, d)
      <3>1. f \in Bijection(M, N)
        BY <2>2
      <3> HIDE DEF f, N
      <3>2. IsFiniteSet(N) /\ Cardinality(N) = Cardinality(M)
        BY <2>1, <3>1, FS_Bijection DEF ExistsBijection
      <3> QED
        BY <3>2 DEF N
    <2> QED
      BY <2>3, <2>4
  <1>2. ASSUME NEW k \in K PROVE Rank(L, k + d) = Rank(K, k)
    <2> DEFINE M == { j \in K : j <= k }
    <2>0. \A j \in K : j \in Int /\ (j + d <= k + d <=> j <= k)
      OBVIOUS
    <2>1. { j \in L : j <= k + d } = Moved(M, d)
      BY <2>0 DEF Moved
    <2>2. Cardinality(Moved(M, d)) = Cardinality(M)
      <3>1. M \in SUBSET K
        OBVIOUS
      <3> HIDE DEF M
      <3> QED
        BY <1>1, <3>1
    <2> QED
      BY <2>1, <2>2 DEF Rank
  <1>3. K \in SUBSET K
    OBVIOUS
  <1>4. L \in SUBSET Int /\ IsFiniteSet(L) /\ Cardinality(L) = Cardinality(K)
    BY <1>1, <1>3
  <1>5. ASSUME NEW n \in 1 .. Cardinality(K) PROVE Ascending(L)[n] = Ascending(K)[n] + d
    <2>1. Ascending(K)[n] \in K /\ Rank(K, Ascending(K)[n]) = n
      BY AscendingProperties
    <2> DEFINE a == Ascending(K)[n]
    <2> HIDE DEF a
    <2>2. a + d \in L /\ Rank(L, a + d) = n
      BY <1>2, <2>1 DEF a, Moved
    <2> HIDE DEF L
    <2>3. Ascending(L)[n] = a + d
      BY <1>4, <2>2, AscendingProperties
    <2> QED
      BY <2>3 DEF a
  <1> QED
    BY <1>4, <1>5

\* Positions in a concatenation.
LEMMA SelectedConcat ==
  ASSUME NEW S, NEW s \in Seq(S), NEW t \in Seq(S),
         NEW K, NEW L, PositionsIn(K, s), PositionsIn(L, t)
  PROVE  Selected(s \o t, K \cup Moved(L, Len(s))) = Selected(s, K) \o Selected(t, L)
  <1> DEFINE d == Len(s)
             u == s \o t
             M == Moved(L, d)
  <1>0. K \in SUBSET DOMAIN s /\ L \in SUBSET DOMAIN t
    BY DEF PositionsIn
  <1>1. d \in Nat /\ DOMAIN s = 1 .. d /\ Len(t) \in Nat /\ DOMAIN t = 1 .. Len(t)
    OBVIOUS
  <1>2. /\ \A k \in 1 .. d : u[k] = s[k]
        /\ \A k \in 1 .. Len(t) : u[k + d] = t[k]
    OBVIOUS
  <1> HIDE DEF d, u
  <1>3. K \in SUBSET Int /\ IsFiniteSet(K) /\ L \in SUBSET Int /\ IsFiniteSet(L)
    <2>1. IsFiniteSet(1 .. d) /\ IsFiniteSet(1 .. Len(t))
      BY <1>1, FS_Interval
    <2>2. 1 .. d \in SUBSET Int /\ 1 .. Len(t) \in SUBSET Int
      BY <1>1
    <2> QED
      BY <1>0, <1>1, <2>1, <2>2, FS_Subset
  <1>4. /\ M \in SUBSET Int /\ IsFiniteSet(M) /\ Cardinality(M) = Cardinality(L)
        /\ \A n \in 1 .. Cardinality(L) : Ascending(M)[n] = Ascending(L)[n] + d
    <2>1. d \in Int
      BY <1>1
    <2> QED
      BY <1>3, <2>1, AscendingShift
  <1>5. \A k \in K, m \in M : k < m
    BY <1>0, <1>1 DEF Moved
  <1>6. Selected(u, K \cup M) = Selected(u, K) \o Selected(u, M)
    <2> HIDE DEF M
    <2> QED
      BY <1>3, <1>4, <1>5, SelectedUnion
  <1>7. Selected(u, K) = Selected(s, K)
    <2>1. \A k \in K : u[k] = s[k]
      BY <1>0, <1>1, <1>2
    <2> QED
      BY <1>3, <2>1, SelectedSame
  <1>8. Selected(u, M) = Selected(t, L)
    <2>1. ASSUME NEW n \in 1 .. Cardinality(L) PROVE u[Ascending(M)[n]] = t[Ascending(L)[n]]
      <3>1. Ascending(L)[n] \in 1 .. Len(t)
        BY <1>0, <1>1, <1>3, AscendingProperties
      <3> QED
        BY <1>2, <1>4, <3>1
    <2> HIDE DEF M
    <2> QED
      BY <1>4, <2>1 DEF Selected
  <1> QED
    BY <1>6, <1>7, <1>8 DEF u, d

\* What follows the first n elements.
After(s, n) == SubSeq(s, n + 1, Len(s))

LEMMA AfterConcat ==
  ASSUME NEW S, NEW s \in Seq(S), NEW t \in Seq(S), NEW n \in Nat, n <= Len(s)
  PROVE  /\ After(s, n) \in Seq(S)
         /\ After(s \o t, n) = After(s, n) \o t
         /\ n <= Len(s \o t)
  <1> DEFINE f == SubSeq(s, n + 1, Len(s))
             u == s \o t
             h == SubSeq(u, n + 1, Len(u))
  <1>1. /\ u \in Seq(S) /\ Len(u) = Len(s) + Len(t) /\ Len(s) \in Nat /\ Len(t) \in Nat
        /\ \A k \in 1 .. Len(s) : u[k] = s[k]
        /\ \A k \in 1 .. Len(t) : u[Len(s) + k] = t[k]
    OBVIOUS
  <1>2. /\ f \in Seq(S) /\ Len(f) = Len(s) - n
        /\ \A k \in 1 .. Len(s) - n : f[k] = s[n + k]
    OBVIOUS
  <1> HIDE DEF u
  <1>3. /\ h \in Seq(S) /\ Len(h) = Len(u) - n
        /\ \A k \in 1 .. Len(u) - n : h[k] = u[n + k]
    BY <1>1
  <1> HIDE DEF f, h
  <1>4. ASSUME NEW k \in 1 .. Len(f) PROVE h[k] = f[k]
    <2>1. k \in 1 .. Len(s) - n /\ k \in 1 .. Len(u) - n /\ n + k \in 1 .. Len(s)
      BY <1>1, <1>2
    <2> QED
      BY <1>1, <1>2, <1>3, <2>1
  <1>5. ASSUME NEW k \in 1 .. Len(t) PROVE h[Len(f) + k] = t[k]
    <2>1. Len(f) + k \in 1 .. Len(u) - n /\ n + (Len(f) + k) = Len(s) + k
      BY <1>1, <1>2
    <2> QED
      BY <1>1, <1>3, <2>1
  <1>6. Len(h) = Len(f) + Len(t)
    BY <1>1, <1>2, <1>3
  <1>7. h = f \o t
    BY <1>2, <1>3, <1>4, <1>5, <1>6, ConcatEqual
  <1>8. n <= Len(u)
    BY <1>1
  <1> QED
    BY <1>2, <1>7, <1>8 DEF f, h, u, After

LEMMA AfterAll ==
  ASSUME NEW S, NEW s \in Seq(S)
  PROVE  After(s, Len(s)) = << >>
  BY DEF After

\* The first element, and the rest.
LEMMA HeadThenTail ==
  ASSUME NEW S, NEW s \in Seq(S), s # << >>
  PROVE  << Head(s) >> \in Seq(S) /\ Tail(s) \in Seq(S) /\ s = << Head(s) >> \o Tail(s)
  OBVIOUS
=============================================================================
