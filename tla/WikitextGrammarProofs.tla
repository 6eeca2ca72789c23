------------------------ MODULE WikitextGrammarProofs ------------------------
(***************************************************************************)
(* Theorems about the grammar of WikitextParser, for all texts: a walk of  *)
(* the iterator finds the templates that the text, position by position,   *)
(* says there are.                                                         *)
(***************************************************************************)
EXTENDS WikitextParserProofs

-----------------------------------------------------------------------------
(* The equation that defines TemplatesFrom. *)

Opens(w, a) == w[a + 1] = "{" /\ w[a + 2] = "{"
Openings(w, p) == { q \in p .. Len(w) - 2 : Opens(w, q) }
Spans(w, a) == { s \in (a + 4 .. Len(w)) \X (a + 6 .. Len(w)) : IsTemplate(w, a, s[1], s[2]) }
Span(w, a) == CHOOSE s \in Spans(w, a) : TRUE
NoTemplate(w, p) == Openings(w, p) = {} \/ Spans(w, Min(Openings(w, p))) = {}
FirstEntry(w, a) == EntryOf(w, a, Span(w, a)[1], Span(w, a)[2])

Body(w, f, p) ==
  IF NoTemplate(w, p) THEN << >>
  ELSE << FirstEntry(w, Min(Openings(w, p))) >> \o f[Span(w, Min(Openings(w, p)))[2]]

\* f solves the equation for the positions from p on.
Solves(w, f, p) == f = [ q \in p .. Len(w) |-> Body(w, f, q) ]

\* The template that is found at p or behind it ends behind p.
LEMMA SpanBehind ==
  ASSUME NEW w \in Strings, NEW p \in 0 .. Len(w), ~ NoTemplate(w, p)
  PROVE  /\ Min(Openings(w, p)) \in p .. Len(w) /\ Opens(w, Min(Openings(w, p)))
         /\ Span(w, Min(Openings(w, p))) \in Spans(w, Min(Openings(w, p)))
         /\ Span(w, Min(Openings(w, p)))[2] \in p + 1 .. Len(w)
  <1> DEFINE a == Min(Openings(w, p))
             s == Span(w, a)
  <1>1. Len(w) \in Nat /\ p \in Nat
    BY DEF Strings
  <1>2. Openings(w, p) \in SUBSET Nat /\ Openings(w, p) # {}
    BY <1>1 DEF Openings, NoTemplate
  <1>3. a \in Openings(w, p)
    BY <1>2, LeastProperties
  <1>4. a \in p .. Len(w) /\ Opens(w, a)
    BY <1>1, <1>3 DEF Openings
  <1>5. s \in Spans(w, a)
    BY DEF NoTemplate, Span
  <1> HIDE DEF a, s
  <1>6. s[2] \in a + 6 .. Len(w)
    BY <1>5 DEF Spans
  <1>7. s[2] \in p + 1 .. Len(w)
    BY <1>1, <1>4, <1>6
  <1> QED
    BY <1>4, <1>5, <1>7 DEF a, s

LEMMA SolvesMore ==
  ASSUME NEW w \in Strings, NEW p \in 1 .. Len(w), NEW f, Solves(w, f, p)
  PROVE  \E g : Solves(w, g, p - 1)
  <1> DEFINE N == Len(w)
             g == [ q \in p - 1 .. N |-> IF q = p - 1 THEN Body(w, f, q) ELSE f[q] ]
  <1>1. N \in Nat /\ p \in Nat
    BY DEF Strings
  <1>2. \A q \in p .. N : f[q] = Body(w, f, q)
    BY DEF Solves
  <1>3. \A q \in p .. N : g[q] = f[q]
    BY <1>1
  <1>4. ASSUME NEW q \in p - 1 .. N PROVE Body(w, g, q) = Body(w, f, q)
    <2>1. CASE NoTemplate(w, q)
      BY <2>1 DEF Body
    <2>2. CASE ~ NoTemplate(w, q)
      <3> DEFINE b == Span(w, Min(Openings(w, q)))[2]
      <3>1. q \in 0 .. Len(w)
        BY <1>1
      <3>2. b \in q + 1 .. N
        BY <2>2, <3>1, SpanBehind
      <3>3. b \in p .. N
        BY <1>1, <3>1, <3>2
      <3>4. g[b] = f[b]
        BY <1>3, <3>3
      <3> HIDE DEF g
      <3> QED
        BY <3>4 DEF Body
    <2> QED
      BY <2>1, <2>2
  <1>5. ASSUME NEW q \in p - 1 .. N PROVE g[q] = Body(w, g, q)
    <2>1. CASE q = p - 1
      BY <1>4, <2>1
    <2>2. CASE q # p - 1
      <3>1. q \in p .. N
        BY <1>1, <2>2
      <3> QED
        BY <1>2, <1>3, <1>4, <3>1
    <2> QED
      BY <2>1, <2>2
  <1>6. g = [ q \in p - 1 .. N |-> Body(w, g, q) ]
    BY <1>5
  <1> HIDE DEF g
  <1>7. Solves(w, g, p - 1)
    BY <1>6 DEF Solves
  <1> QED
    BY <1>7

\* TemplatesFrom is a solution: what it says of a position is what its equation says.
LEMMA TemplatesFromDef ==
  ASSUME NEW w \in Strings
  PROVE  \A p \in 0 .. Len(w) : TemplatesFrom(w)[p] = Body(w, TemplatesFrom(w), p)
  <1> DEFINE N == Len(w)
             T == { n \in Nat : n <= N => \E f : Solves(w, f, N - n) }
  <1>1. N \in Nat
    BY DEF Strings
  <1>2. 0 \in T
    <2> DEFINE g == [ q \in N .. N |-> << >> ]
    <2>1. \A q \in N .. N : NoTemplate(w, q)
      <3> SUFFICES ASSUME NEW q \in N .. N, ~ NoTemplate(w, q) PROVE FALSE
        OBVIOUS
      <3>1. q \in 0 .. Len(w) /\ q = N
        BY <1>1
      <3>2. Span(w, Min(Openings(w, q)))[2] \in q + 1 .. Len(w)
        BY <3>1, SpanBehind
      <3> QED
        BY <1>1, <3>1, <3>2
    <2>2. g = [ q \in N .. N |-> Body(w, g, q) ]
      BY <2>1 DEF Body
    <2> HIDE DEF g
    <2>3. Solves(w, g, N) /\ N - 0 = N
      BY <1>1, <2>2 DEF Solves
    <2> QED
      BY <2>3
  <1>3. \A n \in 0 .. N - 1 : n \in T => n + 1 \in T
    <2> SUFFICES ASSUME NEW n \in 0 .. N - 1, n \in T PROVE n + 1 \in T
      OBVIOUS
    <2>1. n \in Nat /\ n <= N /\ N - n \in 1 .. Len(w) /\ (N - n) - 1 = N - (n + 1)
      BY <1>1
    <2>2. PICK f : Solves(w, f, N - n)
      BY <2>1
    <2>3. \E g : Solves(w, g, (N - n) - 1)
      BY <2>1, <2>2, SolvesMore
    <2> QED
      BY <2>1, <2>3
  <1>4. 0 .. N \subseteq T
    <2> HIDE DEF T
    <2>1. 0 \in Nat
      OBVIOUS
    <2> QED
      BY <1>1, <1>2, <1>3, <2>1, Induction
  <1>5. \E f : Solves(w, f, 0)
    <2>1. N \in 0 .. N /\ N - N = 0
      BY <1>1
    <2> QED
      BY <1>4, <2>1
  <1>6. TemplatesFrom(w) = CHOOSE f : Solves(w, f, 0)
    BY DEF TemplatesFrom, Solves, Body, NoTemplate, FirstEntry, Span, Spans, Openings, Opens
  <1>7. Solves(w, TemplatesFrom(w), 0)
    BY <1>5, <1>6
  <1> QED
    <2> DEFINE F == TemplatesFrom(w)
    <2> HIDE DEF F
    <2>1. F = [ q \in 0 .. Len(w) |-> Body(w, F, q) ]
      BY <1>7 DEF Solves, F
    <2>2. \A q \in 0 .. Len(w) : F[q] = Body(w, F, q)
      BY <2>1
    <2> QED
      BY <2>2 DEF F

-----------------------------------------------------------------------------
(* What TemplatesFrom says of a position. *)

EntriesOf(w) == { EntryOf(w, a, m, b) : a \in Nat, m \in Nat, b \in Nat }

LEMMA TemplatesFromType ==
  ASSUME NEW w \in Strings
  PROVE  \A p \in 0 .. Len(w) : TemplatesFrom(w)[p] \in Seq(EntriesOf(w))
  <1> DEFINE N == Len(w)
             F == TemplatesFrom(w)
             E == EntriesOf(w)
             T == { n \in Nat : \A p \in 0 .. N : N - p <= n => F[p] \in Seq(E) }
  <1>1. N \in Nat
    BY DEF Strings
  <1>2. ASSUME NEW p \in 0 .. N,
               ~ NoTemplate(w, p) => F[Span(w, Min(Openings(w, p)))[2]] \in Seq(E)
        PROVE  F[p] \in Seq(E)
    <2>1. F[p] = Body(w, F, p)
      BY TemplatesFromDef
    <2>2. CASE NoTemplate(w, p)
      BY <2>1, <2>2 DEF Body
    <2>3. CASE ~ NoTemplate(w, p)
      <3> DEFINE a == Min(Openings(w, p))
                 x == Span(w, a)
                 e == FirstEntry(w, a)
                 g == F[x[2]]
      <3>1. a \in p .. N /\ x \in Spans(w, a)
        BY <2>3, SpanBehind
      <3>2. x[1] \in a + 4 .. N /\ x[2] \in a + 6 .. N
        <4> HIDE DEF a, x
        <4> QED
          BY <3>1 DEF Spans
      <3>3. a \in Nat /\ x[1] \in Nat /\ x[2] \in Nat
        <4> HIDE DEF a, x
        <4> QED
          BY <1>1, <3>1, <3>2
      <3>4. e \in E
        BY <3>3 DEF FirstEntry, EntriesOf
      <3>5. F[p] = << e >> \o g /\ g \in Seq(E)
        BY <1>2, <2>1, <2>3 DEF Body
      <3> HIDE DEF E, e, g
      <3>6. << e >> \o g \in Seq(E)
        BY <3>4, <3>5
      <3> QED
        BY <3>5, <3>6
    <2> QED
      BY <2>2, <2>3
  <1>3. 0 \in T
    <2> SUFFICES ASSUME NEW p \in 0 .. N, N - p <= 0 PROVE F[p] \in Seq(E)
      OBVIOUS
    <2>1. ASSUME ~ NoTemplate(w, p) PROVE FALSE
      <3>1. Span(w, Min(Openings(w, p)))[2] \in p + 1 .. Len(w) /\ p \in Nat
        BY <2>1, SpanBehind
      <3> QED
        BY <1>1, <3>1
    <2> QED
      BY <1>2, <2>1
  <1>4. \A n \in 0 .. N - 1 : n \in T => n + 1 \in T
    <2> SUFFICES ASSUME NEW n \in 0 .. N - 1, n \in T, NEW p \in 0 .. N, N - p <= n + 1
                 PROVE  F[p] \in Seq(E)
      OBVIOUS
    <2>1. ASSUME ~ NoTemplate(w, p) PROVE F[Span(w, Min(Openings(w, p)))[2]] \in Seq(E)
      <3> DEFINE b == Span(w, Min(Openings(w, p)))[2]
      <3>1. b \in p + 1 .. N
        BY <2>1, SpanBehind
      <3> HIDE DEF b
      <3>2. b \in 0 .. N /\ N - b <= n
        BY <1>1, <3>1
      <3>3. F[b] \in Seq(E)
        BY <3>2
      <3> QED
        BY <3>3 DEF b
    <2> QED
      BY <1>2, <2>1
  <1>5. 0 .. N \subseteq T
    <2> HIDE DEF T
    <2>1. 0 \in Nat
      OBVIOUS
    <2> QED
      BY <1>1, <1>3, <1>4, <2>1, Induction
  <1>6. N \in T /\ \A p \in 0 .. N : N - p <= N
    BY <1>1, <1>5
  <1> QED
    BY <1>6

\* The templates from a position on are those from the next "{{" on.
LEMMA SkipToOpening ==
  ASSUME NEW w \in Strings, NEW p \in 0 .. Len(w), NEW q \in p .. Len(w),
         \A r \in p .. q - 1 : r \in 0 .. Len(w) - 2 => ~ Opens(w, r)
  PROVE  TemplatesFrom(w)[p] = TemplatesFrom(w)[q]
  <1>1. Len(w) \in Nat /\ p \in Nat /\ q \in Nat /\ p <= q /\ q \in 0 .. Len(w)
    BY DEF Strings
  <1>2. ASSUME NEW r \in p .. Len(w) - 2, Opens(w, r) PROVE r \in q .. Len(w) - 2
    <2>1. r \in 0 .. Len(w) - 2 /\ r \in Int
      BY <1>1
    <2>2. ~ r \in p .. q - 1
      BY <1>2, <2>1
    <2> QED
      BY <1>1, <2>1, <2>2
  <1>3. \A r \in q .. Len(w) - 2 : r \in p .. Len(w) - 2
    BY <1>1
  <1>4. Openings(w, p) = Openings(w, q)
    BY <1>2, <1>3 DEF Openings
  <1>5. Body(w, TemplatesFrom(w), p) = Body(w, TemplatesFrom(w), q)
    BY <1>4 DEF Body, NoTemplate
  <1> QED
    BY <1>1, <1>5, TemplatesFromDef

\* From the end, or from where a "{{" begins no template, there are none.
LEMMA NoneAtEnd ==
  ASSUME NEW w \in Strings
  PROVE  TemplatesFrom(w)[Len(w)] = << >>
  <1>1. Len(w) \in Nat
    BY DEF Strings
  <1>2. Openings(w, Len(w)) = {}
    BY <1>1 DEF Openings
  <1>3. Len(w) \in 0 .. Len(w)
    BY <1>1
  <1> QED
    BY <1>2, <1>3, TemplatesFromDef DEF Body, NoTemplate

LEMMA OpeningHere ==
  ASSUME NEW w \in Strings, NEW a \in Nat, a + 2 <= Len(w), Opens(w, a)
  PROVE  Openings(w, a) # {} /\ Min(Openings(w, a)) = a /\ a \in 0 .. Len(w)
  <1>1. Len(w) \in Nat
    BY DEF Strings
  <1>2. a \in Openings(w, a) /\ \A q \in Openings(w, a) : a <= q
    BY <1>1 DEF Openings
  <1>3. \A q \in Openings(w, a) : q \in Int
    BY <1>1 DEF Openings
  <1>4. \A q \in Openings(w, a) : (\A r \in Openings(w, a) : q <= r) => q = a
    <2> SUFFICES ASSUME NEW q \in Openings(w, a), \A r \in Openings(w, a) : q <= r PROVE q = a
      OBVIOUS
    <2>1. q <= a /\ a <= q /\ q \in Int
      BY <1>2, <1>3
    <2> QED
      BY <2>1
  <1> QED
    BY <1>1, <1>2, <1>4 DEF Min

LEMMA NoneHere ==
  ASSUME NEW w \in Strings, NEW a \in Nat, a + 2 <= Len(w), Opens(w, a), Spans(w, a) = {}
  PROVE  TemplatesFrom(w)[a] = << >>
  BY OpeningHere, TemplatesFromDef DEF Body, NoTemplate

\* A template ends where it ends: at the first "}" behind the first bar.
LEMMA OneTemplate ==
  ASSUME NEW w \in Strings, NEW a \in Nat,
         NEW m \in Nat, NEW b \in Nat, IsTemplate(w, a, m, b),
         NEW k \in Nat, NEW c \in Nat, IsTemplate(w, a, k, c)
  PROVE  m = k /\ b = c
  <1>1. m = k
    <2>1. /\ a + 3 < m /\ w[m] = "|" /\ \A j \in a + 3 .. m - 1 : w[j] # "|"
          /\ a + 3 < k /\ w[k] = "|" /\ \A j \in a + 3 .. k - 1 : w[j] # "|"
      BY DEF IsTemplate
    <2>2. ~ m \in a + 3 .. k - 1 /\ ~ k \in a + 3 .. m - 1
      BY <2>1
    <2>3. ~ m < k /\ ~ k < m
      BY <2>1, <2>2
    <2> QED
      BY <2>3
  <1>2. /\ m < b - 1 /\ w[b - 1] = "}" /\ \A j \in m + 1 .. b - 2 : w[j] # "}"
        /\ m < c - 1 /\ w[c - 1] = "}" /\ \A j \in m + 1 .. c - 2 : w[j] # "}"
    BY <1>1 DEF IsTemplate
  <1>3. ~ b - 1 \in m + 1 .. c - 2 /\ ~ c - 1 \in m + 1 .. b - 2
    BY <1>2
  <1>4. b = c
    <2>1. m < b - 1 /\ m < c - 1
      BY <1>2
    <2>2. ~ b < c /\ ~ c < b
      BY <1>3, <2>1
    <2> QED
      BY <2>2
  <1> QED
    BY <1>1, <1>4

LEMMA TemplateHere ==
  ASSUME NEW w \in Strings, NEW a \in Nat, NEW m \in Nat, NEW b \in Nat,
         b <= Len(w), IsTemplate(w, a, m, b)
  PROVE  /\ TemplatesFrom(w)[a] = << EntryOf(w, a, m, b) >> \o TemplatesFrom(w)[b]
         /\ a \in 0 .. Len(w) /\ b \in 0 .. Len(w)
  <1>1. Len(w) \in Nat
    BY DEF Strings
  <1>2. a + 3 < m /\ m < b - 1 /\ Opens(w, a)
    BY DEF IsTemplate, Opens
  <1>3. a + 2 <= Len(w) /\ m \in a + 4 .. Len(w) /\ b \in a + 6 .. Len(w) /\ b \in 0 .. Len(w)
    BY <1>1, <1>2
  <1>4. << m, b >> \in Spans(w, a)
    BY <1>3 DEF Spans
  <1>5. \A s \in Spans(w, a) : s = << m, b >>
    <2> SUFFICES ASSUME NEW s \in Spans(w, a) PROVE s = << m, b >>
      OBVIOUS
    <2>1. PICK k \in a + 4 .. Len(w), c \in a + 6 .. Len(w) : s = << k, c >>
      BY DEF Spans
    <2>2. IsTemplate(w, a, k, c)
      BY <2>1 DEF Spans
    <2>3. k \in Nat /\ c \in Nat
      BY <1>1, <2>1
    <2> QED
      BY <2>1, <2>2, <2>3, OneTemplate
  <1>6. Span(w, a) = << m, b >>
    BY <1>4, <1>5 DEF Span
  <1>7. Min(Openings(w, a)) = a /\ ~ NoTemplate(w, a) /\ a \in 0 .. Len(w)
    BY <1>2, <1>3, <1>4, OpeningHere DEF NoTemplate
  <1>8. FirstEntry(w, a) = EntryOf(w, a, m, b) /\ Span(w, a)[2] = b
    BY <1>6 DEF FirstEntry
  <1> QED
    BY <1>3, <1>7, <1>8, TemplatesFromDef DEF Body

-----------------------------------------------------------------------------
(* The parameters between the bars. *)

Bars(w, m, p) == { j \in m .. p : w[j] = "|" }

\* A sequence with one more element.
LEMMA AppendEqual ==
  ASSUME NEW V, NEW N \in Nat, NEW f \in [1 .. N -> V], NEW g \in [1 .. N + 1 -> V],
         \A n \in 1 .. N : g[n] = f[n]
  PROVE  g = Append(f, g[N + 1])
  <1>1. f \in Seq(V) /\ Len(f) = N /\ g \in Seq(V) /\ Len(g) = N + 1
    OBVIOUS
  <1> DEFINE x == g[N + 1]
             h == Append(f, x)
  <1>2. x \in V
    OBVIOUS
  <1> HIDE DEF x
  <1>3. /\ h \in Seq(V) /\ Len(h) = N + 1 /\ h[N + 1] = x
        /\ \A n \in 1 .. N : h[n] = f[n]
    BY <1>1, <1>2, AppendElements
  <1> HIDE DEF h
  <1>4. \A n \in 1 .. N + 1 : n \in 1 .. N \/ n = N + 1
    OBVIOUS
  <1>5. \A n \in 1 .. N + 1 : g[n] = h[n]
    BY <1>3, <1>4 DEF x
  <1>6. g = h
    BY <1>1, <1>3, <1>5, SeqEqual
  <1> QED
    BY <1>6 DEF h, x

LEMMA BetweenMore ==
  ASSUME NEW w, NEW K \in SUBSET Nat, IsFiniteSet(K), NEW p \in K, \A k \in K : k <= p,
         NEW e \in Nat, p < e
  PROVE  Between(w, K \cup {e}) = Append(Between(w, K), ParameterOf(SubSeq(w, p + 1, e - 1)))
  <1> DEFINE N == Cardinality(K)
             L == K \cup {e}
             c == Ascending(K)
             d == Ascending(L)
             F(x, y) == ParameterOf(SubSeq(w, x + 1, y - 1))
             f == [ n \in 1 .. N - 1 |-> F(c[n], c[n + 1]) ]
             g == [ n \in 1 .. (N + 1) - 1 |-> F(d[n], d[n + 1]) ]
  <1>1. /\ K \in SUBSET Int /\ {e} \in SUBSET Int /\ IsFiniteSet({e}) /\ Cardinality({e}) = 1
        /\ \A k \in K, l \in {e} : k < l
    BY FS_Singleton
  <1>2. N \in Nat /\ N # 0
    BY FS_CardinalityType, FS_EmptySet
  <1>3. /\ Cardinality(L) = N + 1
        /\ \A n \in 1 .. N : d[n] = c[n]
        /\ d[N + 1] = e
    <2>1. /\ Cardinality(K \cup {e}) = Cardinality(K) + Cardinality({e})
          /\ \A n \in 1 .. Cardinality(K) : Ascending(K \cup {e})[n] = Ascending(K)[n]
          /\ \A n \in 1 .. Cardinality({e}) :
               Ascending(K \cup {e})[Cardinality(K) + n] = Ascending({e})[n]
      BY <1>1, AscendingUnion
    <2>2. Ascending({e})[1] = e
      BY <1>1, AscendingProperties
    <2> QED
      BY <1>1, <2>1, <2>2
  <1>4. c[N] = p
    <2>1. { j \in K : j <= p } = K
      OBVIOUS
    <2>2. Rank(K, p) = N
      BY <2>1 DEF Rank
    <2>3. Ascending(K)[Rank(K, p)] = p
      BY <1>1, AscendingProperties
    <2> QED
      BY <2>2, <2>3
  <1>5. Between(w, K) = f /\ Between(w, L) = g
    BY <1>3 DEF Between
  <1> HIDE DEF N, L, c, d, F
  <1>6. PICK M \in Nat : N = M + 1
    <2>1. N - 1 \in Nat /\ N = (N - 1) + 1
      BY <1>2
    <2> QED
      BY <2>1
  <1> DEFINE V == { F(c[n], c[n + 1]) : n \in 1 .. M } \cup { F(d[n], d[n + 1]) : n \in 1 .. M + 1 }
  <1>7. f \in [1 .. M -> V] /\ DOMAIN f = 1 .. M
    BY <1>6
  <1>8. g \in [1 .. M + 1 -> V] /\ DOMAIN g = 1 .. M + 1
    BY <1>6
  <1>9. ASSUME NEW n \in 1 .. M PROVE g[n] = f[n]
    <2>1. n \in 1 .. N /\ n + 1 \in 1 .. N /\ n \in 1 .. M + 1
      BY <1>6
    <2>2. d[n] = c[n] /\ d[n + 1] = c[n + 1]
      BY <1>3, <2>1
    <2> QED
      BY <1>6, <2>1, <2>2
  <1>10. g[M + 1] = F(p, e)
    <2>1. N \in 1 .. N /\ M + 1 = N /\ M + 1 \in 1 .. M + 1
      BY <1>6
    <2>2. d[N] = p
      BY <1>3, <1>4, <2>1
    <2> QED
      BY <1>3, <1>6, <2>1, <2>2
  <1> HIDE DEF f, g, V
  <1>11. g = Append(f, g[M + 1])
    BY <1>7, <1>8, <1>9, AppendEqual
  <1> QED
    BY <1>5, <1>10, <1>11 DEF F, L

\* Behind a single bar there is no parameter yet.
LEMMA BetweenNone ==
  ASSUME NEW w, NEW m
  PROVE  Between(w, {m}) = << >>
  <1>1. Cardinality({m}) = 1
    BY FS_Singleton
  <1> DEFINE G(n) == ParameterOf(SubSeq(w, Ascending({m})[n] + 1, Ascending({m})[n + 1] - 1))
  <1>2. Between(w, {m}) = [ n \in 1 .. 1 - 1 |-> G(n) ]
    BY <1>1 DEF Between
  <1> HIDE DEF G
  <1>3. [ n \in 1 .. 1 - 1 |-> G(n) ] = << >>
    OBVIOUS
  <1> QED
    BY <1>2, <1>3

\* A part of a part.
LEMMA PartOfPart ==
  ASSUME NEW S, NEW w \in Seq(S), NEW p \in Nat, NEW e \in p .. Len(w),
         NEW x \in Nat, NEW y \in x .. e - p
  PROVE  SubSeq(SubSeq(w, p + 1, e), x + 1, y) = SubSeq(w, (p + x) + 1, p + y)
  <1> DEFINE s == SubSeq(w, p + 1, e)
             u == SubSeq(s, x + 1, y)
             v == SubSeq(w, (p + x) + 1, p + y)
  <1>1. Len(w) \in Nat /\ e \in Nat /\ y \in Nat /\ x <= y /\ y <= e - p /\ e <= Len(w)
    OBVIOUS
  <1>2. s \in Seq(S) /\ Len(s) = e - p /\ \A k \in 1 .. e - p : s[k] = w[p + k]
    BY PartProperties
  <1>3. y \in x .. Len(s)
    BY <1>2
  <1> HIDE DEF s
  <1>4. u \in Seq(S) /\ Len(u) = y - x /\ \A k \in 1 .. y - x : u[k] = s[x + k]
    BY <1>2, <1>3, PartProperties
  <1>5. p + x \in Nat /\ p + y \in p + x .. Len(w) /\ (p + y) - (p + x) = y - x
    BY <1>1
  <1>6. v \in Seq(S) /\ Len(v) = y - x /\ \A k \in 1 .. y - x : v[k] = w[(p + x) + k]
    BY <1>5, PartProperties
  <1> HIDE DEF u, v
  <1>7. ASSUME NEW k \in 1 .. y - x PROVE u[k] = v[k]
    <2>1. x + k \in 1 .. e - p /\ p + (x + k) = (p + x) + k
      BY <1>1
    <2> QED
      BY <1>2, <1>4, <1>6, <2>1
  <1>8. u = v
    BY <1>4, <1>6, <1>7, SeqEqual
  <1> QED
    BY <1>8 DEF u, v, s

\* A parameter is a key, or a key, an equals sign and a value with other ones.
LEMMA ParameterParts ==
  ASSUME NEW w \in Strings, NEW p \in Nat, NEW key \in p .. Len(w), NEW e \in key .. Len(w),
         \A j \in p + 1 .. key : w[j] # "="
  PROVE  /\ key = e => ParameterOf(SubSeq(w, p + 1, e))
                         = [key |-> SubSeq(w, p + 1, key), has_value |-> FALSE, value |-> << >>]
         /\ key < e /\ w[key + 1] = "=" =>
              ParameterOf(SubSeq(w, p + 1, e))
                = [key |-> SubSeq(w, p + 1, key), has_value |-> TRUE,
                   value |-> SubSeq(w, key + 2, e)]
  <1> DEFINE s == SubSeq(w, p + 1, e)
             I == { i \in 1 .. Len(s) : s[i] = "=" }
  <1>1. Len(w) \in Nat /\ w \in Seq(Words) /\ key \in Nat /\ e \in Nat /\ p <= key /\ key <= e
    BY DEF Strings
  <1>2. /\ s \in Seq(Words) /\ Len(s) = e - p
        /\ \A i \in 1 .. e - p : s[i] = w[p + i]
    <2>1. e \in p .. Len(w)
      BY <1>1
    <2> QED
      BY <1>1, <2>1, PartProperties
  <1>3. ParameterOf(s) =
          IF I = {} THEN [key |-> s, has_value |-> FALSE, value |-> << >>]
          ELSE [key |-> SubSeq(s, 1, Min(I) - 1), has_value |-> TRUE,
                value |-> SubSeq(s, Min(I) + 1, Len(s))]
    <2>1. I # {} => Min(I) # 0
      <3>1. I \in SUBSET Nat /\ \A i \in I : i # 0
        BY <1>1, <1>2
      <3> HIDE DEF I
      <3> QED
        BY <3>1, LeastProperties
    <2> QED
      BY <2>1 DEF ParameterOf, SelectInSeq
  <1>4. ASSUME key = e PROVE I = {}
    <2> SUFFICES ASSUME NEW i \in I PROVE FALSE
      OBVIOUS
    <2>1. i \in 1 .. e - p /\ s[i] = "="
      BY <1>2
    <2>2. p + i \in p + 1 .. key
      BY <1>1, <1>4, <2>1
    <2> QED
      BY <1>2, <2>1, <2>2
  <1>5. ASSUME key < e, w[key + 1] = "="
        PROVE  /\ I # {} /\ Min(I) = (key - p) + 1
    <2> DEFINE x == (key - p) + 1
    <2>1. x \in 1 .. e - p /\ p + x = key + 1
      BY <1>1, <1>5
    <2>2. x \in I
      BY <1>2, <1>5, <2>1
    <2>3. \A i \in I : x <= i /\ i \in Nat
      <3> SUFFICES ASSUME NEW i \in I, i < x PROVE FALSE
        BY <1>1, <1>2, <2>1
      <3>1. i \in 1 .. e - p /\ s[i] = "="
        BY <1>2
      <3>2. p + i \in p + 1 .. key
        BY <1>1, <3>1
      <3> QED
        BY <1>2, <3>1, <3>2
    <2> HIDE DEF I, x
    <2>4. \A i \in I : (\A j \in I : i <= j) => i = x
      <3> SUFFICES ASSUME NEW i \in I, i <= x PROVE i = x
        BY <2>2
      <3> QED
        BY <2>1, <2>3
    <2> QED
      BY <2>2, <2>3, <2>4 DEF Min, x
  <1>6. CASE key = e
    BY <1>1, <1>3, <1>4, <1>6
  <1>7. ASSUME key < e
        PROVE  /\ SubSeq(s, 1, ((key - p) + 1) - 1) = SubSeq(w, p + 1, key)
               /\ SubSeq(s, ((key - p) + 1) + 1, Len(s)) = SubSeq(w, key + 2, e)
    <2> DEFINE x == (key - p) + 1
    <2>1. /\ x - 1 \in 0 .. e - p /\ x \in Nat /\ e - p \in x .. e - p
          /\ p + (x - 1) = key /\ (p + x) + 1 = key + 2 /\ p + (e - p) = e
          /\ e \in p .. Len(w)
      BY <1>1, <1>7
    <2> HIDE DEF x
    <2>2. SubSeq(SubSeq(w, p + 1, e), 0 + 1, x - 1) = SubSeq(w, (p + 0) + 1, p + (x - 1))
      BY <1>1, <2>1, PartOfPart
    <2>3. SubSeq(SubSeq(w, p + 1, e), x + 1, e - p) = SubSeq(w, (p + x) + 1, p + (e - p))
      BY <1>1, <2>1, PartOfPart
    <2>4. 0 + 1 = 1 /\ (p + 0) + 1 = p + 1
      OBVIOUS
    <2> QED
      BY <1>2, <2>1, <2>2, <2>3, <2>4 DEF x
  <1>8. CASE key < e /\ w[key + 1] = "="
    <2>1. ParameterOf(s) = [key |-> SubSeq(s, 1, Min(I) - 1), has_value |-> TRUE,
                            value |-> SubSeq(s, Min(I) + 1, Len(s))]
      BY <1>3, <1>5, <1>8
    <2>2. Min(I) = (key - p) + 1
      BY <1>5, <1>8
    <2>3. ParameterOf(s) = [key |-> SubSeq(w, p + 1, key), has_value |-> TRUE,
                            value |-> SubSeq(w, key + 2, e)]
      BY <1>7, <1>8, <2>1, <2>2
    <2>4. key # e
      BY <1>1, <1>8
    <2> QED
      BY <2>3, <2>4
  <1> QED
    BY <1>6, <1>8

-----------------------------------------------------------------------------
(* The walk. *)

\* (A name for it, because the SMT backend cannot read the literal.)
Brace == "}"

LEMMA BraceOnly == "|" # Brace /\ "=" # Brace
  BY DEF Brace

LEMMA TemplateParts ==
  ASSUME NEW w, NEW a, NEW m, NEW b
  PROVE  IsTemplate(w, a, m, b) <=>
           /\ a + 3 < m /\ m < b - 1 /\ Opens(w, a)
           /\ w[b - 1] = Brace /\ w[b] = Brace
           /\ w[m] = "|" /\ \A j \in a + 3 .. m - 1 : w[j] # "|"
           /\ \A j \in m + 1 .. b - 2 : w[j] # Brace
  BY Zenon DEF IsTemplate, Opens, Brace

\* Where a parameter ends, and what becomes of it.
Ends(w, p, e) ==
  /\ e \in p .. Len(w)
  /\ \A j \in p + 1 .. e : w[j] # "|" /\ w[j] # Brace
  /\ e < Len(w) => w[e + 1] \in {"|", Brace}

Goes(e) ==
  \/ e < Len(text) /\ text[e + 1] = "|" /\ first' = e + 1 /\ pc' = "param"
  \/ ~ (e < Len(text) /\ text[e + 1] = "|") /\ first' = e /\ pc' = "close"

\* A run of characters that are not in S goes from p to e and no further.
Runs(w, p, S, e) ==
  /\ e \in p .. Len(w)
  /\ e = Len(w) \/ w[e + 1] \in S
  /\ \A j \in p + 1 .. e : w[j] \notin S

KeyEnds == {"=", "|", Brace}
ValueEnds == {"|", Brace}

LEMMA RunsNumbers ==
  ASSUME NEW w \in Strings, NEW p \in 0 .. Len(w), NEW S, NEW e, Runs(w, p, S, e)
  PROVE  /\ Len(w) \in Nat /\ p \in Nat /\ e \in Nat /\ p <= e /\ e <= Len(w)
         /\ e \in 0 .. Len(w)
  <1>1. Len(w) \in Nat /\ e \in p .. Len(w)
    BY DEF Strings, Runs
  <1> QED
    BY <1>1

LEMMA NoValue ==
  ASSUME NEW w \in Strings, NEW p \in Nat, p <= Len(w),
         NEW key \in Nat, Runs(w, p, KeyEnds, key),
         ~ (key + 1 <= Len(w) /\ w[key + 1] = "=")
  PROVE  /\ Ends(w, p, key)
         /\ ParameterOf(SubSeq(w, p + 1, key))
              = [key |-> SubSeq(w, p + 1, key), has_value |-> FALSE, value |-> << >>]
  <1>0. Len(w) \in Nat /\ p \in 0 .. Len(w)
    BY DEF Strings
  <1>1. Len(w) \in Nat /\ p \in Nat /\ key \in Nat /\ p <= key /\ key <= Len(w)
    BY <1>0, RunsNumbers
  <1>2. \A j \in p + 1 .. key : w[j] # "=" /\ w[j] # "|" /\ w[j] # Brace
    BY DEF Runs, KeyEnds, ValueEnds
  <1>3. key < Len(w) => w[key + 1] \in {"|", Brace}
    <2> SUFFICES ASSUME key < Len(w) PROVE w[key + 1] \in {"|", Brace}
      OBVIOUS
    <2>1. key + 1 <= Len(w) /\ key # Len(w)
      BY <1>1
    <2> QED
      BY <2>1 DEF Runs, KeyEnds, ValueEnds
  <1>4. key \in p .. Len(w) /\ key \in key .. Len(w)
    BY <1>1
  <1>5. Ends(w, p, key)
    BY <1>2, <1>3, <1>4 DEF Ends
  <1> QED
    BY <1>1, <1>2, <1>4, <1>5, ParameterParts

LEMMA WithValue ==
  ASSUME NEW w \in Strings, NEW p \in Nat, p <= Len(w),
         NEW key \in Nat, Runs(w, p, KeyEnds, key),
         key + 1 <= Len(w), w[key + 1] = "=",
         NEW e \in Nat, Runs(w, key + 1, ValueEnds, e)
  PROVE  /\ Ends(w, p, e)
         /\ ParameterOf(SubSeq(w, p + 1, e))
              = [key |-> SubSeq(w, p + 1, key), has_value |-> TRUE,
                 value |-> SubSeq(w, (key + 1) + 1, e)]
  <1>0. Len(w) \in Nat /\ p \in 0 .. Len(w)
    BY DEF Strings
  <1>1. Len(w) \in Nat /\ p \in Nat /\ key \in Nat /\ p <= key /\ key <= Len(w)
    BY <1>0, RunsNumbers
  <1>2. key + 1 \in 0 .. Len(w)
    BY <1>1
  <1>3. e \in Nat /\ key + 1 <= e /\ e <= Len(w)
    BY <1>2, RunsNumbers
  <1>4. \A j \in p + 1 .. key : w[j] # "=" /\ w[j] # "|" /\ w[j] # Brace
    BY DEF Runs, KeyEnds, ValueEnds
  <1>5. e < Len(w) => w[e + 1] \in {"|", Brace}
    <2> SUFFICES ASSUME e < Len(w) PROVE w[e + 1] \in {"|", Brace}
      OBVIOUS
    <2>1. e # Len(w)
      BY <1>1, <1>3
    <2> QED
      BY <2>1 DEF Runs, KeyEnds, ValueEnds
  <1>6. ASSUME NEW j \in p + 1 .. e PROVE w[j] # "|" /\ w[j] # Brace
    <2>1. j \in p + 1 .. key \/ j = key + 1 \/ j \in (key + 1) + 1 .. e
      BY <1>1, <1>3
    <2>2. j \in (key + 1) + 1 .. e => w[j] # "|" /\ w[j] # Brace
      BY DEF Runs, KeyEnds, ValueEnds
    <2> QED
      BY <1>4, <2>1, <2>2, BraceOnly
  <1>7. e \in p .. Len(w) /\ key \in p .. Len(w) /\ e \in key .. Len(w) /\ key < e
    BY <1>1, <1>3
  <1>8. Ends(w, p, e)
    BY <1>5, <1>6, <1>7 DEF Ends
  <1>9. (key + 1) + 1 = key + 2
    BY <1>1
  <1>10. \A j \in p + 1 .. key : w[j] # "="
    BY <1>4
  <1>11. ParameterOf(SubSeq(w, p + 1, e))
           = [key |-> SubSeq(w, p + 1, key), has_value |-> TRUE, value |-> SubSeq(w, key + 2, e)]
    BY <1>7, <1>10, ParameterParts
  <1> QED
    BY <1>8, <1>9, <1>11

LEMMA ParameterEnds ==
  ASSUME TypeInv, Parameter
  PROVE  \E e : /\ Ends(text, first, e) /\ Goes(e)
                /\ entry' = [entry EXCEPT !.params =
                               Append(@, ParameterOf(SubSeq(text, first + 1, e)))]
  <1>1. text \in Strings /\ first \in 0 .. Len(text) /\ Len(text) \in Nat
    BY DEF TypeInv, TypeOK, Strings
  <1>2. \A S : \A p \in 0 .. Len(text) : Runs(text, p, S, Until(p, S))
    BY <1>1, UntilProperties DEF Runs
  <1>3. PICK key : key = Until(first, KeyEnds)
    OBVIOUS
  <1>4. Runs(text, first, KeyEnds, key)
    BY <1>1, <1>2, <1>3
  <1>5. key \in 0 .. Len(text) /\ key \in Nat /\ first \in Nat /\ first <= Len(text)
    BY <1>1, <1>4, RunsNumbers
  <1>6. At(key, << "=" >>) <=> key + 1 <= Len(text) /\ text[key + 1] = "="
    BY <1>1, <1>5, AtOne
  <1>7. ASSUME NEW e, e \in 0 .. Len(text),
               first' = IF At(e, << "|" >>) THEN e + 1 ELSE e,
               pc' = IF At(e, << "|" >>) THEN "param" ELSE "close"
        PROVE  Goes(e)
    <2>1. At(e, << "|" >>) <=> e + 1 <= Len(text) /\ text[e + 1] = "|"
      BY <1>1, <1>7, AtOne
    <2>2. e + 1 <= Len(text) <=> e < Len(text)
      BY <1>1, <1>7
    <2> QED
      BY <1>7, <2>1, <2>2, Zenon DEF Goes
  <1>8. CASE At(key, << "=" >>)
    <2>1. PICK e : e = ValueEnd(key + 1)
      OBVIOUS
    <2>2. key + 1 \in 0 .. Len(text)
      BY <1>1, <1>5, <1>6, <1>8
    <2>3. Runs(text, key + 1, ValueEnds, e)
      BY <1>2, <2>1, <2>2, Zenon DEF ValueEnd, ValueEnds, Brace
    <2>4. e \in 0 .. Len(text) /\ e \in Nat
      BY <1>1, <2>2, <2>3, RunsNumbers
    <2>5. /\ entry' = [entry EXCEPT !.params = Append(@,
                        [key |-> Slice(first, key), has_value |-> At(key, << "=" >>),
                         value |-> Slice(key + 1, e)])]
          /\ first' = IF At(e, << "|" >>) THEN e + 1 ELSE e
          /\ pc' = IF At(e, << "|" >>) THEN "param" ELSE "close"
      BY <1>3, <1>8, <2>1, Zenon DEF Parameter, KeyEnds, Brace
    <2>6. At(key, << "=" >>) = TRUE
      BY <1>8 DEF At
    <2>7. /\ Ends(text, first, e)
          /\ ParameterOf(SubSeq(text, first + 1, e))
               = [key |-> SubSeq(text, first + 1, key), has_value |-> TRUE,
                  value |-> SubSeq(text, (key + 1) + 1, e)]
      BY <1>1, <1>4, <1>5, <1>6, <1>8, <2>3, <2>4, WithValue
    <2>8. Goes(e)
      BY <1>7, <2>4, <2>5
    <2>9. entry' = [entry EXCEPT !.params =
                      Append(@, ParameterOf(SubSeq(text, first + 1, e)))]
      BY <2>5, <2>6, <2>7, Zenon DEF Slice
    <2> QED
      BY <2>7, <2>8, <2>9
  <1>9. CASE ~ At(key, << "=" >>)
    <2>1. /\ entry' = [entry EXCEPT !.params = Append(@,
                        [key |-> Slice(first, key), has_value |-> At(key, << "=" >>),
                         value |-> << >>])]
          /\ first' = IF At(key, << "|" >>) THEN key + 1 ELSE key
          /\ pc' = IF At(key, << "|" >>) THEN "param" ELSE "close"
      BY <1>3, <1>9, Zenon DEF Parameter, KeyEnds, Brace
    <2>2. At(key, << "=" >>) = FALSE
      BY <1>9 DEF At
    <2>3. /\ Ends(text, first, key)
          /\ ParameterOf(SubSeq(text, first + 1, key))
               = [key |-> SubSeq(text, first + 1, key), has_value |-> FALSE, value |-> << >>]
      BY <1>1, <1>4, <1>5, <1>6, <1>9, NoValue
    <2>4. Goes(key)
      BY <1>5, <1>7, <2>1
    <2>5. entry' = [entry EXCEPT !.params =
                      Append(@, ParameterOf(SubSeq(text, first + 1, key)))]
      BY <2>1, <2>2, <2>3, Zenon DEF Slice
    <2> QED
      BY <2>3, <2>4, <2>5
  <1> QED
    BY <1>8, <1>9

-----------------------------------------------------------------------------
(* Where the iterator is in a template that begins at a, with its first bar at m. *)

Inside(w, a, m) ==
  /\ a + 3 < m /\ m <= Len(w) /\ Opens(w, a)
  /\ w[m] = "|" /\ \A j \in a + 3 .. m - 1 : w[j] # "|"

\* Behind a bar.
AtParam(w, a, m, p) ==
  /\ Inside(w, a, m)
  /\ m <= p /\ p <= Len(w) /\ w[p] = "|" /\ \A j \in m + 1 .. p : w[j] # Brace

\* Before the "}}" that there should be.
AtClose(w, a, m, p) ==
  /\ Inside(w, a, m)
  /\ m <= p /\ p <= Len(w) /\ \A j \in m + 1 .. p : w[j] # Brace
  /\ p < Len(w) => w[p + 1] = Brace

\* The template so far, and the whole of it.
Partial(w, a, m, p) == [name |-> SubSeq(w, a + 3, m - 1), params |-> Between(w, Bars(w, m, p))]
Whole(w, a, m, p) ==
  [name |-> SubSeq(w, a + 3, m - 1), params |-> Between(w, Bars(w, m, p) \cup {p + 1})]

LEMMA BarsProperties ==
  ASSUME NEW w \in Strings, NEW m \in Nat, NEW p \in Nat
  PROVE  Bars(w, m, p) \in SUBSET Nat /\ IsFiniteSet(Bars(w, m, p))
  <1>1. Bars(w, m, p) \in SUBSET Nat /\ Bars(w, m, p) \subseteq m .. p
    BY DEF Bars
  <1>2. IsFiniteSet(m .. p)
    BY FS_Interval
  <1> QED
    BY <1>1, <1>2, FS_Subset

Advance(w, a, m, p, e) ==
  /\ e < Len(w) /\ w[e + 1] = "|" =>
       AtParam(w, a, m, e + 1) /\ Bars(w, m, e + 1) = Bars(w, m, p) \cup {e + 1}
  /\ ~ (e < Len(w) /\ w[e + 1] = "|") =>
       AtClose(w, a, m, e) /\ Bars(w, m, e) = Bars(w, m, p)
  /\ Between(w, Bars(w, m, p) \cup {e + 1})
       = Append(Between(w, Bars(w, m, p)), ParameterOf(SubSeq(w, p + 1, e)))

\* A parameter more, up to the next bar or to the end of the list.
LEMMA ParamMore ==
  ASSUME NEW w \in Strings, NEW a \in Nat, NEW m \in Nat, NEW p \in Nat, NEW e \in Nat,
         AtParam(w, a, m, p), Ends(w, p, e)
  PROVE  Advance(w, a, m, p, e)
  <1> DEFINE K == Bars(w, m, p)
  <1>1. Len(w) \in Nat
    BY DEF Strings
  <1>2. /\ Inside(w, a, m) /\ m <= p /\ p <= Len(w) /\ w[p] = "|"
        /\ \A j \in m + 1 .. p : w[j] # Brace
    BY DEF AtParam
  <1>3. /\ p <= e /\ e <= Len(w)
        /\ \A j \in p + 1 .. e : w[j] # "|" /\ w[j] # Brace
        /\ e < Len(w) => w[e + 1] \in {"|", Brace}
    BY <1>1 DEF Ends
  <1>4. K \in SUBSET Nat /\ IsFiniteSet(K)
    BY BarsProperties
  <1>5. p \in K /\ \A k \in K : k <= p
    BY <1>2 DEF Bars
  <1>6. Between(w, K \cup {e + 1}) = Append(Between(w, K), ParameterOf(SubSeq(w, p + 1, e)))
    <2> HIDE DEF K
    <2>1. e + 1 \in Nat /\ p < e + 1 /\ (e + 1) - 1 = e
      BY <1>3
    <2>2. PICK f \in Nat : f = e + 1
      BY <2>1
    <2>3. p < f
      BY <2>1, <2>2
    <2>4. Between(w, K \cup {f}) = Append(Between(w, K), ParameterOf(SubSeq(w, p + 1, f - 1)))
      BY <1>4, <1>5, <2>3, BetweenMore
    <2> QED
      BY <2>1, <2>2, <2>4
  <1>8. ASSUME NEW j \in m + 1 .. e PROVE w[j] # Brace
    <2>1. j \in m + 1 .. p \/ j \in p + 1 .. e
      BY <1>2, <1>3
    <2> QED
      BY <1>2, <1>3, <2>1
  <1>9. \A j \in m .. e : w[j] = "|" => j \in m .. p
    <2> SUFFICES ASSUME NEW j \in m .. e, w[j] = "|" PROVE j \in m .. p
      OBVIOUS
    <2>1. ~ j \in p + 1 .. e
      BY <1>3
    <2> QED
      BY <1>2, <1>3, <2>1
  <1>10. \A j \in m .. p : j \in m .. e
    BY <1>3
  <1>11. ASSUME e < Len(w), w[e + 1] = "|"
         PROVE  AtParam(w, a, m, e + 1) /\ Bars(w, m, e + 1) = K \cup {e + 1}
    <2>1. m <= e + 1 /\ e + 1 <= Len(w)
      BY <1>1, <1>2, <1>3, <1>11
    <2>2. ASSUME NEW j \in m + 1 .. e + 1 PROVE w[j] # Brace
      <3>1. j \in m + 1 .. e \/ j = e + 1
        OBVIOUS
      <3> QED
        BY <1>8, <1>11, <3>1, BraceOnly
    <2>3. \A j \in m .. e + 1 : j \in m .. e \/ j = e + 1
      OBVIOUS
    <2>4. e + 1 \in m .. e + 1 /\ \A j \in m .. e : j \in m .. e + 1
      BY <1>2, <1>3
    <2>5. Bars(w, m, e + 1) = K \cup {e + 1}
      BY <1>9, <1>10, <1>11, <2>3, <2>4 DEF Bars
    <2> HIDE DEF K
    <2> QED
      BY <1>2, <1>11, <2>1, <2>2, <2>5 DEF AtParam
  <1>12. ASSUME ~ (e < Len(w) /\ w[e + 1] = "|")
         PROVE  AtClose(w, a, m, e) /\ Bars(w, m, e) = K
    <2>1. m <= e
      BY <1>2, <1>3
    <2>2. Bars(w, m, e) = K
      BY <1>9, <1>10 DEF Bars
    <2>3. e < Len(w) => w[e + 1] = Brace
      BY <1>3, <1>12
    <2> HIDE DEF K
    <2> QED
      BY <1>2, <1>3, <1>8, <2>1, <2>2, <2>3 DEF AtClose
  <1> HIDE DEF K
  <1> QED
    BY <1>6, <1>11, <1>12, Zenon DEF K, Advance

\* The list is at its end: the template is complete, or there is none at a.
LEMMA Complete ==
  ASSUME NEW w \in Strings, NEW a \in Nat, NEW m \in Nat, NEW p \in Nat,
         AtClose(w, a, m, p), p + 2 <= Len(w), w[p + 1] = Brace, w[p + 2] = Brace
  PROVE  /\ TemplatesFrom(w)[a] = << Whole(w, a, m, p) >> \o TemplatesFrom(w)[p + 2]
         /\ p + 2 \in 0 .. Len(w)
  <1> DEFINE b == p + 2
  <1>1. /\ a + 3 < m /\ Opens(w, a) /\ w[m] = "|" /\ (\A j \in a + 3 .. m - 1 : w[j] # "|")
        /\ m <= p /\ \A j \in m + 1 .. p : w[j] # Brace
    BY DEF AtClose, Inside
  <1>2. b \in Nat /\ b - 1 = p + 1 /\ b - 2 = p /\ m < b - 1
    BY <1>1
  <1>3. w[b - 1] = Brace /\ w[b] = Brace /\ \A j \in m + 1 .. b - 2 : w[j] # Brace
    BY <1>1, <1>2
  <1> HIDE DEF b
  <1>4. IsTemplate(w, a, m, b)
    BY <1>1, <1>2, <1>3, TemplateParts
  <1>5. EntryOf(w, a, m, b) = Whole(w, a, m, p)
    BY <1>2 DEF EntryOf, Whole, Bars
  <1>6. b <= Len(w)
    BY DEF b
  <1>7. TemplatesFrom(w)[a] = << Whole(w, a, m, p) >> \o TemplatesFrom(w)[b] /\ b \in 0 .. Len(w)
    BY <1>2, <1>4, <1>5, <1>6, TemplateHere
  <1> QED
    BY <1>7 DEF b

LEMMA Incomplete ==
  ASSUME NEW w \in Strings, NEW a \in Nat, NEW m \in Nat, NEW p \in Nat,
         AtClose(w, a, m, p), ~ (p + 2 <= Len(w) /\ w[p + 1] = Brace /\ w[p + 2] = Brace)
  PROVE  TemplatesFrom(w)[a] = << >>
  <1>1. Len(w) \in Nat
    BY DEF Strings
  <1>2. /\ a + 3 < m /\ m <= Len(w) /\ Opens(w, a) /\ w[m] = "|"
        /\ \A j \in a + 3 .. m - 1 : w[j] # "|"
        /\ m <= p /\ p <= Len(w)
        /\ \A j \in m + 1 .. p : w[j] # Brace
        /\ p < Len(w) => w[p + 1] = Brace
    BY DEF AtClose, Inside
  <1>3. ASSUME NEW k \in Nat, NEW c \in Nat, c <= Len(w), IsTemplate(w, a, k, c) PROVE FALSE
    <2>1. /\ a + 3 < k /\ w[k] = "|" /\ (\A j \in a + 3 .. k - 1 : w[j] # "|")
          /\ k < c - 1 /\ w[c - 1] = Brace /\ w[c] = Brace
          /\ \A j \in k + 1 .. c - 2 : w[j] # Brace
      BY <1>3, TemplateParts
    <2>2. ~ m \in a + 3 .. k - 1 /\ ~ k \in a + 3 .. m - 1
      BY <1>2, <2>1
    <2>3. m = k
      <3>1. ~ m < k /\ ~ k < m
        BY <1>2, <2>1, <2>2
      <3> QED
        BY <3>1
    <2>4. m < c - 1 /\ \A j \in m + 1 .. c - 2 : w[j] # Brace
      BY <2>1, <2>3
    <2>5. ~ c - 1 \in m + 1 .. p
      BY <1>2, <2>1
    <2>6. p < c - 1
      BY <2>4, <2>5
    <2>7. p < Len(w)
      BY <1>1, <1>3, <2>6
    <2>8. w[p + 1] = Brace
      BY <1>2, <2>7
    <2>9. ~ p + 1 \in m + 1 .. c - 2
      BY <2>4, <2>8
    <2>10. c = p + 2
      BY <1>2, <2>6, <2>9
    <2> QED
      BY <1>3, <2>1, <2>8, <2>10
  <1>4. Spans(w, a) = {}
    <2> SUFFICES ASSUME NEW s \in Spans(w, a) PROVE FALSE
      OBVIOUS
    <2>1. PICK k \in a + 4 .. Len(w), c \in a + 6 .. Len(w) : s = << k, c >>
      BY DEF Spans
    <2>2. IsTemplate(w, a, k, c)
      BY <2>1 DEF Spans
    <2>3. k \in Nat /\ c \in Nat /\ c <= Len(w)
      BY <1>1, <2>1
    <2> QED
      BY <1>3, <2>2, <2>3
  <1>5. a + 2 <= Len(w)
    BY <1>1, <1>2
  <1> QED
    BY <1>2, <1>4, <1>5, NoneHere

BarEnds == {"|"}

\* A type ends at the first bar, or there is no type.
LEMMA NoType ==
  ASSUME NEW w \in Strings, NEW a \in Nat, a + 2 <= Len(w), Opens(w, a),
         NEW t \in Nat, Runs(w, a + 2, BarEnds, t),
         ~ (a + 2 < t /\ t + 1 <= Len(w) /\ w[t + 1] = "|")
  PROVE  TemplatesFrom(w)[a] = << >>
  <1>1. Len(w) \in Nat
    BY DEF Strings
  <1>2. /\ a + 2 <= t /\ t <= Len(w)
        /\ t = Len(w) \/ w[t + 1] = "|"
        /\ \A j \in (a + 2) + 1 .. t : w[j] # "|"
    BY <1>1 DEF Runs, BarEnds
  <1>3. ASSUME NEW k \in Nat, NEW c \in Nat, c <= Len(w), IsTemplate(w, a, k, c) PROVE FALSE
    <2>1. /\ a + 3 < k /\ w[k] = "|" /\ (\A j \in a + 3 .. k - 1 : w[j] # "|")
          /\ k < c - 1
      BY <1>3, TemplateParts
    <2>2. ~ k \in (a + 2) + 1 .. t
      BY <1>2, <2>1
    <2>3. t < k
      BY <2>1, <2>2
    <2>4. t < Len(w)
      BY <1>1, <1>3, <2>1, <2>3
    <2>5. w[t + 1] = "|"
      BY <1>2, <2>4
    <2>6. ~ t + 1 \in a + 3 .. k - 1
      BY <2>1, <2>5
    <2>7. t + 1 = k
      BY <1>2, <2>3, <2>6
    <2>8. a + 2 < t /\ t + 1 <= Len(w)
      BY <1>1, <2>1, <2>4, <2>7
    <2> QED
      BY <2>5, <2>8
  <1>4. Spans(w, a) = {}
    <2> SUFFICES ASSUME NEW s \in Spans(w, a) PROVE FALSE
      OBVIOUS
    <2>1. PICK k \in a + 4 .. Len(w), c \in a + 6 .. Len(w) : s = << k, c >>
      BY DEF Spans
    <2>2. IsTemplate(w, a, k, c)
      BY <2>1 DEF Spans
    <2>3. k \in Nat /\ c \in Nat /\ c <= Len(w)
      BY <1>1, <2>1
    <2> QED
      BY <1>3, <2>2, <2>3
  <1> QED
    BY <1>4, NoneHere

LEMMA TypeHere ==
  ASSUME NEW w \in Strings, NEW a \in Nat, Opens(w, a),
         NEW t \in Nat, Runs(w, a + 2, BarEnds, t),
         a + 2 < t, t + 1 <= Len(w), w[t + 1] = "|"
  PROVE  /\ AtParam(w, a, t + 1, t + 1)
         /\ Partial(w, a, t + 1, t + 1) = [name |-> SubSeq(w, (a + 2) + 1, t), params |-> << >>]
  <1> DEFINE m == t + 1
  <1>1. Len(w) \in Nat /\ m \in Nat
    BY DEF Strings
  <1>2. \A j \in (a + 2) + 1 .. t : w[j] # "|"
    BY DEF Runs, BarEnds
  <1>3. a + 3 < m /\ m - 1 = t /\ (a + 2) + 1 = a + 3
    OBVIOUS
  <1>4. Inside(w, a, m)
    BY <1>2, <1>3 DEF Inside
  <1>5. Bars(w, m, m) = {m}
    <2>1. \A j \in m .. m : j = m
      BY <1>1
    <2>2. m \in m .. m
      BY <1>1
    <2> HIDE DEF m
    <2> QED
      BY <2>1, <2>2 DEF Bars, m
  <1>6. \A j \in m + 1 .. m : w[j] # Brace
    <2>1. \A j \in m + 1 .. m : FALSE
      BY <1>1
    <2> QED
      BY <2>1
  <1>7. Between(w, Bars(w, m, m)) = << >>
    BY <1>5, BetweenNone
  <1>8. m <= m /\ m <= Len(w) /\ w[m] = "|"
    BY <1>1
  <1>9. Partial(w, a, m, m) = [name |-> SubSeq(w, (a + 2) + 1, t), params |-> << >>]
    BY <1>3, <1>7, Zenon DEF Partial
  <1> HIDE DEF m
  <1>10. AtParam(w, a, m, m)
    BY <1>4, <1>6, <1>8 DEF AtParam
  <1> QED
    BY <1>9, <1>10 DEF m

-----------------------------------------------------------------------------
(* The invariant: what has been parsed and what is still to come make up the *)
(* templates of the text.                                                    *)

Rest(p) == results \o TemplatesFrom(text)[p] = TemplatesFrom(text)[0]

GrammarInv ==
  /\ pc = "skip" => Rest(first)
  /\ pc = "template" =>
       Rest(first) /\ (first = Len(text) \/ (first + 2 <= Len(text) /\ Opens(text, first)))
  /\ pc = "param" =>
       \E a \in Nat, m \in Nat :
         Rest(a) /\ AtParam(text, a, m, first) /\ entry = Partial(text, a, m, first)
  /\ pc = "close" =>
       \E a \in Nat, m \in Nat :
         Rest(a) /\ AtClose(text, a, m, first) /\ entry = Whole(text, a, m, first)
  /\ pc \in {"build", "field", "returned", "threw"} => results = TemplatesFrom(text)[0]

LEMMA ConcatEmpty ==
  ASSUME NEW S, NEW r \in Seq(S)
  PROVE  r \o << >> = r /\ << >> \o r = r
  OBVIOUS

LEMMA AppendConcat ==
  ASSUME NEW S, NEW r \in Seq(S), NEW x, NEW T, NEW s \in Seq(T)
  PROVE  Append(r, x) \o s = r \o (<< x >> \o s)
  <1> DEFINE U == S \cup T \cup {x}
  <1>1. r \in Seq(U) /\ s \in Seq(U) /\ x \in U
    OBVIOUS
  <1> HIDE DEF U
  <1> QED
    BY <1>1

LEMMA GrammarInit ==
  ASSUME Init, TypeInv PROVE GrammarInv
  <1>1. text \in Strings /\ 0 \in 0 .. Len(text)
    BY DEF TypeInv, TypeOK, Strings
  <1>2. TemplatesFrom(text)[0] \in Seq(EntriesOf(text))
    BY <1>1, TemplatesFromType
  <1>3. << >> \o TemplatesFrom(text)[0] = TemplatesFrom(text)[0]
    BY <1>2, ConcatEmpty
  <1>4. pc = "skip" /\ first = 0 /\ results = << >>
    BY DEF Init
  <1> QED
    BY <1>3, <1>4 DEF GrammarInv, Rest

LEMMA GrammarSkip ==
  ASSUME TypeInv, GrammarInv, SkipToTemplate
  PROVE  GrammarInv'
  <1>1. text \in Strings /\ first \in 0 .. Len(text) /\ Len(text) \in Nat
    BY DEF TypeInv, TypeOK, Strings
  <1>2. Rest(first)
    BY DEF GrammarInv, SkipToTemplate
  <1>3. pc' = "template" /\ UNCHANGED << text, results >>
    BY DEF SkipToTemplate, input
  <1>4. PICK w \in Strings, p \in Nat : w = text /\ p = first
    BY <1>1
  <1> DEFINE K == { q \in p .. Len(w) : q = Len(w) \/ At(q, Opening) }
  <1>5. K \in SUBSET Nat /\ K # {}
    <2>1. Len(w) \in K
      BY <1>1, <1>4
    <2> QED
      BY <1>1, <1>4, <2>1
  <1>6. Min(K) \in K /\ \A k \in K : Min(K) <= k
    <2> HIDE DEF K
    <2> QED
      BY <1>5, LeastProperties
  <1>7. first' = Min(K)
    BY <1>4, Zenon DEF SkipToTemplate
  <1>8. PICK q \in Nat : q = Min(K)
    <2> HIDE DEF K
    <2> QED
      BY <1>5, <1>6
  <1>9. q \in p .. Len(w) /\ (q = Len(w) \/ At(q, Opening))
    BY <1>6, <1>8
  <1>10. \A r \in 0 .. Len(w) : At(r, Opening) <=> r + 2 <= Len(w) /\ Opens(w, r)
    <2>1. \A r \in 0 .. Len(w) :
            At(r, << "{", "{" >>) <=> r + 2 <= Len(w) /\ w[r + 1] = "{" /\ w[r + 2] = "{"
      BY <1>1, <1>4, AtTwo
    <2> QED
      BY <2>1, Zenon DEF Opening, Opens
  <1>11. \A r \in p .. q - 1 : r \in 0 .. Len(w) - 2 => ~ Opens(w, r)
    <2> SUFFICES ASSUME NEW r \in p .. q - 1, r \in 0 .. Len(w) - 2, Opens(w, r) PROVE FALSE
      OBVIOUS
    <2>1. r \in 0 .. Len(w) /\ r + 2 <= Len(w) /\ r \in p .. Len(w)
      BY <1>1, <1>4
    <2>2. r \in K
      BY <1>10, <2>1
    <2>3. q <= r
      <3> HIDE DEF K
      <3> QED
        BY <1>6, <1>8, <2>2
    <2> QED
      BY <2>3
  <1> HIDE DEF K
  <1>12. TemplatesFrom(w)[p] = TemplatesFrom(w)[q]
    BY <1>1, <1>4, <1>9, <1>11, SkipToOpening
  <1>13. q = Len(w) \/ (q + 2 <= Len(w) /\ Opens(w, q))
    <2>1. q \in 0 .. Len(w)
      BY <1>1, <1>4, <1>9
    <2> QED
      BY <1>9, <1>10, <2>1
  <1>14. /\ Rest(first)'
         /\ first' = Len(text') \/ (first' + 2 <= Len(text') /\ Opens(text', first'))
    <2>1. first' = q /\ text' = w /\ results' = results
      BY <1>3, <1>4, <1>7, <1>8
    <2>2. results \o TemplatesFrom(w)[q] = TemplatesFrom(w)[0]
      BY <1>2, <1>4, <1>12 DEF Rest
    <2> QED
      BY <1>13, <2>1, <2>2, Zenon DEF Rest
  <1> QED
    BY <1>3, <1>14 DEF GrammarInv

LEMMA GrammarType ==
  ASSUME TypeInv, GrammarInv, TemplateType
  PROVE  GrammarInv'
  <1>1. text \in Strings /\ first \in 0 .. Len(text) /\ Len(text) \in Nat
    BY DEF TypeInv, TypeOK, Strings
  <1>2. Rest(first) /\ At(first, Opening) /\ TypeEnd > first + 2 /\ At(TypeEnd, << "|" >>)
    BY DEF GrammarInv, TemplateType, OpensTemplate
  <1>3. /\ pc' = "param" /\ text' = text /\ results' = results
        /\ first' = TypeEnd + 1
        /\ entry' = [name |-> SubSeq(text, (first + 2) + 1, TypeEnd), params |-> << >>]
    BY Zenon DEF TemplateType, Slice, input
  <1>4. PICK w \in Strings, a \in Nat : w = text /\ a = first
    BY <1>1
  <1>5. a + 2 <= Len(w) /\ Opens(w, a)
    <2>1. At(a, << "{", "{" >>)
      BY <1>2, <1>4, Zenon DEF Opening
    <2>2. At(a, << "{", "{" >>) <=> a + 2 <= Len(w) /\ w[a + 1] = "{" /\ w[a + 2] = "{"
      BY <1>1, <1>4, AtTwo
    <2> QED
      BY <2>1, <2>2, Zenon DEF Opens
  <1>6. PICK t : t = TypeEnd
    OBVIOUS
  <1>7. Runs(w, a + 2, BarEnds, t)
    <2>1. a + 2 \in 0 .. Len(w)
      BY <1>1, <1>4, <1>5
    <2>2. t = Until(a + 2, BarEnds)
      BY <1>4, <1>6, Zenon DEF TypeEnd, BarEnds
    <2> QED
      BY <1>1, <1>4, <2>1, <2>2, UntilProperties DEF Runs
  <1>8. t \in Nat /\ t \in 0 .. Len(w)
    <2>1. a + 2 \in 0 .. Len(w)
      BY <1>1, <1>4, <1>5
    <2> QED
      BY <1>1, <1>4, <1>7, <2>1, RunsNumbers
  <1>9. a + 2 < t /\ t + 1 <= Len(w) /\ w[t + 1] = "|"
    <2>1. At(t, << "|" >>) <=> t + 1 <= Len(text) /\ text[t + 1] = "|"
      BY <1>1, <1>4, <1>8, AtOne
    <2>2. t > a + 2
      BY <1>2, <1>4, <1>6
    <2> QED
      BY <1>2, <1>4, <1>6, <1>8, <2>1, <2>2
  <1>10. /\ AtParam(w, a, t + 1, t + 1)
         /\ Partial(w, a, t + 1, t + 1) = [name |-> SubSeq(w, (a + 2) + 1, t), params |-> << >>]
    BY <1>1, <1>4, <1>5, <1>7, <1>8, <1>9, TypeHere
  <1>11. t + 1 \in Nat
    BY <1>8
  <1>12. \E b \in Nat, m \in Nat :
           Rest(b)' /\ AtParam(text', b, m, first') /\ entry' = Partial(text', b, m, first')
    <2>1. first' = t + 1 /\ text' = w
      BY <1>3, <1>4, <1>6
    <2>2. entry' = Partial(w, a, t + 1, t + 1)
      BY <1>3, <1>4, <1>6, <1>10, Zenon
    <2>3. results' \o TemplatesFrom(w)[a] = TemplatesFrom(w)[0]
      BY <1>2, <1>3, <1>4, Zenon DEF Rest
    <2>4. Rest(a)'
      BY <2>1, <2>3, Zenon DEF Rest
    <2> QED
      BY <1>10, <1>11, <2>1, <2>2, <2>4, Zenon
  <1> QED
    BY <1>3, <1>12 DEF GrammarInv

LEMMA GrammarParameter ==
  ASSUME TypeInv, GrammarInv, Parameter
  PROVE  GrammarInv'
  <1>1. text \in Strings /\ first \in Nat /\ Len(text) \in Nat
    BY DEF TypeInv, TypeOK, Strings
  <1>2. PICK a \in Nat, m \in Nat :
          Rest(a) /\ AtParam(text, a, m, first) /\ entry = Partial(text, a, m, first)
    BY DEF GrammarInv, Parameter
  <1>3. PICK e : /\ Ends(text, first, e) /\ Goes(e)
                 /\ entry' = [entry EXCEPT !.params =
                                Append(@, ParameterOf(SubSeq(text, first + 1, e)))]
    BY ParameterEnds
  <1>4. PICK w \in Strings, p \in Nat : w = text /\ p = first
    BY <1>1
  <1>5. e \in Nat
    <2>1. e \in p .. Len(w)
      BY <1>3, <1>4, Zenon DEF Ends
    <2> QED
      BY <1>1, <1>4, <2>1
  <1>6. text' = w /\ results' = results
    BY <1>4 DEF Parameter, input
  <1>7. AtParam(w, a, m, p) /\ Ends(w, p, e)
    BY <1>2, <1>3, <1>4, Zenon
  <1>more. Advance(w, a, m, p, e)
    <2>1. PICK d \in Nat : d = e
      BY <1>5
    <2>2. AtParam(w, a, m, p) /\ Ends(w, p, d)
      BY <1>7, <2>1, Zenon
    <2>3. Advance(w, a, m, p, d)
      BY <2>2, ParamMore
    <2> QED
      BY <2>1, <2>3, Zenon
  <1>8. /\ e < Len(w) /\ w[e + 1] = "|" =>
             AtParam(w, a, m, e + 1) /\ Bars(w, m, e + 1) = Bars(w, m, p) \cup {e + 1}
        /\ ~ (e < Len(w) /\ w[e + 1] = "|") =>
             AtClose(w, a, m, e) /\ Bars(w, m, e) = Bars(w, m, p)
        /\ Between(w, Bars(w, m, p) \cup {e + 1})
             = Append(Between(w, Bars(w, m, p)), ParameterOf(SubSeq(w, p + 1, e)))
    BY <1>more, Zenon DEF Advance
  <1>9. entry' = [name |-> SubSeq(w, a + 3, m - 1),
                  params |-> Between(w, Bars(w, m, p) \cup {e + 1})]
    <2> DEFINE b == Between(w, Bars(w, m, p))
               n == SubSeq(w, a + 3, m - 1)
               x == ParameterOf(SubSeq(w, p + 1, e))
    <2>1. entry = [name |-> n, params |-> b]
      BY <1>2, <1>4, Zenon DEF Partial
    <2>2. entry' = [entry EXCEPT !.params = Append(@, x)]
      BY <1>3, <1>4, Zenon
    <2> HIDE DEF b, n, x
    <2>3. entry' = [name |-> n, params |-> Append(b, x)]
      BY <2>1, <2>2
    <2> QED
      BY <1>8, <2>3, Zenon DEF b, n, x
  <1>10. Rest(a)'
    <2>1. results' \o TemplatesFrom(w)[a] = TemplatesFrom(w)[0]
      BY <1>2, <1>4, <1>6, Zenon DEF Rest
    <2> QED
      BY <1>6, <2>1, Zenon DEF Rest
  <1>11. \/ e < Len(w) /\ w[e + 1] = "|" /\ first' = e + 1 /\ pc' = "param"
         \/ ~ (e < Len(w) /\ w[e + 1] = "|") /\ first' = e /\ pc' = "close"
    BY <1>3, <1>4, Zenon DEF Goes
  <1>12. CASE e < Len(w) /\ w[e + 1] = "|" /\ first' = e + 1 /\ pc' = "param"
    <2>1. AtParam(w, a, m, e + 1) /\ entry' = Partial(w, a, m, e + 1)
      BY <1>8, <1>9, <1>12, Zenon DEF Partial
    <2>2. AtParam(text', a, m, first') /\ entry' = Partial(text', a, m, first')
      BY <1>6, <1>12, <2>1, Zenon
    <2>3. \E b \in Nat, n \in Nat :
            Rest(b)' /\ AtParam(text', b, n, first') /\ entry' = Partial(text', b, n, first')
      BY <1>10, <2>2, Zenon
    <2> QED
      BY <1>12, <2>3 DEF GrammarInv
  <1>13. CASE ~ (e < Len(w) /\ w[e + 1] = "|") /\ first' = e /\ pc' = "close"
    <2>1. AtClose(w, a, m, e) /\ entry' = Whole(w, a, m, e)
      BY <1>8, <1>9, <1>13, Zenon DEF Whole
    <2>2. AtClose(text', a, m, first') /\ entry' = Whole(text', a, m, first')
      BY <1>6, <1>13, <2>1, Zenon
    <2>3. \E b \in Nat, n \in Nat :
            Rest(b)' /\ AtClose(text', b, n, first') /\ entry' = Whole(text', b, n, first')
      BY <1>10, <2>2, Zenon
    <2> QED
      BY <1>13, <2>3 DEF GrammarInv
  <1> QED
    BY <1>11, <1>12, <1>13

\* What CloseTemplate and StopRepetition look for.
LEMMA ClosingHere ==
  ASSUME text \in Strings, NEW p \in 0 .. Len(text)
  PROVE  At(p, Closing) <=> p + 2 <= Len(text) /\ text[p + 1] = Brace /\ text[p + 2] = Brace
  BY Zenon, AtTwo DEF Closing, Brace

LEMMA GrammarClose ==
  ASSUME TypeInv, GrammarInv, CloseTemplate
  PROVE  GrammarInv'
  <1>1. /\ text \in Strings /\ first \in 0 .. Len(text) /\ first \in Nat
        /\ results \in Seq(Entries)
    BY DEF TypeInv, TypeOK, Strings
  <1>2. PICK a \in Nat, m \in Nat :
          Rest(a) /\ AtClose(text, a, m, first) /\ entry = Whole(text, a, m, first)
    BY DEF GrammarInv, CloseTemplate
  <1>3. /\ first + 2 <= Len(text) /\ text[first + 1] = Brace /\ text[first + 2] = Brace
    BY <1>1, ClosingHere DEF CloseTemplate
  <1>4. PICK w \in Strings, p \in Nat : w = text /\ p = first
    BY <1>1
  <1>5. AtClose(w, a, m, p) /\ p + 2 <= Len(w) /\ w[p + 1] = Brace /\ w[p + 2] = Brace
    BY <1>2, <1>3, <1>4, Zenon
  <1>6. /\ TemplatesFrom(w)[a] = << Whole(w, a, m, p) >> \o TemplatesFrom(w)[p + 2]
        /\ p + 2 \in 0 .. Len(w)
    BY <1>5, Complete
  <1>7. /\ results' = Append(results, entry) /\ first' = p + 2 /\ text' = w /\ pc' = "skip"
    BY <1>4 DEF CloseTemplate, input
  <1>8. PICK r : r = results
    OBVIOUS
  <1>9. PICK x : x = entry
    OBVIOUS
  <1>10. PICK s : s = TemplatesFrom(w)[p + 2]
    OBVIOUS
  <1>11. s \in Seq(EntriesOf(w)) /\ r \in Seq(Entries)
    BY <1>1, <1>6, <1>8, <1>10, TemplatesFromType
  <1>12. Append(r, x) \o s = r \o (<< x >> \o s)
    BY <1>11, AppendConcat
  <1>13. r \o (<< x >> \o s) = TemplatesFrom(w)[0]
    BY <1>2, <1>4, <1>6, <1>8, <1>9, <1>10, Zenon DEF Rest
  <1>14. results' \o TemplatesFrom(w)[p + 2] = TemplatesFrom(w)[0]
    BY <1>7, <1>8, <1>9, <1>10, <1>12, <1>13, Zenon
  <1>15. Rest(first)'
    BY <1>7, <1>14, Zenon DEF Rest
  <1> QED
    BY <1>7, <1>15 DEF GrammarInv

LEMMA GrammarStop ==
  ASSUME TypeInv, GrammarInv, StopRepetition
  PROVE  GrammarInv'
  <1>1. /\ text \in Strings /\ first \in 0 .. Len(text) /\ first \in Nat
        /\ results \in Seq(Entries) /\ Len(text) \in Nat
    BY DEF TypeInv, TypeOK, Strings
  <1>2. ASSUME NEW a, TemplatesFrom(text)[a] = << >>, Rest(a)
        PROVE  results = TemplatesFrom(text)[0]
    <2>1. results \o << >> = results
      BY <1>1, ConcatEmpty
    <2> QED
      BY <1>2, <2>1, Zenon DEF Rest
  <1>3. ASSUME pc = "template" /\ ~ OpensTemplate PROVE results = TemplatesFrom(text)[0]
    <2>1. /\ Rest(first)
          /\ first = Len(text) \/ (first + 2 <= Len(text) /\ Opens(text, first))
      BY <1>3 DEF GrammarInv
    <2>2. CASE first = Len(text)
      <3>1. TemplatesFrom(text)[first] = << >>
        BY <1>1, <2>2, NoneAtEnd
      <3> QED
        BY <1>2, <2>1, <3>1
    <2>3. CASE first + 2 <= Len(text) /\ Opens(text, first)
      <3>1. PICK w \in Strings, a \in Nat : w = text /\ a = first
        BY <1>1
      <3>2. PICK t : t = TypeEnd
        OBVIOUS
      <3>3. a + 2 \in 0 .. Len(w)
        BY <1>1, <2>3, <3>1
      <3>4. Runs(w, a + 2, BarEnds, t)
        <4>1. t = Until(a + 2, BarEnds)
          BY <3>1, <3>2, Zenon DEF TypeEnd, BarEnds
        <4> QED
          BY <1>1, <3>1, <3>3, <4>1, UntilProperties DEF Runs
      <3>5. t \in Nat /\ t \in 0 .. Len(w)
        BY <3>3, <3>4, RunsNumbers
      <3>6. At(first, Opening)
        <4>1. At(a, << "{", "{" >>) <=> a + 2 <= Len(w) /\ w[a + 1] = "{" /\ w[a + 2] = "{"
          BY <1>1, <3>1, AtTwo
        <4> QED
          BY <2>3, <3>1, <4>1, Zenon DEF Opens, Opening
      <3>7. ~ (TypeEnd > first + 2 /\ At(TypeEnd, << "|" >>))
        BY <1>3, <3>6, Zenon DEF OpensTemplate
      <3>8. ~ (t > a + 2 /\ At(t, << "|" >>))
        BY <3>1, <3>2, <3>7, Zenon
      <3>9. At(t, << "|" >>) <=> t + 1 <= Len(w) /\ w[t + 1] = "|"
        BY <1>1, <3>1, <3>5, AtOne
      <3>10. t > a + 2 <=> a + 2 < t
        BY <3>5
      <3>11. ~ (a + 2 < t /\ t + 1 <= Len(w) /\ w[t + 1] = "|")
        BY <3>8, <3>9, <3>10, Zenon
      <3>12. a + 2 <= Len(w) /\ Opens(w, a)
        BY <2>3, <3>1
      <3>13. TemplatesFrom(w)[a] = << >>
        BY <3>4, <3>5, <3>11, <3>12, NoType
      <3>14. TemplatesFrom(text)[first] = << >>
        BY <3>1, <3>13, Zenon
      <3> QED
        BY <1>2, <2>1, <3>14
    <2> QED
      BY <2>1, <2>2, <2>3
  <1>4. ASSUME pc = "close" /\ ~ At(first, Closing) PROVE results = TemplatesFrom(text)[0]
    <2>1. PICK a \in Nat, m \in Nat : Rest(a) /\ AtClose(text, a, m, first)
      BY <1>4 DEF GrammarInv
    <2>2. ~ (first + 2 <= Len(text) /\ text[first + 1] = Brace /\ text[first + 2] = Brace)
      BY <1>1, <1>4, ClosingHere
    <2>3. TemplatesFrom(text)[a] = << >>
      BY <1>1, <2>1, <2>2, Incomplete
    <2> QED
      BY <1>2, <2>1, <2>3
  <1>5. results = TemplatesFrom(text)[0]
    BY <1>3, <1>4 DEF StopRepetition
  <1>6. pc' = "build" /\ text' = text /\ results' = results
    BY DEF StopRepetition, input, parse
  <1>7. results' = TemplatesFrom(text')[0]
    BY <1>5, <1>6, Zenon
  <1> QED
    BY <1>6, <1>7 DEF GrammarInv

\* The steps that make the citations leave what has been parsed alone.
LEMMA GrammarBuild ==
  ASSUME GrammarInv,
         \/ FilterOut \/ BuildCitation \/ SetTitle \/ SetTextIdent \/ SetNumericIdent
         \/ IgnoreIdent \/ ThrowIdent \/ AddUrl \/ SkipParameter \/ Insert \/ Return
  PROVE  GrammarInv'
  <1>1. /\ pc \in {"build", "field"} /\ pc' \in {"build", "field", "returned", "threw"}
        /\ text' = text /\ results' = results
    BY DEF FilterOut, BuildCitation, SetTitle, SetTextIdent, SetNumericIdent, IgnoreIdent,
           ThrowIdent, AddUrl, SkipParameter, Insert, Return, Given, input, parse
  <1>2. results = TemplatesFrom(text)[0]
    BY <1>1 DEF GrammarInv
  <1>3. results' = TemplatesFrom(text')[0]
    BY <1>1, <1>2, Zenon
  <1> QED
    BY <1>1, <1>3 DEF GrammarInv

LEMMA GrammarStep ==
  ASSUME TypeInv, GrammarInv, [Next]_vars
  PROVE  GrammarInv'
  <1>1. CASE UNCHANGED vars
    <2>1. /\ text' = text /\ pc' = pc /\ first' = first /\ entry' = entry
          /\ results' = results
      BY <1>1 DEF vars, input, parse
    <2> QED
      BY <2>1 DEF GrammarInv, Rest
  <1> QED
    BY <1>1, GrammarSkip, GrammarType, GrammarParameter, GrammarClose, GrammarStop,
       GrammarBuild DEF Next

\* For every text the walk of the iterator finds the templates that the text, position
\* by position, says there are: none is lost, invented or given what another one says,
\* up to the first "{{" that does not begin a template.
THEOREM TemplatesAreExact == Spec => []TemplatesExact
  <1>1. Init => TypeInv /\ GrammarInv
    BY TypeInit, GrammarInit
  <1>2. TypeInv /\ GrammarInv /\ [Next]_vars => (TypeInv /\ GrammarInv)'
    BY TypeStep, GrammarStep
  <1>3. GrammarInv => TemplatesExact
    BY DEF GrammarInv, TemplatesExact, Templates
  <1> QED
    BY <1>1, <1>2, <1>3, PTL DEF Spec
=============================================================================
