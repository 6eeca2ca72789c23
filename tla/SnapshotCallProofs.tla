------------------------ MODULE SnapshotCallProofs ------------------------
(***************************************************************************)
(* What a call of SnapshotProcessor that returns has given.                *)
(*                                                                         *)
(* The visits of a line are made in an order the compiler chooses, and an  *)
(* object is emitted where its id comes first.  The proof follows, for     *)
(* authors and for institutions, the messages found so far and those that  *)
(* the visits to come will find: together they are always the messages of  *)
(* the lines, and the first ones of new ids are what has been given.       *)
(***************************************************************************)
EXTENDS SnapshotProcessorProofs

-----------------------------------------------------------------------------
(* What visits find. *)

\* The messages of the visits of a kind, without the objects that are skipped
\* because they are empty; a work stands for itself.
MessageOf(v) ==
  IF v.kind = "author" THEN AuthorMessage(v.object)
  ELSE IF v.kind = "institution" THEN InstitutionMessage(v.object) ELSE v
Skipped(v) ==
  \/ v.kind = "author" /\ IsAuthorEmpty(v.object)
  \/ v.kind = "institution" /\ IsInstitutionEmpty(v.object)
Messages(vs) == [ k \in DOMAIN vs |-> MessageOf(vs[k]) ]
FoundAt(vs, kind) == { k \in DOMAIN vs : vs[k].kind = kind /\ ~ Skipped(vs[k]) }
Made(vs, kind) == Selected(Messages(vs), FoundAt(vs, kind))

\* The messages of what lines hold, before any is left out as a repetition.
AuthorsIn(ls) == Ids(FoundAuthors(ls), AuthorMessage)
InstitutionsIn(ls) == Ids(FoundInstitutions(ls), InstitutionMessage)

\* The first message of each id that has not been seen.
NewAt(ms, seen) ==
  { k \in DOMAIN ms : /\ ms[k]["openalex_id"] \notin seen
                      /\ \A j \in 1 .. k - 1 : ms[j]["openalex_id"] # ms[k]["openalex_id"] }
Fresh(ms, seen) == Selected(ms, NewAt(ms, seen))

\* The messages of visits, one by one.
LEMMA MessagesType ==
  ASSUME NEW S, NEW vs \in Seq(S)
  PROVE  /\ Messages(vs) \in Seq({ MessageOf(v) : v \in S })
         /\ Len(Messages(vs)) = Len(vs) /\ DOMAIN Messages(vs) = DOMAIN vs
         /\ \A k \in 1 .. Len(vs) : Messages(vs)[k] = MessageOf(vs[k])
  <1> DEFINE M == { MessageOf(v) : v \in S }
  <1>1. DOMAIN vs = 1 .. Len(vs) /\ Len(vs) \in Nat /\ \A k \in 1 .. Len(vs) : vs[k] \in S
    OBVIOUS
  <1>2. Messages(vs) \in [1 .. Len(vs) -> M]
    BY <1>1 DEF Messages
  <1>3. Messages(vs) \in Seq(M) /\ Len(Messages(vs)) = Len(vs)
    <2> HIDE DEF M
    <2> QED
      BY <1>1, <1>2
  <1> QED
    BY <1>1, <1>3 DEF Messages

LEMMA MessagesConcat ==
  ASSUME NEW S, NEW s \in Seq(S), NEW t \in Seq(S)
  PROVE  Messages(s \o t) = Messages(s) \o Messages(t)
  <1> DEFINE M == { MessageOf(v) : v \in S }
             d == Len(s)
             e == Len(t)
             u == s \o t
             f == Messages(s)
             g == Messages(t)
             h == Messages(u)
  <1>1. d \in Nat /\ e \in Nat
    OBVIOUS
  <1>2. /\ u \in Seq(S) /\ Len(u) = d + e
        /\ \A k \in 1 .. d : u[k] = s[k]
        /\ \A k \in 1 .. e : u[d + k] = t[k]
    OBVIOUS
  <1>3. /\ f \in Seq(M) /\ Len(f) = d /\ \A k \in 1 .. d : f[k] = MessageOf(s[k])
        /\ g \in Seq(M) /\ Len(g) = e /\ \A k \in 1 .. e : g[k] = MessageOf(t[k])
    BY MessagesType
  <1> HIDE DEF u
  <1>4. h \in Seq(M) /\ Len(h) = d + e /\ \A k \in 1 .. d + e : h[k] = MessageOf(u[k])
    <2>1. /\ h \in Seq(M) /\ Len(h) = Len(u)
          /\ \A k \in 1 .. Len(u) : h[k] = MessageOf(u[k])
      BY <1>2, MessagesType
    <2> QED
      BY <1>2, <2>1
  <1> HIDE DEF d, e, f, g, h, M
  <1>5. /\ \A k \in 1 .. d : k \in 1 .. d + e
        /\ \A k \in 1 .. e : d + k \in 1 .. d + e
    BY <1>1
  <1>6. \A k \in 1 .. d : h[k] = f[k]
    BY <1>2, <1>3, <1>4, <1>5
  <1>7. \A k \in 1 .. e : h[d + k] = g[k]
    BY <1>2, <1>3, <1>4, <1>5
  <1>8. h = f \o g
    BY <1>3, <1>4, <1>6, <1>7, ConcatEqual
  <1> QED
    BY <1>8 DEF f, g, h, u

\* Selecting what is not skipped from messages put together.
LEMMA FoundConcat ==
  ASSUME NEW s, NEW t, NEW kind, NEW M, Messages(s) \in Seq(M), Messages(t) \in Seq(M),
         PositionsIn(FoundAt(s, kind), Messages(s)), PositionsIn(FoundAt(t, kind), Messages(t))
  PROVE  Selected(Messages(s) \o Messages(t),
                  FoundAt(s, kind) \cup Moved(FoundAt(t, kind), Len(Messages(s))))
           = Selected(Messages(s), FoundAt(s, kind)) \o Selected(Messages(t), FoundAt(t, kind))
  BY SelectedConcat

\* Visits made one after the other.
LEMMA MadeConcat ==
  ASSUME NEW S, NEW s \in Seq(S), NEW t \in Seq(S), NEW kind
  PROVE  Made(s \o t, kind) = Made(s, kind) \o Made(t, kind)
  <1> DEFINE d == Len(s)
             e == Len(t)
             u == s \o t
             Counts1(v) == v.kind = kind /\ ~ Skipped(v)
  <1>1. d \in Nat /\ e \in Nat
    OBVIOUS
  <1>2. /\ DOMAIN s = 1 .. d /\ DOMAIN t = 1 .. e /\ DOMAIN u = 1 .. d + e
        /\ \A k \in 1 .. d : u[k] = s[k]
        /\ \A k \in 1 .. d + e : k \notin 1 .. d => k - d \in 1 .. e /\ u[k] = t[k - d]
    OBVIOUS
  <1>3. /\ \A k \in 1 .. d : \A j \in 1 .. e : k # j + d
        /\ \A k \in 1 .. d + e : \A j \in 1 .. e : k = j + d => j = k - d
        /\ \A k \in 1 .. d + e : k = (k - d) + d
        /\ \A j \in 1 .. e : j + d \in 1 .. d + e
        /\ \A j \in 1 .. d : j \in 1 .. d + e
    <2> HIDE DEF d, e
    <2> QED
      BY <1>1
  <1> HIDE DEF d, e, u
  <1>4. FoundAt(u, kind) = FoundAt(s, kind) \cup Moved(FoundAt(t, kind), d)
    <2> HIDE DEF Counts1
    <2>1. /\ FoundAt(u, kind) = { k \in 1 .. d + e : Counts1(u[k]) }
          /\ FoundAt(s, kind) = { k \in 1 .. d : Counts1(s[k]) }
          /\ FoundAt(t, kind) = { k \in 1 .. e : Counts1(t[k]) }
      BY <1>2 DEF FoundAt, Counts1
    <2>2. ASSUME NEW k \in 1 .. d + e
          PROVE  k \in FoundAt(u, kind) <=>
                   k \in FoundAt(s, kind) \/ k \in Moved(FoundAt(t, kind), d)
      <3>1. CASE k \in 1 .. d
        BY <1>2, <1>3, <2>1, <3>1 DEF Moved
      <3>2. CASE k \notin 1 .. d
        BY <1>2, <1>3, <2>1, <3>2 DEF Moved
      <3> QED
        BY <3>1, <3>2
    <2>3. FoundAt(u, kind) \subseteq 1 .. d + e /\ FoundAt(s, kind) \subseteq 1 .. d + e
      BY <1>3, <2>1
    <2>4. Moved(FoundAt(t, kind), d) \subseteq 1 .. d + e
      BY <1>3, <2>1 DEF Moved
    <2> QED
      BY <2>2, <2>3, <2>4
  <1>5. /\ FoundAt(s, kind) \in SUBSET DOMAIN Messages(s)
        /\ FoundAt(t, kind) \in SUBSET DOMAIN Messages(t)
    BY MessagesType DEF FoundAt
  <1>6. Selected(Messages(s) \o Messages(t), FoundAt(s, kind) \cup Moved(FoundAt(t, kind), d))
          = Selected(Messages(s), FoundAt(s, kind)) \o Selected(Messages(t), FoundAt(t, kind))
    <2> DEFINE M == { MessageOf(v) : v \in S }
    <2>1. Messages(s) \in Seq(M) /\ Messages(t) \in Seq(M) /\ Len(Messages(s)) = d
      BY MessagesType DEF d
    <2> HIDE DEF M
    <2>2. PositionsIn(FoundAt(s, kind), Messages(s)) /\ PositionsIn(FoundAt(t, kind), Messages(t))
      BY <1>5 DEF PositionsIn
    <2>3. Selected(Messages(s) \o Messages(t),
                   FoundAt(s, kind) \cup Moved(FoundAt(t, kind), Len(Messages(s))))
            = Selected(Messages(s), FoundAt(s, kind)) \o Selected(Messages(t), FoundAt(t, kind))
      BY <2>1, <2>2, FoundConcat
    <2> QED
      BY <2>1, <2>3
  <1>7. Messages(u) = Messages(s) \o Messages(t)
    BY MessagesConcat DEF u
  <1>8. Made(u, kind) = Made(s, kind) \o Made(t, kind)
    BY <1>4, <1>6, <1>7 DEF Made
  <1> QED
    BY <1>8 DEF u

\* No visits, one, and one before others.
LEMMA MadeNone ==
  ASSUME NEW kind
  PROVE  Made(<< >>, kind) = << >>
  <1>1. FoundAt(<< >>, kind) = {}
    BY DEF FoundAt
  <1> QED
    BY <1>1, SelectedNone DEF Made

LEMMA MadeSingle ==
  ASSUME NEW v, NEW kind
  PROVE  Made(<< v >>, kind) =
           IF v.kind = kind /\ ~ Skipped(v) THEN << MessageOf(v) >> ELSE << >>
  <1> DEFINE K == FoundAt(<< v >>, kind)
  <1>1. DOMAIN << v >> = {1} /\ << v >>[1] = v
    OBVIOUS
  <1>2. K = IF v.kind = kind /\ ~ Skipped(v) THEN {1} ELSE {}
    BY <1>1 DEF FoundAt
  <1>3. Messages(<< v >>)[1] = MessageOf(v)
    BY <1>1 DEF Messages
  <1>4. Made(<< v >>, kind) = Selected(Messages(<< v >>), K)
    BY DEF Made
  <1>5. Selected(Messages(<< v >>), {1}) = << MessageOf(v) >>
    BY <1>3, SelectedSingle
  <1>6. Selected(Messages(<< v >>), {}) = << >>
    BY SelectedNone
  <1> HIDE DEF K
  <1> QED
    BY <1>2, <1>4, <1>5, <1>6

LEMMA MadeHead ==
  ASSUME NEW S, NEW s \in Seq(S), s # << >>, NEW kind
  PROVE  Made(s, kind) =
           (IF Head(s).kind = kind /\ ~ Skipped(Head(s)) THEN << MessageOf(Head(s)) >> ELSE << >>)
             \o Made(Tail(s), kind)
  <1>1. << Head(s) >> \in Seq(S) /\ Tail(s) \in Seq(S) /\ s = << Head(s) >> \o Tail(s)
    BY HeadThenTail
  <1> DEFINE h == << Head(s) >>
             t == Tail(s)
  <1>2. Made(h \o t, kind) = Made(h, kind) \o Made(t, kind)
    <2>1. h \in Seq(S) /\ t \in Seq(S)
      BY <1>1
    <2> HIDE DEF h, t
    <2> QED
      BY <2>1, MadeConcat
  <1> QED
    BY <1>1, <1>2, MadeSingle

\* One more message.
LEMMA FreshAppend ==
  ASSUME NEW S, NEW ms \in Seq(S), NEW m \in S, NEW seen
  PROVE  Fresh(Append(ms, m), seen) =
           IF m["openalex_id"] \in seen \cup IdSet(ms) THEN Fresh(ms, seen)
           ELSE Append(Fresh(ms, seen), m)
  <1> DEFINE N == Len(ms)
             u == Append(ms, m)
             new == m["openalex_id"] \notin seen \cup IdSet(ms)
             K == NewAt(ms, seen)
  <1>1. /\ N \in Nat /\ DOMAIN ms = 1 .. N /\ DOMAIN u = 1 .. N + 1
        /\ \A k \in 1 .. N : u[k] = ms[k]
        /\ u[N + 1] = m
    OBVIOUS
  <1> HIDE DEF N, u
  <1>2. /\ 1 .. N + 1 = (1 .. N) \cup {N + 1} /\ N + 1 \notin 1 .. N
        /\ (N + 1) - 1 = N
        /\ \A k \in 1 .. N : \A j \in 1 .. k - 1 : j \in 1 .. N
    BY <1>1
  <1>3. IdSet(ms) = { ms[k]["openalex_id"] : k \in 1 .. N }
    BY <1>1 DEF IdSet, ToSet
  <1>4. NewAt(u, seen) = K \cup (IF new THEN {N + 1} ELSE {})
    <2>1. \A k \in 1 .. N : k \in NewAt(u, seen) <=> k \in K
      BY <1>1, <1>2 DEF NewAt
    <2>2. N + 1 \in NewAt(u, seen) <=> new
      BY <1>1, <1>2, <1>3 DEF NewAt
    <2>3. K \subseteq 1 .. N /\ NewAt(u, seen) \subseteq 1 .. N + 1
      BY <1>1 DEF NewAt
    <2> QED
      BY <1>2, <2>1, <2>2, <2>3
  <1>5. /\ K \in SUBSET Int /\ IsFiniteSet(K)
        /\ IsFiniteSet({N + 1}) /\ {N + 1} \in SUBSET Int
        /\ \A k \in K, l \in {N + 1} : k < l
    <2>1. K \subseteq 1 .. N
      BY <1>1 DEF NewAt
    <2>2. IsFiniteSet(1 .. N) /\ IsFiniteSet({N + 1})
      <3>1. N \in Int /\ 1 \in Int
        BY <1>1
      <3> QED
        BY <3>1, FS_Interval, FS_Singleton
    <2> HIDE DEF K
    <2>3. IsFiniteSet(K) /\ \A k \in K : k \in 1 .. N
      BY <2>1, <2>2, FS_Subset
    <2>4. \A k \in 1 .. N : k < N + 1 /\ k \in Int
      BY <1>1
    <2>5. {N + 1} \in SUBSET Int
      BY <1>1
    <2> QED
      BY <2>2, <2>3, <2>4, <2>5
  <1>6. Selected(u, K) = Fresh(ms, seen)
    <2>1. \A k \in K : u[k] = ms[k]
      BY <1>1 DEF NewAt
    <2> HIDE DEF K
    <2>2. Selected(u, K) = Selected(ms, K)
      BY <1>5, <2>1, SelectedSame
    <2> QED
      BY <2>2 DEF Fresh, K
  <1>7. CASE new
    <2>1. Selected(u, K \cup {N + 1}) = Selected(u, K) \o Selected(u, {N + 1})
      <3> HIDE DEF K
      <3> QED
        BY <1>5, SelectedUnion
    <2>2. Selected(u, {N + 1}) = << m >>
      BY <1>1, SelectedSingle
    <2>3. Fresh(ms, seen) \in Seq({ ms[k] : k \in K })
      <3> HIDE DEF K
      <3> QED
        BY <1>5, SelectedProperties DEF Fresh, K
    <2>4. Fresh(ms, seen) \o << m >> = Append(Fresh(ms, seen), m)
      BY <2>3
    <2> QED
      BY <1>4, <1>6, <1>7, <2>1, <2>2, <2>4 DEF Fresh, u
  <1>8. CASE ~ new
    BY <1>4, <1>6, <1>8 DEF Fresh, u
  <1> QED
    BY <1>7, <1>8

-----------------------------------------------------------------------------
(* What lines hold, and what their visits find. *)

\* Visits to objects of a kind.
VisitTo(o, kind) == [kind |-> kind, object |-> o]
VisitsTo(objects, kind) == [ k \in DOMAIN objects |-> VisitTo(objects[k], kind) ]
VisitSet(objects, kind) == { VisitTo(o, kind) : o \in objects }

LEMMA VisitsToType ==
  ASSUME NEW S, NEW f \in Seq(S), NEW kind
  PROVE  /\ VisitsTo(f, kind) \in Seq(VisitSet(S, kind))
         /\ Len(VisitsTo(f, kind)) = Len(f) /\ DOMAIN VisitsTo(f, kind) = DOMAIN f
         /\ \A k \in 1 .. Len(f) : VisitsTo(f, kind)[k] = VisitTo(f[k], kind)
  <1> DEFINE V == VisitSet(S, kind)
  <1>1. DOMAIN f = 1 .. Len(f) /\ Len(f) \in Nat /\ \A k \in 1 .. Len(f) : f[k] \in S
    OBVIOUS
  <1>2. VisitsTo(f, kind) \in [1 .. Len(f) -> V]
    BY <1>1 DEF VisitsTo, VisitSet
  <1>3. VisitsTo(f, kind) \in Seq(V) /\ Len(VisitsTo(f, kind)) = Len(f)
    <2> HIDE DEF V
    <2> QED
      BY <1>1, <1>2
  <1> QED
    BY <1>1, <1>3 DEF VisitsTo

LEMMA VisitsToConcat ==
  ASSUME NEW S, NEW s \in Seq(S), NEW t \in Seq(S), NEW kind
  PROVE  VisitsTo(s \o t, kind) = VisitsTo(s, kind) \o VisitsTo(t, kind)
  <1> DEFINE V == VisitSet(S, kind)
             d == Len(s)
             e == Len(t)
             u == s \o t
             f == VisitsTo(s, kind)
             g == VisitsTo(t, kind)
             h == VisitsTo(u, kind)
  <1>1. d \in Nat /\ e \in Nat
    OBVIOUS
  <1>2. /\ u \in Seq(S) /\ Len(u) = d + e
        /\ \A k \in 1 .. d : u[k] = s[k]
        /\ \A k \in 1 .. e : u[d + k] = t[k]
    OBVIOUS
  <1>3. /\ f \in Seq(V) /\ Len(f) = d /\ \A k \in 1 .. d : f[k] = VisitTo(s[k], kind)
        /\ g \in Seq(V) /\ Len(g) = e /\ \A k \in 1 .. e : g[k] = VisitTo(t[k], kind)
    BY VisitsToType
  <1> HIDE DEF u
  <1>4. h \in Seq(V) /\ Len(h) = d + e /\ \A k \in 1 .. d + e : h[k] = VisitTo(u[k], kind)
    <2>1. /\ h \in Seq(V) /\ Len(h) = Len(u)
          /\ \A k \in 1 .. Len(u) : h[k] = VisitTo(u[k], kind)
      BY <1>2, VisitsToType
    <2> HIDE DEF h, V
    <2> QED
      BY <1>2, <2>1
  <1> HIDE DEF d, e, f, g, h, V
  <1>5. /\ \A k \in 1 .. d : k \in 1 .. d + e
        /\ \A k \in 1 .. e : d + k \in 1 .. d + e
    BY <1>1
  <1>6. \A k \in 1 .. d : h[k] = f[k]
    BY <1>2, <1>3, <1>4, <1>5
  <1>7. \A k \in 1 .. e : h[d + k] = g[k]
    BY <1>2, <1>3, <1>4, <1>5
  <1>8. h = f \o g
    BY <1>3, <1>4, <1>6, <1>7, ConcatEqual
  <1> QED
    BY <1>8 DEF f, g, h, u

\* The messages of objects, and those of visits to them.
LEMMA AuthorsMade ==
  ASSUME NEW f, IsSequence(f)
  PROVE  Ids(NonEmptyAuthors(f), AuthorMessage) = Made(VisitsTo(f, "author"), "author")
  <1> DEFINE K == { k \in DOMAIN f : ~ IsAuthorEmpty(f[k]) }
             v == VisitsTo(f, "author")
             N == Cardinality(K)
  <1>1. K \in SUBSET Int /\ IsFiniteSet(K) /\ K \subseteq DOMAIN f
    BY DomainFinite
  <1>2. FoundAt(v, "author") = K
    BY DEF FoundAt, VisitsTo, VisitTo, Skipped
  <1>3. \A k \in K : Messages(v)[k] = AuthorMessage(f[k])
    BY DEF Messages, VisitsTo, VisitTo, MessageOf
  <1>4. NonEmptyAuthors(f) = Selected(f, K)
    BY DEF NonEmptyAuthors
  <1>5. Made(v, "author") = Selected(Messages(v), K)
    BY <1>2 DEF Made
  <1> HIDE DEF K, v
  <1>6. \A n \in 1 .. N : Ascending(K)[n] \in K
    BY <1>1, AscendingProperties
  <1>7. Ids(Selected(f, K), AuthorMessage) = [ n \in 1 .. N |-> AuthorMessage(f[Ascending(K)[n]]) ]
    BY DEF Selected, Ids
  <1>8. Selected(Messages(v), K) = [ n \in 1 .. N |-> AuthorMessage(f[Ascending(K)[n]]) ]
    BY <1>3, <1>6 DEF Selected
  <1> QED
    BY <1>4, <1>5, <1>7, <1>8 DEF v

LEMMA InstitutionsMade ==
  ASSUME NEW f, IsSequence(f)
  PROVE  Ids(NonEmptyInstitutions(f), InstitutionMessage)
           = Made(VisitsTo(f, "institution"), "institution")
  <1> DEFINE K == { k \in DOMAIN f : ~ IsInstitutionEmpty(f[k]) }
             v == VisitsTo(f, "institution")
             N == Cardinality(K)
  <1>1. K \in SUBSET Int /\ IsFiniteSet(K) /\ K \subseteq DOMAIN f
    BY DomainFinite
  <1>2. FoundAt(v, "institution") = K
    BY DEF FoundAt, VisitsTo, VisitTo, Skipped
  <1>3. \A k \in K : Messages(v)[k] = InstitutionMessage(f[k])
    BY DEF Messages, VisitsTo, VisitTo, MessageOf
  <1>4. NonEmptyInstitutions(f) = Selected(f, K)
    BY DEF NonEmptyInstitutions
  <1>5. Made(v, "institution") = Selected(Messages(v), K)
    BY <1>2 DEF Made
  <1> HIDE DEF K, v
  <1>6. \A n \in 1 .. N : Ascending(K)[n] \in K
    BY <1>1, AscendingProperties
  <1>7. Ids(Selected(f, K), InstitutionMessage)
          = [ n \in 1 .. N |-> InstitutionMessage(f[Ascending(K)[n]]) ]
    BY DEF Selected, Ids
  <1>8. Selected(Messages(v), K) = [ n \in 1 .. N |-> InstitutionMessage(f[Ascending(K)[n]]) ]
    BY <1>3, <1>6 DEF Selected
  <1> QED
    BY <1>4, <1>5, <1>7, <1>8 DEF v

\* The objects of lines, of one kind after the other.
ObjectsIn(ls, kind) == FlattenSeq([ k \in DOMAIN ls |-> Objects(ls[k])[kind] ])

LEMMA ObjectsInAppend ==
  ASSUME NEW ls \in Seq(Lines), NEW l \in Lines, NEW kind \in Kinds
  PROVE  LET S == UNION { ToSet(Objects(m)[kind]) : m \in Lines } IN
         /\ ObjectsIn(ls, kind) \in Seq(S) /\ Objects(l)[kind] \in Seq(S)
         /\ ObjectsIn(Append(ls, l), kind) = ObjectsIn(ls, kind) \o Objects(l)[kind]
  <1> DEFINE S == UNION { ToSet(Objects(m)[kind]) : m \in Lines }
             Of(m) == Objects(m)[kind]
             N == Len(ls)
             a == [ k \in DOMAIN ls |-> Of(ls[k]) ]
             b == [ k \in DOMAIN Append(ls, l) |-> Of(Append(ls, l)[k]) ]
  <1>1. ASSUME NEW m \in Lines PROVE Of(m) \in Seq(S)
    <2>1. Of(m) \in Seq(ToSet(Of(m)))
      BY ObjectsSequences DEF IsSequence
    <2>2. ToSet(Of(m)) \subseteq S
      OBVIOUS
    <2> HIDE DEF Of, S
    <2> QED
      BY <2>1, <2>2, SeqMonotonic
  <1>2. /\ N \in Nat /\ DOMAIN ls = 1 .. N /\ DOMAIN Append(ls, l) = 1 .. N + 1
        /\ \A k \in 1 .. N : ls[k] \in Lines /\ Append(ls, l)[k] = ls[k]
        /\ Append(ls, l)[N + 1] = l
    OBVIOUS
  <1> HIDE DEF S, Of
  <1>3. a \in [1 .. N -> Seq(S)]
    BY <1>1, <1>2
  <1>4. b = Append(a, Of(l))
    <2>0. Of(l) \in Seq(S) /\ 1 .. N + 1 = (1 .. N) \cup {N + 1}
      BY <1>1, <1>2
    <2>1. b \in [1 .. N + 1 -> Seq(S)]
      BY <1>1, <1>2, <2>0
    <2>2. /\ \A k \in 1 .. N : b[k] = a[k]
          /\ b[N + 1] = Of(l)
      BY <1>2, <2>0
    <2> DEFINE x == Of(l)
    <2> HIDE DEF a, b, N, x
    <2>3. a \in Seq(Seq(S)) /\ Len(a) = N /\ b \in Seq(Seq(S)) /\ Len(b) = N + 1
      BY <1>2, <1>3, <2>1
    <2>4. x \in Seq(S)
      BY <2>0 DEF x
    <2>5. /\ Append(a, x) \in Seq(Seq(S)) /\ Len(Append(a, x)) = N + 1
          /\ \A k \in 1 .. N : Append(a, x)[k] = a[k]
          /\ Append(a, x)[N + 1] = x
      BY <2>3, <2>4
    <2>6. \A k \in 1 .. N + 1 : b[k] = Append(a, x)[k]
      BY <2>0, <2>2, <2>5 DEF x
    <2>7. b = Append(a, x)
      BY <2>3, <2>5, <2>6, SeqEqual
    <2> QED
      BY <2>7 DEF x
  <1>5. a \in Seq(Seq(S))
    <2> HIDE DEF a
    <2> QED
      BY <1>2, <1>3
  <1>6. /\ FlattenSeq(a) \in Seq(S)
        /\ FlattenSeq(Append(a, Of(l))) = FlattenSeq(a) \o Of(l)
    <2>1. Of(l) \in Seq(S)
      BY <1>1
    <2> HIDE DEF a
    <2> QED
      BY <1>5, <2>1, FlattenAppend
  <1>7. ObjectsIn(ls, kind) = FlattenSeq(a) /\ ObjectsIn(Append(ls, l), kind) = FlattenSeq(b)
    BY DEF ObjectsIn, Of
  <1>8. Of(l) \in Seq(S)
    BY <1>1
  <1> HIDE DEF a, b
  <1> QED
    BY <1>4, <1>6, <1>7, <1>8 DEF Of, S

\* One more line.
LEMMA LinesMade ==
  ASSUME NEW ls \in Seq(Lines), NEW l \in Lines
  PROVE  /\ AuthorsIn(Append(ls, l)) = AuthorsIn(ls) \o Made(Visits(l, "author"), "author")
         /\ InstitutionsIn(Append(ls, l))
              = InstitutionsIn(ls) \o Made(Visits(l, "institution"), "institution")
  <1> DEFINE S(kind) == UNION { ToSet(Objects(m)[kind]) : m \in Lines }
  <1>1. ASSUME NEW kind \in Kinds
        PROVE  /\ IsSequence(ObjectsIn(ls, kind)) /\ IsSequence(ObjectsIn(Append(ls, l), kind))
               /\ Made(VisitsTo(ObjectsIn(Append(ls, l), kind), kind), kind)
                    = Made(VisitsTo(ObjectsIn(ls, kind), kind), kind)
                        \o Made(Visits(l, kind), kind)
    <2> DEFINE f == ObjectsIn(ls, kind)
               g == Objects(l)[kind]
               h == ObjectsIn(Append(ls, l), kind)
    <2>1. f \in Seq(S(kind)) /\ g \in Seq(S(kind)) /\ h = f \o g
      BY ObjectsInAppend
    <2>2. Visits(l, kind) = VisitsTo(g, kind)
      BY DEF Visits, VisitsTo, VisitTo
    <2> HIDE DEF f, g, h, S
    <2>3. VisitsTo(h, kind) = VisitsTo(f, kind) \o VisitsTo(g, kind)
      BY <2>1, VisitsToConcat
    <2>4. h \in Seq(S(kind))
      BY <2>1
    <2>5. IsSequence(f) /\ IsSequence(h)
      BY <2>1, <2>4, SequenceOfOwn
    <2> DEFINE V == VisitSet(S(kind), kind)
    <2>6. VisitsTo(f, kind) \in Seq(V) /\ VisitsTo(g, kind) \in Seq(V)
      BY <2>1, VisitsToType
    <2> HIDE DEF V
    <2>7. Made(VisitsTo(f, kind) \o VisitsTo(g, kind), kind)
            = Made(VisitsTo(f, kind), kind) \o Made(VisitsTo(g, kind), kind)
      BY <2>6, MadeConcat
    <2> QED
      BY <2>2, <2>3, <2>5, <2>7 DEF f, h
  <1>2. ASSUME NEW ms
        PROVE  /\ FoundAuthors(ms) = NonEmptyAuthors(ObjectsIn(ms, "author"))
               /\ FoundInstitutions(ms) = NonEmptyInstitutions(ObjectsIn(ms, "institution"))
    BY DEF FoundAuthors, FoundInstitutions, ObjectsIn, Objects
  <1>3. "author" \in Kinds /\ "institution" \in Kinds
    BY DEF Kinds
  <1>4. ASSUME NEW ms, IsSequence(ObjectsIn(ms, "author")), IsSequence(ObjectsIn(ms, "institution"))
        PROVE  /\ AuthorsIn(ms) = Made(VisitsTo(ObjectsIn(ms, "author"), "author"), "author")
               /\ InstitutionsIn(ms) =
                    Made(VisitsTo(ObjectsIn(ms, "institution"), "institution"), "institution")
    <2>1. AuthorsIn(ms) = Ids(NonEmptyAuthors(ObjectsIn(ms, "author")), AuthorMessage)
      BY <1>2 DEF AuthorsIn
    <2>2. InstitutionsIn(ms) =
            Ids(NonEmptyInstitutions(ObjectsIn(ms, "institution")), InstitutionMessage)
      BY <1>2 DEF InstitutionsIn
    <2> QED
      BY <1>4, <2>1, <2>2, AuthorsMade, InstitutionsMade
  <1> QED
    BY <1>1, <1>3, <1>4

\* No lines.
LEMMA NothingMade == AuthorsIn(<< >>) = << >> /\ InstitutionsIn(<< >>) = << >>
  <1>1. [ k \in DOMAIN << >> |-> AuthorObjects(<< >>[k]) ] = << >>
    OBVIOUS
  <1>2. [ k \in DOMAIN << >> |-> InstitutionObjects(<< >>[k]) ] = << >>
    OBVIOUS
  <1>3. { k \in DOMAIN << >> : ~ IsAuthorEmpty(<< >>[k]) } = {}
    OBVIOUS
  <1>4. { k \in DOMAIN << >> : ~ IsInstitutionEmpty(<< >>[k]) } = {}
    OBVIOUS
  <1>5. FoundAuthors(<< >>) = << >>
    BY <1>1, <1>3, FlattenEmpty, SelectedNone DEF FoundAuthors, NonEmptyAuthors
  <1>6. FoundInstitutions(<< >>) = << >>
    BY <1>2, <1>4, FlattenEmpty, SelectedNone DEF FoundInstitutions, NonEmptyInstitutions
  <1> QED
    BY <1>5, <1>6 DEF AuthorsIn, InstitutionsIn, Ids

\* The visits of one kind are no visits of another.
LEMMA VisitsMade ==
  ASSUME NEW l \in Lines, NEW kind \in Kinds, NEW other \in Kinds
  PROVE  /\ other # kind => Made(Visits(l, other), kind) = << >>
         /\ Len(Made(Visits(l, "work"), "work")) = 1
  <1>1. ASSUME other # kind PROVE Made(Visits(l, other), kind) = << >>
    <2>1. \A k \in DOMAIN Visits(l, other) : Visits(l, other)[k].kind = other
      BY DEF Visits
    <2>2. FoundAt(Visits(l, other), kind) = {}
      BY <1>1, <2>1 DEF FoundAt
    <2> QED
      BY <2>2, SelectedNone DEF Made
  <1>2. Len(Made(Visits(l, "work"), "work")) = 1
    <2> DEFINE v == [kind |-> "work", object |-> l.data]
    <2>1. Visits(l, "work") = << v >>
      BY DEF Visits, Objects
    <2>2. v.kind = "work" /\ ~ Skipped(v)
      BY DEF Skipped
    <2> HIDE DEF v
    <2>3. Made(<< v >>, "work") = << MessageOf(v) >>
      BY <2>2, MadeSingle
    <2> QED
      BY <2>1, <2>3
  <1> QED
    BY <1>1, <1>2

LEMMA ThreeKinds == Cardinality(Kinds) = 3
  <1>1. IsFiniteSet({"author"}) /\ Cardinality({"author"}) = 1
    BY FS_Singleton
  <1>2. /\ IsFiniteSet({"author"} \cup {"institution"})
        /\ Cardinality({"author"} \cup {"institution"}) = 2
    BY <1>1, FS_AddElement
  <1>3. Cardinality({"author"} \cup {"institution"} \cup {"work"}) = 3
    BY <1>2, FS_AddElement
  <1>4. Kinds = {"author"} \cup {"institution"} \cup {"work"}
    BY DEF Kinds
  <1> QED
    BY <1>3, <1>4

\* In whichever order the extractions come, each makes what it makes alone.
LEMMA TodoMade ==
  ASSUME NEW l \in Lines, NEW order \in Orders, NEW kind \in Kinds
  PROVE  Made(FlattenSeq([ k \in DOMAIN order |-> Visits(l, order[k]) ]), kind)
           = Made(Visits(l, kind), kind)
  <1> DEFINE S == VisitsOf(l)
             V(k) == Visits(l, order[k])
             visits == [ k \in DOMAIN order |-> V(k) ]
  <1>1. /\ DOMAIN order = 1 .. 3
        /\ order[1] \in Kinds /\ order[2] \in Kinds /\ order[3] \in Kinds
        /\ order[1] # order[2] /\ order[1] # order[3] /\ order[2] # order[3]
    <2>1. order \in [1 .. 3 -> Kinds] /\ \A j, k \in 1 .. 3 : order[j] = order[k] => j = k
      BY ThreeKinds DEF Orders, SetToSeqs, Injection, IsInjective
    <2>2. 1 \in 1 .. 3 /\ 2 \in 1 .. 3 /\ 3 \in 1 .. 3
      OBVIOUS
    <2> QED
      BY <2>1, <2>2
  <1>2. \A k \in 1 .. 3 : V(k) \in Seq(S)
    <2>1. ASSUME NEW other \in Kinds PROVE Visits(l, other) \in Seq(S)
      <3>1. Visits(l, other) \in Seq(ToSet(Visits(l, other)))
        BY VisitsProperties DEF IsSequence
      <3>2. ToSet(Visits(l, other)) \subseteq S
        BY DEF VisitsOf
      <3> HIDE DEF S
      <3> QED
        BY <3>1, <3>2, SeqMonotonic
    <2> QED
      BY <1>1, <2>1
  <1>3. visits = << V(1), V(2), V(3) >>
    BY <1>1
  <1>4. ASSUME NEW a \in Seq(S), NEW b \in Seq(S), NEW c \in Seq(S)
        PROVE  Made(FlattenSeq(<< a, b, c >>), kind)
                 = (Made(a, kind) \o Made(b, kind)) \o Made(c, kind)
    <2> HIDE DEF S
    <2>1. /\ << a >> \in Seq(Seq(S)) /\ << a, b >> \in Seq(Seq(S))
          /\ << a, b >> = Append(<< a >>, b) /\ << a, b, c >> = Append(<< a, b >>, c)
      OBVIOUS
    <2>2. FlattenSeq(<< a, b >>) = a \o b
      BY <2>1, FlattenSingle, FlattenAppend
    <2>3. FlattenSeq(<< a, b, c >>) = (a \o b) \o c
      BY <2>1, <2>2, FlattenAppend
    <2> DEFINE ab == a \o b
    <2>4. ab \in Seq(S)
      OBVIOUS
    <2>5. Made(ab \o c, kind) = Made(ab, kind) \o Made(c, kind)
      <3> HIDE DEF ab
      <3> QED
        BY <2>4, MadeConcat
    <2>6. Made(a \o b, kind) = Made(a, kind) \o Made(b, kind)
      BY MadeConcat
    <2> QED
      BY <2>3, <2>5, <2>6
  <1>5. Made(FlattenSeq(visits), kind)
          = (Made(V(1), kind) \o Made(V(2), kind)) \o Made(V(3), kind)
    <2>1. V(1) \in Seq(S) /\ V(2) \in Seq(S) /\ V(3) \in Seq(S)
      BY <1>2
    <2> HIDE DEF V, S, visits
    <2> QED
      BY <1>3, <1>4, <2>1
  <1>6. \A k \in 1 .. 3 : order[k] # kind => Made(V(k), kind) = << >>
    BY <1>1, VisitsMade
  <1> DEFINE one == Made(Visits(l, kind), kind)
  <1>7. one \in Seq(ToSet(one))
    <2>1. Visits(l, kind) \in Seq(ToSet(Visits(l, kind)))
      BY VisitsProperties DEF IsSequence
    <2>2. FoundAt(Visits(l, kind), kind) \subseteq DOMAIN Visits(l, kind)
      BY DEF FoundAt
    <2> DEFINE K == FoundAt(Visits(l, kind), kind)
    <2>3. IsSequence(Visits(l, kind)) /\ K \in SUBSET DOMAIN Visits(l, kind)
      BY <2>2, VisitsProperties
    <2> HIDE DEF K
    <2>4. K \in SUBSET Int /\ IsFiniteSet(K)
      BY <2>3, DomainFinite
    <2>5. IsSequence(Selected(Messages(Visits(l, kind)), K))
      BY <2>4, SelectedProperties, SequenceOfOwn
    <2> QED
      BY <2>5 DEF Made, IsSequence, K
  <1>8. \A k \in 1 .. 3 : order[k] = kind => Made(V(k), kind) = one
    OBVIOUS
  <1> HIDE DEF V, visits, one
  <1>9. << >> \o one = one /\ one \o << >> = one
    BY <1>7
  <1>10. \/ order[1] = kind /\ order[2] # kind /\ order[3] # kind
         \/ order[1] # kind /\ order[2] = kind /\ order[3] # kind
         \/ order[1] # kind /\ order[2] # kind /\ order[3] = kind
    BY <1>1 DEF Kinds
  <1>11. (<< >> \o << >>) = << >>
    OBVIOUS
  <1>12. Made(FlattenSeq(visits), kind) = one
    <2>1. 1 \in 1 .. 3 /\ 2 \in 1 .. 3 /\ 3 \in 1 .. 3
      OBVIOUS
    <2> QED
      BY <1>5, <1>6, <1>8, <1>9, <1>10, <1>11, <2>1
  <1> QED
    BY <1>12 DEF visits, V, one

\* What visits make is a sequence.
LEMMA MadeType ==
  ASSUME NEW S, NEW vs \in Seq(S), NEW kind
  PROVE  Made(vs, kind) \in Seq({ MessageOf(v) : v \in S })
  <1> DEFINE M == { MessageOf(v) : v \in S }
             K == FoundAt(vs, kind)
             ms == Messages(vs)
  <1>1. K \subseteq DOMAIN vs /\ DOMAIN vs = 1 .. Len(vs)
    BY DEF FoundAt
  <1>2. IsSequence(vs)
    BY SequenceOfOwn
  <1>3. ms \in Seq(M) /\ DOMAIN ms = DOMAIN vs
    BY MessagesType
  <1> HIDE DEF K, ms, M
  <1>4. K \in SUBSET Int /\ IsFiniteSet(K)
    BY <1>1, <1>2, DomainFinite
  <1>5. Selected(ms, K) \in Seq({ ms[k] : k \in K })
    BY <1>4, SelectedProperties
  <1>6. { ms[k] : k \in K } \subseteq M
    <2>1. \A k \in DOMAIN ms : ms[k] \in M
      BY <1>3
    <2> QED
      BY <1>1, <1>3, <2>1
  <1>7. Selected(ms, K) \in Seq(M)
    BY <1>5, <1>6, SeqMonotonic
  <1> QED
    BY <1>7 DEF Made, ms, K, M

\* The ids of messages, of which there is one more.
LEMMA IdSetAppend ==
  ASSUME NEW S, NEW ms \in Seq(S), NEW m \in S
  PROVE  IdSet(Append(ms, m)) = IdSet(ms) \cup {m["openalex_id"]}
  <1> DEFINE N == Len(ms)
             u == Append(ms, m)
  <1>1. /\ N \in Nat /\ DOMAIN ms = 1 .. N /\ DOMAIN u = 1 .. N + 1
        /\ \A k \in 1 .. N : u[k] = ms[k]
        /\ u[N + 1] = m
    OBVIOUS
  <1> HIDE DEF N, u
  <1>2. 1 .. N + 1 = (1 .. N) \cup {N + 1}
    BY <1>1
  <1>3. ToSet(Append(ms, m)) = ToSet(ms) \cup {m}
    BY <1>1, <1>2 DEF ToSet, u
  <1> QED
    BY <1>3 DEF IdSet

\* Nothing is found in nothing.
LEMMA FreshNone ==
  ASSUME NEW seen
  PROVE  Fresh(<< >>, seen) = << >> /\ IdSet(<< >>) = {}
  <1>1. NewAt(<< >>, seen) = {}
    BY DEF NewAt
  <1> QED
    BY <1>1, SelectedNone DEF Fresh, IdSet, ToSet

-----------------------------------------------------------------------------
(* What is given since a call began. *)

\* Results, field by field.
LEMMA ResultsEqual ==
  ASSUME NEW r \in Results, NEW s \in Results,
         r.authors = s.authors, r.institutions = s.institutions, r.works = s.works
  PROVE  r = s
  BY DEF Results

LEMMA ResultsFields ==
  ASSUME NEW r \in Results
  PROVE  /\ r.authors \in Seq(AuthorMessages) /\ r.institutions \in Seq(InstitutionMessages)
         /\ r.works \in Seq(WorkMessages)
         /\ DOMAIN r = {"authors", "institutions", "works"}
         /\ r = [authors |-> r.authors, institutions |-> r.institutions, works |-> r.works]
  BY DEF Results

LEMMA NothingFields ==
  Nothing.authors = << >> /\ Nothing.institutions = << >> /\ Nothing.works = << >>
  BY DEF Nothing

LEMMA JoinedNothing ==
  ASSUME NEW r \in Results
  PROVE  Joined(r, Nothing) = r
  <1> DEFINE u == Joined(r, Nothing)
  <1>1. /\ u \in Results
        /\ u.authors = r.authors \o << >> /\ u.institutions = r.institutions \o << >>
        /\ u.works = r.works \o << >>
    BY JoinedType, NothingType, NothingFields
  <1> HIDE DEF u
  <1>2. /\ r.authors \o << >> = r.authors /\ r.institutions \o << >> = r.institutions
        /\ r.works \o << >> = r.works
    BY ResultsFields, ConcatEmptySeq
  <1>3. u = r
    BY <1>1, <1>2, ResultsEqual
  <1> QED
    BY <1>3 DEF u

LEMMA AssociativeFields ==
  ASSUME NEW r \in Results, NEW s \in Results, NEW t \in Results
  PROVE  /\ (r.authors \o s.authors) \o t.authors = r.authors \o (s.authors \o t.authors)
         /\ (r.institutions \o s.institutions) \o t.institutions
              = r.institutions \o (s.institutions \o t.institutions)
         /\ (r.works \o s.works) \o t.works = r.works \o (s.works \o t.works)
  <1>1. (r.authors \o s.authors) \o t.authors = r.authors \o (s.authors \o t.authors)
    <2> DEFINE S == AuthorMessages
               a == r.authors
               b == s.authors
               c == t.authors
    <2>1. a \in Seq(S) /\ b \in Seq(S) /\ c \in Seq(S)
      BY ResultsFields
    <2> HIDE DEF S, a, b, c
    <2>2. (a \o b) \o c = a \o (b \o c)
      BY <2>1
    <2> QED
      BY <2>2 DEF a, b, c
  <1>2. (r.institutions \o s.institutions) \o t.institutions
          = r.institutions \o (s.institutions \o t.institutions)
    <2> DEFINE S == InstitutionMessages
               a == r.institutions
               b == s.institutions
               c == t.institutions
    <2>1. a \in Seq(S) /\ b \in Seq(S) /\ c \in Seq(S)
      BY ResultsFields
    <2> HIDE DEF S, a, b, c
    <2>2. (a \o b) \o c = a \o (b \o c)
      BY <2>1
    <2> QED
      BY <2>2 DEF a, b, c
  <1>3. (r.works \o s.works) \o t.works = r.works \o (s.works \o t.works)
    <2> DEFINE S == WorkMessages
               a == r.works
               b == s.works
               c == t.works
    <2>1. a \in Seq(S) /\ b \in Seq(S) /\ c \in Seq(S)
      BY ResultsFields
    <2> HIDE DEF S, a, b, c
    <2>2. (a \o b) \o c = a \o (b \o c)
      BY <2>1
    <2> QED
      BY <2>2 DEF a, b, c
  <1> QED
    BY <1>1, <1>2, <1>3

LEMMA JoinedAssociative ==
  ASSUME NEW r \in Results, NEW s \in Results, NEW t \in Results
  PROVE  Joined(r, Joined(s, t)) = Joined(Joined(r, s), t)
  <1> DEFINE st == Joined(s, t)
             rs == Joined(r, s)
             u == Joined(r, st)
             v == Joined(rs, t)
  <1>1. /\ st \in Results /\ rs \in Results
        /\ st.authors = s.authors \o t.authors /\ st.institutions = s.institutions \o t.institutions
        /\ st.works = s.works \o t.works
        /\ rs.authors = r.authors \o s.authors /\ rs.institutions = r.institutions \o s.institutions
        /\ rs.works = r.works \o s.works
    BY JoinedType
  <1> HIDE DEF st, rs
  <1>2. /\ u \in Results /\ v \in Results
        /\ u.authors = r.authors \o st.authors /\ u.institutions = r.institutions \o st.institutions
        /\ u.works = r.works \o st.works
        /\ v.authors = rs.authors \o t.authors /\ v.institutions = rs.institutions \o t.institutions
        /\ v.works = rs.works \o t.works
    BY <1>1, JoinedType
  <1> HIDE DEF u, v
  <1>3. u.authors = v.authors /\ u.institutions = v.institutions /\ u.works = v.works
    <2>1. /\ (r.authors \o s.authors) \o t.authors = r.authors \o (s.authors \o t.authors)
          /\ (r.institutions \o s.institutions) \o t.institutions
               = r.institutions \o (s.institutions \o t.institutions)
          /\ (r.works \o s.works) \o t.works = r.works \o (s.works \o t.works)
      BY AssociativeFields
    <2> QED
      BY <1>1, <1>2, <2>1, Zenon
  <1>6. u = v
    BY <1>2, <1>3, ResultsEqual
  <1> QED
    BY <1>6 DEF u, v, st, rs

\* Since the call began.
Bounded(r, sizes) ==
  /\ sizes.authors <= Len(r.authors) /\ sizes.institutions <= Len(r.institutions)
  /\ sizes.works <= Len(r.works)

LEMMA SinceType ==
  ASSUME NEW r \in Results, NEW sizes \in Counts, Bounded(r, sizes)
  PROVE  /\ Since(r, sizes) \in Results
         /\ Since(r, sizes).authors = After(r.authors, sizes.authors)
         /\ Since(r, sizes).institutions =
              After(r.institutions, sizes.institutions)
         /\ Since(r, sizes).works = After(r.works, sizes.works)
  <1> DEFINE a == After(r.authors, sizes.authors)
             i == After(r.institutions, sizes.institutions)
             w == After(r.works, sizes.works)
  <1>1. Since(r, sizes) = [authors |-> a, institutions |-> i, works |-> w]
    <2>1. DOMAIN r = {"authors", "institutions", "works"}
      BY ResultsFields
    <2>2. Since(r, sizes) = [ k \in {"authors", "institutions", "works"} |->
                                SubSeq(r[k], sizes[k] + 1, Len(r[k])) ]
      BY <2>1 DEF Since
    <2> QED
      BY <2>2 DEF After
  <1>2. /\ sizes.authors \in Nat /\ sizes.authors <= Len(r.authors)
        /\ sizes.institutions \in Nat /\ sizes.institutions <= Len(r.institutions)
        /\ sizes.works \in Nat /\ sizes.works <= Len(r.works)
    <2>1. /\ Len(r.authors) \in Nat /\ Len(r.works) \in Nat /\ Len(r.institutions) \in Nat
          /\ sizes.authors \in Nat /\ sizes.works \in Nat /\ sizes.institutions \in Nat
      BY ResultsFields DEF Counts
    <2> QED
      BY <2>1 DEF Bounded
  <1>3. /\ a \in Seq(AuthorMessages) /\ i \in Seq(InstitutionMessages) /\ w \in Seq(WorkMessages)
    BY <1>2, ResultsFields, AfterConcat
  <1> HIDE DEF a, i, w
  <1>4. Since(r, sizes) \in Results
    BY <1>1, <1>3 DEF Results
  <1> QED
    BY <1>1, <1>4 DEF a, i, w

LEMMA SinceJoined ==
  ASSUME NEW r \in Results, NEW s \in Results, NEW sizes \in Counts, Bounded(r, sizes)
  PROVE  /\ Bounded(Joined(r, s), sizes)
         /\ Since(Joined(r, s), sizes) = Joined(Since(r, sizes), s)
  <1> DEFINE u == Joined(r, s)
             b == Since(r, sizes)
             v == Since(u, sizes)
             w == Joined(b, s)
  <1>1. /\ u \in Results
        /\ u.authors = r.authors \o s.authors /\ u.institutions = r.institutions \o s.institutions
        /\ u.works = r.works \o s.works
    BY JoinedType
  <1>2. /\ sizes.authors \in Nat /\ sizes.authors <= Len(r.authors)
        /\ sizes.institutions \in Nat /\ sizes.institutions <= Len(r.institutions)
        /\ sizes.works \in Nat /\ sizes.works <= Len(r.works)
    <2>1. /\ Len(r.authors) \in Nat /\ Len(r.works) \in Nat /\ Len(r.institutions) \in Nat
          /\ sizes.authors \in Nat /\ sizes.works \in Nat /\ sizes.institutions \in Nat
      BY ResultsFields DEF Counts
    <2> QED
      BY <2>1 DEF Bounded
  <1>3. /\ b \in Results
        /\ b.authors = After(r.authors, sizes.authors)
        /\ b.institutions = After(r.institutions, sizes.institutions)
        /\ b.works = After(r.works, sizes.works)
    BY SinceType
  <1> HIDE DEF u, b
  <1>4. /\ w \in Results
        /\ w.authors = b.authors \o s.authors /\ w.institutions = b.institutions \o s.institutions
        /\ w.works = b.works \o s.works
    BY <1>3, JoinedType
  <1>5. sizes.authors <= Len(u.authors) /\ After(u.authors, sizes.authors) = b.authors \o s.authors
    <2> DEFINE S == AuthorMessages
               x == r.authors
               y == s.authors
               n == sizes.authors
    <2>1. x \in Seq(S) /\ y \in Seq(S) /\ n \in Nat /\ n <= Len(x)
      BY <1>2, ResultsFields
    <2> HIDE DEF S, x, y, n
    <2>2. After(x \o y, n) = After(x, n) \o y /\ n <= Len(x \o y)
      BY <2>1, AfterConcat
    <2> QED
      BY <1>1, <1>3, <2>2 DEF x, y, n
  <1>6. /\ sizes.institutions <= Len(u.institutions)
        /\ After(u.institutions, sizes.institutions) = b.institutions \o s.institutions
    <2> DEFINE S == InstitutionMessages
               x == r.institutions
               y == s.institutions
               n == sizes.institutions
    <2>1. x \in Seq(S) /\ y \in Seq(S) /\ n \in Nat /\ n <= Len(x)
      BY <1>2, ResultsFields
    <2> HIDE DEF S, x, y, n
    <2>2. After(x \o y, n) = After(x, n) \o y /\ n <= Len(x \o y)
      BY <2>1, AfterConcat
    <2> QED
      BY <1>1, <1>3, <2>2 DEF x, y, n
  <1>7. sizes.works <= Len(u.works) /\ After(u.works, sizes.works) = b.works \o s.works
    <2> DEFINE S == WorkMessages
               x == r.works
               y == s.works
               n == sizes.works
    <2>1. x \in Seq(S) /\ y \in Seq(S) /\ n \in Nat /\ n <= Len(x)
      BY <1>2, ResultsFields
    <2> HIDE DEF S, x, y, n
    <2>2. After(x \o y, n) = After(x, n) \o y /\ n <= Len(x \o y)
      BY <2>1, AfterConcat
    <2> QED
      BY <1>1, <1>3, <2>2 DEF x, y, n
  <1>8. Bounded(u, sizes)
    BY <1>5, <1>6, <1>7 DEF Bounded
  <1>9. /\ v \in Results
        /\ v.authors = After(u.authors, sizes.authors)
        /\ v.institutions = After(u.institutions, sizes.institutions)
        /\ v.works = After(u.works, sizes.works)
    BY <1>1, <1>8, SinceType
  <1> HIDE DEF v, w
  <1>10. v.authors = w.authors /\ v.institutions = w.institutions /\ v.works = w.works
    BY <1>4, <1>5, <1>6, <1>7, <1>9
  <1>11. v = w
    BY <1>4, <1>9, <1>10, ResultsEqual
  <1> QED
    BY <1>8, <1>11 DEF u, b, v, w

LEMMA SinceNow ==
  ASSUME NEW r \in Results
  PROVE  Bounded(r, Sizes(r)) /\ Since(r, Sizes(r)) = Nothing
  <1>1. /\ Sizes(r) = [authors |-> Len(r.authors), institutions |-> Len(r.institutions),
                       works |-> Len(r.works)]
        /\ Sizes(r) \in Counts
    BY ResultsFields, SizesType DEF Sizes
  <1>2. /\ Len(r.authors) \in Nat /\ Len(r.works) \in Nat /\ Len(r.institutions) \in Nat
    BY ResultsFields
  <1>3. Bounded(r, Sizes(r))
    BY <1>1, <1>2 DEF Bounded
  <1> DEFINE b == Since(r, Sizes(r))
  <1>4. /\ b \in Results
        /\ b.authors = After(r.authors, Len(r.authors))
        /\ b.institutions = After(r.institutions, Len(r.institutions))
        /\ b.works = After(r.works, Len(r.works))
    BY <1>1, <1>3, SinceType
  <1> HIDE DEF b
  <1>6. b.authors = << >> /\ b.institutions = << >> /\ b.works = << >>
    BY <1>4, AfterAll, ResultsFields
  <1>7. b = Nothing
    BY <1>4, <1>6, NothingType, NothingFields, ResultsEqual
  <1> QED
    BY <1>3, <1>7 DEF b

\* Counting what is added.
LEMMA SizesJoined ==
  ASSUME NEW r \in Results, NEW s \in Results
  PROVE  Sizes(Joined(r, s)) = [ k \in DOMAIN Sizes(r) |-> Sizes(r)[k] + Len(s[k]) ]
  <1> DEFINE u == Joined(r, s)
  <1>1. /\ u \in Results
        /\ u.authors = r.authors \o s.authors /\ u.institutions = r.institutions \o s.institutions
        /\ u.works = r.works \o s.works
    BY JoinedType
  <1> HIDE DEF u
  <1>2. /\ Len(u.authors) = Len(r.authors) + Len(s.authors)
        /\ Len(u.institutions) = Len(r.institutions) + Len(s.institutions)
        /\ Len(u.works) = Len(r.works) + Len(s.works)
    <2>1. ASSUME NEW S, NEW f \in Seq(S), NEW g \in Seq(S) PROVE Len(f \o g) = Len(f) + Len(g)
      OBVIOUS
    <2> QED
      BY <1>1, <2>1, ResultsFields
  <1>3. /\ DOMAIN r = {"authors", "institutions", "works"}
        /\ DOMAIN u = {"authors", "institutions", "works"}
    BY <1>1, ResultsFields
  <1>4. Sizes(u) = [ k \in DOMAIN Sizes(r) |-> Sizes(r)[k] + Len(s[k]) ]
    BY <1>2, <1>3 DEF Sizes
  <1> QED
    BY <1>4 DEF u

-----------------------------------------------------------------------------
(* The invariant of a call. *)

\* The lines of the call with the one being processed, and what the call has given so
\* far, be it written or in memory.
Batch == IF status = "extract" THEN Append(snapshot, line) ELSE snapshot
Kept == Joined(Since(delivered, before.sizes), gathered)

\* Messages of a kind have been found, the rest is still to come, and those that were new
\* have been given.
Found(S, ms, rest, all, given, seen) ==
  ms \in Seq(S) /\ ms \o rest = all /\ given = Fresh(ms, seen)

\* The visits made so far have found ma and mi, and those to come find the rest of what
\* the lines hold; what was new in ma and mi is what the call has emitted.
Walk(ma, mi) ==
  /\ Found(AuthorMessages, ma, Made(todo, "author"), AuthorsIn(Batch),
           Kept.authors \o extracted.authors, before.seen)
  /\ Found(InstitutionMessages, mi, Made(todo, "institution"), InstitutionsIn(Batch),
           Kept.institutions \o extracted.institutions, before.seen)
  /\ seen_ids_ = before.seen \cup IdSet(ma) \cup IdSet(mi)

Calling ==
  /\ Bounded(delivered, before.sizes)
  /\ status # "threw" =>
       /\ \E ma, mi : Walk(ma, mi)
       /\ Kept.works = Ids(snapshot, WorkOf)
       /\ Len(extracted.works) + Len(Made(todo, "work")) = IF status = "extract" THEN 1 ELSE 0
       /\ streaming => counts = Sizes(Since(delivered, before.sizes))

CallInv == RefInv /\ Calling

\* The types of what is kept.
LEMMA KeptType ==
  ASSUME TypeInv, Bounded(delivered, before.sizes)
  PROVE  /\ Since(delivered, before.sizes) \in Results /\ Kept \in Results
         /\ extracted \in Results /\ gathered \in Results /\ delivered \in Results
         /\ before.sizes \in Counts
  <1>1. /\ extracted \in Results /\ gathered \in Results /\ delivered \in Results
        /\ before.sizes \in Counts
    BY DEF TypeInv, TypeOK
  <1>2. Since(delivered, before.sizes) \in Results
    BY <1>1, SinceType
  <1> QED
    BY <1>1, <1>2, JoinedType DEF Kept

\* A call that begins has given nothing.
LEMMA BeginEmpty ==
  ASSUME NEW r \in Results
  PROVE  /\ Bounded(r, Sizes(r)) /\ Since(r, Sizes(r)) = Nothing
         /\ Joined(Nothing, Nothing) = Nothing
         /\ Ids(<< >>, WorkOf) = << >>
         /\ << >> \o << >> = << >>
  <1>1. Ids(<< >>, WorkOf) = << >>
    BY DEF Ids
  <1> QED
    BY <1>1, SinceNow, JoinedNothing, NothingType

LEMMA InitCalling == Init => Calling
  <1> SUFFICES ASSUME Init PROVE Calling
    OBVIOUS
  <1>1. /\ status = "lines" /\ todo = << >> /\ extracted = Nothing /\ gathered = Nothing
        /\ counts = Sizes(Nothing) /\ seen_ids_ = {} /\ delivered = Nothing
        /\ snapshot = << >> /\ before.seen = {} /\ before.sizes = Sizes(Nothing)
    BY DEF Init
  <1>2. Bounded(delivered, before.sizes) /\ Since(delivered, before.sizes) = Nothing
    BY <1>1, BeginEmpty, NothingType
  <1>3. Kept = Nothing /\ Batch = << >>
    BY <1>1, <1>2, BeginEmpty, NothingType DEF Kept, Batch
  <1>5. << >> \in Seq(AuthorMessages) /\ << >> \in Seq(InstitutionMessages)
    OBVIOUS
  <1>4. Walk(<< >>, << >>)
    BY <1>1, <1>3, <1>5, NothingFields, NothingMade, MadeNone, FreshNone, BeginEmpty, NothingType
       DEF Walk, Found
  <1>6. Kept.works = Ids(snapshot, WorkOf)
    BY <1>1, <1>3, NothingFields, BeginEmpty, NothingType
  <1>7. Len(extracted.works) + Len(Made(todo, "work")) = 0
    BY <1>1, NothingFields, MadeNone
  <1> QED
    BY <1>1, <1>2, <1>4, <1>6, <1>7 DEF Calling

LEMMA CallAgainCalling ==
  ASSUME RefInv, CallAgain
  PROVE  Calling'
  <1>1. /\ status' = "lines" /\ todo' = << >> /\ extracted' = Nothing /\ gathered' = Nothing
        /\ counts' = Sizes(Nothing) /\ seen_ids_' = seen_ids_ /\ delivered' = delivered
        /\ snapshot' = << >> /\ before'.seen = seen_ids_ /\ before'.sizes = Sizes(delivered)
        /\ delivered \in Results
    BY DEF CallAgain, RefInv, Resolving, AccountInv, TypeInv, TypeOK, Busy
  <1>2. Bounded(delivered, before.sizes)' /\ Since(delivered', before'.sizes) = Nothing
    BY <1>1, BeginEmpty
  <1>3. Kept' = Nothing /\ Batch' = << >>
    BY <1>1, <1>2, BeginEmpty, NothingType DEF Kept, Batch
  <1>5. << >> \in Seq(AuthorMessages) /\ << >> \in Seq(InstitutionMessages)
    OBVIOUS
  <1>4. Walk(<< >>, << >>)'
    BY <1>1, <1>3, <1>5, NothingFields, NothingMade, MadeNone, FreshNone, BeginEmpty, NothingType
       DEF Walk, Found
  <1>6. Kept'.works = Ids(snapshot', WorkOf)
    BY <1>1, <1>3, NothingFields, BeginEmpty, NothingType
  <1>7. Len(extracted'.works) + Len(Made(todo', "work")) = 0
    BY <1>1, NothingFields, MadeNone
  <1> QED
    BY <1>1, <1>2, <1>4, <1>6, <1>7 DEF Calling

\* A line that is read holds what its visits will find.
LEMMA ReadLineCalling ==
  ASSUME CallInv, NEW l \in Lines, ReadLine(l)
  PROVE  Calling'
  <1>1. /\ status = "lines" /\ status' = "extract" /\ line' = l /\ todo = << >>
        /\ extracted = Nothing /\ snapshot \in Seq(Lines)
        /\ UNCHANGED << streaming, extracted, gathered, counts, seen_ids_, delivered, snapshot,
                        before >>
    BY DEF ReadLine, results, history, CallInv, RefInv, AccountInv, TypeInv, TypeOK, Busy
  <1>2. PICK order \in Orders : todo' = FlattenSeq([ k \in DOMAIN order |-> Visits(l, order[k]) ])
    BY DEF ReadLine
  <1>3. \A kind \in Kinds : Made(todo', kind) = Made(Visits(l, kind), kind)
    BY <1>2, TodoMade
  <1>4. PICK ma, mi : Walk(ma, mi)
    BY <1>1 DEF CallInv, Calling
  <1>5. Batch = snapshot /\ Batch' = Append(snapshot, l) /\ Kept' = Kept
    BY <1>1 DEF Batch, Kept
  <1>6. AuthorsIn(snapshot) = ma /\ InstitutionsIn(snapshot) = mi
    <2>1. ma \o << >> = ma /\ mi \o << >> = mi
      BY <1>4, ConcatEmptySeq DEF Walk, Found
    <2> QED
      BY <1>1, <1>4, <1>5, <2>1, MadeNone DEF Walk, Found
  <1>7. Walk(ma, mi)'
    <2>1. /\ ma \o Made(todo', "author") = AuthorsIn(Batch')
          /\ mi \o Made(todo', "institution") = InstitutionsIn(Batch')
      BY <1>1, <1>3, <1>5, <1>6, LinesMade DEF Kinds
    <2> QED
      BY <1>1, <1>4, <1>5, <2>1 DEF Walk, Found
  <1>8. Len(extracted'.works) + Len(Made(todo', "work")) = 1
    <2>1. Len(Made(todo', "work")) = 1
      BY <1>3, VisitsMade DEF Kinds
    <2>2. Len(extracted'.works) = 0
      BY <1>1, NothingFields
    <2> QED
      BY <2>1, <2>2
  <1>9. /\ Bounded(delivered', before'.sizes)
        /\ Since(delivered', before'.sizes) = Since(delivered, before.sizes)
    BY <1>1 DEF CallInv, Calling
  <1>10. /\ Kept'.works = Ids(snapshot', WorkOf)
         /\ streaming' => counts' = Sizes(Since(delivered', before'.sizes))
    BY <1>1, <1>5, <1>9 DEF CallInv, Calling
  <1> QED
    BY <1>1, <1>7, <1>8, <1>9, <1>10 DEF Calling

\* Only what the caller has got remains of a call that throws.
LEMMA ThrowCalling ==
  ASSUME CallInv, Throw
  PROVE  Calling'
  BY DEF CallInv, Calling, Throw

LEMMA StutterCalling ==
  ASSUME CallInv, UNCHANGED vars
  PROVE  Calling'
  <1>1. UNCHANGED << status, streaming, line, todo, extracted, gathered, counts, seen_ids_,
                     delivered, snapshot, before >>
    BY DEF vars, results, history
  <1>2. Batch' = Batch /\ Kept' = Kept
    BY <1>1 DEF Batch, Kept
  <1>3. \A ma, mi : Walk(ma, mi) => Walk(ma, mi)'
    BY <1>1, <1>2 DEF Walk
  <1>4. Since(delivered', before'.sizes) = Since(delivered, before.sizes)
    BY <1>1
  <1> QED
    BY <1>1, <1>2, <1>3, <1>4 DEF CallInv, Calling

\* What the visits to come make, when one of them is made.
LEMMA VisitMade ==
  ASSUME TypeInv, NEW kind \in Kinds, NEW other \in Kinds, Visiting(kind)
  PROVE  LET v == Head(todo)
             rest == Made(Tail(todo), other)
         IN  /\ Made(todo, other) =
                  IF other = kind /\ ~ Skipped(v) THEN << MessageOf(v) >> \o rest ELSE rest
             /\ IsSequence(rest)
  <1> DEFINE v == Head(todo)
             rest == Made(Tail(todo), other)
             M == { MessageOf(w) : w \in VisitsOf(line) }
  <1>1. /\ todo \in Seq(VisitsOf(line)) /\ todo # << >> /\ v.kind = kind
        /\ Tail(todo) \in Seq(VisitsOf(line))
    BY VisitTyped
  <1>2. Made(todo, other) =
          (IF v.kind = other /\ ~ Skipped(v) THEN << MessageOf(v) >> ELSE << >>) \o rest
    BY <1>1, MadeHead
  <1>3. rest \in Seq(M)
    BY <1>1, MadeType
  <1> HIDE DEF v, rest, M
  <1>4. << >> \o rest = rest
    BY <1>3
  <1>5. IsSequence(rest)
    BY <1>3, SequenceOfOwn
  <1> QED
    BY <1>1, <1>2, <1>4, <1>5 DEF v, rest

\* A message that is found is given, too, if it is new.
LEMMA FoundNext ==
  ASSUME NEW S, NEW ms, NEW m \in S, NEW rest, IsSequence(rest), NEW all, NEW given, NEW seen,
         Found(S, ms, << m >> \o rest, all, given, seen)
  PROVE  /\ m["openalex_id"] \in seen \cup IdSet(ms) =>
               Found(S, Append(ms, m), rest, all, given, seen)
         /\ m["openalex_id"] \notin seen \cup IdSet(ms) =>
               Found(S, Append(ms, m), rest, all, Append(given, m), seen)
         /\ IdSet(Append(ms, m)) = IdSet(ms) \cup {m["openalex_id"]}
  <1> DEFINE T == ToSet(rest)
             U == S \cup T
             x == << m >>
  <1>1. /\ ms \in Seq(S) /\ ms \o (x \o rest) = all /\ given = Fresh(ms, seen)
        /\ Append(ms, m) \in Seq(S)
    BY DEF Found
  <1>2. ms \in Seq(U) /\ rest \in Seq(U) /\ m \in U
    <2>1. S \subseteq U /\ T \subseteq U /\ rest \in Seq(T)
      BY DEF IsSequence
    <2> HIDE DEF U, T
    <2> QED
      BY <1>1, <2>1, SeqMonotonic
  <1> HIDE DEF U, T
  <1>3. Append(ms, m) = ms \o x /\ x \in Seq(U)
    BY <1>2
  <1> HIDE DEF x
  <1>4. (ms \o x) \o rest = ms \o (x \o rest)
    BY <1>2, <1>3, ConcatAssociative
  <1> DEFINE na == Append(ms, m)
  <1>5. na \o rest = all
    BY <1>1, <1>3, <1>4
  <1>6. /\ Fresh(na, seen) =
              IF m["openalex_id"] \in seen \cup IdSet(ms) THEN Fresh(ms, seen)
              ELSE Append(Fresh(ms, seen), m)
        /\ IdSet(na) = IdSet(ms) \cup {m["openalex_id"]}
    BY <1>1, FreshAppend, IdSetAppend
  <1> HIDE DEF na
  <1>7. na \in Seq(S)
    BY <1>1 DEF na
  <1>8. /\ m["openalex_id"] \in seen \cup IdSet(ms) => Found(S, na, rest, all, given, seen)
        /\ m["openalex_id"] \notin seen \cup IdSet(ms) =>
             Found(S, na, rest, all, Append(given, m), seen)
    BY <1>1, <1>5, <1>6, <1>7 DEF Found
  <1> QED
    BY <1>6, <1>8 DEF na

LEMMA AppendLast ==
  ASSUME NEW S, NEW s \in Seq(S), NEW t \in Seq(S), NEW m \in S
  PROVE  s \o Append(t, m) = Append(s \o t, m)
  OBVIOUS

\* The ids of the messages of authors are no ids of institutions, and the other way round.
LEMMA KindsApart ==
  ASSUME NoNamesakes(Lines)
  PROVE  /\ \A m \in AuthorMessages : \A ms \in Seq(InstitutionMessages) :
              m["openalex_id"] \notin IdSet(ms)
         /\ \A m \in InstitutionMessages : \A ms \in Seq(AuthorMessages) :
              m["openalex_id"] \notin IdSet(ms)
  <1>1. /\ \A m \in AuthorMessages : m["openalex_id"] \in AuthorIds(Lines)
        /\ \A m \in InstitutionMessages : m["openalex_id"] \in InstitutionIds(Lines)
    BY MessageIdsFound
  <1>3. ASSUME NEW S, NEW ms \in Seq(S), NEW id \in IdSet(ms)
        PROVE  \E m \in S : id = m["openalex_id"]
    <2>1. ToSet(ms) \subseteq S
      BY DEF ToSet
    <2> QED
      BY <2>1 DEF IdSet
  <1>4. AuthorIds(Lines) \cap InstitutionIds(Lines) = {}
    BY DEF NoNamesakes
  <1>5. ASSUME NEW m \in AuthorMessages, NEW mi \in Seq(InstitutionMessages)
        PROVE  m["openalex_id"] \notin IdSet(mi)
    BY <1>1, <1>3, <1>4
  <1>6. ASSUME NEW m \in InstitutionMessages, NEW ma \in Seq(AuthorMessages)
        PROVE  m["openalex_id"] \notin IdSet(ma)
    BY <1>1, <1>3, <1>4
  <1> QED
    BY <1>5, <1>6

\* What a visit leaves as it is.
LEMMA VisitKeeps ==
  ASSUME CallInv, NEW kind \in Kinds \ {"work"}, Visiting(kind), todo' = Tail(todo),
         UNCHANGED << status, streaming, line, gathered, counts, delivered, snapshot, before >>
  PROVE  /\ Batch' = Batch /\ Kept' = Kept /\ \E ma, mi : Walk(ma, mi)
         /\ (extracted'.works = extracted.works /\ \E ma, mi : Walk(ma, mi)') => Calling'
  <1>1. TypeInv /\ status = "extract"
    BY DEF CallInv, RefInv, AccountInv, Visiting
  <1>2. /\ Bounded(delivered', before'.sizes)
        /\ Since(delivered', before'.sizes) = Since(delivered, before.sizes)
        /\ Kept' = Kept /\ Batch' = Batch /\ \E ma, mi : Walk(ma, mi)
    BY <1>1 DEF CallInv, Calling, Kept, Batch
  <1>3. Made(todo', "work") = Made(todo, "work")
    BY <1>1, VisitMade DEF Kinds
  <1>4. ASSUME extracted'.works = extracted.works, \E ma, mi : Walk(ma, mi)'
        PROVE  Calling'
    <2>1. /\ Kept'.works = Ids(snapshot', WorkOf)
          /\ Len(extracted'.works) + Len(Made(todo', "work")) = 1
          /\ streaming' => counts' = Sizes(Since(delivered', before'.sizes))
      BY <1>1, <1>2, <1>3, <1>4 DEF CallInv, Calling
    <2> QED
      BY <1>1, <1>2, <1>4, <2>1 DEF Calling
  <1> QED
    BY <1>2, <1>4

\* A visit finds the message of its object, unless that is empty, and emits it if it is new.
LEMMA VisitAuthorCalling ==
  ASSUME NoNamesakes(Lines), CallInv, VisitAuthor
  PROVE  Calling'
  <1> DEFINE v == Head(todo)
             o == v.object
             m == AuthorMessage(o)
             rest == Made(Tail(todo), "author")
             given == Kept.authors \o extracted.authors
  <1>1. /\ Visiting("author") /\ todo' = Tail(todo)
        /\ UNCHANGED << status, streaming, line, gathered, counts, delivered, snapshot, before >>
    BY DEF VisitAuthor, history
  <1>2. TypeInv /\ Bounded(delivered, before.sizes)
    BY DEF CallInv, RefInv, AccountInv, Calling
  <1>3. line \in Lines /\ v \in VisitsOf(line) /\ v.kind = "author"
    BY <1>1, <1>2, VisitTyped
  <1>4. /\ Made(todo, "author") = IF ~ IsAuthorEmpty(o) THEN << m >> \o rest ELSE rest
        /\ Made(todo, "institution") = Made(todo', "institution")
        /\ Made(todo', "author") = rest /\ IsSequence(rest)
    <2>1. (Skipped(v) <=> IsAuthorEmpty(o)) /\ MessageOf(v) = m
      BY <1>3 DEF Skipped, MessageOf
    <2> QED
      BY <1>1, <1>2, <2>1, VisitMade DEF Kinds
  <1>5. /\ Batch' = Batch /\ Kept' = Kept /\ \E ma, mi : Walk(ma, mi)
        /\ (extracted'.works = extracted.works /\ \E ma, mi : Walk(ma, mi)') => Calling'
    BY <1>1, VisitKeeps DEF Kinds
  <1>6. PICK ma, mi : Walk(ma, mi)
    BY <1>5
  <1>7. Kept \in Results /\ extracted \in Results
    BY <1>2, KeptType
  <1> HIDE DEF m, rest, given
  <1>8. CASE IsAuthorEmpty(o)
    <2>1. UNCHANGED << seen_ids_, extracted >>
      BY <1>8 DEF VisitAuthor, NewAuthor
    <2>2. Walk(ma, mi)'
      BY <1>1, <1>4, <1>5, <1>6, <1>8, <2>1 DEF Walk
    <2> QED
      BY <1>5, <2>1, <2>2
  <1>9. CASE ~ IsAuthorEmpty(o)
    <2> DEFINE id == m["openalex_id"]
    <2>0. PICK na : na = Append(ma, m)
      OBVIOUS
    <2>1. m \in AuthorMessages /\ id = GetAuthorId(o)
      BY <1>3, <1>9, AuthorVisited, MessageIds DEF m
    <2>2. id \notin IdSet(mi)
      BY <1>6, <2>1, KindsApart DEF Walk, Found
    <2>3. Found(AuthorMessages, ma, << m >> \o rest, AuthorsIn(Batch), given, before.seen)
      BY <1>4, <1>6, <1>9 DEF Walk, given
    <2>4. seen_ids_ = before.seen \cup IdSet(ma) \cup IdSet(mi)
      BY <1>6 DEF Walk
    <2> HIDE DEF id
    <2>5. /\ id \in before.seen \cup IdSet(ma) =>
               Found(AuthorMessages, na, rest, AuthorsIn(Batch), given, before.seen)
          /\ id \notin before.seen \cup IdSet(ma) =>
               Found(AuthorMessages, na, rest, AuthorsIn(Batch), Append(given, m), before.seen)
          /\ IdSet(na) = IdSet(ma) \cup {id}
      BY <1>4, <2>0, <2>1, <2>3, FoundNext DEF id
    <2>6. CASE id \in seen_ids_
      <3>1. UNCHANGED << seen_ids_, extracted >>
        BY <1>9, <2>1, <2>6 DEF VisitAuthor, NewAuthor
      <3>2. Found(AuthorMessages, na, rest, AuthorsIn(Batch), given, before.seen)
        BY <2>2, <2>4, <2>5, <2>6
      <3>3. seen_ids_ = before.seen \cup IdSet(na) \cup IdSet(mi)
        BY <2>2, <2>4, <2>5, <2>6
      <3>4. Kept'.authors \o extracted'.authors = given
        BY <1>5, <3>1 DEF given
      <3>5. Walk(na, mi)'
        BY <1>1, <1>4, <1>5, <1>6, <3>1, <3>2, <3>3, <3>4 DEF Walk
      <3> QED
        BY <1>5, <3>1, <3>5
    <2>7. CASE id \notin seen_ids_
      <3>1. /\ seen_ids_' = seen_ids_ \cup {id}
            /\ extracted' = [extracted EXCEPT !.authors = Append(@, m)]
        BY <1>9, <2>1, <2>7 DEF VisitAuthor, NewAuthor, Remember, m
      <3>2. /\ extracted'.authors = Append(extracted.authors, m)
            /\ extracted'.institutions = extracted.institutions /\ extracted'.works = extracted.works
        BY <1>7, <2>1, <3>1, AuthorsUpdate
      <3>3. Found(AuthorMessages, na, rest, AuthorsIn(Batch), Append(given, m), before.seen)
        BY <2>4, <2>5, <2>7
      <3>4. Kept'.authors \o extracted'.authors = Append(given, m)
        <4> DEFINE S == AuthorMessages
                   x == Kept.authors
                   y == extracted.authors
        <4>1. x \in Seq(S) /\ y \in Seq(S) /\ m \in S
          BY <1>7, <2>1, ResultsFields
        <4> HIDE DEF S, x, y
        <4>2. x \o Append(y, m) = Append(x \o y, m)
          BY <4>1, AppendLast
        <4> QED
          BY <1>5, <3>2, <4>2 DEF x, y, given
      <3>5. seen_ids_' = before.seen \cup IdSet(na) \cup IdSet(mi)
        BY <2>4, <2>5, <3>1
      <3>6. Walk(na, mi)'
        BY <1>1, <1>4, <1>5, <1>6, <3>2, <3>3, <3>4, <3>5 DEF Walk
      <3> QED
        BY <1>5, <3>2, <3>6
    <2> QED
      BY <2>6, <2>7
  <1> QED
    BY <1>8, <1>9

LEMMA VisitInstitutionCalling ==
  ASSUME NoNamesakes(Lines), CallInv, VisitInstitution
  PROVE  Calling'
  <1> DEFINE v == Head(todo)
             o == v.object
             m == InstitutionMessage(o)
             rest == Made(Tail(todo), "institution")
             given == Kept.institutions \o extracted.institutions
  <1>1. /\ Visiting("institution") /\ todo' = Tail(todo)
        /\ UNCHANGED << status, streaming, line, gathered, counts, delivered, snapshot, before >>
    BY DEF VisitInstitution, history
  <1>2. TypeInv /\ Bounded(delivered, before.sizes)
    BY DEF CallInv, RefInv, AccountInv, Calling
  <1>3. line \in Lines /\ v \in VisitsOf(line) /\ v.kind = "institution"
    BY <1>1, <1>2, VisitTyped
  <1>4. /\ Made(todo, "institution") = IF ~ IsInstitutionEmpty(o) THEN << m >> \o rest ELSE rest
        /\ Made(todo, "author") = Made(todo', "author")
        /\ Made(todo', "institution") = rest /\ IsSequence(rest)
    <2>1. (Skipped(v) <=> IsInstitutionEmpty(o)) /\ MessageOf(v) = m
      BY <1>3 DEF Skipped, MessageOf
    <2> QED
      BY <1>1, <1>2, <2>1, VisitMade DEF Kinds
  <1>5. /\ Batch' = Batch /\ Kept' = Kept /\ \E ma, mi : Walk(ma, mi)
        /\ (extracted'.works = extracted.works /\ \E ma, mi : Walk(ma, mi)') => Calling'
    BY <1>1, VisitKeeps DEF Kinds
  <1>6. PICK ma, mi : Walk(ma, mi)
    BY <1>5
  <1>7. Kept \in Results /\ extracted \in Results
    BY <1>2, KeptType
  <1> HIDE DEF m, rest, given
  <1>8. CASE IsInstitutionEmpty(o)
    <2>1. UNCHANGED << seen_ids_, extracted >>
      BY <1>8 DEF VisitInstitution, NewInstitution
    <2>2. Walk(ma, mi)'
      BY <1>1, <1>4, <1>5, <1>6, <1>8, <2>1 DEF Walk
    <2> QED
      BY <1>5, <2>1, <2>2
  <1>9. CASE ~ IsInstitutionEmpty(o)
    <2> DEFINE id == m["openalex_id"]
    <2>0. PICK na : na = Append(mi, m)
      OBVIOUS
    <2>1. m \in InstitutionMessages /\ id = GetInstitutionId(o)
      BY <1>3, <1>9, InstitutionVisited, MessageIds DEF m
    <2>2. id \notin IdSet(ma)
      BY <1>6, <2>1, KindsApart DEF Walk, Found
    <2>3. Found(InstitutionMessages, mi, << m >> \o rest, InstitutionsIn(Batch), given, before.seen)
      BY <1>4, <1>6, <1>9 DEF Walk, given
    <2>4. seen_ids_ = before.seen \cup IdSet(mi) \cup IdSet(ma)
      BY <1>6 DEF Walk
    <2> HIDE DEF id
    <2>5. /\ id \in before.seen \cup IdSet(mi) =>
               Found(InstitutionMessages, na, rest, InstitutionsIn(Batch), given, before.seen)
          /\ id \notin before.seen \cup IdSet(mi) =>
               Found(InstitutionMessages, na, rest, InstitutionsIn(Batch), Append(given, m),
                     before.seen)
          /\ IdSet(na) = IdSet(mi) \cup {id}
      BY <1>4, <2>0, <2>1, <2>3, FoundNext DEF id
    <2>6. CASE id \in seen_ids_
      <3>1. UNCHANGED << seen_ids_, extracted >>
        BY <1>9, <2>1, <2>6 DEF VisitInstitution, NewInstitution
      <3>2. Found(InstitutionMessages, na, rest, InstitutionsIn(Batch), given, before.seen)
        BY <2>2, <2>4, <2>5, <2>6
      <3>3. seen_ids_ = before.seen \cup IdSet(na) \cup IdSet(ma)
        BY <2>2, <2>4, <2>5, <2>6
      <3>4. Kept'.institutions \o extracted'.institutions = given
        BY <1>5, <3>1 DEF given
      <3>5. Walk(ma, na)'
        BY <1>1, <1>4, <1>5, <1>6, <3>1, <3>2, <3>3, <3>4 DEF Walk
      <3> QED
        BY <1>5, <3>1, <3>5
    <2>7. CASE id \notin seen_ids_
      <3>1. /\ seen_ids_' = seen_ids_ \cup {id}
            /\ extracted' = [extracted EXCEPT !.institutions = Append(@, m)]
        BY <1>9, <2>1, <2>7 DEF VisitInstitution, NewInstitution, Remember, m
      <3>2. /\ extracted'.institutions = Append(extracted.institutions, m)
            /\ extracted'.authors = extracted.authors /\ extracted'.works = extracted.works
        BY <1>7, <2>1, <3>1, InstitutionsUpdate
      <3>3. Found(InstitutionMessages, na, rest, InstitutionsIn(Batch), Append(given, m),
                     before.seen)
        BY <2>4, <2>5, <2>7
      <3>4. Kept'.institutions \o extracted'.institutions = Append(given, m)
        <4> DEFINE S == InstitutionMessages
                   x == Kept.institutions
                   y == extracted.institutions
        <4>1. x \in Seq(S) /\ y \in Seq(S) /\ m \in S
          BY <1>7, <2>1, ResultsFields
        <4> HIDE DEF S, x, y
        <4>2. x \o Append(y, m) = Append(x \o y, m)
          BY <4>1, AppendLast
        <4> QED
          BY <1>5, <3>2, <4>2 DEF x, y, given
      <3>5. seen_ids_' = before.seen \cup IdSet(na) \cup IdSet(ma)
        BY <2>4, <2>5, <3>1
      <3>6. Walk(ma, na)'
        BY <1>1, <1>4, <1>5, <1>6, <3>2, <3>3, <3>4, <3>5 DEF Walk
      <3> QED
        BY <1>5, <3>2, <3>6
    <2> QED
      BY <2>6, <2>7
  <1> QED
    BY <1>8, <1>9

\* The work of a line is extracted once.
LEMMA ExtractWorkCalling ==
  ASSUME CallInv, ExtractWork
  PROVE  Calling'
  <1> DEFINE v == Head(todo)
  <1>1. /\ Visiting("work") /\ status = "extract" /\ todo' = Tail(todo)
        /\ UNCHANGED << status, streaming, line, gathered, counts, seen_ids_, delivered, snapshot,
                        before >>
    BY DEF ExtractWork, Visiting, history
  <1>2. TypeInv /\ Bounded(delivered, before.sizes)
    BY DEF CallInv, RefInv, AccountInv, Calling
  <1>3. /\ Made(todo', "author") = Made(todo, "author")
        /\ Made(todo', "institution") = Made(todo, "institution")
    BY <1>1, <1>2, VisitMade DEF Kinds
  <1>4. /\ Made(todo, "work") = << MessageOf(v) >> \o Made(todo', "work")
        /\ IsSequence(Made(todo', "work"))
    <2>1. v.kind = "work"
      BY <1>1 DEF Visiting
    <2>2. ~ Skipped(v)
      BY <2>1 DEF Skipped
    <2> QED
      BY <1>1, <1>2, <2>2, VisitMade DEF Kinds
  <1>5. /\ extracted'.works = << WorkOf(line) >>
        /\ extracted'.authors = extracted.authors
        /\ extracted'.institutions = extracted.institutions
    <2>1. extracted \in Results /\ line \in Lines
      BY <1>1, <1>2, VisitTyped DEF TypeInv, TypeOK
    <2>2. WorkOf(line) \in WorkMessages
      BY <2>1 DEF WorkMessages, ExtractWork
    <2> QED
      BY <2>1, <2>2, WorksUpdate DEF ExtractWork
  <1>6. /\ Bounded(delivered', before'.sizes)
        /\ Since(delivered', before'.sizes) = Since(delivered, before.sizes)
        /\ Kept' = Kept /\ Batch' = Batch
    BY <1>1, <1>2 DEF Kept, Batch
  <1>7. PICK ma, mi : Walk(ma, mi)
    BY <1>1 DEF CallInv, Calling
  <1>8. Walk(ma, mi)'
    BY <1>1, <1>3, <1>5, <1>6, <1>7 DEF Walk
  <1>9. Len(extracted'.works) + Len(Made(todo', "work")) = 1
    <2> DEFINE x == Made(todo', "work")
               y == << MessageOf(v) >> \o x
               n == Len(extracted.works)
    <2>1. n \in Nat
      BY <1>2, KeptType, ResultsFields
    <2>2. n + Len(y) = 1
      BY <1>1, <1>4 DEF CallInv, Calling
    <2>3. IsSequence(x)
      BY <1>4
    <2> HIDE DEF x, n
    <2>4. Len(x) \in Nat /\ Len(y) = 1 + Len(x)
      <3> DEFINE m == MessageOf(v)
                 S == ToSet(x) \cup {m}
      <3>1. x \in Seq(ToSet(x)) /\ ToSet(x) \subseteq S /\ m \in S
        BY <2>3 DEF IsSequence
      <3> HIDE DEF m, S
      <3>2. x \in Seq(S)
        BY <3>1, SeqMonotonic
      <3>3. Len(x) \in Nat /\ Len(<< m >> \o x) = 1 + Len(x)
        BY <3>1, <3>2
      <3> QED
        BY <3>3 DEF m
    <2>5. Len(x) = 0
      BY <2>1, <2>2, <2>4
    <2>6. Len(extracted'.works) = 1
      BY <1>5
    <2> QED
      BY <2>5, <2>6 DEF x
  <1>10. /\ Kept'.works = Ids(snapshot', WorkOf)
         /\ streaming' => counts' = Sizes(Since(delivered', before'.sizes))
    BY <1>1, <1>6 DEF CallInv, Calling
  <1> QED
    BY <1>1, <1>6, <1>8, <1>9, <1>10 DEF Calling

\* The works of one more line.
LEMMA OneMoreWork ==
  ASSUME NEW ls \in Seq(Lines), NEW l \in Lines, NEW S, NEW ws \in Seq(S), Len(ws) = 1,
         \A w \in ToSet(ws) : w = WorkOf(l)
  PROVE  Ids(Append(ls, l), WorkOf) = Ids(ls, WorkOf) \o ws
  <1> DEFINE N == Len(ls)
             T == { WorkOf(k) : k \in Lines }
             f == Ids(ls, WorkOf)
             h == Ids(Append(ls, l), WorkOf)
  <1>1. ws = << WorkOf(l) >>
    <2>1. ws[1] = WorkOf(l) /\ DOMAIN ws = {1}
      BY DEF ToSet
    <2> QED
      BY <2>1
  <1>2. /\ N \in Nat /\ DOMAIN ls = 1 .. N /\ DOMAIN Append(ls, l) = 1 .. N + 1
        /\ \A k \in 1 .. N : ls[k] \in Lines /\ Append(ls, l)[k] = ls[k]
        /\ Append(ls, l)[N + 1] = l /\ 1 .. N + 1 = (1 .. N) \cup {N + 1}
    OBVIOUS
  <1>3. /\ f \in [1 .. N -> T] /\ h \in [1 .. N + 1 -> T]
        /\ \A k \in 1 .. N : h[k] = f[k]
        /\ h[N + 1] = WorkOf(l) /\ WorkOf(l) \in T
    BY <1>2 DEF Ids
  <1> DEFINE w == WorkOf(l)
  <1> HIDE DEF f, h, T, N, w
  <1>4. f \in Seq(T) /\ Len(f) = N /\ h \in Seq(T) /\ Len(h) = N + 1
    BY <1>2, <1>3
  <1>5. w \in T /\ h[N + 1] = w
    BY <1>3 DEF w
  <1>6. h = f \o << w >>
    BY <1>2, <1>3, <1>4, <1>5
  <1> QED
    BY <1>1, <1>6 DEF f, h, w

\* What has been extracted from a line joins what the call has given.
LEMMA LineDoneCalling ==
  ASSUME CallInv, LineDone
  PROVE  Calling'
  <1> DEFINE given == Since(delivered, before.sizes)
  <1>1. /\ status = "extract" /\ status' = "lines" /\ todo = << >> /\ todo' = << >>
        /\ extracted' = Nothing /\ snapshot' = Append(snapshot, line)
        /\ UNCHANGED << streaming, seen_ids_, before >>
    BY DEF LineDone
  <1>2. /\ TypeInv /\ Bounded(delivered, before.sizes)
        /\ line \in Lines /\ snapshot \in Seq(Lines) /\ (streaming => gathered = Nothing)
        /\ \A w \in ToSet(extracted.works) : w = WorkOf(line)
    BY <1>1 DEF CallInv, RefInv, Resolving, AccountInv, Calling, TypeInv, TypeOK, Busy
  <1>3. /\ given \in Results /\ Kept \in Results /\ extracted \in Results
        /\ gathered \in Results /\ delivered \in Results /\ before.sizes \in Counts
    BY <1>2, KeptType
  <1>4. /\ Bounded(delivered', before'.sizes)
        /\ Kept' = Joined(Kept, extracted)
        /\ streaming => Since(delivered', before'.sizes) = Joined(given, extracted)
    <2>1. CASE KeepLine
      <3>1. /\ ~ streaming /\ gathered' = Joined(gathered, extracted) /\ delivered' = delivered
        BY <2>1 DEF KeepLine
      <3>2. Kept' = Joined(given, Joined(gathered, extracted))
        BY <1>1, <3>1 DEF Kept
      <3>3. Kept' = Joined(Kept, extracted)
        <4> HIDE DEF given
        <4>1. Joined(given, Joined(gathered, extracted)) = Joined(Joined(given, gathered), extracted)
          BY <1>3, JoinedAssociative
        <4> QED
          BY <3>2, <4>1 DEF Kept, given
      <3> QED
        BY <1>1, <1>2, <3>1, <3>3
    <2>2. CASE StreamLine
      <3>1. streaming /\ delivered' = Joined(delivered, extracted) /\ gathered' = Nothing
            /\ gathered = Nothing
        BY <1>2, <2>2 DEF StreamLine, Delivery
      <3>2. /\ Bounded(delivered', before'.sizes)
            /\ Since(delivered', before'.sizes) = Joined(given, extracted)
        BY <1>1, <1>2, <1>3, <3>1, SinceJoined
      <3>3. Kept = given
        BY <1>3, <3>1, JoinedNothing DEF Kept
      <3>4. Kept' = Joined(Joined(given, extracted), Nothing)
        BY <3>1, <3>2 DEF Kept
      <3>5. Joined(given, extracted) \in Results
        BY <1>3, JoinedType
      <3>6. Kept' = Joined(Kept, extracted)
        BY <3>3, <3>4, <3>5, JoinedNothing
      <3> QED
        BY <3>2, <3>6
    <2> QED
      BY <2>1, <2>2 DEF LineDone
  <1> DEFINE kept == Joined(Kept, extracted)
  <1>5. /\ kept \in Results /\ kept.authors = Kept.authors \o extracted.authors
        /\ kept.institutions = Kept.institutions \o extracted.institutions
        /\ kept.works = Kept.works \o extracted.works
    BY <1>3, JoinedType
  <1> HIDE DEF kept, given
  <1>6. Batch' = Batch
    BY <1>1 DEF Batch
  <1>7. PICK ma, mi : Walk(ma, mi)
    BY <1>1 DEF CallInv, Calling
  <1>8. Walk(ma, mi)'
    <2>1. /\ kept.authors \o << >> = kept.authors
          /\ kept.institutions \o << >> = kept.institutions
      BY <1>5, ConcatEmptySeq, ResultsFields
    <2>2. /\ Kept'.authors \o extracted'.authors = Kept.authors \o extracted.authors
          /\ Kept'.institutions \o extracted'.institutions
               = Kept.institutions \o extracted.institutions
      BY <1>1, <1>4, <1>5, <2>1, NothingFields DEF kept
    <2> QED
      BY <1>1, <1>6, <1>7, <2>2 DEF Walk
  <1>9. Kept'.works = Ids(snapshot', WorkOf)
    <2>1. Len(extracted.works) = 1
      <3>1. Len(Made(todo, "work")) = 0
        BY <1>1, MadeNone
      <3>2. Len(extracted.works) \in Nat
        BY <1>3, ResultsFields
      <3>3. Len(extracted.works) + Len(Made(todo, "work")) = 1
        BY <1>1 DEF CallInv, Calling
      <3> DEFINE n == Len(extracted.works)
                 more == Len(Made(todo, "work"))
      <3>4. n \in Nat /\ more = 0 /\ n + more = 1
        BY <3>1, <3>2, <3>3
      <3> HIDE DEF n, more
      <3>5. n = 1
        BY <3>4
      <3> QED
        BY <3>5 DEF n
    <2>2. Kept.works = Ids(snapshot, WorkOf)
      BY <1>1 DEF CallInv, Calling
    <2>3. extracted.works \in Seq(WorkMessages)
      BY <1>3, ResultsFields
    <2>4. Ids(Append(snapshot, line), WorkOf) = Ids(snapshot, WorkOf) \o extracted.works
      BY <1>2, <2>1, <2>3, OneMoreWork
    <2> QED
      BY <1>1, <1>4, <1>5, <2>2, <2>4 DEF kept
  <1>10. Len(extracted'.works) + Len(Made(todo', "work")) = 0
    BY <1>1, MadeNone, NothingFields
  <1>11. ASSUME streaming' PROVE counts' = Sizes(Since(delivered', before'.sizes))
    <2>1. streaming /\ StreamLine
      BY <1>1, <1>11 DEF LineDone, KeepLine
    <2>2. /\ counts = Sizes(given)
          /\ counts' = [ k \in DOMAIN counts |-> counts[k] + Len(extracted[k]) ]
      BY <1>1, <2>1 DEF StreamLine, CallInv, Calling, given
    <2>3. Sizes(Joined(given, extracted))
            = [ k \in DOMAIN Sizes(given) |-> Sizes(given)[k] + Len(extracted[k]) ]
      BY <1>3, SizesJoined
    <2> QED
      BY <1>4, <2>1, <2>2, <2>3
  <1> QED
    BY <1>1, <1>4, <1>8, <1>9, <1>10, <1>11 DEF Calling

\* What is returned is what has been kept.
LEMMA ReturnCalling ==
  ASSUME CallInv, Return
  PROVE  Calling'
  <1> DEFINE given == Since(delivered, before.sizes)
  <1>1. /\ status = "lines" /\ status' = "returned" /\ delivered' = Joined(delivered, gathered)
        /\ gathered' = Nothing
        /\ UNCHANGED << streaming, todo, extracted, counts, seen_ids_, snapshot, before >>
    BY DEF Return, Delivery
  <1>2. /\ TypeInv /\ Bounded(delivered, before.sizes) /\ (streaming => gathered = Nothing)
    BY DEF CallInv, RefInv, Resolving, AccountInv, Calling
  <1>3. /\ Kept \in Results /\ gathered \in Results /\ delivered \in Results
        /\ before.sizes \in Counts
    BY <1>2, KeptType
  <1>4. Bounded(delivered', before'.sizes) /\ Since(delivered', before'.sizes) = Kept
    BY <1>1, <1>2, <1>3, SinceJoined DEF Kept
  <1>5. Kept' = Kept
    BY <1>1, <1>3, <1>4, JoinedNothing DEF Kept
  <1>6. Batch' = Batch
    BY <1>1 DEF Batch
  <1>7. PICK ma, mi : Walk(ma, mi)
    BY <1>1 DEF CallInv, Calling
  <1>8. Walk(ma, mi)'
    BY <1>1, <1>5, <1>6, <1>7 DEF Walk
  <1>9. ASSUME streaming' PROVE counts' = Sizes(Since(delivered', before'.sizes))
    <2>1. delivered' = delivered
      BY <1>1, <1>2, <1>3, <1>9, JoinedNothing
    <2> QED
      BY <1>1, <1>9, <2>1 DEF CallInv, Calling
  <1>10. /\ Kept'.works = Ids(snapshot', WorkOf)
         /\ Len(extracted'.works) + Len(Made(todo', "work")) = 0
    BY <1>1, <1>5 DEF CallInv, Calling
  <1> QED
    BY <1>1, <1>4, <1>8, <1>9, <1>10 DEF Calling

\* Every step.
LEMMA NextCalling ==
  ASSUME NoNamesakes(Lines)
  PROVE  CallInv /\ [Next]_vars => CallInv'
  <1> SUFFICES ASSUME CallInv, [Next]_vars PROVE CallInv'
    OBVIOUS
  <1>1. RefInv /\ RefInv'
    BY NextResolving DEF CallInv
  <1>2. Calling'
    BY <1>1, StutterCalling, ReadLineCalling, VisitAuthorCalling, VisitInstitutionCalling,
       ExtractWorkCalling, ThrowCalling, LineDoneCalling, ReturnCalling, CallAgainCalling DEF Next
  <1> QED
    BY <1>1, <1>2 DEF CallInv

-----------------------------------------------------------------------------
(* The result. *)

\* The first objects of ids, and the first messages.
LEMMA FirstsFresh ==
  ASSUME NEW objects, IsSequence(objects)
  PROVE  /\ Ids(Firsts(objects, GetAuthorId), AuthorMessage)
              = Fresh(Ids(objects, AuthorMessage), before.seen)
         /\ Ids(Firsts(objects, GetInstitutionId), InstitutionMessage)
              = Fresh(Ids(objects, InstitutionMessage), before.seen)
  <1> DEFINE N == Len(objects)
  <1>1. N \in Nat /\ DOMAIN objects = 1 .. N
    BY DEF IsSequence
  <1>2. \A k \in 1 .. N : \A j \in 1 .. k - 1 : j \in 1 .. N
    <2> HIDE DEF N
    <2> QED
      BY <1>1
  <1> HIDE DEF N
  <1>3. ASSUME NEW K \in SUBSET (1 .. N)
        PROVE  /\ Ids(Selected(objects, K), AuthorMessage) = Selected(Ids(objects, AuthorMessage), K)
               /\ Ids(Selected(objects, K), InstitutionMessage)
                    = Selected(Ids(objects, InstitutionMessage), K)
    <2>1. K \in SUBSET Int /\ IsFiniteSet(K)
      BY <1>1, DomainFinite
    <2>2. \A n \in 1 .. Cardinality(K) : Ascending(K)[n] \in 1 .. N
      BY <2>1, AscendingProperties
    <2> QED
      BY <1>1, <2>2 DEF Ids, Selected
  <1>4. { k \in FirstOccurrences(Ids(objects, GetAuthorId)) :
            Ids(objects, GetAuthorId)[k] \notin before.seen }
          = NewAt(Ids(objects, AuthorMessage), before.seen)
    BY <1>1, <1>2, MessageIds DEF NewAt, FirstOccurrences, Ids
  <1>5. { k \in FirstOccurrences(Ids(objects, GetInstitutionId)) :
            Ids(objects, GetInstitutionId)[k] \notin before.seen }
          = NewAt(Ids(objects, InstitutionMessage), before.seen)
    BY <1>1, <1>2, MessageIds DEF NewAt, FirstOccurrences, Ids
  <1>6. /\ NewAt(Ids(objects, AuthorMessage), before.seen) \in SUBSET (1 .. N)
        /\ NewAt(Ids(objects, InstitutionMessage), before.seen) \in SUBSET (1 .. N)
    BY <1>1 DEF NewAt, Ids
  <1> QED
    BY <1>3, <1>4, <1>5, <1>6 DEF Firsts, Fresh

\* What lines hold is a sequence.
LEMMA FoundSequences ==
  ASSUME NEW ls \in Seq(Lines)
  PROVE  IsSequence(FoundAuthors(ls)) /\ IsSequence(FoundInstitutions(ls))
  <1>1. ASSUME NEW s, IsSequence(s)
        PROVE  IsSequence(NonEmptyAuthors(s)) /\ IsSequence(NonEmptyInstitutions(s))
    <2>1. ASSUME NEW K \in SUBSET DOMAIN s PROVE IsSequence(Selected(s, K))
      <3>1. K \in SUBSET Int /\ IsFiniteSet(K)
        BY <1>1, DomainFinite
      <3> QED
        BY <3>1, SelectedProperties, SequenceOfOwn
    <2> QED
      BY <2>1 DEF NonEmptyAuthors, NonEmptyInstitutions
  <1>2. FoundAuthors(ls) = NonEmptyAuthors(ObjectsIn(ls, "author"))
    BY DEF FoundAuthors, ObjectsIn, Objects
  <1>3. FoundInstitutions(ls) = NonEmptyInstitutions(ObjectsIn(ls, "institution"))
    BY DEF FoundInstitutions, ObjectsIn, Objects
  <1>4. ASSUME NEW kind \in Kinds PROVE IsSequence(ObjectsIn(ls, kind))
    <2>1. CASE ls = << >>
      <3>1. [ k \in DOMAIN ls |-> Objects(ls[k])[kind] ] = << >>
        BY <2>1
      <3>2. ObjectsIn(ls, kind) = << >>
        BY <3>1, FlattenEmpty DEF ObjectsIn
      <3> QED
        BY <3>2 DEF IsSequence
    <2>2. CASE ls # << >>
      <3>1. ls[1] \in Lines
        BY <2>2
      <3>2. PICK l \in Lines : TRUE
        BY <3>1
      <3>3. ObjectsIn(ls, kind) \in Seq(UNION { ToSet(Objects(m)[kind]) : m \in Lines })
        BY <3>2, ObjectsInAppend
      <3> QED
        BY <3>3, SequenceOfOwn
    <2> QED
      BY <2>1, <2>2
  <1> QED
    BY <1>1, <1>2, <1>3, <1>4 DEF Kinds

\* What a call has given when it returns.
LEMMA CallingResult == CallInv => CallResult
  <1> SUFFICES ASSUME CallInv, status = "returned"
               PROVE  /\ Since(delivered, before.sizes) = Expected
                      /\ streaming => counts = Sizes(Expected)
    BY DEF CallResult
  <1> DEFINE given == Since(delivered, before.sizes)
  <1>1. /\ TypeInv /\ Bounded(delivered, before.sizes) /\ gathered = Nothing
        /\ todo = << >> /\ extracted = Nothing /\ snapshot \in Seq(Lines)
    BY DEF CallInv, RefInv, Resolving, AccountInv, Calling, TypeInv, TypeOK, Busy
  <1>2. given \in Results /\ Kept \in Results /\ Kept = given
    BY <1>1, KeptType, JoinedNothing DEF Kept
  <1>3. Batch = snapshot
    BY DEF Batch
  <1>4. PICK ma, mi : Walk(ma, mi)
    BY DEF CallInv, Calling
  <1>5. ma = AuthorsIn(snapshot) /\ mi = InstitutionsIn(snapshot)
    <2>1. ma \o << >> = ma /\ mi \o << >> = mi
      BY <1>4, ConcatEmptySeq DEF Walk, Found
    <2> QED
      BY <1>1, <1>3, <1>4, <2>1, MadeNone DEF Walk, Found
  <1>6. /\ given.authors = Fresh(ma, before.seen)
        /\ given.institutions = Fresh(mi, before.seen)
    <2>1. Kept.authors \o << >> = Kept.authors /\ Kept.institutions \o << >> = Kept.institutions
      BY <1>2, ConcatEmptySeq, ResultsFields
    <2> QED
      BY <1>1, <1>2, <1>4, <2>1, NothingFields DEF Walk, Found
  <1>7. given.works = Ids(snapshot, WorkOf)
    BY <1>2 DEF CallInv, Calling
  <1>8. /\ Fresh(ma, before.seen)
             = Ids(Firsts(FoundAuthors(snapshot), GetAuthorId), AuthorMessage)
        /\ Fresh(mi, before.seen)
             = Ids(Firsts(FoundInstitutions(snapshot), GetInstitutionId), InstitutionMessage)
    BY <1>1, <1>5, FoundSequences, FirstsFresh DEF AuthorsIn, InstitutionsIn
  <1>9. given = [authors |-> given.authors, institutions |-> given.institutions,
                 works |-> given.works]
    BY <1>2, ResultsFields
  <1>10. given = Expected
    BY <1>6, <1>7, <1>8, <1>9 DEF Expected
  <1>11. streaming => counts = Sizes(given)
    BY DEF CallInv, Calling
  <1> QED
    BY <1>10, <1>11

\* Where no author and institution share an id, a call that returns has given a work per
\* line and the first object of every id it had not seen, in the order of the lines and
\* however it ordered the extractions, and it has counted what it wrote.
THEOREM CallCorrect ==
  ASSUME NoNamesakes(Lines)
  PROVE  Spec => []CallResult
  <1>1. Init => CallInv
    BY InitResolving, InitCalling DEF CallInv
  <1>2. CallInv /\ [Next]_vars => CallInv'
    BY NextCalling
  <1> QED
    BY <1>1, <1>2, CallingResult, PTL DEF Spec
=============================================================================
