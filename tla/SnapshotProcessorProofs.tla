---------------------- MODULE SnapshotProcessorProofs ----------------------
(***************************************************************************)
(* Theorems about SnapshotProcessor, for all lines, any number of them and *)
(* of calls, and whatever the order in which ProcessLine extracts.         *)
(***************************************************************************)
EXTENDS SnapshotProcessor, SequenceLemmas

-----------------------------------------------------------------------------
(* The visits of a line. *)

VisitsOf(l) == UNION { ToSet(Visits(l, kind)) : kind \in Kinds }

\* A sequence of any elements is a sequence of its own.
LEMMA SequenceOfOwn ==
  ASSUME NEW S, NEW s \in Seq(S)
  PROVE  IsSequence(s) /\ \A k \in DOMAIN s : s[k] \in S
  <1>1. s \in [1 .. Len(s) -> ToSet(s)] /\ Len(s) \in Nat
    BY DEF ToSet
  <1> QED
    BY <1>1 DEF IsSequence

\* The positions of a sequence.
LEMMA DomainFinite ==
  ASSUME NEW s, IsSequence(s), NEW K \in SUBSET DOMAIN s
  PROVE  K \in SUBSET Int /\ IsFiniteSet(K) /\ DOMAIN s \in SUBSET Int
  <1>1. Len(s) \in Nat /\ DOMAIN s = 1 .. Len(s)
    BY DEF IsSequence
  <1>2. IsFiniteSet(DOMAIN s)
    BY <1>1, FS_Interval
  <1> QED
    BY <1>1, <1>2, FS_Subset

\* The institutions of any authorships.
LEMMA InstitutionsOf ==
  ASSUME NEW N \in Nat, NEW ships, DOMAIN ships = 1 .. N,
         \A k \in 1 .. N : IsSequence(ships[k].institutions)
  PROVE  LET objects == FlattenSeq([ k \in DOMAIN ships |-> ships[k].institutions ]) IN
         /\ IsSequence(objects)
         /\ ToSet(objects) = UNION { ToSet(ships[k].institutions) : k \in 1 .. N }
  <1> DEFINE S == UNION { ToSet(ships[k].institutions) : k \in 1 .. N }
             all == [ k \in DOMAIN ships |-> ships[k].institutions ]
  <1>1. ASSUME NEW k \in 1 .. N PROVE ships[k].institutions \in Seq(S)
    <2>1. ships[k].institutions \in Seq(ToSet(ships[k].institutions))
      BY DEF IsSequence
    <2>2. ToSet(ships[k].institutions) \subseteq S
      OBVIOUS
    <2> HIDE DEF S
    <2> QED
      BY <2>1, <2>2, SeqMonotonic
  <1>2. ToSet(FlattenSeq(all)) = UNION { ToSet(all[k]) : k \in DOMAIN all } /\ IsSequence(FlattenSeq(all))
    <2> HIDE DEF S
    <2>1. all \in [1 .. N -> Seq(S)]
      BY <1>1
    <2> HIDE DEF all
    <2>2. all \in Seq(Seq(S))
      BY <2>1
    <2>3. << >> \in Seq(S)
      OBVIOUS
    <2>4. FlattenSeq(all) \in Seq(S)
      BY <2>2, <2>3, FlattenAppend
    <2> QED
      BY <2>2, <2>4, FlattenElements, SequenceOfOwn
  <1>3. UNION { ToSet(all[k]) : k \in DOMAIN all } = S
    OBVIOUS
  <1> QED
    BY <1>2, <1>3

\* The authorships of a line and their institutions are sequences.
LEMMA LineSequences ==
  ASSUME NEW l \in Lines
  PROVE  /\ IsSequence(AuthorObjects(l)) /\ IsSequence(InstitutionObjects(l))
         /\ ToSet(InstitutionObjects(l)) =
              UNION { ToSet(l.authorships[k].institutions) : k \in DOMAIN l.authorships }
  <1> DEFINE ships == l.authorships
             N == Len(ships)
  <1>1. IsSequence(ships) /\ \A k \in DOMAIN ships : IsSequence(ships[k].institutions)
    BY LinesAssumption
  <1>2. N \in Nat /\ DOMAIN ships = 1 .. N
    BY <1>1 DEF IsSequence
  <1>3. AuthorObjects(l) \in Seq({ ships[k].author : k \in DOMAIN ships })
    <2>1. AuthorObjects(l) \in [1 .. N -> { ships[k].author : k \in DOMAIN ships }]
      BY <1>2 DEF AuthorObjects
    <2> QED
      BY <1>2, <2>1
  <1>4. /\ IsSequence(InstitutionObjects(l))
        /\ ToSet(InstitutionObjects(l)) = UNION { ToSet(ships[k].institutions) : k \in DOMAIN ships }
    BY <1>1, <1>2, InstitutionsOf DEF InstitutionObjects
  <1> QED
    BY <1>3, <1>4, SequenceOfOwn

\* So are the objects of each extraction.
LEMMA ObjectsSequences ==
  ASSUME NEW l \in Lines, NEW kind \in Kinds
  PROVE  IsSequence(Objects(l)[kind])
  <1>1. IsSequence(<< l.data >>)
    <2>1. << l.data >> \in Seq({l.data})
      OBVIOUS
    <2> QED
      BY <2>1, SequenceOfOwn
  <1>2. CASE kind = "author"
    BY <1>2, LineSequences DEF Objects
  <1>3. CASE kind = "institution"
    BY <1>3, LineSequences DEF Objects
  <1>4. CASE kind = "work"
    BY <1>1, <1>4 DEF Objects
  <1> QED
    BY <1>2, <1>3, <1>4 DEF Kinds

\* Visits keeps the objects of a kind in their order.
LEMMA VisitsProperties ==
  ASSUME NEW l \in Lines, NEW kind \in Kinds
  PROVE  /\ IsSequence(Visits(l, kind))
         /\ ToSet(Visits(l, kind)) =
              { [kind |-> kind, object |-> o] : o \in ToSet(Objects(l)[kind]) }
  <1> DEFINE objects == Objects(l)[kind]
  <1>1. DOMAIN objects = 1 .. Len(objects) /\ Len(objects) \in Nat
    BY ObjectsSequences DEF IsSequence
  <1>2. Visits(l, kind) = [ k \in DOMAIN objects |-> [kind |-> kind, object |-> objects[k]] ]
    BY DEF Visits
  <1> HIDE DEF objects
  <1>3. ToSet(Visits(l, kind)) = { [kind |-> kind, object |-> o] : o \in ToSet(objects) }
    BY <1>2 DEF ToSet
  <1>4. Visits(l, kind) \in [1 .. Len(objects) -> ToSet(Visits(l, kind))]
    BY <1>1, <1>2 DEF ToSet
  <1>5. Visits(l, kind) \in Seq(ToSet(Visits(l, kind)))
    BY <1>1, <1>4
  <1> QED
    BY <1>3, <1>5 DEF IsSequence, objects

\* In whichever order, all objects of a line are visited.
LEMMA TodoProperties ==
  ASSUME NEW l \in Lines, NEW order \in Orders
  PROVE  LET t == FlattenSeq([ k \in DOMAIN order |-> Visits(l, order[k]) ]) IN
         t \in Seq(VisitsOf(l)) /\ ToSet(t) = VisitsOf(l)
  <1> DEFINE N == Cardinality(Kinds)
             visits == [ k \in DOMAIN order |-> Visits(l, order[k]) ]
  <1>1. IsFiniteSet(Kinds) /\ N \in Nat
    <2>1. IsFiniteSet({"author"} \cup {"institution"} \cup {"work"})
      BY FS_Singleton, FS_Union
    <2>2. Kinds = {"author"} \cup {"institution"} \cup {"work"}
      BY DEF Kinds
    <2> QED
      BY <2>1, <2>2, FS_CardinalityType
  <1>2. order \in Injection(1 .. N, Kinds)
    BY DEF Orders, SetToSeqs, Injection, IsInjective, Kinds
  <1>3. IsFiniteSet(1 .. N) /\ Cardinality(1 .. N) = N
    BY <1>1, FS_Interval
  <1>4. order \in Surjection(1 .. N, Kinds)
    <2> HIDE DEF N
    <2> QED
      BY <1>1, <1>2, <1>3, FS_Injection DEF N
  <1> HIDE DEF N
  <1>5. order \in [1 .. N -> Kinds] /\ \A kind \in Kinds : \E k \in 1 .. N : order[k] = kind
    BY <1>4 DEF Surjection
  <1>6. visits \in Seq(Seq(VisitsOf(l)))
    <2>1. ASSUME NEW k \in 1 .. N PROVE visits[k] \in Seq(VisitsOf(l))
      <3>1. visits[k] = Visits(l, order[k]) /\ order[k] \in Kinds
        BY <1>5
      <3>2. visits[k] \in Seq(ToSet(Visits(l, order[k])))
        BY <3>1, VisitsProperties DEF IsSequence
      <3>3. ToSet(Visits(l, order[k])) \subseteq VisitsOf(l)
        BY <3>1 DEF VisitsOf
      <3> QED
        BY <3>2, <3>3, SeqMonotonic
    <2>2. DOMAIN visits = 1 .. N
      BY <1>5
    <2>3. visits \in [1 .. N -> Seq(VisitsOf(l))]
      BY <2>1, <2>2
    <2> QED
      BY <1>1, <2>3
  <1>7. FlattenSeq(visits) \in Seq(VisitsOf(l))
    <2>1. << >> \in Seq(VisitsOf(l))
      OBVIOUS
    <2> HIDE DEF visits
    <2> QED
      BY <1>6, <2>1, FlattenAppend
  <1>8. ToSet(FlattenSeq(visits)) = UNION { ToSet(visits[k]) : k \in DOMAIN visits }
    <2> HIDE DEF visits
    <2> QED
      BY <1>6, FlattenElements
  <1>9. UNION { ToSet(visits[k]) : k \in DOMAIN visits } = VisitsOf(l)
    BY <1>5 DEF VisitsOf
  <1> QED
    BY <1>7, <1>8, <1>9

\* Every object that is not empty is found, and has a message.
LEMMA AuthorsFound ==
  ASSUME NEW l \in Lines
  PROVE  ToSet(FoundAuthors(<< l >>)) = { o \in ToSet(AuthorObjects(l)) : ~ IsAuthorEmpty(o) }
  <1> DEFINE objects == AuthorObjects(l)
             K == { k \in DOMAIN objects : ~ IsAuthorEmpty(objects[k]) }
  <1>1. FoundAuthors(<< l >>) = Selected(objects, K)
    <2>1. [ k \in DOMAIN << l >> |-> AuthorObjects(<< l >>[k]) ] = << objects >>
      OBVIOUS
    <2> QED
      BY <2>1, FlattenSingle DEF FoundAuthors, NonEmptyAuthors
  <1>2. K \in SUBSET Int /\ IsFiniteSet(K)
    BY LineSequences, DomainFinite
  <1>3. ToSet(Selected(objects, K)) = { objects[k] : k \in K }
    <2> HIDE DEF K, objects
    <2> QED
      BY <1>2, SelectedProperties
  <1> QED
    BY <1>1, <1>3 DEF ToSet

\* An author that is visited is one the line is said to hold, unless empty.
LEMMA AuthorVisited ==
  ASSUME NEW l \in Lines, NEW v \in VisitsOf(l), v.kind = "author"
  PROVE  ~ IsAuthorEmpty(v.object) => AuthorMessage(v.object) \in AuthorMessages
  <1>1. v.object \in ToSet(AuthorObjects(l))
    <2>1. PICK kind \in Kinds : v \in ToSet(Visits(l, kind))
      BY DEF VisitsOf
    <2>2. PICK o \in ToSet(Objects(l)[kind]) : v = [kind |-> kind, object |-> o]
      BY <2>1, VisitsProperties
    <2> QED
      BY <2>2 DEF Objects
  <1> QED
    BY <1>1, AuthorsFound DEF AuthorMessages

\* The institutions of a line that are not empty.
LEMMA InstitutionsFound ==
  ASSUME NEW l \in Lines
  PROVE  ToSet(FoundInstitutions(<< l >>)) = { o \in ToSet(InstitutionObjects(l)) : ~ IsInstitutionEmpty(o) }
  <1> DEFINE objects == InstitutionObjects(l)
             K == { k \in DOMAIN objects : ~ IsInstitutionEmpty(objects[k]) }
  <1>1. FoundInstitutions(<< l >>) = Selected(objects, K)
    <2>1. [ k \in DOMAIN << l >> |-> InstitutionObjects(<< l >>[k]) ] = << objects >>
      OBVIOUS
    <2> QED
      BY <2>1, FlattenSingle DEF FoundInstitutions, NonEmptyInstitutions
  <1>2. K \in SUBSET Int /\ IsFiniteSet(K)
    BY LineSequences, DomainFinite
  <1>3. ToSet(Selected(objects, K)) = { objects[k] : k \in K }
    <2> HIDE DEF K, objects
    <2> QED
      BY <1>2, SelectedProperties
  <1> QED
    BY <1>1, <1>3 DEF ToSet

\* An institution that is visited is one of them, unless empty.
LEMMA InstitutionVisited ==
  ASSUME NEW l \in Lines, NEW v \in VisitsOf(l), v.kind = "institution"
  PROVE  ~ IsInstitutionEmpty(v.object) => InstitutionMessage(v.object) \in InstitutionMessages
  <1>1. v.object \in ToSet(InstitutionObjects(l))
    <2>1. PICK kind \in Kinds : v \in ToSet(Visits(l, kind))
      BY DEF VisitsOf
    <2>2. PICK o \in ToSet(Objects(l)[kind]) : v = [kind |-> kind, object |-> o]
      BY <2>1, VisitsProperties
    <2> QED
      BY <2>2 DEF Objects
  <1> QED
    BY <1>1, InstitutionsFound DEF InstitutionMessages

-----------------------------------------------------------------------------
(* Types. *)

LEMMA NothingType == Nothing \in Results /\ Sizes(Nothing) \in Counts
  BY DEF Nothing, Results, Sizes, Counts

\* The sizes of results are counts.
LEMMA SizesType ==
  ASSUME NEW r \in Results
  PROVE  Sizes(r) \in Counts
  BY DEF Results, Sizes, Counts

\* Results joined are results.
LEMMA JoinedType ==
  ASSUME NEW r \in Results, NEW s \in Results
  PROVE  /\ Joined(r, s) \in Results
         /\ Joined(r, s).authors = r.authors \o s.authors
         /\ Joined(r, s).institutions = r.institutions \o s.institutions
         /\ Joined(r, s).works = r.works \o s.works
  <1>1. r = [authors |-> r.authors, institutions |-> r.institutions, works |-> r.works]
    BY DEF Results
  <1>2. DOMAIN r = {"authors", "institutions", "works"}
    BY <1>1
  <1>4. Joined(r, s) = [ k \in {"authors", "institutions", "works"} |-> r[k] \o s[k] ]
    BY <1>2 DEF Joined
  <1>3. /\ r.authors \o s.authors \in Seq(AuthorMessages)
        /\ r.institutions \o s.institutions \in Seq(InstitutionMessages)
        /\ r.works \o s.works \in Seq(WorkMessages)
    BY DEF Results
  <1> QED
    BY <1>3, <1>4 DEF Results

\* One field changes.
LEMMA AuthorsUpdate ==
  ASSUME NEW r \in Results, NEW m \in AuthorMessages
  PROVE  LET u == [r EXCEPT !.authors = Append(@, m)] IN
         /\ u \in Results
         /\ u.authors = Append(r.authors, m)
         /\ u.institutions = r.institutions /\ u.works = r.works
  <1>1. Append(r.authors, m) \in Seq(AuthorMessages)
    BY DEF Results
  <1> DEFINE ms == Append(r.authors, m)
  <1> HIDE DEF ms
  <1>2. /\ [r EXCEPT !.authors = ms] \in Results
        /\ [r EXCEPT !.authors = ms].authors = ms
        /\ [r EXCEPT !.authors = ms].institutions = r.institutions
        /\ [r EXCEPT !.authors = ms].works = r.works
    BY <1>1 DEF Results, ms
  <1> QED
    BY <1>2 DEF ms

\* What appending to one of the three results leaves alone.
LEMMA InstitutionsUpdate ==
  ASSUME NEW r \in Results, NEW m \in InstitutionMessages
  PROVE  LET u == [r EXCEPT !.institutions = Append(@, m)] IN
         /\ u \in Results
         /\ u.institutions = Append(r.institutions, m)
         /\ u.authors = r.authors /\ u.works = r.works
  <1>1. Append(r.institutions, m) \in Seq(InstitutionMessages)
    BY DEF Results
  <1> DEFINE ms == Append(r.institutions, m)
  <1> HIDE DEF ms
  <1>2. /\ [r EXCEPT !.institutions = ms] \in Results
        /\ [r EXCEPT !.institutions = ms].institutions = ms
        /\ [r EXCEPT !.institutions = ms].authors = r.authors
        /\ [r EXCEPT !.institutions = ms].works = r.works
    BY <1>1 DEF Results, ms
  <1> QED
    BY <1>2 DEF ms

LEMMA WorksUpdate ==
  ASSUME NEW r \in Results, NEW m \in WorkMessages
  PROVE  LET u == [r EXCEPT !.works = << m >>] IN
         /\ u \in Results
         /\ u.works = << m >>
         /\ u.authors = r.authors /\ u.institutions = r.institutions
  <1>1. << m >> \in Seq(WorkMessages)
    OBVIOUS
  <1> DEFINE ms == << m >>
  <1> HIDE DEF ms
  <1>2. /\ [r EXCEPT !.works = ms] \in Results
        /\ [r EXCEPT !.works = ms].works = ms
        /\ [r EXCEPT !.works = ms].authors = r.authors
        /\ [r EXCEPT !.works = ms].institutions = r.institutions
    BY <1>1 DEF Results, ms
  <1> QED
    BY <1>2 DEF ms

\* ProcessLine works on a line, and leaves nothing behind.
Busy ==
  /\ status = "extract" => line \in Lines /\ todo \in Seq(VisitsOf(line))
  /\ status # "extract" => todo = << >> /\ extracted = Nothing

TypeInv == TypeOK /\ Busy

LEMMA InitTyped == Init => TypeInv
  BY NothingType, MaxLinesAssumption DEF Init, TypeInv, TypeOK, Busy, NoLine

\* One more visit of the line.
LEMMA VisitTyped ==
  ASSUME TypeInv, NEW kind, Visiting(kind)
  PROVE  /\ line \in Lines /\ todo \in Seq(VisitsOf(line)) /\ todo # << >>
         /\ Head(todo) \in VisitsOf(line) /\ Head(todo).kind = kind
         /\ Tail(todo) \in Seq(VisitsOf(line))
  BY DEF TypeInv, Busy, Visiting

\* What each step makes of the types and the visits.
LEMMA ReadLineTyped ==
  ASSUME TypeInv, NEW l \in Lines, ReadLine(l)
  PROVE  TypeInv'
  <1>1. todo' \in Seq(VisitsOf(l))
    BY TodoProperties DEF ReadLine
  <1>2. TypeOK'
    BY DEF TypeInv, TypeOK, ReadLine, results, history
  <1> QED
    BY <1>1, <1>2 DEF TypeInv, Busy, ReadLine

LEMMA VisitAuthorTyped ==
  ASSUME TypeInv, VisitAuthor
  PROVE  TypeInv'
  <1> DEFINE o == Head(todo).object
  <1>1. /\ line \in Lines /\ Head(todo) \in VisitsOf(line) /\ Head(todo).kind = "author"
        /\ Tail(todo) \in Seq(VisitsOf(line))
    BY VisitTyped DEF VisitAuthor
  <1>2. ~ IsAuthorEmpty(o) => AuthorMessage(o) \in AuthorMessages
    BY <1>1, AuthorVisited
  <1>3. extracted' \in Results
    <2>1. CASE NewAuthor(o) /\ extracted' =
                 [extracted EXCEPT !.authors = Append(@, AuthorMessage(o))]
      <3>1. AuthorMessage(o) \in AuthorMessages
        BY <1>2, <2>1 DEF NewAuthor
      <3> QED
        BY <2>1, <3>1, AuthorsUpdate DEF TypeInv, TypeOK
    <2>2. CASE UNCHANGED extracted
      BY <2>2 DEF TypeInv, TypeOK
    <2> QED
      BY <2>1, <2>2 DEF VisitAuthor
  <1>4. TypeOK'
    BY <1>3 DEF TypeInv, TypeOK, VisitAuthor, history
  <1> QED
    BY <1>1, <1>4 DEF TypeInv, Busy, VisitAuthor, Visiting

LEMMA VisitInstitutionTyped ==
  ASSUME TypeInv, VisitInstitution
  PROVE  TypeInv'
  <1> DEFINE o == Head(todo).object
  <1>1. /\ line \in Lines /\ Head(todo) \in VisitsOf(line)
        /\ Head(todo).kind = "institution" /\ Tail(todo) \in Seq(VisitsOf(line))
    BY VisitTyped DEF VisitInstitution
  <1>2. ~ IsInstitutionEmpty(o) => InstitutionMessage(o) \in InstitutionMessages
    BY <1>1, InstitutionVisited
  <1>3. extracted' \in Results
    <2>1. CASE NewInstitution(o) /\ extracted' =
                 [extracted EXCEPT !.institutions = Append(@, InstitutionMessage(o))]
      <3>1. InstitutionMessage(o) \in InstitutionMessages
        BY <1>2, <2>1 DEF NewInstitution
      <3> QED
        BY <2>1, <3>1, InstitutionsUpdate DEF TypeInv, TypeOK
    <2>2. CASE UNCHANGED extracted
      BY <2>2 DEF TypeInv, TypeOK
    <2> QED
      BY <2>1, <2>2 DEF VisitInstitution
  <1>4. TypeOK'
    BY <1>3 DEF TypeInv, TypeOK, VisitInstitution, history
  <1> QED
    BY <1>1, <1>4 DEF TypeInv, Busy, VisitInstitution, Visiting

LEMMA ExtractWorkTyped ==
  ASSUME TypeInv, ExtractWork
  PROVE  TypeInv'
  <1>1. line \in Lines /\ Tail(todo) \in Seq(VisitsOf(line))
    BY VisitTyped DEF ExtractWork
  <1>2. WorkOf(line) \in WorkMessages
    BY <1>1 DEF WorkMessages, ExtractWork
  <1>3. extracted' \in Results
    BY <1>2, WorksUpdate DEF TypeInv, TypeOK, ExtractWork
  <1>4. TypeOK'
    BY <1>3 DEF TypeInv, TypeOK, ExtractWork, history
  <1> QED
    BY <1>1, <1>4 DEF TypeInv, Busy, ExtractWork, Visiting

LEMMA ThrowTyped ==
  ASSUME TypeInv, Throw
  PROVE  TypeInv'
  BY NothingType DEF TypeInv, TypeOK, Busy, Throw

LEMMA LineDoneTyped ==
  ASSUME TypeInv, LineDone
  PROVE  TypeInv'
  <1>1. line \in Lines /\ extracted \in Results /\ snapshot' \in Seq(Lines)
    BY DEF TypeInv, TypeOK, Busy, LineDone
  <1>2. gathered' \in Results /\ delivered' \in Results /\ counts' \in Counts
    <2>1. CASE KeepLine
      BY <1>1, <2>1, JoinedType DEF TypeInv, TypeOK, KeepLine
    <2>2. CASE StreamLine
      <3>1. delivered' \in Results
        BY <1>1, <2>2, JoinedType DEF TypeInv, TypeOK, StreamLine, Delivery
      <3>2. counts \in Counts
        BY DEF TypeInv, TypeOK
      <3>3. counts' \in Counts
        BY <1>1, <2>2, <3>2 DEF StreamLine, Counts, Results
      <3> QED
        BY <2>2, <3>1, <3>3 DEF TypeInv, TypeOK, StreamLine
    <2> QED
      BY <2>1, <2>2 DEF LineDone
  <1>3. extracted' = Nothing /\ todo' = << >> /\ status' = "lines"
    BY DEF LineDone
  <1>4. TypeOK'
    BY <1>1, <1>2, <1>3, NothingType DEF TypeInv, TypeOK, LineDone
  <1> QED
    BY <1>3, <1>4 DEF TypeInv, Busy

LEMMA ReturnTyped ==
  ASSUME TypeInv, Return
  PROVE  TypeInv'
  <1>1. delivered' \in Results
    BY JoinedType DEF TypeInv, TypeOK, Return, Delivery
  <1> QED
    BY <1>1, NothingType DEF TypeInv, TypeOK, Busy, Return

LEMMA CallAgainTyped ==
  ASSUME TypeInv, CallAgain
  PROVE  TypeInv'
  <1>1. counts' \in Counts /\ before'.sizes \in Counts
    BY NothingType, SizesType DEF TypeInv, TypeOK, CallAgain
  <1>2. call' \in DOMAIN MaxLines
    BY MaxLinesAssumption DEF TypeInv, TypeOK, CallAgain
  <1> QED
    BY <1>1, <1>2 DEF TypeInv, TypeOK, Busy, CallAgain

LEMMA StutterTyped ==
  ASSUME TypeInv, UNCHANGED vars
  PROVE  TypeInv'
  BY DEF TypeInv, TypeOK, Busy, vars, results, history

LEMMA NextTyped == TypeInv /\ [Next]_vars => TypeInv'
  BY ReadLineTyped, VisitAuthorTyped, VisitInstitutionTyped, ExtractWorkTyped, ThrowTyped,
     LineDoneTyped, ReturnTyped, CallAgainTyped, StutterTyped DEF Next

\* Every message made is the message of an object, or the work, of a line, whatever
\* is returned, thrown away or written.
THEOREM TypeCorrect == Spec => []TypeOK
  <1>1. TypeInv => TypeOK
    BY DEF TypeInv
  <1> QED
    BY <1>1, InitTyped, NextTyped, PTL DEF Spec

-----------------------------------------------------------------------------
(* What becomes of an id. *)

\* The ids of messages, and that none occurs twice.
IdSet(ms) == { m["openalex_id"] : m \in ToSet(ms) }
Unique(ms) == \A j, k \in DOMAIN ms : ms[j]["openalex_id"] = ms[k]["openalex_id"] => j = k

Distinct(r) ==
  Unique(r.authors) /\ Unique(r.institutions) /\ IdSet(r.authors) \cap IdSet(r.institutions) = {}

\* Every id is in one place, and there once.
Accounted ==
  /\ Distinct(delivered) /\ Distinct(gathered) /\ Distinct(extracted)
  /\ IdsOf(delivered) \cap IdsOf(gathered) = {}
  /\ IdsOf(delivered) \cap IdsOf(extracted) = {}
  /\ IdsOf(gathered) \cap IdsOf(extracted) = {}
  /\ SeenAccounted

AccountInv == TypeInv /\ Accounted

\* The ids of messages are those of their objects.
LEMMA MessageIds ==
  ASSUME NEW o
  PROVE  /\ AuthorMessage(o)["openalex_id"] = GetAuthorId(o)
         /\ InstitutionMessage(o)["openalex_id"] = GetInstitutionId(o)
  BY DEF AuthorMessage, InstitutionMessage

\* Sequences without repeats that grow by what they do not hold.
LEMMA UniqueAppend ==
  ASSUME NEW S, NEW ms \in Seq(S), NEW m \in S, Unique(ms), m["openalex_id"] \notin IdSet(ms)
  PROVE  /\ Unique(Append(ms, m))
         /\ IdSet(Append(ms, m)) = IdSet(ms) \cup {m["openalex_id"]}
  <1>1. /\ DOMAIN ms = 1 .. Len(ms) /\ Len(ms) \in Nat
        /\ DOMAIN Append(ms, m) = 1 .. Len(ms) + 1
        /\ \A k \in 1 .. Len(ms) : Append(ms, m)[k] = ms[k]
        /\ Append(ms, m)[Len(ms) + 1] = m
    OBVIOUS
  <1>2. 1 .. Len(ms) + 1 = (1 .. Len(ms)) \cup {Len(ms) + 1}
    BY <1>1
  <1>3. IdSet(ms) = { ms[k]["openalex_id"] : k \in 1 .. Len(ms) }
    BY <1>1 DEF IdSet, ToSet
  <1>4. IdSet(Append(ms, m)) = IdSet(ms) \cup {m["openalex_id"]}
    <2>1. ToSet(Append(ms, m)) = ToSet(ms) \cup {m}
      BY <1>1, <1>2 DEF ToSet
    <2> QED
      BY <2>1 DEF IdSet
  <1>5. Unique(Append(ms, m))
    BY <1>1, <1>2, <1>3 DEF Unique
  <1> QED
    BY <1>4, <1>5

LEMMA UniqueConcat ==
  ASSUME NEW S, NEW ms \in Seq(S), NEW ns \in Seq(S),
         Unique(ms), Unique(ns), IdSet(ms) \cap IdSet(ns) = {}
  PROVE  Unique(ms \o ns) /\ IdSet(ms \o ns) = IdSet(ms) \cup IdSet(ns)
  <1>1. ToSet(ms \o ns) = ToSet(ms) \cup ToSet(ns)
    BY ConcatElements
  <1>2. IdSet(ms \o ns) = IdSet(ms) \cup IdSet(ns)
    BY <1>1 DEF IdSet
  <1> DEFINE N == Len(ms)
             cs == ms \o ns
  <1>3. /\ N \in Nat /\ Len(ns) \in Nat
        /\ DOMAIN ms = 1 .. N /\ DOMAIN ns = 1 .. Len(ns)
        /\ DOMAIN cs = 1 .. N + Len(ns)
        /\ \A k \in 1 .. N : cs[k] = ms[k]
        /\ \A k \in 1 .. N + Len(ns) : k \notin 1 .. N => cs[k] = ns[k - N]
    OBVIOUS
  <1>4. \A k \in 1 .. N + Len(ns) : k \in 1 .. N \/ k - N \in 1 .. Len(ns)
    BY <1>3
  <1>5. \A j \in 1 .. N, k \in 1 .. Len(ns) : ms[j]["openalex_id"] # ns[k]["openalex_id"]
    BY <1>3 DEF IdSet, ToSet
  <1> HIDE DEF N, cs
  <1>6. ASSUME NEW j \in DOMAIN cs, NEW k \in DOMAIN cs,
               cs[j]["openalex_id"] = cs[k]["openalex_id"]
        PROVE  j = k
    <2>1. CASE j \in 1 .. N /\ k \in 1 .. N
      BY <1>3, <1>6, <2>1 DEF Unique
    <2>2. CASE j \notin 1 .. N /\ k \notin 1 .. N
      <3>1. j - N \in DOMAIN ns /\ k - N \in DOMAIN ns
        BY <1>3, <1>4, <2>2
      <3>2. cs[j] = ns[j - N] /\ cs[k] = ns[k - N]
        BY <1>3, <2>2
      <3>3. j - N = k - N
        BY <1>6, <3>1, <3>2 DEF Unique
      <3> QED
        BY <1>3, <3>3
    <2>3. CASE j \in 1 .. N /\ k \notin 1 .. N
      BY <1>3, <1>4, <1>5, <1>6, <2>3
    <2>4. CASE j \notin 1 .. N /\ k \in 1 .. N
      BY <1>3, <1>4, <1>5, <1>6, <2>4
    <2> QED
      BY <2>1, <2>2, <2>3, <2>4
  <1> QED
    BY <1>2, <1>6 DEF Unique, cs

\* Two such sequences without common elements make an injective one.
LEMMA UniqueInjective ==
  ASSUME NEW S, NEW ms \in Seq(S), NEW T, NEW ns \in Seq(T),
         Unique(ms), Unique(ns), IdSet(ms) \cap IdSet(ns) = {}
  PROVE  IsInjective(IdSequence(ms) \o IdSequence(ns))
  <1> DEFINE V == IdSet(ms) \cup IdSet(ns)
             a == IdSequence(ms)
             b == IdSequence(ns)
             c == a \o b
  <1>1. /\ DOMAIN ms = 1 .. Len(ms) /\ Len(ms) \in Nat
        /\ DOMAIN ns = 1 .. Len(ns) /\ Len(ns) \in Nat
    OBVIOUS
  <1>2. /\ a \in [1 .. Len(ms) -> V] /\ b \in [1 .. Len(ns) -> V]
        /\ \A k \in 1 .. Len(ms) : a[k] \in IdSet(ms)
        /\ \A k \in 1 .. Len(ns) : b[k] \in IdSet(ns)
        /\ \A j, k \in 1 .. Len(ms) : a[j] = a[k] => j = k
        /\ \A j, k \in 1 .. Len(ns) : b[j] = b[k] => j = k
    BY <1>1 DEF IdSequence, IdSet, ToSet, Unique
  <1> HIDE DEF V, a, b
  <1>3. a \in Seq(V) /\ Len(a) = Len(ms)
    <2>1. a \in [1 .. Len(ms) -> V]
      BY <1>2
    <2> QED
      BY <1>1, <2>1
  <1> DEFINE N == Len(ms)
  <1>4. /\ DOMAIN c = 1 .. N + Len(ns)
        /\ \A k \in 1 .. N : c[k] = a[k]
        /\ \A k \in 1 .. N + Len(ns) : k \notin 1 .. N => c[k] = b[k - N]
    <2>1. b \in Seq(V) /\ Len(b) = Len(ns)
      <3>1. b \in [1 .. Len(ns) -> V]
        BY <1>2
      <3> QED
        BY <1>1, <3>1
    <2>2. /\ DOMAIN c = 1 .. Len(a) + Len(b)
          /\ \A k \in 1 .. Len(a) : c[k] = a[k]
          /\ \A k \in 1 .. Len(a) + Len(b) : k \notin 1 .. Len(a) => c[k] = b[k - Len(a)]
      BY <1>3, <2>1
    <2> QED
      BY <1>3, <2>1, <2>2
  <1>5. \A k \in 1 .. N + Len(ns) : k \in 1 .. N \/ k - N \in 1 .. Len(ns)
    BY <1>1
  <1> HIDE DEF c
  <1>6. ASSUME NEW j \in DOMAIN c, NEW k \in DOMAIN c, c[j] = c[k]
        PROVE  j = k
    <2>1. CASE j \in 1 .. N /\ k \in 1 .. N
      BY <1>2, <1>4, <1>6, <2>1
    <2>2. CASE j \notin 1 .. N /\ k \notin 1 .. N
      <3>1. j - N \in 1 .. Len(ns) /\ k - N \in 1 .. Len(ns)
        BY <1>4, <1>5, <2>2
      <3>2. c[j] = b[j - N] /\ c[k] = b[k - N]
        BY <1>4, <2>2
      <3>3. j - N = k - N
        BY <1>2, <1>6, <3>1, <3>2
      <3> QED
        BY <1>1, <1>4, <3>3
    <2>3. CASE j \in 1 .. N /\ k \notin 1 .. N
      <3>1. c[j] \in IdSet(ms) /\ c[k] \in IdSet(ns)
        BY <1>2, <1>4, <1>5, <2>3
      <3> QED
        BY <1>6, <3>1
    <2>4. CASE j \notin 1 .. N /\ k \in 1 .. N
      <3>1. c[k] \in IdSet(ms) /\ c[j] \in IdSet(ns)
        BY <1>2, <1>4, <1>5, <2>4
      <3> QED
        BY <1>6, <3>1
    <2> QED
      BY <2>1, <2>2, <2>3, <2>4
  <1> QED
    BY <1>6 DEF IsInjective, c, a, b

\* What Distinct is for.
LEMMA DistinctInjective ==
  ASSUME NEW r \in Results, Distinct(r)
  PROVE  IsInjective(IdSequence(r.authors) \o IdSequence(r.institutions))
  <1>1. r.authors \in Seq(AuthorMessages) /\ r.institutions \in Seq(InstitutionMessages)
    BY DEF Results
  <1> QED
    BY <1>1, UniqueInjective DEF Distinct

\* The ids of results by kind.
LEMMA IdsOfSets ==
  ASSUME NEW r
  PROVE  IdsOf(r) = IdSet(r.authors) \cup IdSet(r.institutions)
  BY DEF IdsOf, IdSet

LEMMA NothingDistinct == Distinct(Nothing) /\ IdsOf(Nothing) = {}
  BY DEF Nothing, Distinct, Unique, IdSet, IdsOf, ToSet

\* Two results without a common id.
LEMMA JoinedDistinct ==
  ASSUME NEW r \in Results, NEW s \in Results,
         Distinct(r), Distinct(s), IdsOf(r) \cap IdsOf(s) = {}
  PROVE  Distinct(Joined(r, s)) /\ IdsOf(Joined(r, s)) = IdsOf(r) \cup IdsOf(s)
  <1> DEFINE u == Joined(r, s)
  <1>1. u.authors = r.authors \o s.authors /\ u.institutions = r.institutions \o s.institutions
    BY JoinedType
  <1> HIDE DEF u
  <1>2. /\ IdSet(r.authors) \cap IdSet(s.authors) = {}
        /\ IdSet(r.authors) \cap IdSet(s.institutions) = {}
        /\ IdSet(r.institutions) \cap IdSet(s.authors) = {}
        /\ IdSet(r.institutions) \cap IdSet(s.institutions) = {}
    BY IdsOfSets
  <1>3. Unique(u.authors) /\ IdSet(u.authors) = IdSet(r.authors) \cup IdSet(s.authors)
    <2>1. r.authors \in Seq(AuthorMessages) /\ s.authors \in Seq(AuthorMessages)
      BY DEF Results
    <2> QED
      BY <1>1, <1>2, <2>1, UniqueConcat DEF Distinct
  <1>4. /\ Unique(u.institutions)
        /\ IdSet(u.institutions) = IdSet(r.institutions) \cup IdSet(s.institutions)
    <2>1. /\ r.institutions \in Seq(InstitutionMessages)
          /\ s.institutions \in Seq(InstitutionMessages)
      BY DEF Results
    <2> QED
      BY <1>1, <1>2, <2>1, UniqueConcat DEF Distinct
  <1>5. IdSet(u.authors) \cap IdSet(u.institutions) = {}
    BY <1>2, <1>3, <1>4 DEF Distinct
  <1>6. IdsOf(u) = IdsOf(r) \cup IdsOf(s)
    BY <1>3, <1>4, IdsOfSets
  <1> QED
    BY <1>3, <1>4, <1>5, <1>6 DEF Distinct, u

\* A step that leaves the results and the ids alone.
LEMMA SameAccounted ==
  ASSUME AccountInv,
         UNCHANGED << delivered, gathered, extracted, seen_ids_, lost >>
  PROVE  Accounted'
  BY DEF AccountInv, Accounted, SeenAccounted, Distinct, Unique, IdSet, IdsOf

\* What each step makes of the ids that have been seen.
LEMMA InitAccounted == Init => AccountInv
  <1> SUFFICES ASSUME Init PROVE AccountInv
    OBVIOUS
  <1>1. delivered = Nothing /\ gathered = Nothing /\ extracted = Nothing
    BY DEF Init
  <1>2. SeenAccounted
    BY <1>1, NothingDistinct DEF SeenAccounted, Init
  <1>3. Accounted
    BY <1>1, <1>2, NothingDistinct DEF Accounted
  <1> QED
    BY <1>3, InitTyped DEF AccountInv

\* A message with an id that has not been seen is extracted.
LEMMA ExtractedAccounted ==
  ASSUME AccountInv, NEW id, id \notin seen_ids_, Remember(id),
         Distinct(extracted'), IdsOf(extracted') = IdsOf(extracted) \cup {id},
         UNCHANGED << gathered, delivered, lost >>
  PROVE  Accounted'
  <1>1. /\ id \notin IdsOf(delivered) /\ id \notin IdsOf(gathered)
        /\ id \notin IdsOf(extracted) /\ id \notin lost
    BY DEF AccountInv, Accounted, SeenAccounted
  <1>2. IdsOf(delivered)' = IdsOf(delivered) /\ IdsOf(gathered)' = IdsOf(gathered)
    OBVIOUS
  <1>3. Distinct(delivered)' /\ Distinct(gathered)'
    BY DEF AccountInv, Accounted
  <1>4. SeenAccounted'
    BY <1>1, <1>2 DEF AccountInv, Accounted, SeenAccounted, Remember
  <1> QED
    BY <1>1, <1>2, <1>3, <1>4 DEF AccountInv, Accounted

LEMMA VisitAuthorAccounted ==
  ASSUME AccountInv, VisitAuthor
  PROVE  Accounted'
  <1> DEFINE o == Head(todo).object
             id == GetAuthorId(o)
             m == AuthorMessage(o)
  <1>1. CASE NewAuthor(o) /\ Remember(id)
             /\ extracted' = [extracted EXCEPT !.authors = Append(@, m)]
    <2>1. m \in AuthorMessages
      <3>1. line \in Lines /\ Head(todo) \in VisitsOf(line) /\ Head(todo).kind = "author"
        BY VisitTyped DEF AccountInv, VisitAuthor
      <3> QED
        BY <1>1, <3>1, AuthorVisited DEF NewAuthor
    <2>2. extracted \in Results /\ extracted.authors \in Seq(AuthorMessages)
      BY DEF AccountInv, TypeInv, TypeOK, Results
    <2>3. id \notin seen_ids_ /\ m["openalex_id"] = id
      BY <1>1, MessageIds DEF NewAuthor
    <2>4. id \notin IdSet(extracted.authors) /\ id \notin IdSet(extracted.institutions)
      BY <2>3, IdsOfSets DEF AccountInv, Accounted, SeenAccounted
    <2>5. /\ Unique(Append(extracted.authors, m))
          /\ IdSet(Append(extracted.authors, m)) = IdSet(extracted.authors) \cup {id}
      <3> HIDE DEF m, id
      <3> QED
        BY <2>1, <2>2, <2>3, <2>4, UniqueAppend DEF AccountInv, Accounted, Distinct
    <2>6. /\ extracted'.authors = Append(extracted.authors, m)
          /\ extracted'.institutions = extracted.institutions
      <3> HIDE DEF m
      <3> QED
        BY <1>1, <2>1, <2>2, AuthorsUpdate
    <2>7. Distinct(extracted')
      BY <2>4, <2>5, <2>6 DEF AccountInv, Accounted, Distinct
    <2>8. IdsOf(extracted') = IdsOf(extracted) \cup {id}
      BY <2>5, <2>6, IdsOfSets
    <2> QED
      BY <1>1, <2>3, <2>7, <2>8, ExtractedAccounted DEF VisitAuthor, history
  <1>2. CASE UNCHANGED << seen_ids_, extracted >>
    BY <1>2, SameAccounted DEF VisitAuthor, history
  <1> QED
    BY <1>1, <1>2 DEF VisitAuthor

LEMMA VisitInstitutionAccounted ==
  ASSUME AccountInv, VisitInstitution
  PROVE  Accounted'
  <1> DEFINE o == Head(todo).object
             id == GetInstitutionId(o)
             m == InstitutionMessage(o)
  <1>1. CASE NewInstitution(o) /\ Remember(id)
             /\ extracted' = [extracted EXCEPT !.institutions = Append(@, m)]
    <2>1. m \in InstitutionMessages
      <3>1. /\ line \in Lines /\ Head(todo) \in VisitsOf(line)
            /\ Head(todo).kind = "institution"
        BY VisitTyped DEF AccountInv, VisitInstitution
      <3> QED
        BY <1>1, <3>1, InstitutionVisited DEF NewInstitution
    <2>2. extracted \in Results /\ extracted.institutions \in Seq(InstitutionMessages)
      BY DEF AccountInv, TypeInv, TypeOK, Results
    <2>3. id \notin seen_ids_ /\ m["openalex_id"] = id
      BY <1>1, MessageIds DEF NewInstitution
    <2>4. id \notin IdSet(extracted.authors) /\ id \notin IdSet(extracted.institutions)
      BY <2>3, IdsOfSets DEF AccountInv, Accounted, SeenAccounted
    <2>5. /\ Unique(Append(extracted.institutions, m))
          /\ IdSet(Append(extracted.institutions, m))
               = IdSet(extracted.institutions) \cup {id}
      <3> HIDE DEF m, id
      <3> QED
        BY <2>1, <2>2, <2>3, <2>4, UniqueAppend DEF AccountInv, Accounted, Distinct
    <2>6. /\ extracted'.institutions = Append(extracted.institutions, m)
          /\ extracted'.authors = extracted.authors
      <3> HIDE DEF m
      <3> QED
        BY <1>1, <2>1, <2>2, InstitutionsUpdate
    <2>7. Distinct(extracted')
      BY <2>4, <2>5, <2>6 DEF AccountInv, Accounted, Distinct
    <2>8. IdsOf(extracted') = IdsOf(extracted) \cup {id}
      BY <2>5, <2>6, IdsOfSets
    <2> QED
      BY <1>1, <2>3, <2>7, <2>8, ExtractedAccounted DEF VisitInstitution, history
  <1>2. CASE UNCHANGED << seen_ids_, extracted >>
    BY <1>2, SameAccounted DEF VisitInstitution, history
  <1> QED
    BY <1>1, <1>2 DEF VisitInstitution

LEMMA ExtractWorkAccounted ==
  ASSUME AccountInv, ExtractWork
  PROVE  Accounted'
  <1>1. extracted \in Results /\ line \in Lines
    BY VisitTyped DEF AccountInv, TypeInv, TypeOK, ExtractWork
  <1>2. WorkOf(line) \in WorkMessages
    BY <1>1 DEF WorkMessages, ExtractWork
  <1>3. extracted'.authors = extracted.authors /\ extracted'.institutions = extracted.institutions
    BY <1>1, <1>2, WorksUpdate DEF ExtractWork
  <1>4. IdsOf(extracted)' = IdsOf(extracted) /\ Distinct(extracted)'
    BY <1>3 DEF AccountInv, Accounted, IdsOf, Distinct
  <1>5. UNCHANGED << delivered, gathered, seen_ids_, lost >>
    BY DEF ExtractWork, history
  <1>6. /\ IdsOf(delivered)' = IdsOf(delivered) /\ Distinct(delivered)'
        /\ IdsOf(gathered)' = IdsOf(gathered) /\ Distinct(gathered)'
    BY <1>5 DEF AccountInv, Accounted
  <1> QED
    BY <1>4, <1>5, <1>6 DEF AccountInv, Accounted, SeenAccounted

\* What is in memory is lost, and known to be.
LEMMA ThrowAccounted ==
  ASSUME AccountInv, Throw
  PROVE  Accounted'
  <1>1. /\ extracted' = Nothing /\ gathered' = Nothing /\ delivered' = delivered
        /\ seen_ids_' = seen_ids_ /\ lost' = lost \cup IdsOf(extracted) \cup IdsOf(gathered)
    BY DEF Throw
  <1>2. /\ IdsOf(extracted)' = {} /\ IdsOf(gathered)' = {}
        /\ Distinct(extracted)' /\ Distinct(gathered)'
    BY <1>1, NothingDistinct
  <1>3. IdsOf(delivered)' = IdsOf(delivered) /\ Distinct(delivered)'
    BY <1>1 DEF AccountInv, Accounted
  <1>4. SeenAccounted'
    BY <1>1, <1>2, <1>3 DEF AccountInv, Accounted, SeenAccounted
  <1> QED
    BY <1>2, <1>3, <1>4 DEF AccountInv, Accounted

LEMMA LineDoneAccounted ==
  ASSUME AccountInv, LineDone
  PROVE  Accounted'
  <1>1. extracted' = Nothing /\ seen_ids_' = seen_ids_ /\ lost' = lost
    BY DEF LineDone
  <1>2. IdsOf(extracted)' = {} /\ Distinct(extracted)'
    BY <1>1, NothingDistinct
  <1>3. extracted \in Results /\ gathered \in Results /\ delivered \in Results
    BY DEF AccountInv, TypeInv, TypeOK
  <1>4. CASE KeepLine
    <2>1. Distinct(gathered)' /\ IdsOf(gathered)' = IdsOf(gathered) \cup IdsOf(extracted)
      BY <1>3, <1>4, JoinedDistinct DEF KeepLine, AccountInv, Accounted
    <2>2. Distinct(delivered)' /\ IdsOf(delivered)' = IdsOf(delivered)
      BY <1>4 DEF KeepLine, AccountInv, Accounted
    <2>3. SeenAccounted'
      BY <1>1, <1>2, <2>1, <2>2 DEF AccountInv, Accounted, SeenAccounted
    <2> QED
      BY <1>2, <2>1, <2>2, <2>3 DEF AccountInv, Accounted
  <1>5. CASE StreamLine
    <2>1. Distinct(delivered)' /\ IdsOf(delivered)' = IdsOf(delivered) \cup IdsOf(extracted)
      BY <1>3, <1>5, JoinedDistinct DEF StreamLine, Delivery, AccountInv, Accounted
    <2>2. Distinct(gathered)' /\ IdsOf(gathered)' = IdsOf(gathered)
      BY <1>5 DEF StreamLine, AccountInv, Accounted
    <2>3. SeenAccounted'
      BY <1>1, <1>2, <2>1, <2>2 DEF AccountInv, Accounted, SeenAccounted
    <2> QED
      BY <1>2, <2>1, <2>2, <2>3 DEF AccountInv, Accounted
  <1> QED
    BY <1>4, <1>5 DEF LineDone

LEMMA ReturnAccounted ==
  ASSUME AccountInv, Return
  PROVE  Accounted'
  <1>1. /\ gathered' = Nothing /\ extracted' = extracted
        /\ seen_ids_' = seen_ids_ /\ lost' = lost
    BY DEF Return
  <1>2. /\ IdsOf(gathered)' = {} /\ Distinct(gathered)'
        /\ IdsOf(extracted)' = IdsOf(extracted) /\ Distinct(extracted)'
    BY <1>1, NothingDistinct DEF AccountInv, Accounted
  <1>3. gathered \in Results /\ delivered \in Results
    BY DEF AccountInv, TypeInv, TypeOK
  <1>4. Distinct(delivered)' /\ IdsOf(delivered)' = IdsOf(delivered) \cup IdsOf(gathered)
    BY <1>3, JoinedDistinct DEF Return, Delivery, AccountInv, Accounted
  <1>5. SeenAccounted'
    BY <1>1, <1>2, <1>4 DEF AccountInv, Accounted, SeenAccounted
  <1> QED
    BY <1>2, <1>4, <1>5 DEF AccountInv, Accounted

LEMMA NextAccounted == AccountInv /\ [Next]_vars => AccountInv'
  <1> SUFFICES ASSUME AccountInv, [Next]_vars PROVE AccountInv'
    OBVIOUS
  <1>1. TypeInv'
    BY NextTyped DEF AccountInv
  <1>2. ASSUME NEW l \in Lines, ReadLine(l) PROVE Accounted'
    BY <1>2, SameAccounted DEF ReadLine, results, history
  <1>3. ASSUME CallAgain PROVE Accounted'
    BY <1>3, SameAccounted DEF CallAgain
  <1>4. ASSUME UNCHANGED vars PROVE Accounted'
    BY <1>4, SameAccounted DEF vars, results, history
  <1>5. Accounted'
    BY <1>2, <1>3, <1>4, VisitAuthorAccounted, VisitInstitutionAccounted,
       ExtractWorkAccounted, ThrowAccounted, LineDoneAccounted, ReturnAccounted DEF Next
  <1> QED
    BY <1>1, <1>5 DEF AccountInv

\* An id marked as seen has a message somewhere or is among those an exception took.
THEOREM SeenCorrect == Spec => []SeenAccounted
  <1>1. AccountInv => SeenAccounted
    BY DEF AccountInv, Accounted
  <1> QED
    BY <1>1, InitAccounted, NextAccounted, PTL DEF Spec

\* Over all calls no id reaches the caller twice, as an author or an institution.
THEOREM OnceCorrect == Spec => []DeliveredOnce
  <1>1. AccountInv => DeliveredOnce
    BY DistinctInjective DEF AccountInv, TypeInv, TypeOK, Accounted, DeliveredOnce
  <1> QED
    BY <1>1, InitAccounted, NextAccounted, PTL DEF Spec

-----------------------------------------------------------------------------
(* What works refer to. *)

\* The author or the institution visited has been seen, unless it is empty.
Met(v) ==
  /\ v.kind = "author" /\ ~ IsAuthorEmpty(v.object) => GetAuthorId(v.object) \in seen_ids_
  /\ v.kind = "institution" /\ ~ IsInstitutionEmpty(v.object) =>
       GetInstitutionId(v.object) \in seen_ids_

RefsSeen(w) ==
  /\ ToSet(w.references.author_ids) \subseteq seen_ids_
  /\ ToSet(w.references.institution_ids) \subseteq seen_ids_

Covered(w, r, gone) ==
  /\ ToSet(w.references.author_ids) \subseteq IdSet(r.authors) \cup gone
  /\ ToSet(w.references.institution_ids) \subseteq IdSet(r.institutions) \cup gone

\* A line that has been processed has nothing but seen ids.
Resolving ==
  /\ streaming \/ status \in {"returned", "threw"} => gathered = Nothing
  /\ status = "extract" => \A v \in VisitsOf(line) : v \in ToSet(todo) \/ Met(v)
  /\ \A w \in ToSet(extracted.works) : w = WorkOf(line)
  /\ \A w \in ToSet(gathered.works) : RefsSeen(w)
  /\ \A w \in ToSet(delivered.works) : Covered(w, delivered, lost)

RefInv == AccountInv /\ Resolving

\* A work refers to authors and institutions of its line, which are not empty.
LEMMA LineReferences ==
  ASSUME NEW l \in Lines
  PROVE  /\ ToSet(References(l).author_ids)
              \subseteq { GetAuthorId(o) : o \in ToSet(FoundAuthors(<< l >>)) }
         /\ ToSet(References(l).institution_ids)
              \subseteq { GetInstitutionId(o) : o \in ToSet(FoundInstitutions(<< l >>)) }
  <1> DEFINE ships == l.authorships
             K == { k \in DOMAIN ships : ~ IsAuthorEmpty(ships[k].author) }
             sel == Selected(ships, K)
             N == Cardinality(K)
             kept == [authorships |-> sel]
  <1>1. IsSequence(ships) /\ \A k \in DOMAIN ships : IsSequence(ships[k].institutions)
    BY LinesAssumption
  <1>2. /\ K \in SUBSET Int /\ IsFiniteSet(K)
        /\ N \in Nat
    BY <1>1, DomainFinite, FS_CardinalityType
  <1>3. /\ DOMAIN sel = 1 .. N
        /\ \A n \in 1 .. N : \E k \in K : sel[n] = ships[k]
    <2> HIDE DEF K, ships
    <2> QED
      BY <1>2, AscendingProperties DEF Selected
  <1> HIDE DEF sel, N
  <1>4. References(l).author_ids = Ids(AuthorObjects(kept), GetAuthorId)
    BY DEF References, sel
  <1>5. ASSUME NEW n \in 1 .. N
        PROVE  sel[n].author \in ToSet(FoundAuthors(<< l >>))
    <2>1. PICK k \in K : sel[n] = ships[k]
      BY <1>3
    <2>2. ships[k].author \in ToSet(AuthorObjects(l)) /\ ~ IsAuthorEmpty(ships[k].author)
      BY DEF AuthorObjects, ToSet
    <2> QED
      BY <2>1, <2>2, AuthorsFound
  <1>6. ToSet(References(l).author_ids)
          \subseteq { GetAuthorId(o) : o \in ToSet(FoundAuthors(<< l >>)) }
    BY <1>3, <1>4, <1>5 DEF Ids, AuthorObjects, ToSet
  <1> DEFINE objects == InstitutionObjects(kept)
             L == { k \in DOMAIN objects : ~ IsInstitutionEmpty(objects[k]) }
             ids == Ids(NonEmptyInstitutions(objects), GetInstitutionId)
  <1>7. References(l).institution_ids = WithoutRepeats(ids)
    BY DEF References, sel
  <1>8. IsSequence(objects) /\ ToSet(objects) \subseteq ToSet(InstitutionObjects(l))
    <2>1. \A n \in 1 .. N : IsSequence(sel[n].institutions)
      BY <1>1, <1>3
    <2>2. objects = FlattenSeq([ k \in DOMAIN sel |-> sel[k].institutions ])
      BY DEF InstitutionObjects
    <2>3. /\ IsSequence(objects)
          /\ ToSet(objects) = UNION { ToSet(sel[n].institutions) : n \in 1 .. N }
      <3> HIDE DEF objects
      <3> QED
        BY <1>2, <1>3, <2>1, <2>2, InstitutionsOf
    <2>4. ASSUME NEW n \in 1 .. N
          PROVE  ToSet(sel[n].institutions) \subseteq ToSet(InstitutionObjects(l))
      <3>1. PICK k \in K : sel[n] = ships[k]
        BY <1>3
      <3> QED
        BY <3>1, LineSequences
    <2> HIDE DEF objects
    <2> QED
      BY <2>3, <2>4
  <1> HIDE DEF objects
  <1>9. /\ DOMAIN NonEmptyInstitutions(objects) = 1 .. Cardinality(L)
        /\ Cardinality(L) \in Nat
        /\ \A n \in 1 .. Cardinality(L) :
             NonEmptyInstitutions(objects)[n] \in ToSet(FoundInstitutions(<< l >>))
    <2>1. L \in SUBSET Int /\ IsFiniteSet(L)
      BY <1>8, DomainFinite
    <2>2. NonEmptyInstitutions(objects) = Selected(objects, L)
      BY DEF NonEmptyInstitutions
    <2>3. \A k \in L : objects[k] \in ToSet(FoundInstitutions(<< l >>))
      BY <1>8, InstitutionsFound DEF ToSet
    <2> HIDE DEF L
    <2>4. /\ Cardinality(L) \in Nat
          /\ \A n \in 1 .. Cardinality(L) : Ascending(L)[n] \in L
      BY <2>1, AscendingProperties
    <2>5. /\ DOMAIN Selected(objects, L) = 1 .. Cardinality(L)
          /\ \A n \in 1 .. Cardinality(L) : Selected(objects, L)[n] = objects[Ascending(L)[n]]
      BY DEF Selected
    <2> QED
      BY <2>2, <2>3, <2>4, <2>5
  <1>10. /\ DOMAIN ids = 1 .. Cardinality(L)
         /\ \A n \in 1 .. Cardinality(L) :
              ids[n] \in { GetInstitutionId(o) : o \in ToSet(FoundInstitutions(<< l >>)) }
    BY <1>9 DEF Ids
  <1> HIDE DEF ids, L
  <1>11. ToSet(WithoutRepeats(ids)) = { ids[k] : k \in FirstOccurrences(ids) }
    <2>1. FirstOccurrences(ids) \subseteq 1 .. Cardinality(L)
      BY <1>10 DEF FirstOccurrences
    <2>2. FirstOccurrences(ids) \in SUBSET Int /\ IsFiniteSet(FirstOccurrences(ids))
      <3>1. IsFiniteSet(1 .. Cardinality(L)) /\ 1 .. Cardinality(L) \in SUBSET Int
        BY <1>9, FS_Interval
      <3> QED
        BY <2>1, <3>1, FS_Subset
    <2> QED
      BY <2>2, SelectedProperties DEF WithoutRepeats
  <1>12. ToSet(References(l).institution_ids)
           \subseteq { GetInstitutionId(o) : o \in ToSet(FoundInstitutions(<< l >>)) }
    BY <1>7, <1>10, <1>11 DEF FirstOccurrences
  <1> QED
    BY <1>6, <1>12

\* Covered is ReferencesResolved, work by work.
LEMMA CoveredResolved ==
  ASSUME \A w \in ToSet(delivered.works) : Covered(w, delivered, lost)
  PROVE  ReferencesResolved
  <1>1. ASSUME NEW ms PROVE IdSet(ms) = ToSet(IdSequence(ms))
    BY DEF IdSet, IdSequence, ToSet
  <1> SUFFICES ASSUME NEW k \in DOMAIN delivered.works
               PROVE  LET work == delivered.works[k].references IN
                      /\ ToSet(work.author_ids)
                           \subseteq ToSet(IdSequence(delivered.authors)) \cup lost
                      /\ ToSet(work.institution_ids)
                           \subseteq ToSet(IdSequence(delivered.institutions)) \cup lost
    BY DEF ReferencesResolved
  <1>2. Covered(delivered.works[k], delivered, lost)
    BY DEF ToSet
  <1> QED
    BY <1>1, <1>2 DEF Covered

\* Messages and references are of objects of the lines.
LEMMA MessageIdsFound ==
  /\ \A m \in AuthorMessages : m["openalex_id"] \in AuthorIds(Lines)
  /\ \A m \in InstitutionMessages : m["openalex_id"] \in InstitutionIds(Lines)
  <1>1. ASSUME NEW m \in AuthorMessages PROVE m["openalex_id"] \in AuthorIds(Lines)
    <2>1. PICK l \in Lines : \E o \in ToSet(FoundAuthors(<< l >>)) : m = AuthorMessage(o)
      BY DEF AuthorMessages
    <2>2. PICK o \in ToSet(FoundAuthors(<< l >>)) : m = AuthorMessage(o)
      BY <2>1
    <2> QED
      BY <2>2, MessageIds DEF AuthorIds
  <1>2. ASSUME NEW m \in InstitutionMessages PROVE m["openalex_id"] \in InstitutionIds(Lines)
    <2>1. PICK l \in Lines : \E o \in ToSet(FoundInstitutions(<< l >>)) : m = InstitutionMessage(o)
      BY DEF InstitutionMessages
    <2>2. PICK o \in ToSet(FoundInstitutions(<< l >>)) : m = InstitutionMessage(o)
      BY <2>1
    <2> QED
      BY <2>2, MessageIds DEF InstitutionIds
  <1> QED
    BY <1>1, <1>2

LEMMA MessagesFound ==
  ASSUME NEW r \in Results
  PROVE  /\ IdSet(r.authors) \subseteq AuthorIds(Lines)
         /\ IdSet(r.institutions) \subseteq InstitutionIds(Lines)
  <1>1. /\ ToSet(r.authors) \subseteq AuthorMessages
        /\ ToSet(r.institutions) \subseteq InstitutionMessages
    <2>1. /\ r.authors \in Seq(AuthorMessages)
          /\ r.institutions \in Seq(InstitutionMessages)
      BY DEF Results
    <2> QED
      BY <2>1 DEF ToSet
  <1> QED
    BY <1>1, MessageIdsFound DEF IdSet

\* A work refers to authors and institutions that its line is said to hold.
LEMMA ReferencesFound ==
  ASSUME NEW w \in WorkMessages
  PROVE  /\ ToSet(w.references.author_ids) \subseteq AuthorIds(Lines)
         /\ ToSet(w.references.institution_ids) \subseteq InstitutionIds(Lines)
  <1>1. PICK l \in Lines : w = WorkOf(l)
    BY DEF WorkMessages
  <1>2. w.references = References(l)
    BY <1>1 DEF WorkOf
  <1> QED
    BY <1>2, LineReferences DEF AuthorIds, InstitutionIds

\* Without namesakes a reference that has been seen has been seen as what it is.
LEMMA SeenCovers ==
  ASSUME NoNamesakes(Lines), AccountInv, NEW w \in WorkMessages, RefsSeen(w)
  PROVE  /\ ToSet(w.references.author_ids) \subseteq
              IdSet(delivered.authors) \cup IdSet(gathered.authors)
                \cup IdSet(extracted.authors) \cup lost
         /\ ToSet(w.references.institution_ids) \subseteq
              IdSet(delivered.institutions) \cup IdSet(gathered.institutions)
                \cup IdSet(extracted.institutions) \cup lost
  <1>1. delivered \in Results /\ gathered \in Results /\ extracted \in Results
    BY DEF AccountInv, TypeInv, TypeOK
  <1>2. seen_ids_ = IdSet(delivered.authors) \cup IdSet(delivered.institutions)
                      \cup IdSet(gathered.authors) \cup IdSet(gathered.institutions)
                      \cup IdSet(extracted.authors) \cup IdSet(extracted.institutions)
                      \cup lost
    BY IdsOfSets DEF AccountInv, Accounted, SeenAccounted
  <1> QED
    BY <1>1, <1>2, MessagesFound, ReferencesFound DEF NoNamesakes, RefsSeen

\* When all visits of a line are made, its references have been seen.
LEMMA LineSeen ==
  ASSUME NEW l \in Lines, \A v \in VisitsOf(l) : Met(v)
  PROVE  RefsSeen(WorkOf(l))
  <1>1. WorkOf(l).references = References(l)
    BY DEF WorkOf
  <1>2. ASSUME NEW o \in ToSet(FoundAuthors(<< l >>)) PROVE GetAuthorId(o) \in seen_ids_
    <2>1. o \in ToSet(AuthorObjects(l)) /\ ~ IsAuthorEmpty(o)
      BY AuthorsFound
    <2> DEFINE v == [kind |-> "author", object |-> o]
    <2>2. v \in ToSet(Visits(l, "author"))
      BY <2>1, VisitsProperties DEF Kinds, Objects
    <2>3. v \in VisitsOf(l)
      BY <2>2 DEF VisitsOf, Kinds
    <2> QED
      BY <2>1, <2>3 DEF Met
  <1>3. ASSUME NEW o \in ToSet(FoundInstitutions(<< l >>))
        PROVE  GetInstitutionId(o) \in seen_ids_
    <2>1. o \in ToSet(InstitutionObjects(l)) /\ ~ IsInstitutionEmpty(o)
      BY InstitutionsFound
    <2> DEFINE v == [kind |-> "institution", object |-> o]
    <2>2. v \in ToSet(Visits(l, "institution"))
      BY <2>1, VisitsProperties DEF Kinds, Objects
    <2>3. v \in VisitsOf(l)
      BY <2>2 DEF VisitsOf, Kinds
    <2> QED
      BY <2>1, <2>3 DEF Met
  <1> QED
    BY <1>1, <1>2, <1>3, LineReferences DEF RefsSeen

\* What each step makes of the references.
LEMMA InitResolving == Init => RefInv
  <1> SUFFICES ASSUME Init PROVE RefInv
    OBVIOUS
  <1>1. gathered = Nothing /\ extracted = Nothing /\ delivered = Nothing /\ status = "lines"
    BY DEF Init
  <1>2. ToSet(Nothing.works) = {}
    BY DEF Nothing, ToSet
  <1> QED
    BY <1>1, <1>2, InitAccounted DEF RefInv, Resolving

\* A visit makes what it visits met, and leaves what has been met.
LEMMA VisitResolving ==
  ASSUME RefInv, NEW kind, Visiting(kind), NEW v, v = Head(todo),
         seen_ids_ \subseteq seen_ids_', Met(v)',
         \A w \in ToSet(extracted'.works) : w = WorkOf(line),
         todo' = Tail(todo),
         UNCHANGED << status, streaming, line, gathered, delivered, lost >>
  PROVE  Resolving'
  <1>1. status = "extract" /\ todo # << >> /\ todo \in Seq(VisitsOf(line))
    BY DEF Visiting, RefInv, AccountInv, TypeInv, Busy
  <1>2. ToSet(todo) = {Head(todo)} \cup ToSet(Tail(todo))
    BY <1>1, HeadTail
  <1>3. ASSUME NEW u \in VisitsOf(line) PROVE u \in ToSet(todo') \/ Met(u)'
    <2>1. u \in ToSet(todo) \/ Met(u)
      BY <1>1 DEF RefInv, Resolving
    <2>2. Met(u) => Met(u)'
      BY DEF Met
    <2> QED
      BY <1>2, <2>1, <2>2
  <1>4. \A w \in ToSet(gathered.works) : RefsSeen(w)'
    BY DEF RefInv, Resolving, RefsSeen
  <1>5. \A w \in ToSet(delivered.works) : Covered(w, delivered, lost)
    BY DEF RefInv, Resolving
  <1>6. streaming \/ status \in {"returned", "threw"} => gathered = Nothing
    BY DEF RefInv, Resolving
  <1> QED
    BY <1>3, <1>4, <1>5, <1>6 DEF Resolving

LEMMA VisitAuthorResolving ==
  ASSUME RefInv, VisitAuthor
  PROVE  Resolving'
  <1> DEFINE o == Head(todo).object
  <1>1. PICK v : v = Head(todo)
    OBVIOUS
  <1>2. Visiting("author") /\ v.kind = "author" /\ v.object = o
    BY <1>1 DEF VisitAuthor, Visiting
  <1>3. extracted \in Results /\ \A w \in ToSet(extracted.works) : w = WorkOf(line)
    BY DEF RefInv, AccountInv, TypeInv, TypeOK, Resolving
  <1>4. extracted'.works = extracted.works
    <2>1. CASE NewAuthor(o) /\ extracted' =
                 [extracted EXCEPT !.authors = Append(@, AuthorMessage(o))]
      <3>1. AuthorMessage(o) \in AuthorMessages
        BY <2>1, VisitTyped, AuthorVisited DEF RefInv, AccountInv, VisitAuthor, NewAuthor
      <3> QED
        BY <1>3, <2>1, <3>1, AuthorsUpdate
    <2>2. CASE UNCHANGED extracted
      BY <2>2
    <2> QED
      BY <2>1, <2>2 DEF VisitAuthor
  <1>5. /\ seen_ids_ \subseteq seen_ids_'
        /\ ~ IsAuthorEmpty(o) => GetAuthorId(o) \in seen_ids_'
    BY DEF VisitAuthor, NewAuthor, Remember
  <1>6. Met(v)'
    BY <1>2, <1>5 DEF Met
  <1>7. \A w \in ToSet(extracted'.works) : w = WorkOf(line)
    BY <1>3, <1>4
  <1>8. todo' = Tail(todo) /\ UNCHANGED << status, streaming, line, gathered, delivered, lost >>
    BY DEF VisitAuthor, history
  <1> QED
    BY <1>1, <1>2, <1>5, <1>6, <1>7, <1>8, VisitResolving

LEMMA VisitInstitutionResolving ==
  ASSUME RefInv, VisitInstitution
  PROVE  Resolving'
  <1> DEFINE o == Head(todo).object
  <1>1. PICK v : v = Head(todo)
    OBVIOUS
  <1>2. Visiting("institution") /\ v.kind = "institution" /\ v.object = o
    BY <1>1 DEF VisitInstitution, Visiting
  <1>3. extracted \in Results /\ \A w \in ToSet(extracted.works) : w = WorkOf(line)
    BY DEF RefInv, AccountInv, TypeInv, TypeOK, Resolving
  <1>4. extracted'.works = extracted.works
    <2>1. CASE NewInstitution(o) /\ extracted' =
                 [extracted EXCEPT !.institutions = Append(@, InstitutionMessage(o))]
      <3>1. InstitutionMessage(o) \in InstitutionMessages
        BY <2>1, VisitTyped, InstitutionVisited DEF RefInv, AccountInv, VisitInstitution, NewInstitution
      <3> QED
        BY <1>3, <2>1, <3>1, InstitutionsUpdate
    <2>2. CASE UNCHANGED extracted
      BY <2>2
    <2> QED
      BY <2>1, <2>2 DEF VisitInstitution
  <1>5. /\ seen_ids_ \subseteq seen_ids_'
        /\ ~ IsInstitutionEmpty(o) => GetInstitutionId(o) \in seen_ids_'
    BY DEF VisitInstitution, NewInstitution, Remember
  <1>6. Met(v)'
    BY <1>2, <1>5 DEF Met
  <1>7. \A w \in ToSet(extracted'.works) : w = WorkOf(line)
    BY <1>3, <1>4
  <1>8. todo' = Tail(todo) /\ UNCHANGED << status, streaming, line, gathered, delivered, lost >>
    BY DEF VisitInstitution, history
  <1> QED
    BY <1>1, <1>2, <1>5, <1>6, <1>7, <1>8, VisitResolving

LEMMA ExtractWorkResolving ==
  ASSUME RefInv, ExtractWork
  PROVE  Resolving'
  <1>1. PICK v : v = Head(todo)
    OBVIOUS
  <1>2. Visiting("work") /\ v.kind = "work"
    BY <1>1 DEF ExtractWork, Visiting
  <1>3. Met(v)'
    BY <1>2 DEF Met
  <1>4. extracted'.works = << WorkOf(line) >>
    <2>1. extracted \in Results /\ line \in Lines
      BY VisitTyped DEF RefInv, AccountInv, TypeInv, TypeOK, ExtractWork
    <2>2. WorkOf(line) \in WorkMessages
      BY <2>1 DEF WorkMessages, ExtractWork
    <2> QED
      BY <2>1, <2>2, WorksUpdate DEF ExtractWork
  <1>5. \A w \in ToSet(extracted'.works) : w = WorkOf(line)
    BY <1>4 DEF ToSet
  <1>6. /\ todo' = Tail(todo) /\ seen_ids_' = seen_ids_
        /\ UNCHANGED << status, streaming, line, gathered, delivered, lost >>
    BY DEF ExtractWork, history
  <1> QED
    BY <1>1, <1>2, <1>3, <1>5, <1>6, VisitResolving

LEMMA NothingWorks == ToSet(Nothing.works) = {}
  BY DEF Nothing, ToSet

LEMMA ReadLineResolving ==
  ASSUME RefInv, NEW l \in Lines, ReadLine(l)
  PROVE  Resolving'
  <1>1. ToSet(todo') = VisitsOf(l) /\ line' = l /\ status' = "extract"
    BY TodoProperties DEF ReadLine
  <1>2. extracted = Nothing
    BY DEF ReadLine, RefInv, AccountInv, TypeInv, Busy
  <1>3. UNCHANGED << streaming, extracted, gathered, delivered, seen_ids_, lost >>
    BY DEF ReadLine, results, history
  <1>4. streaming => gathered = Nothing
    BY DEF RefInv, Resolving
  <1>5. \A w \in ToSet(gathered.works) : RefsSeen(w)'
    BY <1>3 DEF RefInv, Resolving, RefsSeen
  <1>6. \A w \in ToSet(delivered.works) : Covered(w, delivered, lost)
    BY DEF RefInv, Resolving
  <1> QED
    BY <1>1, <1>2, <1>3, <1>4, <1>5, <1>6, NothingWorks DEF Resolving

LEMMA ThrowResolving ==
  ASSUME RefInv, Throw
  PROVE  Resolving'
  <1>1. /\ status' = "threw" /\ extracted' = Nothing /\ gathered' = Nothing
        /\ delivered' = delivered /\ lost \subseteq lost'
    BY DEF Throw
  <1>2. \A w \in ToSet(delivered.works) : Covered(w, delivered, lost')
    BY <1>1 DEF RefInv, Resolving, Covered
  <1> QED
    BY <1>1, <1>2, NothingWorks DEF Resolving

\* What is added resolves what is added with it, and what was there stays resolved.
LEMMA JoinedCovered ==
  ASSUME NEW r \in Results, NEW s \in Results, NEW gone,
         \A w \in ToSet(r.works) : Covered(w, r, gone),
         \A w \in ToSet(s.works) :
           /\ ToSet(w.references.author_ids)
                \subseteq IdSet(r.authors) \cup IdSet(s.authors) \cup gone
           /\ ToSet(w.references.institution_ids)
                \subseteq IdSet(r.institutions) \cup IdSet(s.institutions) \cup gone
  PROVE  \A w \in ToSet(Joined(r, s).works) : Covered(w, Joined(r, s), gone)
  <1> DEFINE u == Joined(r, s)
  <1>1. /\ u.authors = r.authors \o s.authors
        /\ u.institutions = r.institutions \o s.institutions
        /\ u.works = r.works \o s.works
    BY JoinedType
  <1>2. /\ r.authors \in Seq(AuthorMessages) /\ s.authors \in Seq(AuthorMessages)
        /\ r.institutions \in Seq(InstitutionMessages)
        /\ s.institutions \in Seq(InstitutionMessages)
        /\ r.works \in Seq(WorkMessages) /\ s.works \in Seq(WorkMessages)
    BY DEF Results
  <1> HIDE DEF u
  <1>3. /\ ToSet(u.works) = ToSet(r.works) \cup ToSet(s.works)
        /\ ToSet(u.authors) = ToSet(r.authors) \cup ToSet(s.authors)
        /\ ToSet(u.institutions) = ToSet(r.institutions) \cup ToSet(s.institutions)
    BY <1>1, <1>2, ConcatElements
  <1>4. /\ IdSet(u.authors) = IdSet(r.authors) \cup IdSet(s.authors)
        /\ IdSet(u.institutions) = IdSet(r.institutions) \cup IdSet(s.institutions)
    BY <1>3 DEF IdSet
  <1> QED
    BY <1>3, <1>4 DEF Covered, u

\* The works of results are works of lines.
LEMMA WorksTyped ==
  ASSUME NEW r \in Results
  PROVE  ToSet(r.works) \subseteq WorkMessages
  <1>1. r.works \in Seq(WorkMessages)
    BY DEF Results
  <1> QED
    BY <1>1 DEF ToSet

LEMMA LineDoneResolving ==
  ASSUME NoNamesakes(Lines), RefInv, LineDone
  PROVE  Resolving'
  <1>1. /\ status' = "lines" /\ extracted' = Nothing
        /\ UNCHANGED << streaming, line, seen_ids_, lost >>
    BY DEF LineDone
  <1>2. line \in Lines /\ extracted \in Results /\ gathered \in Results /\ delivered \in Results
    BY DEF LineDone, RefInv, AccountInv, TypeInv, TypeOK, Busy
  <1>3. \A w \in ToSet(extracted.works) : RefsSeen(w)
    <2>1. \A v \in VisitsOf(line) : Met(v)
      BY DEF LineDone, RefInv, Resolving, ToSet
    <2> QED
      BY <1>2, <2>1, LineSeen DEF RefInv, Resolving
  <1>4. CASE KeepLine
    <2>1. \A w \in ToSet(gathered'.works) : RefsSeen(w)
      <3>1. gathered'.works = gathered.works \o extracted.works
        BY <1>2, <1>4, JoinedType DEF KeepLine
      <3>2. ToSet(gathered'.works) = ToSet(gathered.works) \cup ToSet(extracted.works)
        <4>1. gathered.works \in Seq(WorkMessages) /\ extracted.works \in Seq(WorkMessages)
          BY <1>2 DEF Results
        <4> QED
          BY <3>1, <4>1, ConcatElements
      <3> QED
        BY <1>3, <3>2 DEF RefInv, Resolving
    <2>2. \A w \in ToSet(gathered'.works) : RefsSeen(w)'
      BY <1>1, <2>1 DEF RefsSeen
    <2>3. delivered' = delivered /\ ~ streaming
      BY <1>4 DEF KeepLine
    <2>4. \A w \in ToSet(delivered.works) : Covered(w, delivered, lost)
      BY DEF RefInv, Resolving
    <2> QED
      BY <1>1, <2>2, <2>3, <2>4, NothingWorks DEF Resolving
  <1>5. CASE StreamLine
    <2>1. gathered = Nothing /\ gathered' = Nothing /\ delivered' = Joined(delivered, extracted)
      BY <1>5 DEF StreamLine, Delivery, RefInv, Resolving
    <2>2. IdSet(gathered.authors) = {} /\ IdSet(gathered.institutions) = {}
      BY <2>1 DEF Nothing, IdSet, ToSet
    <2>3. ASSUME NEW w \in ToSet(extracted.works)
          PROVE  /\ ToSet(w.references.author_ids) \subseteq
                      IdSet(delivered.authors) \cup IdSet(extracted.authors) \cup lost
                 /\ ToSet(w.references.institution_ids) \subseteq
                      IdSet(delivered.institutions) \cup IdSet(extracted.institutions) \cup lost
      <3>1. w \in WorkMessages /\ RefsSeen(w)
        BY <1>2, <1>3, WorksTyped
      <3> QED
        BY <2>2, <3>1, SeenCovers DEF RefInv
    <2>4. \A w \in ToSet(delivered.works) : Covered(w, delivered, lost)
      BY DEF RefInv, Resolving
    <2>5. \A w \in ToSet(delivered'.works) : Covered(w, delivered', lost)
      BY <1>2, <2>1, <2>3, <2>4, JoinedCovered
    <2> QED
      BY <1>1, <2>1, <2>5, NothingWorks DEF Resolving
  <1> QED
    BY <1>4, <1>5 DEF LineDone

LEMMA ReturnResolving ==
  ASSUME NoNamesakes(Lines), RefInv, Return
  PROVE  Resolving'
  <1>1. /\ status' = "returned" /\ gathered' = Nothing
        /\ delivered' = Joined(delivered, gathered)
        /\ UNCHANGED << line, extracted, lost >>
    BY DEF Return, Delivery
  <1>2. gathered \in Results /\ delivered \in Results /\ extracted = Nothing
    BY DEF Return, RefInv, AccountInv, TypeInv, TypeOK, Busy
  <1>3. IdSet(extracted.authors) = {} /\ IdSet(extracted.institutions) = {}
    BY <1>2 DEF Nothing, IdSet, ToSet
  <1>4. ASSUME NEW w \in ToSet(gathered.works)
        PROVE  /\ ToSet(w.references.author_ids) \subseteq
                    IdSet(delivered.authors) \cup IdSet(gathered.authors) \cup lost
               /\ ToSet(w.references.institution_ids) \subseteq
                    IdSet(delivered.institutions) \cup IdSet(gathered.institutions) \cup lost
    <2>1. w \in WorkMessages /\ RefsSeen(w)
      BY <1>2, WorksTyped DEF RefInv, Resolving
    <2> QED
      BY <1>3, <2>1, SeenCovers DEF RefInv
  <1>5. \A w \in ToSet(delivered.works) : Covered(w, delivered, lost)
    BY DEF RefInv, Resolving
  <1>6. \A w \in ToSet(delivered'.works) : Covered(w, delivered', lost)
    BY <1>1, <1>2, <1>4, <1>5, JoinedCovered
  <1> QED
    BY <1>1, <1>2, <1>6, NothingWorks DEF Resolving

LEMMA CallAgainResolving ==
  ASSUME RefInv, CallAgain
  PROVE  Resolving'
  BY DEF RefInv, Resolving, RefsSeen, CallAgain

LEMMA NextResolving ==
  ASSUME NoNamesakes(Lines)
  PROVE  RefInv /\ [Next]_vars => RefInv'
  <1> SUFFICES ASSUME RefInv, [Next]_vars PROVE RefInv'
    OBVIOUS
  <1>1. AccountInv'
    BY NextAccounted DEF RefInv
  <1>2. ASSUME UNCHANGED vars PROVE Resolving'
    BY <1>2 DEF RefInv, Resolving, RefsSeen, Met, vars, results, history
  <1>3. Resolving'
    BY <1>2, ReadLineResolving, VisitAuthorResolving, VisitInstitutionResolving,
       ExtractWorkResolving, ThrowResolving, LineDoneResolving, ReturnResolving,
       CallAgainResolving DEF Next
  <1> QED
    BY <1>1, <1>3 DEF RefInv

\* Where no author and institution share an id, every reference of a delivered work
\* leads to a delivered author or institution or to one an exception took.
THEOREM ReferencesCorrect ==
  ASSUME NoNamesakes(Lines)
  PROVE  Spec => []ReferencesResolved
  <1>1. RefInv => ReferencesResolved
    BY CoveredResolved DEF RefInv, Resolving
  <1>2. RefInv /\ [Next]_vars => RefInv'
    BY NextResolving
  <1> QED
    BY <1>1, <1>2, InitResolving, PTL DEF Spec
=============================================================================
