------------------------- MODULE PageCitationsProofs -------------------------
(***************************************************************************)
(* Theorems about PageCitations, for every set of ids, timestamps and      *)
(* (finitely many) titles and whatever the bounds are: type correctness,   *)
(* the counts of references, the walk over the sorted revisions, which     *)
(* computes the history of every title, and the refinement of              *)
(* CitationHistory.                                                        *)
(***************************************************************************)
EXTENDS PageCitations, FiniteSetTheorems, TLAPS

-----------------------------------------------------------------------------
(* Type correctness. *)

\* Sorting rearranges a sequence of revisions into one of the same length.
LEMMA SortedType ==
  ASSUME NEW s \in Seq(RevisionCitations), NEW q \in SortOrders(s)
  PROVE  LET u == [ k \in DOMAIN s |-> s[q[k]] ] IN
         /\ u \in Seq(RevisionCitations)
         /\ Len(u) = Len(s)
  <1>1. q \in [1 .. Len(s) -> 1 .. Len(s)]
    BY DEF SortOrders
  <1>2. DOMAIN s = 1 .. Len(s) /\ Len(s) \in Nat
    OBVIOUS
  <1>3. \A k \in 1 .. Len(s) : s[q[k]] \in RevisionCitations
    BY <1>1
  <1> QED
    BY <1>2, <1>3

LEMMA InitTypeOK == Init => TypeOK
  BY DEF Init, TypeOK, NoCitations, NoReferences

\* Type correctness is preserved by every step of the parser.
LEMMA NextTypeOK == TypeOK /\ [Next]_vars => TypeOK'
  <1> SUFFICES ASSUME TypeOK, [Next]_vars PROVE TypeOK'
    OBVIOUS
  <1> USE DEF TypeOK
  <1>0. \A j \in 1 .. Len(citations_by_revision_) :
          citations_by_revision_[j] \in RevisionCitations
    OBVIOUS
  <1>1. ASSUME NEW rev \in RevisionCitations, OnEndRevision(rev) PROVE TypeOK'
    <2>1. citations_by_revision_' \in Seq(RevisionCitations)
          /\ Len(citations_by_revision_') = Len(citations_by_revision_) + 1
      BY <1>1 DEF OnEndRevision, Remembered
    <2>2. rev.revision_id \in RevIds
      BY DEF RevisionCitations
    <2> QED
      BY <1>1, <2>1, <2>2 DEF OnEndRevision, Remembered, discovered, outputs
  <1>2. CASE SortRevisions
    <2>1. PICK q \in SortOrders(citations_by_revision_) :
            citations_by_revision_' =
              [ k \in DOMAIN citations_by_revision_ |-> citations_by_revision_[q[k]] ]
      BY <1>2 DEF SortRevisions
    <2>2. citations_by_revision_' \in Seq(RevisionCitations)
          /\ Len(citations_by_revision_') = Len(citations_by_revision_)
      BY <2>1, SortedType
    <2> QED
      BY <1>2, <2>2 DEF SortRevisions, discovered, outputs
  <1>3. CASE NextRevision
    <2>1. citations_by_revision_[i + 1] \in RevisionCitations
      BY <1>3 DEF NextRevision
    <2>2. citations_by_revision_[i + 1].citations \subseteq Titles
      BY <2>1 DEF RevisionCitations
    <2> QED
      BY <1>3, <2>2 DEF NextRevision, Discovered, discovered, collected, outputs
  <1>4. ASSUME NEW t \in Titles, CheckPresent(t) PROVE TypeOK'
    BY <1>4 DEF CheckPresent, Release, Dropped, Uncounted, collected, outputs
  <1>5. ASSUME NEW t \in Titles, CheckAbsent(t) PROVE TypeOK'
    BY <1>5 DEF CheckAbsent, Acquire, Unmarked, collected, outputs
  <1>6. ASSUME NEW t \in Titles, AddNew(t) PROVE TypeOK'
    BY <1>6 DEF AddNew, Acquire, collected, outputs
  <1>7. CASE CheckDone
    BY <1>7 DEF CheckDone, discovered, collected, outputs
  <1>8. CASE AddDone
    BY <1>8 DEF AddDone, AllAdded, discovered, collected, outputs
  <1>9. CASE StorePage
    <2>1. [added |-> revision_added, removed |-> revision_removed] \in Pages
      BY DEF Pages
    <2> QED
      BY <1>9, <2>1 DEF StorePage, Store, ClearPage, EndWalk, NoCitations, NoReferences
  <1>10. CASE UNCHANGED vars
    BY <1>10 DEF vars, discovered, collected, outputs
  <1> QED
    BY <1>1, <1>2, <1>3, <1>4, <1>5, <1>6, <1>7, <1>8, <1>9, <1>10
       DEF Next, Collect, FinishPage

\* The parser's state always has the types of its members.
THEOREM TypeCorrect == Spec => []TypeOK
  BY InitTypeOK, NextTypeOK, PTL DEF Spec

-----------------------------------------------------------------------------
(* Reference counts.                                                       *)
(*                                                                         *)
(* A step of the loops changes revision_added or revision_removed at one   *)
(* title, so the number of titles that name a revision changes by at most  *)
(* one.  The inductive invariant ties the counts to that number and the    *)
(* revisions to store to the counts that are positive; StoreExact follows  *)
(* but is not inductive without the counts, since a revision is dropped    *)
(* because of its count alone.                                             *)

Fields == [Titles -> RevIds \cup {NoRev}]

Stored == revisions_to_store_ = { r \in RevIds : revisions_ref_count[r] > 0 }

CountInv == TypeOK /\ RefCountExact /\ Stored

\* The titles naming a revision are finitely many; none when nothing is set.
LEMMA NamingFinite ==
  ASSUME NEW f \in Fields, NEW r \in RevIds
  PROVE  /\ IsFiniteSet(Naming(f, r))
         /\ Cardinality(Naming(f, r)) \in Nat
         /\ Cardinality(Naming(f, r)) > 0 <=> \E t \in Titles : f[t] = r
  <1>1. Naming(f, r) \subseteq Titles
    BY DEF Naming
  <1>2. IsFiniteSet(Naming(f, r))
    BY <1>1, TitlesAssumption, FS_Subset
  <1>3. Cardinality(Naming(f, r)) \in Nat
    BY <1>2, FS_CardinalityType
  <1>4. Cardinality(Naming(f, r)) = 0 <=> Naming(f, r) = {}
    BY <1>2, FS_EmptySet
  <1>5. Naming(f, r) # {} <=> \E t \in Titles : f[t] = r
    BY DEF Naming
  <1> QED
    BY <1>2, <1>3, <1>4, <1>5

\* Setting one field changes the number of titles that name r by what it is
\* set from and to.
LEMMA NamingUpdate ==
  ASSUME NEW f \in Fields, NEW t \in Titles, NEW v \in RevIds \cup {NoRev},
         NEW r \in RevIds
  PROVE  Cardinality(Naming([f EXCEPT ![t] = v], r)) =
           Cardinality(Naming(f, r)) - (IF f[t] = r THEN 1 ELSE 0)
                                     + (IF v = r THEN 1 ELSE 0)
  <1> DEFINE g == [f EXCEPT ![t] = v]
  <1>1. g \in Fields
    BY DEF Fields
  <1>2. /\ IsFiniteSet(Naming(f, r)) /\ Cardinality(Naming(f, r)) \in Nat
        /\ IsFiniteSet(Naming(g, r)) /\ Cardinality(Naming(g, r)) \in Nat
    BY <1>1, NamingFinite
  <1>3. CASE (f[t] = r) = (v = r)
    <2>1. Naming(g, r) = Naming(f, r)
      BY <1>3 DEF Naming, Fields
    <2> QED
      BY <1>2, <1>3, <2>1
  <1>4. CASE f[t] # r /\ v = r
    <2>1. Naming(g, r) = Naming(f, r) \cup {t} /\ t \notin Naming(f, r)
      BY <1>4 DEF Naming, Fields
    <2>2. Cardinality(Naming(g, r)) = Cardinality(Naming(f, r)) + 1
      BY <1>2, <2>1, FS_AddElement
    <2> QED
      BY <1>2, <1>4, <2>2
  <1>5. CASE f[t] = r /\ v # r
    <2>1. Naming(f, r) = Naming(g, r) \cup {t} /\ t \notin Naming(g, r)
      BY <1>5 DEF Naming, Fields
    <2>2. Cardinality(Naming(f, r)) = Cardinality(Naming(g, r)) + 1
      BY <1>2, <2>1, FS_AddElement
    <2> QED
      BY <1>2, <1>5, <2>2
  <1> QED
    BY <1>3, <1>4, <1>5

\* No title names a revision when no field is set.
LEMMA NamingNone ==
  ASSUME NEW r \in RevIds
  PROVE  Cardinality(Naming(NoCitations, r)) = 0
  <1>1. Naming(NoCitations, r) = {}
    BY NoRevAssumption DEF Naming, NoCitations
  <1> QED
    BY <1>1, FS_EmptySet

\* Fields all unset and counts all zero agree.
LEMMA NoneCounted ==
  ASSUME revision_added = NoCitations, revision_removed = NoCitations,
         revisions_ref_count = NoReferences, revisions_to_store_ = {}
  PROVE  RefCountExact /\ Stored
  BY NamingNone DEF RefCountExact, Referrers, Stored, NoReferences

\* The counts, and the set they decide, are left alone.
LEMMA CountsUnchanged ==
  ASSUME CountInv, TypeOK',
         UNCHANGED << revisions_to_store_, discovered, revisions_ref_count >>
  PROVE  CountInv'
  BY DEF CountInv, RefCountExact, Referrers, Naming, Stored, discovered

LEMMA InitCountInv == Init => CountInv
  BY InitTypeOK, NoneCounted DEF CountInv, Init

LEMMA NextCountInv == CountInv /\ [Next]_vars => CountInv'
  <1> SUFFICES ASSUME CountInv, [Next]_vars PROVE CountInv'
    OBVIOUS
  <1>0. TypeOK /\ TypeOK'
    BY NextTypeOK DEF CountInv
  <1>1. revision_added \in Fields /\ revision_removed \in Fields
    BY <1>0 DEF TypeOK, Fields
  <1>2. \A r \in RevIds :
          /\ revisions_ref_count[r] = Referrers(r)
          /\ Cardinality(Naming(revision_added, r)) \in Nat
          /\ Cardinality(Naming(revision_removed, r)) \in Nat
          /\ r \in revisions_to_store_ <=> revisions_ref_count[r] > 0
    BY <1>1, NamingFinite DEF CountInv, RefCountExact, Stored
  <1>3. ASSUME NEW t \in Titles, CheckPresent(t) PROVE CountInv'
    <2>1. CASE revision_removed[t] = NoRev
      BY <1>0, <1>3, <2>1, CountsUnchanged DEF CheckPresent, discovered
    <2>2. CASE revision_removed[t] # NoRev
      <3> DEFINE d == revision_removed[t]
      <3>1. /\ d \in RevIds
            /\ Release(d)
            /\ revision_removed' = [revision_removed EXCEPT ![t] = NoRev]
            /\ revision_added' = revision_added
        BY <1>1, <1>3, <2>2 DEF CheckPresent, Fields
      <3>2. \A r \in RevIds : Referrers(r)' = Referrers(r) - (IF d = r THEN 1 ELSE 0)
        <4> TAKE r \in RevIds
        <4>1. Cardinality(Naming([revision_removed EXCEPT ![t] = NoRev], r)) =
                Cardinality(Naming(revision_removed, r))
                  - (IF revision_removed[t] = r THEN 1 ELSE 0)
                  + (IF NoRev = r THEN 1 ELSE 0)
          BY <1>1, NamingUpdate
        <4>2. NoRev # r
          BY NoRevAssumption
        <4>3. Cardinality(Naming(revision_removed', r)) =
                Cardinality(Naming(revision_removed, r)) - (IF d = r THEN 1 ELSE 0)
          BY <1>2, <3>1, <4>1, <4>2
        <4> QED
          BY <1>2, <3>1, <4>3 DEF Referrers
      <3>3. \A r \in RevIds : revisions_ref_count'[r] =
              revisions_ref_count[r] - (IF d = r THEN 1 ELSE 0)
        BY <1>0, <3>1 DEF Release, Dropped, Uncounted, TypeOK
      <3>4. RefCountExact'
        BY <1>2, <3>2, <3>3 DEF RefCountExact
      <3>5. \A r \in RevIds :
              r \in revisions_to_store_' <=> revisions_ref_count'[r] > 0
        BY <1>0, <1>2, <3>1, <3>3 DEF Release, Dropped, Uncounted, TypeOK
      <3>6. Stored'
        BY <1>0, <3>5 DEF Stored, TypeOK
      <3> QED
        BY <1>0, <3>4, <3>6 DEF CountInv
    <2> QED
      BY <2>1, <2>2
  <1>4. ASSUME NEW t \in Titles, Acquire(CurrentId),
               \/ /\ revision_added[t] = NoRev
                  /\ revision_added' = [revision_added EXCEPT ![t] = CurrentId]
                  /\ revision_removed' = revision_removed
               \/ /\ revision_removed[t] = NoRev
                  /\ revision_removed' = [revision_removed EXCEPT ![t] = CurrentId]
                  /\ revision_added' = revision_added
        PROVE  CountInv'
    <2>1. CurrentId \in RevIds
      BY <1>0, <1>4 DEF Acquire, TypeOK
    <2>2. \A r \in RevIds :
            Referrers(r)' = Referrers(r) + (IF CurrentId = r THEN 1 ELSE 0)
      BY <1>1, <1>2, <1>4, <2>1, NamingUpdate, NoRevAssumption DEF Referrers
    <2>3. \A r \in RevIds : revisions_ref_count'[r] =
            revisions_ref_count[r] + (IF CurrentId = r THEN 1 ELSE 0)
      BY <1>0, <1>4, <2>1 DEF Acquire, TypeOK
    <2>4. RefCountExact'
      BY <1>2, <2>2, <2>3 DEF RefCountExact
    <2>5. \A r \in RevIds :
            r \in revisions_to_store_' <=> revisions_ref_count'[r] > 0
      BY <1>2, <1>4, <2>1, <2>3 DEF Acquire, Referrers
    <2>6. Stored'
      BY <1>0, <2>5 DEF Stored, TypeOK
    <2> QED
      BY <1>0, <2>4, <2>6 DEF CountInv
  <1>5. ASSUME NEW t \in Titles, CheckAbsent(t) PROVE CountInv'
    <2>1. CASE Unmarked(t)
      BY <1>4, <1>5, <2>1 DEF CheckAbsent, Unmarked
    <2>2. CASE ~ Unmarked(t)
      BY <1>0, <1>5, <2>2, CountsUnchanged DEF CheckAbsent, discovered
    <2> QED
      BY <2>1, <2>2
  <1>6. ASSUME NEW t \in Titles, AddNew(t) PROVE CountInv'
    BY <1>4, <1>6 DEF AddNew, Discovered
  <1>7. CASE StorePage
    <2>1. /\ revision_added' = NoCitations /\ revision_removed' = NoCitations
          /\ revisions_ref_count' = NoReferences /\ revisions_to_store_' = {}
      BY <1>7 DEF StorePage, Store, ClearPage, EndWalk
    <2>2. RefCountExact' /\ Stored'
      BY <2>1, NamingNone DEF RefCountExact, Referrers, Stored, NoReferences
    <2> QED
      BY <1>0, <2>2 DEF CountInv
  <1>8. CASE \/ Collect \/ SortRevisions \/ NextRevision \/ CheckDone \/ AddDone
             \/ UNCHANGED vars
    <2>1. UNCHANGED << revisions_to_store_, discovered, revisions_ref_count >>
      BY <1>8 DEF Collect, OnEndRevision, Remembered, SortRevisions, NextRevision, CheckDone,
                  AddDone, vars
    <2> QED
      BY <1>0, <2>1, CountsUnchanged
  <1> QED
    BY <1>3, <1>5, <1>6, <1>7, <1>8 DEF Next, FinishPage

THEOREM CountsCorrect == Spec => []CountInv
  BY InitCountInv, NextCountInv, PTL DEF Spec

\* The reference count of a revision is the number of citations naming it.
THEOREM RefCountCorrect == Spec => []RefCountExact
  <1>1. CountInv => RefCountExact
    BY DEF CountInv
  <1> QED
    BY <1>1, CountsCorrect, PTL

\* The revisions to store are exactly those the citations refer to, at every
\* step of the two loops.
THEOREM StoreCorrect == Spec => []StoreExact
  <1>1. CountInv => StoreExact
    <2> SUFFICES ASSUME CountInv PROVE StoreExact
      OBVIOUS
    <2>1. revision_added \in Fields /\ revision_removed \in Fields
      BY DEF CountInv, TypeOK, Fields
    <2>2. \A r \in RevIds : revisions_ref_count[r] > 0 <=>
            \E t \in Titles : r \in {revision_added[t], revision_removed[t]}
      BY <2>1, NamingFinite DEF CountInv, RefCountExact, Referrers
    <2> QED
      BY <2>2 DEF CountInv, Stored, StoreExact
  <1> QED
    BY <1>1, CountsCorrect, PTL

-----------------------------------------------------------------------------
(* Output and lookups. *)

\* Every stored page finds exactly its revisions in the output, whichever pages
\* came before it.
THEOREM OutputCorrect == Spec => []OutputExact
  <1> DEFINE Inv == TypeOK /\ StoreExact /\ OutputExact
  <1>1. Init => OutputExact
    BY DEF Init, OutputExact
  <1>2. TypeOK /\ StoreExact /\ OutputExact /\ [Next]_vars => OutputExact'
    <2> SUFFICES ASSUME TypeOK, StoreExact, OutputExact, [Next]_vars
                 PROVE  OutputExact'
      OBVIOUS
    <2>1. CASE StorePage
      <3> DEFINE p == [added |-> revision_added, removed |-> revision_removed]
      <3>1. stored_pages_' = Append(stored_pages_, p)
            /\ stored_revisions_' = stored_revisions_ \cup revisions_to_store_
        BY <2>1 DEF StorePage, Store, ClearPage, EndWalk
      <3>2. /\ DOMAIN stored_pages_' = DOMAIN stored_pages_ \cup {Len(stored_pages_) + 1}
            /\ \A k \in DOMAIN stored_pages_ : stored_pages_'[k] = stored_pages_[k]
            /\ stored_pages_'[Len(stored_pages_) + 1] = p
        BY <3>1 DEF TypeOK
      <3>3. revisions_to_store_ =
              { r \in RevIds : \E t \in Titles : r \in {p.added[t], p.removed[t]} }
        BY DEF StoreExact
      <3> HIDE DEF p
      <3> QED
        BY <3>1, <3>2, <3>3 DEF OutputExact
    <2>2. CASE ~ StorePage
      <3>1. UNCHANGED outputs
        BY <2>2 DEF Next, Collect, FinishPage, OnEndRevision, Remembered, SortRevisions,
                    NextRevision, CheckPresent, CheckAbsent, AddNew, CheckDone,
                    AddDone, vars
      <3> QED
        BY <3>1 DEF OutputExact, outputs
    <2> QED
      BY <2>1, <2>2
  <1> QED
    BY <1>1, <1>2, TypeCorrect, StoreCorrect, PTL DEF Spec

\* The revisions of a page are known under their ids from the moment they are
\* collected until the page is stored; the loops look up no other.
Known ==
  /\ \A k \in 1 .. Len(citations_by_revision_) :
       citations_by_revision_[k].revision_id \in current_page_revisions_
  /\ pc \in {"check", "add"} => i \in 1 .. Len(citations_by_revision_)
  /\ pc = "collect" => i = 0

LEMMA NextKnown == TypeOK /\ Known /\ [Next]_vars => Known'
  <1> SUFFICES ASSUME TypeOK, Known, [Next]_vars PROVE Known'
    OBVIOUS
  <1> USE DEF TypeOK, Known
  <1>1. ASSUME NEW rev \in RevisionCitations, OnEndRevision(rev) PROVE Known'
    <2>1. \A k \in 1 .. Len(citations_by_revision_') :
            citations_by_revision_'[k] =
              IF k = Len(citations_by_revision_) + 1
                THEN rev ELSE citations_by_revision_[k]
      BY <1>1 DEF OnEndRevision, Remembered
    <2>2. Len(citations_by_revision_') = Len(citations_by_revision_) + 1
      BY <1>1 DEF OnEndRevision, Remembered
    <2> QED
      BY <1>1, <2>1, <2>2 DEF OnEndRevision, Remembered
  <1>2. CASE SortRevisions
    <2>1. PICK q \in SortOrders(citations_by_revision_) :
            citations_by_revision_' =
              [ k \in DOMAIN citations_by_revision_ |-> citations_by_revision_[q[k]] ]
      BY <1>2 DEF SortRevisions
    <2>2. Len(citations_by_revision_') = Len(citations_by_revision_)
      BY <2>1, SortedType
    <2>3. q \in [1 .. Len(citations_by_revision_) -> 1 .. Len(citations_by_revision_)]
      BY DEF SortOrders
    <2>4. \A k \in 1 .. Len(citations_by_revision_') :
            /\ q[k] \in 1 .. Len(citations_by_revision_)
            /\ citations_by_revision_'[k] = citations_by_revision_[q[k]]
      <3>1. DOMAIN citations_by_revision_ = 1 .. Len(citations_by_revision_)
        OBVIOUS
      <3> QED
        BY <2>1, <2>2, <2>3, <3>1
    <2>5. current_page_revisions_' = current_page_revisions_ /\ pc' = "revision"
      BY <1>2 DEF SortRevisions
    <2> QED
      BY <2>4, <2>5
  <1>3. CASE NextRevision
    BY <1>3 DEF NextRevision, collected
  <1>4. CASE StorePage
    BY <1>4 DEF StorePage, Store, ClearPage, EndWalk
  <1>5. CASE AddDone \/ CheckDone
    BY <1>5 DEF AddDone, AllAdded, CheckDone, collected
  <1>6. ASSUME NEW t \in Titles, CheckPresent(t) \/ CheckAbsent(t) \/ AddNew(t)
        PROVE  Known'
    BY <1>6 DEF CheckPresent, CheckAbsent, AddNew, collected
  <1>7. CASE UNCHANGED vars
    BY <1>7 DEF vars, collected
  <1> QED
    BY <1>1, <1>2, <1>3, <1>4, <1>5, <1>6, <1>7 DEF Next, Collect, FinishPage

THEOREM KnownCorrect == Spec => []Known
  <1>1. Init => Known
    BY DEF Init, Known
  <1> QED
    BY <1>1, NextKnown, TypeCorrect, PTL DEF Spec

\* The lookups of the two loops never throw.
THEOREM LookupCorrect == Spec => []LookupSucceeds
  <1>1. Known => LookupSucceeds
    BY DEF Known, LookupSucceeds, CurrentId
  <1> QED
    BY <1>1, KnownCorrect, PTL

-----------------------------------------------------------------------------
(* What one revision does to the fields of one title.  In each lemma the   *)
(* title's fields are accurate for the first n - 1 revisions.              *)

\* A discovered title that revision n cites: nothing has removed it.
LEMMA StillCited ==
  ASSUME NEW s, NEW n \in Nat \ {0}, NEW t, NEW a,
         AddedByFirst(s, n - 1, t, a), t \in s[n].citations
  PROVE  Accurate(s, n, t, a, NoRev)
  <1>1. AddedByFirst(s, n, t, a)
    BY DEF AddedByFirst
  <1> QED
    BY <1>1 DEF Accurate, RemovedAfterLast

\* A discovered title that revision n does not cite and nothing removed yet:
\* revision n - 1 was the last to cite it.
LEMMA NowRemoved ==
  ASSUME NEW s, NEW n \in Nat \ {0}, NEW t, NEW a,
         \A k \in 1 .. n : s[k].revision_id \in RevIds,
         AddedByFirst(s, n - 1, t, a), RemovedAfterLast(s, n - 1, t, NoRev),
         t \notin s[n].citations
  PROVE  Accurate(s, n, t, a, s[n].revision_id)
  <1>1. AddedByFirst(s, n, t, a)
    BY DEF AddedByFirst
  <1>2. n \in 2 .. n
    BY DEF AddedByFirst
  <1>3. t \in s[n - 1].citations
    BY NoRevAssumption DEF RemovedAfterLast
  <1>4. \A j \in n .. n : t \notin s[j].citations
    OBVIOUS
  <1>5. RemovedAfterLast(s, n, t, s[n].revision_id)
    BY <1>2, <1>3, <1>4 DEF RemovedAfterLast
  <1> QED
    BY <1>1, <1>5 DEF Accurate

\* A title removed before that revision n does not cite either.
LEMMA StillRemoved ==
  ASSUME NEW s, NEW n \in Nat \ {0}, NEW t, NEW a, NEW d, d # NoRev,
         AddedByFirst(s, n - 1, t, a), RemovedAfterLast(s, n - 1, t, d),
         t \notin s[n].citations
  PROVE  Accurate(s, n, t, a, d)
  <1>1. AddedByFirst(s, n, t, a)
    BY DEF AddedByFirst
  <1>2. PICK k \in 2 .. n - 1 : /\ d = s[k].revision_id
                                /\ t \in s[k - 1].citations
                                /\ \A j \in k .. n - 1 : t \notin s[j].citations
    BY DEF RemovedAfterLast
  <1>3. \A j \in k .. n : t \notin s[j].citations
    BY <1>2
  <1>4. RemovedAfterLast(s, n, t, d)
    BY <1>2, <1>3 DEF RemovedAfterLast
  <1> QED
    BY <1>1, <1>4 DEF Accurate

\* A title that revision n is the first to cite.
LEMMA NowAdded ==
  ASSUME NEW s, NEW n \in Nat \ {0}, NEW t, NEW a, NEW d,
         Undiscovered(s, n - 1, t, a, d), t \in s[n].citations
  PROVE  Accurate(s, n, t, s[n].revision_id, NoRev)
  <1>1. AddedByFirst(s, n, t, s[n].revision_id)
    BY DEF AddedByFirst, Undiscovered
  <1> QED
    BY <1>1 DEF Accurate, RemovedAfterLast

\* A title no revision up to n cites.
LEMMA NotYetCited ==
  ASSUME NEW s, NEW n \in Nat \ {0}, NEW t, NEW a, NEW d,
         Undiscovered(s, n - 1, t, a, d), t \notin s[n].citations
  PROVE  Accurate(s, n, t, a, d)
  BY DEF Undiscovered, Accurate

\* An accurate discovered title was added and an undiscovered one was not.
LEMMA AccurateCases ==
  ASSUME NEW s, NEW n \in Nat, NEW t, NEW a, NEW d, Accurate(s, n, t, a, d),
         \A k \in 1 .. n : s[k].revision_id \in RevIds
  PROVE  /\ a # NoRev => AddedByFirst(s, n, t, a) /\ RemovedAfterLast(s, n, t, d)
         /\ a = NoRev => Undiscovered(s, n, t, a, d)
  BY NoRevAssumption DEF Accurate, Undiscovered, AddedByFirst

-----------------------------------------------------------------------------
(* The walk. *)

AccurateUpTo(n, t) ==
  Accurate(citations_by_revision_, n, t, revision_added[t], revision_removed[t])

UndiscoveredUpTo(n, t) ==
  Undiscovered(citations_by_revision_, n, t, revision_added[t], revision_removed[t])

CitedNow(t) == t \in citations_by_revision_[i].citations

\* Within revision i, the titles still to visit are as the previous revision
\* left them and the others are up to date; a discovered title that was cited
\* has been erased from the revision, so that only new ones are left to add.
WalkInv ==
  /\ pc = "collect" => revision_added = NoCitations /\ revision_removed = NoCitations
  /\ HistoryExact
  /\ pc = "check" => \A t \in Titles :
       /\ t \in todo => /\ t \in Discovered
                        /\ AccurateUpTo(i - 1, t)
                        /\ t \in unmatched <=> CitedNow(t)
       /\ t \in Discovered \ todo => AccurateUpTo(i, t) /\ t \notin unmatched
       /\ t \notin Discovered => /\ UndiscoveredUpTo(i - 1, t)
                                 /\ t \in unmatched <=> CitedNow(t)
  /\ pc = "add" => \A t \in Titles :
       /\ t \in todo => UndiscoveredUpTo(i - 1, t) /\ CitedNow(t)
       /\ t \notin todo => AccurateUpTo(i, t)

LEMMA InitWalkInv == Init => WalkInv
  BY DEF Init, WalkInv, HistoryExact

LEMMA NextWalkInv == TypeOK /\ Known /\ WalkInv /\ [Next]_vars => WalkInv'
  <1> SUFFICES ASSUME TypeOK, Known, WalkInv, [Next]_vars PROVE WalkInv'
    OBVIOUS
  <1> DEFINE s == citations_by_revision_
  <1>1. \A k \in 1 .. Len(s) : s[k].revision_id \in RevIds
    <2>1. \A k \in 1 .. Len(s) : s[k] \in RevisionCitations
      BY DEF TypeOK
    <2> QED
      BY <2>1 DEF RevisionCitations
  <1>2. i \in Nat /\ i <= Len(s) /\ Len(s) \in Nat
    BY DEF TypeOK
  <1>3. pc \in {"check", "add"} => i \in Nat \ {0}
    BY DEF Known
  <1>4. CASE Collect
    BY <1>4 DEF Collect, OnEndRevision, Remembered, WalkInv, HistoryExact, discovered
  <1>5. CASE SortRevisions
    <2>1. i = 0 /\ i' = i /\ pc' = "revision" /\ UNCHANGED discovered
      BY <1>5 DEF SortRevisions, Known
    <2>2. revision_added = NoCitations /\ revision_removed = NoCitations
      BY <1>5 DEF SortRevisions, WalkInv
    <2> QED
      BY <2>1, <2>2 DEF WalkInv, HistoryExact, Accurate, Undiscovered, NoCitations,
                        discovered
  <1>6. CASE NextRevision
    <2>1. /\ pc' = "check" /\ i' = i + 1 /\ todo' = Discovered
          /\ unmatched' = s[i'].citations
          /\ s' = s /\ UNCHANGED discovered
      BY <1>6 DEF NextRevision, collected
    <2>2. \A t \in Titles : AccurateUpTo(i, t)
      BY <1>6 DEF NextRevision, WalkInv, HistoryExact, AccurateUpTo
    <2>3. \A t \in Titles : t \notin Discovered => UndiscoveredUpTo(i, t)
      BY <1>1, <1>2, <2>2, AccurateCases DEF AccurateUpTo, UndiscoveredUpTo, Discovered
    <2>4. i' - 1 = i
      BY <1>2, <2>1
    <2> QED
      BY <2>1, <2>2, <2>3, <2>4
         DEF WalkInv, HistoryExact, AccurateUpTo, UndiscoveredUpTo, CitedNow,
             Discovered, discovered
  <1>7. ASSUME NEW t \in Titles, CheckPresent(t) PROVE WalkInv'
    <2>1. /\ pc = "check" /\ pc' = "check" /\ s' = s /\ i' = i
          /\ t \in todo /\ t \in unmatched
          /\ todo' = todo \ {t} /\ unmatched' = unmatched \ {t}
          /\ revision_added' = revision_added
      BY <1>7 DEF CheckPresent, collected
    <2>2. revision_removed' = [revision_removed EXCEPT ![t] = NoRev]
      BY <1>7 DEF CheckPresent, TypeOK
    <2>3. CitedNow(t) /\ AddedByFirst(s, i - 1, t, revision_added[t])
      <3>1. t \in Discovered /\ AccurateUpTo(i - 1, t) /\ CitedNow(t)
        BY <2>1 DEF WalkInv
      <3>2. i - 1 \in Nat /\ \A k \in 1 .. i - 1 : s[k].revision_id \in RevIds
        BY <1>1, <1>2, <1>3, <2>1
      <3> QED
        BY <3>1, <3>2, AccurateCases DEF AccurateUpTo, Discovered
    <2>4. Accurate(s, i, t, revision_added[t], NoRev)
      BY <1>3, <2>1, <2>3, StillCited DEF CitedNow
    <2>5. \A u \in Titles : u # t => revision_removed'[u] = revision_removed[u]
      BY <2>2 DEF TypeOK
    <2>6. revision_removed'[t] = NoRev
      BY <2>2 DEF TypeOK
    <2> QED
      BY <2>1, <2>4, <2>5, <2>6
         DEF WalkInv, HistoryExact, AccurateUpTo, UndiscoveredUpTo, CitedNow, Discovered
  <1>8. ASSUME NEW t \in Titles, CheckAbsent(t) PROVE WalkInv'
    <2>1. /\ pc = "check" /\ pc' = "check" /\ s' = s /\ i' = i
          /\ t \in todo /\ t \notin unmatched
          /\ todo' = todo \ {t} /\ unmatched' = unmatched
          /\ revision_added' = revision_added
      BY <1>8 DEF CheckAbsent, collected
    <2>2. /\ t \notin s[i].citations
          /\ AddedByFirst(s, i - 1, t, revision_added[t])
          /\ RemovedAfterLast(s, i - 1, t, revision_removed[t])
      <3>1. t \in Discovered /\ AccurateUpTo(i - 1, t) /\ ~ CitedNow(t)
        BY <2>1 DEF WalkInv
      <3>2. i - 1 \in Nat /\ \A k \in 1 .. i - 1 : s[k].revision_id \in RevIds
        BY <1>1, <1>2, <1>3, <2>1
      <3> QED
        BY <3>1, <3>2, AccurateCases DEF AccurateUpTo, Discovered, CitedNow
    <2>3. /\ \A u \in Titles : u # t => revision_removed'[u] = revision_removed[u]
          /\ Accurate(s, i, t, revision_added[t], revision_removed'[t])
      <3>1. CASE Unmarked(t)
        <4>1. revision_removed' = [revision_removed EXCEPT ![t] = s[i].revision_id]
          BY <1>8, <3>1 DEF CheckAbsent, CurrentId
        <4>2. Accurate(s, i, t, revision_added[t], s[i].revision_id)
          BY <1>1, <1>2, <1>3, <2>1, <2>2, <3>1, NowRemoved DEF Unmarked
        <4> QED
          BY <4>1, <4>2 DEF TypeOK
      <3>2. CASE ~ Unmarked(t)
        <4>1. revision_removed' = revision_removed
          BY <1>8, <3>2 DEF CheckAbsent
        <4>2. Accurate(s, i, t, revision_added[t], revision_removed[t])
          BY <1>3, <2>1, <2>2, <3>2, StillRemoved DEF Unmarked
        <4> QED
          BY <4>1, <4>2
      <3> QED
        BY <3>1, <3>2
    <2> QED
      BY <2>1, <2>3
         DEF WalkInv, HistoryExact, AccurateUpTo, UndiscoveredUpTo, CitedNow, Discovered
  <1>9. CASE CheckDone
    <2>1. /\ pc = "check" /\ pc' = "add" /\ s' = s /\ i' = i
          /\ todo = {} /\ todo' = unmatched /\ UNCHANGED discovered
      BY <1>9 DEF CheckDone, collected
    <2>2. \A t \in Titles : t \in unmatched => UndiscoveredUpTo(i - 1, t) /\ CitedNow(t)
      BY <2>1 DEF WalkInv
    <2>3. \A t \in Titles : t \notin unmatched => AccurateUpTo(i, t)
      <3> SUFFICES ASSUME NEW t \in Titles, t \notin unmatched PROVE AccurateUpTo(i, t)
        OBVIOUS
      <3>1. CASE t \in Discovered
        BY <2>1, <3>1 DEF WalkInv
      <3>2. CASE t \notin Discovered
        <4>1. UndiscoveredUpTo(i - 1, t) /\ ~ CitedNow(t)
          BY <2>1, <3>2 DEF WalkInv
        <4> QED
          BY <1>3, <2>1, <4>1, NotYetCited DEF UndiscoveredUpTo, AccurateUpTo, CitedNow
      <3> QED
        BY <3>1, <3>2
    <2> QED
      BY <2>1, <2>2, <2>3
         DEF WalkInv, HistoryExact, AccurateUpTo, UndiscoveredUpTo, CitedNow, discovered
  <1>10. ASSUME NEW t \in Titles, AddNew(t) PROVE WalkInv'
    <2>1. /\ pc = "add" /\ pc' = "add" /\ s' = s /\ i' = i
          /\ t \in todo /\ todo' = todo \ {t}
          /\ revision_removed' = revision_removed
          /\ revision_added' = [revision_added EXCEPT ![t] = s[i].revision_id]
      BY <1>10 DEF AddNew, collected, CurrentId
    <2>2. UndiscoveredUpTo(i - 1, t) /\ CitedNow(t)
      BY <2>1 DEF WalkInv
    <2>3. revision_removed[t] = NoRev
      BY <2>2 DEF UndiscoveredUpTo, Undiscovered
    <2>4. Accurate(s, i, t, s[i].revision_id, NoRev)
      BY <1>3, <2>1, <2>2, NowAdded DEF UndiscoveredUpTo, CitedNow
    <2>5. /\ revision_added'[t] = s[i].revision_id
          /\ \A u \in Titles : u # t => revision_added'[u] = revision_added[u]
      BY <2>1 DEF TypeOK
    <2> QED
      BY <2>1, <2>3, <2>4, <2>5
         DEF WalkInv, HistoryExact, AccurateUpTo, UndiscoveredUpTo, CitedNow
  <1>11. CASE AddDone
    BY <1>11 DEF AddDone, AllAdded, WalkInv, HistoryExact, AccurateUpTo, collected, discovered
  <1>12. CASE StorePage
    BY <1>12 DEF StorePage, Store, ClearPage, EndWalk, WalkInv, HistoryExact
  <1>13. CASE UNCHANGED vars
    BY <1>13 DEF vars, collected, discovered, WalkInv, HistoryExact, AccurateUpTo,
                 UndiscoveredUpTo, CitedNow, Discovered
  <1> QED
    BY <1>4, <1>5, <1>6, <1>7, <1>8, <1>9, <1>10, <1>11, <1>12, <1>13
       DEF Next, FinishPage

THEOREM WalkCorrect == Spec => []WalkInv
  BY InitWalkInv, NextWalkInv, TypeCorrect, KnownCorrect, PTL DEF Spec

\* Between two revisions every title's fields say which revision added it and
\* which removed it, of those walked so far.
THEOREM HistoryCorrect == Spec => []HistoryExact
  <1>1. WalkInv => HistoryExact
    BY DEF WalkInv
  <1> QED
    BY <1>1, WalkCorrect, PTL

-----------------------------------------------------------------------------
(* PageCitations implements CitationHistory. *)

\* The least and the greatest element of a set of positions.
LEMMA FirstIs ==
  ASSUME NEW C \in SUBSET Nat, NEW k \in C, \A j \in C : k <= j
  PROVE  History!First(C) = k
  <1>1. \A x \in C : (\A j \in C : x <= j) => x = k
    OBVIOUS
  <1> QED
    BY <1>1 DEF History!First

LEMMA LastIs ==
  ASSUME NEW C \in SUBSET Nat, NEW k \in C, \A j \in C : j <= k
  PROVE  History!Last(C) = k
  <1>1. \A x \in C : (\A j \in C : j <= x) => x = k
    OBVIOUS
  <1> QED
    BY <1>1 DEF History!Last

\* Accurate fields are the ones the abstract summary asks for.
LEMMA AccurateIsSummary ==
  ASSUME NEW s, NEW n \in Nat, NEW t, NEW a, NEW d, Accurate(s, n, t, a, d)
  PROVE  a = History!Added(s, n, t) /\ d = History!Removed(s, n, t)
  <1> DEFINE C == History!Citing(s, n, t)
  <1>0. C = { k \in 1 .. n : t \in s[k].citations }
    BY DEF History!Citing
  <1>1. CASE Undiscovered(s, n, t, a, d)
    <2>1. C = {}
      BY <1>0, <1>1 DEF Undiscovered
    <2> QED
      BY <1>1, <2>1 DEF Undiscovered, History!Added, History!Removed
  <1>2. CASE AddedByFirst(s, n, t, a) /\ RemovedAfterLast(s, n, t, d)
    <2>1. PICK k \in 1 .. n : /\ a = s[k].revision_id
                              /\ t \in s[k].citations
                              /\ \A j \in 1 .. k - 1 : t \notin s[j].citations
      BY <1>2 DEF AddedByFirst
    <2>2. k \in C /\ \A j \in C : k <= j
      BY <1>0, <2>1
    <2>3. C \in SUBSET Nat
      BY <1>0
    <2>4. History!First(C) = k
      <3> HIDE DEF C
      <3> QED
        BY <2>2, <2>3, FirstIs
    <2>5. a = History!Added(s, n, t)
      BY <2>1, <2>2, <2>4 DEF History!Added
    <2>6. CASE d = NoRev /\ t \in s[n].citations
      <3>1. n \in C
        BY <1>0, <2>1, <2>6
      <3> QED
        BY <2>5, <2>6, <3>1 DEF History!Removed
    <2>7. CASE \E m \in 2 .. n : /\ d = s[m].revision_id
                                 /\ t \in s[m - 1].citations
                                 /\ \A j \in m .. n : t \notin s[j].citations
      <3>1. PICK m \in 2 .. n : /\ d = s[m].revision_id
                                /\ t \in s[m - 1].citations
                                /\ \A j \in m .. n : t \notin s[j].citations
        BY <2>7
      <3>2. m - 1 \in C /\ \A j \in C : j <= m - 1
        BY <1>0, <3>1
      <3>3. History!Last(C) = m - 1
        <4> HIDE DEF C
        <4> QED
          BY <2>3, <3>2, LastIs
      <3>4. n \notin C /\ C # {}
        BY <1>0, <3>1, <3>2
      <3> QED
        BY <2>5, <3>1, <3>3, <3>4 DEF History!Removed
    <2> QED
      BY <1>2, <2>6, <2>7 DEF RemovedAfterLast
  <1> QED
    BY <1>1, <1>2 DEF Accurate

\* The revisions are in chronological order once they have been sorted.
Ordered == pc # "collect" => History!Chronological(citations_by_revision_)

\* What a reordering of the revisions looks like to the abstract page.
LEMMA SortIsArrange == TypeOK /\ SortRevisions => History!Arrange /\ Ordered'
  <1> SUFFICES ASSUME TypeOK, SortRevisions PROVE History!Arrange /\ Ordered'
    OBVIOUS
  <1> DEFINE s == citations_by_revision_
  <1>1. PICK q \in SortOrders(s) : s' = [ k \in DOMAIN s |-> s[q[k]] ]
    BY DEF SortRevisions
  <1>2. /\ q \in [DOMAIN s -> DOMAIN s]
        /\ \A j, k \in DOMAIN s : q[j] = q[k] => j = k
        /\ \A j, k \in DOMAIN s : j < k => s[q[j]].timestamp <= s[q[k]].timestamp
    BY DEF SortOrders
  <1>3. s' \in History!Rearrangements(s)
    BY <1>1, <1>2 DEF History!Rearrangements
  <1>4. DOMAIN s' = DOMAIN s /\ \A k \in DOMAIN s : s'[k] = s[q[k]]
    BY <1>1
  <1>5. History!Chronological(s')
    BY <1>2, <1>4 DEF History!Chronological
  <1> QED
    BY <1>3, <1>5 DEF History!Arrange, Ordered, SortRevisions, outputs

LEMMA NextOrdered == TypeOK /\ Ordered /\ [Next]_vars => Ordered'
  <1> SUFFICES ASSUME TypeOK, Ordered, [Next]_vars PROVE Ordered'
    OBVIOUS
  <1>1. CASE SortRevisions
    BY <1>1, SortIsArrange
  <1>2. CASE StorePage \/ Collect
    BY <1>2 DEF StorePage, Store, ClearPage, EndWalk, Collect, OnEndRevision, Remembered, Ordered
  <1>3. ASSUME pc # "collect" \/ UNCHANGED pc, UNCHANGED citations_by_revision_
        PROVE  Ordered'
    BY <1>3 DEF Ordered
  <1>4. CASE NextRevision \/ CheckDone \/ AddDone \/ UNCHANGED vars
    BY <1>3, <1>4 DEF NextRevision, CheckDone, AddDone, AllAdded, vars, collected
  <1>5. ASSUME NEW t \in Titles, CheckPresent(t) \/ CheckAbsent(t) \/ AddNew(t)
        PROVE  Ordered'
    BY <1>3, <1>5 DEF CheckPresent, CheckAbsent, AddNew, collected
  <1> QED
    BY <1>1, <1>2, <1>4, <1>5 DEF Next, FinishPage

THEOREM OrderedCorrect == Spec => []Ordered
  <1>1. Init => Ordered
    BY DEF Init, Ordered
  <1> QED
    BY <1>1, NextOrdered, TypeCorrect, PTL DEF Spec

\* Storing a page publishes the summary of its history.
LEMMA StoreIsPublish ==
  TypeOK /\ StoreExact /\ WalkInv /\ Ordered /\ StorePage => History!Publish
  <1> SUFFICES ASSUME TypeOK, StoreExact, WalkInv, Ordered, StorePage
               PROVE  History!Publish
    OBVIOUS
  <1> DEFINE s == citations_by_revision_
             p == History!Summary(s)
  <1>1. Len(s) \in Nat /\ i = Len(s)
    BY DEF TypeOK, StorePage, Store, ClearPage, EndWalk
  <1>2. \A t \in Titles : Accurate(s, Len(s), t, revision_added[t], revision_removed[t])
    BY <1>1 DEF WalkInv, HistoryExact, StorePage, Store, ClearPage, EndWalk
  <1>3. \A t \in Titles : /\ revision_added[t] = History!Added(s, Len(s), t)
                          /\ revision_removed[t] = History!Removed(s, Len(s), t)
    BY <1>1, <1>2, AccurateIsSummary
  <1>4. /\ revision_added = [ t \in Titles |-> History!Added(s, Len(s), t) ]
        /\ revision_removed = [ t \in Titles |-> History!Removed(s, Len(s), t) ]
    BY <1>3 DEF TypeOK
  <1>5. p = [added |-> revision_added, removed |-> revision_removed]
    BY <1>4 DEF History!Summary
  <1>6. revisions_to_store_ = History!Referenced(p)
    BY <1>5 DEF StoreExact, History!Referenced
  <1>7. History!Chronological(s)
    BY DEF Ordered, StorePage, Store, ClearPage, EndWalk
  <1> HIDE DEF p
  <1> QED
    BY <1>5, <1>6, <1>7 DEF StorePage, Store, ClearPage, EndWalk, History!Publish, p

\* Every step is one of the abstract history or leaves it alone.
LEMMA StepRefines ==
  TypeOK /\ StoreExact /\ WalkInv /\ Ordered /\ [Next]_vars
    => [History!Next]_(History!vars)
  <1> SUFFICES ASSUME TypeOK, StoreExact, WalkInv, Ordered, [Next]_vars
               PROVE  [History!Next]_(History!vars)
    OBVIOUS
  <1>1. CASE Collect
    BY <1>1 DEF Collect, OnEndRevision, Remembered, RevisionCitations, outputs,
                History!Next, History!Deliver, History!Revisions
  <1>2. CASE SortRevisions
    BY <1>2, SortIsArrange DEF History!Next
  <1>3. CASE StorePage
    BY <1>3, StoreIsPublish DEF History!Next
  <1>4. CASE \/ NextRevision \/ CheckDone \/ AddDone \/ UNCHANGED vars
             \/ \E t \in Titles : CheckPresent(t) \/ CheckAbsent(t) \/ AddNew(t)
    BY <1>4 DEF NextRevision, CheckDone, AddDone, AllAdded, CheckPresent, CheckAbsent, AddNew,
                vars, collected, outputs, History!vars
  <1> QED
    BY <1>1, <1>2, <1>3, <1>4 DEF Next, FinishPage

\* The parser implements the abstract history: the pages it stores are the
\* summaries of the delivered revisions in chronological order, and the
\* revisions it stores are those the summaries refer to.
THEOREM HistoryImplemented == Spec => ImplementsHistory
  <1>1. Init => History!Init
    BY DEF Init, History!Init
  <1> QED
    BY <1>1, StepRefines, TypeCorrect, StoreCorrect, WalkCorrect, OrderedCorrect,
       PTL DEF Spec, ImplementsHistory, History!Spec
=============================================================================
