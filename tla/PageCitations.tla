--------------------------- MODULE PageCitations ---------------------------
(***************************************************************************)
(* The core of src/extract/dump_parser.cc: how DumpParser turns the        *)
(* revisions of a page into the page's list of citations.                  *)
(*                                                                         *)
(* OnEndRevision collects the revisions in document order.  OnEndPage      *)
(* sorts them by timestamp and walks them once, keeping for every citation *)
(* title the revision that added it and the one that removed it, and a     *)
(* reference count per revision that decides which revisions are stored    *)
(* along with the page.                                                    *)
(*                                                                         *)
(* A citation is abstracted to its key (the title), a timestamp to an      *)
(* integer.  The code's std::map from title to Citation is the pair of     *)
(* total functions revision_added, revision_removed, NoRev standing for an *)
(* unset field; a title is in the map iff its revision_added is set.  The  *)
(* maps from revision id to Revision are the sets of their keys.           *)
(***************************************************************************)
EXTENDS Integers, Sequences, FiniteSets

CONSTANTS
  RevIds,        \* revision ids that occur in a dump; duplicates are possible
  Times,         \* timestamps
  Titles,        \* citation keys
  NoRev,         \* unset revision_added / revision_removed
  StableLength,  \* std::ranges::sort keeps ties in order up to this length
  MaxRevisions,  \* bound: revisions of one page
  MaxPages       \* bound: pages of one dump

ASSUME NoRevAssumption == NoRev \notin RevIds
ASSUME TimesAssumption == Times \subseteq Int
ASSUME TitlesAssumption == IsFiniteSet(Titles)
ASSUME BoundsAssumption ==
  StableLength \in Nat /\ MaxRevisions \in Nat /\ MaxPages \in Nat

VARIABLES
  pc,                      \* where in OnEndPage the parser is
  citations_by_revision_,  \* revisions of the current page
  current_page_revisions_, \* ids of the revisions that can be looked up
  revisions_to_store_,     \* ids of the revisions to store with the page
  i,                       \* revisions the loop of MakePageCitationList began
  todo,                    \* titles the inner loop has still to visit
  unmatched,               \* citations left in revision i by the in-place erase
  revision_added,          \* discovered_citations: title -> adding revision
  revision_removed,        \* discovered_citations: title -> removing revision
  revisions_ref_count,     \* references per revision id
  stored_pages_,           \* output: the pages stored
  stored_revisions_        \* output: ids of the revisions stored

discovered == << revision_added, revision_removed >>
collected  == << citations_by_revision_, current_page_revisions_ >>
outputs    == << stored_pages_, stored_revisions_ >>
vars == << pc, collected, revisions_to_store_, i, todo, unmatched, discovered,
           revisions_ref_count, outputs >>

RevisionCitations ==
  [revision_id : RevIds, timestamp : Times, citations : SUBSET Titles]

NoCitations == [ t \in Titles |-> NoRev ]
NoReferences == [ r \in RevIds |-> 0 ]

Discovered == { t \in Titles : revision_added[t] # NoRev }

CurrentId == citations_by_revision_[i].revision_id

-----------------------------------------------------------------------------

Init ==
  /\ pc = "collect"
  /\ citations_by_revision_ = << >>
  /\ current_page_revisions_ = {}
  /\ revisions_to_store_ = {}
  /\ i = 0
  /\ todo = {}
  /\ unmatched = {}
  /\ revision_added = NoCitations
  /\ revision_removed = NoCitations
  /\ revisions_ref_count = NoReferences
  /\ stored_pages_ = << >>
  /\ stored_revisions_ = {}

\* Mutant: the page only remembers its latest revision.
Remembered_Latest(r) == {r}

\* The revisions of the page that can be looked up, with r.
Remembered(r) == current_page_revisions_ \cup {r}

\* </revision>: the revision and its citations join those of the page.
OnEndRevision(rev) ==
  /\ pc = "collect"
  /\ Len(citations_by_revision_) < MaxRevisions
  /\ Len(stored_pages_) < MaxPages
  /\ citations_by_revision_' = Append(citations_by_revision_, rev)
  /\ current_page_revisions_' = Remembered(rev.revision_id)
  /\ UNCHANGED << pc, revisions_to_store_, i, todo, unmatched, discovered,
                  revisions_ref_count, outputs >>

\* Mutant: the revisions stay in document order.
SortOrders_Unsorted(s) == { [ k \in DOMAIN s |-> k ] }

\* The orders std::ranges::sort may leave s in: the comparison is on the
\* timestamp alone and the algorithm is not stable, except that libstdc++
\* sorts short ranges by insertion.
SortOrders(s) ==
  { q \in [DOMAIN s -> DOMAIN s] :
      /\ \A j, k \in DOMAIN s : q[j] = q[k] => j = k
      /\ \A j, k \in DOMAIN s : j < k =>
           /\ s[q[j]].timestamp <= s[q[k]].timestamp
           /\ (Len(s) <= StableLength /\ s[q[j]].timestamp = s[q[k]].timestamp)
                => q[j] < q[k] }

\* </page>: MakePageCitationList starts by sorting the revisions by date.
SortRevisions ==
  /\ pc = "collect"
  /\ Len(stored_pages_) < MaxPages
  /\ \E q \in SortOrders(citations_by_revision_) :
       citations_by_revision_' =
         [ k \in DOMAIN citations_by_revision_ |-> citations_by_revision_[q[k]] ]
  /\ pc' = "revision"
  /\ UNCHANGED << current_page_revisions_, revisions_to_store_, i, todo,
                  unmatched, discovered, revisions_ref_count, outputs >>

\* The loop takes the next revision and enters CheckExistingCitations.
NextRevision ==
  /\ pc = "revision"
  /\ i < Len(citations_by_revision_)
  /\ pc' = "check"
  /\ i' = i + 1
  /\ todo' = Discovered
  /\ unmatched' = citations_by_revision_[i + 1].citations
  /\ UNCHANGED << collected, revisions_to_store_, discovered,
                  revisions_ref_count, outputs >>

\* One more citation refers to r, whose record is looked up with at() and so
\* must be known, and is stored.
Acquire(r) ==
  /\ r \in current_page_revisions_
  /\ revisions_to_store_' = revisions_to_store_ \cup {r}
  /\ revisions_ref_count' = [revisions_ref_count EXCEPT ![r] = @ + 1]

\* Mutant: r is dropped although one reference is left.
Dropped_OffByOne(r) == revisions_ref_count[r] - 1 <= 1

\* The reference to r taken back was its last.
Dropped(r) == revisions_ref_count[r] - 1 <= 0

\* Mutant: the count stays.
Uncounted_Stays(r) == revisions_ref_count

Uncounted(r) == [revisions_ref_count EXCEPT ![r] = @ - 1]

\* One citation less refers to r, which the last one takes along.
Release(r) ==
  /\ revisions_ref_count' = Uncounted(r)
  /\ revisions_to_store_' = revisions_to_store_ \ (IF Dropped(r) THEN {r} ELSE {})

\* CheckExistingCitations, t is still cited: take it out of the revision and
\* undo its removal, if any.
CheckPresent(t) ==
  /\ pc = "check" /\ t \in todo /\ t \in unmatched
  /\ todo' = todo \ {t}
  /\ unmatched' = unmatched \ {t}
  /\ \/ /\ revision_removed[t] # NoRev
        /\ Release(revision_removed[t])
        /\ revision_removed' = [revision_removed EXCEPT ![t] = NoRev]
     \/ /\ revision_removed[t] = NoRev
        /\ UNCHANGED << revisions_ref_count, revisions_to_store_,
                        revision_removed >>
  /\ UNCHANGED << pc, collected, i, revision_added, outputs >>

\* Mutant: an earlier removal is overwritten by a later one.
Unmarked_Always(t) == TRUE

\* The citation is not marked as removed yet.
Unmarked(t) == revision_removed[t] = NoRev

\* CheckExistingCitations, t is not cited: this revision removed it, unless
\* an earlier one is already marked.
CheckAbsent(t) ==
  /\ pc = "check" /\ t \in todo /\ t \notin unmatched
  /\ todo' = todo \ {t}
  /\ \/ /\ Unmarked(t)
        /\ Acquire(CurrentId)
        /\ revision_removed' = [revision_removed EXCEPT ![t] = CurrentId]
     \/ /\ ~ Unmarked(t)
        /\ UNCHANGED << revisions_ref_count, revisions_to_store_,
                        revision_removed >>
  /\ UNCHANGED << pc, collected, i, unmatched, revision_added, outputs >>

\* AddNewCitations is entered when every discovered title has been checked.
CheckDone ==
  /\ pc = "check" /\ todo = {}
  /\ pc' = "add"
  /\ todo' = unmatched
  /\ UNCHANGED << collected, revisions_to_store_, i, unmatched, discovered,
                  revisions_ref_count, outputs >>

\* AddNewCitations: a title not discovered before was added by this revision.
\* CheckExistingCitations has taken the discovered ones out, so the test does not
\* fail; if it did the walk would stop here (PageStored).
AddNew(t) ==
  /\ pc = "add" /\ t \in todo
  /\ t \notin Discovered
  /\ todo' = todo \ {t}
  /\ Acquire(CurrentId)
  /\ revision_added' = [revision_added EXCEPT ![t] = CurrentId]
  /\ UNCHANGED << pc, collected, i, unmatched, revision_removed, outputs >>

\* Mutant: the walk goes on only if the revision had new citations.
AllAdded_NeedsNew == todo = {} /\ unmatched # {}

AllAdded == todo = {}

\* Every new citation has been added: on to the next revision.
AddDone ==
  /\ pc = "add" /\ AllAdded
  /\ pc' = "revision"
  /\ UNCHANGED << collected, revisions_to_store_, i, todo, unmatched,
                  discovered, revisions_ref_count, outputs >>

\* Mutant: the revisions of a page take the place of those stored before.
Store_Replaces ==
  /\ stored_pages_' = Append(stored_pages_, [ added   |-> revision_added,
                                              removed |-> revision_removed ])
  /\ stored_revisions_' = revisions_to_store_

\* Store: the output gains the page and the revisions it refers to.
Store ==
  /\ stored_pages_' = Append(stored_pages_, [ added   |-> revision_added,
                                              removed |-> revision_removed ])
  /\ stored_revisions_' = stored_revisions_ \cup revisions_to_store_

\* Mutant: the revisions to store are not cleared with the page.
ClearPage_KeepsRevisions ==
  /\ citations_by_revision_' = << >> /\ current_page_revisions_' = {}
  /\ UNCHANGED revisions_to_store_

ClearPage ==
  /\ citations_by_revision_' = << >> /\ current_page_revisions_' = {}
  /\ revisions_to_store_' = {}

\* Mutant: the walk over the next page starts where this one ended.
EndWalk_KeepsIndex == i' = i /\ todo' = {} /\ unmatched' = {}

EndWalk == i' = 0 /\ todo' = {} /\ unmatched' = {}

\* The discovered citations are copied to the page, Store keeps the page and
\* the revisions to store, and everything about the page is cleared.
StorePage ==
  /\ pc = "revision"
  /\ i = Len(citations_by_revision_)
  /\ pc' = "collect"
  /\ Store /\ ClearPage /\ EndWalk
  /\ revision_added' = NoCitations
  /\ revision_removed' = NoCitations
  /\ revisions_ref_count' = NoReferences

-----------------------------------------------------------------------------

\* The SAX events that end a revision or a page are input ...
Collect == \E rev \in RevisionCitations : OnEndRevision(rev)

\* ... and the rest of OnEndPage runs to its end without waiting for any.
FinishPage ==
  \/ NextRevision
  \/ \E t \in Titles : CheckPresent(t) \/ CheckAbsent(t) \/ AddNew(t)
  \/ CheckDone
  \/ AddDone
  \/ StorePage

Next == Collect \/ SortRevisions \/ FinishPage

Spec == Init /\ [][Next]_vars /\ WF_vars(FinishPage)

-----------------------------------------------------------------------------

Pages == [ added   : [Titles -> RevIds \cup {NoRev}],
           removed : [Titles -> RevIds \cup {NoRev}] ]

\* Type correctness.
TypeOK ==
  /\ pc \in {"collect", "revision", "check", "add"}
  /\ citations_by_revision_ \in Seq(RevisionCitations)
  /\ current_page_revisions_ \subseteq RevIds
  /\ revisions_to_store_ \subseteq RevIds
  /\ i \in 0 .. Len(citations_by_revision_)
  /\ todo \subseteq Titles
  /\ unmatched \subseteq Titles
  /\ revision_added \in [Titles -> RevIds \cup {NoRev}]
  /\ revision_removed \in [Titles -> RevIds \cup {NoRev}]
  /\ revisions_ref_count \in [RevIds -> Int]
  /\ stored_pages_ \in Seq(Pages)
  /\ stored_revisions_ \subseteq RevIds

\* The reference count of a revision is the number of citations that name it,
\* after every single step of the two loops: CheckExistingCitations takes the
\* count down when a removal is undone and relies on it to drop the revision.
Naming(f, r) == { t \in Titles : f[t] = r }

Referrers(r) == Cardinality(Naming(revision_added, r))
                  + Cardinality(Naming(revision_removed, r))

RefCountExact == \A r \in RevIds : revisions_ref_count[r] = Referrers(r)

\* The revisions to store are those some citation of the page refers to: none
\* is missing, none is orphaned (test "Orphaned revision inclusion").
StoreExact ==
  revisions_to_store_ =
    { r \in RevIds : \E t \in Titles : r \in {revision_added[t], revision_removed[t]} }

\* Every stored page finds all the revisions it refers to in the output and the
\* output holds no other: nothing leaks from one page into the next.
OutputExact ==
  stored_revisions_ =
    { r \in RevIds : \E k \in DOMAIN stored_pages_, t \in Titles :
        r \in {stored_pages_[k].added[t], stored_pages_[k].removed[t]} }

\* current_page_revisions_.at(id), which would throw, always finds the revision
\* the loops look up: the page's revisions are known under their ids, sorting
\* and duplicate ids notwithstanding.
LookupSucceeds ==
  pc \in {"check", "add"} => CurrentId \in current_page_revisions_

\* What the fields a (revision_added) and d (revision_removed) of the title t
\* should say about the first n revisions of s.
Undiscovered(s, n, t, a, d) ==
  /\ a = NoRev /\ d = NoRev
  /\ \A k \in 1 .. n : t \notin s[k].citations

AddedByFirst(s, n, t, a) ==
  \E k \in 1 .. n :
    /\ a = s[k].revision_id
    /\ t \in s[k].citations
    /\ \A j \in 1 .. k - 1 : t \notin s[j].citations

RemovedAfterLast(s, n, t, d) ==
  \/ d = NoRev /\ t \in s[n].citations
  \/ \E k \in 2 .. n :
       /\ d = s[k].revision_id
       /\ t \in s[k - 1].citations
       /\ \A j \in k .. n : t \notin s[j].citations

Accurate(s, n, t, a, d) ==
  \/ Undiscovered(s, n, t, a, d)
  \/ AddedByFirst(s, n, t, a) /\ RemovedAfterLast(s, n, t, d)

\* Between two revisions the list is accurate for those walked so far: a title
\* was added by the first revision that cites it and removed by the one after
\* the last that does, whatever was removed and re-added in between.
HistoryExact ==
  pc = "revision" =>
    \A t \in Titles : Accurate(citations_by_revision_, i, t,
                               revision_added[t], revision_removed[t])

\* Once its end tag has been met, a page is stored.
PageStored == pc = "revision" ~> pc = "collect"

\* The revisions of one moment stay in document order when they are sorted.
SameMoment(s, m) == SelectSeq(s, LAMBDA rev : rev.timestamp = m)

TiesKeepDocumentOrder ==
  [][ pc = "collect" /\ pc' = "revision" =>
        \A m \in Times : SameMoment(citations_by_revision_', m)
                           = SameMoment(citations_by_revision_, m) ]_vars

\* The page list and the stored revisions are those the abstract history asks for.
History == INSTANCE CitationHistory
             WITH page      <- citations_by_revision_,
                  pages     <- stored_pages_,
                  revisions <- stored_revisions_

ImplementsHistory == History!Spec
=============================================================================
