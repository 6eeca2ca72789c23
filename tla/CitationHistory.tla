-------------------------- MODULE CitationHistory --------------------------
(***************************************************************************)
(* What the extraction of a dump promises, without saying how: a page is a *)
(* bag of revisions delivered in document order; when the page ends its    *)
(* revisions are put in chronological order and a summary of the history   *)
(* is published, saying of every citation title which revision introduced  *)
(* it and which revision dropped it for good.                              *)
(*                                                                         *)
(* Interface: include/citescoop/extract.h, proto Page / Citation.          *)
(* PageCitations is shown to implement this module.                        *)
(***************************************************************************)
EXTENDS Integers, Sequences, FiniteSets

CONSTANTS
  RevIds,     \* revision identifiers
  Times,      \* timestamps
  Titles,     \* citation keys
  NoRev       \* an unset revision_added / revision_removed field

VARIABLES
  page,       \* the revisions of the page being delivered
  pages,      \* the published summaries, oldest first
  revisions   \* identifiers of the revisions published along with them

vars == << page, pages, revisions >>

Revisions == [revision_id : RevIds, timestamp : Times, citations : SUBSET Titles]

Chronological(s) ==
  \A j, k \in DOMAIN s : j < k => s[j].timestamp <= s[k].timestamp

\* The positions among the first n revisions of s whose text cites t.
Citing(s, n, t) == { k \in 1 .. n : t \in s[k].citations }

First(S) == CHOOSE k \in S : \A j \in S : k <= j
Last(S)  == CHOOSE k \in S : \A j \in S : j <= k

\* The revision that introduced t, looking at the first n revisions of s.
Added(s, n, t) ==
  IF Citing(s, n, t) = {} THEN NoRev ELSE s[First(Citing(s, n, t))].revision_id

\* The revision that follows the last one citing t; none while t is still
\* cited.  A removal that was undone later leaves no trace.
Removed(s, n, t) ==
  IF Citing(s, n, t) = {} \/ n \in Citing(s, n, t)
    THEN NoRev
    ELSE s[Last(Citing(s, n, t)) + 1].revision_id

Summary(s) == [ added   |-> [ t \in Titles |-> Added(s, Len(s), t) ],
                removed |-> [ t \in Titles |-> Removed(s, Len(s), t) ] ]

\* The revisions a summary refers to.
Referenced(p) ==
  { r \in RevIds : \E t \in Titles : r \in { p.added[t], p.removed[t] } }

Rearrangements(s) ==
  { [ k \in DOMAIN s |-> s[q[k]] ] :
      q \in { f \in [DOMAIN s -> DOMAIN s] :
                \A j, k \in DOMAIN s : f[j] = f[k] => j = k } }

-----------------------------------------------------------------------------

Init ==
  /\ page = << >>
  /\ pages = << >>
  /\ revisions = {}

\* The document delivers one more revision of the current page.
Deliver ==
  /\ \E rev \in Revisions : page' = Append(page, rev)
  /\ UNCHANGED << pages, revisions >>

\* The revisions are put in chronological order; none is lost or invented.
Arrange ==
  /\ page' \in Rearrangements(page)
  /\ Chronological(page')
  /\ UNCHANGED << pages, revisions >>

\* The summary of the page, and the revisions it refers to, become visible.
Publish ==
  /\ Chronological(page)
  /\ pages' = Append(pages, Summary(page))
  /\ revisions' = revisions \cup Referenced(Summary(page))
  /\ page' = << >>

Next == Deliver \/ Arrange \/ Publish

Spec == Init /\ [][Next]_vars
=============================================================================
