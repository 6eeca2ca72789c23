----------------------------- MODULE DumpParser -----------------------------
(***************************************************************************)
(* The SAX handlers of src/extract/dump_parser.cc: how DumpParser finds    *)
(* pages, revisions and their fields in a MediaWiki XML dump.              *)
(*                                                                         *)
(* libxml++ delivers the events of a well-nested document that follows the *)
(* MediaWiki export schema 0.11, or fails at any point.  Beside the        *)
(* parser's members the module keeps the tree of the document so far,      *)
(* which the handlers never see: the properties compare the two.           *)
(*                                                                         *)
(* The text of an element arrives in chunks.  The chunks of a document are *)
(* numbered, so that text attributed to the wrong element always shows; a  *)
(* number, a timestamp and a wikitext are what their chunks make them.     *)
(* What MakePageCitationList makes of the collected revisions is the       *)
(* subject of PageCitations: here a stored page carries the list it is     *)
(* computed from.                                                          *)
(***************************************************************************)
EXTENDS Ascending, Sequences, SequencesExt

CONSTANTS
  OddChunks,       \* chunks that are no digit, no time, and an identifier of a
                   \* citation that cannot be parsed
  TextOptional,    \* whether a revision may come without a <text> element
  MaxPieces,       \* bound: chunks of one element
  MaxPages,        \* bound: pages of a document
  MaxRevisions,    \* bound: revisions of a page
  MaxExtras        \* bound: what a document has and could do without, its optional
                   \* elements and its chunks but the first of every id

ASSUME BoundsAssumption == MaxExtras \in Nat /\ MaxPieces \in Nat
ASSUME OddChunksAssumption == OddChunks \subseteq Nat \ {0}
ASSUME TextOptionalAssumption == TextOptional \in BOOLEAN

VARIABLES
  in_page_, in_revision_, in_contributor_,  \* where in the document
  should_store_,           \* whether on_characters keeps its text
  text_buf_,               \* text of the field being read
  current_page_, current_revision_,
  current_citations_,      \* citations of the last <text> parsed
  citations_by_revision_,  \* revisions of the current page
  stored_pages_,           \* output
  status,                  \* "parsing", "returned" or "threw"
  open,                    \* the document: its open elements, outermost first
  chunks,                  \* the document: chunks of text delivered so far
  extras                   \* the document: what it could have done without so far

flags    == << in_page_, in_revision_, in_contributor_ >>
currents == << current_page_, current_revision_, current_citations_,
               citations_by_revision_ >>
vars == << flags, should_store_, text_buf_, currents, stored_pages_, status,
           open, chunks, extras >>

-----------------------------------------------------------------------------
(* The document. *)

\* The children of an element that matter, in the order of the schema: those with
\* a name the handlers look at, and the elements these can be in.  A <content> is
\* another slot of the revision, with a <text> of its own.
Children(name) ==
  CASE name = "mediawiki"   -> << "siteinfo", "page", "logitem" >>
    [] name = "page"        -> << "title", "id", "revision", "upload" >>
    [] name = "upload"      -> << "contributor" >>
    [] name = "logitem"     -> << "id", "contributor", "text" >>
    [] name = "revision"    -> << "id", "parentid", "timestamp", "contributor", "text",
                                  "content" >>
    [] name = "content"     -> << "text" >>
    [] name = "contributor" -> << "username", "id" >>
    [] OTHER                -> << >>

\* How many of them there may be, and which of a parent's may be missing.
AtMost(name) == CASE name = "page" -> MaxPages
                  [] name = "revision" -> MaxRevisions
                  [] name \in {"content", "upload", "logitem"} -> MaxExtras
                  [] OTHER -> 1
Optional(parent) ==
  CASE parent = "revision" -> {"parentid", "contributor", "content"}
                                \cup (IF TextOptional THEN {"text"} ELSE {})
    [] parent = "contributor" -> {"username", "id"}
    [] parent = "logitem" -> {"contributor", "text"}
    [] OTHER -> {"siteinfo", "page", "revision", "upload", "logitem"}

Element(name) == [name |-> name, text |-> << >>, children |-> << >>]
Top == Last(open)
Inside(name) == \E k \in DOMAIN open : open[k].name = name

\* The children named name of an element, and the text of the only such one.
Named(e, name) == Selected(e.children, { k \in DOMAIN e.children : e.children[k].name = name })
Text(e, name) == IF Named(e, name) = << >> THEN << >> ELSE Head(Named(e, name)).text

\* The k-th kind of child of the innermost element may come next.  Revisions and
\* uploads come in any order.
MayCome(k) ==
  LET kinds == Children(Top.name)
      had(j) == Len(Named(Top, kinds[j]))
  IN  /\ \A j \in 1 .. k - 1 : kinds[j] \in Optional(Top.name) \/ had(j) > 0
      /\ \A j \in k + 1 .. Len(kinds) : kinds[k] = "revision" \/ had(j) = 0
      /\ k <= Len(kinds) => had(k) < AtMost(kinds[k])

\* std::stol reads the leading digits and throws when there is none; a time that
\* is not understood leaves the epoch.
Digits(text) ==
  LET odd == { k \in DOMAIN text : text[k] \in OddChunks }
  IN  IF odd = {} THEN text ELSE SubSeq(text, 1, Min(odd) - 1)
Regular(text) == ToSet(text) \cap OddChunks = {}
Timestamp(text) == IF Regular(text) THEN text ELSE << >>

\* Parser::Parse, which throws when an identifier is no number.
Citations(text) == ToSet(text)

-----------------------------------------------------------------------------
(* The parser. *)

\* Messages with no field set; a number is its digits, 0 has none.
NoPage == [page_id |-> << >>, title |-> << >>]
NoRevision == [revision_id |-> << >>, parent_id |-> << >>, user |-> << >>,
               timestamp |-> << >>]

Init ==
  /\ in_page_ = FALSE /\ in_revision_ = FALSE /\ in_contributor_ = FALSE
  /\ should_store_ = FALSE
  /\ text_buf_ = << >>
  /\ current_page_ = NoPage
  /\ current_revision_ = NoRevision
  /\ current_citations_ = {}
  /\ citations_by_revision_ = << >>
  /\ stored_pages_ = << >>
  /\ status = "parsing"
  /\ open = << Element("mediawiki") >>
  /\ chunks = 0 /\ extras = 0

\* Mutant: the text of the previous field is kept.
ClearText_Keeps == UNCHANGED text_buf_

ClearText == text_buf_' = << >>

\* A start tag: remember where we are, or that the text of a field follows.
on_start_element(name) ==
  /\ ClearText
  /\ in_page_' = (in_page_ \/ name = "page")
  /\ in_revision_' = (in_revision_ \/ name = "revision")
  /\ in_contributor_' = (in_contributor_ \/ name = "contributor")
  /\ should_store_' = \/ should_store_
                      \/ in_page_ /\ name \in {"title", "id"}
                      \/ in_revision_ /\ name \in {"id", "parentid", "username",
                                                   "text", "timestamp"}
  /\ UNCHANGED << currents, stored_pages_, status >>

\* Text is kept inside a field only.
on_characters(c) ==
  /\ text_buf_' = IF should_store_ THEN Append(text_buf_, c) ELSE text_buf_
  /\ UNCHANGED << flags, should_store_, currents, stored_pages_, status >>

\* An exception leaves the handler and ends the parse.
Throw == status' = "threw" /\ UNCHANGED << flags, should_store_, text_buf_, currents,
                                           stored_pages_ >>

\* Where the flags send the text of an id.
SetsPageId(name) == in_page_ /\ ~ in_revision_ /\ ~ in_contributor_ /\ name = "id"
\* Mutant: a contributor's id is taken for the revision's.
SetsRevisionId_AnyId(name) == in_revision_ /\ name = "id"

SetsRevisionId(name) == in_revision_ /\ ~ in_contributor_ /\ name = "id"
SetsParentId(name) == in_revision_ /\ name = "parentid"

\* std::stol finds no number, or Parse an identifier it cannot read.
FieldThrows(name) ==
  \/ /\ SetsPageId(name) \/ SetsRevisionId(name) \/ SetsParentId(name)
     /\ Digits(text_buf_) = << >>
  \/ in_revision_ /\ name = "text" /\ ~ Regular(text_buf_)

\* The end tag of a field, whose text goes into the page or the revision.
OnEndField(name) ==
  /\ ~ FieldThrows(name)
  /\ current_page_' =
       CASE in_page_ /\ name = "title" -> [current_page_ EXCEPT !.title = text_buf_]
         [] SetsPageId(name) -> [current_page_ EXCEPT !.page_id = Digits(text_buf_)]
         [] OTHER -> current_page_
  /\ current_revision_' =
       CASE SetsRevisionId(name) ->
              [current_revision_ EXCEPT !.revision_id = Digits(text_buf_)]
         [] SetsParentId(name) ->
              [current_revision_ EXCEPT !.parent_id = Digits(text_buf_)]
         [] in_revision_ /\ name = "username" ->
              [current_revision_ EXCEPT !.user = text_buf_]
         [] in_revision_ /\ name = "timestamp" ->
              [current_revision_ EXCEPT !.timestamp = Timestamp(text_buf_)]
         [] OTHER -> current_revision_
  /\ current_citations_' =
       IF in_revision_ /\ name = "text" THEN Citations(text_buf_) ELSE current_citations_
  /\ UNCHANGED << flags, citations_by_revision_, stored_pages_ >>

\* The revision joins the page with the citations parsed last, and is cleared.
OnEndRevision ==
  /\ in_revision_' = FALSE
  /\ citations_by_revision_' =
       Append(citations_by_revision_, [revision  |-> current_revision_,
                                       citations |-> current_citations_])
  /\ current_revision_' = NoRevision
  /\ UNCHANGED << in_page_, in_contributor_, current_page_, current_citations_,
                  stored_pages_ >>

\* The page is stored with what its revisions make of it, and all is cleared.
OnEndPage ==
  /\ in_page_' = FALSE
  /\ stored_pages_' = Append(stored_pages_, [page      |-> current_page_,
                                             revisions |-> citations_by_revision_])
  /\ current_page_' = NoPage
  /\ citations_by_revision_' = << >>
  /\ UNCHANGED << in_revision_, in_contributor_, current_revision_, current_citations_ >>

\* Mutant: once in a contributor, always in it.
OnEndContributor_Stays ==
  UNCHANGED << flags, currents, stored_pages_ >>

\* The ids that follow are no longer the contributor's.
OnEndContributor ==
  /\ in_contributor_' = FALSE
  /\ UNCHANGED << in_page_, in_revision_, currents, stored_pages_ >>

\* An end tag; should_store_ is reset unless the handler threw.
on_end_element(name) ==
  \/ /\ \/ name = "page" /\ OnEndPage
        \/ name = "revision" /\ OnEndRevision
        \/ name = "contributor" /\ OnEndContributor
        \/ name \notin {"page", "revision", "contributor"} /\ OnEndField(name)
     /\ should_store_' = FALSE
     /\ UNCHANGED << text_buf_, status >>
  \/ /\ name \notin {"page", "revision", "contributor"}
     /\ FieldThrows(name)
     /\ Throw

-----------------------------------------------------------------------------
(* The events of a document. *)

\* The document is about to have one more thing, which it could do without if
\* spare holds.
Extra(spare) ==
  /\ spare => extras < MaxExtras
  /\ extras' = IF spare THEN extras + 1 ELSE extras

StartElement ==
  /\ status = "parsing"
  /\ \E k \in DOMAIN Children(Top.name) :
       LET name == Children(Top.name)[k]
       IN  /\ MayCome(k)
           /\ Extra(name \in Optional(Top.name) \ {"page", "revision"})
           /\ on_start_element(name)
           /\ open' = Append(open, Element(name))
  /\ UNCHANGED chunks

Characters ==
  /\ status = "parsing"
  /\ Len(Top.text) < MaxPieces
  /\ Extra(Top.name # "id" \/ Top.text # << >>)
  /\ on_characters(chunks + 1)
  /\ open' = [open EXCEPT ![Len(open)].text = Append(@, chunks + 1)]
  /\ chunks' = chunks + 1

EndElement ==
  /\ status = "parsing"
  /\ Len(open) > 1 /\ MayCome(Len(Children(Top.name)) + 1)
  /\ on_end_element(Top.name)
  /\ open' = [Front(open) EXCEPT ![Len(open) - 1].children = Append(@, Top)]
  /\ UNCHANGED << chunks, extras >>

\* libxml++ met a problem: on_warning, on_error and on_fatal_error all throw.
on_error ==
  /\ status = "parsing"
  /\ Throw
  /\ UNCHANGED << open, chunks, extras >>

\* The document ends: ParseXML returns what has been stored.
Return ==
  /\ status = "parsing"
  /\ Len(open) = 1
  /\ status' = "returned"
  /\ UNCHANGED << flags, should_store_, text_buf_, currents, stored_pages_, open, chunks,
                  extras >>

Next == StartElement \/ Characters \/ EndElement \/ on_error \/ Return

Spec == Init /\ [][Next]_vars

-----------------------------------------------------------------------------

Chunks == Nat \ {0}
Texts == { t \in Seq(Chunks) : Len(t) <= MaxPieces }
Pages == [page_id : Texts, title : Texts]
Revisions == [revision_id : Texts, parent_id : Texts, user : Texts, timestamp : Texts]
Collected == [revision : Revisions, citations : SUBSET Chunks]

\* Type correctness.
TypeOK ==
  /\ flags \in BOOLEAN \X BOOLEAN \X BOOLEAN
  /\ should_store_ \in BOOLEAN
  /\ text_buf_ \in Texts
  /\ current_page_ \in Pages
  /\ current_revision_ \in Revisions
  /\ current_citations_ \subseteq Chunks
  /\ citations_by_revision_ \in Seq(Collected)
  /\ stored_pages_ \in Seq([page : Pages, revisions : Seq(Collected)])
  /\ status \in {"parsing", "returned", "threw"}
  /\ chunks \in Nat /\ extras \in 0 .. MaxExtras

\* The three flags say which elements are open, although revisions, uploads and
\* log items all have contributors and a page has many revisions.
FlagsTrackNesting ==
  status = "parsing" =>
    /\ in_page_ = Inside("page")
    /\ in_revision_ = Inside("revision")
    /\ in_contributor_ = Inside("contributor")

\* What the document says of a revision, of a page and of its pages so far.
User(e) ==
  IF Named(e, "contributor") = << >> THEN << >>
  ELSE Text(Head(Named(e, "contributor")), "username")

\* The last text of a revision: that of its last slot.
LastText(e) ==
  IF Named(e, "content") = << >> THEN Text(e, "text")
  ELSE Text(Last(Named(e, "content")), "text")

RevisionOf(e) ==
  [ revision  |-> [ revision_id |-> Digits(Text(e, "id")),
                    parent_id   |-> Digits(Text(e, "parentid")),
                    user        |-> User(e),
                    timestamp   |-> Timestamp(Text(e, "timestamp")) ],
    citations |-> Citations(LastText(e)) ]

RevisionsOf(e) == LET r == Named(e, "revision") IN [ k \in DOMAIN r |-> RevisionOf(r[k]) ]

PageOf(e) ==
  [ page      |-> [page_id |-> Digits(Text(e, "id")), title |-> Text(e, "title")],
    revisions |-> RevisionsOf(e) ]

DocumentPages == LET p == Named(Head(open), "page") IN [ k \in DOMAIN p |-> PageOf(p[k]) ]

\* Every field of every stored page and revision is the text of its own element:
\* a contributor's id is never taken for the revision's or the page's, whatever
\* the contributor is of; text in pieces is put together; nothing of one revision
\* or page is left in the next.  Of a revision of several slots, the citations
\* are those of the last one's text alone: every <text> replaces what the texts
\* before it gave.
PagesFaithful == stored_pages_ = DocumentPages

\* A revision has the citations of its own last text and, if it has none, none:
\* OnEndRevision clears what it held for the next one.
OwnCitations ==
  \A p \in DOMAIN stored_pages_ : \A k \in DOMAIN stored_pages_[p].revisions :
    stored_pages_[p].revisions[k].citations = DocumentPages[p].revisions[k].citations
=============================================================================
