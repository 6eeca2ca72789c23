# A verification of citescoop

citescoop reads MediaWiki XML dumps and finds out, for every page, which
citation templates its history has contained, which revision introduced each of
them and which removed it. It also converts OpenAlex works snapshots. Results
are protocol buffer messages, in memory or in size-prefixed streams.

This directory holds TLA+ models of that program, TLC configurations that check
them on small instances, and TLAPS proofs about all of them: every invariant of a
passing run is also a theorem. Paths below are relative to the root of the
repository (`src/` is its source directory, `include/` the public headers).

- [Inventory](#inventory)
- [Modules](#modules)
- [Runs](#runs)
- [Fairness and deadlock](#fairness-and-deadlock)
- [Proofs](#proofs)
- [Where code and documentation disagree](#where-code-and-documentation-disagree)
- [What is not modelled](#what-is-not-modelled)
- [Plan](#plan)

## Inventory

The program is single-threaded. What makes it hard is not concurrency but long
sequences of callbacks over member variables that outlive a page, exceptions
that leave a callback in the middle, output streams nobody asks for their
state, a sort that is not stable, and an evaluation order the compiler chooses.

### Page citation history (`src/extract/dump_parser.cc`, `MakePageCitationList`)

*State.* `citations_by_revision_` (revisions of the page with their citations, in
document order until sorted), `current_page_revisions_` (id to revision),
`revisions_to_store_`, and local to the walk `discovered_citations` (title to
citation with `revision_added` and `revision_removed`) and
`revisions_ref_count`.

*Operations.* `OnEndRevision` collects; `OnEndPage` sorts, walks the revisions
once (`CheckExistingCitations`, then `AddNewCitations`, which rely on the former
having erased the known citations from the revision), stores and clears.

*Hard.* Revisions in any order, equal timestamps, repeated ids; a citation
removed, re-added and removed again, so that a count must be taken back; several
citations that share a revision; anything that is not cleared with the page.

*Correct when* the list of a page is the summary of its chronological history;
the revisions stored are exactly those referred to, on each page and over the
dump; the counts are exact at every step; `at()` does not throw; a page that
ends is stored.

### SAX handlers (`src/extract/dump_parser.cc`)

*State.* The flags `in_page_`, `in_revision_`, `in_contributor_`,
`should_store_`, the text buffer, the page, revision and citations being read.

*Operations.* `on_start_element`, `on_characters`, `on_end_element` (with
`OnEndField`, `OnEndRevision`, `OnEndPage`), `on_warning`, `on_error`,
`on_fatal_error`. libxml++ calls them; they call the citation parser.

*Hard.* The `id` elements of pages, revisions and contributors told apart by flags
alone, wherever contributors are; several `text` elements in one revision; text that
comes in pieces, exceptions of `std::stol` and of the citation parser, a document
that ends anywhere.

*Correct when* each field of a stored page or revision is the text of its own
element, the citations of a revision are those of its own text, and what has been stored at an exception is a prefix of the pages.

### Streaming dump parser and message framing (`src/extract/streaming_dump_parser.cc`, `include/citescoop/io.h`)

*State.* Two output streams, two counters; a reader's position.

*Operations.* `Store` overrides that of `DumpParser`: page, then each revision,
each through `MessageWriter::WriteMessage`; `MessageReader::ReadMessage`.

*Hard.* A stream may fail at any byte and only one of the two may; neither
writer nor reader looks at the state of its stream; the size prefix of a reader
at the end is uninitialised. A message over `INT_MAX` bytes has its size written
and nothing else, and a reader that has seen `INT_MAX` bytes sees no more.

*Correct when* what has arrived is a prefix of what was sent, reads back as what
was written, no complete page refers to a revision that is missing from a sound
stream, and the counts returned are those of the messages.

### OpenAlex snapshot processor (`src/openalex/`)

*State.* `seen_ids_`, which lives as long as the processor, over calls.

*Operations.* `ProcessWorksSnapshot` in memory or to three streams; per line
`ExtractAuthors`, `ExtractInstitutions` and `ExtractWork`, as the arguments of
one `std::tuple`, in an order C++ leaves open. `ExtractWork` asks the language map
(`src/langmap.cc`) and `TimeUtil`.

*Hard.* The shared set in any of these orders; fallback ids made from ORCID, ROR
or name; an exception after ids have been marked; a second call.

*Correct when* an id is delivered once, every id a work refers to is delivered as
what it is, each call returns the first of everything not seen before, and what an
exception destroyed is accounted for; the fields of a work are those of its line.

### Wikitext citation parser (`src/parser/`)

*State.* None between calls; within `Parse` the position in the text, the
templates found and the map from title to citation.

*Operations.* `Parse`: the grammar `kWikitextRule`, the filter, `BuildCitation` with
`CheckForIdentKey`, `CheckForUrlKey`, `HandlePmIdKey`, `HandlePmcIdKey`,
`StrToIntIdent`. The SAX handlers call it at `</text>`.

*Hard.* What becomes of a text behind a template the grammar does not accept;
templates in templates; parameters that are repeated, empty or without a value;
citations with the same title or none; numbers that are negative, too large or
followed by something else; an exception in the middle of a text.

*Correct when* the templates found are those of the text, each citation has what
its own template gives and nothing else, the call throws exactly when an
identifier that matters cannot be read, and always ends.

### Extractors (`src/extract/textextractor*.cc`, `bz2extractor*.cc`)

Each call makes a new `DumpParser` or `StreamingDumpParser` and delegates to it;
the bzip2 one puts a Boost filter in front. They keep no state but the citation
parser.

*Hard.* A dump that is cut short and extracted again to the same streams; the two
overloads of `Extract` must agree although one keeps a map and the other a stream
of revisions, in which ids may repeat.

### Other parts

The table behind the language map (`src/languages.gperf`) is constant data. The
protocol buffer definitions are in a git submodule that is not in this tree.
Build files, packaging and CI have no behaviour. The tests are used as
statements about the program.

### How they interact

    libxml++ --events--> DumpParser --text--> Parser
                            |  OnEndPage: MakePageCitationList
                            v  Store(revisions, page)
              in memory: vector and map     StreamingDumpParser: two streams
                                                     |
                                            MessageWriter ~ MessageReader

    JSON lines --> SnapshotProcessorImpl --> vectors, or three streams

## Modules

| Module | Models | Abstracts |
| --- | --- | --- |
| `CitationHistory` | the promise: a page is a bag of revisions; when it ends, the summary of its chronological history is published | everything about how |
| `PageCitations` | `OnEndRevision`, `OnEndPage`, `MakePageCitationList`, `CheckExistingCitations`, `AddNewCitations`, in-memory `Store` | a citation is its title, a timestamp an integer, the record of a revision its id |
| `DumpParser` | all handlers and the fields they fill | texts are sequences of numbered chunks; a stored page carries the revisions its list is made from |
| `MessageIO` | `WriteMessage`, `ReadMessage` | the prefix has two bytes of base four; `INT_MAX` is scaled down; protobuf parses any prefix of a message |
| `Extraction` | both overloads of `Extract` and of `ParseXML`, both `Store`s, the counters, a reader; extends `MessageIO` | a page is the set of revisions it refers to, a revision its id and page |
| `SnapshotProcessor` | both overloads of `ProcessWorksSnapshot`, `ProcessLine`, the three extractions with all fields, `ISOToLanguage` | a string is a sequence of pieces; `UintSize` is small |
| `WikitextParser` | the grammar, the filter, `BuildCitation`, identifiers, the map | a text is a sequence of braces, bars, equals signs and words; `IntMax` is small |
| `MCPageCitations`, `MCSnapshotProcessor`, `MCWikitextParser` | TLC instances: symmetry; sets of JSON lines; texts | |
| `Ascending` | `std::map` and `std::set` in the order of their keys; the elements of a sequence at given positions | |
| `PageCitationsProofs` | proofs about `PageCitations`: counts; history and refinement | |
| `DumpParserProofs` | proofs about `DumpParser`: its flags; the fields it fills | |
| `SnapshotProcessorProofs`, `SnapshotCallProofs` | proofs about `SnapshotProcessor`: ids and references; what a call gives | |
| `ExtractionProofs` | proofs about `Extraction`: streams; what is read back; the two results | |
| `WikitextParserProofs`, `WikitextGrammarProofs` | proofs about `WikitextParser`: citations and exceptions; the grammar | |
| `SequenceLemmas` | lemmas on induction, on sequences, on `FlattenSeq` and on `Ascending` that the modules of proofs share | |

Operators whose comment starts with "Mutant" are wrong versions of the operator
that follows them. Nothing uses them: putting one in the place of the right one
shows that a property notices the mistake.

### PageCitations and the code

Each iteration of the loops is a step, so that the invariants are checked between
any two iterations. The inner loop of `CheckExistingCitations` goes through a
`std::map` in the order of its keys; no iteration depends on another, and the
model lets them come in any order (`todo`), which includes the code's.

| Variable | Code |
| --- | --- |
| `pc` | `"collect"`: waiting for events; `"revision"`: head of the loop of `MakePageCitationList`; `"check"`, `"add"`: inside the two functions |
| `citations_by_revision_`, `revisions_to_store_`, `stored_pages_`, `stored_revisions_` | the members |
| `current_page_revisions_` | the keys of the map; that `insert` keeps the first of two records of an id makes no difference to the ids |
| `i`, `todo` | the loop positions |
| `unmatched` | the citations of revision `i` that `erase(key)` has not removed |
| `revision_added`, `revision_removed` | `discovered_citations`, a title being a key iff its `revision_added` is set |
| `revisions_ref_count` | the map; an absent key counts 0, as `operator[]` makes it |

`Acquire` has `r \in current_page_revisions_` as a guard: `at()` would throw.
`LookupSucceeds` says that it never does, and `PageStored` that the walk never
gets stuck there.

`SortOrders` is what `std::ranges::sort` may do: any order with ascending
timestamps. libstdc++ sorts up to 16 elements by insertion, which keeps ties in
order; `StableLength` is that length. The passing runs set it to 0, that is, they
rely on the C++ standard alone; the run `ties` sets it to 2, so that a page of 3
revisions stands for one of 17.

### DumpParser and the code

`open` is the document as a tree under construction, invisible to the handlers.
`Children`, `AtMost`, `Optional` and `MayCome` are the part of the MediaWiki export
schema (export-0.11) that the handlers react to: the elements whose names they
compare, and those in which these can be, which decide what the flags are. A
revision may have other slots (`content`), each with a `text` of its own, and
`in_contributor_` is set outside a revision in an `upload` of a page and in a
`logitem`, which has an `id` and a `text` that are nobody's. The other elements of
the schema only clear the text buffer, where it holds the text of no field.
`Digits`, `Timestamp`, `Citations` stand for `std::stol` (leading digits, or an
exception), `TimeUtil::FromString` (the result is ignored: a text that is no
time leaves the epoch) and `Parser::Parse`.

### MessageIO, Extraction and the code

`Extraction` runs both overloads of `Extract` on the same dumps, step by step side
by side: `stored_pages_` and `stored_revisions_` are those of the `DumpParser`,
the streams and counters those of the `StreamingDumpParser`. Each call makes both
anew (`FreshCounters`); the streams are the caller's and the same for every call.
`dumps` records the pages of all calls, which is what the streams are compared
with. `Throw` stands for any exception that ends a dump between two `Store`s: one
of a handler, or libxml++'s at a document that ends too early, which is how a
failing decompressor shows. Nothing inside `Store` throws.

`INT_MAX` occurs twice and has two constants, since both cannot be scaled by one
factor on a small instance: as the size of one message (`IntMax`:
`SerializeToOstream` refuses a longer one, and a longer size is negative for
`PushLimit`, which ignores it) and as the bytes of one stream (`ReadLimit`: a
`CodedInputStream` goes no further). `ReadMessage` returns a set: a header that is
cut off leaves `size`, an uninitialised `uint32_t`, with any value, and without a
limit a message ends wherever protobuf finds that it cannot go on.

### SnapshotProcessor and the code

`todo` are the visits that the three extractions of a line have still to make, in
an evaluation order of the arguments of `std::tuple`'s constructor that is chosen
when the line is read; `streaming` is the overload of `ProcessWorksSnapshot`,
chosen with each call. A line is rejected by `json::parse` (`MayThrow`) or by
`ExtractWork`, which needs an id, a status and a PMID that begins with a number
(`WorkThrows`). `delivered` is what the caller has got of all calls: in memory at
`Return` only, streaming after each line. `lost` are the ids in the messages an
exception has destroyed; they stay in `seen_ids_`.

### WikitextParser and the code

Each rule of the grammar is an action on the iterator `first`. Boost.Parser's
alternatives and repetitions do not backtrack into what has matched, and no rule
here has a choice that the next character does not decide, so the walk is
deterministic. `StopRepetition` is the end of `*(...)`: either the text ends or a
template does not match; `prefix_parse` succeeds in both cases, and the exception
"Failed to parse WikiText" is never thrown. White space is dropped: the grammar
skips it or `Parse` and `BuildCitation` trim it.

`TemplatesExact` compares the walk with `Templates`, the entry at the beginning of
the text of `TemplatesFrom`, which says by positions what a template is and goes on
from the end of each. `DumpParser` represents `Parse` by the operator `Citations`, which
either returns something that depends on the text alone or throws; that is what
`WikitextParser` shows it to do.

## Runs

| Run | Configuration | Shows |
| --- | --- | --- |
| `long_page` | one page, 4 revisions, 3 ids, 2 titles, 2 times | type correctness, `RefCountExact`, `StoreExact`, `LookupSucceeds`, `HistoryExact` at every step |
| `two_pages` | two pages, 2 revisions each, 2 ids, 2 titles, 2 times | `StoreExact` (nothing of one page is stored with the next), `OutputExact` over the dump, `ImplementsHistory` (refinement), `PageStored` (liveness) |
| `ties` | 3 revisions, `StableLength` 2 | violation: ties change places |
| `dump_events` | 2 pages of 2 revisions, all ids, 3 optional elements or further chunks, 2 chunks per element, one chunk odd, cut off anywhere | `FlagsTrackNesting`, `PagesFaithful` |
| `no_text` | one page of 2 revisions, `<text>` optional | violation: citations of another revision |
| `stream_faults` | 2 calls, 3 pages over 3 revision ids, exceptions between pages, failure at any byte, `IntMax` 2, `ReadLimit` 8, 4 reads | `NoGap`, `ReadBack`, `Consistent`, `SoundCounts`, `SameResult` (in memory and streamed results agree) |
| `snapshot_calls` | two calls on one processor, of two lines and of one, each in memory or to streams, any line may throw | `DeliveredOnce`, `ReferencesResolved`, `SeenAccounted`, `CallResult` in all 6 evaluation orders |
| `namesakes` | an author and an institution of one name without ids | violation: a reference to an institution that is not delivered |
| `dates` | a work with a date of publication | violation: the date delivered is the epoch |
| `orcid_only` | an author with an ORCID only | violation: it is dropped |
| `wikitext` | 1969 texts of two or three pieces, with and without filter, both options | `TemplatesExact`, `CitationsExact`, `ThrowsExactly`, `Terminates` |
| `wikitext_lost` | two citations of one title, a malformed template, another citation | violation: the second and the last citation are lost |

*Bounds, and why they are enough.* Four revisions are the least in which a citation
is added, removed, re-added and removed again, and three ids let the revisions
repeat an id or not; two titles are the least that share a revision as adder and
remover, which is where a count differs from a flag. Ids and titles are only
compared, never ordered, so `long_page` is symmetric in both (liveness is checked
in `two_pages`, without symmetry). Two pages show every leak from one page to the
next. For all larger values of these bounds the safety properties and the
refinement are [proved](#proofs).

In `dump_events` every id has its chunk of text, without which `std::stol` throws, so
that documents of two pages of two revisions can be complete; `MaxExtras` bounds
what else they have. Three of it let a revision have a slot, a text in it and one of
its own, or a parent, a contributor with an id, a username with text, a timestamp
with text, a text in two pieces; each chunk is different, so that a text in the wrong
place is seen. The odd chunk is the sixth: the text of the last id of such a document
or, if others came before it, part of any element, where it makes a handler throw in
the middle of a revision, cuts a number short or is no time. In the
stream runs two pages with up to two revisions produce every interleaving of
failures of the two streams, and four reads go at least two beyond the last
message. Three pages over two calls let a dump fail and be tried again, or be
complete with another behind it, with the same revision in two pages. The page of
three revisions is longer than `IntMax`; three pages of two take more than
`ReadLimit` bytes. In `snapshot_calls` the lines have two authorships out of five,
among them an author twice with different fields, one known by ORCID, one by name
(and twice in one line), an empty one; with a complete, a nameless and an empty
institution. One kind of authorship comes with other data: an unknown status and
language, a PMID of 64 bits, no id, a PMID that is no number, a date. Two lines are
needed for one to refer to what the other has brought, and the second call for what
the first has left in `seen_ids_`, by returning or by throwing.

In `wikitext` the pieces are seven well-formed templates (titles that collide,
identifiers that are positive, negative, prefixed, followed by something, absent
or too large for `IntMax` = 7, URLs with equals signs, parameters without value,
an empty parameter) and five that are not (no parameters, a brace in a value, a
template in a value, a brace at the end, a stray one). Three of them are enough
for one to stand between two others and for a citation to be the second or third
of its title; the walk keeps nothing of a template once it is closed. Three more
templates, in texts of two pieces, repeat parameters: title, ISBN, DOI with and
without resolver in both orders, PMID with the last one unreadable, URLs of both
kinds in turn; and one gives nothing but a PMCID that cannot be read.

## Fairness and deadlock

`PageCitations` assumes weak fairness of `FinishPage`, the steps inside
`OnEndPage`: it is a function without input or waiting, in a single thread, so
that it goes on as long as it can. Nothing is assumed of the document
(`Collect`, `SortRevisions`). `WikitextParser` assumes weak fairness of `Next` for the
same reason: `Parse` is one call without waiting. The other modules have no
liveness properties and no fairness.

All configurations set `CHECK_DEADLOCK FALSE`: the models stop when the bounds on
the input are reached, and the program itself ends with its input. A walk that
gets stuck in a page is found by `PageStored` instead.

## Proofs

The theorems hold for all values of the constants that satisfy the assumptions
below: any number of revisions, pages, calls and lines, documents of any size,
texts of any length, streams that fail at any byte.

| Module | Theorem | States |
| --- | --- | --- |
| `PageCitationsProofs` | `TypeCorrect` | `Spec => []TypeOK` |
| | `RefCountCorrect` | `Spec => []RefCountExact` |
| | `StoreCorrect` | `Spec => []StoreExact` |
| | `OutputCorrect` | `Spec => []OutputExact` |
| | `LookupCorrect` | `Spec => []LookupSucceeds` |
| | `HistoryCorrect` | `Spec => []HistoryExact` |
| | `HistoryImplemented` | `Spec => ImplementsHistory` |
| `DumpParserProofs` | `FlagsCorrect` | `Spec => []FlagsTrackNesting` |
| | `TypeCorrect` | `Spec => []TypeOK` |
| | `PagesCorrect` | `Spec => []PagesFaithful`, if no revision lacks its text |
| `SnapshotProcessorProofs` | `TypeCorrect` | `Spec => []TypeOK` |
| | `SeenCorrect` | `Spec => []SeenAccounted` |
| | `OnceCorrect` | `Spec => []DeliveredOnce` |
| | `ReferencesCorrect` | `Spec => []ReferencesResolved`, if there are no namesakes |
| `SnapshotCallProofs` | `CallCorrect` | `Spec => []CallResult`, if there are no namesakes |
| `ExtractionProofs` | `TypeCorrect` | `Spec => []TypeOK` |
| | `GapFree` | `Spec => []NoGap` |
| | `CountsCorrect` | `Spec => []SoundCounts` |
| | `ConsistentStreams` | `Spec => []Consistent` |
| | `PagesReadBack` | `Spec => []ReadBack` |
| | `SameResults` | `Spec => []SameResult` |
| `WikitextParserProofs` | `TypeCorrect` | `Spec => []TypeOK` |
| | `CitationsAreExact` | `Spec => []CitationsExact` |
| | `ThrowsAreExact` | `Spec => []ThrowsExactly` |
| `WikitextGrammarProofs` | `TemplatesAreExact` | `Spec => []TemplatesExact` |

*Assumptions.* In `PageCitations`, `NoRev` is no id (`NoRevAssumption`), timestamps
are integers (`TimesAssumption`), there are finitely many titles
(`TitlesAssumption`: the counts are cardinalities), the bounds are naturals
(`BoundsAssumption`). Nothing is assumed of `StableLength`, so the theorems hold
for any sort, stable or not. In `DumpParser` the bounds on texts are naturals and
`TextOptional` is a Boolean; `FlagsCorrect` uses neither. In
`SnapshotProcessor` a line has sequences of authorships and institutions
(`LinesAssumption`) and a call any number of lines (`MaxLinesAssumption`). In
`Extraction` a page refers to finitely many revisions, which are numbers
(`ReferencesAssumption`), and bounds and limits are naturals (`BoundsAssumption`,
`LimitsAssumption`); the size of a message that is written fits its prefix, as
`INT_MAX` fits 32 bits (`SizeAssumption`), but a message may be longer than that;
nothing is assumed of where a stream fails. In `WikitextParser` a text is any
sequence of strings (`TextsAssumption`) and `IntMax` a natural
(`IntMaxAssumption`); nothing is assumed of which words are citation types, keys
or numbers.

Three theorems have a hypothesis. (`SameResult` itself speaks of messages that are
not too long only: of one that is, the stream has the size alone.) `PagesCorrect` assumes `~ TextOptional`, which the
run `dump_events` satisfies; without it a revision may have the citations of
another, which is what `no_text` shows. `ReferencesCorrect` and `CallCorrect` assume
`NoNamesakes(Lines)`: no author and institution that the lines name have the same
id. `MCSnapshotProcessor` states as an assumption, which TLC evaluates, that
the lines of `snapshot_calls` satisfy it and those of `namesakes` do not. Both need
it: of two namesakes the one that is visited second is dropped, which one that is
depends on the order of the extractions, and what refers to it leads nowhere.

*Induction over data.* The prover cannot instantiate the library's induction
theorems. `SequenceLemmas` therefore derives what is needed from the fact that the
naturals are well founded, for a set of numbers instead of a predicate
(`LeastElement`, `Induction`), and from it the same for a set of sequences
(`SequenceInduction`). With these, the recursive function inside `FlattenSeq` is
shown to be well defined (`FlattenDef`) and to commute with appending and
concatenation, and the number of complete messages of a stream (`Complete`) to
exist. In the same way the recursive functions that two properties compare with are
shown to be solutions of their equations: `TemplatesFrom`, since a template ends
behind its beginning (`TemplatesFromDef`), and `MessagesFrom`, since a reader
takes at least a byte as long as there is one (`MessagesFromDef`). Where a model needs the elements of a set in order, or the elements of a sequence that
satisfy a condition, it uses `Ascending` and `Selected`, whose definitions are
explicit, rather than operators of the community modules that are recursive;
`AscendingProperties`, `AscendingUnion`, `SelectedUnion` say what they compute.

*Counts* (`PageCitationsProofs`). `RefCountExact` alone is not inductive: the count
of a revision may only be compared with 0 because it is exact, and a revision may
only be dropped because exactness makes the count 0 when nobody refers to it. The
invariant is

    CountInv == TypeOK /\ RefCountExact /\ Stored

where `Stored` says that a revision is to be stored iff its count is positive.
`NamingUpdate` is the lemma behind each step: changing one title's field from
one revision to another takes one from the first set of referrers and adds
one to the second. `StoreExact` then follows from `CountInv`, and `OutputExact`
from it at the step that stores. `LookupCorrect` needs the invariant `Known`: the
ids in the list are those that can be looked up, which a sort, being a
permutation, and a repeated id both preserve.

*History* (`PageCitationsProofs`). `HistoryExact` speaks of the head of the loop only.
In between, titles that the inner loops have visited are accurate for `i`
revisions and the others for `i - 1`; `WalkInv` says so, for each `pc`. The lemmas
`StillCited`, `NowRemoved`, `StillRemoved`, `NowAdded` and `NotYetCited` are the
five ways in which accuracy for `i - 1` becomes accuracy for `i`, one for each
branch of the two functions. `Ordered` says that the list is sorted once the
walk has begun.

*Refinement.* Under the mapping of `INSTANCE CitationHistory` (the page is
`citations_by_revision_`, the outputs are themselves), `OnEndRevision` is
`Deliver`, `SortRevisions` is `Arrange` (`SortIsArrange`), `StorePage` is
`Publish` (`StoreIsPublish`), and every other step stutters. `Publish` computes
the summary directly from the list; `AccurateIsSummary` shows that `HistoryExact`
at the end of the walk determines it.

*Handlers* (`DumpParserProofs`). The end tag of an element resets its flag whatever
elements are still open, so `FlagsTrackNesting` needs to know that an element is
never inside another of its name. `Path` says more: the open elements are a path
of the schema, where pages are at depth 2, revisions at 3 and contributors at 4
only (`AtLevel`, `OneLevel`). The invariant is `Path /\ FlagsTrackNesting`, and
`EndNested` is the step that needs both.

*Fields* (`DumpParserProofs`). `PagesFaithful` speaks of stored pages, and what is
stored was put together over the whole page. The invariant follows the open
elements: the current page has the fields of the open `<page>` so far
(`PageSoFar`), the current revision those of the open `<revision>`, with the user
of the open `<contributor>` if there is one (`RevisionSoFar`, `UserSoFar`), and
`text_buf_` the text of the innermost element whenever `should_store_` is set
(`Buffered`). The latter is also what bounds the buffer, so that type correctness
needs it. `Shape` adds to the path above that an element is among the children its
parent may have, and the first of its name where the schema has one. `Depth`
turns it into the few paths there are, `EndTexts` says what an end tag adds to
the parent, and `EndPageSoFar` and `EndRevisionSoFar` go through the end tags depth
by depth: this is where a contributor's `id` must not be the revision's, nor an
uploader's the page's, and where the text of a slot takes the place of the text
before it. `LastTextSoFar` says so of an open revision: the citations are those of
the open slot's text, if it has ended, or of the last slot's or the revision's own.
`WholeRevision` is the one step that needs every revision to have a text.

*Ids* (`SnapshotProcessorProofs`). That no id is delivered twice is not inductive: one
must know that what is extracted, gathered and delivered has been marked as
seen, so that the next object with that id is dropped. `Accounted` says that
these three are free of repeats and disjoint from one another, and that with what
exceptions destroyed they make up `seen_ids_`. For the references one must know
what has become of the objects of a line: `Resolving` says that each visit of the
line being read is either still to come or has left its id in `seen_ids_`, that
works gathered refer to seen ids, and that works delivered are covered by what has
been delivered with them, or lost. `NoNamesakes` makes a seen id of an author the
id of a delivered *author*.

*Calls* (`SnapshotCallProofs`). `CallResult` compares what a call has given with its
lines when it returns, and the lines are gone through visit by visit, authors and
institutions in any order. The invariant `Calling` says where a call stands: there
are messages of authors and of institutions (`Walk`) that the visits so far have
found; with those that the visits in `todo` will find they are the messages of all
lines read; the first of each new id among them is what the call has emitted, in
memory or to the streams; and their ids with those from before are `seen_ids_`. An
order of the extractions changes `todo` but not what the visits of one kind make
(`TodoMade`); a visit moves a message from the ones to come to the ones found
(`FoundNext`); a line that ends or a call that returns moves what has been emitted
from one place to another (`SinceJoined`, `JoinedAssociative`). That the id of an
author is none of an institution's (`KindsApart`) keeps one kind from using up the
ids of the other. TLC has checked `Calling` on the instance of `snapshot_calls`.

*Streams* (`ExtractionProofs`). A stream `Holds` the bytes it was given if they are
all there, or a prefix of them and the stream has failed. The invariant says that
the pages stream was given the pages of all dumps and the revisions stream all
revisions but the pending ones, which are the last (`Given`), and that the counters
count just those (`Counted`). `NoGap` follows at once. For `SoundCounts` and
`Consistent` one must know how many complete messages a prefix of the bytes has
(`Complete`): all, if all of the bytes are there (`CompleteAll`).

*Reading back* (`ExtractionProofs`). A frame begins where the frames before it end
(`FrameAt`), and a reader that stands there finds the message, if all of it is in
the stream, or else what there is of it (`ReadNext`). If not even a size is left, it
finds nothing, whatever value the uninitialised size has (`ReadShort`). The invariant
`Reader` says where it stands: behind the messages read, as long as these are
complete pages, and at the end of what it can see afterwards; before the first it is
at the beginning, so that a write, which may only come before, does not disturb it.
For `SameResult`, `MessagesOfFrames` says that all the messages of the frames of
messages are these; `Stored`, that the parser in memory has the pages of its dump
and the first record under each id, which a further page extends (`FirstConcat`);
and `LastDump`, that what a call has added is the end of what the streams hold.

*Grammar* (`WikitextGrammarProofs`). While the walk is between two templates, what it
has found and the `TemplatesFrom` its position make up `Templates`; in the middle of
one, the same is true of the place where it began, and what has been read of it is
as far as a template goes (`GrammarInv`, with a part for each place in the grammar:
`Rest`, `AtParam`, `AtClose`, `Partial`, `Whole`). Since a template ends in
one place only, the one the walk has come to is the one `TemplatesFrom` chooses
(`Complete`), and where the walk gives up there is none (`Incomplete`, `NoType`).

*Citations* (`WikitextParserProofs`). `BuildInv` goes through the templates found one
by one and through the parameters of each. `Keeps` says that the map has, for each
title of the templates that are done, what the first of them gives; `Making`, that the
citation being built has what the parameters read so far give (`Shows`), the last
title, the last value of each identifier, and all URLs in order; `Effect` is what one
parameter makes of a citation, which `FieldEffect` shows of every step and
`ShowsAppend` adds to what was there; `ReadableOf`, that no template passed gave
an identifier on which the call would have thrown. `ThrowsExactly` follows in both directions: the step that
throws has found such an identifier, and a walk that has come to its end has passed
all templates.

*Only model-checked.* Liveness (`PageStored`, `Terminates`), which the prover does
not handle.

## Where code and documentation disagree

1. `ties`: the test "two revisions of the same timestamp"
   (`test/src/extract/extractor_test.cc:133`) expects the order of appearance;
   `std::ranges::sort` does not keep it beyond 16 revisions.
2. `no_text`: `OnEndRevision` "clears it ready for the next one"
   (`src/extract/dump_parser.h:110`) but not `current_citations_`, so a revision
   without `<text>` inherits the citations parsed last. A dump made of
   stubs, without any text, is not affected.
3. `wikitext_lost`: "Parsers with no filter will return all citations"
   (`include/citescoop/parser.h:45`). There are two ways in which they do not. A
   single `}` in a value, say, ends the parse and nothing behind it is found; nor is
   a `TemplateParseException` thrown, which "typically" means "malformed wikitext"
   (`parser.h:117`): only identifiers throw it. And the citations are put into a
   map by their titles, which keeps the first: of two citations of one title, or of
   all those without a title, the others are lost with whatever identifiers and
   URLs they give. The trace of the run shows both. `CitationsExact`, and so the
   theorem `CitationsAreExact`, is about the citations that are returned: it says
   that it is the first of a title that is, not that this is all one may ask for.
4. `namesakes`: an author and an institution of one name and no id share
   `UNKNOWN_<name>`, and the second to be seen is dropped as a duplicate.
5. `orcid_only`: `IsAuthorEmpty` looks for `"ror"` where authors have `"orcid"`, so
   that the case of `GetAuthorId` for an author with an ORCID alone
   (`src/openalex/snapshot_processor_impl.h:127`) is never reached. Its own comment
   (lines 152-153) has "ROR id", too, in the words of `IsInstitutionEmpty`'s.
6. `dates`: `TimeUtil::FromString` wants a date and a time; of `"2023-01-01"` it makes
   nothing, its result is ignored, and the work is given the epoch. The test "the
   publication date matches" (`test/src/openalex/snapshot_processor_test.cc:77`)
   compares with what the same call makes of the same text.

More that the models show and the documentation does not quite speak of:

- Of a revision with several slots (`content` elements), each `text` replaces the
  citations of the one before, so that a revision has those of its last slot and
  none of its main text (`PagesFaithful` says just that of `LastText`). "Citations
  that are not found in this revision", which are to be marked as removed
  (`src/extract/dump_parser.h:118-119`), then include all those of the main text.
- Two revisions of a page with one id are one record, that of the first
  (`current_page_revisions_`), which may have another timestamp or user than the
  one that a citation was added in. `PageCitations` has ids for records and shows
  that they are counted and stored correctly, not which record it is; between two
  pages, `SameResult` sees that.
- The numbers a `StreamingDumpParser` returns include messages that a failed stream
  did not take or that were too long (`SoundCounts` holds of sound streams only).
- A reader of more than `INT_MAX` bytes gets empty pages behind them (`ReadBack`).
- `seen_ids_` is never cleared: a second snapshot given to the same processor comes
  back without the authors and institutions of the first, and after a call that
  threw, without those the exception destroyed (`CallResult`, `SeenAccounted`). The
  header promises what is "found in this snapshot" and says that authors and
  institutions are "deduplicated" without saying over what.
- A PMID becomes 32 bits, from a wikitext a negative one a large positive one
  (`SetNumericIdent`), from a snapshot one of 64 bits another one (`ParsePubmedId`).
- Two authors of a work with one name and no ids are one author, named twice.

## What is not modelled

- bzip2 decompression, which is Boost's.
- Keys that a JSON line lacks where the code indexes a const object with
  `operator[]` (`id`, `open_access`, `ids`, `authorships`, `author`): undefined
  behaviour without bounds. A null where a string is needed throws and is modelled.
- Output streams of the snapshot processor that fail: `MessageIO` and `Extraction`
  show what becomes of a stream, and the processor looks at its streams no more
  than they do.
- The contents of a citation: the first revision that cites a title determines
  them, and no later step changes them.
- The table of languages, generated protobuf code, build and packaging.
- Memory exhaustion, and exceptions of the library other than those named.

## Plan

Every component of the inventory has its model, and every invariant its proof. What
could follow, in the order of its weight:

1. `DumpParser` shown to implement the delivery part of `CitationHistory`, so that
   the two halves of the class are one refinement.
2. Output streams in `SnapshotProcessor` that fail, with the proofs about
   `MessageIO`, which are about any stream and any messages.
