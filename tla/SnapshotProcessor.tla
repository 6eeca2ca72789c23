-------------------------- MODULE SnapshotProcessor --------------------------
(***************************************************************************)
(* src/openalex/snapshot_processor_impl.cc: an OpenAlex works snapshot, a  *)
(* JSON line per work, becomes works, authors and institutions, each       *)
(* author and institution once.                                            *)
(*                                                                         *)
(* A processor may be given several snapshots, to be returned in memory or *)
(* written to streams; the set seen_ids_ of the ids it has emitted lives   *)
(* as long as the processor.                                               *)
(*                                                                         *)
(* A JSON object is the function from its string-valued keys to their      *)
(* values: "contains and is_string" is membership in its domain.  The      *)
(* objects open_access and ids of a work are merged with the work's own.   *)
(* A string is a sequence of pieces, which are never taken apart: a prefix *)
(* the code knows is a piece.  An empty line changes nothing.              *)
(***************************************************************************)
EXTENDS Ascending, Sequences, SequencesExt, Functions

CONSTANTS
  Lines,          \* JSON lines: the data of a work and its authorships
  MayThrow,       \* whether json::parse may reject a line
  Languages,      \* language codes that ISOToLanguage knows
  Numerals,       \* std::stoul: the texts it reads, with their numbers
  UintSize,       \* 2^32
  MaxLines        \* bound: a sequence, the lines of each snapshot at most

IsSequence(s) == s \in Seq(ToSet(s))

ASSUME LinesAssumption ==
  \A l \in Lines : /\ IsSequence(l.authorships)
                   /\ \A k \in DOMAIN l.authorships : IsSequence(l.authorships[k].institutions)
ASSUME SwitchesAssumption == MayThrow \in BOOLEAN
ASSUME UintSizeAssumption == UintSize \in Nat \ {0}
ASSUME MaxLinesAssumption == MaxLines \in Seq(Nat) /\ MaxLines # << >>

VARIABLES
  status,      \* "lines", "extract", "returned" or "threw"
  call,        \* number of the current call
  streaming,   \* its overload: results go to streams line by line
  line,        \* the line being processed
  todo,        \* ProcessLine: the visits still to make
  extracted,   \* what ProcessLine has extracted from the line so far
  gathered,    \* in memory: the result of the call so far
  counts,      \* to streams: the messages written by the call so far
  seen_ids_,
  delivered,   \* what the caller has got, of all calls
  lost,        \* ids marked as seen whose messages an exception has destroyed
  snapshot,    \* the lines of this call that have been processed
  before       \* seen_ids_ and the sizes of delivered when the call began

results == << extracted, gathered, counts >>
history == << delivered, lost, snapshot, before >>
vars == << status, call, streaming, line, todo, results, seen_ids_, history >>

-----------------------------------------------------------------------------
(* One line. *)

Has(object, key) == key \in DOMAIN object

RemovePrefix(s, prefix) == IF IsPrefix(<< prefix >>, s) THEN Tail(s) ELSE s
TrimOpenAlexId(s) == RemovePrefix(s, "https://openalex.org/")
PubmedNumeral(s) == Last(RemovePrefix(s, "https://pubmed.ncbi.nlm.nih.gov/"))

\* The number loses what does not fit 32 bits.
ParsePubmedId(s) == Numerals[PubmedNumeral(s)] % UintSize

Unknown(s) == << "UNKNOWN_" >> \o s

GetInstitutionId(o) ==
  IF Has(o, "id") THEN TrimOpenAlexId(o["id"])
  ELSE IF Has(o, "ror") THEN Unknown(o["ror"]) ELSE Unknown(o["display_name"])

GetAuthorId(o) ==
  IF Has(o, "id") THEN TrimOpenAlexId(o["id"])
  ELSE IF Has(o, "orcid") THEN Unknown(o["orcid"]) ELSE Unknown(o["display_name"])

IsInstitutionEmpty(o) == DOMAIN o \cap {"id", "display_name", "ror"} = {}

\* The code asks an author for a "ror", too.
IsAuthorEmpty(o) == DOMAIN o \cap {"id", "display_name", "ror"} = {}

\* The messages, with the fields the object has.
AuthorMessage(o) ==
  [ k \in {"openalex_id"} \cup (DOMAIN o \cap {"display_name", "orcid"}) |->
      IF k = "openalex_id" THEN GetAuthorId(o) ELSE o[k] ]
InstitutionMessage(o) ==
  [ k \in {"openalex_id"} \cup (DOMAIN o \cap {"display_name", "ror"}) |->
      IF k = "openalex_id" THEN GetInstitutionId(o) ELSE o[k] ]

AuthorObjects(l) == [ k \in DOMAIN l.authorships |-> l.authorships[k].author ]
InstitutionObjects(l) ==
  FlattenSeq([ k \in DOMAIN l.authorships |-> l.authorships[k].institutions ])

\* TimeUtil::FromString understands a date with a time only, and leaves the epoch
\* where it does not.
Epoch == "1970-01-01"
FromString(s) == IF Len(s) > 1 THEN Head(s) ELSE Epoch

ISOToLanguage(s) ==
  << "LANGUAGE_" >> \o IF s \in Languages THEN s ELSE << "UNSPECIFIED" >>

Categories == {"diamond", "gold", "green", "hybrid", "bronze", "closed"}
StringToOaCategory(s) ==
  << "OA_CATEGORY_" >> \o IF Head(s) \in Categories THEN s ELSE << "UNSPECIFIED" >>

ExtractIdentifiers(d) ==
  [ k \in DOMAIN d \cap {"doi", "pmid"} |->
      IF k = "doi" THEN RemovePrefix(d[k], "https://doi.org/") ELSE ParsePubmedId(d[k]) ]

Ids(objects, Get(_)) == [ k \in DOMAIN objects |-> Get(objects[k]) ]
FirstOccurrences(s) == { k \in DOMAIN s : \A j \in 1 .. k - 1 : s[j] # s[k] }
WithoutRepeats(s) == Selected(s, FirstOccurrences(s))

NonEmptyAuthors(s) == Selected(s, { k \in DOMAIN s : ~ IsAuthorEmpty(s[k]) })
NonEmptyInstitutions(s) == Selected(s, { k \in DOMAIN s : ~ IsInstitutionEmpty(s[k]) })

\* The authors that are not empty, and their institutions, each institution once.
References(l) ==
  LET as   == l.authorships
      kept == [ authorships |->
                  Selected(as, { k \in DOMAIN as : ~ IsAuthorEmpty(as[k].author) }) ]
  IN  [ author_ids      |-> Ids(AuthorObjects(kept), GetAuthorId),
        institution_ids |->
          WithoutRepeats(Ids(NonEmptyInstitutions(InstitutionObjects(kept)),
                             GetInstitutionId)) ]

\* What ExtractWork makes of a line, unless it throws.
WorkOf(l) ==
  [ openalex_id |-> TrimOpenAlexId(l.data["id"]),
    oa_status   |-> StringToOaCategory(l.data["oa_status"]),
    text        |-> Restrict(l.data, DOMAIN l.data \cap {"title", "oa_url"}),
    publication_date |-> IF Has(l.data, "publication_date")
                           THEN << FromString(l.data["publication_date"]) >> ELSE << >>,
    language    |-> IF Has(l.data, "language")
                      THEN ISOToLanguage(l.data["language"]) ELSE << >>,
    references  |-> References(l),
    ids         |-> ExtractIdentifiers(l.data) ]

\* An id or a status that is null, or an identifier that is no number.
WorkThrows(d) ==
  \/ ~ Has(d, "id") \/ ~ Has(d, "oa_status")
  \/ Has(d, "pmid") /\ PubmedNumeral(d["pmid"]) \notin DOMAIN Numerals

-----------------------------------------------------------------------------

NoLine == [data |-> << >>, authorships |-> << >>]
Nothing == [authors |-> << >>, institutions |-> << >>, works |-> << >>]
Sizes(r) == [ k \in DOMAIN r |-> Len(r[k]) ]
Joined(r, s) == [ k \in DOMAIN r |-> r[k] \o s[k] ]
IdsOf(r) == { m["openalex_id"] : m \in ToSet(r.authors) \cup ToSet(r.institutions) }

Init ==
  /\ status = "lines" /\ call = 1 /\ streaming \in BOOLEAN
  /\ line = NoLine /\ todo = << >>
  /\ extracted = Nothing /\ gathered = Nothing /\ counts = Sizes(Nothing)
  /\ seen_ids_ = {}
  /\ delivered = Nothing /\ lost = {}
  /\ snapshot = << >> /\ before = [seen |-> {}, sizes |-> Sizes(Nothing)]

\* The arguments of ProcessLine's tuple are evaluated in an order the compiler
\* chooses.
Kinds == {"author", "institution", "work"}
Orders == SetToSeqs(Kinds)

\* The objects an extraction visits.
Objects(l) ==
  [author |-> AuthorObjects(l), institution |-> InstitutionObjects(l), work |-> << l.data >>]
Visits(l, kind) ==
  [ k \in DOMAIN Objects(l)[kind] |-> [kind |-> kind, object |-> Objects(l)[kind][k]] ]

\* std::getline has found another line and json::parse accepts it.
ReadLine(l) ==
  /\ status = "lines"
  /\ Len(snapshot) < MaxLines[call]
  /\ status' = "extract"
  /\ line' = l
  /\ \E order \in Orders :
       todo' = FlattenSeq([ k \in DOMAIN order |-> Visits(l, order[k]) ])
  /\ UNCHANGED << call, streaming, results, seen_ids_, history >>

Visiting(kind) == status = "extract" /\ todo # << >> /\ Head(todo).kind = kind

\* Mutant: an object that is emitted is not marked as seen.
Remember_Forgets(id) == UNCHANGED seen_ids_

Remember(id) == seen_ids_' = seen_ids_ \cup {id}

\* Mutants: an institution known by its name alone is not emitted; an author met
\* before is emitted again when this time there is an ORCID.
NewInstitution_NeedsId(o) ==
  ~ IsInstitutionEmpty(o) /\ DOMAIN o \cap {"id", "ror"} # {} /\ GetInstitutionId(o) \notin seen_ids_
NewAuthor_Again(o) == ~ IsAuthorEmpty(o) /\ (GetAuthorId(o) \in seen_ids_ => Has(o, "orcid"))

\* An object is emitted unless it is empty or its id has been seen.
NewAuthor(o) == ~ IsAuthorEmpty(o) /\ GetAuthorId(o) \notin seen_ids_
NewInstitution(o) == ~ IsInstitutionEmpty(o) /\ GetInstitutionId(o) \notin seen_ids_

\* ExtractAuthors visits an author: it is emitted unless empty or seen before.
VisitAuthor ==
  /\ Visiting("author")
  /\ LET o == Head(todo).object IN
     \/ /\ NewAuthor(o)
        /\ Remember(GetAuthorId(o))
        /\ extracted' = [extracted EXCEPT !.authors = Append(@, AuthorMessage(o))]
     \/ /\ ~ NewAuthor(o)
        /\ UNCHANGED << seen_ids_, extracted >>
  /\ todo' = Tail(todo)
  /\ UNCHANGED << status, call, streaming, line, gathered, counts, history >>

\* ExtractInstitutions does the same with an institution.
VisitInstitution ==
  /\ Visiting("institution")
  /\ LET o == Head(todo).object IN
     \/ /\ NewInstitution(o)
        /\ Remember(GetInstitutionId(o))
        /\ extracted' = [extracted EXCEPT !.institutions = Append(@, InstitutionMessage(o))]
     \/ /\ ~ NewInstitution(o)
        /\ UNCHANGED << seen_ids_, extracted >>
  /\ todo' = Tail(todo)
  /\ UNCHANGED << status, call, streaming, line, gathered, counts, history >>

\* ExtractWork finds all it needs.
ExtractWork ==
  /\ Visiting("work") /\ ~ WorkThrows(line.data)
  /\ extracted' = [extracted EXCEPT !.works = << WorkOf(line) >>]
  /\ todo' = Tail(todo)
  /\ UNCHANGED << status, call, streaming, line, gathered, counts, seen_ids_, history >>

\* ExtractWork or json::parse throws: the call ends and what it has gathered in
\* memory is lost, but not what it has seen.
Throw ==
  /\ \/ Visiting("work") /\ WorkThrows(line.data)
     \/ status = "lines" /\ MayThrow
  /\ status' = "threw"
  /\ todo' = << >> /\ extracted' = Nothing /\ gathered' = Nothing
  /\ lost' = lost \cup IdsOf(extracted) \cup IdsOf(gathered)
  /\ UNCHANGED << call, streaming, line, counts, seen_ids_, delivered, snapshot, before >>

\* Mutants: two of the three results are swapped; the institutions are forgotten.
Delivery_Swapped(r) ==
  Joined(delivered, [r EXCEPT !.authors = r.institutions, !.institutions = r.authors])
Delivery_NoInstitutions(r) == Joined(delivered, [r EXCEPT !.institutions = << >>])

\* What the caller gets is added to what it has got before.
Delivery(r) == Joined(delivered, r)

\* ProcessLine has returned: what it found is added to the result ...
KeepLine ==
  /\ ~ streaming
  /\ gathered' = Joined(gathered, extracted)
  /\ UNCHANGED << delivered, counts >>

\* ... or written to the streams, and counted.
StreamLine ==
  /\ streaming
  /\ delivered' = Delivery(extracted)
  /\ counts' = [ k \in DOMAIN counts |-> counts[k] + Len(extracted[k]) ]
  /\ UNCHANGED gathered

LineDone ==
  /\ status = "extract" /\ todo = << >>
  /\ KeepLine \/ StreamLine
  /\ status' = "lines"
  /\ extracted' = Nothing
  /\ snapshot' = Append(snapshot, line)
  /\ UNCHANGED << call, streaming, line, todo, seen_ids_, lost, before >>

\* The input ends: the result, which is empty if there are streams, is returned.
Return ==
  /\ status = "lines"
  /\ status' = "returned"
  /\ delivered' = Delivery(gathered)
  /\ gathered' = Nothing
  /\ UNCHANGED << call, streaming, line, todo, extracted, counts, seen_ids_, lost, snapshot,
                  before >>

\* The caller has another snapshot for the same processor, or tries again.
CallAgain ==
  /\ status \in {"returned", "threw"} /\ call < Len(MaxLines)
  /\ status' = "lines" /\ call' = call + 1 /\ streaming' \in BOOLEAN
  /\ counts' = Sizes(Nothing)
  /\ snapshot' = << >> /\ before' = [seen |-> seen_ids_, sizes |-> Sizes(delivered)]
  /\ UNCHANGED << line, todo, extracted, gathered, seen_ids_, delivered, lost >>

Next ==
  \/ \E l \in Lines : ReadLine(l)
  \/ VisitAuthor \/ VisitInstitution \/ ExtractWork \/ Throw
  \/ LineDone \/ Return \/ CallAgain

Spec == Init /\ [][Next]_vars

-----------------------------------------------------------------------------

FoundAuthors(ls) ==
  NonEmptyAuthors(FlattenSeq([ k \in DOMAIN ls |-> AuthorObjects(ls[k]) ]))
FoundInstitutions(ls) ==
  NonEmptyInstitutions(FlattenSeq([ k \in DOMAIN ls |-> InstitutionObjects(ls[k]) ]))

AuthorMessages == UNION { { AuthorMessage(o) : o \in ToSet(FoundAuthors(<< l >>)) } : l \in Lines }
InstitutionMessages ==
  UNION { { InstitutionMessage(o) : o \in ToSet(FoundInstitutions(<< l >>)) } : l \in Lines }

WorkMessages == { WorkOf(l) : l \in { m \in Lines : ~ WorkThrows(m.data) } }

Results == [ authors : Seq(AuthorMessages), institutions : Seq(InstitutionMessages),
             works : Seq(WorkMessages) ]
Counts == [authors : Nat, institutions : Nat, works : Nat]

\* Type correctness.
TypeOK ==
  /\ status \in {"lines", "extract", "returned", "threw"}
  /\ call \in DOMAIN MaxLines
  /\ streaming \in BOOLEAN
  /\ line \in Lines \cup {NoLine}
  /\ extracted \in Results /\ gathered \in Results /\ delivered \in Results
  /\ counts \in Counts /\ before.sizes \in Counts
  /\ snapshot \in Seq(Lines)

\* No id is delivered twice, be it in one snapshot or in two, as an author, as
\* an institution or as both, nor when two authors of a work are given one id.
IdSequence(ms) == [ k \in DOMAIN ms |-> ms[k]["openalex_id"] ]
DeliveredOnce ==
  IsInjective(IdSequence(delivered.authors) \o IdSequence(delivered.institutions))

\* No author and no institution of the lines have one id, as they have when both are
\* known by the same name only.
AuthorIds(ls) ==
  UNION { { GetAuthorId(o) : o \in ToSet(FoundAuthors(<< l >>)) } : l \in ls }
InstitutionIds(ls) ==
  UNION { { GetInstitutionId(o) : o \in ToSet(FoundInstitutions(<< l >>)) } : l \in ls }
NoNamesakes(ls) == AuthorIds(ls) \cap InstitutionIds(ls) = {}

\* Whatever a delivered work refers to has been delivered as what it is, or had
\* been found already when an exception took it away: its authors among the
\* authors, its institutions among the institutions, in whichever order ProcessLine
\* evaluates the extractions.
ReferencesResolved ==
  \A k \in DOMAIN delivered.works :
    LET work == delivered.works[k].references IN
    /\ ToSet(work.author_ids) \subseteq ToSet(IdSequence(delivered.authors)) \cup lost
    /\ ToSet(work.institution_ids)
         \subseteq ToSet(IdSequence(delivered.institutions)) \cup lost

\* An id marked as seen has been delivered, or is part of the running call, or
\* went down with a call that threw; what went down is never delivered again.
SeenAccounted ==
  LET present == IdsOf(delivered) \cup IdsOf(gathered) \cup IdsOf(extracted) IN
  /\ seen_ids_ = present \cup lost
  /\ present \cap lost = {}

\* What a call that returns has given, in memory or to streams and in whichever
\* order it evaluated the extractions: a work per line, the first object of every
\* id it had not seen before, and as counts the number of its messages.  Later
\* objects of an id are left out whatever else they say.
Firsts(objects, Get(_)) ==
  LET ids == Ids(objects, Get) IN
  Selected(objects, { k \in FirstOccurrences(ids) : ids[k] \notin before.seen })
Expected ==
  [ authors |-> Ids(Firsts(FoundAuthors(snapshot), GetAuthorId), AuthorMessage),
    institutions |->
      Ids(Firsts(FoundInstitutions(snapshot), GetInstitutionId), InstitutionMessage),
    works |-> Ids(snapshot, WorkOf) ]
Since(r, sizes) == [ k \in DOMAIN r |-> SubSeq(r[k], sizes[k] + 1, Len(r[k])) ]

CallResult ==
  status = "returned" =>
    /\ Since(delivered, before.sizes) = Expected
    /\ streaming => counts = Sizes(Expected)

\* An author with an ORCID can be identified and is not dropped.
OrcidIdentifies ==
  status = "returned" =>
    \A k \in DOMAIN snapshot : \A o \in ToSet(AuthorObjects(snapshot[k])) :
      Has(o, "orcid") => GetAuthorId(o) \in ToSet(delivered.works[k].references.author_ids)

\* The publication date of a work is the date its line gives.
PublicationDateMatches ==
  status = "returned" =>
    \A k \in DOMAIN snapshot :
      Has(snapshot[k].data, "publication_date") =>
        delivered.works[k].publication_date = << Head(snapshot[k].data["publication_date"]) >>
=============================================================================
