--------------------------- MODULE WikitextParser ---------------------------
(***************************************************************************)
(* src/parser/parser_impl.cc: the citation templates of a wikitext and the *)
(* citations made from them.                                               *)
(*                                                                         *)
(* A text is a sequence of braces, bars, equals signs and words; a word is *)
(* a run of other characters, or a part of one, without the white space at *)
(* its ends and in lower case where Parse makes it so.  The grammar        *)
(* (kWikitextRule) is greedy and never backtracks over a match, so parsing *)
(* is a walk of the iterator `first' through the text, a step per rule.    *)
(***************************************************************************)
EXTENDS Integers, Sequences, SequencesExt, FiniteSetsExt, Ascending

CONSTANTS
  Texts,      \* the texts to parse
  Types,      \* the template types that the filter, if there is one, accepts
  Numerals,   \* the words that begin with a number, and that number
  IntMax      \* the largest int

ASSUME TextsAssumption == \A t \in Texts : t \in Seq(STRING)
ASSUME IntMaxAssumption == IntMax \in Nat

VARIABLES
  text, filtered, ignore_invalid_ident,  \* input, and the parser's configuration
  pc,         \* the rule to be matched next, "build", "field", "returned", "threw"
  first,      \* the characters consumed
  entry,      \* the template being parsed
  results,    \* the templates parsed
  built,      \* how many of them have become citations or been filtered out
  todo,       \* BuildCitation: parameters still to look at
  citation,   \* BuildCitation: what it will return
  citations   \* map from title to citation

input  == << text, filtered, ignore_invalid_ident >>
parse  == << first, entry, results >>
build  == << built, todo, citation, citations >>
vars   == << input, pc, parse, build >>

-----------------------------------------------------------------------------
(* The grammar. *)

Opening == << "{", "{" >>
Closing == << "}", "}" >>

\* Literal lit follows after the first p characters.
At(p, lit) == p + Len(lit) <= Len(text) /\ SubSeq(text, p + 1, p + Len(lit)) = lit

\* *(char_ - S): how far the characters go that are not in S.
Until(p, S) == Min({ q \in p .. Len(text) : q = Len(text) \/ text[q + 1] \in S })

Slice(p, q) == SubSeq(text, p + 1, q)
NoEntry == [name |-> << >>, params |-> << >>]
NoCitation == [title |-> << >>, has_identifiers |-> FALSE, identifiers |-> << >>,
               urls |-> << >>]

Init ==
  /\ text \in Texts /\ filtered \in BOOLEAN /\ ignore_invalid_ident \in BOOLEAN
  /\ pc = "skip" /\ first = 0
  /\ entry = NoEntry /\ results = << >>
  /\ built = 0 /\ todo = << >> /\ citation = NoCitation /\ citations = << >>

\* kSkipToTemplate: to the next "{{", or to the end.
SkipToTemplate ==
  /\ pc = "skip"
  /\ first' = Min({ q \in first .. Len(text) : q = Len(text) \/ At(q, Opening) })
  /\ pc' = "template"
  /\ UNCHANGED << input, entry, results, build >>

\* kTemplateRule begins with "{{", a type, which is everything up to the next
\* bar wherever that is, and the bar.
TypeEnd == Until(first + 2, {"|"})
OpensTemplate == At(first, Opening) /\ TypeEnd > first + 2 /\ At(TypeEnd, << "|" >>)

TemplateType ==
  /\ pc = "template" /\ OpensTemplate
  /\ entry' = [name |-> Slice(first + 2, TypeEnd), params |-> << >>]
  /\ first' = TypeEnd + 1
  /\ pc' = "param"
  /\ UNCHANGED << input, results, build >>

\* Mutant: a value ends at a "{", too.
ValueEnd_AtBrace(p) == Until(p, {"|", "}", "{"})

\* kValRule takes what follows "=", other equals signs included.
ValueEnd(p) == Until(p, {"|", "}"})

\* kParamRule, either part of which may be empty; the list goes on with a bar.
Parameter ==
  /\ pc = "param"
  /\ LET key == Until(first, {"=", "|", "}"})
         valued == At(key, << "=" >>)
         end == IF valued THEN ValueEnd(key + 1) ELSE key
         bar == At(end, << "|" >>)
         value == IF valued THEN Slice(key + 1, end) ELSE << >>
     IN  /\ entry' = [entry EXCEPT !.params = Append(@,
                        [key |-> Slice(first, key), has_value |-> valued, value |-> value])]
         /\ first' = IF bar THEN end + 1 ELSE end
         /\ pc' = IF bar THEN "param" ELSE "close"
  /\ UNCHANGED << input, results, build >>

\* kTemplateRule ends with "}}" and the repetition starts over.
CloseTemplate ==
  /\ pc = "close" /\ At(first, Closing)
  /\ results' = Append(results, entry)
  /\ first' = first + 2
  /\ pc' = "skip"
  /\ UNCHANGED << input, entry, build >>

\* Mutant: a template that does not match is tried again from where it begins.
StopRepetition_Retries ==
  /\ \/ pc = "template" /\ ~ OpensTemplate
     \/ pc = "close" /\ ~ At(first, Closing)
  /\ pc' = IF first < Len(text) THEN "skip" ELSE "build"
  /\ UNCHANGED << input, parse, build >>

\* A template that does not match, or the end of the text, ends the repetition.
\* prefix_parse succeeds all the same, with what has been parsed so far.
StopRepetition ==
  /\ \/ pc = "template" /\ ~ OpensTemplate
     \/ pc = "close" /\ ~ At(first, Closing)
  /\ pc' = "build"
  /\ UNCHANGED << input, parse, build >>

-----------------------------------------------------------------------------
(* The citations. *)

Accepts(name) == filtered => name \in Types

\* Parse filters its results ...
FilterOut ==
  /\ pc = "build" /\ built < Len(results) /\ ~ Accepts(results[built + 1].name)
  /\ built' = built + 1
  /\ UNCHANGED << input, pc, parse, todo, citation, citations >>

\* Mutant: the citation made before is not cleared.
NewCitation_Kept == UNCHANGED citation

NewCitation == citation' = NoCitation

\* ... and BuildCitation goes through the parameters of the others.
BuildCitation ==
  /\ pc = "build" /\ built < Len(results) /\ Accepts(results[built + 1].name)
  /\ pc' = "field"
  /\ todo' = results[built + 1].params
  /\ NewCitation
  /\ UNCHANGED << input, parse, built, citations >>

\* The next parameter is one of keys, and has a value.
Given(keys) ==
  pc = "field" /\ todo # << >> /\ Head(todo).has_value
    /\ Head(todo).key \in { << k >> : k \in keys }

Set(f, k, v) == [ j \in DOMAIN f \cup {k} |-> IF j = k THEN v ELSE f[j] ]

Without(word, v) == IF IsPrefix(<< word >>, v) THEN Tail(v) ELSE v

\* StrToIntIdent: std::stoi takes the number a value begins with, whatever
\* follows, unless there is none or an int cannot hold it.
Sign(v) == IF IsPrefix(<< "-" >>, v) THEN -1 ELSE 1
IsIdent(v) ==
  LET n == Without("-", v) IN
  n # << >> /\ Head(n) \in DOMAIN Numerals /\
    Sign(v) * Numerals[Head(n)] \in -IntMax - 1 .. IntMax
StrToIntIdent(v) == Sign(v) * Numerals[Head(Without("-", v))]

\* What stoi gets to see; ParsePmcId removes "PMC".
IdentText(param) == IF param.key = << "pmc" >> THEN Without("PMC", param.value)
                    ELSE param.value

SetTitle ==
  /\ Given({"title"})
  /\ citation' = [citation EXCEPT !.title = Head(todo).value]
  /\ todo' = Tail(todo)
  /\ UNCHANGED << input, pc, parse, built, citations >>

\* CheckForIdentKey, for an identifier that is text; ParseDoi shortens a DOI.
SetTextIdent ==
  /\ Given({"doi", "isbn", "issn"})
  /\ LET p == Head(todo)
         v == IF p.key = << "doi" >> THEN Without("https://doi.org/", p.value) ELSE p.value
     IN  citation' = [citation EXCEPT !.has_identifiers = TRUE,
                                       !.identifiers = Set(@, p.key, v)]
  /\ todo' = Tail(todo)
  /\ UNCHANGED << input, pc, parse, built, citations >>

\* HandlePmIdKey and HandlePmcIdKey: the int becomes a uint32_t.
SetNumericIdent ==
  /\ Given({"pmid", "pmc"}) /\ IsIdent(IdentText(Head(todo)))
  /\ citation' = [citation EXCEPT !.has_identifiers = TRUE, !.identifiers =
       Set(@, Head(todo).key, StrToIntIdent(IdentText(Head(todo))) % (2 * (IntMax + 1)))]
  /\ todo' = Tail(todo)
  /\ UNCHANGED << input, pc, parse, built, citations >>

\* They ignore a value that is no int, but mutable_identifiers has been called ...
IgnoreIdent ==
  /\ Given({"pmid", "pmc"}) /\ ~ IsIdent(IdentText(Head(todo))) /\ ignore_invalid_ident
  /\ citation' = [citation EXCEPT !.has_identifiers = TRUE]
  /\ todo' = Tail(todo)
  /\ UNCHANGED << input, pc, parse, built, citations >>

\* Mutant: only the first identifier of a citation is checked.
ThrowIdent_First ==
  /\ Given({"pmid", "pmc"}) /\ ~ IsIdent(IdentText(Head(todo))) /\ ~ ignore_invalid_ident
  /\ IF citation.identifiers = << >>
       THEN pc' = "threw" /\ UNCHANGED todo
       ELSE todo' = Tail(todo) /\ UNCHANGED pc
  /\ UNCHANGED << input, parse, built, citation, citations >>

\* ... or give up the whole text.
ThrowIdent ==
  /\ Given({"pmid", "pmc"}) /\ ~ IsIdent(IdentText(Head(todo))) /\ ~ ignore_invalid_ident
  /\ pc' = "threw"
  /\ UNCHANGED << input, parse, build >>

\* CheckForUrlKey.
AddUrl ==
  /\ Given({"url", "archive-url"})
  /\ citation' = [citation EXCEPT !.urls = Append(@, << Head(todo).key, Head(todo).value >>)]
  /\ todo' = Tail(todo)
  /\ UNCHANGED << input, pc, parse, built, citations >>

KnownKeys == {"title", "doi", "isbn", "issn", "pmid", "pmc", "url", "archive-url"}

SkipParameter ==
  /\ pc = "field" /\ todo # << >> /\ ~ Given(KnownKeys)
  /\ todo' = Tail(todo)
  /\ UNCHANGED << input, pc, parse, built, citation, citations >>

\* Mutant: citations are kept by the type of their template.
Inserted_ByType == Set(citations, results[built + 1].name, citation)

\* The map keeps the citation it has under a title, if any.
Inserted == IF citation.title \in DOMAIN citations THEN citations
            ELSE Set(citations, citation.title, citation)

Insert ==
  /\ pc = "field" /\ todo = << >>
  /\ citations' = Inserted
  /\ built' = built + 1
  /\ pc' = "build"
  /\ UNCHANGED << input, parse, todo, citation >>

Return ==
  /\ pc = "build" /\ built = Len(results)
  /\ pc' = "returned"
  /\ UNCHANGED << input, parse, build >>

Next ==
  \/ SkipToTemplate \/ TemplateType \/ Parameter \/ CloseTemplate \/ StopRepetition
  \/ FilterOut \/ BuildCitation \/ SetTitle \/ SetTextIdent \/ SetNumericIdent
  \/ IgnoreIdent \/ ThrowIdent \/ AddUrl \/ SkipParameter \/ Insert \/ Return

Spec == Init /\ [][Next]_vars /\ WF_vars(Next)

-----------------------------------------------------------------------------
(* What the text says, position by position and without an iterator. *)

Words == UNION { ToSet(t) : t \in Texts }
Strings == Seq(Words)
Parameters == [key : Strings, has_value : BOOLEAN, value : Strings]
Entries == [name : Strings, params : Seq(Parameters)]

\* Type correctness.
TypeOK ==
  /\ pc \in {"skip", "template", "param", "close", "build", "field", "returned", "threw"}
  /\ first \in 0 .. Len(text)
  /\ entry \in Entries /\ results \in Seq(Entries)
  /\ built \in 0 .. Len(results)
  /\ todo \in Seq(Parameters)
  /\ \A t \in DOMAIN citations : t \in Strings /\ citations[t].title = t

\* Characters a + 1 .. b of w are a template whose type ends before the bar m.
IsTemplate(w, a, m, b) ==
  /\ a + 3 < m /\ m < b - 1
  /\ w[a + 1] = "{" /\ w[a + 2] = "{" /\ w[b - 1] = "}" /\ w[b] = "}"
  /\ w[m] = "|" /\ \A j \in a + 3 .. m - 1 : w[j] # "|"
  /\ \A j \in m + 1 .. b - 2 : w[j] # "}"

ParameterOf(s) ==
  LET e == SelectInSeq(s, LAMBDA x : x = "=") IN
  IF e = 0 THEN [key |-> s, has_value |-> FALSE, value |-> << >>]
           ELSE [key |-> SubSeq(s, 1, e - 1), has_value |-> TRUE,
                 value |-> SubSeq(s, e + 1, Len(s))]

\* The parameters between the characters of w at the positions K.
Between(w, K) ==
  LET bars == Ascending(K) IN
  [ n \in 1 .. Cardinality(K) - 1 |->
      ParameterOf(SubSeq(w, bars[n] + 1, bars[n + 1] - 1)) ]

EntryOf(w, a, m, b) ==
  [name |-> SubSeq(w, a + 3, m - 1),
   params |-> Between(w, { j \in m .. b - 2 : w[j] = "|" } \cup {b - 1})]

\* The templates of w from each position on, up to the first "{{" that begins none.
TemplatesFrom(w) ==
  LET from[p \in 0 .. Len(w)] ==
        LET openings == { q \in p .. Len(w) - 2 : w[q + 1] = "{" /\ w[q + 2] = "{" }
            a == Min(openings)
            spans == { s \in (a + 4 .. Len(w)) \X (a + 6 .. Len(w)) :
                         IsTemplate(w, a, s[1], s[2]) }
            span == CHOOSE s \in spans : TRUE
        IN  IF openings = {} \/ spans = {} THEN << >>
            ELSE << EntryOf(w, a, span[1], span[2]) >> \o from[span[2]]
  IN  from

Templates == TemplatesFrom(text)[0]

\* Once the text has been parsed the results are its templates, from the first up
\* to the first that is not well formed, each with all its parameters.
TemplatesExact ==
  pc \in {"build", "field", "returned", "threw"} => results = Templates

\* Which parameters give a value for the key k, and which one that can be read.
Giving(params, k) ==
  { n \in DOMAIN params : params[n].has_value /\ params[n].key = << k >> }
Readable(params, k) == { n \in Giving(params, k) : IsIdent(IdentText(params[n])) }

Title(params) ==
  IF Giving(params, "title") = {} THEN << >> ELSE params[Max(Giving(params, "title"))].value

Resolver == "https://doi.org/"

\* The identifier of a citation that is text and for which v is given: v itself,
\* and of a DOI what follows the resolver, once.
Becomes(k, v, ident) ==
  IF k = "doi" /\ IsPrefix(<< Resolver >>, v) THEN v = << Resolver >> \o ident
                                              ELSE v = ident

NumericKeys == {"pmid", "pmc"}
TextKeys == {"doi", "isbn", "issn"}
IdentKeys == NumericKeys \cup TextKeys

\* The citation c has what params give and nothing else: the last title; of the
\* identifiers those that are given and can be read, each with the last such value,
\* and a message for them iff one is given, readable or not; all the URLs in order.
Describes(c, params) ==
  /\ c.title = Title(params)
  /\ DOMAIN c.identifiers \subseteq { << k >> : k \in IdentKeys }
  /\ \A k \in NumericKeys :
       LET given == Readable(params, k) IN
       /\ << k >> \in DOMAIN c.identifiers <=> given # {}
       /\ given # {} =>
            (c.identifiers[<< k >>] - StrToIntIdent(IdentText(params[Max(given)])))
              % (2 * IntMax + 2) = 0
  /\ \A k \in TextKeys :
       LET given == Giving(params, k) IN
       /\ << k >> \in DOMAIN c.identifiers <=> given # {}
       /\ given # {} => Becomes(k, params[Max(given)].value, c.identifiers[<< k >>])
  /\ c.has_identifiers <=> \E k \in IdentKeys : Giving(params, k) # {}
  /\ c.urls = Selected([ n \in DOMAIN params |-> << params[n].key, params[n].value >> ],
                       Giving(params, "url") \cup Giving(params, "archive-url"))

Accepted == { n \in DOMAIN results : Accepts(results[n].name) }
Titled(t) == { n \in Accepted : Title(results[n].params) = t }

\* A citation has what its own template gives and nothing of any other.  Of the
\* templates with one title, or with none, the first has become a citation; that
\* the others are lost is what AllCitationsReturned denies.
CitationsExact ==
  pc = "returned" =>
    /\ DOMAIN citations = { Title(results[n].params) : n \in Accepted }
    /\ \A t \in DOMAIN citations : Describes(citations[t], results[Min(Titled(t))].params)

\* The text is given up iff an identifier that cannot be read matters: one of a
\* citation the filter accepts, in a parser that does not ignore it.
ThrowsExactly ==
  pc \in {"returned", "threw"} =>
    (pc = "threw" <=>
       /\ ~ ignore_invalid_ident
       /\ \E n \in Accepted, k \in {"pmid", "pmc"} :
            Readable(results[n].params, k) # Giving(results[n].params, k))

\* Parsing ends, whatever the text.
Terminates == <>(pc \in {"returned", "threw"})

\* Every citation in the text is returned, with all that its template gives: one
\* whose type is a word and whose braces are its own.
AllCitationsReturned ==
  pc = "returned" /\ ~ filtered =>
    \A a, m, b \in 1 .. Len(text) :
      IsTemplate(text, a, m, b) /\ m = a + 4 /\ (\A j \in a + 3 .. b - 2 : text[j] # "{")
        => \E t \in DOMAIN citations : Describes(citations[t], EntryOf(text, a, m, b).params)
=============================================================================
