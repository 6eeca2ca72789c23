-------------------------- MODULE MCWikitextParser --------------------------
(***************************************************************************)
(* WikitextParser for TLC: texts put together from a few pieces.           *)
(***************************************************************************)
EXTENDS WikitextParser, TLC

Braced(s) == << "{", "{" >> \o s \o << "}", "}" >>
Cite(params) == Braced(<< "cite" >> \o params)
P(key, value) == << "|", key, "=" >> \o value

Namesakes ==
  { Cite(P("title", << "A" >>)),
    Cite(P("title", << "A" >>) \o P("pmid", << "7" >>)) }

Well ==
  Namesakes \cup
  { Cite(P("title", << "B" >>) \o P("issn", << "i" >>) \o P("pmid", << "w", "7" >>)
           \o P("doi", << "https://doi.org/", "d" >>)),
    Cite(P("pmc", << "PMC", "5" >>) \o P("pmid", << "-", "7", "w" >>)),
    Cite(P("pmid", << "8" >>) \o P("title", << "B" >>) \o << "|" >>),
    Cite(P("url", << "u", "=", "v" >>) \o << "|", "w" >> \o P("archive-url", << >>)),
    Braced(<< "stub" >> \o P("title", << "B" >>)) }

\* A brace in a value, which no template survives.
Broken == Cite(P("title", << "A", "}", "w" >>))

\* No parameters; a brace and a template in a value; braces at the end.
Ill ==
  { Braced(<< "stub" >>), Broken,
    Cite(P("title", Braced(<< "w", "|", "w" >>)) \o P("pmid", << "7" >>)),
    << "w", "{" >>, << "}", "|" >> }

\* A template may give a parameter several times.
Repeating ==
  { Cite(P("title", << "B" >>) \o P("doi", << "e" >>) \o P("isbn", << "i" >>)
           \o P("url", << "u" >>) \o P("archive-url", << "u" >>) \o P("title", << "A" >>)
           \o P("doi", << "https://doi.org/", "https://doi.org/", "d" >>)
           \o P("isbn", << "j" >>) \o P("url", << "v" >>)),
    Cite(P("pmid", << "7" >>) \o P("doi", << "https://doi.org/", "d" >>)
           \o P("pmid", << "5" >>) \o P("doi", << "e" >>) \o P("pmid", << "w" >>)),
    Cite(P("pmc", << "w" >>)) }

Joined(S, n) == { FlattenSeq(s) : s \in UNION { [1 .. k -> S] : k \in 0 .. n } }

UpToThree == Joined(Well \cup Ill, 3) \cup Joined(Well \cup Ill \cup Repeating, 2)

\* Two citations of one title, and another one behind a template that is none.
Lossy ==
  { FlattenSeq(s \o << Broken, e >>) : s \in SetToSeqs(Namesakes), e \in Well \ Namesakes }

CiteOnly == { << "cite" >> }
SmallNumerals == ("5" :> 5) @@ ("7" :> 7) @@ ("8" :> 8)
=============================================================================
