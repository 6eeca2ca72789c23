------------------------- MODULE MCSnapshotProcessor -------------------------
(***************************************************************************)
(* SnapshotProcessor for TLC: small sets of lines.                         *)
(***************************************************************************)
EXTENDS SnapshotProcessor, TLC

OpenAlex(id) == << "https://openalex.org/", id >>

Ada       == ("id" :> OpenAlex("A1")) @@ ("display_name" :> << "Ada" >>)
AdaOrcid  == ("id" :> << "A1" >>) @@ ("orcid" :> << "O1" >>)
Bob       == ("display_name" :> << "Bob" >>)
BobOrcid  == ("display_name" :> << "Bob" >>) @@ ("orcid" :> << "O2" >>)
OnlyOrcid == ("orcid" :> << "O3" >>)
Uni       == ("id" :> OpenAlex("I1")) @@ ("ror" :> << "R1" >>)
Lab       == ("display_name" :> << "Lab" >>)
BobInc    == ("display_name" :> << "Bob" >>)
Blank     == << >>

\* The data of a work: as most are; with little and odd data; and without an id or
\* with an identifier that is no number, which throw.
Plain == ("id" :> OpenAlex("W1")) @@ ("oa_status" :> << "gold" >>)
           @@ ("title" :> << "T" >>) @@ ("language" :> << "en" >>)
           @@ ("doi" :> << "https://doi.org/", "D" >>)
           @@ ("pmid" :> << "https://pubmed.ncbi.nlm.nih.gov/", "1" >>)
Odd == ("id" :> << "W2" >>) @@ ("oa_status" :> << "odd" >>) @@ ("language" :> << "zn" >>)
         @@ ("pmid" :> << "-1" >>)
NoId == ("oa_status" :> << "gold" >>)
BadPmid == ("pmid" :> << "x" >>) @@ Plain
Dated == ("publication_date" :> << "2023-01-01" >>) @@ Plain

\* stoul takes "-1" for the largest number of 64 bits.
SmallNumerals == ("1" :> 1) @@ ("-1" :> 15)
KnownLanguages == { << "en" >> }

Authorship(a, is) == [author |-> a, institutions |-> is]
Line(d, s) == [data |-> d, authorships |-> s]

\* Lines of one authorship, and lines of two.
Singles(S, D) == { Line(d, << a >>) : a \in S, d \in D }
Pairs(S) == { Line(Plain, s) : s \in S \X S }

\* Authors and institutions of different names; one author has nothing but an
\* institution, and two share an id but not what else they say.
OrdinaryLines ==
  Pairs({ Authorship(Ada, << Uni, Lab >>), Authorship(AdaOrcid, << Blank, Lab >>),
          Authorship(Bob, << Lab >>), Authorship(BobOrcid, << >>),
          Authorship(Blank, << Uni >>) })
  \cup Singles({ Authorship(Ada, << Uni, Lab >>) }, { Odd, NoId, BadPmid, Dated })

\* An institution, without an id as its author is, that has the author's name.
NamesakeLines == Singles({ Authorship(Bob, << BobInc >>) }, {Plain})

ASSUME NamesakesAssumption == NoNamesakes(OrdinaryLines) /\ ~ NoNamesakes(NamesakeLines)

\* An author known by the ORCID alone.
OrcidLines ==
  Singles({ Authorship(OnlyOrcid, << Uni >>), Authorship(Ada, << Uni >>) }, {Plain})

\* Publication dates as snapshots give them.
DatedLines == Singles({ Authorship(Ada, << Uni >>) }, {Dated})

OneLine == << 1 >>
TwoLinesAndOne == << 2, 1 >>
=============================================================================
