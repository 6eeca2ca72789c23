-------------------------- MODULE DumpParserProofs --------------------------
(***************************************************************************)
(* Theorems about DumpParser, for documents of any size and shape the      *)
(* schema allows: the flags follow the nesting of the elements, and every  *)
(* field of what is stored is the text of its own element.                 *)
(***************************************************************************)
EXTENDS DumpParser, SequenceLemmas

-----------------------------------------------------------------------------
(* The flags. *)

\* Whether an element named name may be at depth k of a document.
AtLevel(name, k) ==
  \/ k = 1 /\ name = "mediawiki"
  \/ k = 2 /\ name \in {"siteinfo", "page", "logitem"}
  \/ k = 3 /\ name \in {"title", "id", "revision", "upload", "contributor", "text"}
  \/ k = 4 /\ name \in {"id", "parentid", "timestamp", "contributor", "text", "content",
                         "username"}
  \/ k = 5 /\ name \in {"username", "id", "text"}

Fields == {"name", "text", "children"}

\* The open elements are a path of the schema, so that none is inside another of
\* its name: this is what makes one flag per element enough.
Path ==
  /\ \E S : open \in Seq(S)
  /\ open # << >>
  /\ \A k \in 1 .. Len(open) : DOMAIN open[k] = Fields /\ AtLevel(open[k].name, k)
  /\ \A j, k \in 1 .. Len(open) :
       open[j].name = "contributor" /\ open[k].name = "contributor" => j = k

Nested == Path /\ FlagsTrackNesting

\* A child is one level below its parent.
LEMMA ChildLevel ==
  ASSUME NEW k \in Nat, NEW name, AtLevel(name, k), NEW j \in DOMAIN Children(name)
  PROVE  AtLevel(Children(name)[j], k + 1)
  BY DEF AtLevel, Children

\* A page and a revision are at one level only.
LEMMA OneLevel ==
  ASSUME NEW j \in Nat, NEW k \in Nat, NEW name \in {"page", "revision"},
         AtLevel(name, j), AtLevel(name, k)
  PROVE  j = k
  BY DEF AtLevel

\* A contributor is at one of two, and its parent is no contributor.
LEMMA ContributorLevel ==
  ASSUME NEW k \in Nat, NEW name, AtLevel(name, k),
         NEW j \in DOMAIN Children(name), Children(name)[j] = "contributor"
  PROVE  /\ name \in {"logitem", "revision", "upload"} /\ k \in {2, 3}
         /\ \A l \in Nat : AtLevel("contributor", l) => l \in {3, 4}
  BY DEF AtLevel, Children

LEMMA FrontProperties ==
  ASSUME NEW S, NEW s \in Seq(S), Len(s) > 1
  PROVE  /\ Front(s) \in Seq(S)
         /\ Len(Front(s)) = Len(s) - 1
         /\ \A k \in 1 .. Len(s) - 1 : Front(s)[k] = s[k]
  BY DEF Front

LEMMA InitNested == Init => Nested
  <1> SUFFICES ASSUME Init PROVE Nested
    OBVIOUS
  <1>1. open = << Element("mediawiki") >>
    BY DEF Init
  <1>2. open \in Seq({Element("mediawiki")}) /\ Len(open) = 1 /\ open[1] = Element("mediawiki")
    BY <1>1
  <1>3. DOMAIN Element("mediawiki") = Fields /\ Element("mediawiki").name = "mediawiki"
    BY DEF Element, Fields
  <1>4. Path
    <2>1. \E S : open \in Seq(S)
      <3> WITNESS {Element("mediawiki")}
      <3> QED
        BY <1>2
    <2>2. open # << >>
      BY <1>1
    <2> QED
      BY <2>1, <2>2, <1>2, <1>3 DEF Path, AtLevel
  <1>5. /\ Inside("page") = FALSE
        /\ Inside("revision") = FALSE
        /\ Inside("contributor") = FALSE
    BY <1>2, <1>3 DEF Inside
  <1>6. FlagsTrackNesting
    BY <1>5, Zenon DEF FlagsTrackNesting, Init
  <1> QED
    BY <1>4, <1>6 DEF Nested

\* A start tag opens an element one level further down.
LEMMA StartNested ==
  ASSUME Nested, StartElement
  PROVE  Nested'
  <1>1. PICK S : open \in Seq(S)
    BY DEF Nested, Path
  <1>2. PICK j \in DOMAIN Children(Top.name) :
          /\ on_start_element(Children(Top.name)[j])
          /\ open' = Append(open, Element(Children(Top.name)[j]))
    BY DEF StartElement
  <1> DEFINE name == Children(Top.name)[j]
  <1>3. Len(open) \in Nat \ {0} /\ Top = open[Len(open)]
    BY <1>1 DEF Nested, Path, Top, Last
  <1>4. AtLevel(name, Len(open) + 1)
    BY <1>2, <1>3, ChildLevel DEF Nested, Path
  <1>5. /\ open' \in Seq(S \cup {Element(name)})
        /\ Len(open') = Len(open) + 1
        /\ open'[Len(open) + 1] = Element(name)
        /\ \A k \in 1 .. Len(open) : open'[k] = open[k]
    BY <1>1, <1>2
  <1>6. DOMAIN Element(name) = Fields /\ Element(name).name = name
    BY DEF Element, Fields
  <1>11. ASSUME name = "contributor", NEW k \in 1 .. Len(open) PROVE open[k].name # "contributor"
    <2>1. /\ Top.name \in {"logitem", "revision", "upload"} /\ Len(open) \in {2, 3}
          /\ \A l \in Nat : AtLevel("contributor", l) => l \in {3, 4}
      <3>1. AtLevel(Top.name, Len(open)) /\ Children(Top.name)[j] = "contributor"
        BY <1>3, <1>11 DEF Nested, Path
      <3> QED
        BY <1>3, <3>1, ContributorLevel
    <2>2. CASE k = Len(open)
      BY <1>3, <2>1, <2>2
    <2>3. CASE k # Len(open)
      <3>1. k \in 1 .. 2
        BY <1>3, <2>1, <2>3
      <3> QED
        BY <2>1, <3>1 DEF Nested, Path
    <2> QED
      BY <2>2, <2>3
  <1> HIDE DEF name
  <1>7. Path'
    <2>1. \A k \in 1 .. Len(open) : open'[k].name = "contributor" => name # "contributor"
      BY <1>5, <1>11
    <2>2. \A k, l \in 1 .. Len(open') :
            open'[k].name = "contributor" /\ open'[l].name = "contributor" => k = l
      BY <1>3, <1>5, <1>6, <2>1 DEF Nested, Path
    <2> QED
      BY <1>3, <1>4, <1>5, <1>6, <2>2 DEF Nested, Path
  <1>8. \A x : Inside(x)' <=> Inside(x) \/ name = x
    BY <1>1, <1>3, <1>5, <1>6 DEF Inside
  <1>9. status = "parsing"
    BY DEF StartElement
  <1>10. FlagsTrackNesting'
    BY <1>2, <1>8, <1>9 DEF Nested, FlagsTrackNesting, on_start_element, name
  <1> QED
    BY <1>7, <1>10 DEF Nested

\* Unless it throws, an end tag has one handler.
LEMMA Handler ==
  ASSUME NEW name, on_end_element(name), status' # "threw"
  PROVE  /\ name = "page" => OnEndPage
         /\ name = "revision" => OnEndRevision
         /\ name = "contributor" => OnEndContributor
         /\ name \notin {"page", "revision", "contributor"} => OnEndField(name)
         /\ status' = status
  BY DEF on_end_element, Throw

\* An end tag closes the innermost element and leaves the others as they are.
LEMMA EndNested ==
  ASSUME Nested, EndElement
  PROVE  Nested'
  <1>1. PICK S : open \in Seq(S)
    BY DEF Nested, Path
  <1> DEFINE n == Len(open)
  <1>2. n \in Nat /\ n > 1 /\ Top = open[n]
    BY <1>1 DEF EndElement, Top, Last
  <1>3. open' = [Front(open) EXCEPT ![n - 1].children = Append(@, Top)]
    BY DEF EndElement
  <1>4. /\ Front(open) \in Seq(S) /\ Len(Front(open)) = n - 1
        /\ \A k \in 1 .. n - 1 : Front(open)[k] = open[k]
    BY <1>1, <1>2, FrontProperties
  <1> DEFINE e == [Front(open)[n - 1] EXCEPT !.children = Append(@, Top)]
  <1>5. Front(open)[n - 1] = open[n - 1] /\ DOMAIN open[n - 1] = Fields
    BY <1>2, <1>4 DEF Nested, Path
  <1>6. DOMAIN e = Fields /\ e.name = open[n - 1].name
    BY <1>5 DEF Fields
  <1>7. open' = [Front(open) EXCEPT ![n - 1] = e]
    BY <1>3
  <1> HIDE DEF e
  <1>8. /\ open' \in Seq(S \cup {e})
        /\ Len(open') = n - 1
        /\ open'[n - 1] = e
        /\ \A k \in 1 .. n - 2 : open'[k] = open[k]
    BY <1>2, <1>4, <1>7
  <1>9. \A k \in 1 .. n - 1 : DOMAIN open'[k] = Fields /\ open'[k].name = open[k].name
    <2>1. \A k \in 1 .. n - 1 : DOMAIN open[k] = Fields
      BY <1>2 DEF Nested, Path
    <2> QED
      BY <1>2, <1>6, <1>8, <2>1
  <1>10. Path'
    BY <1>2, <1>8, <1>9 DEF Nested, Path
  <1>11. \A x \in {"page", "revision", "contributor"} :
           Inside(x)' <=> Inside(x) /\ Top.name # x
    <2> SUFFICES ASSUME NEW x \in {"page", "revision", "contributor"}
                 PROVE  Inside(x)' <=> Inside(x) /\ Top.name # x
      OBVIOUS
    <2>1. DOMAIN open = 1 .. n /\ DOMAIN open' = 1 .. n - 1
      BY <1>1, <1>8
    <2>2. ASSUME NEW k \in 1 .. n - 1, open[k].name = x PROVE open[n].name # x
      <3>1. CASE x = "contributor"
        BY <1>2, <2>2, <3>1 DEF Nested, Path
      <3>2. CASE x # "contributor"
        BY <1>2, <2>2, <3>2, OneLevel DEF Nested, Path
      <3> QED
        BY <3>1, <3>2
    <2> QED
      BY <1>2, <1>9, <2>1, <2>2 DEF Inside
  <1>12. FlagsTrackNesting'
    <2> SUFFICES ASSUME status' = "parsing"
                 PROVE  /\ in_page_' = Inside("page")'
                        /\ in_revision_' = Inside("revision")'
                        /\ in_contributor_' = Inside("contributor")'
      BY DEF FlagsTrackNesting
    <2>1. on_end_element(Top.name) /\ status = "parsing"
      BY DEF EndElement
    <2>2. /\ in_page_ = Inside("page")
          /\ in_revision_ = Inside("revision")
          /\ in_contributor_ = Inside("contributor")
      BY <2>1 DEF Nested, FlagsTrackNesting
    <2>3. CASE Top.name = "page"
      <3>1. /\ Inside("page")' = FALSE
            /\ Inside("revision")' = Inside("revision")
            /\ Inside("contributor")' = Inside("contributor")
        BY <1>11, <2>3 DEF Inside
      <3>2. OnEndPage
        BY <2>1, <2>3, Handler
      <3> QED
        BY <2>2, <3>1, <3>2, Zenon DEF OnEndPage
    <2>4. CASE Top.name = "revision"
      <3>1. /\ Inside("revision")' = FALSE
            /\ Inside("page")' = Inside("page")
            /\ Inside("contributor")' = Inside("contributor")
        BY <1>11, <2>4 DEF Inside
      <3>2. OnEndRevision
        BY <2>1, <2>4, Handler
      <3> QED
        BY <2>2, <3>1, <3>2, Zenon DEF OnEndRevision
    <2>5. CASE Top.name = "contributor"
      <3>1. /\ Inside("contributor")' = FALSE
            /\ Inside("page")' = Inside("page")
            /\ Inside("revision")' = Inside("revision")
        BY <1>11, <2>5 DEF Inside
      <3>2. OnEndContributor
        BY <2>1, <2>5, Handler
      <3> QED
        BY <2>2, <3>1, <3>2, Zenon DEF OnEndContributor
    <2>6. CASE Top.name \notin {"page", "revision", "contributor"}
      <3>1. /\ Inside("contributor")' = Inside("contributor")
            /\ Inside("page")' = Inside("page")
            /\ Inside("revision")' = Inside("revision")
        BY <1>11, <2>6 DEF Inside
      <3>2. OnEndField(Top.name)
        BY <2>1, <2>6, Handler
      <3> QED
        BY <2>2, <3>1, <3>2, Zenon DEF OnEndField, flags
    <2> QED
      BY <2>3, <2>4, <2>5, <2>6
  <1> QED
    BY <1>10, <1>12 DEF Nested

\* Text changes the innermost element only, and not its name.
LEMMA CharactersNested ==
  ASSUME Nested, Characters
  PROVE  Nested'
  <1>1. PICK S : open \in Seq(S)
    BY DEF Nested, Path
  <1> DEFINE n == Len(open)
             e == [open[n] EXCEPT !.text = Append(@, chunks + 1)]
  <1>2. n \in Nat \ {0}
    BY <1>1 DEF Nested, Path
  <1>3. open' = [open EXCEPT ![n] = e]
    BY DEF Characters
  <1>4. DOMAIN e = Fields /\ e.name = open[n].name
    BY <1>2 DEF Nested, Path, Fields
  <1> HIDE DEF e
  <1>5. /\ open' \in Seq(S \cup {e}) /\ Len(open') = n
        /\ DOMAIN open' = DOMAIN open /\ DOMAIN open = 1 .. n
        /\ open'[n] = e /\ \A k \in 1 .. n - 1 : open'[k] = open[k]
    BY <1>1, <1>2, <1>3
  <1>6. \A k \in 1 .. n : DOMAIN open'[k] = Fields /\ open'[k].name = open[k].name
    BY <1>2, <1>4, <1>5 DEF Nested, Path
  <1>7. Path'
    BY <1>2, <1>5, <1>6 DEF Nested, Path
  <1>8. \A x : Inside(x)' <=> Inside(x)
    BY <1>5, <1>6 DEF Inside
  <1>9. FlagsTrackNesting'
    BY <1>8 DEF Nested, FlagsTrackNesting, Characters, on_characters, flags
  <1> QED
    BY <1>7, <1>9 DEF Nested

LEMMA NextNested == Nested /\ [Next]_vars => Nested'
  <1> SUFFICES ASSUME Nested, [Next]_vars PROVE Nested'
    OBVIOUS
  <1>1. CASE StartElement
    BY <1>1, StartNested
  <1>2. CASE Characters
    BY <1>2, CharactersNested
  <1>3. CASE EndElement
    BY <1>3, EndNested
  <1>4. CASE on_error
    BY <1>4 DEF on_error, Throw, Nested, Path, FlagsTrackNesting
  <1>5. CASE Return
    BY <1>5 DEF Return, Nested, Path, FlagsTrackNesting
  <1>6. CASE UNCHANGED vars
    BY <1>6 DEF vars, flags, Nested, Path, FlagsTrackNesting, Inside
  <1> QED
    BY <1>1, <1>2, <1>3, <1>4, <1>5, <1>6 DEF Next

\* The three flags say which elements are open (on_start_element,
\* on_end_element), for any number of pages, revisions and pieces of text.
THEOREM FlagsCorrect == Spec => []FlagsTrackNesting
  <1>1. Nested => FlagsTrackNesting
    BY DEF Nested
  <1> QED
    BY InitNested, NextNested, <1>1, PTL DEF Spec

-----------------------------------------------------------------------------
(* The children of an element by name. *)

\* The children of an element are a sequence.
Listed(e) == \E S : e.children \in Seq(S)

LEMMA NamedType ==
  ASSUME NEW e, Listed(e), NEW name
  PROVE  /\ \E S : Named(e, name) \in Seq(S)
         /\ Named(e, name) = << >> <=> Len(Named(e, name)) = 0
         /\ Len(Named(e, name)) \in Nat
  <1> DEFINE K == { k \in DOMAIN e.children : e.children[k].name = name }
             V == { e.children[k] : k \in K }
  <1>1. PICK S : e.children \in Seq(S)
    BY DEF Listed
  <1>2. DOMAIN e.children = 1 .. Len(e.children) /\ Len(e.children) \in Nat
    BY <1>1
  <1>3. K \in SUBSET Int /\ IsFiniteSet(K)
    <2>1. IsFiniteSet(DOMAIN e.children)
      BY <1>2, FS_Interval
    <2> QED
      BY <1>2, <2>1, FS_Subset
  <1> HIDE DEF K
  <1>4. Selected(e.children, K) \in Seq(V)
    BY <1>3, SelectedProperties
  <1>5. Named(e, name) = Selected(e.children, K)
    BY DEF Named, K
  <1> HIDE DEF V
  <1>6. Named(e, name) \in Seq(V)
    BY <1>4, <1>5
  <1> QED
    BY <1>6, EmptySeq

\* The closed element c has joined the children of its parent e.
Joins(f, e, c) == f.children = Append(e.children, c)

LEMMA NamedAppend ==
  ASSUME NEW e, Listed(e), NEW f, NEW c, Joins(f, e, c), NEW name
  PROVE  /\ Listed(f)
         /\ c.name # name => Named(f, name) = Named(e, name)
         /\ c.name = name => Named(f, name) = Append(Named(e, name), c)
  <1> DEFINE m == Len(e.children)
             K == { k \in DOMAIN e.children : e.children[k].name = name }
             L == { k \in DOMAIN f.children : f.children[k].name = name }
  <1>1. PICK S : e.children \in Seq(S)
    BY DEF Listed
  <1>2. /\ DOMAIN e.children = 1 .. m /\ m \in Nat
        /\ f.children \in Seq(S \cup {c}) /\ DOMAIN f.children = 1 .. m + 1
        /\ f.children[m + 1] = c
        /\ \A k \in 1 .. m : f.children[k] = e.children[k]
    BY <1>1 DEF Joins
  <1>3. Listed(f)
    BY <1>2 DEF Listed
  <1>4. K \in SUBSET Int /\ IsFiniteSet(K) /\ K \subseteq 1 .. m
    <2>1. IsFiniteSet(DOMAIN e.children)
      BY <1>2, FS_Interval
    <2> QED
      BY <1>2, <2>1, FS_Subset
  <1>5. L = IF c.name = name THEN K \cup {m + 1} ELSE K
    BY <1>2
  <1>6. Named(e, name) = Selected(e.children, K) /\ Named(f, name) = Selected(f.children, L)
    BY DEF Named
  <1> HIDE DEF m, K, L
  <1>7. Selected(f.children, K) = Selected(e.children, K)
    BY <1>2, <1>4, SelectedSame
  <1>8. CASE c.name # name
    BY <1>3, <1>5, <1>6, <1>7, <1>8
  <1>9. CASE c.name = name
    <2>0. IsFiniteSet({m + 1})
      BY FS_Singleton
    <2>1. {m + 1} \in SUBSET Int /\ IsFiniteSet({m + 1}) /\ m + 1 \in Int
      BY <1>2, <2>0
    <2>2. \A k \in K, l \in {m + 1} : k < l
      BY <1>2, <1>4
    <2>3. Selected(f.children, K \cup {m + 1})
            = Selected(f.children, K) \o Selected(f.children, {m + 1})
      BY <1>4, <2>1, <2>2, SelectedUnion
    <2>4. Selected(f.children, {m + 1}) = << c >>
      BY <1>2, <2>1, SelectedSingle
    <2>5. PICK V : Named(e, name) \in Seq(V)
      BY NamedType
    <2>6. Append(Named(e, name), c) = Named(e, name) \o << c >>
      BY <2>5
    <2> QED
      BY <1>3, <1>5, <1>6, <1>7, <1>9, <2>3, <2>4, <2>6
  <1> QED
    BY <1>8, <1>9

\* What becomes of the texts of the parent's children.
LEMMA TextAppend ==
  ASSUME NEW e, Listed(e), NEW f, NEW c, Joins(f, e, c), NEW name
  PROVE  /\ c.name # name => Text(f, name) = Text(e, name)
         /\ c.name = name /\ Named(e, name) = << >> =>
              Named(f, name) = << c >> /\ Text(f, name) = c.text
  <1>1. ASSUME c.name # name PROVE Text(f, name) = Text(e, name)
    <2>1. Named(f, name) = Named(e, name)
      BY <1>1, NamedAppend
    <2> QED
      BY <2>1 DEF Text
  <1>2. ASSUME c.name = name, Named(e, name) = << >>
        PROVE  Named(f, name) = << c >> /\ Text(f, name) = c.text
    <2>1. Named(f, name) = << c >>
      <3>1. c.name = name => Named(f, name) = Append(Named(e, name), c)
        BY NamedAppend
      <3>2. Named(f, name) = Append(<< >>, c)
        BY <1>2, <3>1
      <3> QED
        BY <3>2
    <2>2. << c >> # << >> /\ Head(<< c >>) = c
      OBVIOUS
    <2> QED
      BY <1>2, <2>1, <2>2 DEF Text
  <1> QED
    BY <1>1, <1>2

\* An element that has just been opened has no children.
LEMMA NoChildren ==
  ASSUME NEW name
  PROVE  /\ DOMAIN Element(name) = Fields /\ Element(name).name = name
         /\ Element(name).text = << >> /\ Listed(Element(name))
         /\ \A x : Named(Element(name), x) = << >> /\ Text(Element(name), x) = << >>
  <1>1. /\ DOMAIN Element(name) = Fields /\ Element(name).name = name
        /\ Element(name).text = << >> /\ Element(name).children = << >>
    BY DEF Element, Fields
  <1>2. Listed(Element(name))
    BY <1>1 DEF Listed
  <1>3. ASSUME NEW x PROVE Named(Element(name), x) = << >>
    <2>1. { k \in DOMAIN << >> : << >>[k].name = x } = {}
      OBVIOUS
    <2> QED
      BY <1>1, <2>1, SelectedNone DEF Named
  <1>4. \A x : Text(Element(name), x) = << >>
    BY <1>3 DEF Text
  <1> QED
    BY <1>1, <1>2, <1>3, <1>4

\* The children alone make what the document says.
LEMMA SameChildren ==
  ASSUME NEW e, NEW f, f.children = e.children
  PROVE  /\ \A x : Named(f, x) = Named(e, x) /\ Text(f, x) = Text(e, x)
         /\ PageOf(f) = PageOf(e) /\ RevisionsOf(f) = RevisionsOf(e)
         /\ RevisionOf(f) = RevisionOf(e)
  <1>1. \A x : Named(f, x) = Named(e, x)
    BY DEF Named
  <1>2. \A x : Text(f, x) = Text(e, x)
    BY <1>1 DEF Text
  <1>3. User(f) = User(e)
    BY <1>1 DEF User
  <1>4. RevisionsOf(f) = RevisionsOf(e)
    BY <1>1 DEF RevisionsOf
  <1>5. LastText(f) = LastText(e)
    BY <1>1, <1>2 DEF LastText
  <1> QED
    BY <1>1, <1>2, <1>3, <1>4, <1>5 DEF PageOf, RevisionOf

-----------------------------------------------------------------------------
(* Texts. *)

\* A function as a sequence.
LEMMA FunctionSeq ==
  ASSUME NEW S, NEW n \in Nat, NEW f \in [1 .. n -> S]
  PROVE  f \in Seq(S) /\ Len(f) = n
  OBVIOUS

LEMMA TextsType ==
  ASSUME NEW t
  PROVE  t \in Texts <=> t \in Seq(Chunks) /\ Len(t) <= MaxPieces
  BY DEF Texts

LEMMA EmptyTexts == << >> \in Texts /\ Digits(<< >>) = << >> /\ Timestamp(<< >>) = << >>
  <1>1. << >> \in Texts
    <2>1. << >> \in Seq(Chunks) /\ Len(<< >>) = 0
      OBVIOUS
    <2>2. Len(<< >>) <= MaxPieces
      BY <2>1, BoundsAssumption
    <2> QED
      BY <2>1, <2>2, TextsType
  <1>2. { k \in DOMAIN << >> : << >>[k] \in OddChunks } = {}
    OBVIOUS
  <1>3. Digits(<< >>) = << >>
    BY <1>2 DEF Digits
  <1> QED
    BY <1>1, <1>3 DEF Timestamp

\* The elements of a sequence.
LEMMA SeqElements ==
  ASSUME NEW S, NEW s \in Seq(S)
  PROVE  ToSet(s) \subseteq S
  <1>1. \A k \in DOMAIN s : s[k] \in S
    OBVIOUS
  <1> QED
    BY <1>1 DEF ToSet

\* The first n elements of a sequence.
LEMMA SeqPart ==
  ASSUME NEW S, NEW s \in Seq(S), NEW n \in 0 .. Len(s)
  PROVE  SubSeq(s, 1, n) \in Seq(S) /\ Len(SubSeq(s, 1, n)) = n
  OBVIOUS

\* Numbers and times are texts, too.
LEMMA FieldTexts ==
  ASSUME NEW t \in Texts
  PROVE  Digits(t) \in Texts /\ Timestamp(t) \in Texts /\ Citations(t) \subseteq Chunks
  <1>1. t \in Seq(Chunks) /\ Len(t) <= MaxPieces /\ Len(t) \in Nat /\ DOMAIN t = 1 .. Len(t)
    BY TextsType
  <1> DEFINE odd == { k \in DOMAIN t : t[k] \in OddChunks }
  <1>2. Digits(t) \in Texts
    <2>1. CASE odd = {}
      BY <2>1 DEF Digits
    <2>2. CASE odd # {}
      <3>1. odd \in SUBSET Nat /\ odd \subseteq 1 .. Len(t)
        BY <1>1
      <3> HIDE DEF odd
      <3>2. \E x \in odd : \A y \in odd : x <= y
        BY <2>2, <3>1, LeastElement
      <3>3. Min(odd) \in odd
        BY <3>2 DEF Min
      <3> DEFINE n == Min(odd) - 1
      <3> DEFINE m == Min(odd)
      <3>4. m \in 1 .. Len(t)
        BY <3>1, <3>3
      <3> HIDE DEF m
      <3>5. m - 1 \in 0 .. Len(t) /\ m - 1 <= Len(t)
        BY <1>1, <3>4
      <3>6. n = m - 1
        BY DEF m
      <3> HIDE DEF n
      <3>7. SubSeq(t, 1, n) \in Seq(Chunks) /\ Len(SubSeq(t, 1, n)) = n
        BY <1>1, <3>5, <3>6, SeqPart
      <3>8. Len(SubSeq(t, 1, n)) <= MaxPieces
        BY <1>1, <3>5, <3>6, <3>7, BoundsAssumption
      <3>9. SubSeq(t, 1, n) \in Texts
        BY <3>7, <3>8, TextsType
      <3> QED
        BY <2>2, <3>9 DEF Digits, odd, n
    <2> QED
      BY <2>1, <2>2
  <1>3. Timestamp(t) \in Texts
    BY EmptyTexts DEF Timestamp
  <1>4. Citations(t) \subseteq Chunks
    BY <1>1, SeqElements DEF Citations
  <1> QED
    BY <1>2, <1>3, <1>4

-----------------------------------------------------------------------------
(* The open elements. *)

\* Elements a parent may have several of.
Several == {"page", "revision", "content", "upload", "logitem"}

\* Another child named name fits into e: where the schema has one, there is none
\* yet, and the text of a revision comes before its other slots.
Fits(e, name) ==
  /\ name \notin Several => Named(e, name) = << >>
  /\ e.name = "revision" /\ name = "text" => Named(e, "content") = << >>

\* Every open element is a child of the one before, into which it fits; its text
\* and its children are sequences.
Siblings ==
  \A k \in 1 .. Len(open) - 1 :
    /\ \E j \in DOMAIN Children(open[k].name) : open[k + 1].name = Children(open[k].name)[j]
    /\ Fits(open[k], open[k + 1].name)

Tree == \A k \in 1 .. Len(open) : open[k].text \in Texts /\ Listed(open[k])

Shape == Nested /\ Siblings /\ Tree

LEMMA InitShape == Init => Shape
  <1> SUFFICES ASSUME Init PROVE Shape
    OBVIOUS
  <1>1. open = << Element("mediawiki") >>
    BY DEF Init
  <1>2. Len(open) = 1 /\ open[1] = Element("mediawiki")
    BY <1>1
  <1>3. Siblings
    BY <1>2 DEF Siblings
  <1>4. Tree
    BY <1>2, NoChildren, EmptyTexts DEF Tree
  <1> QED
    BY <1>3, <1>4, InitNested DEF Shape

LEMMA StartOpen ==
  ASSUME Shape, StartElement
  PROVE  \E j \in DOMAIN Children(Top.name) :
           LET name == Children(Top.name)[j] IN
           /\ Len(open) \in Nat \ {0} /\ Top = open[Len(open)]
           /\ on_start_element(name)
           /\ Fits(Top, name)
           /\ Len(open') = Len(open) + 1
           /\ open'[Len(open) + 1] = Element(name)
           /\ \A k \in 1 .. Len(open) : open'[k] = open[k]
  <1>1. PICK S : open \in Seq(S)
    BY DEF Shape, Nested, Path
  <1>2. PICK j \in DOMAIN Children(Top.name) :
          /\ MayCome(j)
          /\ on_start_element(Children(Top.name)[j])
          /\ open' = Append(open, Element(Children(Top.name)[j]))
    BY DEF StartElement
  <1> DEFINE name == Children(Top.name)[j]
  <1>3. Len(open) \in Nat \ {0} /\ Top = open[Len(open)]
    BY <1>1 DEF Shape, Nested, Path, Top, Last
  <1>4. /\ Len(open') = Len(open) + 1
        /\ open'[Len(open) + 1] = Element(name)
        /\ \A k \in 1 .. Len(open) : open'[k] = open[k]
    BY <1>1, <1>2
  <1>5. Fits(Top, name)
    <2>1. Listed(Top)
      BY <1>3 DEF Shape, Tree
    <2>2. ASSUME name \notin Several PROVE Named(Top, name) = << >>
      <3>1. j <= Len(Children(Top.name))
        BY DEF Children
      <3>2. Len(Named(Top, name)) < 1
        BY <1>2, <2>2, <3>1 DEF MayCome, AtMost, Several
      <3> QED
        BY <2>1, <3>2, NamedType
    <2>3. ASSUME Top.name = "revision", name = "text" PROVE Named(Top, "content") = << >>
      <3>1. Children(Top.name) = << "id", "parentid", "timestamp", "contributor", "text",
                                    "content" >>
        BY <2>3 DEF Children
      <3>2. j = 5
        BY <2>3, <3>1
      <3>3. Len(Named(Top, "content")) = 0
        BY <1>2, <3>1, <3>2 DEF MayCome
      <3> QED
        BY <2>1, <3>3, NamedType
    <2> QED
      BY <2>2, <2>3 DEF Fits
  <1> QED
    BY <1>2, <1>3, <1>4, <1>5

LEMMA StartShape ==
  ASSUME Shape, StartElement
  PROVE  Shape'
  <1>1. PICK j \in DOMAIN Children(Top.name) :
          LET name == Children(Top.name)[j] IN
          /\ Len(open) \in Nat \ {0} /\ Top = open[Len(open)]
          /\ on_start_element(name)
          /\ Fits(Top, name)
          /\ Len(open') = Len(open) + 1
          /\ open'[Len(open) + 1] = Element(name)
          /\ \A k \in 1 .. Len(open) : open'[k] = open[k]
    BY StartOpen
  <1> DEFINE n == Len(open)
             name == Children(Top.name)[j]
  <1>2. /\ n \in Nat \ {0} /\ Top = open[n] /\ Len(open') = n + 1
        /\ open'[n + 1] = Element(name) /\ Element(name).name = name
        /\ \A k \in 1 .. n : open'[k] = open[k]
    BY <1>1, NoChildren
  <1>3. /\ Fits(open[n], name)
        /\ \E i \in DOMAIN Children(open[n].name) : name = Children(open[n].name)[i]
    BY <1>1, <1>2
  <1> HIDE DEF n, name
  <1>4. Siblings'
    <2> SUFFICES ASSUME NEW k \in 1 .. n
                 PROVE  /\ \E i \in DOMAIN Children(open'[k].name) :
                             open'[k + 1].name = Children(open'[k].name)[i]
                        /\ Fits(open'[k], open'[k + 1].name)
      <3>1. 1 .. Len(open') - 1 = 1 .. n
        BY <1>2
      <3> QED
        BY <3>1 DEF Siblings, Fits, Named
    <2>1. CASE k = n
      BY <1>2, <1>3, <2>1
    <2>2. CASE k # n
      <3>1. k \in 1 .. n - 1 /\ k + 1 \in 1 .. n
        BY <1>2, <2>2
      <3>2. open'[k] = open[k] /\ open'[k + 1] = open[k + 1]
        BY <1>2, <3>1
      <3> QED
        BY <3>1, <3>2 DEF Shape, Siblings, n
    <2> QED
      BY <2>1, <2>2
  <1>5. Tree'
    <2> SUFFICES ASSUME NEW k \in 1 .. n + 1
                 PROVE  open'[k].text \in Texts /\ Listed(open'[k])
      BY <1>2 DEF Tree, Listed
    <2>1. CASE k = n + 1
      BY <1>2, <2>1, NoChildren, EmptyTexts
    <2>2. CASE k # n + 1
      BY <1>2, <2>2 DEF Shape, Tree, n
    <2> QED
      BY <2>1, <2>2
  <1> QED
    BY <1>4, <1>5, StartNested DEF Shape

\* What an end tag does to the document.
LEMMA EndOpen ==
  ASSUME Shape, EndElement
  PROVE  /\ Len(open) \in Nat /\ Len(open) > 1 /\ Top = open[Len(open)]
         /\ Len(open') = Len(open) - 1
         /\ \A k \in 1 .. Len(open) - 2 : open'[k] = open[k]
         /\ Joins(open'[Len(open) - 1], open[Len(open) - 1], Top)
         /\ open'[Len(open) - 1].name = open[Len(open) - 1].name
         /\ open'[Len(open) - 1].text = open[Len(open) - 1].text
         /\ on_end_element(Top.name) /\ status = "parsing"
  <1>1. PICK S : open \in Seq(S)
    BY DEF Shape, Nested, Path
  <1> DEFINE n == Len(open)
             e == open[n - 1]
             f == [e EXCEPT !.children = Append(@, Top)]
  <1>2. n \in Nat /\ n > 1 /\ Top = open[n]
    BY <1>1 DEF EndElement, Top, Last
  <1>3. /\ Front(open) \in Seq(S) /\ Len(Front(open)) = n - 1
        /\ \A k \in 1 .. n - 1 : Front(open)[k] = open[k]
    BY <1>1, <1>2, FrontProperties
  <1>4. n - 1 \in 1 .. n /\ n - 1 \in 1 .. Len(Front(open))
    BY <1>2, <1>3
  <1>5. Front(open)[n - 1] = e /\ DOMAIN e = Fields
    BY <1>2, <1>3, <1>4 DEF Shape, Nested, Path
  <1>6. open' = [Front(open) EXCEPT ![n - 1] = f]
    BY <1>5 DEF EndElement
  <1>7. Joins(f, e, Top) /\ f.name = e.name /\ f.text = e.text
    BY <1>5 DEF Fields, Joins
  <1>8. on_end_element(Top.name) /\ status = "parsing"
    BY DEF EndElement
  <1> HIDE DEF f
  <1>9. /\ Len(open') = n - 1 /\ open'[n - 1] = f
        /\ \A k \in 1 .. n - 2 : open'[k] = open[k]
    BY <1>2, <1>3, <1>4, <1>6
  <1> QED
    BY <1>2, <1>7, <1>8, <1>9

LEMMA EndShape ==
  ASSUME Shape, EndElement
  PROVE  Shape'
  <1> DEFINE n == Len(open)
             e == open[n - 1]
             f == open'[n - 1]
  <1>1. /\ n \in Nat /\ n > 1 /\ Len(open') = n - 1
        /\ \A k \in 1 .. n - 2 : open'[k] = open[k]
        /\ Joins(f, e, Top) /\ f.name = e.name /\ f.text = e.text
    BY EndOpen
  <1> HIDE DEF n
  <1>2. /\ e.text \in Texts /\ Listed(e)
    BY <1>1 DEF Shape, Tree, n
  <1> HIDE DEF e
  <1>3. Listed(f)
    BY <1>1, <1>2, NamedAppend
  <1>4. Siblings'
    <2> SUFFICES ASSUME NEW k \in 1 .. n - 2
                 PROVE  /\ \E i \in DOMAIN Children(open'[k].name) :
                             open'[k + 1].name = Children(open'[k].name)[i]
                        /\ Fits(open'[k], open'[k + 1].name)
      <3>1. 1 .. Len(open') - 1 = 1 .. n - 2
        BY <1>1
      <3> QED
        BY <3>1 DEF Siblings, Fits, Named
    <2>1. k \in 1 .. n - 1 /\ open'[k] = open[k]
      BY <1>1
    <2>2. open'[k + 1].name = open[k + 1].name
      <3>1. CASE k + 1 = n - 1
        BY <1>1, <3>1 DEF e
      <3>2. CASE k + 1 # n - 1
        BY <1>1, <3>2
      <3> QED
        BY <3>1, <3>2
    <2> QED
      BY <2>1, <2>2 DEF Shape, Siblings, n
  <1>5. Tree'
    <2> SUFFICES ASSUME NEW k \in 1 .. n - 1
                 PROVE  open'[k].text \in Texts /\ Listed(open'[k])
      BY <1>1 DEF Tree, Listed
    <2>1. CASE k = n - 1
      BY <1>1, <1>2, <1>3, <2>1
    <2>2. CASE k # n - 1
      BY <1>1, <2>2 DEF Shape, Tree, n
    <2> QED
      BY <2>1, <2>2
  <1> QED
    BY <1>4, <1>5, EndNested DEF Shape

\* What text does to the document.
LEMMA CharactersOpen ==
  ASSUME Shape, Characters
  PROVE  /\ Len(open) \in Nat \ {0} /\ Top = open[Len(open)]
         /\ Len(open') = Len(open)
         /\ \A k \in 1 .. Len(open) - 1 : open'[k] = open[k]
         /\ open'[Len(open)].children = Top.children
         /\ open'[Len(open)].name = Top.name
         /\ open'[Len(open)].text = Append(Top.text, chunks + 1)
         /\ on_characters(chunks + 1) /\ Len(Top.text) < MaxPieces
  <1>1. PICK S : open \in Seq(S)
    BY DEF Shape, Nested, Path
  <1> DEFINE n == Len(open)
             f == [open[n] EXCEPT !.text = Append(@, chunks + 1)]
  <1>2. n \in Nat \ {0} /\ Top = open[n]
    BY <1>1 DEF Shape, Nested, Path, Top, Last
  <1>3. open' = [open EXCEPT ![n] = f]
    BY DEF Characters
  <1>4. DOMAIN open[n] = Fields
    BY <1>2 DEF Shape, Nested, Path
  <1>5. /\ f.name = open[n].name /\ f.children = open[n].children
        /\ f.text = Append(open[n].text, chunks + 1)
    BY <1>4 DEF Fields
  <1> HIDE DEF f
  <1>6. Len(open') = n /\ open'[n] = f /\ \A k \in 1 .. n - 1 : open'[k] = open[k]
    BY <1>1, <1>2, <1>3
  <1> QED
    BY <1>2, <1>5, <1>6 DEF Characters

LEMMA CharactersShape ==
  ASSUME Shape, Characters, TypeOK
  PROVE  Shape' /\ open'[Len(open)].text \in Texts
  <1> DEFINE n == Len(open)
  <1>1. /\ n \in Nat \ {0} /\ Top = open[n] /\ Len(open') = n
        /\ \A k \in 1 .. n - 1 : open'[k] = open[k]
        /\ open'[n].children = open[n].children
        /\ open'[n].name = open[n].name
        /\ open'[n].text = Append(open[n].text, chunks + 1)
        /\ Len(open[n].text) < MaxPieces
    BY CharactersOpen
  <1> HIDE DEF n
  <1>2. open[n].text \in Texts /\ Listed(open[n])
    BY <1>1 DEF Shape, Tree, n
  <1>3. open'[n].text \in Texts
    <2> DEFINE t == open[n].text
    <2>1. t \in Seq(Chunks) /\ Len(t) \in Nat
      BY <1>2, TextsType
    <2>2. chunks + 1 \in Chunks
      BY DEF TypeOK, Chunks
    <2>3. t \in Seq(Chunks) /\ Len(t) < MaxPieces
      BY <1>1, <2>1
    <2> HIDE DEF t
    <2>4. Append(t, chunks + 1) \in Seq(Chunks) /\ Len(Append(t, chunks + 1)) = Len(t) + 1
      BY <2>2, <2>3, AppendProperties
    <2>5. Len(Append(t, chunks + 1)) <= MaxPieces
      BY <2>1, <2>3, <2>4, BoundsAssumption
    <2> QED
      BY <1>1, <2>4, <2>5, TextsType DEF t
  <1>4. \A k \in 1 .. n : open'[k].name = open[k].name /\ open'[k].children = open[k].children
    BY <1>1
  <1>5. \A k \in 1 .. n : \A x : Named(open'[k], x) = Named(open[k], x)
    BY <1>4 DEF Named
  <1>6. Siblings'
    <2> SUFFICES ASSUME NEW k \in 1 .. n - 1
                 PROVE  /\ \E i \in DOMAIN Children(open'[k].name) :
                             open'[k + 1].name = Children(open'[k].name)[i]
                        /\ Fits(open'[k], open'[k + 1].name)
      BY <1>1 DEF Siblings, Fits, Named
    <2>1. k \in 1 .. n /\ k + 1 \in 1 .. n
      BY <1>1
    <2>2. Fits(open[k], open[k + 1].name) => Fits(open'[k], open[k + 1].name)
      BY <1>4, <1>5, <2>1 DEF Fits
    <2> QED
      BY <1>4, <2>1, <2>2 DEF Shape, Siblings, n
  <1>7. Tree'
    <2> SUFFICES ASSUME NEW k \in 1 .. n
                 PROVE  open'[k].text \in Texts /\ Listed(open'[k])
      BY <1>1 DEF Tree, Listed
    <2>1. Listed(open'[k])
      BY <1>4 DEF Shape, Tree, Listed, n
    <2>2. open'[k].text \in Texts
      <3>1. CASE k = n
        BY <1>3, <3>1
      <3>2. CASE k # n
        BY <1>1, <3>2 DEF Shape, Tree, n
      <3> QED
        BY <3>1, <3>2
    <2> QED
      BY <2>1, <2>2
  <1> QED
    BY <1>3, <1>6, <1>7, CharactersNested DEF Shape, n
-----------------------------------------------------------------------------
(* Where the parser is. *)

Opened(k, name) == Len(open) >= k /\ open[k].name = name

\* The schema puts every element at its depth.
LEMMA Depth ==
  ASSUME Shape
  PROVE  /\ Len(open) \in 1 .. 5 /\ DOMAIN open = 1 .. Len(open) /\ Head(open) = open[1]
         /\ Opened(1, "mediawiki")
         /\ Len(open) >= 2 => \E x \in {"siteinfo", "page", "logitem"} : Opened(2, x)
         /\ Len(open) >= 3 =>
              \/ /\ Opened(2, "page")
                 /\ \E x \in {"title", "id", "revision", "upload"} : Opened(3, x)
              \/ /\ Opened(2, "logitem")
                 /\ \E x \in {"id", "contributor", "text"} : Opened(3, x)
         /\ Len(open) >= 4 =>
              \/ /\ Opened(2, "page") /\ Opened(3, "revision")
                 /\ \E x \in {"id", "parentid", "timestamp", "contributor", "text",
                              "content"} : Opened(4, x)
              \/ Opened(2, "page") /\ Opened(3, "upload") /\ Opened(4, "contributor")
              \/ /\ Opened(2, "logitem") /\ Opened(3, "contributor")
                 /\ \E x \in {"username", "id"} : Opened(4, x)
         /\ Len(open) >= 5 =>
              \/ /\ Opened(3, "revision") \/ Opened(3, "upload")
                 /\ Opened(4, "contributor")
                 /\ \E x \in {"username", "id"} : Opened(5, x)
              \/ Opened(3, "revision") /\ Opened(4, "content") /\ Opened(5, "text")
  <1> DEFINE n == Len(open)
  <1>1. PICK S : open \in Seq(S)
    BY DEF Shape, Nested, Path
  <1>2. n \in Nat \ {0} /\ DOMAIN open = 1 .. n /\ Head(open) = open[1]
    BY <1>1 DEF Shape, Nested, Path
  <1>3. \A k \in 1 .. n : AtLevel(open[k].name, k)
    BY DEF Shape, Nested, Path
  <1>4. \A k \in 1 .. n - 1 :
          \E j \in DOMAIN Children(open[k].name) : open[k + 1].name = Children(open[k].name)[j]
    BY DEF Shape, Siblings
  <1> HIDE DEF n
  <1>5. n \in 1 .. 5
    BY <1>2, <1>3 DEF AtLevel
  <1>6. open[1].name = "mediawiki"
    BY <1>3, <1>5 DEF AtLevel
  <1>7. ASSUME n >= 2 PROVE open[2].name \in {"siteinfo", "page", "logitem"}
    BY <1>3, <1>5, <1>7 DEF AtLevel
  <1>8. ASSUME n >= 3
        PROVE  \/ open[2].name = "page" /\ open[3].name \in {"title", "id", "revision", "upload"}
               \/ open[2].name = "logitem" /\ open[3].name \in {"id", "contributor", "text"}
    <2>0. 2 \in 1 .. n - 1 /\ 2 + 1 = 3
      BY <1>5, <1>8
    <2>1. PICK j \in DOMAIN Children(open[2].name) : open[3].name = Children(open[2].name)[j]
      BY <1>4, <2>0
    <2> QED
      BY <1>5, <1>7, <1>8, <2>1 DEF Children
  <1>9. ASSUME n >= 4
        PROVE  \/ /\ open[2].name = "page" /\ open[3].name = "revision"
                  /\ open[4].name \in {"id", "parentid", "timestamp", "contributor", "text",
                                       "content"}
               \/ /\ open[2].name = "page" /\ open[3].name = "upload"
                  /\ open[4].name = "contributor"
               \/ /\ open[2].name = "logitem" /\ open[3].name = "contributor"
                  /\ open[4].name \in {"username", "id"}
    <2>0. 3 \in 1 .. n - 1 /\ 3 + 1 = 4
      BY <1>5, <1>9
    <2>1. PICK j \in DOMAIN Children(open[3].name) : open[4].name = Children(open[3].name)[j]
      BY <1>4, <2>0
    <2> QED
      BY <1>5, <1>8, <1>9, <2>1 DEF Children
  <1>10. ASSUME n >= 5
         PROVE  \/ /\ open[3].name \in {"revision", "upload"} /\ open[4].name = "contributor"
                   /\ open[5].name \in {"username", "id"}
                \/ /\ open[3].name = "revision" /\ open[4].name = "content"
                   /\ open[5].name = "text"
    <2>0. 4 \in 1 .. n - 1 /\ 4 + 1 = 5
      BY <1>5, <1>10
    <2>1. PICK j \in DOMAIN Children(open[4].name) : open[5].name = Children(open[4].name)[j]
      BY <1>4, <2>0
    <2> QED
      BY <1>5, <1>9, <1>10, <2>1 DEF Children
  <1> QED
    BY <1>2, <1>5, <1>6, <1>7, <1>8, <1>9, <1>10 DEF Opened, n

\* What the flags say of a path of the schema.
LEMMA FlagsOpened ==
  ASSUME Shape, status = "parsing"
  PROVE  /\ in_page_ <=> Opened(2, "page")
         /\ in_revision_ <=> Opened(3, "revision")
         /\ in_contributor_ <=> Opened(3, "contributor") \/ Opened(4, "contributor")
  <1>1. DOMAIN open = 1 .. Len(open) /\ Len(open) \in Nat
    BY Depth
  <1>2. ASSUME NEW x, NEW d \in 1 .. 5, \A k \in 1 .. Len(open) : open[k].name = x => k = d
        PROVE  Inside(x) <=> Opened(d, x)
    BY <1>1, <1>2 DEF Inside, Opened
  <1>3. \A k \in 1 .. Len(open) : AtLevel(open[k].name, k)
    BY DEF Shape, Nested, Path
  <1>4. Inside("page") <=> Opened(2, "page")
    <2>1. \A k \in 1 .. Len(open) : open[k].name = "page" => k = 2
      BY <1>3 DEF AtLevel
    <2> QED
      BY <1>2, <2>1
  <1>5. Inside("revision") <=> Opened(3, "revision")
    <2>1. \A k \in 1 .. Len(open) : open[k].name = "revision" => k = 3
      BY <1>3 DEF AtLevel
    <2> QED
      BY <1>2, <2>1
  <1>6. Inside("contributor") <=> Opened(3, "contributor") \/ Opened(4, "contributor")
    <2>1. \A k \in 1 .. Len(open) : open[k].name = "contributor" => k \in {3, 4}
      BY <1>3 DEF AtLevel
    <2> QED
      BY <1>1, <2>1 DEF Inside, Opened
  <1> QED
    BY <1>4, <1>5, <1>6, Zenon DEF Shape, Nested, FlagsTrackNesting
-----------------------------------------------------------------------------
(* Types, and the text of the field being read. *)

\* should_store_ tells whether the innermost element is a field the flags make
\* room for, and text_buf_ then holds the text of that element alone.
Buffered ==
  /\ should_store_ <=> \/ in_page_ /\ Top.name \in {"title", "id"}
                       \/ in_revision_ /\ Top.name \in {"id", "parentid", "username",
                                                        "text", "timestamp"}
  /\ should_store_ => text_buf_ = Top.text

TypeInv == Shape /\ TypeOK /\ (status = "parsing" => Buffered)

LEMMA FlagTypes ==
  flags \in BOOLEAN \X BOOLEAN \X BOOLEAN
    <=> in_page_ \in BOOLEAN /\ in_revision_ \in BOOLEAN /\ in_contributor_ \in BOOLEAN
  BY DEF flags

\* An element that has children is no field.
LEMMA NoField ==
  ASSUME NEW name, NEW j \in DOMAIN Children(name)
  PROVE  name \notin {"title", "id", "parentid", "username", "text", "timestamp"}
  BY DEF Children

\* The bound on what a document could do without.
LEMMA ExtraType ==
  ASSUME extras \in 0 .. MaxExtras, NEW spare, Extra(spare)
  PROVE  extras' \in 0 .. MaxExtras
  BY BoundsAssumption DEF Extra

LEMMA InitTyped == Init => TypeInv
  <1> SUFFICES ASSUME Init PROVE TypeInv
    OBVIOUS
  <1>1. TypeOK
    <2>1. flags \in BOOLEAN \X BOOLEAN \X BOOLEAN /\ should_store_ \in BOOLEAN
      BY FlagTypes DEF Init
    <2>2. current_page_ \in Pages /\ current_revision_ \in Revisions
      BY EmptyTexts DEF Init, NoPage, NoRevision, Pages, Revisions
    <2>3. /\ citations_by_revision_ \in Seq(Collected)
          /\ stored_pages_ \in Seq([page : Pages, revisions : Seq(Collected)])
      BY DEF Init
    <2>4. text_buf_ \in Texts /\ current_citations_ \subseteq Chunks
      BY EmptyTexts DEF Init
    <2>5. status \in {"parsing", "returned", "threw"} /\ chunks \in Nat /\ extras \in 0 .. MaxExtras
      BY BoundsAssumption DEF Init
    <2> QED
      BY <2>1, <2>2, <2>3, <2>4, <2>5 DEF TypeOK
  <1>2. Buffered
    BY DEF Init, Buffered
  <1> QED
    BY <1>1, <1>2, InitShape DEF TypeInv

LEMMA StartTyped ==
  ASSUME TypeInv, StartElement
  PROVE  TypeInv'
  <1>1. Shape /\ TypeOK /\ Buffered /\ status = "parsing"
    BY DEF TypeInv, StartElement
  <1>2. PICK j \in DOMAIN Children(Top.name) :
          LET name == Children(Top.name)[j] IN
          /\ Len(open) \in Nat \ {0} /\ Top = open[Len(open)]
          /\ on_start_element(name)
          /\ Fits(Top, name)
          /\ Len(open') = Len(open) + 1
          /\ open'[Len(open) + 1] = Element(name)
          /\ \A k \in 1 .. Len(open) : open'[k] = open[k]
    BY <1>1, StartOpen
  <1> DEFINE name == Children(Top.name)[j]
  <1>3. ~ should_store_
    BY <1>1, NoField, Zenon DEF Buffered
  <1>4. Shape'
    BY <1>1, StartShape
  <1>5. Top' = Element(name)
    BY <1>2 DEF Top, Last
  <1>6. Top'.name = name /\ Top'.text = << >>
    BY <1>5, NoChildren
  <1> HIDE DEF name
  <1>7. Buffered'
    <2>1. text_buf_' = << >>
      BY <1>2 DEF on_start_element, ClearText, name
    <2>2. /\ in_page_' <=> in_page_ \/ name = "page"
          /\ in_revision_' <=> in_revision_ \/ name = "revision"
          /\ should_store_' <=> \/ in_page_ /\ name \in {"title", "id"}
                                \/ in_revision_ /\ name \in {"id", "parentid", "username",
                                                             "text", "timestamp"}
      BY <1>2, <1>3 DEF on_start_element, name
    <2> QED
      BY <1>6, <2>1, <2>2 DEF Buffered
  <1>8. TypeOK'
    <2>1. /\ in_page_' \in BOOLEAN /\ in_revision_' \in BOOLEAN /\ in_contributor_' \in BOOLEAN
          /\ should_store_' \in BOOLEAN
      BY <1>2, Zenon DEF on_start_element
    <2>2. flags' \in BOOLEAN \X BOOLEAN \X BOOLEAN
      BY <2>1 DEF flags
    <2>3. text_buf_' \in Texts
      BY <1>2, EmptyTexts DEF on_start_element, ClearText
    <2>4. UNCHANGED << currents, stored_pages_, status, chunks >>
      BY <1>2 DEF on_start_element, StartElement
    <2>5. extras' \in 0 .. MaxExtras
      BY <1>1, ExtraType DEF StartElement, TypeOK
    <2> QED
      BY <1>1, <2>1, <2>2, <2>3, <2>4, <2>5 DEF TypeOK, currents
  <1> QED
    BY <1>4, <1>7, <1>8 DEF TypeInv

LEMMA CharactersTyped ==
  ASSUME TypeInv, Characters
  PROVE  TypeInv'
  <1>1. Shape /\ TypeOK /\ Buffered /\ status = "parsing"
    BY DEF TypeInv, Characters
  <1> DEFINE n == Len(open)
  <1>2. /\ n \in Nat \ {0} /\ Top = open[n] /\ Len(open') = n
        /\ open'[n].name = Top.name
        /\ open'[n].text = Append(Top.text, chunks + 1)
        /\ on_characters(chunks + 1)
    BY <1>1, CharactersOpen
  <1>3. Shape' /\ open'[n].text \in Texts
    BY <1>1, CharactersShape
  <1>4. Top' = open'[n]
    BY <1>2 DEF Top, Last
  <1> HIDE DEF n
  <1>5. /\ text_buf_' = IF should_store_ THEN Append(text_buf_, chunks + 1) ELSE text_buf_
        /\ UNCHANGED << in_page_, in_revision_, in_contributor_, should_store_, currents,
                        stored_pages_, status >>
    BY <1>2 DEF on_characters, flags
  <1>6. should_store_ => text_buf_' = Top'.text
    BY <1>1, <1>2, <1>4, <1>5 DEF Buffered
  <1>7. Buffered'
    <2>1. Top'.name = Top.name
      BY <1>2, <1>4
    <2> QED
      BY <1>1, <1>5, <1>6, <2>1 DEF Buffered
  <1>8. text_buf_' \in Texts
    BY <1>1, <1>3, <1>4, <1>5, <1>6 DEF TypeOK
  <1>9. chunks' \in Nat /\ extras' \in 0 .. MaxExtras
    BY <1>1, ExtraType DEF TypeOK, Characters
  <1>10. TypeOK'
    BY <1>1, <1>5, <1>8, <1>9 DEF TypeOK, flags, currents
  <1> QED
    BY <1>3, <1>7, <1>10 DEF TypeInv

\* What the end tag of a field makes of the page and the revision.
LEMMA FieldTyped ==
  ASSUME TypeOK, NEW name, OnEndField(name)
  PROVE  /\ current_page_' \in Pages /\ current_revision_' \in Revisions
         /\ current_citations_' \subseteq Chunks
  <1>1. text_buf_ \in Texts /\ Digits(text_buf_) \in Texts /\ Timestamp(text_buf_) \in Texts
        /\ Citations(text_buf_) \subseteq Chunks
    BY FieldTexts DEF TypeOK
  <1>2. current_page_' \in Pages
    BY <1>1 DEF TypeOK, Pages, OnEndField
  <1>3. current_revision_' \in Revisions
    BY <1>1 DEF TypeOK, Revisions, OnEndField
  <1>4. current_citations_' \subseteq Chunks
    BY <1>1 DEF TypeOK, OnEndField
  <1> QED
    BY <1>2, <1>3, <1>4

\* Appending to a sequence.
LEMMA AppendType ==
  ASSUME NEW S, NEW s \in Seq(S), NEW x \in S
  PROVE  Append(s, x) \in Seq(S)
  OBVIOUS

LEMMA EndTyped ==
  ASSUME TypeInv, EndElement
  PROVE  TypeInv'
  <1>1. Shape /\ TypeOK /\ Buffered /\ status = "parsing"
    BY DEF TypeInv, EndElement
  <1> DEFINE n == Len(open)
             name == Top.name
  <1>2. /\ n \in Nat /\ n > 1 /\ Len(open') = n - 1
        /\ open'[n - 1].name = open[n - 1].name
        /\ on_end_element(name)
    BY <1>1, EndOpen
  <1>3. Shape'
    BY <1>1, EndShape
  <1>4. chunks' = chunks /\ extras' = extras
    BY DEF EndElement
  <1> HIDE DEF n, name
  <1>5. CASE status' = "threw"
    <2>1. Throw
      BY <1>1, <1>2, <1>5 DEF on_end_element
    <2>2. TypeOK'
      BY <1>1, <1>4, <2>1 DEF Throw, TypeOK, flags, currents
    <2> QED
      BY <1>3, <1>5, <2>2 DEF TypeInv
  <1>6. CASE status' # "threw"
    <2>1. /\ should_store_' = FALSE /\ UNCHANGED << text_buf_, status >>
      BY <1>2, <1>6 DEF on_end_element, Throw
    <2>2. Buffered'
      <3>1. Top' = open'[n - 1]
        BY <1>2 DEF Top, Last
      <3>2. PICK j \in DOMAIN Children(open[n - 1].name) : TRUE
        BY <1>1, <1>2 DEF Shape, Siblings, n
      <3>3. Top'.name \notin {"title", "id", "parentid", "username", "text", "timestamp"}
        BY <1>2, <3>1, <3>2, NoField
      <3> QED
        BY <2>1, <3>3 DEF Buffered
    <2>3. /\ in_page_ \in BOOLEAN /\ in_revision_ \in BOOLEAN /\ in_contributor_ \in BOOLEAN
      BY <1>1, FlagTypes DEF TypeOK
    <2>4. CASE name = "page"
      <3>1. OnEndPage
        BY <1>2, <1>6, <2>4, Handler
      <3>2. flags' \in BOOLEAN \X BOOLEAN \X BOOLEAN
        BY <2>3, <3>1 DEF OnEndPage, flags
      <3>3. /\ current_page_' \in Pages /\ citations_by_revision_' \in Seq(Collected)
        BY <3>1, EmptyTexts DEF OnEndPage, NoPage, Pages
      <3>4. stored_pages_' \in Seq([page : Pages, revisions : Seq(Collected)])
        <4>1. [page |-> current_page_, revisions |-> citations_by_revision_]
                \in [page : Pages, revisions : Seq(Collected)]
          BY <1>1 DEF TypeOK
        <4> QED
          BY <1>1, <3>1, <4>1, AppendType DEF OnEndPage, TypeOK
      <3>5. UNCHANGED << current_revision_, current_citations_ >>
        BY <3>1 DEF OnEndPage
      <3>6. TypeOK'
        BY <1>1, <1>4, <2>1, <3>2, <3>3, <3>4, <3>5 DEF TypeOK
      <3> QED
        BY <1>3, <2>2, <3>6 DEF TypeInv
    <2>5. CASE name = "revision"
      <3>1. OnEndRevision
        BY <1>2, <1>6, <2>5, Handler
      <3>2. flags' \in BOOLEAN \X BOOLEAN \X BOOLEAN
        BY <2>3, <3>1 DEF OnEndRevision, flags
      <3>3. current_revision_' \in Revisions
        BY <3>1, EmptyTexts DEF OnEndRevision, NoRevision, Revisions
      <3>4. citations_by_revision_' \in Seq(Collected)
        <4>1. [revision |-> current_revision_, citations |-> current_citations_] \in Collected
          BY <1>1 DEF TypeOK, Collected
        <4> QED
          BY <1>1, <3>1, <4>1, AppendType DEF OnEndRevision, TypeOK
      <3>5. UNCHANGED << current_page_, current_citations_, stored_pages_ >>
        BY <3>1 DEF OnEndRevision
      <3>6. TypeOK'
        BY <1>1, <1>4, <2>1, <3>2, <3>3, <3>4, <3>5 DEF TypeOK
      <3> QED
        BY <1>3, <2>2, <3>6 DEF TypeInv
    <2>6. CASE name = "contributor"
      <3>1. OnEndContributor
        BY <1>2, <1>6, <2>6, Handler
      <3>2. flags' \in BOOLEAN \X BOOLEAN \X BOOLEAN
        BY <2>3, <3>1 DEF OnEndContributor, flags
      <3>3. TypeOK'
        BY <1>1, <1>4, <2>1, <3>1, <3>2 DEF TypeOK, OnEndContributor, currents
      <3> QED
        BY <1>3, <2>2, <3>3 DEF TypeInv
    <2>7. CASE name \notin {"page", "revision", "contributor"}
      <3>1. OnEndField(name)
        BY <1>2, <1>6, <2>7, Handler
      <3>2. UNCHANGED << flags, citations_by_revision_, stored_pages_ >>
        BY <3>1 DEF OnEndField
      <3>3. /\ current_page_' \in Pages /\ current_revision_' \in Revisions
            /\ current_citations_' \subseteq Chunks
        BY <1>1, <3>1, FieldTyped
      <3>4. TypeOK'
        BY <1>1, <1>4, <2>1, <3>2, <3>3 DEF TypeOK
      <3> QED
        BY <1>3, <2>2, <3>4 DEF TypeInv
    <2> QED
      BY <2>4, <2>5, <2>6, <2>7
  <1> QED
    BY <1>5, <1>6

LEMMA NextTyped == TypeInv /\ [Next]_vars => TypeInv'
  <1> SUFFICES ASSUME TypeInv, [Next]_vars PROVE TypeInv'
    OBVIOUS
  <1>1. CASE StartElement
    BY <1>1, StartTyped
  <1>2. CASE Characters
    BY <1>2, CharactersTyped
  <1>3. CASE EndElement
    BY <1>3, EndTyped
  <1>4. ASSUME UNCHANGED << flags, should_store_, text_buf_, currents, stored_pages_, open,
                            chunks, extras >>,
               status' = "threw" \/ status' = "returned" \/ status' = status
        PROVE  TypeInv'
    <2>1. TypeOK'
      BY <1>4 DEF TypeInv, TypeOK, flags, currents
    <2>2. open' = open /\ in_page_' = in_page_ /\ in_revision_' = in_revision_
          /\ in_contributor_' = in_contributor_
      BY <1>4 DEF flags
    <2>3. Shape'
      BY <1>4, <2>2 DEF TypeInv, Shape, Nested, Path, FlagsTrackNesting, Siblings, Tree, Listed,
                        Named, Inside
    <2>4. status' = "parsing" => Buffered'
      BY <1>4, <2>2 DEF TypeInv, Buffered, Top
    <2> QED
      BY <2>1, <2>3, <2>4 DEF TypeInv
  <1>5. CASE on_error
    BY <1>4, <1>5 DEF on_error, Throw
  <1>6. CASE Return
    BY <1>4, <1>6 DEF Return
  <1>7. CASE UNCHANGED vars
    BY <1>4, <1>7 DEF vars
  <1> QED
    BY <1>1, <1>2, <1>3, <1>5, <1>6, <1>7 DEF Next

\* Type correctness of the handlers' state.
THEOREM TypeCorrect == Spec => []TypeOK
  <1>1. TypeInv => TypeOK
    BY DEF TypeInv
  <1> QED
    BY InitTyped, NextTyped, <1>1, PTL DEF Spec
-----------------------------------------------------------------------------
(* The pages and the revisions of the document. *)

\* The pages of an element, as DocumentPages has those of the document.
PagesIn(e) == LET p == Named(e, "page") IN [ k \in DOMAIN p |-> PageOf(p[k]) ]

\* The fields of a page, and of a revision made by user.
PageHead(e) == [page_id |-> Digits(Text(e, "id")), title |-> Text(e, "title")]
RevisionHead(e, user) ==
  [ revision_id |-> Digits(Text(e, "id")),
    parent_id   |-> Digits(Text(e, "parentid")),
    user        |-> user,
    timestamp   |-> Timestamp(Text(e, "timestamp")) ]

\* A function of the elements of a sequence to which one is appended.
LEMMA MappedAppend ==
  ASSUME NEW S, NEW s \in Seq(S), NEW c, NEW T, NEW g \in [DOMAIN s -> T],
         NEW h \in [DOMAIN Append(s, c) -> T], \A k \in DOMAIN s : h[k] = g[k]
  PROVE  h = Append(g, h[Len(s) + 1])
  <1> DEFINE n == Len(s)
  <1>1. n \in Nat /\ DOMAIN s = 1 .. n /\ DOMAIN Append(s, c) = 1 .. n + 1
    OBVIOUS
  <1>2. g \in [1 .. n -> T] /\ h \in [1 .. n + 1 -> T] /\ \A k \in 1 .. n : h[k] = g[k]
    BY <1>1
  <1> HIDE DEF n
  <1>3. g \in Seq(T) /\ Len(g) = n
    BY <1>1, <1>2, FunctionSeq
  <1>4. h \in Seq(T) /\ Len(h) = n + 1
    BY <1>1, <1>2, FunctionSeq
  <1>5. n + 1 \in 1 .. n + 1
    BY <1>1
  <1>6. h[n + 1] \in T
    BY <1>2, <1>5
  <1> DEFINE a == Append(g, h[n + 1])
  <1>7. /\ a \in Seq(T) /\ Len(a) = n + 1 /\ a[n + 1] = h[n + 1]
        /\ \A k \in 1 .. n : a[k] = g[k]
    BY <1>1, <1>3, <1>6, AppendProperties
  <1> HIDE DEF a
  <1>8. \A k \in 1 .. n + 1 : a[k] = h[k]
    <2> SUFFICES ASSUME NEW k \in 1 .. n + 1 PROVE a[k] = h[k]
      OBVIOUS
    <2>1. CASE k = n + 1
      BY <1>7, <2>1
    <2>2. CASE k # n + 1
      BY <1>1, <1>2, <1>7, <2>2
    <2> QED
      BY <2>1, <2>2
  <1>9. a = h
    BY <1>4, <1>7, <1>8, SeqEqual
  <1> QED
    BY <1>9 DEF a, n

LEMMA PagesAppend ==
  ASSUME NEW e, Listed(e), NEW f, NEW c, Joins(f, e, c)
  PROVE  /\ c.name # "page" => PagesIn(f) = PagesIn(e)
         /\ c.name = "page" => PagesIn(f) = Append(PagesIn(e), PageOf(c))
  <1>1. ASSUME c.name # "page" PROVE PagesIn(f) = PagesIn(e)
    <2>1. Named(f, "page") = Named(e, "page")
      BY <1>1, NamedAppend
    <2> QED
      BY <2>1 DEF PagesIn
  <1>2. ASSUME c.name = "page" PROVE PagesIn(f) = Append(PagesIn(e), PageOf(c))
    <2> DEFINE s == Named(e, "page")
    <2>1. PICK S : s \in Seq(S)
      BY NamedType
    <2>2. c.name = "page" => Named(f, "page") = Append(s, c)
      BY NamedAppend
    <2>3. Named(f, "page") = Append(s, c)
      BY <1>2, <2>2
    <2> HIDE DEF s
    <2> DEFINE T == { PageOf(x) : x \in S \cup {c} }
               g == [ k \in DOMAIN s |-> PageOf(s[k]) ]
               h == [ k \in DOMAIN Append(s, c) |-> PageOf(Append(s, c)[k]) ]
    <2>4. /\ \A k \in DOMAIN s : s[k] \in S
          /\ \A k \in DOMAIN Append(s, c) : Append(s, c)[k] \in S \cup {c}
          /\ \A k \in DOMAIN s : k \in DOMAIN Append(s, c) /\ Append(s, c)[k] = s[k]
          /\ Len(s) + 1 \in DOMAIN Append(s, c) /\ Append(s, c)[Len(s) + 1] = c
      BY <2>1
    <2>5. g \in [DOMAIN s -> T] /\ h \in [DOMAIN Append(s, c) -> T]
      BY <2>4
    <2>6. (\A k \in DOMAIN s : h[k] = g[k]) /\ h[Len(s) + 1] = PageOf(c)
      BY <2>4
    <2>7. PagesIn(e) = g /\ PagesIn(f) = h
      BY <2>3 DEF PagesIn, s
    <2> HIDE DEF T, g, h
    <2>8. h = Append(g, h[Len(s) + 1])
      BY <2>1, <2>5, <2>6, MappedAppend
    <2> QED
      BY <2>6, <2>7, <2>8
  <1> QED
    BY <1>1, <1>2

LEMMA RevisionsAppend ==
  ASSUME NEW e, Listed(e), NEW f, NEW c, Joins(f, e, c)
  PROVE  /\ c.name # "revision" => RevisionsOf(f) = RevisionsOf(e)
         /\ c.name = "revision" => RevisionsOf(f) = Append(RevisionsOf(e), RevisionOf(c))
  <1>1. ASSUME c.name # "revision" PROVE RevisionsOf(f) = RevisionsOf(e)
    <2>1. Named(f, "revision") = Named(e, "revision")
      BY <1>1, NamedAppend
    <2> QED
      BY <2>1 DEF RevisionsOf
  <1>2. ASSUME c.name = "revision" PROVE RevisionsOf(f) = Append(RevisionsOf(e), RevisionOf(c))
    <2> DEFINE s == Named(e, "revision")
    <2>1. PICK S : s \in Seq(S)
      BY NamedType
    <2>2. c.name = "revision" => Named(f, "revision") = Append(s, c)
      BY NamedAppend
    <2>3. Named(f, "revision") = Append(s, c)
      BY <1>2, <2>2
    <2> HIDE DEF s
    <2> DEFINE T == { RevisionOf(x) : x \in S \cup {c} }
               g == [ k \in DOMAIN s |-> RevisionOf(s[k]) ]
               h == [ k \in DOMAIN Append(s, c) |-> RevisionOf(Append(s, c)[k]) ]
    <2>4. /\ \A k \in DOMAIN s : s[k] \in S
          /\ \A k \in DOMAIN Append(s, c) : Append(s, c)[k] \in S \cup {c}
          /\ \A k \in DOMAIN s : k \in DOMAIN Append(s, c) /\ Append(s, c)[k] = s[k]
          /\ Len(s) + 1 \in DOMAIN Append(s, c) /\ Append(s, c)[Len(s) + 1] = c
      BY <2>1
    <2>5. g \in [DOMAIN s -> T] /\ h \in [DOMAIN Append(s, c) -> T]
      BY <2>4
    <2>6. (\A k \in DOMAIN s : h[k] = g[k]) /\ h[Len(s) + 1] = RevisionOf(c)
      BY <2>4
    <2>7. RevisionsOf(e) = g /\ RevisionsOf(f) = h
      BY <2>3 DEF RevisionsOf, s
    <2> HIDE DEF T, g, h
    <2>8. h = Append(g, h[Len(s) + 1])
      BY <2>1, <2>5, <2>6, MappedAppend
    <2> QED
      BY <2>6, <2>7, <2>8
  <1> QED
    BY <1>1, <1>2

\* The document says nothing of an element that has just been opened.
LEMMA Nothing ==
  ASSUME NEW name
  PROVE  /\ PagesIn(Element(name)) = << >> /\ RevisionsOf(Element(name)) = << >>
         /\ PageHead(Element(name)) = NoPage
         /\ User(Element(name)) = << >>
         /\ RevisionHead(Element(name), << >>) = NoRevision
  <1>1. \A x : Named(Element(name), x) = << >> /\ Text(Element(name), x) = << >>
    BY NoChildren
  <1>2. PagesIn(Element(name)) = << >> /\ RevisionsOf(Element(name)) = << >>
    BY <1>1 DEF PagesIn, RevisionsOf
  <1>3. PageHead(Element(name)) = NoPage /\ RevisionHead(Element(name), << >>) = NoRevision
    BY <1>1, EmptyTexts DEF PageHead, RevisionHead, NoPage, NoRevision
  <1>4. User(Element(name)) = << >>
    BY <1>1 DEF User
  <1> QED
    BY <1>2, <1>3, <1>4

\* DocumentPages is about the outermost element.
LEMMA FirstOpen ==
  ASSUME NEW o, \E S : o \in Seq(S), o # << >>
  PROVE  Head(o) = o[1]
  OBVIOUS
-----------------------------------------------------------------------------
(* The page and the revision being read. *)

\* The current page has the fields and the revisions of the open <page>.
PageSoFar ==
  /\ Opened(2, "page") =>
       /\ current_page_ = PageHead(open[2])
       /\ citations_by_revision_ = RevisionsOf(open[2])
  /\ ~ Opened(2, "page") => current_page_ = NoPage /\ citations_by_revision_ = << >>

\* The name of the contributor that is open, or else of the one before.
UserSoFar == IF Opened(4, "contributor") THEN Text(open[4], "username") ELSE User(open[3])

\* The last text that has ended: that of the open <content>, if it has one.
LastTextSoFar ==
  IF Opened(4, "content") /\ Named(open[4], "text") # << >> THEN Text(open[4], "text")
  ELSE LastText(open[3])

\* The current revision has the fields of the open <revision> and, once its text
\* is read, the citations of its last text; until then those may be of another
\* revision.
RevisionSoFar ==
  /\ Opened(3, "revision") =>
       /\ current_revision_ = RevisionHead(open[3], UserSoFar)
       /\ Named(open[3], "text") # << >> => current_citations_ = Citations(LastTextSoFar)
  /\ ~ Opened(3, "revision") => current_revision_ = NoRevision

Stored == stored_pages_ = PagesIn(open[1])

FieldInv ==
  /\ TypeInv
  /\ Stored
  /\ status = "parsing" => PageSoFar /\ RevisionSoFar

LEMMA InitFields == Init => FieldInv
  <1> SUFFICES ASSUME Init PROVE FieldInv
    OBVIOUS
  <1>1. Len(open) = 1 /\ open[1] = Element("mediawiki")
    BY DEF Init
  <1>2. Stored
    BY <1>1, Nothing DEF Init, Stored
  <1>3. \A x : ~ Opened(2, x) /\ ~ Opened(3, x)
    BY <1>1 DEF Opened
  <1>4. PageSoFar /\ RevisionSoFar
    BY <1>3 DEF Init, PageSoFar, RevisionSoFar
  <1> QED
    BY <1>2, <1>4, InitTyped DEF FieldInv

LEMMA StartFields ==
  ASSUME FieldInv, StartElement
  PROVE  FieldInv'
  <1>1. Shape /\ TypeInv' /\ Stored /\ PageSoFar /\ RevisionSoFar
    BY StartTyped DEF FieldInv, TypeInv, StartElement
  <1>2. PICK j \in DOMAIN Children(Top.name) :
          LET name == Children(Top.name)[j] IN
          /\ Len(open) \in Nat \ {0} /\ Top = open[Len(open)]
          /\ on_start_element(name)
          /\ Fits(Top, name)
          /\ Len(open') = Len(open) + 1
          /\ open'[Len(open) + 1] = Element(name)
          /\ \A k \in 1 .. Len(open) : open'[k] = open[k]
    BY <1>1, StartOpen
  <1> DEFINE n == Len(open)
             name == Children(Top.name)[j]
  <1>3. /\ n \in Nat \ {0} /\ Len(open') = n + 1
        /\ open'[n + 1] = Element(name) /\ Element(name).name = name
        /\ \A k \in 1 .. n : open'[k] = open[k]
        /\ Fits(open[n], name)
    BY <1>2, NoChildren
  <1>4. UNCHANGED << current_page_, current_revision_, current_citations_,
                     citations_by_revision_, stored_pages_ >>
    BY <1>2 DEF on_start_element, currents
  <1> HIDE DEF n, name
  <1>5. Stored'
    BY <1>1, <1>3, <1>4 DEF Stored
  <1>6. PageSoFar'
    <2>1. CASE n = 1
      <3>1. ~ Opened(2, "page")
        BY <2>1 DEF Opened, n
      <3>2. open'[2] = Element(name)
        BY <1>3, <2>1
      <3>3. PageHead(open'[2]) = NoPage /\ RevisionsOf(open'[2]) = << >>
        BY <3>2, Nothing
      <3> QED
        BY <1>1, <1>4, <3>1, <3>3 DEF PageSoFar
    <2>2. CASE n # 1
      <3>0. 2 \in 1 .. n /\ Len(open') >= 2
        BY <1>3, <2>2
      <3>1. open'[2] = open[2] /\ (Opened(2, "page")' <=> Opened(2, "page"))
        BY <1>3, <3>0 DEF Opened, n
      <3> QED
        BY <1>1, <1>4, <3>1 DEF PageSoFar
    <2> QED
      BY <2>1, <2>2
  <1>7. RevisionSoFar'
    <2>1. CASE n = 1
      <3>1. ~ Opened(3, "revision") /\ ~ Opened(3, "revision")'
        BY <1>3, <2>1 DEF Opened, n
      <3> QED
        BY <1>1, <1>4, <3>1 DEF RevisionSoFar
    <2>2. CASE n = 2
      <3>1. ~ Opened(3, "revision") /\ ~ Opened(4, "contributor")'
        BY <1>3, <2>2 DEF Opened, n
      <3>2. open'[3] = Element(name)
        BY <1>3, <2>2
      <3>3. /\ User(open'[3]) = << >> /\ RevisionHead(open'[3], << >>) = NoRevision
            /\ Named(open'[3], "text") = << >>
        BY <3>2, Nothing, NoChildren
      <3>4. UserSoFar' = << >>
        BY <3>1, <3>3 DEF UserSoFar
      <3> QED
        BY <1>1, <1>4, <3>1, <3>3, <3>4 DEF RevisionSoFar
    <2>3. CASE n > 2
      <3>1. open'[3] = open[3] /\ (Opened(3, "revision")' <=> Opened(3, "revision"))
        BY <1>3, <2>3 DEF Opened, n
      <3>2. UserSoFar' = UserSoFar
        <4>1. CASE n = 3
          <5>1. ~ Opened(4, "contributor") /\ open'[4] = Element(name)
            BY <1>3, <4>1 DEF Opened, n
          <5>2. CASE name = "contributor"
            <6>1. Opened(4, "contributor")'
              BY <1>3, <4>1, <5>1, <5>2 DEF Opened
            <6>2. Text(open'[4], "username") = << >>
              BY <5>1, NoChildren
            <6>3. Named(open[3], "contributor") = << >>
              BY <1>3, <4>1, <5>2 DEF Fits, Several
            <6>4. User(open[3]) = << >>
              BY <6>3 DEF User
            <6> QED
              BY <5>1, <6>1, <6>2, <6>4 DEF UserSoFar
          <5>3. CASE name # "contributor"
            <6>1. ~ Opened(4, "contributor")'
              BY <1>3, <4>1, <5>1, <5>3 DEF Opened
            <6> QED
              BY <3>1, <5>1, <6>1 DEF UserSoFar
          <5> QED
            BY <5>2, <5>3
        <4>2. CASE n # 3
          <5>0. 4 \in 1 .. n /\ Len(open') >= 4
            BY <1>3, <2>3, <4>2
          <5>1. open'[4] = open[4] /\ (Opened(4, "contributor")' <=> Opened(4, "contributor"))
            BY <1>3, <5>0 DEF Opened, n
          <5> QED
            BY <3>1, <5>1 DEF UserSoFar
        <4> QED
          BY <4>1, <4>2
      <3>3. LastTextSoFar' = LastTextSoFar
        <4>1. CASE n = 3
          <5>1. ~ Opened(4, "content") /\ Named(open'[4], "text") = << >>
            BY <1>3, <4>1, NoChildren DEF Opened, n
          <5> QED
            BY <3>1, <5>1 DEF LastTextSoFar
        <4>2. CASE n # 3
          <5>0. 4 \in 1 .. n /\ Len(open') >= 4
            BY <1>3, <2>3, <4>2
          <5>1. open'[4] = open[4] /\ (Opened(4, "content")' <=> Opened(4, "content"))
            BY <1>3, <5>0 DEF Opened, n
          <5> QED
            BY <3>1, <5>1 DEF LastTextSoFar
        <4> QED
          BY <4>1, <4>2
      <3> QED
        BY <1>1, <1>4, <3>1, <3>2, <3>3 DEF RevisionSoFar
    <2> QED
      BY <1>3, <2>1, <2>2, <2>3
  <1> QED
    BY <1>1, <1>5, <1>6, <1>7 DEF FieldInv

LEMMA CharactersFields ==
  ASSUME FieldInv, Characters
  PROVE  FieldInv'
  <1>1. Shape /\ TypeInv' /\ Stored /\ PageSoFar /\ RevisionSoFar
    BY CharactersTyped DEF FieldInv, TypeInv, Characters
  <1> DEFINE n == Len(open)
  <1>2. /\ n \in Nat \ {0} /\ Top = open[n] /\ Len(open') = n
        /\ \A k \in 1 .. n - 1 : open'[k] = open[k]
        /\ open'[n].children = Top.children /\ open'[n].name = Top.name
        /\ on_characters(chunks + 1)
    BY <1>1, CharactersOpen
  <1>3. UNCHANGED << current_page_, current_revision_, current_citations_,
                     citations_by_revision_, stored_pages_ >>
    BY <1>2 DEF on_characters, currents
  <1> HIDE DEF n
  <1>4. \A k \in 1 .. n : open'[k].children = open[k].children /\ open'[k].name = open[k].name
    <2> SUFFICES ASSUME NEW k \in 1 .. n
                 PROVE  open'[k].children = open[k].children /\ open'[k].name = open[k].name
      OBVIOUS
    <2>1. CASE k = n
      BY <1>2, <2>1
    <2>2. CASE k # n
      BY <1>2, <2>2
    <2> QED
      BY <2>1, <2>2
  <1>5. \A k \in 1 .. n :
          /\ \A x : Named(open'[k], x) = Named(open[k], x) /\ Text(open'[k], x) = Text(open[k], x)
          /\ RevisionsOf(open'[k]) = RevisionsOf(open[k])
    BY <1>4, SameChildren
  <1>6. \A k \in 1 .. n :
          /\ PagesIn(open'[k]) = PagesIn(open[k]) /\ PageHead(open'[k]) = PageHead(open[k])
          /\ User(open'[k]) = User(open[k])
          /\ \A u : RevisionHead(open'[k], u) = RevisionHead(open[k], u)
    BY <1>5 DEF PagesIn, PageHead, User, RevisionHead
  <1>7. \A k \in Nat \ {0} : \A x : Opened(k, x)' <=> Opened(k, x)
    BY <1>2, <1>4 DEF Opened, n
  <1>8. \A k \in Nat \ {0} : \A x : Opened(k, x) => k \in 1 .. n
    BY <1>2 DEF Opened, n
  <1>9. Stored'
    BY <1>1, <1>2, <1>3, <1>6 DEF Stored
  <1>10. PageSoFar'
    <2>1. Opened(2, "page")' <=> Opened(2, "page")
      BY <1>7
    <2>2. Opened(2, "page") => 2 \in 1 .. n
      BY <1>8
    <2> QED
      BY <1>1, <1>3, <1>5, <1>6, <2>1, <2>2 DEF PageSoFar
  <1>11. RevisionSoFar'
    <2>1. /\ Opened(3, "revision")' <=> Opened(3, "revision")
          /\ Opened(4, "contributor")' <=> Opened(4, "contributor")
          /\ Opened(4, "content")' <=> Opened(4, "content")
      BY <1>7
    <2>2. /\ Opened(3, "revision") => 3 \in 1 .. n
          /\ Opened(4, "contributor") => 4 \in 1 .. n
          /\ Opened(4, "content") => 4 \in 1 .. n
      BY <1>8
    <2>3. Opened(3, "revision") => UserSoFar' = UserSoFar /\ LastTextSoFar' = LastTextSoFar
      BY <1>5, <1>6, <2>1, <2>2 DEF UserSoFar, LastTextSoFar, LastText
    <2> QED
      BY <1>1, <1>3, <1>5, <1>6, <2>1, <2>2, <2>3 DEF RevisionSoFar
  <1> QED
    BY <1>1, <1>9, <1>10, <1>11 DEF FieldInv
\* What an end tag adds to the element around it.
LEMMA EndTexts ==
  ASSUME Shape, EndElement, NEW e, e = open[Len(open) - 1], NEW f, f = open'[Len(open) - 1]
  PROVE  /\ \A x : Top.name # x => Named(f, x) = Named(e, x) /\ Text(f, x) = Text(e, x)
         /\ Top.name \notin Several =>
              Named(f, Top.name) = << Top >> /\ Text(f, Top.name) = Top.text
         /\ Top.name = "content" => LastText(f) = Text(Top, "text")
         /\ e.name = "revision" /\ Top.name = "text" => LastText(f) = Top.text
         /\ Top.name \notin {"text", "content"} => LastText(f) = LastText(e)
         /\ Top.name # "revision" => RevisionsOf(f) = RevisionsOf(e)
         /\ Top.name = "revision" => RevisionsOf(f) = Append(RevisionsOf(e), RevisionOf(Top))
         /\ Top.name # "page" => PagesIn(f) = PagesIn(e)
         /\ Top.name = "page" => PagesIn(f) = Append(PagesIn(e), PageOf(Top))
  <1> DEFINE n == Len(open)
  <1>1. /\ n \in Nat /\ n > 1 /\ Top = open[n] /\ Joins(f, e, Top)
    BY EndOpen
  <1> HIDE DEF n
  <1>2. Listed(e)
    BY <1>1 DEF Shape, Tree, n
  <1>3. Fits(e, Top.name)
    <2>1. n - 1 \in 1 .. n - 1 /\ (n - 1) + 1 = n
      BY <1>1
    <2> QED
      BY <1>1, <2>1 DEF Shape, Siblings, n
  <1>4. \A x : Top.name # x => Named(f, x) = Named(e, x)
    <2> SUFFICES ASSUME NEW x PROVE Top.name # x => Named(f, x) = Named(e, x)
      OBVIOUS
    <2> QED
      BY <1>1, <1>2, NamedAppend
  <1>5. \A x : Top.name # x => Text(f, x) = Text(e, x)
    BY <1>4 DEF Text
  <1>6. Named(e, Top.name) = << >> =>
          Named(f, Top.name) = << Top >> /\ Text(f, Top.name) = Top.text
    <2> DEFINE t == Top
    <2>1. Joins(f, e, t)
      BY <1>1
    <2> HIDE DEF t
    <2>2. t.name = t.name /\ Named(e, t.name) = << >> =>
            Named(f, t.name) = << t >> /\ Text(f, t.name) = t.text
      BY <1>2, <2>1, TextAppend
    <2> QED
      BY <2>2 DEF t
  <1>7. /\ Top.name # "revision" => RevisionsOf(f) = RevisionsOf(e)
        /\ Top.name = "revision" => RevisionsOf(f) = Append(RevisionsOf(e), RevisionOf(Top))
    BY <1>1, <1>2, RevisionsAppend
  <1>8. /\ Top.name # "page" => PagesIn(f) = PagesIn(e)
        /\ Top.name = "page" => PagesIn(f) = Append(PagesIn(e), PageOf(Top))
    BY <1>1, <1>2, PagesAppend
  <1>9. Top.name = "content" => LastText(f) = Text(Top, "text")
    <2> SUFFICES ASSUME Top.name = "content" PROVE LastText(f) = Text(Top, "text")
      OBVIOUS
    <2> DEFINE t == Top
               s == Named(e, "content")
    <2>1. Joins(f, e, t) /\ t.name = "content"
      BY <1>1
    <2> HIDE DEF t
    <2>2. Named(f, "content") = Append(s, t)
      BY <1>2, <2>1, NamedAppend
    <2>3. PICK S : s \in Seq(S)
      BY <1>2, NamedType
    <2> HIDE DEF s
    <2>4. Append(s, t) # << >> /\ Last(Append(s, t)) = t
      BY <2>3 DEF Last
    <2> QED
      BY <2>2, <2>4 DEF LastText, t
  <1>10. e.name = "revision" /\ Top.name = "text" => LastText(f) = Top.text
    BY <1>3, <1>4, <1>6 DEF Fits, Several, LastText
  <1>11. Top.name \notin {"text", "content"} => LastText(f) = LastText(e)
    BY <1>4, <1>5 DEF LastText
  <1> QED
    BY <1>3, <1>4, <1>5, <1>6, <1>7, <1>8, <1>9, <1>10, <1>11 DEF Fits

\* The depth of the element that ends, and the elements around it.
LEMMA EndDepth ==
  ASSUME Shape, EndElement
  PROVE  \/ Len(open) = 2 /\ Top.name \in {"siteinfo", "page", "logitem"}
         \/ /\ Len(open) = 3 /\ Opened(2, "page")
            /\ Top.name \in {"title", "id", "revision", "upload"}
         \/ /\ Len(open) = 3 /\ Opened(2, "logitem")
            /\ Top.name \in {"id", "contributor", "text"}
         \/ /\ Len(open) = 4 /\ Opened(3, "revision")
            /\ Top.name \in {"id", "parentid", "timestamp", "contributor", "text", "content"}
         \/ Len(open) = 4 /\ Opened(3, "upload") /\ Top.name = "contributor"
         \/ Len(open) = 4 /\ Opened(3, "contributor") /\ Top.name \in {"username", "id"}
         \/ /\ Len(open) = 5 /\ Opened(4, "contributor")
            /\ Opened(3, "revision") \/ Opened(3, "upload")
            /\ Top.name \in {"username", "id"}
         \/ /\ Len(open) = 5 /\ Opened(4, "content") /\ Opened(3, "revision")
            /\ Top.name = "text"
  <1>1. Top = open[Len(open)] /\ Len(open) > 1
    BY EndOpen
  <1>2. Len(open) \in 2 .. 5
    BY <1>1, Depth
  <1>3. CASE Len(open) = 2
    BY <1>1, <1>3, Depth DEF Opened
  <1>4. CASE Len(open) = 3
    BY <1>1, <1>4, Depth DEF Opened
  <1>5. CASE Len(open) = 4
    BY <1>1, <1>5, Depth DEF Opened
  <1>6. CASE Len(open) = 5
    BY <1>1, <1>6, Depth DEF Opened
  <1> QED
    BY <1>2, <1>3, <1>4, <1>5, <1>6

LEMMA EndStored ==
  ASSUME FieldInv, EndElement
  PROVE  Stored'
  <1>1. Shape /\ Stored /\ PageSoFar /\ status = "parsing"
    BY DEF FieldInv, TypeInv, EndElement
  <1> DEFINE n == Len(open)
             e == open[n - 1]
             f == open'[n - 1]
  <1>2. /\ n \in Nat /\ n > 1 /\ Top = open[n] /\ on_end_element(Top.name)
        /\ \A k \in 1 .. n - 2 : open'[k] = open[k]
    BY <1>1, EndOpen
  <1>3. /\ Top.name # "page" => PagesIn(f) = PagesIn(e)
        /\ Top.name = "page" => PagesIn(f) = Append(PagesIn(e), PageOf(Top))
    BY <1>1, EndTexts
  <1>4. CASE Top.name = "page"
    <2>1. n = 2
      BY <1>1, <1>4, EndDepth
    <2>2. OnEndPage
      BY <1>2, <1>4 DEF on_end_element
    <2>3. PageOf(Top) = [page |-> current_page_, revisions |-> citations_by_revision_]
      <3>1. Opened(2, "page") /\ Top = open[2]
        BY <1>2, <1>4, <2>1 DEF Opened
      <3> QED
        BY <1>1, <3>1 DEF PageSoFar, PageOf, PageHead
    <2>4. e = open[1] /\ f = open'[1]
      BY <2>1
    <2> HIDE DEF e, f, n
    <2> QED
      BY <1>1, <1>3, <1>4, <2>2, <2>3, <2>4 DEF Stored, OnEndPage
  <1>5. CASE Top.name # "page"
    <2>1. stored_pages_' = stored_pages_
      BY <1>2, <1>5, Zenon DEF on_end_element, OnEndRevision, OnEndContributor, OnEndField, Throw
    <2>2. PagesIn(open'[1]) = PagesIn(open[1])
      <3>1. CASE n = 2
        <4>1. e = open[1] /\ f = open'[1]
          BY <3>1
        <4> HIDE DEF e, f
        <4> QED
          BY <1>3, <1>5, <4>1
      <3>2. CASE n # 2
        <4>0. n \in Nat /\ n > 1
          BY <1>2
        <4> HIDE DEF n
        <4>1. 1 \in 1 .. n - 2
          BY <3>2, <4>0
        <4>2. open'[1] = open[1]
          BY <1>2, <4>1
        <4> QED
          BY <4>2
      <3> QED
        BY <3>1, <3>2
    <2> QED
      BY <1>1, <2>1, <2>2 DEF Stored
  <1> QED
    BY <1>4, <1>5
\* What the end tag of a field makes of the current page.
LEMMA PageFields ==
  ASSUME NEW name, OnEndField(name)
  PROVE  /\ in_page_ /\ name = "title" =>
              current_page_' = [current_page_ EXCEPT !.title = text_buf_]
         /\ in_page_ /\ ~ in_revision_ /\ ~ in_contributor_ /\ name = "id" =>
              current_page_' = [current_page_ EXCEPT !.page_id = Digits(text_buf_)]
         /\ name \notin {"title", "id"} => current_page_' = current_page_
         /\ (in_revision_ \/ in_contributor_) /\ name # "title" => current_page_' = current_page_
         /\ ~ in_page_ => current_page_' = current_page_
         /\ citations_by_revision_' = citations_by_revision_
  BY DEF OnEndField, SetsPageId

\* What it makes of the current revision.
LEMMA RevisionFields ==
  ASSUME NEW name, OnEndField(name)
  PROVE  /\ in_revision_ /\ ~ in_contributor_ /\ name = "id" =>
              current_revision_' = [current_revision_ EXCEPT !.revision_id = Digits(text_buf_)]
         /\ in_revision_ /\ name = "parentid" =>
              current_revision_' = [current_revision_ EXCEPT !.parent_id = Digits(text_buf_)]
         /\ in_revision_ /\ name = "username" =>
              current_revision_' = [current_revision_ EXCEPT !.user = text_buf_]
         /\ in_revision_ /\ name = "timestamp" =>
              current_revision_' = [current_revision_ EXCEPT !.timestamp = Timestamp(text_buf_)]
         /\ in_revision_ /\ name = "text" => current_revision_' = current_revision_
         /\ in_contributor_ /\ name = "id" => current_revision_' = current_revision_
         /\ ~ in_revision_ => current_revision_' = current_revision_
         /\ in_revision_ /\ name = "text" => current_citations_' = Citations(text_buf_)
         /\ name = "content" => current_revision_' = current_revision_
         /\ name # "text" => current_citations_' = current_citations_
  BY DEF OnEndField, SetsRevisionId, SetsParentId

\* Where no revision lacks its text, a revision that ends is complete.
LEMMA WholeRevision ==
  ASSUME Shape, RevisionSoFar, ~ TextOptional, EndElement, Top.name = "revision"
  PROVE  RevisionOf(Top) = [revision |-> current_revision_, citations |-> current_citations_]
  <1>1. Len(open) = 3 /\ Top = open[3]
    BY EndDepth, EndOpen
  <1>2. Opened(3, "revision") /\ ~ Opened(4, "contributor") /\ ~ Opened(4, "content")
    BY <1>1 DEF Opened
  <1>3. current_revision_ = RevisionHead(Top, User(Top))
    BY <1>1, <1>2 DEF RevisionSoFar, UserSoFar
  <1>4. Named(Top, "text") # << >>
    <2>1. Children("revision") = << "id", "parentid", "timestamp", "contributor", "text",
                                    "content" >>
      BY DEF Children
    <2>2. MayCome(7)
      <3>0. Len(<< "id", "parentid", "timestamp", "contributor", "text", "content" >>) + 1 = 7
        OBVIOUS
      <3>1. Len(Children(Top.name)) + 1 = 7
        BY <2>1, <3>0, Zenon
      <3>2. MayCome(Len(Children(Top.name)) + 1)
        BY DEF EndElement
      <3> QED
        BY <3>1, <3>2
    <2>3. Len(Named(Top, "text")) > 0
      BY <2>1, <2>2 DEF MayCome, Optional
    <2>4. Len(<< >>) = 0
      OBVIOUS
    <2> QED
      BY <2>3, <2>4
  <1>5. current_citations_ = Citations(LastText(Top))
    BY <1>1, <1>2, <1>4 DEF RevisionSoFar, LastTextSoFar
  <1> QED
    BY <1>3, <1>5 DEF RevisionOf, RevisionHead

\* A slot that ends has a text.
LEMMA WholeContent ==
  ASSUME Shape, EndElement, Top.name = "content"
  PROVE  Named(Top, "text") # << >>
  <1>1. Children(Top.name) = << "text" >> /\ Optional(Top.name)
          = {"siteinfo", "page", "revision", "upload", "logitem"}
    BY DEF Children, Optional
  <1>2. Len(<< "text" >>) + 1 = 2
    OBVIOUS
  <1>3. MayCome(2)
    BY <1>1, <1>2 DEF EndElement
  <1>4. Len(Named(Top, "text")) > 0
    BY <1>1, <1>3 DEF MayCome
  <1>5. Len(<< >>) = 0
    OBVIOUS
  <1> QED
    BY <1>4, <1>5

LEMMA EndPageSoFar ==
  ASSUME FieldInv, EndElement, status' = "parsing", ~ TextOptional
  PROVE  PageSoFar'
  <1>1. Shape /\ TypeOK /\ Buffered /\ PageSoFar /\ RevisionSoFar /\ status = "parsing"
    BY DEF FieldInv, TypeInv, EndElement
  <1> DEFINE name == Top.name
             n == Len(open)
  <1>2. /\ name = "page" => OnEndPage
        /\ name = "revision" => OnEndRevision
        /\ name = "contributor" => OnEndContributor
        /\ name \notin {"page", "revision", "contributor"} => OnEndField(name)
    BY <1>1, EndOpen, Handler
  <1>3. /\ n \in Nat /\ n > 1 /\ Top = open[n] /\ Len(open') = n - 1
        /\ \A k \in 1 .. n - 2 : open'[k] = open[k]
        /\ open'[n - 1].name = open[n - 1].name
    BY <1>1, EndOpen
  <1>4. /\ in_page_ <=> Opened(2, "page")
        /\ in_revision_ <=> Opened(3, "revision")
        /\ in_contributor_ <=> Opened(3, "contributor") \/ Opened(4, "contributor")
    BY <1>1, FlagsOpened
  <1>5. CASE n = 2
    <2>1. ~ Opened(2, "page")'
      BY <1>3, <1>5 DEF Opened
    <2>2. CASE name = "page"
      BY <1>2, <2>1, <2>2 DEF OnEndPage, PageSoFar
    <2>3. CASE name \in {"siteinfo", "logitem"}
      <3>1. ~ Opened(2, "page")
        BY <1>3, <1>5, <2>3 DEF Opened
      <3>2. UNCHANGED << current_page_, citations_by_revision_ >>
        BY <1>2, <2>3, PageFields
      <3> QED
        BY <1>1, <2>1, <3>1, <3>2 DEF PageSoFar
    <2> QED
      BY <1>1, <1>5, <2>2, <2>3, EndDepth
  <1>8. CASE n = 3 /\ ~ Opened(2, "page")
    <2>1. ~ Opened(2, "page")'
      BY <1>3, <1>8 DEF Opened
    <2>2. name \in {"id", "contributor", "text"}
      BY <1>1, <1>8, EndDepth
    <2>3. UNCHANGED << current_page_, citations_by_revision_ >>
      <3>1. CASE name = "contributor"
        BY <1>2, <3>1 DEF OnEndContributor, currents
      <3>2. CASE name # "contributor"
        <4>1. OnEndField(name) /\ ~ in_page_
          BY <1>2, <1>4, <1>8, <2>2, <3>2
        <4> QED
          BY <4>1, PageFields
      <3> QED
        BY <3>1, <3>2
    <2> QED
      BY <1>1, <1>8, <2>1, <2>3 DEF PageSoFar
  <1>6. CASE n = 3 /\ Opened(2, "page")
    <2> DEFINE e == open[2]
               f == open'[2]
    <2>1. Opened(2, "page") /\ Opened(2, "page")'
      BY <1>3, <1>6 DEF Opened
    <2>2. current_page_ = PageHead(e) /\ citations_by_revision_ = RevisionsOf(e)
      BY <1>1, <2>1 DEF PageSoFar
    <2>3. ~ Opened(3, "revision") \/ name = "revision"
      BY <1>3, <1>6 DEF Opened
    <2>4. ~ Opened(4, "contributor") /\ (Opened(3, "contributor") => name = "contributor")
      BY <1>3, <1>6 DEF Opened
    <2>5. e = open[Len(open) - 1] /\ f = open'[Len(open) - 1]
      BY <1>6
    <2> HIDE DEF e, f
    <2>6. /\ \A x : Top.name # x => Text(f, x) = Text(e, x)
          /\ Top.name \in {"title", "id"} => Text(f, Top.name) = Top.text
          /\ Top.name # "revision" => RevisionsOf(f) = RevisionsOf(e)
          /\ Top.name = "revision" => RevisionsOf(f) = Append(RevisionsOf(e), RevisionOf(Top))
      BY <1>1, <2>5, EndTexts DEF Several
    <2> SUFFICES current_page_' = PageHead(f) /\ citations_by_revision_' = RevisionsOf(f)
      BY <2>1 DEF PageSoFar, f
    <2>7. CASE name = "title"
      <3>1. OnEndField(name) /\ text_buf_ = Top.text
        BY <1>1, <1>2, <1>4, <2>1, <2>7 DEF Buffered
      <3>2. /\ current_page_' = [current_page_ EXCEPT !.title = text_buf_]
            /\ citations_by_revision_' = citations_by_revision_
        BY <1>4, <2>1, <2>7, <3>1, PageFields
      <3>3. Text(f, "title") = text_buf_ /\ Text(f, "id") = Text(e, "id")
        BY <2>6, <2>7, <3>1
      <3> QED
        BY <2>2, <2>6, <2>7, <3>2, <3>3 DEF PageHead
    <2>8. CASE name = "id"
      <3>1. OnEndField(name) /\ text_buf_ = Top.text
        BY <1>1, <1>2, <1>4, <2>1, <2>8 DEF Buffered
      <3>2. /\ current_page_' = [current_page_ EXCEPT !.page_id = Digits(text_buf_)]
            /\ citations_by_revision_' = citations_by_revision_
        BY <1>4, <2>1, <2>3, <2>4, <2>8, <3>1, PageFields
      <3>3. Text(f, "id") = text_buf_ /\ Text(f, "title") = Text(e, "title")
        BY <2>6, <2>8, <3>1
      <3> QED
        BY <2>2, <2>6, <2>8, <3>2, <3>3 DEF PageHead
    <2>9. CASE name = "upload"
      <3>1. UNCHANGED << current_page_, citations_by_revision_ >>
        BY <1>2, <2>9, PageFields
      <3>2. Text(f, "id") = Text(e, "id") /\ Text(f, "title") = Text(e, "title")
        BY <2>6, <2>9
      <3> QED
        BY <2>2, <2>6, <2>9, <3>1, <3>2 DEF PageHead
    <2>10. CASE name = "revision"
      <3>1. OnEndRevision
        BY <1>2, <2>10
      <3>2. Text(f, "id") = Text(e, "id") /\ Text(f, "title") = Text(e, "title")
        BY <2>6, <2>10
      <3>3. RevisionOf(Top) = [revision |-> current_revision_, citations |-> current_citations_]
        BY <1>1, <2>10, WholeRevision
      <3> QED
        BY <2>2, <2>6, <2>10, <3>1, <3>2, <3>3 DEF PageHead, OnEndRevision
    <2>11. ~ Opened(2, "logitem")
      BY <2>1 DEF Opened
    <2> QED
      BY <1>1, <1>6, <2>7, <2>8, <2>9, <2>10, <2>11, EndDepth
  <1>7. CASE n > 3
    <2>0. \/ name = "contributor"
          \/ /\ name \in {"id", "parentid", "timestamp", "text", "content", "username"}
             /\ Opened(3, "revision") \/ Opened(3, "contributor") \/ Opened(4, "contributor")
      <3>1. n # 2 /\ n # 3
        BY <1>3, <1>7
      <3> HIDE DEF name
      <3> QED
        BY <1>1, <3>1, EndDepth DEF name
    <2>1. 2 \in 1 .. n - 2 /\ Len(open) >= 2 /\ Len(open') >= 2
      BY <1>3, <1>7
    <2>2. open'[2] = open[2] /\ (Opened(2, "page")' <=> Opened(2, "page"))
      BY <1>3, <2>1 DEF Opened
    <2>3. UNCHANGED << current_page_, citations_by_revision_ >>
      <3>1. CASE name = "contributor"
        BY <1>2, <3>1 DEF OnEndContributor, currents
      <3>2. CASE name # "contributor"
        <4>1. OnEndField(name) /\ name # "title"
          BY <1>2, <2>0, <3>2
        <4>2. in_revision_ \/ in_contributor_
          BY <1>4, <2>0, <3>2
        <4> QED
          BY <4>1, <4>2, PageFields
      <3> QED
        BY <3>1, <3>2
    <2> QED
      BY <1>1, <2>2, <2>3 DEF PageSoFar
  <1> QED
    BY <1>3, <1>5, <1>6, <1>7, <1>8
LEMMA EndRevisionSoFar ==
  ASSUME FieldInv, EndElement, status' = "parsing"
  PROVE  RevisionSoFar'
  <1>1. Shape /\ Buffered /\ RevisionSoFar /\ status = "parsing"
    BY DEF FieldInv, TypeInv, EndElement
  <1> DEFINE name == Top.name
             n == Len(open)
  <1>2. /\ name = "page" => OnEndPage
        /\ name = "revision" => OnEndRevision
        /\ name = "contributor" => OnEndContributor
        /\ name \notin {"page", "revision", "contributor"} => OnEndField(name)
    BY <1>1, EndOpen, Handler
  <1>3. /\ n \in Nat /\ n > 1 /\ Top = open[n] /\ Len(open') = n - 1
        /\ \A k \in 1 .. n - 2 : open'[k] = open[k]
        /\ open'[n - 1].name = open[n - 1].name
    BY <1>1, EndOpen
  <1>4. /\ in_revision_ <=> Opened(3, "revision")
        /\ in_contributor_ <=> Opened(3, "contributor") \/ Opened(4, "contributor")
    BY <1>1, FlagsOpened
  <1>5. ASSUME ~ Opened(3, "revision"), ~ Opened(3, "revision")' PROVE RevisionSoFar'
    <2>1. current_revision_' = current_revision_
      <3>1. CASE name \in {"page", "revision", "contributor"}
        <4>1. name # "revision" \/ current_revision_' = NoRevision
          BY <1>2 DEF OnEndRevision
        <4>2. current_revision_ = NoRevision
          BY <1>1, <1>5 DEF RevisionSoFar
        <4> QED
          BY <1>2, <3>1, <4>1, <4>2 DEF OnEndPage, OnEndContributor, currents
      <3>2. CASE name \notin {"page", "revision", "contributor"}
        BY <1>2, <1>4, <1>5, <3>2, RevisionFields
      <3> QED
        BY <3>1, <3>2
    <2> QED
      BY <1>1, <1>5, <2>1 DEF RevisionSoFar
  <1>6. CASE n = 2
    <2>1. ~ Opened(3, "revision") /\ ~ Opened(3, "revision")'
      BY <1>3, <1>6 DEF Opened
    <2> QED
      BY <1>5, <2>1
  <1>7. CASE n = 3
    <2>1. ~ Opened(3, "revision")'
      BY <1>3, <1>7 DEF Opened
    <2>2. CASE name = "revision"
      BY <1>2, <2>1, <2>2 DEF OnEndRevision, RevisionSoFar
    <2>3. CASE name # "revision"
      <3>1. ~ Opened(3, "revision")
        BY <1>3, <1>7, <2>3 DEF Opened
      <3> QED
        BY <1>5, <2>1, <3>1
    <2> QED
      BY <2>2, <2>3
  <1>8. ASSUME n = 4, Opened(3, "revision") PROVE RevisionSoFar'
    <2> DEFINE e == open[3]
               f == open'[3]
    <2>1. e = open[Len(open) - 1] /\ f = open'[Len(open) - 1] /\ e.name = "revision"
      BY <1>8 DEF Opened
    <2>2. /\ Opened(3, "revision")' /\ ~ Opened(4, "contributor")' /\ ~ Opened(4, "content")'
          /\ Opened(4, "contributor") <=> name = "contributor"
          /\ Opened(4, "content") <=> name = "content"
      BY <1>3, <1>8 DEF Opened
    <2>3. name \in {"id", "parentid", "timestamp", "contributor", "text", "content"}
      <3>1. ~ Opened(3, "upload") /\ ~ Opened(3, "contributor")
        BY <2>1 DEF Opened
      <3> QED
        BY <1>1, <1>8, <3>1, EndDepth
    <2>4. /\ current_revision_ = RevisionHead(e, UserSoFar)
          /\ Named(e, "text") # << >> => current_citations_ = Citations(LastTextSoFar)
      BY <1>1, <1>8 DEF RevisionSoFar
    <2>5. /\ UserSoFar = IF name = "contributor" THEN Text(Top, "username") ELSE User(e)
          /\ name # "content" => LastTextSoFar = LastText(e)
          /\ name = "content" /\ Named(Top, "text") # << >> => LastTextSoFar = Text(Top, "text")
      BY <1>3, <1>8, <2>2 DEF UserSoFar, LastTextSoFar
    <2>6. UserSoFar' = User(f) /\ LastTextSoFar' = LastText(f)
      BY <2>2 DEF UserSoFar, LastTextSoFar
    <2> SUFFICES /\ current_revision_' = RevisionHead(f, User(f))
                 /\ Named(f, "text") # << >> => current_citations_' = Citations(LastText(f))
      BY <2>2, <2>6 DEF RevisionSoFar
    <2> HIDE DEF e, f
    <2>7. /\ \A x : Top.name # x => Named(f, x) = Named(e, x) /\ Text(f, x) = Text(e, x)
          /\ Top.name \in {"id", "parentid", "timestamp", "contributor", "text"} =>
               Named(f, Top.name) = << Top >> /\ Text(f, Top.name) = Top.text
          /\ Top.name = "content" => LastText(f) = Text(Top, "text")
          /\ Top.name = "text" => LastText(f) = Top.text
          /\ Top.name \notin {"text", "content"} => LastText(f) = LastText(e)
      BY <1>1, <2>1, EndTexts DEF Several
    <2>8. name # "contributor" => User(f) = User(e)
      BY <2>7 DEF User
    <2>9. name \in {"id", "parentid", "timestamp", "text"} =>
            OnEndField(name) /\ text_buf_ = Top.text /\ in_revision_ /\ ~ in_contributor_
      <3>1. ~ Opened(3, "contributor")
        BY <1>8 DEF Opened
      <3> QED
        BY <1>1, <1>2, <1>4, <1>8, <2>2, <3>1 DEF Buffered
    <2> DEFINE old == current_revision_
               cites == current_citations_
    <2>10. CASE name = "id"
      <3>1. current_revision_' = [old EXCEPT !.revision_id = Digits(text_buf_)] /\ cites' = cites
        BY <2>9, <2>10, RevisionFields
      <3>2. /\ Text(f, "id") = text_buf_ /\ Text(f, "parentid") = Text(e, "parentid")
            /\ Text(f, "timestamp") = Text(e, "timestamp")
            /\ Named(f, "text") = Named(e, "text") /\ LastText(f) = LastText(e)
        BY <2>7, <2>9, <2>10
      <3> QED
        BY <2>4, <2>5, <2>8, <2>10, <3>1, <3>2 DEF RevisionHead
    <2>11. CASE name = "parentid"
      <3>1. current_revision_' = [old EXCEPT !.parent_id = Digits(text_buf_)] /\ cites' = cites
        BY <2>9, <2>11, RevisionFields
      <3>2. /\ Text(f, "parentid") = text_buf_ /\ Text(f, "id") = Text(e, "id")
            /\ Text(f, "timestamp") = Text(e, "timestamp")
            /\ Named(f, "text") = Named(e, "text") /\ LastText(f) = LastText(e)
        BY <2>7, <2>9, <2>11
      <3> QED
        BY <2>4, <2>5, <2>8, <2>11, <3>1, <3>2 DEF RevisionHead
    <2>12. CASE name = "timestamp"
      <3>1. current_revision_' = [old EXCEPT !.timestamp = Timestamp(text_buf_)] /\ cites' = cites
        BY <2>9, <2>12, RevisionFields
      <3>2. /\ Text(f, "timestamp") = text_buf_ /\ Text(f, "id") = Text(e, "id")
            /\ Text(f, "parentid") = Text(e, "parentid")
            /\ Named(f, "text") = Named(e, "text") /\ LastText(f) = LastText(e)
        BY <2>7, <2>9, <2>12
      <3> QED
        BY <2>4, <2>5, <2>8, <2>12, <3>1, <3>2 DEF RevisionHead
    <2>13. CASE name = "text"
      <3>1. current_revision_' = old /\ cites' = Citations(text_buf_)
        BY <2>9, <2>13, RevisionFields
      <3>2. /\ LastText(f) = text_buf_ /\ Text(f, "id") = Text(e, "id")
            /\ Text(f, "parentid") = Text(e, "parentid")
            /\ Text(f, "timestamp") = Text(e, "timestamp")
        BY <2>7, <2>9, <2>13
      <3> QED
        BY <2>4, <2>5, <2>8, <2>13, <3>1, <3>2 DEF RevisionHead
    <2>14. CASE name = "contributor"
      <3>1. current_revision_' = old /\ cites' = cites
        BY <1>2, <2>14 DEF OnEndContributor, currents
      <3>2. User(f) = Text(Top, "username")
        <4>1. Named(f, "contributor") = << Top >>
          BY <2>7, <2>14
        <4>2. << Top >> # << >> /\ Head(<< Top >>) = Top
          OBVIOUS
        <4> QED
          BY <4>1, <4>2 DEF User
      <3>3. /\ Text(f, "id") = Text(e, "id") /\ Text(f, "parentid") = Text(e, "parentid")
            /\ Text(f, "timestamp") = Text(e, "timestamp")
            /\ Named(f, "text") = Named(e, "text") /\ LastText(f) = LastText(e)
        BY <2>7, <2>14
      <3> QED
        BY <2>4, <2>5, <2>14, <3>1, <3>2, <3>3 DEF RevisionHead
    <2>15. CASE name = "content"
      <3>1. current_revision_' = old /\ cites' = cites
        BY <1>2, <2>15, RevisionFields
      <3>2. Named(Top, "text") # << >>
        BY <1>1, <2>15, WholeContent
      <3>3. /\ Text(f, "id") = Text(e, "id") /\ Text(f, "parentid") = Text(e, "parentid")
            /\ Text(f, "timestamp") = Text(e, "timestamp")
            /\ Named(f, "text") = Named(e, "text") /\ LastText(f) = Text(Top, "text")
        BY <2>7, <2>15
      <3> QED
        BY <2>4, <2>5, <2>8, <2>15, <3>1, <3>2, <3>3 DEF RevisionHead
    <2> QED
      BY <2>3, <2>10, <2>11, <2>12, <2>13, <2>14, <2>15
  <1>9. ASSUME n = 5, Opened(3, "revision"), Opened(4, "contributor") PROVE RevisionSoFar'
    <2> DEFINE e == open[4]
               f == open'[4]
    <2>1. e = open[Len(open) - 1] /\ f = open'[Len(open) - 1] /\ open'[3] = open[3]
      BY <1>3, <1>9
    <2>2. ~ Opened(4, "content") /\ name \in {"username", "id"}
      <3>1. ~ Opened(4, "content")
        BY <1>9 DEF Opened
      <3> QED
        BY <1>1, <1>9, <3>1, EndDepth
    <2>3. Opened(3, "revision")' /\ Opened(4, "contributor")' /\ ~ Opened(4, "content")'
      BY <1>3, <1>9, <2>1, <2>2 DEF Opened
    <2>4. /\ UserSoFar = Text(e, "username") /\ UserSoFar' = Text(f, "username")
          /\ LastTextSoFar = LastText(open[3]) /\ LastTextSoFar' = LastText(open[3])
      BY <1>9, <2>1, <2>2, <2>3 DEF UserSoFar, LastTextSoFar
    <2>5. /\ current_revision_ = RevisionHead(open[3], Text(e, "username"))
          /\ Named(open[3], "text") # << >> =>
               current_citations_ = Citations(LastText(open[3]))
      BY <1>1, <1>9, <2>4 DEF RevisionSoFar
    <2> SUFFICES /\ current_revision_' = RevisionHead(open[3], Text(f, "username"))
                 /\ current_citations_' = current_citations_
      BY <2>1, <2>3, <2>4, <2>5 DEF RevisionSoFar
    <2> HIDE DEF e, f
    <2>6. /\ \A x : Top.name # x => Text(f, x) = Text(e, x)
          /\ Top.name \in {"username", "id"} => Text(f, Top.name) = Top.text
      BY <1>1, <2>1, EndTexts DEF Several
    <2>7. OnEndField(name) /\ in_revision_ /\ in_contributor_
      BY <1>2, <1>4, <1>9, <2>2
    <2>8. CASE name = "username"
      <3>1. /\ current_revision_' = [current_revision_ EXCEPT !.user = text_buf_]
            /\ current_citations_' = current_citations_
        BY <2>7, <2>8, RevisionFields
      <3>2. text_buf_ = Top.text
        BY <1>1, <2>7, <2>8 DEF Buffered
      <3>3. Text(f, "username") = text_buf_
        BY <2>6, <2>8, <3>2
      <3> QED
        BY <2>5, <3>1, <3>3 DEF RevisionHead
    <2>9. CASE name = "id"
      <3>1. UNCHANGED << current_revision_, current_citations_ >>
        BY <2>7, <2>9, RevisionFields
      <3>2. Text(f, "username") = Text(e, "username")
        BY <2>6, <2>9
      <3> QED
        BY <2>5, <3>1, <3>2
    <2> QED
      BY <2>2, <2>8, <2>9
  <1>16. ASSUME n = 5, Opened(3, "revision"), ~ Opened(4, "contributor") PROVE RevisionSoFar'
    <2> DEFINE e == open[4]
               f == open'[4]
    <2>1. e = open[Len(open) - 1] /\ f = open'[Len(open) - 1] /\ open'[3] = open[3]
      BY <1>3, <1>16
    <2>2. Opened(4, "content") /\ name = "text"
      BY <1>1, <1>16, EndDepth
    <2>3. Opened(3, "revision")' /\ ~ Opened(4, "contributor")' /\ Opened(4, "content")'
      BY <1>3, <1>16, <2>1, <2>2 DEF Opened
    <2>4. UserSoFar' = UserSoFar
      BY <1>16, <2>1, <2>3 DEF UserSoFar
    <2>5. OnEndField(name) /\ in_revision_ /\ text_buf_ = Top.text
      BY <1>1, <1>2, <1>4, <1>16, <2>2 DEF Buffered
    <2>6. current_revision_' = current_revision_ /\ current_citations_' = Citations(Top.text)
      BY <2>2, <2>5, RevisionFields
    <2>7. LastTextSoFar' = Top.text
      <3>1. Named(f, "text") = << Top >> /\ Text(f, "text") = Top.text
        BY <1>1, <2>1, <2>2, EndTexts DEF Several
      <3>2. << Top >> # << >>
        OBVIOUS
      <3> QED
        BY <2>3, <3>1, <3>2 DEF LastTextSoFar
    <2> QED
      BY <1>1, <1>16, <2>1, <2>3, <2>4, <2>6, <2>7 DEF RevisionSoFar
  <1>10. ASSUME n > 3, ~ Opened(3, "revision") PROVE RevisionSoFar'
    <2>1. open'[3].name = open[3].name
      <3>1. CASE n = 4
        BY <1>3, <3>1
      <3>2. CASE n # 4
        <4>1. 3 \in 1 .. n - 2
          BY <1>3, <1>10, <3>2
        <4> QED
          BY <1>3, <4>1
      <3> QED
        BY <3>1, <3>2
    <2>2. ~ Opened(3, "revision")'
      BY <1>3, <1>10, <2>1 DEF Opened
    <2> QED
      BY <1>5, <1>10, <2>2
  <1>11. n \in {2, 3, 4, 5}
    BY <1>1, EndDepth
  <1> HIDE DEF n
  <1>12. n = 2 \/ n = 3 \/ n = 4 \/ n = 5
    BY <1>11
  <1>13. n \in {4, 5} => n > 3
    BY <1>12
  <1>14. CASE Opened(3, "revision")
    BY <1>6, <1>7, <1>8, <1>9, <1>12, <1>14, <1>16
  <1>15. CASE ~ Opened(3, "revision")
    BY <1>6, <1>7, <1>10, <1>12, <1>13, <1>15
  <1> QED
    BY <1>14, <1>15

LEMMA NextFields == ~ TextOptional /\ FieldInv /\ [Next]_vars => FieldInv'
  <1> SUFFICES ASSUME ~ TextOptional, FieldInv, [Next]_vars PROVE FieldInv'
    OBVIOUS
  <1>1. CASE StartElement
    BY <1>1, StartFields
  <1>2. CASE Characters
    BY <1>2, CharactersFields
  <1>3. CASE EndElement
    BY <1>3, EndTyped, EndStored, EndPageSoFar, EndRevisionSoFar DEF FieldInv
  <1>4. ASSUME UNCHANGED << currents, stored_pages_, open >>,
               status' \in {"threw", "returned"} \/ status' = status, [Next]_vars
        PROVE  FieldInv'
    <2>1. TypeInv'
      BY NextTyped DEF FieldInv
    <2>2. Stored'
      BY <1>4 DEF FieldInv, Stored
    <2>3. status' = "parsing" => PageSoFar' /\ RevisionSoFar'
      BY <1>4 DEF FieldInv, PageSoFar, RevisionSoFar, UserSoFar, LastTextSoFar, Opened, currents
    <2> QED
      BY <2>1, <2>2, <2>3 DEF FieldInv
  <1>5. CASE on_error
    BY <1>4, <1>5 DEF on_error, Throw
  <1>6. CASE Return
    BY <1>4, <1>6 DEF Return
  <1>7. CASE UNCHANGED vars
    BY <1>4, <1>7 DEF vars
  <1> QED
    BY <1>1, <1>2, <1>3, <1>5, <1>6, <1>7 DEF Next

\* Every field of every stored page and revision is the text of its own element,
\* and the citations of a revision are those of its last text, the one of its last
\* slot (on_start_element, on_characters, on_end_element), for documents of any
\* size, if no revision lacks its <text>; where one does, OwnCitations fails.
THEOREM PagesCorrect ==
  ASSUME ~ TextOptional
  PROVE  Spec => []PagesFaithful
  <1>1. Init => FieldInv
    BY InitFields
  <1>2. FieldInv /\ [Next]_vars => FieldInv'
    BY NextFields
  <1>3. FieldInv => PagesFaithful
    <2> SUFFICES ASSUME FieldInv PROVE PagesFaithful
      OBVIOUS
    <2>1. Head(open) = open[1] /\ Stored
      BY Depth DEF FieldInv, TypeInv
    <2>2. DocumentPages = PagesIn(Head(open))
      BY DEF DocumentPages, PagesIn
    <2> QED
      BY <2>1, <2>2 DEF Stored, PagesFaithful
  <1> QED
    BY <1>1, <1>2, <1>3, PTL DEF Spec
=============================================================================
