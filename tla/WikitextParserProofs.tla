------------------------ MODULE WikitextParserProofs ------------------------
(***************************************************************************)
(* Theorems about WikitextParser, for all texts.                           *)
(***************************************************************************)
EXTENDS WikitextParser, SequenceLemmas

-----------------------------------------------------------------------------
(* Types. *)

LEMMA LeastProperties ==
  ASSUME NEW K \in SUBSET Nat, K # {}
  PROVE  Min(K) \in K /\ \A k \in K : Min(K) <= k
  <1>1. \E m \in K : \A n \in K : m <= n
    BY LeastElement
  <1> QED
    BY <1>1 DEF Min

\* A text is a sequence of words, and so is every part of it.
LEMMA TextType ==
  ASSUME text \in Texts
  PROVE  text \in Strings
  <1>1. text \in Seq(STRING)
    BY TextsAssumption
  <1>2. \A k \in 1 .. Len(text) : text[k] \in Words
    BY <1>1 DEF Words, ToSet
  <1>3. Len(text) \in Nat /\ text \in [1 .. Len(text) -> STRING]
    BY <1>1
  <1>4. text \in [1 .. Len(text) -> Words]
    BY <1>2, <1>3
  <1> QED
    BY <1>3, <1>4 DEF Strings

LEMMA PartType ==
  ASSUME NEW w \in Strings, NEW p \in Nat, NEW q \in 0 .. Len(w)
  PROVE  SubSeq(w, p + 1, q) \in Strings
  BY DEF Strings

\* Where a run of characters ends.
LEMMA UntilProperties ==
  ASSUME text \in Strings, NEW p \in 0 .. Len(text), NEW S
  PROVE  /\ Until(p, S) \in p .. Len(text)
         /\ Until(p, S) = Len(text) \/ text[Until(p, S) + 1] \in S
         /\ \A j \in p + 1 .. Until(p, S) : text[j] \notin S
  <1> DEFINE K == { q \in p .. Len(text) : q = Len(text) \/ text[q + 1] \in S }
  <1>1. Len(text) \in Nat /\ p \in Nat /\ p <= Len(text)
    BY DEF Strings
  <1>2. K \in SUBSET Nat /\ Len(text) \in K
    BY <1>1
  <1>3. Min(K) \in K /\ \A k \in K : Min(K) <= k
    <2> HIDE DEF K
    <2> QED
      BY <1>2, LeastProperties
  <1>4. Until(p, S) = Min(K)
    BY DEF Until
  <1> DEFINE m == Min(K)
  <1>5. m \in p .. Len(text) /\ (m = Len(text) \/ text[m + 1] \in S)
    BY <1>3
  <1>6. \A k \in K : m <= k
    BY <1>3
  <1> HIDE DEF m
  <1>7. ASSUME NEW j \in p + 1 .. m, text[j] \in S PROVE FALSE
    <2>1. j - 1 \in p .. Len(text) /\ (j - 1) + 1 = j
      BY <1>1, <1>5
    <2>2. j - 1 \in K
      BY <1>7, <2>1
    <2>3. m <= j - 1
      BY <1>6, <2>2
    <2>4. m \in Int
      BY <1>1, <1>5
    <2> HIDE DEF K
    <2> QED
      BY <1>1, <2>3, <2>4
  <1> QED
    BY <1>4, <1>5, <1>7 DEF m

\* What a part of a sequence has.
LEMMA PartProperties ==
  ASSUME NEW S, NEW s \in Seq(S), NEW p \in Nat, NEW q \in p .. Len(s)
  PROVE  /\ SubSeq(s, p + 1, q) \in Seq(S) /\ Len(SubSeq(s, p + 1, q)) = q - p
         /\ \A k \in 1 .. q - p : SubSeq(s, p + 1, q)[k] = s[p + k]
  OBVIOUS

\* What a literal of one character or two stands for.
LEMMA AtOne ==
  ASSUME text \in Strings, NEW p \in 0 .. Len(text), NEW x
  PROVE  At(p, << x >>) <=> p + 1 <= Len(text) /\ text[p + 1] = x
  <1>1. Len(<< x >>) = 1 /\ p \in Nat /\ Len(text) \in Nat
    BY DEF Strings
  <1>2. ASSUME p + 1 <= Len(text)
        PROVE  SubSeq(text, p + 1, p + 1) = << x >> <=> text[p + 1] = x
    <2> DEFINE u == SubSeq(text, p + 1, p + 1)
    <2>1. p + 1 \in p .. Len(text)
      BY <1>1, <1>2
    <2>2. u \in Seq(Words) /\ Len(u) = 1 /\ u[1] = text[p + 1]
      BY <1>1, <2>1, PartProperties DEF Strings
    <2> HIDE DEF u
    <2>3. << x >>[1] = x
      OBVIOUS
    <2>4. u[1] \in Words
      <3>1. 1 \in 1 .. Len(u)
        BY <2>2
      <3> QED
        BY <2>2, <3>1, ElementOfSeq
    <2>5. u[1] = x => u = << x >>
      BY <2>2, <2>4
    <2>6. u = << x >> => u[1] = x
      OBVIOUS
    <2> QED
      BY <2>2, <2>5, <2>6 DEF u
  <1> QED
    BY <1>1, <1>2 DEF At

LEMMA AtTwo ==
  ASSUME text \in Strings, NEW p \in 0 .. Len(text), NEW x, NEW y
  PROVE  /\ At(p, << x, y >>) <=> p + 2 <= Len(text) /\ text[p + 1] = x /\ text[p + 2] = y
         /\ At(p, << x, y >>) => p + 2 \in 0 .. Len(text)
  <1>1. Len(<< x, y >>) = 2 /\ p \in Nat /\ Len(text) \in Nat
    BY DEF Strings
  <1>2. ASSUME p + 2 <= Len(text)
        PROVE  SubSeq(text, p + 1, p + 2) = << x, y >> <=> text[p + 1] = x /\ text[p + 2] = y
    <2> DEFINE u == SubSeq(text, p + 1, p + 2)
    <2>1. p + 2 \in p .. Len(text) /\ (p + 2) - p = 2
      BY <1>1, <1>2
    <2>3. text \in Seq(Words)
      BY DEF Strings
    <2>8. /\ u \in Seq(Words) /\ Len(u) = (p + 2) - p
          /\ \A k \in 1 .. (p + 2) - p : u[k] = text[p + k]
      BY <1>1, <2>1, <2>3, PartProperties
    <2>2. u \in Seq(Words) /\ Len(u) = 2
      BY <2>1, <2>8
    <2>7. u[1] = text[p + 1] /\ u[2] = text[p + 2]
      BY <2>1, <2>8
    <2> HIDE DEF u
    <2>4. u[1] \in Words /\ u[2] \in Words
      <3>1. 1 \in 1 .. Len(u) /\ 2 \in 1 .. Len(u)
        BY <2>2
      <3> QED
        BY <2>2, <3>1, ElementOfSeq
    <2>5. u[1] = x /\ u[2] = y => u = << x, y >>
      BY <2>2, <2>4
    <2>6. u = << x, y >> => u[1] = x /\ u[2] = y
      OBVIOUS
    <2> QED
      BY <2>7, <2>5, <2>6 DEF u
  <1>3. p + 2 <= Len(text) => p + 2 \in 0 .. Len(text)
    BY <1>1
  <1> QED
    BY <1>1, <1>2, <1>3 DEF At

LEMMA WithoutType ==
  ASSUME NEW x, NEW v \in Strings
  PROVE  Without(x, v) \in Strings
  <1>1. ASSUME IsPrefix(<< x >>, v) PROVE Tail(v) \in Strings
    <2>1. v # << >>
      BY <1>1 DEF IsPrefix, Strings
    <2> QED
      BY <2>1 DEF Strings
  <1> QED
    BY <1>1 DEF Without

CitationTyped ==
  citation \in [title : Strings, has_identifiers : BOOLEAN,
                identifiers : {citation.identifiers}, urls : Seq(Strings \X Strings)]

\* TypeOK, with the types of what it does not mention.
TypeInv ==
  /\ TypeOK
  /\ text \in Strings /\ filtered \in BOOLEAN /\ ignore_invalid_ident \in BOOLEAN
  /\ pc = "field" => built < Len(results) /\ Accepts(results[built + 1].name)
  /\ CitationTyped

LEMMA TypeInit ==
  ASSUME Init PROVE TypeInv
  <1>1. text \in Strings
    BY TextType DEF Init
  <1>2. Len(text) \in Nat
    BY <1>1 DEF Strings
  <1>3. << >> \in Strings /\ << >> \in Seq(Parameters) /\ << >> \in Seq(Entries)
        /\ << >> \in Seq(Strings \X Strings)
    BY DEF Strings
  <1>4. NoEntry \in Entries
    BY <1>3 DEF NoEntry, Entries
  <1>5. CitationTyped
    BY <1>3 DEF Init, CitationTyped, NoCitation
  <1>6. DOMAIN citations = {} /\ Len(results) = 0
    BY DEF Init
  <1> QED
    BY <1>1, <1>2, <1>3, <1>4, <1>5, <1>6 DEF Init, TypeInv, TypeOK

\* A walk of the iterator leaves alone what the citations are made in.
LEMMA TypeWalk ==
  ASSUME TypeInv, UNCHANGED << input, build >>,
         pc' \in {"skip", "template", "param", "close", "build"},
         first' \in 0 .. Len(text), entry' \in Entries,
         results' \in Seq(Entries), Len(results') >= Len(results)
  PROVE  TypeInv'
  <1>1. built \in 0 .. Len(results) /\ Len(results) \in Nat /\ Len(results') \in Nat
    BY DEF TypeInv, TypeOK
  <1>2. built' \in 0 .. Len(results')
    BY <1>1 DEF build
  <1>3. CitationTyped'
    BY DEF TypeInv, CitationTyped, build
  <1> QED
    BY <1>2, <1>3 DEF TypeInv, TypeOK, build, input

\* A step of BuildCitation leaves alone what has been parsed.
LEMMA TypeField ==
  ASSUME TypeInv, UNCHANGED << input, parse, built, citations >>, pc' = pc,
         pc = "field", todo # << >>, todo' = Tail(todo), CitationTyped'
  PROVE  TypeInv'
  <1>1. todo' \in Seq(Parameters)
    BY DEF TypeInv, TypeOK
  <1>2. (pc = "field" => built < Len(results) /\ Accepts(results[built + 1].name))'
    BY DEF TypeInv, Accepts, input, parse
  <1> QED
    BY <1>1, <1>2 DEF TypeInv, TypeOK, parse, input

\* The next parameter and its parts.
LEMMA HeadType ==
  ASSUME TypeInv, todo # << >>
  PROVE  /\ Head(todo) \in Parameters /\ Head(todo).key \in Strings
         /\ Head(todo).value \in Strings /\ Head(todo).has_value \in BOOLEAN
  <1>1. Head(todo) \in Parameters
    BY DEF TypeInv, TypeOK
  <1> QED
    BY <1>1 DEF Parameters

LEMMA ParameterType ==
  ASSUME TypeInv, Parameter
  PROVE  TypeInv'
  <1> DEFINE key == Until(first, {"=", "|", "}"})
             valued == At(key, << "=" >>)
             end == IF valued THEN ValueEnd(key + 1) ELSE key
             bar == At(end, << "|" >>)
             value == IF valued THEN Slice(key + 1, end) ELSE << >>
             p == [key |-> Slice(first, key), has_value |-> valued, value |-> value]
  <1>1. text \in Strings /\ Len(text) \in Nat /\ first \in 0 .. Len(text)
    BY DEF TypeInv, TypeOK, Strings
  <1>2. key \in first .. Len(text)
    BY <1>1, UntilProperties
  <1> HIDE DEF key
  <1>14. key \in 0 .. Len(text)
    BY <1>1, <1>2
  <1>3. valued \in BOOLEAN /\ (valued => key + 1 \in 0 .. Len(text))
    <2>1. valued \in BOOLEAN
      BY DEF At
    <2>2. valued => key + 1 <= Len(text)
      BY <1>1, <1>14, AtOne
    <2> HIDE DEF valued
    <2> QED
      BY <1>1, <1>14, <2>1, <2>2
  <1>4. end \in 0 .. Len(text)
    <2>1. ASSUME valued PROVE ValueEnd(key + 1) \in 0 .. Len(text)
      <3>1. key + 1 \in 0 .. Len(text)
        BY <1>3, <2>1
      <3>2. ValueEnd(key + 1) \in key + 1 .. Len(text)
        BY <1>1, <3>1, UntilProperties DEF ValueEnd
      <3> QED
        BY <1>1, <3>1, <3>2
    <2> QED
      BY <1>3, <1>14, <2>1
  <1>5. bar => end + 1 \in 0 .. Len(text)
    <2> HIDE DEF end
    <2>1. bar => end + 1 <= Len(text)
      BY <1>1, <1>4, AtOne
    <2> QED
      BY <1>1, <1>4, <2>1
  <1> HIDE DEF end
  <1>6. value \in Strings
    <2>1. << >> \in Strings
      BY DEF Strings
    <2>2. key + 1 \in Nat
      BY <1>1, <1>2
    <2> QED
      BY <1>1, <1>3, <1>4, <2>1, <2>2, PartType DEF Slice
  <1>7. Slice(first, key) \in Strings
    BY <1>1, <1>2, PartType DEF Slice
  <1> HIDE DEF value, valued
  <1>8. p \in Parameters
    BY <1>3, <1>6, <1>7 DEF Parameters
  <1> HIDE DEF p, bar
  <1>9. /\ entry' = [entry EXCEPT !.params = Append(@, p)]
        /\ first' = IF bar THEN end + 1 ELSE end
        /\ pc' = IF bar THEN "param" ELSE "close"
        /\ UNCHANGED << input, results, build >>
    BY DEF Parameter, p, bar, end, value, valued, key
  <1>10. entry \in Entries /\ results \in Seq(Entries)
    BY DEF TypeInv, TypeOK
  <1>11. entry' \in Entries
    <2>1. entry.params \in Seq(Parameters) /\ entry.name \in Strings
      BY <1>10 DEF Entries
    <2>2. Append(entry.params, p) \in Seq(Parameters)
      BY <1>8, <2>1
    <2>3. entry' = [entry EXCEPT !.params = Append(entry.params, p)]
      BY <1>9
    <2> QED
      BY <1>10, <2>2, <2>3 DEF Entries
  <1>12. first' \in 0 .. Len(text)
    BY <1>4, <1>5, <1>9
  <1>13. results' = results /\ Len(results) \in Nat
    BY <1>9, <1>10
  <1> QED
    BY <1>9, <1>10, <1>11, <1>12, <1>13, TypeWalk

LEMMA TemplateTypeType ==
  ASSUME TypeInv, TemplateType
  PROVE  TypeInv'
  <1>1. /\ text \in Strings /\ Len(text) \in Nat /\ first \in 0 .. Len(text)
        /\ entry \in Entries /\ results \in Seq(Entries)
    BY DEF TypeInv, TypeOK, Strings
  <1>2. first + 2 \in 0 .. Len(text)
    <2>1. At(first, << "{", "{" >>)
      BY DEF TemplateType, OpensTemplate, Opening
    <2> QED
      BY <1>1, <2>1, AtTwo
  <1>3. TypeEnd \in first + 2 .. Len(text)
    BY <1>1, <1>2, UntilProperties DEF TypeEnd
  <1>4. TypeEnd + 1 \in 0 .. Len(text)
    <2>1. At(TypeEnd, << "|" >>)
      BY DEF TemplateType, OpensTemplate
    <2>2. TypeEnd \in 0 .. Len(text)
      BY <1>1, <1>2, <1>3
    <2> QED
      BY <1>1, <2>1, <2>2, AtOne
  <1>5. Slice(first + 2, TypeEnd) \in Strings
    <2>1. first + 2 \in Nat /\ TypeEnd \in 0 .. Len(text)
      BY <1>1, <1>2, <1>3
    <2> QED
      BY <1>1, <2>1, PartType DEF Slice
  <1>6. entry' \in Entries
    <2>1. << >> \in Seq(Parameters)
      OBVIOUS
    <2> QED
      BY <1>5, <2>1 DEF TemplateType, Entries
  <1>7. results' = results /\ first' = TypeEnd + 1 /\ UNCHANGED << input, build >> /\ pc' = "param"
    BY DEF TemplateType
  <1> QED
    BY <1>1, <1>4, <1>6, <1>7, TypeWalk

LEMMA WalkType ==
  ASSUME TypeInv, SkipToTemplate \/ CloseTemplate \/ StopRepetition
  PROVE  TypeInv'
  <1>1. /\ text \in Strings /\ Len(text) \in Nat /\ first \in 0 .. Len(text)
        /\ entry \in Entries /\ results \in Seq(Entries) /\ Len(results) \in Nat
    BY DEF TypeInv, TypeOK, Strings
  <1>2. CASE SkipToTemplate
    <2> DEFINE K == { q \in first .. Len(text) : q = Len(text) \/ At(q, Opening) }
    <2>1. K \in SUBSET Nat /\ Len(text) \in K
      BY <1>1
    <2>2. Min(K) \in K
      <3> HIDE DEF K
      <3> QED
        BY <2>1, LeastProperties
    <2>3. Min(K) \in 0 .. Len(text)
      BY <1>1, <2>2
    <2>4. /\ first' = Min(K) /\ results' = results /\ entry' = entry /\ pc' = "template"
          /\ UNCHANGED << input, build >>
      BY <1>2 DEF SkipToTemplate
    <2> HIDE DEF K
    <2> QED
      BY <1>1, <2>3, <2>4, TypeWalk
  <1>3. CASE CloseTemplate
    <2>1. first + 2 \in 0 .. Len(text)
      <3>1. At(first, << "}", "}" >>)
        BY <1>3 DEF CloseTemplate, Closing
      <3> QED
        BY <1>1, <3>1, AtTwo
    <2>2. /\ first' = first + 2 /\ results' = Append(results, entry) /\ entry' = entry
          /\ pc' = "skip" /\ UNCHANGED << input, build >>
      BY <1>3 DEF CloseTemplate
    <2>3. results' \in Seq(Entries) /\ Len(results') >= Len(results)
      BY <1>1, <2>2
    <2> QED
      BY <1>1, <2>1, <2>2, <2>3, TypeWalk
  <1>4. CASE StopRepetition
    <2>1. /\ first' = first /\ results' = results /\ entry' = entry
          /\ pc' = "build" /\ UNCHANGED << input, build >>
      BY <1>4 DEF StopRepetition, parse
    <2> QED
      BY <1>1, <2>1, TypeWalk
  <1> QED
    BY <1>2, <1>3, <1>4

\* What a step of BuildCitation makes of the citation.
LEMMA CitationType ==
  ASSUME TypeInv, todo # << >>,
         \/ UNCHANGED citation
         \/ citation' = [citation EXCEPT !.title = Head(todo).value]
         \/ citation' = [citation EXCEPT !.has_identifiers = TRUE]
         \/ \E f : citation' = [citation EXCEPT !.has_identifiers = TRUE, !.identifiers = f]
         \/ citation' = [citation EXCEPT !.urls =
                           Append(@, << Head(todo).key, Head(todo).value >>)]
  PROVE  CitationTyped'
  <1>1. Head(todo).key \in Strings /\ Head(todo).value \in Strings
    BY HeadType
  <1>2. CitationTyped
    BY DEF TypeInv
  <1>3. CASE UNCHANGED citation
    BY <1>2, <1>3 DEF CitationTyped
  <1>4. CASE citation' = [citation EXCEPT !.title = Head(todo).value]
    BY <1>1, <1>2, <1>4 DEF CitationTyped
  <1>5. CASE citation' = [citation EXCEPT !.has_identifiers = TRUE]
    BY <1>2, <1>5 DEF CitationTyped
  <1>6. ASSUME NEW f,
               citation' = [citation EXCEPT !.has_identifiers = TRUE, !.identifiers = f]
        PROVE  CitationTyped'
    BY <1>2, <1>6 DEF CitationTyped
  <1>7. CASE citation' = [citation EXCEPT !.urls =
                            Append(@, << Head(todo).key, Head(todo).value >>)]
    <2>1. citation.urls \in Seq(Strings \X Strings)
      BY <1>2 DEF CitationTyped
    <2> DEFINE p == << Head(todo).key, Head(todo).value >>
    <2>2. p \in Strings \X Strings
      BY <1>1
    <2> HIDE DEF p
    <2>3. Append(citation.urls, p) \in Seq(Strings \X Strings)
      BY <2>1, <2>2, AppendProperties
    <2>4. citation' = [citation EXCEPT !.urls = Append(citation.urls, p)]
      BY <1>7 DEF p
    <2> HIDE DEF p
    <2> QED
      BY <1>2, <2>3, <2>4 DEF CitationTyped
  <1> QED
    BY <1>3, <1>4, <1>5, <1>6, <1>7

FieldStep ==
  SetTitle \/ SetTextIdent \/ SetNumericIdent \/ IgnoreIdent \/ AddUrl \/ SkipParameter

LEMMA FieldStepType ==
  ASSUME TypeInv, FieldStep
  PROVE  TypeInv'
  <1>1. /\ UNCHANGED << input, parse, built, citations >> /\ pc' = pc
        /\ pc = "field" /\ todo # << >> /\ todo' = Tail(todo)
    BY DEF FieldStep, SetTitle, SetTextIdent, SetNumericIdent, IgnoreIdent, AddUrl,
           SkipParameter, Given
  <1>2. CitationTyped'
    BY <1>1, CitationType
    DEF FieldStep, SetTitle, SetTextIdent, SetNumericIdent, IgnoreIdent, AddUrl, SkipParameter
  <1> QED
    BY <1>1, <1>2, TypeField

\* The map that Insert leaves.
LEMMA InsertedType ==
  ASSUME TypeInv
  PROVE  \A t \in DOMAIN Inserted : t \in Strings /\ Inserted[t].title = t
  <1>1. \A t \in DOMAIN citations : t \in Strings /\ citations[t].title = t
    BY DEF TypeInv, TypeOK
  <1>2. citation.title \in Strings
    BY DEF TypeInv, CitationTyped
  <1> QED
    BY <1>1, <1>2 DEF Inserted, Set

LEMMA BuildType ==
  ASSUME TypeInv, FilterOut \/ BuildCitation \/ ThrowIdent \/ Insert \/ Return
  PROVE  TypeInv'
  <1>1. /\ results \in Seq(Entries) /\ Len(results) \in Nat /\ built \in 0 .. Len(results)
    BY DEF TypeInv, TypeOK
  <1>2. CASE FilterOut
    <2>1. built' \in 0 .. Len(results)
      BY <1>1, <1>2 DEF FilterOut
    <2> QED
      BY <1>2, <2>1 DEF FilterOut, TypeInv, TypeOK, CitationTyped, input, parse
  <1>3. CASE BuildCitation
    <2>1. built + 1 \in 1 .. Len(results)
      BY <1>1, <1>3 DEF BuildCitation
    <2>2. results[built + 1] \in Entries
      BY <1>1, <2>1
    <2>3. todo' \in Seq(Parameters)
      BY <1>3, <2>2 DEF BuildCitation, Entries
    <2>4. CitationTyped'
      <3>1. << >> \in Strings /\ << >> \in Seq(Strings \X Strings)
        BY DEF Strings
      <3> QED
        BY <1>3, <3>1 DEF BuildCitation, NewCitation, NoCitation, CitationTyped
    <2>5. built' < Len(results') /\ Accepts(results[built + 1].name)'
      BY <1>3 DEF BuildCitation, Accepts, input, parse
    <2>6. pc' = "field" /\ UNCHANGED << input, parse, built, citations >>
      BY <1>3 DEF BuildCitation
    <2> QED
      BY <2>3, <2>4, <2>5, <2>6 DEF TypeInv, TypeOK, input, parse
  <1>4. CASE ThrowIdent
    BY <1>4 DEF ThrowIdent, TypeInv, TypeOK, CitationTyped, input, parse, build
  <1>5. CASE Insert
    <2>1. built + 1 \in 0 .. Len(results)
      BY <1>1, <1>5 DEF Insert, TypeInv
    <2>2. \A t \in DOMAIN citations' : t \in Strings /\ citations'[t].title = t
      BY <1>5, InsertedType DEF Insert
    <2>3. built' = built + 1 /\ pc' = "build" /\ UNCHANGED << input, parse, todo, citation >>
      BY <1>5 DEF Insert
    <2> QED
      BY <2>1, <2>2, <2>3 DEF TypeInv, TypeOK, CitationTyped, input, parse
  <1>6. CASE Return
    BY <1>6 DEF Return, TypeInv, TypeOK, CitationTyped, input, parse, build
  <1> QED
    BY <1>2, <1>3, <1>4, <1>5, <1>6

LEMMA TypeStep ==
  ASSUME TypeInv, [Next]_vars
  PROVE  TypeInv'
  <1>1. CASE UNCHANGED vars
    BY <1>1 DEF vars, TypeInv, TypeOK, CitationTyped, Accepts, input, parse, build
  <1> QED
    BY <1>1, ParameterType, TemplateTypeType, WalkType, FieldStepType, BuildType
    DEF Next, FieldStep

\* Type correctness: the iterator stays in the text, whatever the grammar makes of it;
\* no citation is kept under a title that is not its own.
THEOREM TypeCorrect == Spec => []TypeOK
  <1>1. Init => TypeInv
    BY TypeInit
  <1>2. TypeInv /\ [Next]_vars => TypeInv'
    BY TypeStep
  <1>3. TypeInv => TypeOK
    BY DEF TypeInv
  <1> QED
    BY <1>1, <1>2, <1>3, PTL DEF Spec

-----------------------------------------------------------------------------
(* What parameters give, when there is one more. *)

\* Whether the parameter p gives a value for the key k.
Gives(p, k) == p.has_value /\ p.key = << k >>

LEMMA AppendElements ==
  ASSUME NEW S, NEW s \in Seq(S), NEW x \in S
  PROVE  /\ Len(s) \in Nat /\ DOMAIN s = 1 .. Len(s)
         /\ Append(s, x) \in Seq(S) /\ Len(Append(s, x)) = Len(s) + 1
         /\ DOMAIN Append(s, x) = 1 .. Len(s) + 1
         /\ \A n \in 1 .. Len(s) : Append(s, x)[n] = s[n]
         /\ Append(s, x)[Len(s) + 1] = x
  OBVIOUS

LEMMA GivingAppend ==
  ASSUME NEW params \in Seq(Parameters), NEW p \in Parameters, NEW k
  PROVE  /\ Giving(params, k) \in SUBSET (1 .. Len(params))
         /\ Giving(Append(params, p), k)
              = Giving(params, k) \cup (IF Gives(p, k) THEN {Len(params) + 1} ELSE {})
  <1> DEFINE a == Append(params, p)
             N == Len(params)
  <1>1. /\ N \in Nat /\ DOMAIN params = 1 .. N /\ DOMAIN a = 1 .. N + 1
        /\ \A n \in 1 .. N : a[n] = params[n]
        /\ a[N + 1] = p
    BY AppendElements
  <1> HIDE DEF a, N
  <1>2. 1 .. N + 1 = (1 .. N) \cup {N + 1} /\ N + 1 \notin 1 .. N
    BY <1>1
  <1>3. Giving(params, k) \in SUBSET (1 .. N)
    BY <1>1 DEF Giving
  <1>4. \A n : n \in Giving(a, k) <=>
          n \in Giving(params, k) \/ (n = N + 1 /\ Gives(p, k))
    BY <1>1, <1>2 DEF Giving, Gives
  <1>5. Giving(a, k) = Giving(params, k) \cup (IF Gives(p, k) THEN {N + 1} ELSE {})
    BY <1>4
  <1> QED
    BY <1>3, <1>5 DEF a, N

LEMMA ReadableAppend ==
  ASSUME NEW params \in Seq(Parameters), NEW p \in Parameters, NEW k
  PROVE  /\ Readable(params, k) \in SUBSET (1 .. Len(params))
         /\ Readable(Append(params, p), k)
              = Readable(params, k)
                  \cup (IF Gives(p, k) /\ IsIdent(IdentText(p)) THEN {Len(params) + 1} ELSE {})
  <1> DEFINE a == Append(params, p)
             N == Len(params)
  <1>1. /\ N \in Nat
        /\ \A n \in 1 .. N : a[n] = params[n]
        /\ a[N + 1] = p
    BY AppendElements
  <1>2. /\ Giving(params, k) \in SUBSET (1 .. N)
        /\ Giving(a, k) = Giving(params, k) \cup (IF Gives(p, k) THEN {N + 1} ELSE {})
    BY GivingAppend
  <1> HIDE DEF a, N
  <1>3. N + 1 \notin 1 .. N
    BY <1>1
  <1>4. Readable(params, k) \in SUBSET (1 .. N)
    BY <1>2 DEF Readable
  <1>5. \A n : n \in Readable(a, k) <=>
          n \in Readable(params, k) \/ (n = N + 1 /\ Gives(p, k) /\ IsIdent(IdentText(p)))
    BY <1>1, <1>2, <1>3 DEF Readable
  <1>6. Readable(a, k)
          = Readable(params, k)
              \cup (IF Gives(p, k) /\ IsIdent(IdentText(p)) THEN {N + 1} ELSE {})
    BY <1>5
  <1> QED
    BY <1>4, <1>6 DEF a, N

\* The last of some positions, and of one more.
LEMMA GreatestProperties ==
  ASSUME NEW N \in Nat, NEW K \in SUBSET (1 .. N)
  PROVE  /\ K # {} => Max(K) \in K
         /\ Max(K \cup {N + 1}) = N + 1
  <1>1. ASSUME K # {} PROVE Max(K) \in K
    <2> DEFINE D == { N - k : k \in K }
    <2>1. D \in SUBSET Nat /\ D # {}
      BY <1>1
    <2> HIDE DEF D
    <2>2. PICK d \in D : \A e \in D : d <= e
      BY <2>1, LeastElement
    <2>3. PICK m \in K : d = N - m
      BY DEF D
    <2>4. \A k \in K : d <= N - k
      BY <2>2 DEF D
    <2>5. \A k \in K : m >= k
      BY <2>3, <2>4
    <2> QED
      BY <2>5 DEF Max
  <1>2. ASSUME NEW m \in K \cup {N + 1}, \A k \in K \cup {N + 1} : m >= k
        PROVE  m = N + 1
    <2>1. m >= N + 1 /\ m \in 1 .. N + 1
      BY <1>2
    <2> QED
      BY <2>1
  <1>3. \A k \in K \cup {N + 1} : N + 1 >= k
    OBVIOUS
  <1>4. Max(K \cup {N + 1}) = N + 1
    BY <1>2, <1>3 DEF Max
  <1> QED
    BY <1>1, <1>4

LEMMA TitleAppend ==
  ASSUME NEW params \in Seq(Parameters), NEW p \in Parameters
  PROVE  Title(Append(params, p)) = IF Gives(p, "title") THEN p.value ELSE Title(params)
  <1> DEFINE a == Append(params, p)
             N == Len(params)
             K == Giving(params, "title")
  <1>1. /\ N \in Nat
        /\ \A n \in 1 .. N : a[n] = params[n]
        /\ a[N + 1] = p
    BY AppendElements
  <1>2. /\ K \in SUBSET (1 .. N)
        /\ Giving(a, "title") = K \cup (IF Gives(p, "title") THEN {N + 1} ELSE {})
    BY GivingAppend
  <1> HIDE DEF a, N, K
  <1>3. (K # {} => Max(K) \in K) /\ Max(K \cup {N + 1}) = N + 1
    BY <1>1, <1>2, GreatestProperties
  <1>4. CASE Gives(p, "title")
    BY <1>1, <1>2, <1>3, <1>4 DEF Title, a
  <1>5. CASE ~ Gives(p, "title")
    <2>1. Giving(a, "title") = K
      BY <1>2, <1>5
    <2>2. K # {} => a[Max(K)] = params[Max(K)]
      BY <1>1, <1>2, <1>3
    <2> QED
      BY <1>5, <2>1, <2>2 DEF Title, a, K
  <1> QED
    BY <1>4, <1>5

\* What is selected from a sequence, and from one with one more element.
Grown(f, g, N, K) ==
  N \in Nat /\ K \in SUBSET (1 .. N) /\ \A n \in 1 .. N : g[n] = f[n]

LEMMA SelectedAppend ==
  ASSUME NEW f, NEW g, NEW N, NEW K, Grown(f, g, N, K)
  PROVE  /\ Selected(g, K) = Selected(f, K)
         /\ Selected(g, K \cup {N + 1}) = Append(Selected(f, K), g[N + 1])
  <1>0. N \in Nat /\ K \in SUBSET (1 .. N) /\ \A n \in 1 .. N : g[n] = f[n]
    BY DEF Grown
  <1>1. IsFiniteSet(K) /\ K \in SUBSET Int
    <2>1. IsFiniteSet(1 .. N)
      BY <1>0, FS_Interval
    <2>2. K \in SUBSET (1 .. N)
      BY <1>0
    <2>3. IsFiniteSet(K)
      BY <2>1, <2>2, FS_Subset
    <2>4. K \in SUBSET Int
      BY <1>0
    <2> QED
      BY <2>3, <2>4
  <1>2. IsFiniteSet({N + 1}) /\ {N + 1} \in SUBSET Int
    <2>1. IsFiniteSet({N + 1})
      BY FS_Singleton
    <2>2. N + 1 \in Int
      BY <1>0
    <2> QED
      BY <2>1, <2>2
  <1>3. Selected(g, K) = Selected(f, K)
    BY <1>0, <1>1, SelectedSame
  <1>4. Selected(g, K \cup {N + 1}) = Selected(g, K) \o Selected(g, {N + 1})
    <2>1. \A k \in K, l \in {N + 1} : k < l
      BY <1>0
    <2> QED
      BY <1>1, <1>2, <2>1, SelectedUnion
  <1>5. Selected(g, {N + 1}) = << g[N + 1] >>
    <2>1. N + 1 \in Int
      BY <1>0
    <2> QED
      BY <2>1, SelectedSingle
  <1>6. Selected(f, K) \in Seq({ f[k] : k \in K })
    BY <1>1, SelectedProperties
  <1> DEFINE s == Selected(f, K)
             x == g[N + 1]
  <1> HIDE DEF s, x
  <1>7. s \o << x >> = Append(s, x)
    <2>1. \E V : s \in Seq(V)
      BY <1>6 DEF s
    <2> QED
      BY <2>1
  <1> QED
    BY <1>3, <1>4, <1>5, <1>7 DEF s, x

\* The URLs that params give.
UrlsOf(params) ==
  Selected([ n \in DOMAIN params |-> << params[n].key, params[n].value >> ],
           Giving(params, "url") \cup Giving(params, "archive-url"))

GivesUrl(p) == Gives(p, "url") \/ Gives(p, "archive-url")

LEMMA UrlsAppend ==
  ASSUME NEW params \in Seq(Parameters), NEW p \in Parameters
  PROVE  UrlsOf(Append(params, p)) =
           IF GivesUrl(p) THEN Append(UrlsOf(params), << p.key, p.value >>) ELSE UrlsOf(params)
  <1> DEFINE a == Append(params, p)
             N == Len(params)
             K == Giving(params, "url") \cup Giving(params, "archive-url")
             L == Giving(a, "url") \cup Giving(a, "archive-url")
             f == [ n \in DOMAIN params |-> << params[n].key, params[n].value >> ]
             g == [ n \in DOMAIN a |-> << a[n].key, a[n].value >> ]
  <1>1. /\ N \in Nat /\ DOMAIN params = 1 .. N /\ DOMAIN a = 1 .. N + 1
        /\ \A n \in 1 .. N : a[n] = params[n]
        /\ a[N + 1] = p
    BY AppendElements
  <1>2. K \in SUBSET (1 .. N) /\ L = K \cup (IF GivesUrl(p) THEN {N + 1} ELSE {})
    <2>1. \A k : /\ Giving(params, k) \in SUBSET (1 .. N)
                 /\ Giving(a, k) = Giving(params, k) \cup (IF Gives(p, k) THEN {N + 1} ELSE {})
      BY GivingAppend
    <2> HIDE DEF a, N
    <2> QED
      BY <2>1 DEF GivesUrl
  <1> HIDE DEF a, N
  <1>3. \A n \in 1 .. N : g[n] = f[n]
    BY <1>1
  <1>4. g[N + 1] = << p.key, p.value >>
    BY <1>1
  <1>5. UrlsOf(a) = Selected(g, L) /\ UrlsOf(params) = Selected(f, K)
    BY DEF UrlsOf
  <1> HIDE DEF f, g, K, L
  <1>6. Selected(g, K) = Selected(f, K) /\ Selected(g, K \cup {N + 1}) = Append(Selected(f, K), g[N + 1])
    <2>1. Grown(f, g, N, K)
      BY <1>1, <1>2, <1>3 DEF Grown
    <2> QED
      BY <2>1, SelectedAppend
  <1>7. CASE GivesUrl(p)
    BY <1>2, <1>4, <1>5, <1>6, <1>7 DEF a
  <1>8. CASE ~ GivesUrl(p)
    <2>1. L = K
      BY <1>2, <1>8
    <2> QED
      BY <1>5, <1>6, <1>8, <2>1 DEF a
  <1> QED
    BY <1>7, <1>8

-----------------------------------------------------------------------------
(* The citation that is being made. *)

\* Describes, with the very number that an identifier becomes.
Shows(c, params) ==
  /\ c.title = Title(params)
  /\ DOMAIN c.identifiers \subseteq { << k >> : k \in IdentKeys }
  /\ \A k \in NumericKeys :
       /\ << k >> \in DOMAIN c.identifiers <=> Readable(params, k) # {}
       /\ Readable(params, k) # {} =>
            c.identifiers[<< k >>]
              = StrToIntIdent(IdentText(params[Max(Readable(params, k))])) % (2 * (IntMax + 1))
  /\ \A k \in TextKeys :
       /\ << k >> \in DOMAIN c.identifiers <=> Giving(params, k) # {}
       /\ Giving(params, k) # {} =>
            Becomes(k, params[Max(Giving(params, k))].value, c.identifiers[<< k >>])
  /\ c.has_identifiers <=> \E k \in IdentKeys : Giving(params, k) # {}
  /\ c.urls = UrlsOf(params)

\* The identifier k is as it was.
Same(c, d, k) ==
  /\ << k >> \in DOMAIN d.identifiers <=> << k >> \in DOMAIN c.identifiers
  /\ << k >> \in DOMAIN c.identifiers => d.identifiers[<< k >>] = c.identifiers[<< k >>]

\* What the parameter p makes of the citation c.
Effect(c, d, p) ==
  /\ d.title = IF Gives(p, "title") THEN p.value ELSE c.title
  /\ DOMAIN d.identifiers \subseteq DOMAIN c.identifiers \cup { << k >> : k \in IdentKeys }
  /\ \A k \in NumericKeys :
       IF Gives(p, k) /\ IsIdent(IdentText(p))
       THEN /\ << k >> \in DOMAIN d.identifiers
            /\ d.identifiers[<< k >>] = StrToIntIdent(IdentText(p)) % (2 * (IntMax + 1))
       ELSE Same(c, d, k)
  /\ \A k \in TextKeys :
       IF Gives(p, k)
       THEN << k >> \in DOMAIN d.identifiers /\ Becomes(k, p.value, d.identifiers[<< k >>])
       ELSE Same(c, d, k)
  /\ d.has_identifiers <=> c.has_identifiers \/ \E k \in IdentKeys : Gives(p, k)
  /\ d.urls = IF GivesUrl(p) THEN Append(c.urls, << p.key, p.value >>) ELSE c.urls

LEMMA ShowsAppend ==
  ASSUME NEW params \in Seq(Parameters), NEW p \in Parameters, NEW c, NEW d,
         Shows(c, params), Effect(c, d, p)
  PROVE  Shows(d, Append(params, p))
  <1> DEFINE a == Append(params, p)
             N == Len(params)
  <1>1. /\ N \in Nat
        /\ \A n \in 1 .. N : a[n] = params[n]
        /\ a[N + 1] = p
    BY AppendElements
  <1>2. d.title = Title(a)
    BY TitleAppend DEF Shows, Effect
  <1>3. ASSUME NEW k \in NumericKeys
        PROVE  /\ << k >> \in DOMAIN d.identifiers <=> Readable(a, k) # {}
               /\ Readable(a, k) # {} =>
                    d.identifiers[<< k >>]
                      = StrToIntIdent(IdentText(a[Max(Readable(a, k))])) % (2 * (IntMax + 1))
    <2> DEFINE K == Readable(params, k)
               more == Gives(p, k) /\ IsIdent(IdentText(p))
    <2>1. K \in SUBSET (1 .. N) /\ Readable(a, k) = K \cup (IF more THEN {N + 1} ELSE {})
      BY ReadableAppend
    <2>2. /\ << k >> \in DOMAIN c.identifiers <=> K # {}
          /\ K # {} => c.identifiers[<< k >>]
                         = StrToIntIdent(IdentText(params[Max(K)])) % (2 * (IntMax + 1))
      BY DEF Shows
    <2>3. IF more
          THEN /\ << k >> \in DOMAIN d.identifiers
               /\ d.identifiers[<< k >>] = StrToIntIdent(IdentText(p)) % (2 * (IntMax + 1))
          ELSE Same(c, d, k)
      BY DEF Effect
    <2> HIDE DEF a, N, K, more
    <2>4. (K # {} => Max(K) \in K) /\ Max(K \cup {N + 1}) = N + 1
      BY <1>1, <2>1, GreatestProperties
    <2>5. ASSUME more PROVE Readable(a, k) # {} /\ a[Max(Readable(a, k))] = p
      BY <1>1, <2>1, <2>4, <2>5
    <2>6. ASSUME ~ more
          PROVE  Readable(a, k) = K /\ (K # {} => a[Max(K)] = params[Max(K)])
      <3>1. Readable(a, k) = K
        BY <2>1, <2>6
      <3>2. K # {} => Max(K) \in 1 .. N
        BY <2>1, <2>4
      <3> QED
        BY <1>1, <3>1, <3>2
    <2>7. more \in BOOLEAN
      BY DEF more
    <2> QED
      BY <2>2, <2>3, <2>5, <2>6, <2>7 DEF Same
  <1>4. ASSUME NEW k \in TextKeys
        PROVE  /\ << k >> \in DOMAIN d.identifiers <=> Giving(a, k) # {}
               /\ Giving(a, k) # {} =>
                    Becomes(k, a[Max(Giving(a, k))].value, d.identifiers[<< k >>])
    <2> DEFINE K == Giving(params, k)
    <2>1. K \in SUBSET (1 .. N) /\ Giving(a, k) = K \cup (IF Gives(p, k) THEN {N + 1} ELSE {})
      BY GivingAppend
    <2>2. /\ << k >> \in DOMAIN c.identifiers <=> K # {}
          /\ K # {} => Becomes(k, params[Max(K)].value, c.identifiers[<< k >>])
      BY DEF Shows
    <2>3. IF Gives(p, k)
          THEN << k >> \in DOMAIN d.identifiers /\ Becomes(k, p.value, d.identifiers[<< k >>])
          ELSE Same(c, d, k)
      BY DEF Effect
    <2> HIDE DEF a, N, K
    <2>4. (K # {} => Max(K) \in K) /\ Max(K \cup {N + 1}) = N + 1
      BY <1>1, <2>1, GreatestProperties
    <2>5. CASE Gives(p, k)
      <3>1. Giving(a, k) # {} /\ a[Max(Giving(a, k))] = p
        BY <1>1, <2>1, <2>4, <2>5
      <3> QED
        BY <2>3, <2>5, <3>1
    <2>6. CASE ~ Gives(p, k)
      <3>1. Giving(a, k) = K
        BY <2>1, <2>6
      <3>2. K # {} => a[Max(K)] = params[Max(K)]
        <4>1. K # {} => Max(K) \in 1 .. N
          BY <2>1, <2>4
        <4> QED
          BY <1>1, <4>1
      <3> QED
        BY <2>2, <2>3, <2>6, <3>1, <3>2 DEF Same
    <2> QED
      BY <2>5, <2>6
  <1>5. DOMAIN d.identifiers \subseteq { << k >> : k \in IdentKeys }
    BY DEF Shows, Effect
  <1>6. d.has_identifiers <=> \E k \in IdentKeys : Giving(a, k) # {}
    <2>1. \A k : Giving(a, k) # {} <=> Giving(params, k) # {} \/ Gives(p, k)
      BY GivingAppend
    <2>2. c.has_identifiers <=> \E k \in IdentKeys : Giving(params, k) # {}
      BY DEF Shows
    <2>3. d.has_identifiers <=> c.has_identifiers \/ \E k \in IdentKeys : Gives(p, k)
      BY DEF Effect
    <2> HIDE DEF a
    <2> QED
      BY <2>1, <2>2, <2>3
  <1>7. d.urls = UrlsOf(a)
    BY UrlsAppend DEF Shows, Effect
  <1> HIDE DEF a
  <1>8. Shows(d, a)
    BY <1>2, <1>3, <1>4, <1>5, <1>6, <1>7 DEF Shows
  <1> QED
    BY <1>8 DEF a

\* A parameter that gives a value for one key gives none for another.
LEMMA GivesOne ==
  ASSUME NEW keys, Given(keys)
  PROVE  \E key \in keys : /\ Head(todo).key = << key >>
                           /\ \A k : Gives(Head(todo), k) <=> k = key
  <1>1. PICK key \in keys : Head(todo).key = << key >>
    BY DEF Given
  <1>2. Head(todo).has_value
    BY DEF Given
  <1>3. \A k : << key >> = << k >> => k = key
    OBVIOUS
  <1> QED
    BY <1>1, <1>2, <1>3 DEF Gives

LEMMA GivesNone ==
  ASSUME ~ Given(KnownKeys), pc = "field", todo # << >>
  PROVE  \A k \in KnownKeys : ~ Gives(Head(todo), k)
  BY DEF Given, Gives

\* The parts of the citation that a step leaves or changes.
LEMMA CitationParts ==
  ASSUME CitationTyped
  PROVE  /\ \A v : LET d == [citation EXCEPT !.title = v] IN
              /\ d.title = v /\ d.has_identifiers = citation.has_identifiers
              /\ d.identifiers = citation.identifiers /\ d.urls = citation.urls
         /\ LET d == [citation EXCEPT !.has_identifiers = TRUE] IN
              /\ d.title = citation.title /\ d.has_identifiers
              /\ d.identifiers = citation.identifiers /\ d.urls = citation.urls
         /\ \A f :
              LET d == [citation EXCEPT !.has_identifiers = TRUE, !.identifiers = f] IN
              /\ d.title = citation.title /\ d.has_identifiers
              /\ d.identifiers = f /\ d.urls = citation.urls
         /\ \A u : LET d == [citation EXCEPT !.urls = u] IN
              /\ d.title = citation.title /\ d.has_identifiers = citation.has_identifiers
              /\ d.identifiers = citation.identifiers /\ d.urls = u
  BY DEF CitationTyped

LEMMA SetProperties ==
  ASSUME NEW f, NEW x, NEW v, NEW y
  PROVE  /\ y \in DOMAIN Set(f, x, v) <=> y \in DOMAIN f \/ y = x
         /\ Set(f, x, v)[x] = v
         /\ y \in DOMAIN f /\ y # x => Set(f, x, v)[y] = f[y]
  BY DEF Set

\* Set adds at most one identifier, of a key that is known.
LEMMA SetDomain ==
  ASSUME NEW f, NEW k \in IdentKeys, NEW v
  PROVE  DOMAIN Set(f, << k >>, v) \subseteq DOMAIN f \cup { << j >> : j \in IdentKeys }
  BY DEF Set

LEMMA KeyClasses ==
  /\ "title" \notin IdentKeys /\ "url" \notin IdentKeys /\ "archive-url" \notin IdentKeys
  /\ IdentKeys = NumericKeys \cup TextKeys /\ NumericKeys \cap TextKeys = {}
  /\ NumericKeys = {"pmid", "pmc"} /\ TextKeys = {"doi", "isbn", "issn"}
  BY DEF IdentKeys, NumericKeys, TextKeys

\* A text that begins with a word is that word and the rest.
LEMMA PrefixTail ==
  ASSUME NEW w \in Strings, NEW word, IsPrefix(<< word >>, w)
  PROVE  w = << word >> \o Tail(w)
  <1>0. w \in Seq(Words) /\ Len(w) \in Nat
    BY DEF Strings
  <1>1. Len(<< word >>) = 1
    OBVIOUS
  <1>2. 1 <= Len(w) /\ SubSeq(<< word >>, 1, 1) = SubSeq(w, 1, 1)
    BY <1>1 DEF IsPrefix
  <1>3. w[1] = word
    <2>1. SubSeq(<< word >>, 1, 1)[1] = word
      OBVIOUS
    <2>2. SubSeq(w, 1, 1)[1] = w[1]
      BY <1>0, <1>2
    <2> QED
      BY <1>2, <2>1, <2>2
  <1>4. w # << >> /\ 1 \in 1 .. Len(w) /\ Len(w) \in 1 .. Len(w)
    BY <1>0, <1>2
  <1>5. SubSeq(w, 1, Len(w)) = << w[1] >> \o SubSeq(w, 1 + 1, Len(w))
    BY <1>0, <1>4, SubSeqRecursiveFirst
  <1>6. SubSeq(w, 1, Len(w)) = w /\ Tail(w) = SubSeq(w, 2, Len(w))
    BY <1>0, <1>4, SubSeqFull, TailIsSubSeq
  <1> QED
    BY <1>3, <1>5, <1>6

\* ParseDoi, and the identifiers that are taken as they are.
LEMMA TextBecomes ==
  ASSUME NEW key \in TextKeys, NEW w \in Strings
  PROVE  Becomes(key, w, IF << key >> = << "doi" >> THEN Without("https://doi.org/", w) ELSE w)
  <1>1. << key >> = << "doi" >> <=> key = "doi"
    OBVIOUS
  <1>2. CASE key = "doi" /\ IsPrefix(<< Resolver >>, w)
    <2>1. w = << Resolver >> \o Tail(w)
      BY <1>2, PrefixTail
    <2> QED
      BY <1>1, <1>2, <2>1 DEF Becomes, Without, Resolver
  <1>3. CASE ~ (key = "doi" /\ IsPrefix(<< Resolver >>, w))
    BY <1>1, <1>3 DEF Becomes, Without, Resolver
  <1> QED
    BY <1>2, <1>3

LEMMA FieldEffect ==
  ASSUME TypeInv, FieldStep
  PROVE  Effect(citation, citation', Head(todo))
  <1> DEFINE p == Head(todo)
             ids == citation'.identifiers
             was == citation.identifiers
  <1>1. CitationTyped
    BY DEF TypeInv
  <1>2. CASE SetTitle
    <2>1. \A k : Gives(p, k) <=> k = "title"
      BY <1>2, GivesOne DEF SetTitle
    <2>2. /\ citation'.title = p.value /\ ids = was /\ citation'.urls = citation.urls
          /\ citation'.has_identifiers = citation.has_identifiers
      BY <1>1, <1>2, CitationParts DEF SetTitle
    <2> HIDE DEF p
    <2>3. \A k \in IdentKeys : ~ Gives(p, k)
      BY <2>1, KeyClasses
    <2>4. ~ GivesUrl(p)
      BY <2>1 DEF GivesUrl
    <2>5. Effect(citation, citation', p)
      BY <2>1, <2>2, <2>3, <2>4, KeyClasses DEF Effect, Same
    <2> QED
      BY <2>5 DEF p
  <1>3. CASE SetTextIdent
    <2>1. PICK key \in TextKeys : p.key = << key >> /\ \A k : Gives(p, k) <=> k = key
      BY <1>3, GivesOne DEF SetTextIdent, TextKeys
    <2> DEFINE v == IF p.key = << "doi" >> THEN Without("https://doi.org/", p.value) ELSE p.value
    <2>2. citation' = [citation EXCEPT !.has_identifiers = TRUE,
                                       !.identifiers = Set(was, p.key, v)]
      BY <1>3 DEF SetTextIdent
    <2>3. Becomes(key, p.value, v)
      <3>1. p.value \in Strings
        BY <1>3, HeadType DEF SetTextIdent, Given
      <3> DEFINE x == p.value
      <3>2. v = IF << key >> = << "doi" >> THEN Without("https://doi.org/", x) ELSE x
        BY <2>1
      <3> HIDE DEF v, x
      <3>3. Becomes(key, x, v)
        BY <3>1, <3>2, TextBecomes DEF x
      <3> QED
        BY <3>3 DEF x
    <2> HIDE DEF v
    <2>4. /\ citation'.title = citation.title /\ citation'.urls = citation.urls
          /\ citation'.has_identifiers /\ ids = Set(was, << key >>, v)
      BY <1>1, <2>1, <2>2, CitationParts
    <2>5. \A k : << k >> = << key >> <=> k = key
      OBVIOUS
    <2>6. /\ \A k : /\ << k >> \in DOMAIN ids <=> << k >> \in DOMAIN was \/ k = key
                    /\ << k >> \in DOMAIN was /\ k # key => ids[<< k >>] = was[<< k >>]
          /\ ids[<< key >>] = v
      BY <2>4, <2>5, SetProperties
    <2>7. DOMAIN ids \subseteq DOMAIN was \cup { << k >> : k \in IdentKeys }
      BY <2>4, SetDomain, KeyClasses
    <2> HIDE DEF p, ids, was
    <2>8. \A k : k # key => Same(citation, citation', k)
      BY <2>6 DEF Same, ids, was
    <2>9. ~ Gives(p, "title") /\ ~ GivesUrl(p) /\ \A k \in NumericKeys : k # key
      BY <2>1, KeyClasses DEF GivesUrl
    <2>10. key \in IdentKeys
      BY KeyClasses
    <2>11. \A k \in TextKeys :
             IF Gives(p, k)
             THEN << k >> \in DOMAIN ids /\ Becomes(k, p.value, ids[<< k >>])
             ELSE Same(citation, citation', k)
      BY <2>1, <2>3, <2>6, <2>8
    <2>12. Effect(citation, citation', p)
      BY <2>1, <2>4, <2>7, <2>8, <2>9, <2>10, <2>11 DEF Effect, ids, was
    <2> QED
      BY <2>12 DEF p
  <1>4. CASE SetNumericIdent
    <2>1. PICK key \in NumericKeys : p.key = << key >> /\ \A k : Gives(p, k) <=> k = key
      BY <1>4, GivesOne DEF SetNumericIdent, NumericKeys
    <2> DEFINE v == StrToIntIdent(IdentText(p)) % (2 * (IntMax + 1))
    <2>2. /\ citation' = [citation EXCEPT !.has_identifiers = TRUE,
                                          !.identifiers = Set(was, p.key, v)]
          /\ IsIdent(IdentText(p))
      BY <1>4 DEF SetNumericIdent
    <2> HIDE DEF v
    <2>3. /\ citation'.title = citation.title /\ citation'.urls = citation.urls
          /\ citation'.has_identifiers /\ ids = Set(was, << key >>, v)
      BY <1>1, <2>1, <2>2, CitationParts
    <2>4. \A k : << k >> = << key >> <=> k = key
      OBVIOUS
    <2>5. /\ \A k : /\ << k >> \in DOMAIN ids <=> << k >> \in DOMAIN was \/ k = key
                    /\ << k >> \in DOMAIN was /\ k # key => ids[<< k >>] = was[<< k >>]
          /\ ids[<< key >>] = v
      BY <2>3, <2>4, SetProperties
    <2>6. DOMAIN ids \subseteq DOMAIN was \cup { << k >> : k \in IdentKeys }
      BY <2>3, SetDomain, KeyClasses
    <2> HIDE DEF p, ids, was
    <2>7. \A k : k # key => Same(citation, citation', k)
      BY <2>5 DEF Same, ids, was
    <2>8. \A k \in NumericKeys :
            IF Gives(p, k) /\ IsIdent(IdentText(p))
            THEN << k >> \in DOMAIN ids /\ ids[<< k >>] = v
            ELSE Same(citation, citation', k)
      BY <2>1, <2>2, <2>5, <2>7
    <2>9. ~ Gives(p, "title") /\ ~ GivesUrl(p) /\ \A k \in TextKeys : k # key
      BY <2>1, KeyClasses DEF GivesUrl
    <2>10. key \in IdentKeys
      BY KeyClasses
    <2>11. Effect(citation, citation', p)
      BY <2>1, <2>3, <2>6, <2>7, <2>8, <2>9, <2>10 DEF Effect, ids, was, v
    <2> QED
      BY <2>11 DEF p
  <1>5. CASE IgnoreIdent
    <2>1. PICK key \in NumericKeys : \A k : Gives(p, k) <=> k = key
      BY <1>5, GivesOne DEF IgnoreIdent, NumericKeys
    <2>2. /\ citation'.title = citation.title /\ ids = was /\ citation'.urls = citation.urls
          /\ citation'.has_identifiers
      BY <1>1, <1>5, CitationParts DEF IgnoreIdent
    <2>3. ~ IsIdent(IdentText(p))
      BY <1>5 DEF IgnoreIdent
    <2> HIDE DEF p
    <2>4. ~ Gives(p, "title") /\ ~ GivesUrl(p) /\ \A k \in TextKeys : ~ Gives(p, k)
      BY <2>1, KeyClasses DEF GivesUrl
    <2>5. \E k \in IdentKeys : Gives(p, k)
      BY <2>1, KeyClasses
    <2>6. Effect(citation, citation', p)
      BY <2>2, <2>3, <2>4, <2>5 DEF Effect, Same
    <2> QED
      BY <2>6 DEF p
  <1>6. CASE AddUrl
    <2>1. PICK key \in {"url", "archive-url"} : \A k : Gives(p, k) <=> k = key
      BY <1>6, GivesOne DEF AddUrl
    <2> DEFINE u == Append(citation.urls, << p.key, p.value >>)
    <2>2. citation' = [citation EXCEPT !.urls = u]
      BY <1>6 DEF AddUrl
    <2> HIDE DEF u
    <2>3. /\ citation'.title = citation.title /\ ids = was /\ citation'.urls = u
          /\ citation'.has_identifiers = citation.has_identifiers
      BY <1>1, <2>2, CitationParts
    <2> HIDE DEF p
    <2>4. ~ Gives(p, "title") /\ GivesUrl(p) /\ \A k \in IdentKeys : ~ Gives(p, k)
      BY <2>1, KeyClasses DEF GivesUrl
    <2>5. Effect(citation, citation', p)
      BY <2>3, <2>4, KeyClasses DEF Effect, Same, u
    <2> QED
      BY <2>5 DEF p
  <1>7. CASE SkipParameter
    <2>1. \A k \in KnownKeys : ~ Gives(p, k)
      BY <1>7, GivesNone DEF SkipParameter
    <2>2. citation' = citation
      BY <1>7 DEF SkipParameter
    <2> HIDE DEF p
    <2>3. ~ Gives(p, "title") /\ ~ GivesUrl(p) /\ \A k \in IdentKeys : ~ Gives(p, k)
      BY <2>1, KeyClasses DEF KnownKeys, GivesUrl
    <2>4. Effect(citation, citation', p)
      BY <2>2, <2>3, KeyClasses DEF Effect, Same
    <2> QED
      BY <2>4 DEF p
  <1> QED
    BY <1>2, <1>3, <1>4, <1>5, <1>6, <1>7 DEF FieldStep

-----------------------------------------------------------------------------
(* The citations made of the first templates of r. *)

AcceptedOf(r, f, m) == { n \in 1 .. m : f => r[n].name \in Types }
TitledOf(r, f, m, t) == { n \in AcceptedOf(r, f, m) : Title(r[n].params) = t }

Keeps(cs, r, f, m) ==
  /\ DOMAIN cs = { Title(r[n].params) : n \in AcceptedOf(r, f, m) }
  /\ \A t \in DOMAIN cs : Shows(cs[t], r[Min(TitledOf(r, f, m, t))].params)

AllReadable(params) == \A k \in {"pmid", "pmc"} : Readable(params, k) = Giving(params, k)
ReadableOf(r, f, m) == \A n \in AcceptedOf(r, f, m) : AllReadable(r[n].params)

\* Before the first template, after one that is filtered out, and after another.
LEMMA AcceptedNone ==
  ASSUME NEW r, NEW f
  PROVE  AcceptedOf(r, f, 0) = {}
  BY DEF AcceptedOf

LEMMA AcceptedFilterOut ==
  ASSUME NEW r, NEW f, NEW m \in Nat, ~ (f => r[m + 1].name \in Types)
  PROVE  AcceptedOf(r, f, m + 1) = AcceptedOf(r, f, m)
  <1>1. 1 .. m + 1 = (1 .. m) \cup {m + 1}
    OBVIOUS
  <1> QED
    BY <1>1 DEF AcceptedOf

LEMMA AcceptedAnother ==
  ASSUME NEW r, NEW f, NEW m \in Nat, f => r[m + 1].name \in Types
  PROVE  AcceptedOf(r, f, m + 1) = AcceptedOf(r, f, m) \cup {m + 1}
  <1>1. 1 .. m + 1 = (1 .. m) \cup {m + 1}
    OBVIOUS
  <1> QED
    BY <1>1 DEF AcceptedOf

LEMMA MinUnion ==
  ASSUME NEW N \in Nat, NEW K \in SUBSET (1 .. N)
  PROVE  /\ K # {} => Min(K \cup {N + 1}) = Min(K)
         /\ Min({N + 1}) = N + 1
  <1>1. ASSUME K # {} PROVE Min(K \cup {N + 1}) = Min(K)
    <2> DEFINE m == Min(K)
               L == K \cup {N + 1}
    <2>1. K \in SUBSET Nat /\ L \in SUBSET Nat /\ L # {}
      OBVIOUS
    <2>2. m \in K /\ \A k \in K : m <= k
      BY <1>1, <2>1, LeastProperties
    <2>3. Min(L) \in L /\ \A k \in L : Min(L) <= k
      BY <2>1, LeastProperties
    <2>4. K \subseteq L /\ N + 1 \in L /\ \A k \in L : k \in K \/ k = N + 1
      OBVIOUS
    <2>5. \A k \in K : k \in Nat /\ k <= N
      OBVIOUS
    <2> HIDE DEF m, L
    <2>6. Min(L) <= m /\ m \in Nat /\ m <= N
      BY <2>2, <2>3, <2>4, <2>5
    <2>9. Min(L) # N + 1
      BY <2>6
    <2>7. Min(L) \in K
      BY <2>3, <2>4, <2>9
    <2>8. m <= Min(L) /\ Min(L) \in Nat
      BY <2>2, <2>5, <2>7
    <2> QED
      BY <2>6, <2>8 DEF m, L
  <1>2. Min({N + 1}) = N + 1
    BY DEF Min
  <1> QED
    BY <1>1, <1>2

\* The map with the citation c made of the template m + 1, unless it has its title.
LEMMA KeepsAnother ==
  ASSUME NEW cs, NEW r, NEW f, NEW m \in Nat, NEW c, NEW ds,
         Keeps(cs, r, f, m), f => r[m + 1].name \in Types,
         Shows(c, r[m + 1].params),
         ds = IF c.title \in DOMAIN cs THEN cs ELSE Set(cs, c.title, c)
  PROVE  Keeps(ds, r, f, m + 1)
  <1> DEFINE A == AcceptedOf(r, f, m)
             B == AcceptedOf(r, f, m + 1)
             T(n) == Title(r[n].params)
             u == T(m + 1)
  <1>1. B = A \cup {m + 1} /\ A \in SUBSET (1 .. m)
    BY AcceptedAnother DEF AcceptedOf
  <1>2. c.title = u
    BY DEF Shows
  <1>3. DOMAIN cs = { T(n) : n \in A }
    BY DEF Keeps
  <1>4. DOMAIN ds = DOMAIN cs \cup {u}
    BY <1>2 DEF Set
  <1>5. DOMAIN ds = { T(n) : n \in B }
    <2> HIDE DEF A, B, T
    <2>1. { T(n) : n \in B } = { T(n) : n \in A } \cup {T(m + 1)}
      BY <1>1
    <2> QED
      BY <1>3, <1>4, <2>1
  <1>6. ASSUME NEW t \in DOMAIN ds PROVE Shows(ds[t], r[Min(TitledOf(r, f, m + 1, t))].params)
    <2> DEFINE K == TitledOf(r, f, m, t)
               L == TitledOf(r, f, m + 1, t)
    <2>1. K \in SUBSET (1 .. m)
      BY <1>1 DEF TitledOf
    <2>2. L = K \cup (IF t = u THEN {m + 1} ELSE {})
      <3> HIDE DEF A, B
      <3>1. \A n : n \in L <=> n \in K \/ (n = m + 1 /\ t = u)
        BY <1>1 DEF TitledOf, A, B
      <3> HIDE DEF K, L, u
      <3> QED
        BY <3>1
    <2>3. CASE t \in DOMAIN cs
      <3>1. K # {}
        BY <1>3, <2>3 DEF TitledOf
      <3>2. Min(L) = Min(K)
        <4> HIDE DEF K, L, u
        <4> QED
          BY <2>1, <2>2, <3>1, MinUnion
      <3>3. ds[t] = cs[t]
        BY <1>2, <2>3 DEF Set
      <3>4. Shows(cs[t], r[Min(K)].params)
        BY <2>3 DEF Keeps
      <3> QED
        BY <3>2, <3>3, <3>4
    <2>4. CASE t \notin DOMAIN cs
      <3>1. K = {}
        BY <1>3, <2>4 DEF TitledOf
      <3>2. t = u
        BY <1>4, <2>4
      <3>3. Min(L) = m + 1
        <4> HIDE DEF K, L, u
        <4> QED
          BY <2>2, <3>1, <3>2, MinUnion
      <3>4. ds[t] = c
        BY <1>2, <2>4, <3>2 DEF Set
      <3> QED
        BY <3>3, <3>4
    <2> QED
      BY <2>3, <2>4
  <1> QED
    BY <1>5, <1>6 DEF Keeps

\* Nothing is given by no parameters.
LEMMA ShowsNone == Shows(NoCitation, << >>)
  <1>1. \A k : Giving(<< >>, k) = {} /\ Readable(<< >>, k) = {}
    BY DEF Giving, Readable
  <1>2. Title(<< >>) = << >>
    BY <1>1 DEF Title
  <1>3. UrlsOf(<< >>) = << >>
    BY <1>1, SelectedNone DEF UrlsOf
  <1>4. /\ NoCitation.title = << >> /\ DOMAIN NoCitation.identifiers = {}
        /\ NoCitation.has_identifiers = FALSE /\ NoCitation.urls = << >>
    BY DEF NoCitation
  <1> HIDE DEF NoCitation
  <1> QED
    BY <1>1, <1>2, <1>3, <1>4 DEF Shows

-----------------------------------------------------------------------------
(* The citations, as they are made. *)

\* What a citation is being made of: the parameters done, of those of a template.
Making(done, params) ==
  /\ done \in Seq(Parameters) /\ params = done \o todo
  /\ Shows(citation, done)
  /\ ignore_invalid_ident \/ AllReadable(done)

\* An identifier of the template n of r cannot be read.
Unreadable(r, n) == ~ AllReadable(r[n].params)

BuildInv ==
  /\ pc \in {"skip", "template", "param", "close"} => built = 0 /\ DOMAIN citations = {}
  /\ pc \in {"build", "field", "returned"} =>
       /\ Keeps(citations, results, filtered, built)
       /\ ignore_invalid_ident \/ ReadableOf(results, filtered, built)
  /\ pc = "field" => \E done : Making(done, results[built + 1].params)
  /\ pc = "returned" => built = Len(results)
  /\ pc = "threw" =>
       /\ ~ ignore_invalid_ident
       /\ \E n \in AcceptedOf(results, filtered, Len(results)) : Unreadable(results, n)

LEMMA BuildInit ==
  ASSUME Init PROVE BuildInv
  BY DEF Init, BuildInv

LEMMA BuildWalk ==
  ASSUME BuildInv,
         SkipToTemplate \/ TemplateType \/ Parameter \/ CloseTemplate \/ StopRepetition
  PROVE  BuildInv'
  <1>1. /\ pc \in {"skip", "template", "param", "close"}
        /\ built' = built /\ citations' = citations
        /\ pc' \in {"skip", "template", "param", "close", "build"}
    BY DEF SkipToTemplate, TemplateType, Parameter, CloseTemplate, StopRepetition, build
  <1>2. built = 0 /\ DOMAIN citations = {}
    BY <1>1 DEF BuildInv
  <1>3. \A r, f : Keeps(citations, r, f, 0) /\ ReadableOf(r, f, 0)
    BY <1>2, AcceptedNone DEF Keeps, ReadableOf
  <1>4. Keeps(citations, results, filtered, built)' /\ ReadableOf(results, filtered, built)'
    BY <1>1, <1>2, <1>3
  <1> QED
    BY <1>1, <1>2, <1>4 DEF BuildInv

LEMMA BuildFilterOut ==
  ASSUME TypeInv, BuildInv, FilterOut
  PROVE  BuildInv'
  <1>1. /\ pc = "build" /\ pc' = "build" /\ built' = built + 1
        /\ results' = results /\ filtered' = filtered /\ citations' = citations
        /\ ignore_invalid_ident' = ignore_invalid_ident
        /\ ~ (filtered => results[built + 1].name \in Types)
    BY DEF FilterOut, input, parse, Accepts
  <1>2. built \in Nat
    BY DEF TypeInv, TypeOK
  <1>3. AcceptedOf(results, filtered, built + 1) = AcceptedOf(results, filtered, built)
    BY <1>1, <1>2, AcceptedFilterOut
  <1>4. /\ Keeps(citations, results, filtered, built)
        /\ ignore_invalid_ident \/ ReadableOf(results, filtered, built)
    BY <1>1 DEF BuildInv
  <1>5. /\ Keeps(citations, results, filtered, built + 1)
        /\ ignore_invalid_ident \/ ReadableOf(results, filtered, built + 1)
    BY <1>3, <1>4 DEF Keeps, ReadableOf, TitledOf
  <1>6. /\ Keeps(citations, results, filtered, built)'
        /\ (ignore_invalid_ident \/ ReadableOf(results, filtered, built))'
    BY <1>1, <1>5
  <1> QED
    BY <1>1, <1>6 DEF BuildInv

\* All there is to read in no parameters is read.
LEMMA ReadableNone == AllReadable(<< >>)
  BY DEF AllReadable, Readable, Giving

LEMMA BuildBegin ==
  ASSUME TypeInv, BuildInv, BuildCitation
  PROVE  BuildInv'
  <1>1. /\ pc = "build" /\ pc' = "field" /\ built' = built
        /\ results' = results /\ filtered' = filtered /\ citations' = citations
        /\ ignore_invalid_ident' = ignore_invalid_ident
        /\ todo' = results[built + 1].params /\ citation' = NoCitation
    BY DEF BuildCitation, NewCitation, input, parse
  <1>2. results[built + 1].params \in Seq(Parameters)
    <2>1. /\ results \in Seq(Entries) /\ built \in 0 .. Len(results) /\ built < Len(results)
          /\ Len(results) \in Nat
      BY DEF TypeInv, TypeOK, BuildCitation
    <2>2. built + 1 \in 1 .. Len(results)
      BY <2>1
    <2>3. results[built + 1] \in Entries
      BY <2>1, <2>2
    <2> QED
      BY <2>3 DEF Entries
  <1>3. /\ Keeps(citations, results, filtered, built)
        /\ ignore_invalid_ident \/ ReadableOf(results, filtered, built)
    BY <1>1 DEF BuildInv
  <1>4. Making(<< >>, results[built + 1].params)'
    <2> DEFINE w == results[built + 1].params
    <2>1. << >> \in Seq(Parameters) /\ w = << >> \o w
      BY <1>2
    <2> HIDE DEF w
    <2>2. w' = w /\ todo' = w
      BY <1>1 DEF w
    <2>3. Making(<< >>, w)'
      BY <1>1, <2>1, <2>2, ShowsNone, ReadableNone DEF Making
    <2> QED
      BY <2>3 DEF w
  <1>5. /\ Keeps(citations, results, filtered, built)'
        /\ (ignore_invalid_ident \/ ReadableOf(results, filtered, built))'
    BY <1>1, <1>3
  <1>6. (\E done : Making(done, results[built + 1].params))'
    BY <1>4
  <1> QED
    BY <1>1, <1>5, <1>6 DEF BuildInv

LEMMA ReadableMore ==
  ASSUME NEW done \in Seq(Parameters), NEW p \in Parameters, AllReadable(done),
         \A k \in {"pmid", "pmc"} : Gives(p, k) => IsIdent(IdentText(p))
  PROVE  AllReadable(Append(done, p))
  <1>1. ASSUME NEW k \in {"pmid", "pmc"}
        PROVE  Readable(Append(done, p), k) = Giving(Append(done, p), k)
    <2>1. Readable(done, k) = Giving(done, k)
      BY DEF AllReadable
    <2>2. Giving(Append(done, p), k)
            = Giving(done, k) \cup (IF Gives(p, k) THEN {Len(done) + 1} ELSE {})
      BY GivingAppend
    <2>3. Readable(Append(done, p), k)
            = Readable(done, k)
                \cup (IF Gives(p, k) /\ IsIdent(IdentText(p)) THEN {Len(done) + 1} ELSE {})
      BY ReadableAppend
    <2>4. Gives(p, k) => IsIdent(IdentText(p))
      OBVIOUS
    <2> QED
      BY <2>1, <2>2, <2>3, <2>4
  <1> QED
    BY <1>1 DEF AllReadable

\* A step that is no ThrowIdent has read the identifier, or need not.
LEMMA FieldReads ==
  ASSUME FieldStep
  PROVE  \/ ignore_invalid_ident
         \/ \A k \in {"pmid", "pmc"} : Gives(Head(todo), k) => IsIdent(IdentText(Head(todo)))
  <1>1. CASE SetTitle
    BY <1>1, GivesOne DEF SetTitle
  <1>2. CASE SetTextIdent
    BY <1>2, GivesOne DEF SetTextIdent
  <1>3. CASE SetNumericIdent
    BY <1>3 DEF SetNumericIdent
  <1>4. CASE IgnoreIdent
    BY <1>4 DEF IgnoreIdent
  <1>5. CASE AddUrl
    BY <1>5, GivesOne DEF AddUrl
  <1>6. CASE SkipParameter
    BY <1>6, GivesNone DEF SkipParameter, KnownKeys
  <1> QED
    BY <1>1, <1>2, <1>3, <1>4, <1>5, <1>6 DEF FieldStep

\* The next parameter moves from those to come to those that have been looked at.
LEMMA MoveOne ==
  ASSUME NEW S, NEW s \in Seq(S), NEW t \in Seq(S), t # << >>
  PROVE  Append(s, Head(t)) \o Tail(t) = s \o t
  OBVIOUS

LEMMA BuildField ==
  ASSUME TypeInv, BuildInv, FieldStep
  PROVE  BuildInv'
  <1>1. /\ pc = "field" /\ pc' = pc /\ built' = built /\ todo # << >> /\ todo' = Tail(todo)
        /\ results' = results /\ filtered' = filtered /\ citations' = citations
        /\ ignore_invalid_ident' = ignore_invalid_ident
    BY DEF FieldStep, SetTitle, SetTextIdent, SetNumericIdent, IgnoreIdent, AddUrl,
           SkipParameter, Given, input, parse
  <1> DEFINE w == results[built + 1].params
             p == Head(todo)
  <1>2. PICK done : Making(done, w)
    BY <1>1 DEF BuildInv
  <1>3. todo \in Seq(Parameters) /\ p \in Parameters
    BY <1>1, HeadType DEF TypeInv, TypeOK
  <1>4. done \in Seq(Parameters) /\ w = done \o todo /\ Shows(citation, done)
    BY <1>2 DEF Making
  <1>5. w = Append(done, p) \o Tail(todo) /\ Append(done, p) \in Seq(Parameters)
    BY <1>1, <1>3, <1>4, MoveOne, AppendProperties
  <1>6. Shows(citation', Append(done, p))
    BY <1>3, <1>4, FieldEffect, ShowsAppend
  <1>7. ignore_invalid_ident \/ AllReadable(Append(done, p))
    BY <1>2, <1>3, <1>4, FieldReads, ReadableMore DEF Making
  <1>8. PICK a : a = Append(done, p)
    OBVIOUS
  <1>9. Making(a, w)'
    <2>1. w' = w
      BY <1>1
    <2> HIDE DEF w, p
    <2> QED
      BY <1>1, <1>5, <1>6, <1>7, <1>8, <2>1 DEF Making
  <1>10. (\E d : Making(d, results[built + 1].params))'
    BY <1>9
  <1>11. /\ Keeps(citations, results, filtered, built)
         /\ ignore_invalid_ident \/ ReadableOf(results, filtered, built)
    BY <1>1 DEF BuildInv
  <1>12. /\ Keeps(citations, results, filtered, built)'
         /\ (ignore_invalid_ident \/ ReadableOf(results, filtered, built))'
    BY <1>1, <1>11
  <1> QED
    BY <1>1, <1>10, <1>12 DEF BuildInv

\* Where the next parameter is in its template.
LEMMA NextParameter ==
  ASSUME NEW S, NEW s \in Seq(S), NEW t \in Seq(S), t # << >>
  PROVE  Len(s) + 1 \in DOMAIN (s \o t) /\ (s \o t)[Len(s) + 1] = Head(t)
  OBVIOUS

LEMMA BuildThrow ==
  ASSUME TypeInv, BuildInv, ThrowIdent
  PROVE  BuildInv'
  <1>1. /\ pc = "field" /\ pc' = "threw" /\ built' = built /\ todo # << >>
        /\ results' = results /\ filtered' = filtered /\ ~ ignore_invalid_ident
        /\ ignore_invalid_ident' = ignore_invalid_ident
        /\ ~ IsIdent(IdentText(Head(todo)))
    BY DEF ThrowIdent, Given, input, parse, build
  <1> DEFINE w == results[built + 1].params
             p == Head(todo)
  <1>2. PICK done : Making(done, w)
    BY <1>1 DEF BuildInv
  <1>3. todo \in Seq(Parameters)
    BY DEF TypeInv, TypeOK
  <1>4. done \in Seq(Parameters) /\ w = done \o todo
    BY <1>2 DEF Making
  <1>5. PICK key \in {"pmid", "pmc"} : p.key = << key >>
    BY GivesOne DEF ThrowIdent
  <1>6. p.has_value
    BY DEF ThrowIdent, Given
  <1>7. Len(done) + 1 \in DOMAIN w /\ w[Len(done) + 1] = p
    BY <1>1, <1>3, <1>4, NextParameter
  <1>8. ~ AllReadable(w)
    <2> HIDE DEF w, p
    <2>1. Len(done) + 1 \in Giving(w, key)
      BY <1>5, <1>6, <1>7 DEF Giving
    <2>2. Len(done) + 1 \notin Readable(w, key)
      BY <1>1, <1>7 DEF Readable, p
    <2> QED
      BY <2>1, <2>2 DEF AllReadable
  <1>9. built + 1 \in AcceptedOf(results, filtered, Len(results))
    <2>1. built < Len(results) /\ built \in Nat /\ Len(results) \in Nat
      BY <1>1 DEF TypeInv, TypeOK
    <2>2. Accepts(results[built + 1].name)
      BY <1>1 DEF TypeInv
    <2> QED
      BY <2>1, <2>2 DEF AcceptedOf, Accepts
  <1>10. \E n \in AcceptedOf(results, filtered, Len(results)) : Unreadable(results, n)
    BY <1>8, <1>9 DEF Unreadable
  <1>11. (\E n \in AcceptedOf(results, filtered, Len(results)) : Unreadable(results, n))'
    BY <1>1, <1>10
  <1> QED
    BY <1>1, <1>11 DEF BuildInv

LEMMA BuildInsert ==
  ASSUME TypeInv, BuildInv, Insert
  PROVE  BuildInv'
  <1>1. /\ pc = "field" /\ pc' = "build" /\ built' = built + 1 /\ todo = << >>
        /\ results' = results /\ filtered' = filtered /\ citations' = Inserted
        /\ ignore_invalid_ident' = ignore_invalid_ident
    BY DEF Insert, input, parse
  <1> DEFINE w == results[built + 1].params
  <1>2. PICK done : Making(done, w)
    BY <1>1 DEF BuildInv
  <1>3. w = done
    BY <1>1, <1>2 DEF Making
  <1>4. built \in Nat /\ (filtered => results[built + 1].name \in Types)
    BY <1>1 DEF TypeInv, TypeOK, Accepts
  <1>5. Shows(citation, w) /\ (ignore_invalid_ident \/ AllReadable(w))
    BY <1>2, <1>3 DEF Making
  <1>6. /\ Keeps(citations, results, filtered, built)
        /\ ignore_invalid_ident \/ ReadableOf(results, filtered, built)
    BY <1>1 DEF BuildInv
  <1>7. Keeps(Inserted, results, filtered, built + 1)
    BY <1>4, <1>5, <1>6, KeepsAnother DEF Inserted
  <1>8. ignore_invalid_ident \/ ReadableOf(results, filtered, built + 1)
    BY <1>4, <1>5, <1>6, AcceptedAnother DEF ReadableOf
  <1>9. /\ Keeps(citations, results, filtered, built)'
        /\ (ignore_invalid_ident \/ ReadableOf(results, filtered, built))'
    BY <1>1, <1>7, <1>8
  <1> QED
    BY <1>1, <1>9 DEF BuildInv

LEMMA BuildStep ==
  ASSUME TypeInv, BuildInv, [Next]_vars
  PROVE  BuildInv'
  <1>1. CASE Return
    BY <1>1 DEF Return, BuildInv, input, parse, build
  <1>2. CASE UNCHANGED vars
    BY <1>2 DEF vars, input, parse, build, BuildInv, Making
  <1> QED
    BY <1>1, <1>2, BuildWalk, BuildFilterOut, BuildBegin, BuildField, BuildThrow, BuildInsert
    DEF Next, FieldStep

\* The number that an identifier becomes, as Describes has it.
LEMMA SameNumber ==
  ASSUME NEW x \in -IntMax - 1 .. IntMax
  PROVE  ((x % (2 * (IntMax + 1))) - x) % (2 * IntMax + 2) = 0
  <1> DEFINE m == 2 * IntMax + 2
  <1>1. IntMax \in Nat
    BY IntMaxAssumption
  <1>2. m \in Nat /\ m > 0 /\ 2 * (IntMax + 1) = m
    BY <1>1
  <1>3. CASE x >= 0
    <2>1. x \in Nat /\ x < m
      BY <1>1, <1>3
    <2> HIDE DEF m
    <2>2. x % m = x
      BY <1>2, <2>1
    <2>3. 0 % m = 0
      BY <1>2
    <2> QED
      BY <1>2, <2>1, <2>2, <2>3 DEF m
  <1>4. CASE x < 0
    <2>1. x \in Int /\ x + m \in Nat /\ x + m < m
      BY <1>1, <1>4
    <2> HIDE DEF m
    <2>2. x % m = x + m
      BY <1>2, <2>1
    <2>3. m % m = 0
      BY <1>2
    <2> QED
      BY <1>2, <2>1, <2>2, <2>3 DEF m
  <1> QED
    BY <1>3, <1>4

\* What has been read is an int.
LEMMA ReadInt ==
  ASSUME NEW params \in Seq(Parameters), NEW k, Readable(params, k) # {}
  PROVE  StrToIntIdent(IdentText(params[Max(Readable(params, k))])) \in -IntMax - 1 .. IntMax
  <1>1. Readable(params, k) \in SUBSET (1 .. Len(params)) /\ Len(params) \in Nat
    <2>1. Giving(params, k) \in SUBSET (1 .. Len(params))
      BY DEF Giving
    <2> QED
      BY <2>1 DEF Readable
  <1>2. Max(Readable(params, k)) \in Readable(params, k)
    BY <1>1, GreatestProperties
  <1>3. IsIdent(IdentText(params[Max(Readable(params, k))]))
    BY <1>2 DEF Readable
  <1> QED
    BY <1>3 DEF IsIdent, StrToIntIdent

LEMMA ShowsDescribes ==
  ASSUME NEW c, NEW params \in Seq(Parameters), Shows(c, params)
  PROVE  Describes(c, params)
  <1>1. ASSUME NEW k \in NumericKeys, Readable(params, k) # {}
        PROVE  (c.identifiers[<< k >>]
                  - StrToIntIdent(IdentText(params[Max(Readable(params, k))])))
                 % (2 * IntMax + 2) = 0
    <2> DEFINE x == StrToIntIdent(IdentText(params[Max(Readable(params, k))]))
    <2>1. x \in -IntMax - 1 .. IntMax
      BY <1>1, ReadInt
    <2>2. c.identifiers[<< k >>] = x % (2 * (IntMax + 1))
      BY <1>1 DEF Shows
    <2> HIDE DEF x
    <2>3. (c.identifiers[<< k >>] - x) % (2 * IntMax + 2) = 0
      BY <2>1, <2>2, SameNumber
    <2> QED
      BY <2>3 DEF x
  <1>2. \A k \in NumericKeys : << k >> \in DOMAIN c.identifiers <=> Readable(params, k) # {}
    BY DEF Shows
  <1>3. \A k \in TextKeys :
          /\ << k >> \in DOMAIN c.identifiers <=> Giving(params, k) # {}
          /\ Giving(params, k) # {} =>
               Becomes(k, params[Max(Giving(params, k))].value, c.identifiers[<< k >>])
    BY DEF Shows
  <1>4. /\ c.title = Title(params)
        /\ DOMAIN c.identifiers \subseteq { << k >> : k \in IdentKeys }
        /\ c.has_identifiers <=> \E k \in IdentKeys : Giving(params, k) # {}
        /\ c.urls = UrlsOf(params)
    BY DEF Shows
  <1> QED
    BY <1>1, <1>2, <1>3, <1>4 DEF Describes, UrlsOf

LEMMA AcceptedAll ==
  ASSUME TypeInv
  PROVE  /\ Accepted = AcceptedOf(results, filtered, Len(results))
         /\ \A t : Titled(t) = TitledOf(results, filtered, Len(results), t)
  <1>1. DOMAIN results = 1 .. Len(results)
    BY DEF TypeInv, TypeOK
  <1> QED
    BY <1>1 DEF Accepted, AcceptedOf, Accepts, Titled, TitledOf

LEMMA CitationsExactHolds ==
  ASSUME TypeInv, BuildInv
  PROVE  CitationsExact
  <1> SUFFICES ASSUME pc = "returned"
               PROVE  /\ DOMAIN citations = { Title(results[n].params) : n \in Accepted }
                      /\ \A t \in DOMAIN citations :
                           Describes(citations[t], results[Min(Titled(t))].params)
    BY DEF CitationsExact
  <1>1. Keeps(citations, results, filtered, Len(results))
    BY DEF BuildInv
  <1>2. DOMAIN citations = { Title(results[n].params) : n \in Accepted }
    BY <1>1, AcceptedAll DEF Keeps
  <1>3. ASSUME NEW t \in DOMAIN citations
        PROVE  Describes(citations[t], results[Min(Titled(t))].params)
    <2>1. Shows(citations[t], results[Min(Titled(t))].params)
      BY <1>1, AcceptedAll DEF Keeps
    <2>2. Titled(t) \in SUBSET (1 .. Len(results)) /\ Titled(t) # {}
      <3>1. Titled(t) # {}
        BY <1>2 DEF Titled
      <3>2. Titled(t) = TitledOf(results, filtered, Len(results), t)
        BY AcceptedAll
      <3>3. Titled(t) \in SUBSET (1 .. Len(results))
        BY <3>2 DEF TitledOf, AcceptedOf
      <3> QED
        BY <3>1, <3>3
    <2>3. Min(Titled(t)) \in 1 .. Len(results)
      <3>1. 1 .. Len(results) \in SUBSET Nat
        BY DEF TypeInv, TypeOK
      <3>2. Titled(t) \in SUBSET Nat
        BY <2>2, <3>1
      <3>3. Min(Titled(t)) \in Titled(t)
        BY <2>2, <3>2, LeastProperties
      <3> QED
        BY <2>2, <3>3
    <2>4. results[Min(Titled(t))].params \in Seq(Parameters)
      <3>1. results[Min(Titled(t))] \in Entries
        BY <2>3 DEF TypeInv, TypeOK
      <3> QED
        BY <3>1 DEF Entries
    <2> QED
      BY <2>1, <2>4, ShowsDescribes
  <1> QED
    BY <1>2, <1>3

LEMMA ThrowsExactlyHolds ==
  ASSUME TypeInv, BuildInv
  PROVE  ThrowsExactly
  <1>1. (\E n \in Accepted : Unreadable(results, n)) <=>
           \E n \in Accepted, k \in {"pmid", "pmc"} :
             Readable(results[n].params, k) # Giving(results[n].params, k)
    BY DEF Unreadable, AllReadable
  <1>2. ASSUME pc = "returned", ~ ignore_invalid_ident
        PROVE  ~ \E n \in Accepted : Unreadable(results, n)
    <2>1. ReadableOf(results, filtered, Len(results))
      BY <1>2 DEF BuildInv
    <2> QED
      BY <2>1, AcceptedAll DEF ReadableOf, Unreadable
  <1>3. ASSUME pc = "threw"
        PROVE  ~ ignore_invalid_ident /\ \E n \in Accepted : Unreadable(results, n)
    BY <1>3, AcceptedAll DEF BuildInv
  <1>4. ignore_invalid_ident \in BOOLEAN
    BY DEF TypeInv
  <1> QED
    BY <1>1, <1>2, <1>3, <1>4 DEF ThrowsExactly

LEMMA CitationsInvariant == Spec => [](TypeInv /\ BuildInv)
  <1>1. Init => TypeInv /\ BuildInv
    BY TypeInit, BuildInit
  <1>2. TypeInv /\ BuildInv /\ [Next]_vars => (TypeInv /\ BuildInv)'
    BY TypeStep, BuildStep
  <1> QED
    BY <1>1, <1>2, PTL DEF Spec

\* However many templates, and however their parameters repeat, a citation has what
\* its own template gives and nothing of any other, the last of the values of a key
\* and the URLs in their order: BuildCitation starts afresh, and the map keeps the
\* citation that it has under a title.
THEOREM CitationsAreExact == Spec => []CitationsExact
  <1>1. TypeInv /\ BuildInv => CitationsExact
    BY CitationsExactHolds
  <1> QED
    BY <1>1, CitationsInvariant, PTL

\* A text is given up for an identifier that cannot be read if it is one of a template
\* that the filter accepts and the parser does not ignore it, and for nothing else.
THEOREM ThrowsAreExact == Spec => []ThrowsExactly
  <1>1. TypeInv /\ BuildInv => ThrowsExactly
    BY ThrowsExactlyHolds
  <1> QED
    BY <1>1, CitationsInvariant, PTL
=============================================================================
