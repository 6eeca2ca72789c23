-------------------------- MODULE ExtractionProofs --------------------------
(***************************************************************************)
(* Theorems about Extraction, for any number of dumps, pages and           *)
(* revisions, and for streams that fail at any byte.                       *)
(***************************************************************************)
EXTENDS Extraction, SequenceLemmas

-----------------------------------------------------------------------------
(* Messages and frames. *)

Bytes == Seq(Nat)

\* Sizes and messages are bytes, and so are the frames of messages.
LEMMA FrameType ==
  ASSUME NEW m \in Bytes
  PROVE  Header(Len(m)) \in Bytes /\ Serialized(m) \in Bytes /\ Frame(m) \in Bytes
  <1>1. Len(m) \in Nat
    BY DEF Bytes
  <1>2. (Len(m) \div Base) % Base \in Nat /\ Len(m) % Base \in Nat
    BY <1>1 DEF Base
  <1>3. Header(Len(m)) \in Bytes
    BY <1>2 DEF Header, Bytes
  <1>4. Serialized(m) \in Bytes
    BY DEF Serialized, Bytes
  <1> QED
    BY <1>3, <1>4 DEF Frame, Bytes

LEMMA FramesType ==
  ASSUME NEW ms \in Seq(Bytes)
  PROVE  /\ [ k \in DOMAIN ms |-> Frame(ms[k]) ] \in Seq(Bytes)
         /\ Frames(ms) \in Bytes
  <1> DEFINE fs == [ k \in DOMAIN ms |-> Frame(ms[k]) ]
  <1>1. Len(ms) \in Nat /\ DOMAIN ms = 1 .. Len(ms) /\ \A k \in 1 .. Len(ms) : ms[k] \in Bytes
    OBVIOUS
  <1>2. fs \in [1 .. Len(ms) -> Bytes]
    BY <1>1, FrameType
  <1> HIDE DEF fs
  <1>3. fs \in Seq(Bytes)
    BY <1>1, <1>2
  <1>4. FlattenSeq(fs) \in Bytes
    <2>1. << >> \in Seq(Nat)
      OBVIOUS
    <2> QED
      BY <1>3, <2>1, FlattenAppend DEF Bytes
  <1> QED
    BY <1>3, <1>4 DEF Frames, fs

\* The frames of more messages follow the others.
LEMMA FramesConcat ==
  ASSUME NEW ms \in Seq(Bytes), NEW ns \in Seq(Bytes)
  PROVE  Frames(ms \o ns) = Frames(ms) \o Frames(ns)
  <1> DEFINE Fs(s) == [ k \in DOMAIN s |-> Frame(s[k]) ]
  <1>1. Fs(ms \o ns) = Fs(ms) \o Fs(ns)
    <2> DEFINE c == ms \o ns
               f == Fs(ms)
               g == Fs(ns)
               h == Fs(c)
    <2>1. /\ c \in Seq(Bytes) /\ Len(c) = Len(ms) + Len(ns)
          /\ \A k \in 1 .. Len(ms) : c[k] = ms[k]
          /\ \A k \in 1 .. Len(ns) : c[Len(ms) + k] = ns[k]
      OBVIOUS
    <2> HIDE DEF c
    <2>2. /\ DOMAIN ms = 1 .. Len(ms) /\ Len(ms) \in Nat
          /\ DOMAIN ns = 1 .. Len(ns) /\ Len(ns) \in Nat
          /\ DOMAIN c = 1 .. Len(ms) + Len(ns)
          /\ \A k \in 1 .. Len(ms) : k \in DOMAIN c
          /\ \A k \in 1 .. Len(ns) : Len(ms) + k \in DOMAIN c
      BY <2>1
    <2>3. f \in Seq(Bytes) /\ g \in Seq(Bytes) /\ h \in Seq(Bytes)
      BY <2>1, FramesType
    <2>4. Len(f) = Len(ms) /\ Len(g) = Len(ns) /\ Len(h) = Len(ms) + Len(ns)
      BY <2>2, <2>3
    <2>5. /\ \A k \in 1 .. Len(ms) : h[k] = f[k]
          /\ \A k \in 1 .. Len(ns) : h[Len(ms) + k] = g[k]
      BY <2>1, <2>2
    <2> HIDE DEF f, g, h, Fs
    <2>6. h = f \o g
      <3>1. /\ Len(h) = Len(f) + Len(g)
            /\ \A k \in 1 .. Len(f) : h[k] = f[k]
            /\ \A k \in 1 .. Len(g) : h[Len(f) + k] = g[k]
        BY <2>4, <2>5
      <3> QED
        BY <2>3, <3>1, ConcatEqual
    <2> QED
      BY <2>6 DEF c, f, g, h, Fs
  <1>2. Fs(ms) \in Seq(Seq(Nat)) /\ Fs(ns) \in Seq(Seq(Nat))
    BY FramesType DEF Bytes
  <1>3. FlattenSeq(Fs(ms) \o Fs(ns)) = FlattenSeq(Fs(ms)) \o FlattenSeq(Fs(ns))
    <2> HIDE DEF Fs
    <2> QED
      BY <1>2, FlattenConcat
  <1> QED
    BY <1>1, <1>3 DEF Frames

LEMMA FramesSingle ==
  ASSUME NEW m \in Bytes
  PROVE  Frames(<< m >>) = Frame(m)
  <1>1. [ k \in DOMAIN << m >> |-> Frame(<< m >>[k]) ] = << Frame(m) >>
    OBVIOUS
  <1> QED
    BY <1>1, FlattenSingle DEF Frames

LEMMA FramesAppend ==
  ASSUME NEW ms \in Seq(Bytes), NEW m \in Bytes
  PROVE  Frames(Append(ms, m)) = Frames(ms) \o Frame(m)
  <1>1. Append(ms, m) = ms \o << m >> /\ << m >> \in Seq(Bytes)
    OBVIOUS
  <1> QED
    BY <1>1, FramesConcat, FramesSingle

-----------------------------------------------------------------------------
(* Streams. *)

\* A stream that was given the bytes b holds all of them, or failed on the way.
Holds(s, b) ==
  /\ s.bytes \in Bytes /\ s.good \in BOOLEAN
  /\ IsPrefix(s.bytes, b)
  /\ s.good = TRUE => s.bytes = b

\* A write to a stream that holds b, as far as it has come.
LEMMA WrittenHolds ==
  ASSUME NEW s, NEW b \in Bytes, NEW c \in Bytes, Holds(s, b), NEW t \in Written(s, c)
  PROVE  Holds(t, b \o c)
  <1>1. b \o c \in Bytes
    BY DEF Bytes
  <1>2. CASE s.good = FALSE
    <2>1. t = s
      BY <1>2 DEF Written
    <2>2. IsPrefix(s.bytes, b \o c)
      BY PrefixConcat DEF Holds, Bytes
    <2> QED
      BY <1>2, <2>1, <2>2 DEF Holds
  <1>3. CASE s.good = TRUE
    <2>1. s.bytes = b
      BY <1>3 DEF Holds
    <2>2. CASE t = [bytes |-> b \o c, good |-> TRUE]
      <3>1. IsPrefix(b \o c, b \o c)
        BY <1>1, PrefixSame DEF Bytes
      <3> QED
        BY <1>1, <2>2, <3>1 DEF Holds
    <2>3. ASSUME NEW n \in 0 .. Len(c), t = [bytes |-> b \o SubSeq(c, 1, n), good |-> FALSE]
          PROVE  Holds(t, b \o c)
      <3>1. b \o SubSeq(c, 1, n) \in Bytes /\ IsPrefix(b \o SubSeq(c, 1, n), b \o c)
        BY PartConcat DEF Bytes
      <3> QED
        BY <2>3, <3>1 DEF Holds
    <2> QED
      BY <1>3, <2>1, <2>2, <2>3 DEF Written
  <1> QED
    BY <1>2, <1>3 DEF Holds

\* The two writes of a frame.
LEMMA FrameParts ==
  ASSUME NEW b \in Bytes, NEW m \in Bytes
  PROVE  (b \o Header(Len(m))) \o Serialized(m) = b \o Frame(m)
  <1> DEFINE h == Header(Len(m))
             x == Serialized(m)
  <1>1. h \in Seq(Nat) /\ x \in Seq(Nat) /\ b \in Seq(Nat)
    BY FrameType DEF Bytes
  <1> HIDE DEF h, x
  <1>2. (b \o h) \o x = b \o (h \o x)
    BY <1>1, ConcatAssociative
  <1> QED
    BY <1>2 DEF h, x, Frame

\* WriteMessage: whatever fails, no byte is missing before one that arrives.
LEMMA WriteHolds ==
  ASSUME NEW s, NEW ms \in Seq(Bytes), NEW m \in Bytes, Holds(s, Frames(ms)),
         NEW t \in WriteMessage(s, m)
  PROVE  Holds(t, Frames(Append(ms, m)))
  <1>1. PICK u \in Written(s, Header(Len(m))) : t \in Written(u, Serialized(m))
    BY DEF WriteMessage
  <1>2. /\ Header(Len(m)) \in Bytes /\ Serialized(m) \in Bytes /\ Frames(ms) \in Bytes
        /\ Frames(ms) \o Header(Len(m)) \in Bytes
    <2>1. Header(Len(m)) \in Bytes /\ Serialized(m) \in Bytes /\ Frames(ms) \in Bytes
      BY FrameType, FramesType
    <2> QED
      BY <2>1 DEF Bytes
  <1>3. Holds(u, Frames(ms) \o Header(Len(m)))
    BY <1>1, <1>2, WrittenHolds
  <1>4. Holds(t, (Frames(ms) \o Header(Len(m))) \o Serialized(m))
    BY <1>1, <1>2, <1>3, WrittenHolds
  <1>5. (Frames(ms) \o Header(Len(m))) \o Serialized(m) = Frames(ms) \o Frame(m)
    BY <1>2, FrameParts
  <1> QED
    BY <1>4, <1>5, FramesAppend

-----------------------------------------------------------------------------
(* The messages of dumps. *)

RevisionRecords == RevIds \X Nat

\* AllRevisions, of any dumps.
Revisions(ds) == FlattenSeq([ c \in DOMAIN ds |-> RevisionMessages(ds[c]) ])

\* The revision ids a page refers to.
LEMMA ReferencesType ==
  ASSUME NEW refs \in References
  PROVE  /\ Ascending(refs) \in Bytes
         /\ Cardinality(refs) \in Nat
         /\ \A n \in 1 .. Cardinality(refs) : Ascending(refs)[n] \in refs
         /\ refs \subseteq RevIds /\ RevIds \subseteq Nat
  <1>1. refs \in SUBSET Int /\ IsFiniteSet(refs) /\ refs \in SUBSET Nat
    BY ReferencesAssumption
  <1>2. Ascending(refs) \in [1 .. Cardinality(refs) -> refs] /\ Cardinality(refs) \in Nat
    BY <1>1, AscendingProperties
  <1>3. Ascending(refs) \in Seq(refs)
    BY <1>2
  <1>4. Ascending(refs) \in Bytes
    BY <1>1, <1>3, SeqMonotonic DEF Bytes
  <1>5. refs \subseteq RevIds /\ RevIds \subseteq Nat
    BY ReferencesAssumption DEF RevIds
  <1> QED
    BY <1>2, <1>4, <1>5

LEMMA RecordsBytes == RevisionRecords \subseteq Bytes
  <1> SUFFICES ASSUME NEW r \in RevIds, NEW p \in Nat PROVE << r, p >> \in Bytes
    BY DEF RevisionRecords
  <1>1. r \in Nat
    BY ReferencesAssumption DEF RevIds
  <1> QED
    BY <1>1 DEF Bytes

\* The records of a page have the ids it refers to.
LEMMA RecordsType ==
  ASSUME NEW refs \in References, NEW p \in Nat
  PROVE  /\ Records(refs, p) \in Seq(RevIds \X {p})
         /\ Records(refs, p) \in Seq(RevisionRecords)
         /\ ToSet(Records(refs, p)) = { << r, p >> : r \in refs }
  <1> DEFINE N == Cardinality(refs)
  <1>1. /\ N \in Nat /\ refs \subseteq RevIds
        /\ \A n \in 1 .. N : Ascending(refs)[n] \in refs
    BY ReferencesType
  <1>2. Records(refs, p) = [ n \in 1 .. N |-> << Ascending(refs)[n], p >> ]
    BY DEF Records, Revision
  <1>3. Records(refs, p) \in [1 .. N -> RevIds \X {p}]
    BY <1>1, <1>2
  <1> HIDE DEF N
  <1>4. Records(refs, p) \in Seq(RevIds \X {p})
    BY <1>1, <1>3
  <1>5. RevIds \X {p} \subseteq RevisionRecords
    BY DEF RevisionRecords
  <1>6. Records(refs, p) \in Seq(RevisionRecords)
    BY <1>4, <1>5, SeqMonotonic
  <1>7. { << r, p >> : r \in refs } = { << Ascending(refs)[n], p >> : n \in 1 .. N }
    <2>1. refs \in SUBSET Int /\ IsFiniteSet(refs)
      BY ReferencesAssumption
    <2>2. \A r \in refs : \E n \in 1 .. N : Ascending(refs)[n] = r
      BY <2>1, AscendingProperties DEF N
    <2> QED
      BY <1>1, <2>2
  <1>8. ToSet(Records(refs, p)) = { << Ascending(refs)[n], p >> : n \in 1 .. N }
    BY <1>2 DEF ToSet
  <1> QED
    BY <1>4, <1>6, <1>7, <1>8

\* The page messages, one for each page.
LEMMA PagesType ==
  ASSUME NEW d \in Seq(References)
  PROVE  /\ PageMessages(d) \in Seq(Bytes) /\ Len(PageMessages(d)) = Len(d)
         /\ \A k \in 1 .. Len(d) : PageMessages(d)[k] = Ascending(d[k])
  <1>1. Len(d) \in Nat /\ DOMAIN d = 1 .. Len(d) /\ \A k \in 1 .. Len(d) : d[k] \in References
    OBVIOUS
  <1>2. PageMessages(d) \in [1 .. Len(d) -> Bytes]
    BY <1>1, ReferencesType DEF PageMessages
  <1>3. \A k \in 1 .. Len(d) : PageMessages(d)[k] = Ascending(d[k])
    BY <1>1 DEF PageMessages
  <1> QED
    BY <1>1, <1>2, <1>3

LEMMA PagesAppend ==
  ASSUME NEW d \in Seq(References), NEW refs \in References
  PROVE  PageMessages(Append(d, refs)) = Append(PageMessages(d), Ascending(refs))
  <1> DEFINE e == Append(d, refs)
             s == PageMessages(e)
             t == Append(PageMessages(d), Ascending(refs))
  <1>1. /\ e \in Seq(References) /\ Len(e) = Len(d) + 1 /\ Len(d) \in Nat
        /\ \A k \in 1 .. Len(d) : e[k] = d[k]
        /\ e[Len(d) + 1] = refs
    OBVIOUS
  <1> HIDE DEF e
  <1>2. /\ s \in Seq(Bytes) /\ Len(s) = Len(d) + 1
        /\ \A k \in 1 .. Len(d) + 1 : s[k] = Ascending(e[k])
    BY <1>1, PagesType
  <1>3. /\ t \in Seq(Bytes) /\ Len(t) = Len(d) + 1
        /\ \A k \in 1 .. Len(d) : t[k] = Ascending(d[k])
        /\ t[Len(d) + 1] = Ascending(refs)
    <2>1. /\ PageMessages(d) \in Seq(Bytes) /\ Len(PageMessages(d)) = Len(d)
          /\ \A k \in 1 .. Len(d) : PageMessages(d)[k] = Ascending(d[k])
          /\ Ascending(refs) \in Bytes
      BY PagesType, ReferencesType
    <2> QED
      BY <2>1, AppendProperties
  <1> HIDE DEF s, t
  <1>4. \A k \in 1 .. Len(d) + 1 : k \in 1 .. Len(d) \/ k = Len(d) + 1
    BY <1>1
  <1>5. \A k \in 1 .. Len(d) + 1 : s[k] = t[k]
    BY <1>1, <1>2, <1>3, <1>4
  <1>6. s = t
    BY <1>2, <1>3, <1>5, SeqEqual
  <1> QED
    BY <1>6 DEF s, t, e

\* The records of each page of a dump.
LEMMA RecordListsType ==
  ASSUME NEW d \in Seq(References)
  PROVE  /\ [ k \in DOMAIN d |-> Records(d[k], k) ] \in Seq(Seq(RevisionRecords))
         /\ RevisionMessages(d) \in Seq(RevisionRecords)
  <1> DEFINE rs == [ k \in DOMAIN d |-> Records(d[k], k) ]
  <1>1. /\ Len(d) \in Nat /\ DOMAIN d = 1 .. Len(d)
        /\ \A k \in 1 .. Len(d) : d[k] \in References /\ k \in Nat
    OBVIOUS
  <1>2. rs \in [1 .. Len(d) -> Seq(RevisionRecords)]
    BY <1>1, RecordsType
  <1> HIDE DEF rs
  <1>3. rs \in Seq(Seq(RevisionRecords))
    BY <1>1, <1>2
  <1>4. FlattenSeq(rs) \in Seq(RevisionRecords)
    <2>1. << >> \in Seq(RevisionRecords)
      OBVIOUS
    <2> QED
      BY <1>3, <2>1, FlattenAppend
  <1> QED
    BY <1>3, <1>4 DEF RevisionMessages, rs

\* One more page adds its records to those of the dump.
LEMMA RevisionsAppend ==
  ASSUME NEW d \in Seq(References), NEW refs \in References
  PROVE  RevisionMessages(Append(d, refs)) = RevisionMessages(d) \o Records(refs, Len(d) + 1)
  <1> DEFINE e == Append(d, refs)
             L(c) == [ k \in DOMAIN c |-> Records(c[k], k) ]
             s == L(e)
             t == Append(L(d), Records(refs, Len(d) + 1))
  <1>1. /\ e \in Seq(References) /\ Len(e) = Len(d) + 1 /\ Len(d) \in Nat
        /\ \A k \in 1 .. Len(d) : e[k] = d[k]
        /\ e[Len(d) + 1] = refs
        /\ DOMAIN d = 1 .. Len(d) /\ DOMAIN e = 1 .. Len(d) + 1
    OBVIOUS
  <1> HIDE DEF e
  <1>2. /\ L(d) \in Seq(Seq(RevisionRecords)) /\ s \in Seq(Seq(RevisionRecords))
        /\ Records(refs, Len(d) + 1) \in Seq(RevisionRecords)
    <2>1. L(d) \in Seq(Seq(RevisionRecords))
      BY RecordListsType
    <2>2. s \in Seq(Seq(RevisionRecords))
      BY <1>1, RecordListsType
    <2>3. Len(d) + 1 \in Nat
      BY <1>1
    <2>4. Records(refs, Len(d) + 1) \in Seq(RevisionRecords)
      BY <2>3, RecordsType
    <2> QED
      BY <2>1, <2>2, <2>4
  <1>3. Len(L(d)) = Len(d) /\ Len(s) = Len(d) + 1
    BY <1>1, <1>2
  <1>4. /\ \A k \in 1 .. Len(d) + 1 : s[k] = Records(e[k], k)
        /\ \A k \in 1 .. Len(d) : L(d)[k] = Records(d[k], k)
    BY <1>1
  <1> HIDE DEF L
  <1>5. /\ t \in Seq(Seq(RevisionRecords)) /\ Len(t) = Len(d) + 1
        /\ \A k \in 1 .. Len(d) : t[k] = L(d)[k]
        /\ t[Len(d) + 1] = Records(refs, Len(d) + 1)
    BY <1>2, <1>3, AppendProperties
  <1> HIDE DEF s, t
  <1>6. \A k \in 1 .. Len(d) + 1 : k \in 1 .. Len(d) \/ k = Len(d) + 1
    BY <1>1
  <1>7. \A k \in 1 .. Len(d) + 1 : s[k] = t[k]
    BY <1>1, <1>4, <1>5, <1>6
  <1>8. s = t
    BY <1>2, <1>3, <1>5, <1>7, SeqEqual
  <1>9. FlattenSeq(t) = FlattenSeq(L(d)) \o Records(refs, Len(d) + 1)
    BY <1>2, FlattenAppend DEF t
  <1> QED
    BY <1>8, <1>9 DEF RevisionMessages, s, t, e, L

\* The revisions of each dump.
LEMMA RevisionListsType ==
  ASSUME NEW ds \in Seq(Seq(References))
  PROVE  /\ [ c \in DOMAIN ds |-> RevisionMessages(ds[c]) ] \in Seq(Seq(RevisionRecords))
         /\ Len([ c \in DOMAIN ds |-> RevisionMessages(ds[c]) ]) = Len(ds)
         /\ Revisions(ds) \in Seq(RevisionRecords)
  <1> DEFINE rs == [ c \in DOMAIN ds |-> RevisionMessages(ds[c]) ]
  <1>1. /\ Len(ds) \in Nat /\ DOMAIN ds = 1 .. Len(ds)
        /\ \A c \in 1 .. Len(ds) : ds[c] \in Seq(References)
    OBVIOUS
  <1>2. rs \in [1 .. Len(ds) -> Seq(RevisionRecords)]
    BY <1>1, RecordListsType
  <1> HIDE DEF rs
  <1>3. rs \in Seq(Seq(RevisionRecords)) /\ Len(rs) = Len(ds)
    BY <1>1, <1>2
  <1>4. FlattenSeq(rs) \in Seq(RevisionRecords)
    <2>1. << >> \in Seq(RevisionRecords)
      OBVIOUS
    <2> QED
      BY <1>3, <2>1, FlattenAppend
  <1> QED
    BY <1>3, <1>4 DEF Revisions, rs

\* A dump of which nothing has been parsed yet adds nothing.
LEMMA NewDump ==
  ASSUME NEW ds \in Seq(Seq(References))
  PROVE  /\ Append(ds, << >>) \in Seq(Seq(References))
         /\ FlattenSeq(ds) \in Seq(References)
         /\ FlattenSeq(Append(ds, << >>)) = FlattenSeq(ds)
         /\ Revisions(Append(ds, << >>)) = Revisions(ds)
         /\ RevisionMessages(<< >>) = << >>
  <1> DEFINE L(c) == [ k \in DOMAIN c |-> RevisionMessages(c[k]) ]
             es == Append(ds, << >>)
             s == L(es)
             t == Append(L(ds), << >>)
  <1>1. << >> \in Seq(References) /\ << >> \in Seq(RevisionRecords)
    OBVIOUS
  <1>2. /\ es \in Seq(Seq(References)) /\ Len(es) = Len(ds) + 1 /\ Len(ds) \in Nat
        /\ \A k \in 1 .. Len(ds) : es[k] = ds[k]
        /\ es[Len(ds) + 1] = << >>
        /\ DOMAIN ds = 1 .. Len(ds) /\ DOMAIN es = 1 .. Len(ds) + 1
    BY <1>1
  <1>3. /\ FlattenSeq(ds) \in Seq(References)
        /\ FlattenSeq(es) = FlattenSeq(ds)
    <2>1. FlattenSeq(ds) \in Seq(References) /\ FlattenSeq(es) = FlattenSeq(ds) \o << >>
      BY <1>1, FlattenAppend
    <2> QED
      BY <2>1
  <1>4. RevisionMessages(<< >>) = << >>
    <2>1. [ k \in DOMAIN << >> |-> Records(<< >>[k], k) ] = << >>
      OBVIOUS
    <2> QED
      BY <2>1, FlattenEmpty DEF RevisionMessages
  <1> HIDE DEF es
  <1>5. L(ds) \in Seq(Seq(RevisionRecords)) /\ Len(L(ds)) = Len(ds)
    BY RevisionListsType
  <1>6. s \in Seq(Seq(RevisionRecords)) /\ Len(s) = Len(ds) + 1
    BY <1>2, RevisionListsType
  <1>7. /\ \A k \in 1 .. Len(ds) + 1 : s[k] = RevisionMessages(es[k])
        /\ \A k \in 1 .. Len(ds) : L(ds)[k] = RevisionMessages(ds[k])
    BY <1>2
  <1> HIDE DEF L
  <1>8. /\ t \in Seq(Seq(RevisionRecords)) /\ Len(t) = Len(ds) + 1
        /\ \A k \in 1 .. Len(ds) : t[k] = L(ds)[k]
        /\ t[Len(ds) + 1] = << >>
    BY <1>1, <1>5, AppendProperties
  <1>9. FlattenSeq(t) = FlattenSeq(L(ds))
    <2>1. FlattenSeq(L(ds)) \in Seq(RevisionRecords) /\ FlattenSeq(t) = FlattenSeq(L(ds)) \o << >>
      BY <1>1, <1>5, FlattenAppend
    <2> QED
      BY <2>1
  <1> HIDE DEF s, t
  <1>10. \A k \in 1 .. Len(ds) + 1 : k \in 1 .. Len(ds) \/ k = Len(ds) + 1
    BY <1>2
  <1>11. \A k \in 1 .. Len(ds) + 1 : s[k] = t[k]
    BY <1>2, <1>4, <1>7, <1>8, <1>10
  <1>12. s = t
    BY <1>6, <1>8, <1>11, SeqEqual
  <1> QED
    BY <1>2, <1>3, <1>4, <1>9, <1>12 DEF Revisions, s, t, es, L

\* Append as a concatenation.
LEMMA AppendConcat ==
  ASSUME NEW S, NEW s \in Seq(S), NEW x \in S
  PROVE  << x >> \in Seq(S) /\ Append(s, x) = s \o << x >>
  OBVIOUS

\* One element of a sequence replaced.
LEMMA Replaced ==
  ASSUME NEW S, NEW s \in Seq(S), NEW i \in 1 .. Len(s), NEW y \in S
  PROVE  LET t == [s EXCEPT ![i] = y] IN
         /\ t \in Seq(S) /\ Len(t) = Len(s) /\ t[i] = y
         /\ \A k \in 1 .. Len(s) : k # i => t[k] = s[k]
  OBVIOUS

\* One more page in the last dump.
LEMMA NewPage ==
  ASSUME NEW ds \in Seq(Seq(References)), ds # << >>, NEW refs \in References
  PROVE  LET es == [ds EXCEPT ![Len(ds)] = Append(@, refs)]
             p  == Len(ds[Len(ds)]) + 1
         IN  /\ es \in Seq(Seq(References)) /\ Len(es) = Len(ds)
             /\ es[Len(ds)] = Append(ds[Len(ds)], refs)
             /\ FlattenSeq(es) = Append(FlattenSeq(ds), refs)
             /\ Revisions(es) = Revisions(ds) \o Records(refs, p)
  <1> DEFINE n == Len(ds)
             d == ds[n]
             es == [ds EXCEPT ![n] = Append(d, refs)]
             L(c) == [ k \in DOMAIN c |-> RevisionMessages(c[k]) ]
             x == Records(refs, Len(d) + 1)
             s == L(es)
             t == [L(ds) EXCEPT ![n] = L(ds)[n] \o x]
  <1>1. /\ n \in Nat /\ n = Len(ds) /\ n \in 1 .. n /\ d = ds[n]
        /\ d \in Seq(References) /\ DOMAIN ds = 1 .. n
    OBVIOUS
  <1>2. << refs >> \in Seq(References) /\ Append(d, refs) = d \o << refs >>
    BY <1>1, AppendConcat
  <1>3. es = [ds EXCEPT ![n] = ds[n] \o << refs >>]
    BY <1>2
  <1>4. es \in Seq(Seq(References)) /\ FlattenSeq(es) = FlattenSeq(ds) \o << refs >>
    BY <1>2, <1>3, FlattenGrow
  <1>5. FlattenSeq(ds) \in Seq(References)
    BY NewDump
  <1>6. FlattenSeq(es) = Append(FlattenSeq(ds), refs)
    BY <1>4, <1>5, AppendConcat
  <1>7. Len(es) = n /\ es[n] = Append(d, refs) /\ \A k \in 1 .. n : k # n => es[k] = ds[k]
    <2>1. Append(d, refs) \in Seq(References)
      BY <1>1, AppendProperties
    <2> DEFINE y == Append(d, refs)
    <2>2. es = [ds EXCEPT ![n] = y]
      OBVIOUS
    <2> HIDE DEF y, n, d
    <2>3. n \in 1 .. Len(ds) /\ y \in Seq(References)
      BY <1>1, <2>1 DEF y
    <2> HIDE DEF es
    <2>4. Len(es) = Len(ds) /\ es[n] = y /\ \A k \in 1 .. Len(ds) : k # n => es[k] = ds[k]
      BY <2>2, <2>3, Replaced
    <2> QED
      BY <1>1, <2>4 DEF y
  <1>8. L(ds) \in Seq(Seq(RevisionRecords)) /\ Len(L(ds)) = n
    BY RevisionListsType
  <1> HIDE DEF es
  <1>9. s \in Seq(Seq(RevisionRecords)) /\ Len(s) = n
    BY <1>4, <1>7, RevisionListsType
  <1>10. x \in Seq(RevisionRecords)
    <2>1. Len(d) + 1 \in Nat
      BY <1>1
    <2> QED
      BY <2>1, RecordsType
  <1>11. /\ \A k \in 1 .. n : s[k] = RevisionMessages(es[k])
         /\ \A k \in 1 .. n : L(ds)[k] = RevisionMessages(ds[k])
    <2>1. DOMAIN es = 1 .. n
      BY <1>4, <1>7
    <2> QED
      BY <1>1, <2>1
  <1> HIDE DEF L, x, n
  <1>12. L(ds) # << >>
    BY <1>1, <1>8
  <1>13. t \in Seq(Seq(RevisionRecords)) /\ FlattenSeq(t) = FlattenSeq(L(ds)) \o x
    BY <1>8, <1>10, <1>12, FlattenGrow
  <1>14. /\ Len(t) = n /\ t[n] = L(ds)[n] \o x
         /\ \A k \in 1 .. n : k # n => t[k] = L(ds)[k]
    BY <1>1, <1>8
  <1>15. s[n] = t[n]
    <2>1. RevisionMessages(Append(d, refs)) = RevisionMessages(d) \o x
      BY <1>1, RevisionsAppend DEF x
    <2>2. s[n] = RevisionMessages(Append(d, refs)) /\ L(ds)[n] = RevisionMessages(d)
      BY <1>1, <1>7, <1>11
    <2> HIDE DEF s, t, d
    <2> QED
      BY <1>14, <2>1, <2>2
  <1> HIDE DEF s, t
  <1>16. \A k \in 1 .. n : s[k] = t[k]
    BY <1>7, <1>11, <1>14, <1>15
  <1>17. s = t
    BY <1>9, <1>13, <1>14, <1>16, SeqEqual
  <1> QED
    BY <1>4, <1>6, <1>7, <1>13, <1>17 DEF Revisions, s, t, es, L, x, n

-----------------------------------------------------------------------------
(* What the steps preserve. *)

Progress ==
  /\ call \in 1 .. MaxCalls /\ dumps \in Seq(Seq(References)) /\ Len(dumps) = call
  /\ Len(dumps[call]) <= Len(FlattenSeq(dumps)) /\ Len(FlattenSeq(dumps)) <= MaxPages
  /\ status \in {"parsing", "returned", "threw"}
  /\ pending \in Seq(RevIds \X (1 .. MaxPages))
  /\ status # "parsing" => pending = << >>

\* The pages stream was given the pages of all dumps, the revisions stream all
\* revisions but the pending ones, which are the last.
Given ==
  /\ Holds(pages_output, Frames(AllPages))
  /\ \E sent \in Seq(RevisionRecords) :
       /\ AllRevisions = sent \o pending
       /\ Holds(revisions_output, Frames(sent))

Counted ==
  /\ pages_written_ = Len(dumps[call])
  /\ revisions_written_ \in Nat
  /\ revisions_written_ + Len(pending) = Len(RevisionMessages(dumps[call]))

Kept ==
  /\ stored_pages_ \in Seq(References)
  /\ DOMAIN stored_revisions_ \subseteq RevIds

Reading ==
  /\ pos \in 0 .. Len(pages_output.bytes)
  /\ read \in Seq(Bytes)

Inv == Progress /\ Given /\ Counted /\ Kept /\ Reading

\* Inv holds initially, and each step preserves it.
LEMMA InitInv == Init => Inv
  <1> SUFFICES ASSUME Init PROVE Inv
    OBVIOUS
  <1> DEFINE none == << >>
  <1>1. /\ none \in Seq(Seq(References)) /\ dumps = Append(none, << >>)
        /\ dumps = << << >> >>
    BY DEF Init
  <1>2. FlattenSeq(none) = << >> /\ Revisions(none) = << >>
    BY FlattenEmpty DEF Revisions
  <1> HIDE DEF none
  <1>3. /\ FlattenSeq(dumps) = << >> /\ Revisions(dumps) = << >>
        /\ dumps \in Seq(Seq(References)) /\ RevisionMessages(<< >>) = << >>
    BY <1>1, <1>2, NewDump
  <1>4. /\ Len(dumps) = 1 /\ dumps[1] = << >> /\ pending = << >> /\ call = 1
        /\ pages_output = Empty /\ revisions_output = Empty
    BY <1>1 DEF Init
  <1>5. Progress
    BY <1>3, <1>4, BoundsAssumption DEF Init, Progress
  <1>6. Given
    <2>1. AllPages = << >>
      BY <1>3 DEF AllPages, PageMessages
    <2>2. Frames(<< >>) = << >>
      BY FlattenEmpty DEF Frames
    <2>3. Holds(Empty, << >>)
      <3>1. << >> \in Seq(Nat)
        OBVIOUS
      <3>2. IsPrefix(<< >>, << >>)
        BY <3>1, PrefixSame
      <3> QED
        BY <3>1, <3>2 DEF Holds, Empty, Bytes
    <2>4. AllRevisions = << >>
      BY <1>3 DEF AllRevisions, Revisions
    <2>5. << >> \in Seq(RevisionRecords) /\ << >> = << >> \o << >>
      OBVIOUS
    <2> QED
      BY <1>4, <2>1, <2>2, <2>3, <2>4, <2>5 DEF Given
  <1>7. Counted
    BY <1>3, <1>4 DEF Init, Counted
  <1>8. Kept
    BY DEF Init, Kept, NoRevisions
  <1>9. Reading
    BY DEF Init, Reading, Empty
  <1> QED
    BY <1>5, <1>6, <1>7, <1>8, <1>9 DEF Inv

LEMMA ExtractInv ==
  ASSUME Inv, Extract
  PROVE  Inv'
  <1>1. /\ call < MaxCalls /\ call' = call + 1 /\ dumps' = Append(dumps, << >>)
        /\ status # "parsing" /\ status' = "parsing"
        /\ stored_pages_' = << >> /\ stored_revisions_' = NoRevisions
        /\ pages_written_' = 0 /\ revisions_written_' = 0
        /\ UNCHANGED << pages_output, revisions_output, pending, pos, read >>
    BY DEF Extract, FreshCounters, streams, reader
  <1>2. /\ dumps \in Seq(Seq(References)) /\ Len(dumps) = call /\ call \in 1 .. MaxCalls
        /\ Len(FlattenSeq(dumps)) <= MaxPages
        /\ pending = << >>
    BY <1>1 DEF Inv, Progress
  <1>3. /\ dumps' \in Seq(Seq(References))
        /\ FlattenSeq(dumps') = FlattenSeq(dumps)
        /\ FlattenSeq(dumps) \in Seq(References)
        /\ Revisions(dumps') = Revisions(dumps)
        /\ RevisionMessages(<< >>) = << >>
    BY <1>1, <1>2, NewDump
  <1>4. Len(dumps') = call' /\ dumps'[call'] = << >>
    <2>1. << >> \in Seq(References)
      OBVIOUS
    <2> QED
      BY <1>1, <1>2, <2>1, AppendProperties
  <1>5. Progress'
    <2>1. call' \in 1 .. MaxCalls
      BY <1>1, <1>2, BoundsAssumption
    <2>2. Len(FlattenSeq(dumps)) \in Nat
      BY <1>3
    <2>3. pending' = << >>
      BY <1>1, <1>2
    <2> QED
      BY <1>1, <1>2, <1>3, <1>4, <2>1, <2>2, <2>3 DEF Progress
  <1>6. Given'
    <2>1. AllPages' = AllPages /\ AllRevisions' = AllRevisions
      BY <1>3 DEF AllPages, AllRevisions, Revisions
    <2> QED
      BY <1>1, <2>1 DEF Inv, Given
  <1>7. Counted'
    BY <1>1, <1>2, <1>3, <1>4 DEF Counted
  <1>8. Kept' /\ Reading'
    BY <1>1 DEF Inv, Kept, Reading, NoRevisions
  <1> QED
    BY <1>5, <1>6, <1>7, <1>8 DEF Inv

\* Writing never takes a byte back.
LEMMA WriteLonger ==
  ASSUME NEW s, s.bytes \in Bytes, s.good \in BOOLEAN, NEW m \in Bytes,
         NEW t \in WriteMessage(s, m)
  PROVE  t.bytes \in Bytes /\ Len(s.bytes) <= Len(t.bytes)
  <1>1. ASSUME NEW u, u.bytes \in Bytes, u.good \in BOOLEAN, NEW c \in Bytes,
               NEW v \in Written(u, c)
        PROVE  v.bytes \in Bytes /\ v.good \in BOOLEAN /\ Len(u.bytes) <= Len(v.bytes)
    <2>1. CASE v = u
      BY <1>1, <2>1 DEF Bytes
    <2>2. CASE v = [bytes |-> u.bytes \o c, good |-> TRUE]
      <3>1. u.bytes \o c \in Bytes /\ Len(u.bytes \o c) = Len(u.bytes) + Len(c)
        BY <1>1, ConcatIndices DEF Bytes
      <3> QED
        BY <1>1, <2>2, <3>1 DEF Bytes
    <2>3. ASSUME NEW n \in 0 .. Len(c), v = [bytes |-> u.bytes \o SubSeq(c, 1, n), good |-> FALSE]
          PROVE  v.bytes \in Bytes /\ v.good \in BOOLEAN /\ Len(u.bytes) <= Len(v.bytes)
      <3> DEFINE part == SubSeq(c, 1, n)
      <3>1. part \in Seq(Nat)
        BY DEF Bytes
      <3> HIDE DEF part
      <3>2. /\ u.bytes \o part \in Seq(Nat)
            /\ Len(u.bytes \o part) = Len(u.bytes) + Len(part)
        BY <1>1, <3>1, ConcatIndices DEF Bytes
      <3>3. Len(part) \in Nat /\ Len(u.bytes) \in Nat
        BY <1>1, <3>1 DEF Bytes
      <3>4. v.bytes = u.bytes \o part /\ v.good = FALSE
        BY <2>3 DEF part
      <3>5. v.bytes \in Bytes /\ v.good \in BOOLEAN
        BY <3>2, <3>4 DEF Bytes
      <3>6. Len(v.bytes) = Len(u.bytes) + Len(part)
        BY <3>2, <3>4
      <3>7. Len(u.bytes) <= Len(v.bytes)
        BY <3>3, <3>6
      <3> QED
        BY <3>5, <3>7
    <2> QED
      BY <1>1, <2>1, <2>2, <2>3 DEF Written
  <1>2. PICK u \in Written(s, Header(Len(m))) : t \in Written(u, Serialized(m))
    BY DEF WriteMessage
  <1>3. Header(Len(m)) \in Bytes /\ Serialized(m) \in Bytes
    BY FrameType
  <1>4. u.bytes \in Bytes /\ u.good \in BOOLEAN /\ Len(s.bytes) <= Len(u.bytes)
    BY <1>1, <1>2, <1>3
  <1>5. t.bytes \in Bytes /\ Len(u.bytes) <= Len(t.bytes)
    BY <1>1, <1>2, <1>3, <1>4
  <1> QED
    BY <1>4, <1>5 DEF Bytes

LEMMA EndPageInv ==
  ASSUME Inv, NEW refs \in References, EndPage(refs)
  PROVE  Inv'
  <1> DEFINE d == dumps[call]
             p == Len(d) + 1
             es == [dumps EXCEPT ![Len(dumps)] = Append(@, refs)]
  <1>1. /\ status = "parsing" /\ pending = << >>
        /\ Len(FlattenSeq(dumps)) < MaxPages
        /\ stored_pages_' = Append(stored_pages_, refs)
        /\ stored_revisions_' = Inserted(refs, p)
        /\ pending' = Records(refs, p)
        /\ pages_output' \in WriteMessage(pages_output, Ascending(refs))
        /\ pages_written_' = pages_written_ + 1
        /\ dumps' = [dumps EXCEPT ![call] = Append(@, refs)]
        /\ UNCHANGED << revisions_output, revisions_written_, status, call, pos, read >>
    BY DEF EndPage, Store, reader
  <1>2. /\ dumps \in Seq(Seq(References)) /\ Len(dumps) = call /\ call \in 1 .. MaxCalls
        /\ Len(d) <= Len(FlattenSeq(dumps)) /\ dumps # << >> /\ d \in Seq(References)
    BY DEF Inv, Progress
  <1>3. dumps' = es
    BY <1>1, <1>2
  <1>4. /\ dumps' \in Seq(Seq(References)) /\ Len(dumps') = call
        /\ dumps'[call] = Append(d, refs)
        /\ FlattenSeq(dumps') = Append(FlattenSeq(dumps), refs)
        /\ Revisions(dumps') = Revisions(dumps) \o Records(refs, p)
    BY <1>2, <1>3, NewPage
  <1>5. /\ FlattenSeq(dumps) \in Seq(References) /\ Ascending(refs) \in Bytes
        /\ Len(FlattenSeq(dumps)) \in Nat /\ Len(d) \in Nat /\ p \in Nat
    <2>1. FlattenSeq(dumps) \in Seq(References) /\ Ascending(refs) \in Bytes
      BY <1>2, NewDump, ReferencesType
    <2> QED
      BY <1>2, <2>1
  <1>6. /\ Len(FlattenSeq(dumps')) = Len(FlattenSeq(dumps)) + 1
        /\ Len(dumps'[call]) = p
    BY <1>2, <1>4, <1>5, AppendProperties
  <1>7. /\ pending' \in Seq(RevIds \X {p}) /\ pending' \in Seq(RevisionRecords)
    BY <1>1, <1>5, RecordsType
  <1> HIDE DEF es, d, p
  <1>8. Progress'
    <2>1. p \in 1 .. MaxPages
      BY <1>1, <1>2, <1>5, BoundsAssumption DEF p
    <2>2. pending' \in Seq(RevIds \X (1 .. MaxPages))
      BY <1>7, <2>1, SeqMonotonic
    <2>3. Len(dumps'[call]) <= Len(FlattenSeq(dumps')) /\ Len(FlattenSeq(dumps')) <= MaxPages
      BY <1>1, <1>2, <1>5, <1>6, BoundsAssumption DEF p
    <2> QED
      BY <1>1, <1>2, <1>4, <2>2, <2>3 DEF Progress
  <1>9. Given'
    <2>1. PageMessages(FlattenSeq(dumps)) \in Seq(Bytes)
      BY <1>5, PagesType
    <2>2. AllPages' = Append(AllPages, Ascending(refs)) /\ AllPages \in Seq(Bytes)
      BY <1>4, <1>5, <2>1, PagesAppend DEF AllPages
    <2>3. Holds(pages_output, Frames(AllPages))
      BY DEF Inv, Given
    <2>4. Holds(pages_output', Frames(AllPages'))
      BY <1>1, <1>5, <2>2, <2>3, WriteHolds
    <2>5. PICK sent \in Seq(RevisionRecords) :
            AllRevisions = sent \o << >> /\ Holds(revisions_output, Frames(sent))
      BY <1>1 DEF Inv, Given
    <2>6. AllRevisions' = sent \o pending'
      <3>1. AllRevisions = Revisions(dumps) /\ AllRevisions' = Revisions(dumps')
        BY DEF AllRevisions, Revisions
      <3>2. sent \o << >> = sent
        OBVIOUS
      <3> QED
        BY <1>1, <1>4, <2>5, <3>1, <3>2
    <2> QED
      BY <1>1, <2>4, <2>5, <2>6 DEF Given
  <1>10. Counted'
    <2>1. RevisionMessages(dumps'[call]) = RevisionMessages(d) \o pending'
      BY <1>1, <1>2, <1>4, RevisionsAppend DEF p
    <2>2. RevisionMessages(d) \in Seq(RevisionRecords)
      BY <1>2, RecordListsType
    <2>3. /\ Len(RevisionMessages(dumps'[call])) = Len(RevisionMessages(d)) + Len(pending')
          /\ Len(RevisionMessages(d)) \in Nat /\ Len(pending') \in Nat
      BY <1>7, <2>1, <2>2, ConcatIndices
    <2>4. /\ revisions_written_ \in Nat
          /\ revisions_written_ + Len(<< >>) = Len(RevisionMessages(d))
          /\ pages_written_ = Len(d)
      BY <1>1 DEF Inv, Counted, d
    <2>5. Len(<< >>) = 0
      OBVIOUS
    <2> QED
      BY <1>1, <1>6, <2>3, <2>4, <2>5 DEF Counted, p
  <1>11. Kept'
    <2>1. stored_pages_' \in Seq(References)
      BY <1>1, AppendProperties DEF Inv, Kept
    <2>2. DOMAIN stored_revisions_' = DOMAIN stored_revisions_ \cup refs
      BY <1>1 DEF Inserted
    <2> QED
      BY <2>1, <2>2, ReferencesType DEF Inv, Kept
  <1>12. Reading'
    <2>1. pages_output.bytes \in Bytes /\ pages_output.good \in BOOLEAN
      BY DEF Inv, Given, Holds
    <2>2. pages_output'.bytes \in Bytes /\ Len(pages_output.bytes) <= Len(pages_output'.bytes)
      BY <1>1, <1>5, <2>1, WriteLonger
    <2>3. Len(pages_output.bytes) \in Nat /\ Len(pages_output'.bytes) \in Nat
      BY <2>1, <2>2 DEF Bytes
    <2> QED
      BY <1>1, <2>2, <2>3 DEF Inv, Reading
  <1> QED
    BY <1>8, <1>9, <1>10, <1>11, <1>12 DEF Inv

LEMMA StoreRevisionInv ==
  ASSUME Inv, StoreRevision
  PROVE  Inv'
  <1> DEFINE rev == Head(pending)
  <1>1. /\ pending # << >>
        /\ revisions_output' \in WriteMessage(revisions_output, rev)
        /\ revisions_written_' = revisions_written_ + 1
        /\ pending' = Tail(pending)
        /\ UNCHANGED << stored_pages_, stored_revisions_, pages_output, pages_written_, status,
                        call, dumps, pos, read >>
    BY DEF StoreRevision, RevisionWrites, Remaining, memory, reader
  <1>2. pending \in Seq(RevIds \X (1 .. MaxPages)) /\ status = "parsing"
    BY <1>1 DEF Inv, Progress
  <1>3. /\ rev \in RevIds \X (1 .. MaxPages)
        /\ pending' \in Seq(RevIds \X (1 .. MaxPages))
        /\ pending = << rev >> \o pending'
        /\ Len(pending) = Len(pending') + 1 /\ Len(pending') \in Nat
    BY <1>1, <1>2
  <1>4. RevIds \X (1 .. MaxPages) \subseteq RevisionRecords
    BY DEF RevisionRecords
  <1>5. rev \in RevisionRecords /\ rev \in Bytes /\ pending' \in Seq(RevisionRecords)
    <2>1. pending' \in Seq(RevisionRecords)
      BY <1>3, <1>4, SeqMonotonic
    <2> QED
      BY <1>3, <1>4, <2>1, RecordsBytes
  <1> HIDE DEF rev
  <1>6. Progress'
    BY <1>1, <1>2, <1>3 DEF Inv, Progress
  <1>7. Given'
    <2>1. PICK sent \in Seq(RevisionRecords) :
            AllRevisions = sent \o pending /\ Holds(revisions_output, Frames(sent))
      BY DEF Inv, Given
    <2> DEFINE sent2 == Append(sent, rev)
    <2>2. sent2 \in Seq(RevisionRecords) /\ sent \in Seq(Bytes)
      <3>1. sent \in Seq(Bytes)
        BY RecordsBytes, SeqMonotonic
      <3> QED
        BY <1>5, <3>1, AppendProperties
    <2>3. Holds(revisions_output', Frames(sent2))
      BY <1>1, <1>5, <2>1, <2>2, WriteHolds
    <2>4. sent \o (<< rev >> \o pending') = sent2 \o pending'
      <3>1. sent2 = sent \o << rev >> /\ << rev >> \in Seq(RevisionRecords)
        BY <1>5, AppendConcat
      <3> QED
        BY <1>5, <3>1, ConcatAssociative
    <2>5. AllRevisions' = AllRevisions /\ AllPages' = AllPages
      BY <1>1 DEF AllRevisions, AllPages
    <2> HIDE DEF sent2
    <2>6. AllRevisions' = sent2 \o pending'
      BY <1>3, <2>1, <2>4, <2>5
    <2> QED
      BY <1>1, <2>2, <2>3, <2>5, <2>6 DEF Inv, Given
  <1>8. Counted'
    BY <1>1, <1>3 DEF Inv, Counted
  <1>9. Kept' /\ Reading'
    BY <1>1 DEF Inv, Kept, Reading
  <1> QED
    BY <1>6, <1>7, <1>8, <1>9 DEF Inv

LEMMA EndInv ==
  ASSUME Inv, Return \/ Throw
  PROVE  Inv'
  <1>1. /\ pending = << >> /\ status' \in {"returned", "threw"}
        /\ \/ UNCHANGED << stored_pages_, stored_revisions_ >>
           \/ stored_pages_' = << >> /\ stored_revisions_' = NoRevisions
        /\ UNCHANGED << pages_output, revisions_output, pages_written_, revisions_written_,
                        pending, call, dumps, pos, read >>
    BY DEF Return, Throw, memory, streams, counters, reader
  <1>2. Progress'
    BY <1>1 DEF Inv, Progress
  <1>3. Given'
    BY <1>1 DEF Inv, Given, AllPages, AllRevisions
  <1>4. Counted'
    BY <1>1 DEF Inv, Counted
  <1>5. Kept'
    <2>1. DOMAIN NoRevisions = {} /\ << >> \in Seq(References)
      BY DEF NoRevisions
    <2> QED
      BY <1>1, <2>1 DEF Inv, Kept
  <1>6. Reading'
    BY <1>1 DEF Inv, Reading
  <1> QED
    BY <1>2, <1>3, <1>4, <1>5, <1>6 DEF Inv

-----------------------------------------------------------------------------
(* Reading back. *)

\* The lesser of two numbers.
LEMMA MinTwo ==
  ASSUME NEW a \in Nat, NEW b \in Nat
  PROVE  /\ Min({a, b}) \in Nat /\ Min({a, b}) <= a /\ Min({a, b}) <= b
         /\ Min({a, b}) \in {a, b}
  <1>1. \E x \in {a, b} : \A y \in {a, b} : x <= y
    OBVIOUS
  <1>2. Min({a, b}) \in {a, b} /\ \A y \in {a, b} : Min({a, b}) <= y
    BY <1>1 DEF Min
  <1> QED
    BY <1>2

\* The reader sees no more than there is.
LEMMA VisibleType ==
  ASSUME NEW b \in Bytes
  PROVE  Visible(b) \in Bytes /\ Len(Visible(b)) \in Nat /\ Len(Visible(b)) <= Len(b)
  <1>1. Len(b) \in Nat /\ ReadLimit \in Nat
    BY LimitsAssumption DEF Bytes
  <1> DEFINE n == Min({Len(b), ReadLimit})
  <1>2. n \in 0 .. Len(b)
    BY <1>1, MinTwo
  <1> HIDE DEF n
  <1>3. SubSeq(b, 1, n) \in Seq(Nat) /\ Len(SubSeq(b, 1, n)) = n
    BY <1>1, <1>2 DEF Bytes
  <1>4. Visible(b) = SubSeq(b, 1, n)
    BY DEF Visible, n
  <1> QED
    BY <1>1, <1>2, <1>3, <1>4 DEF Bytes

\* The reader stays within what it may see.
LEMMA ReadType ==
  ASSUME NEW b \in Bytes, NEW at \in Nat, NEW r \in ReadMessage(b, at)
  PROVE  r.message \in Bytes /\ r.pos \in 0 .. Len(b)
  <1> DEFINE body == Min({at + HeaderSize, Len(b)})
             sizes == IF at + HeaderSize <= Len(b) THEN { Decoded(b, at) } ELSE 0 .. MaxSize
             ends == UNION { IF n <= IntMax THEN { Min({body + n, Len(b)}) } ELSE body .. Len(b)
                             : n \in sizes }
  <1>1. Len(b) \in Nat /\ b \in Seq(Nat)
    BY DEF Bytes
  <1>2. body \in 0 .. Len(b)
    BY <1>1, MinTwo DEF HeaderSize
  <1>3. ASSUME NEW n \in sizes PROVE n \in Nat
    <2>1. CASE at + HeaderSize <= Len(b)
      <3>1. at + 1 \in 1 .. Len(b) /\ at + HeaderSize \in 1 .. Len(b) /\ HeaderSize = 2
        BY <1>1, <2>1 DEF HeaderSize
      <3>2. /\ SubSeq(b, at + 1, at + HeaderSize)[1] = b[at + 1]
            /\ SubSeq(b, at + 1, at + HeaderSize)[2] = b[at + 2]
        BY <1>1, <3>1
      <3>3. b[at + 1] \in Nat /\ b[at + 2] \in Nat
        BY <1>1, <3>1
      <3>4. n = b[at + 1] * 4 + b[at + 2]
        BY <1>3, <2>1, <3>1, <3>2 DEF Decoded, Size, Base
      <3> QED
        BY <3>3, <3>4
    <2>2. CASE ~ (at + HeaderSize <= Len(b))
      BY <1>3, <2>2 DEF MaxSize, Base
    <2> QED
      BY <2>1, <2>2
  <1>4. PICK end \in ends : r = [message |-> SubSeq(b, body + 1, end), pos |-> end]
    BY DEF ReadMessage
  <1> HIDE DEF body, sizes
  <1>5. end \in 0 .. Len(b)
    <2>1. PICK n \in sizes : end \in IF n <= IntMax THEN { Min({body + n, Len(b)}) }
                                                    ELSE body .. Len(b)
      OBVIOUS
    <2>2. body + n \in Nat
      BY <1>2, <1>3
    <2>3. Min({body + n, Len(b)}) \in 0 .. Len(b)
      BY <1>1, <2>2, MinTwo
    <2> QED
      BY <1>1, <1>2, <2>1, <2>3
  <1>6. SubSeq(b, body + 1, end) \in Seq(Nat)
    BY <1>1, <1>2, <1>5
  <1> QED
    BY <1>4, <1>5, <1>6 DEF Bytes

LEMMA ReadPageInv ==
  ASSUME Inv, ReadPage
  PROVE  Inv'
  <1>1. PICK r \in ReadMessage(Visible(pages_output.bytes), pos) :
          pos' = r.pos /\ read' = Append(read, r.message)
    BY DEF ReadPage
  <1>2. UNCHANGED << stored_pages_, stored_revisions_, pages_output, revisions_output,
                     pages_written_, revisions_written_, pending, status, call, dumps >>
    BY DEF ReadPage, memory, streams, counters
  <1>3. pages_output.bytes \in Bytes /\ pos \in Nat /\ read \in Seq(Bytes)
    BY DEF Inv, Given, Holds, Reading
  <1>4. /\ Visible(pages_output.bytes) \in Bytes
        /\ Len(Visible(pages_output.bytes)) \in Nat
        /\ Len(Visible(pages_output.bytes)) <= Len(pages_output.bytes)
    BY <1>3, VisibleType
  <1>5. r.message \in Bytes /\ r.pos \in 0 .. Len(Visible(pages_output.bytes))
    BY <1>3, <1>4, ReadType
  <1>6. Reading'
    <2>1. Append(read, r.message) \in Seq(Bytes)
      BY <1>3, <1>5, AppendProperties
    <2>2. Len(pages_output.bytes) \in Nat
      BY <1>3 DEF Bytes
    <2> QED
      BY <1>1, <1>2, <1>4, <1>5, <2>1, <2>2 DEF Reading
  <1>7. Progress' /\ Given' /\ Counted' /\ Kept'
    BY <1>2 DEF Inv, Progress, Given, Counted, Kept, AllPages, AllRevisions
  <1> QED
    BY <1>6, <1>7 DEF Inv

\* So Inv is an invariant.
LEMMA NextInv == Inv /\ [Next]_vars => Inv'
  <1> SUFFICES ASSUME Inv, [Next]_vars PROVE Inv'
    OBVIOUS
  <1>1. ASSUME UNCHANGED vars PROVE Inv'
    BY <1>1 DEF Inv, Progress, Given, Counted, Kept, Reading, AllPages, AllRevisions,
       vars, memory, streams, counters, reader
  <1> QED
    BY <1>1, ExtractInv, EndPageInv, StoreRevisionInv, EndInv, ReadPageInv DEF Next

LEMMA Invariant == Spec => []Inv
  BY InitInv, NextInv, PTL DEF Spec

-----------------------------------------------------------------------------
(* How many messages a stream holds in full. *)

PartLength(ms, n) == Len(Frames(SubSeq(ms, 1, n)))

\* Every further message takes some bytes.
LEMMA PartLonger ==
  ASSUME NEW ms \in Seq(Bytes), NEW n \in 0 .. Len(ms)
  PROVE  /\ PartLength(ms, n) \in Nat
         /\ n < Len(ms) => PartLength(ms, n) < PartLength(ms, n + 1)
  <1> DEFINE part == SubSeq(ms, 1, n)
  <1>1. part \in Seq(Bytes) /\ Len(ms) \in Nat
    OBVIOUS
  <1>2. Frames(part) \in Seq(Nat) /\ Len(Frames(part)) \in Nat
    <2> HIDE DEF part
    <2>1. Frames(part) \in Seq(Nat)
      BY <1>1, FramesType DEF Bytes
    <2> QED
      BY <2>1
  <1>3. ASSUME n < Len(ms) PROVE Len(Frames(part)) < PartLength(ms, n + 1)
    <2>1. ms[n + 1] \in Bytes /\ SubSeq(ms, 1, n + 1) = Append(part, ms[n + 1])
      BY <1>1, <1>3
    <2> HIDE DEF part
    <2> DEFINE m == ms[n + 1]
    <2> HIDE DEF m
    <2>2. m \in Bytes /\ SubSeq(ms, 1, n + 1) = Append(part, m)
      BY <2>1 DEF m
    <2>3. Frames(Append(part, m)) = Frames(part) \o Frame(m)
      BY <1>1, <2>2, FramesAppend
    <2>4. Frame(m) \in Seq(Nat)
      BY <2>2, FrameType DEF Bytes
    <2>5. Len(Frames(Append(part, m))) = Len(Frames(part)) + Len(Frame(m))
      BY <1>2, <2>3, <2>4, ConcatIndices
    <2>6. Len(Frame(m)) \in Nat /\ Len(Frame(m)) >= 2
      <3>1. Serialized(m) \in Seq(Nat) /\ Header(Len(m)) \in Seq(Nat)
        BY <2>2, FrameType DEF Bytes
      <3>2. Len(Header(Len(m))) = 2
        BY DEF Header
      <3>3. Len(Frame(m)) = Len(Header(Len(m))) + Len(Serialized(m))
        BY <3>1, ConcatIndices DEF Frame
      <3>4. Len(Serialized(m)) \in Nat
        BY <3>1
      <3> QED
        BY <3>2, <3>3, <3>4
    <2>7. PartLength(ms, n + 1) = Len(Frames(part)) + Len(Frame(m))
      BY <2>2, <2>5 DEF PartLength
    <2> QED
      BY <1>2, <2>6, <2>7
  <1> QED
    BY <1>2, <1>3 DEF PartLength

\* Complete is well defined.
LEMMA CompleteType ==
  ASSUME NEW ms \in Seq(Bytes), NEW b \in Bytes
  PROVE  /\ Complete(b, ms) \in 0 .. Len(ms)
         /\ PartLength(ms, Complete(b, ms)) <= Len(b)
         /\ Complete(b, ms) < Len(ms) => PartLength(ms, Complete(b, ms) + 1) > Len(b)
  <1> DEFINE N == Len(ms)
             B == Len(b)
             Greatest(n) == PartLength(ms, n) <= B /\ (n < N => PartLength(ms, n + 1) > B)
             T == { n \in 0 .. N : PartLength(ms, n) <= B }
  <1>1. N \in Nat /\ B \in Nat
    BY DEF Bytes
  <1>2. \E n \in 0 .. N : Greatest(n)
    <2> SUFFICES ASSUME \A n \in 0 .. N : ~ Greatest(n) PROVE FALSE
      OBVIOUS
    <2>1. 0 \in T
      <3>1. SubSeq(ms, 1, 0) = << >>
        OBVIOUS
      <3>2. Frames(<< >>) = << >>
        BY FlattenEmpty DEF Frames
      <3>3. Frames(SubSeq(ms, 1, 0)) = << >> /\ PartLength(ms, 0) = Len(Frames(SubSeq(ms, 1, 0)))
        BY <3>1, <3>2 DEF PartLength
      <3>4. Len(<< >>) = 0
        OBVIOUS
      <3> HIDE DEF N, B
      <3> QED
        BY <1>1, <3>3, <3>4
    <2>2. \A n \in 0 .. N : PartLength(ms, n) \in Nat
      BY PartLonger
    <2> HIDE DEF N, B
    <2>3. ASSUME NEW n \in 0 .. N - 1, n \in T PROVE n + 1 \in T
      BY <1>1, <2>2, <2>3
    <2>4. 0 .. N \subseteq T
      <3> HIDE DEF T
      <3> QED
        BY <1>1, <2>1, <2>3, Induction
    <2>5. PartLength(ms, N) <= B
      BY <1>1, <2>4
    <2> QED
      BY <1>1, <2>5
  <1>3. Complete(b, ms) = CHOOSE n \in 0 .. N : Greatest(n)
    BY DEF Complete, PartLength
  <1> QED
    BY <1>2, <1>3

\* A stream that holds all frames holds all messages.
LEMMA CompleteAll ==
  ASSUME NEW ms \in Seq(Bytes)
  PROVE  Complete(Frames(ms), ms) = Len(ms)
  <1> DEFINE N == Len(ms)
             n == Complete(Frames(ms), ms)
             T == { k \in 0 .. N : PartLength(ms, k) > PartLength(ms, N) }
  <1>1. Frames(ms) \in Bytes /\ N \in Nat
    <2>1. N \in Nat
      OBVIOUS
    <2> QED
      BY <2>1, FramesType
  <1>2. PartLength(ms, N) = Len(Frames(ms))
    <2>1. SubSeq(ms, 1, N) = ms
      OBVIOUS
    <2> QED
      BY <2>1 DEF PartLength
  <1>3. /\ n \in 0 .. N
        /\ n < N => PartLength(ms, n + 1) > PartLength(ms, N)
    BY <1>1, <1>2, CompleteType
  <1> HIDE DEF n
  <1>4. \A k \in 0 .. N : /\ PartLength(ms, k) \in Nat
                          /\ k < N => PartLength(ms, k) < PartLength(ms, k + 1)
    BY PartLonger
  <1> HIDE DEF N
  <1>5. ASSUME n < N PROVE FALSE
    <2>1. n + 1 \in T /\ n + 1 \in Nat
      BY <1>1, <1>3, <1>5
    <2>2. ASSUME NEW k \in n + 1 .. N - 1, k \in T PROVE k + 1 \in T
      BY <1>1, <1>3, <1>4, <2>2
    <2> HIDE DEF T
    <2>3. n + 1 .. N \subseteq T
      BY <1>1, <2>1, <2>2, Induction
    <2>4. N \in T
      BY <1>1, <1>3, <1>5, <2>3
    <2> QED
      BY <1>1, <1>4, <2>4 DEF T
  <1> QED
    BY <1>1, <1>3, <1>5 DEF n, N

-----------------------------------------------------------------------------
(* The theorems. *)

\* What the dumps are made of.
LEMMA MessagesType ==
  ASSUME Progress
  PROVE  /\ FlattenSeq(dumps) \in Seq(References)
         /\ AllPages \in Seq(Bytes) /\ Len(AllPages) = Len(FlattenSeq(dumps))
         /\ AllRevisions \in Seq(RevisionRecords) /\ AllRevisions \in Seq(Bytes)
         /\ pending \in Seq(RevisionRecords)
         /\ \A c \in DOMAIN dumps : RevisionMessages(dumps[c]) \in Seq(RevisionRecords)
  <1>1. dumps \in Seq(Seq(References))
    BY DEF Progress
  <1>2. FlattenSeq(dumps) \in Seq(References)
    BY <1>1, NewDump
  <1>3. AllPages \in Seq(Bytes) /\ Len(AllPages) = Len(FlattenSeq(dumps))
    BY <1>2, PagesType DEF AllPages
  <1>4. AllRevisions \in Seq(RevisionRecords)
    BY <1>1, RevisionListsType DEF AllRevisions, Revisions
  <1>5. AllRevisions \in Seq(Bytes)
    BY <1>4, RecordsBytes, SeqMonotonic
  <1>6. pending \in Seq(RevisionRecords)
    <2>1. RevIds \X (1 .. MaxPages) \subseteq RevisionRecords
      BY DEF RevisionRecords
    <2> QED
      BY <2>1, SeqMonotonic DEF Progress
  <1>7. \A c \in DOMAIN dumps : dumps[c] \in Seq(References)
    BY <1>1
  <1> QED
    BY <1>2, <1>3, <1>4, <1>5, <1>6, <1>7, RecordListsType

\* StreamingDumpParser, its streams, its counters and the reader keep to their
\* types, and the reader stays within the stream, whatever size it finds there.
THEOREM TypeCorrect == Spec => []TypeOK
  <1>1. ASSUME Inv PROVE TypeOK
    <2>1. Progress /\ Given /\ Counted /\ Kept /\ Reading
      BY <1>1 DEF Inv
    <2>2. call \in DOMAIN dumps
      BY <2>1 DEF Progress
    <2>3. Len(RevisionMessages(dumps[call])) \in Nat /\ Len(pending) \in Nat
      BY <2>1, <2>2, MessagesType
    <2>4. revisions_written_ \in 0 .. Len(RevisionMessages(dumps[call]))
      BY <2>1, <2>3 DEF Counted
    <2>5. pages_written_ \in 0 .. MaxPages
      <3>1. Len(dumps[call]) \in Nat /\ Len(FlattenSeq(dumps)) \in Nat
        BY <2>1, <2>2, MessagesType DEF Progress
      <3> QED
        BY <2>1, <3>1, BoundsAssumption DEF Counted, Progress
    <2> QED
      BY <2>1, <2>4, <2>5 DEF TypeOK, Progress, Given, Holds, Kept, Reading, Bytes
  <1> QED
    BY <1>1, Invariant, PTL

\* Neither stream ever has a gap: what it holds is a prefix of what it would hold
\* had nothing failed.
THEOREM GapFree == Spec => []NoGap
  <1>1. ASSUME Inv PROVE NoGap
    <2>1. Progress /\ Given
      BY <1>1 DEF Inv
    <2>2. PICK sent \in Seq(RevisionRecords) :
            AllRevisions = sent \o pending /\ Holds(revisions_output, Frames(sent))
      BY <2>1 DEF Given
    <2>3. sent \in Seq(Bytes) /\ pending \in Seq(Bytes)
      BY <2>1, MessagesType, RecordsBytes, SeqMonotonic
    <2>4. Frames(AllRevisions) = Frames(sent) \o Frames(pending)
      BY <2>2, <2>3, FramesConcat
    <2>5. Frames(sent) \in Seq(Nat) /\ Frames(pending) \in Seq(Nat)
      BY <2>3, FramesType DEF Bytes
    <2>6. IsPrefix(revisions_output.bytes, Frames(AllRevisions))
      BY <2>2, <2>4, <2>5, PrefixConcat DEF Holds, Bytes
    <2> QED
      BY <2>1, <2>6 DEF NoGap, Given, Holds
  <1> QED
    BY <1>1, Invariant, PTL

\* On streams that have not failed, the counts a call returns are the pages and the
\* revisions of its own dump, and the streams hold all of every dump.
THEOREM CountsCorrect == Spec => []SoundCounts
  <1>1. ASSUME Inv, Sound, status # "parsing"
        PROVE  /\ pages_written_ = Len(dumps[call])
               /\ revisions_written_ = Len(RevisionMessages(dumps[call]))
               /\ Complete(pages_output.bytes, AllPages) = Len(AllPages)
               /\ Complete(revisions_output.bytes, AllRevisions) = Len(AllRevisions)
    <2>1. Progress /\ Given /\ Counted
      BY <1>1 DEF Inv
    <2>2. pending = << >> /\ Len(<< >>) = 0
      BY <1>1, <2>1 DEF Progress
    <2>3. pages_output.bytes = Frames(AllPages)
      BY <1>1, <2>1 DEF Sound, Given, Holds
    <2>4. revisions_output.bytes = Frames(AllRevisions)
      <3>1. PICK sent \in Seq(RevisionRecords) :
              AllRevisions = sent \o << >> /\ Holds(revisions_output, Frames(sent))
        BY <2>1, <2>2 DEF Given
      <3>2. AllRevisions = sent
        BY <3>1
      <3> QED
        BY <1>1, <3>1, <3>2 DEF Sound, Holds
    <2>5. AllPages \in Seq(Bytes) /\ AllRevisions \in Seq(Bytes)
      BY <2>1, MessagesType
    <2> QED
      BY <2>1, <2>2, <2>3, <2>4, <2>5, CompleteAll DEF Counted
  <1>2. Inv => SoundCounts
    BY <1>1 DEF SoundCounts
  <1> QED
    BY <1>2, Invariant, PTL

\* The records of a page of some dump are among all revisions.
LEMMA PageRevisions ==
  ASSUME Progress, NEW k \in 1 .. Len(FlattenSeq(dumps)), NEW r \in FlattenSeq(dumps)[k]
  PROVE  \E rev \in ToSet(AllRevisions) : rev[1] = r
  <1>1. dumps \in Seq(Seq(References)) /\ FlattenSeq(dumps) \in Seq(References)
    BY MessagesType DEF Progress
  <1> DEFINE refs == FlattenSeq(dumps)[k]
  <1>2. refs \in ToSet(FlattenSeq(dumps))
    BY <1>1 DEF ToSet
  <1>3. ToSet(FlattenSeq(dumps)) = UNION { ToSet(dumps[c]) : c \in DOMAIN dumps }
    BY <1>1, FlattenElements
  <1> HIDE DEF refs
  <1>4. PICK c \in DOMAIN dumps : refs \in ToSet(dumps[c])
    BY <1>2, <1>3
  <1>5. dumps[c] \in Seq(References)
    BY <1>1
  <1>6. PICK j \in DOMAIN dumps[c] : dumps[c][j] = refs
    BY <1>4 DEF ToSet
  <1>7. refs \in References /\ j \in Nat
    BY <1>5, <1>6
  <1> DEFINE x == << r, j >>
             rs == [ i \in DOMAIN dumps[c] |-> Records(dumps[c][i], i) ]
             all == [ i \in DOMAIN dumps |-> RevisionMessages(dumps[i]) ]
  <1>8. x \in ToSet(Records(refs, j))
    <2>1. ToSet(Records(refs, j)) = { << q, j >> : q \in refs }
      BY <1>7, RecordsType
    <2> QED
      BY <2>1 DEF refs
  <1>9. j \in DOMAIN rs /\ rs[j] = Records(refs, j) /\ c \in DOMAIN all /\ all[c] = RevisionMessages(dumps[c])
    BY <1>6
  <1>10. rs \in Seq(Seq(RevisionRecords)) /\ all \in Seq(Seq(RevisionRecords))
    BY <1>1, <1>5, RecordListsType, RevisionListsType
  <1>11. RevisionMessages(dumps[c]) = FlattenSeq(rs) /\ AllRevisions = FlattenSeq(all)
    BY DEF RevisionMessages, AllRevisions
  <1> HIDE DEF x, rs, all
  <1>12. x \in ToSet(RevisionMessages(dumps[c]))
    <2>1. ToSet(FlattenSeq(rs)) = UNION { ToSet(rs[i]) : i \in DOMAIN rs }
      BY <1>10, FlattenElements
    <2> QED
      BY <1>8, <1>9, <1>11, <2>1
  <1>13. x \in ToSet(AllRevisions)
    <2>1. ToSet(FlattenSeq(all)) = UNION { ToSet(all[i]) : i \in DOMAIN all }
      BY <1>10, FlattenElements
    <2> QED
      BY <1>9, <1>11, <1>12, <2>1
  <1> QED
    BY <1>13 DEF x

\* While no Store is under way and the revisions stream has not failed, it holds
\* every revision a page in the pages stream refers to, also after an exception.
THEOREM ConsistentStreams == Spec => []Consistent
  <1>1. ASSUME Inv, pending = << >>, revisions_output.good = TRUE
        PROVE  LET there == SubSeq(AllRevisions, 1, Complete(revisions_output.bytes, AllRevisions)) IN
               \A k \in 1 .. Complete(pages_output.bytes, AllPages) :
                 FlattenSeq(dumps)[k] \subseteq { rev[1] : rev \in ToSet(there) }
    <2>1. Progress /\ Given
      BY <1>1 DEF Inv
    <2>2. /\ AllPages \in Seq(Bytes) /\ Len(AllPages) = Len(FlattenSeq(dumps))
          /\ AllRevisions \in Seq(Bytes) /\ FlattenSeq(dumps) \in Seq(References)
      BY <2>1, MessagesType
    <2>3. revisions_output.bytes = Frames(AllRevisions)
      <3>1. PICK sent \in Seq(RevisionRecords) :
              AllRevisions = sent \o << >> /\ Holds(revisions_output, Frames(sent))
        BY <1>1, <2>1 DEF Given
      <3>2. AllRevisions = sent
        BY <3>1
      <3> QED
        BY <1>1, <3>1, <3>2 DEF Holds
    <2>4. Complete(revisions_output.bytes, AllRevisions) = Len(AllRevisions)
      BY <2>2, <2>3, CompleteAll
    <2>5. SubSeq(AllRevisions, 1, Len(AllRevisions)) = AllRevisions
      BY <2>2
    <2>6. Complete(pages_output.bytes, AllPages) \in 0 .. Len(AllPages)
      BY <2>1, <2>2, CompleteType DEF Given, Holds
    <2>7. ASSUME NEW k \in 1 .. Complete(pages_output.bytes, AllPages),
                 NEW r \in FlattenSeq(dumps)[k]
          PROVE  \E rev \in ToSet(AllRevisions) : rev[1] = r
      <3>1. k \in 1 .. Len(FlattenSeq(dumps))
        BY <2>2, <2>6
      <3> QED
        BY <2>1, <3>1, PageRevisions
    <2> QED
      BY <2>4, <2>5, <2>7
  <1>2. ASSUME Inv PROVE Consistent
    BY <1>1, <1>2 DEF Consistent, Inv, Given, Holds
  <1> QED
    BY <1>2, Invariant, PTL

-----------------------------------------------------------------------------
(* What the reader finds in a stream that holds a prefix of some frames. *)

\* The size of a message that is written, as a reader decodes it.
LEMMA SizeOfHeader ==
  ASSUME NEW n \in 0 .. IntMax
  PROVE  ((n \div Base) % Base) * Base + (n % Base) = n
  <1>1. n \in Nat /\ n <= 15
    BY SizeAssumption, LimitsAssumption DEF MaxSize, Base
  <1>2. (n \div 4) % 4 = n \div 4
    BY <1>1
  <1>3. (n \div 4) * 4 + (n % 4) = n
    BY <1>1
  <1> QED
    BY <1>2, <1>3 DEF Base

\* The second of two sequences, in both of them together.
LEMMA SecondPart ==
  ASSUME NEW S, NEW s \in Seq(S), NEW t \in Seq(S)
  PROVE  \A j \in 1 .. Len(t) : (s \o t)[Len(s) + j] = t[j]
  OBVIOUS

\* The elements of a part of a sequence.
LEMMA PartOf ==
  ASSUME NEW S, NEW s \in Seq(S), NEW a \in Nat, NEW e \in Nat, a <= e, e <= Len(s)
  PROVE  /\ SubSeq(s, a + 1, e) \in Seq(S) /\ Len(SubSeq(s, a + 1, e)) = e - a
         /\ \A j \in 1 .. e - a : SubSeq(s, a + 1, e)[j] = s[a + j]
  OBVIOUS

\* An element and what is behind it.
LEMMA RestOf ==
  ASSUME NEW S, NEW s \in Seq(S), NEW k \in Nat, k + 1 <= Len(s)
  PROVE  << s[k + 1] >> \o SubSeq(s, k + 2, Len(s)) = SubSeq(s, k + 1, Len(s))
  OBVIOUS

\* A sequence before, at and behind one of its elements.
LEMMA SplitAt ==
  ASSUME NEW S, NEW s \in Seq(S), NEW k \in Nat, k + 1 <= Len(s)
  PROVE  /\ s[k + 1] \in S
         /\ SubSeq(s, 1, k) \in Seq(S) /\ SubSeq(s, 1, k + 1) \in Seq(S)
         /\ SubSeq(s, k + 2, Len(s)) \in Seq(S)
         /\ SubSeq(s, 1, k + 1) = Append(SubSeq(s, 1, k), s[k + 1])
         /\ s = SubSeq(s, 1, k + 1) \o SubSeq(s, k + 2, Len(s))
  <1> DEFINE n == k + 1
             a == SubSeq(s, 1, n)
             z == SubSeq(s, n + 1, Len(s))
  <1>1. n \in Nat /\ n <= Len(s) /\ Len(s) \in Nat /\ n + 1 = k + 2
    OBVIOUS
  <1>2. /\ a \in Seq(S) /\ Len(a) = n /\ \A j \in 1 .. n : a[j] = s[j]
    BY <1>1
  <1>3. /\ z \in Seq(S) /\ Len(z) = Len(s) - n
        /\ \A j \in 1 .. Len(s) - n : z[j] = s[n + j]
    <2> HIDE DEF n
    <2> QED
      BY <1>1, PartOf
  <1>4. SubSeq(s, 1, k) \in Seq(S) /\ s[k + 1] \in S
    OBVIOUS
  <1>5. SubSeq(s, 1, k + 1) = Append(SubSeq(s, 1, k), s[k + 1])
    OBVIOUS
  <1> HIDE DEF n, a, z
  <1>6. s = a \o z
    <2>1. /\ Len(s) = Len(a) + Len(z)
          /\ \A j \in 1 .. Len(a) : s[j] = a[j]
          /\ \A j \in 1 .. Len(z) : s[Len(a) + j] = z[j]
      BY <1>1, <1>2, <1>3
    <2> QED
      BY <1>2, <1>3, <2>1, ConcatEqual
  <1>7. a = SubSeq(s, 1, k + 1) /\ z = SubSeq(s, k + 2, Len(s))
    BY <1>1 DEF a, z, n
  <1> QED
    BY <1>2, <1>3, <1>4, <1>5, <1>6, <1>7

\* The bytes of a frame.
LEMMA FrameBytes ==
  ASSUME NEW m \in Bytes, Serializable(m)
  PROVE  /\ Frame(m) \in Bytes /\ Len(m) \in Nat /\ Len(Frame(m)) = 2 + Len(m)
         /\ Frame(m)[1] * Base + Frame(m)[2] = Len(m)
         /\ \A j \in 1 .. Len(m) : Frame(m)[2 + j] = m[j]
  <1> DEFINE h == Header(Len(m))
  <1>1. m \in Seq(Nat) /\ h \in Seq(Nat) /\ Frame(m) \in Bytes
    BY FrameType DEF Bytes
  <1>2. /\ Len(h) = 2 /\ h[1] = (Len(m) \div Base) % Base /\ h[2] = Len(m) % Base
    BY DEF Header
  <1>3. Frame(m) = h \o m
    BY DEF Frame, Serialized
  <1>4. Len(m) \in 0 .. IntMax
    BY <1>1, LimitsAssumption DEF Serializable
  <1> HIDE DEF h
  <1>5. Len(h \o m) = 2 + Len(m) /\ (h \o m)[1] = h[1] /\ (h \o m)[2] = h[2]
    <2>1. 1 \in 1 .. Len(h) /\ 2 \in 1 .. Len(h)
      BY <1>2
    <2>2. /\ Len(h \o m) = Len(h) + Len(m)
          /\ \A j \in 1 .. Len(h) : (h \o m)[j] = h[j]
      BY <1>1, ConcatIndices
    <2> QED
      BY <1>2, <2>1, <2>2
  <1>6. \A j \in 1 .. Len(m) : (h \o m)[2 + j] = m[j]
    <2>1. \A j \in 1 .. Len(m) : (h \o m)[Len(h) + j] = m[j]
      BY <1>1, SecondPart
    <2> QED
      BY <1>2, <2>1
  <1> QED
    BY <1>1, <1>2, <1>3, <1>4, <1>5, <1>6, SizeOfHeader

\* Where the frame of a message is.
LEMMA FrameAt ==
  ASSUME NEW ms \in Seq(Bytes), NEW k \in 0 .. Len(ms) - 1
  PROVE  /\ ms[k + 1] \in Bytes
         /\ PartLength(ms, k) \in Nat /\ Len(Frame(ms[k + 1])) \in Nat
         /\ PartLength(ms, k + 1) = PartLength(ms, k) + Len(Frame(ms[k + 1]))
         /\ PartLength(ms, k + 1) <= Len(Frames(ms))
         /\ \A j \in 1 .. Len(Frame(ms[k + 1])) :
              Frames(ms)[PartLength(ms, k) + j] = Frame(ms[k + 1])[j]
  <1> DEFINE m == ms[k + 1]
             part == SubSeq(ms, 1, k)
             upto == SubSeq(ms, 1, k + 1)
             rest == SubSeq(ms, k + 2, Len(ms))
  <1>1. /\ m \in Bytes /\ part \in Seq(Bytes) /\ rest \in Seq(Bytes) /\ upto \in Seq(Bytes)
        /\ upto = Append(part, m) /\ ms = upto \o rest
    <2>1. k \in Nat /\ k + 1 <= Len(ms)
      OBVIOUS
    <2> QED
      BY <2>1, SplitAt
  <1> HIDE DEF m, part, upto, rest
  <1> DEFINE P == Frames(part)
             f == Frame(m)
             R == Frames(rest)
  <1>2. P \in Seq(Nat) /\ f \in Seq(Nat) /\ R \in Seq(Nat)
    BY <1>1, FramesType, FrameType DEF Bytes
  <1>3. Frames(upto) = P \o f /\ Frames(ms) = Frames(upto) \o R
    BY <1>1, FramesAppend, FramesConcat
  <1> HIDE DEF P, f, R
  <1>4. Frames(ms) = (P \o f) \o R
    BY <1>3
  <1>5. /\ Len(P) \in Nat /\ Len(f) \in Nat /\ Len(R) \in Nat /\ Len(P \o f) = Len(P) + Len(f)
        /\ Len((P \o f) \o R) = Len(P) + Len(f) + Len(R)
    BY <1>2
  <1>6. \A j \in 1 .. Len(f) : ((P \o f) \o R)[Len(P) + j] = f[j]
    BY <1>2
  <1>7. PartLength(ms, k) = Len(P) /\ PartLength(ms, k + 1) = Len(P \o f)
    BY <1>3 DEF PartLength, part, upto, P
  <1>8. PartLength(ms, k + 1) <= Len(Frames(ms))
    BY <1>4, <1>5, <1>7
  <1> QED
    BY <1>1, <1>4, <1>5, <1>6, <1>7, <1>8 DEF f, m

\* Where all of it ends, and where it begins.
LEMMA PartEnds ==
  ASSUME NEW ms \in Seq(Bytes)
  PROVE  PartLength(ms, Len(ms)) = Len(Frames(ms)) /\ PartLength(ms, 0) = 0
  <1>1. SubSeq(ms, 1, Len(ms)) = ms /\ SubSeq(ms, 1, 0) = << >> /\ Len(<< >>) = 0
    OBVIOUS
  <1>2. Frames(<< >>) = << >>
    BY FlattenEmpty DEF Frames
  <1>3. Len(Frames(SubSeq(ms, 1, 0))) = 0
    BY <1>1, <1>2
  <1> QED
    BY <1>1, <1>3 DEF PartLength

\* Fewer messages take fewer bytes.
LEMMA PartMonotonic ==
  ASSUME NEW ms \in Seq(Bytes), NEW j \in 0 .. Len(ms), NEW k \in j .. Len(ms)
  PROVE  PartLength(ms, j) <= PartLength(ms, k)
  <1> DEFINE N == Len(ms)
             T == { i \in 0 .. N : PartLength(ms, j) <= PartLength(ms, i) }
  <1>1. N \in Nat /\ j \in Nat
    OBVIOUS
  <1>2. \A i \in 0 .. N : /\ PartLength(ms, i) \in Nat
                          /\ i < N => PartLength(ms, i) < PartLength(ms, i + 1)
    BY PartLonger
  <1> HIDE DEF N
  <1>3. j \in 0 .. N /\ k \in j .. N
    BY DEF N
  <1>4. j \in T
    BY <1>2, <1>3
  <1>5. ASSUME NEW i \in j .. N - 1, i \in T PROVE i + 1 \in T
    BY <1>1, <1>2, <1>3, <1>5
  <1> HIDE DEF T
  <1>6. j .. N \subseteq T
    BY <1>1, <1>4, <1>5, Induction
  <1> QED
    BY <1>3, <1>6 DEF T

\* The lesser of two numbers, as a case distinction.
LEMMA MinCases ==
  ASSUME NEW a \in Nat, NEW b \in Nat
  PROVE  Min({a, b}) = IF a <= b THEN a ELSE b
  BY MinTwo

\* Where a message of n bytes may end that begins after body bytes of b.
EndsOf(b, body, n) ==
  IF n <= IntMax THEN { Min({body + n, Len(b)}) } ELSE body .. Len(b)

\* What a reader does with a size, and without one.
LEMMA ReadEnds ==
  ASSUME NEW b \in Bytes, NEW at \in Nat, NEW r \in ReadMessage(b, at)
  PROVE  /\ at + 2 <= Len(b) =>
              \E end \in EndsOf(b, at + 2, Decoded(b, at)) :
                r = [message |-> SubSeq(b, at + 2 + 1, end), pos |-> end]
         /\ Len(b) < at + 2 =>
              \E n \in 0 .. MaxSize : \E end \in EndsOf(b, Len(b), n) :
                r = [message |-> SubSeq(b, Len(b) + 1, end), pos |-> end]
  <1> DEFINE body == Min({at + HeaderSize, Len(b)})
             sizes == IF at + HeaderSize <= Len(b) THEN { Decoded(b, at) } ELSE 0 .. MaxSize
             ends == UNION { IF n <= IntMax THEN { Min({body + n, Len(b)}) } ELSE body .. Len(b)
                             : n \in sizes }
  <1>1. Len(b) \in Nat /\ at + HeaderSize = at + 2 /\ at + 2 \in Nat
    BY DEF Bytes, HeaderSize
  <1>2. body = IF at + 2 <= Len(b) THEN at + 2 ELSE Len(b)
    <2> DEFINE a == at + 2
               c == Len(b)
    <2>1. a \in Nat /\ c \in Nat /\ body = Min({a, c})
      BY <1>1
    <2> HIDE DEF a, c, body
    <2>2. body = IF a <= c THEN a ELSE c
      BY <2>1, MinCases
    <2> QED
      BY <2>2 DEF a, c
  <1>3. PICK end \in ends : r = [message |-> SubSeq(b, body + 1, end), pos |-> end]
    BY DEF ReadMessage
  <1>4. sizes = IF at + 2 <= Len(b) THEN { Decoded(b, at) } ELSE 0 .. MaxSize
    BY <1>1
  <1> HIDE DEF body, sizes
  <1>5. PICK n \in sizes : end \in EndsOf(b, body, n)
    BY DEF EndsOf
  <1> HIDE DEF ends
  <1>6. ASSUME at + 2 <= Len(b)
        PROVE  \E e \in EndsOf(b, at + 2, Decoded(b, at)) :
                 r = [message |-> SubSeq(b, at + 2 + 1, e), pos |-> e]
    <2>1. body = at + 2 /\ n = Decoded(b, at)
      BY <1>2, <1>4, <1>6
    <2> QED
      BY <1>3, <1>5, <2>1
  <1>7. ASSUME Len(b) < at + 2
        PROVE  \E k \in 0 .. MaxSize : \E e \in EndsOf(b, Len(b), k) :
                 r = [message |-> SubSeq(b, Len(b) + 1, e), pos |-> e]
    <2>1. ~ (at + 2 <= Len(b))
      BY <1>1, <1>7
    <2>2. body = Len(b) /\ n \in 0 .. MaxSize
      BY <1>2, <1>4, <2>1
    <2> QED
      BY <1>3, <1>5, <2>2
  <1> QED
    BY <1>6, <1>7

\* A size that is decoded is a number.
LEMMA DecodedType ==
  ASSUME NEW b \in Seq(Nat), NEW at \in Nat, at + 2 <= Len(b)
  PROVE  Decoded(b, at) \in Nat
  <1>1. at + 1 \in 1 .. Len(b) /\ at + 2 \in 1 .. Len(b)
    OBVIOUS
  <1>2. SubSeq(b, at + 1, at + 2)[1] = b[at + 1] /\ SubSeq(b, at + 1, at + 2)[2] = b[at + 2]
    <2>1. at + 2 \in Nat /\ at <= at + 2 /\ 1 \in 1 .. (at + 2) - at /\ 2 \in 1 .. (at + 2) - at
      OBVIOUS
    <2> QED
      BY <2>1, PartOf
  <1>3. b[at + 1] \in Nat /\ b[at + 2] \in Nat
    BY <1>1
  <1>4. Decoded(b, at) = b[at + 1] * 4 + b[at + 2]
    BY <1>2 DEF Decoded, Size, HeaderSize, Base
  <1> QED
    BY <1>3, <1>4

\* A reader that finds less than a size reads an empty message, whatever it takes
\* for the size, and is left at the end.
LEMMA ReadShort ==
  ASSUME NEW b \in Bytes, NEW at \in Nat, at <= Len(b), Len(b) < at + 2,
         NEW r \in ReadMessage(b, at)
  PROVE  r.message = << >> /\ r.pos = Len(b)
  <1>1. Len(b) \in Nat /\ b \in Seq(Nat)
    BY DEF Bytes
  <1>2. PICK n \in 0 .. MaxSize :
          \E end \in EndsOf(b, Len(b), n) :
            r = [message |-> SubSeq(b, Len(b) + 1, end), pos |-> end]
    BY ReadEnds
  <1>3. PICK end \in EndsOf(b, Len(b), n) :
          r = [message |-> SubSeq(b, Len(b) + 1, end), pos |-> end]
    BY <1>2
  <1>4. n \in Nat
    BY DEF MaxSize, Base
  <1>5. Min({Len(b) + n, Len(b)}) = Len(b)
    <2> DEFINE a == Len(b) + n
               c == Len(b)
    <2>1. a \in Nat /\ c \in Nat /\ c <= a
      BY <1>1, <1>4
    <2> HIDE DEF a, c
    <2>2. Min({a, c}) = c
      BY <2>1, MinCases
    <2> QED
      BY <2>2 DEF a, c
  <1>6. end = Len(b)
    BY <1>1, <1>5 DEF EndsOf
  <1>7. SubSeq(b, Len(b) + 1, Len(b)) = << >>
    BY <1>1
  <1> QED
    BY <1>3, <1>6, <1>7

\* The bytes b, from at on, begin with those of the frame f, as far as they go.
Finds(b, at, f) ==
  \A j \in 1 .. Len(f) : at + j <= Len(b) => b[at + j] = f[j]

\* A size that is all there is decoded to the length of the message.
LEMMA DecodedLength ==
  ASSUME NEW b \in Seq(Nat), NEW at \in Nat, NEW f \in Seq(Nat), at + 2 <= Len(b),
         2 <= Len(f), Finds(b, at, f)
  PROVE  Decoded(b, at) = f[1] * Base + f[2]
  <1>1. at + 1 \in 1 .. Len(b) /\ at + 2 \in 1 .. Len(b)
    OBVIOUS
  <1>2. SubSeq(b, at + 1, at + 2)[1] = b[at + 1] /\ SubSeq(b, at + 1, at + 2)[2] = b[at + 2]
    BY <1>1
  <1>3. 1 \in 1 .. Len(f) /\ 2 \in 1 .. Len(f) /\ at + 1 <= Len(b)
    OBVIOUS
  <1>4. b[at + 1] = f[1] /\ b[at + 2] = f[2]
    BY <1>3 DEF Finds
  <1> QED
    BY <1>2, <1>4 DEF Decoded, Size, HeaderSize

\* With a size it reads up to the end of the message or of the bytes.
LEMMA ReadSized ==
  ASSUME NEW b \in Seq(Nat), NEW at \in Nat, NEW n \in Nat, at + 2 <= Len(b),
         Decoded(b, at) = n, n <= IntMax, NEW r \in ReadMessage(b, at)
  PROVE  LET end == IF at + 2 + n <= Len(b) THEN at + 2 + n ELSE Len(b) IN
         r = [message |-> SubSeq(b, at + 2 + 1, end), pos |-> end]
  <1>1. Min({at + 2 + n, Len(b)}) = IF at + 2 + n <= Len(b) THEN at + 2 + n ELSE Len(b)
    <2> DEFINE a == at + 2 + n
               c == Len(b)
    <2>1. a \in Nat /\ c \in Nat
      OBVIOUS
    <2> HIDE DEF a, c
    <2>2. Min({a, c}) = IF a <= c THEN a ELSE c
      BY <2>1, MinCases
    <2> QED
      BY <2>2 DEF a, c
  <1>2. PICK end \in EndsOf(b, at + 2, n) :
           r = [message |-> SubSeq(b, at + 2 + 1, end), pos |-> end]
    BY ReadEnds DEF Bytes
  <1>3. end = Min({at + 2 + n, Len(b)})
    BY DEF EndsOf
  <1> QED
    BY <1>1, <1>2, <1>3

\* f is the frame of a message m that is not too long.
FrameOf(f, m) ==
  /\ Len(f) = 2 + Len(m) /\ f[1] * Base + f[2] = Len(m) /\ Len(m) <= IntMax
  /\ \A j \in 1 .. Len(m) : f[2 + j] = m[j]

\* r is what a reader of b finds at the frame f of m, all of it or a part.
Reads(r, b, at, f, m) ==
  /\ at + Len(f) <= Len(b) => r.message = m /\ r.pos = at + Len(f)
  /\ at + Len(f) > Len(b) => IsPrefix(r.message, m) /\ r.pos = Len(b)

\* What a reader makes of a frame of which at least the size is there.
LEMMA ReadFrame ==
  ASSUME NEW b \in Seq(Nat), NEW at \in Nat, NEW m \in Seq(Nat), NEW f \in Seq(Nat),
         FrameOf(f, m), Finds(b, at, f), at + 2 <= Len(b), NEW r \in ReadMessage(b, at)
  PROVE  Reads(r, b, at, f, m)
  <1>0. /\ Len(f) = 2 + Len(m) /\ f[1] * Base + f[2] = Len(m) /\ Len(m) <= IntMax
        /\ \A j \in 1 .. Len(m) : f[2 + j] = m[j]
    BY DEF FrameOf
  <1> DEFINE end == IF at + 2 + Len(m) <= Len(b) THEN at + 2 + Len(m) ELSE Len(b)
             s == SubSeq(b, at + 2 + 1, end)
  <1>1. Len(m) \in Nat /\ Len(b) \in Nat /\ 2 <= Len(f)
    BY <1>0
  <1>2. Decoded(b, at) = Len(m)
    BY <1>0, <1>1, DecodedLength
  <1>3. r = [message |-> s, pos |-> end]
    BY <1>0, <1>1, <1>2, ReadSized
  <1>4. end \in Nat /\ at + 2 <= end /\ end <= Len(b) /\ end <= at + 2 + Len(m)
    BY <1>1
  <1> HIDE DEF end
  <1>5. /\ s \in Seq(Nat) /\ Len(s) = end - (at + 2)
        /\ \A j \in 1 .. end - (at + 2) : s[j] = b[at + 2 + j]
    <2> DEFINE a == at + 2
    <2>1. a \in Nat /\ a <= end
      BY <1>4
    <2> HIDE DEF a
    <2>2. /\ SubSeq(b, a + 1, end) \in Seq(Nat) /\ Len(SubSeq(b, a + 1, end)) = end - a
          /\ \A j \in 1 .. end - a : SubSeq(b, a + 1, end)[j] = b[a + j]
      BY <1>4, <2>1, PartOf
    <2> QED
      BY <2>2 DEF a
  <1> HIDE DEF s
  <1>6. ASSUME NEW j \in 1 .. end - (at + 2) PROVE s[j] = m[j]
    <2>1. j \in Nat /\ 1 <= j /\ j <= Len(m) /\ at + 2 + j <= Len(b)
      <3>1. end - (at + 2) \in Nat /\ at + 2 + j <= end /\ j <= Len(m)
        BY <1>1, <1>4
      <3> QED
        BY <1>1, <1>4, <3>1
    <2>2. j \in 1 .. Len(m) /\ 2 + j \in 1 .. Len(f) /\ at + (2 + j) = at + 2 + j
      BY <1>0, <1>1, <2>1
    <2>3. b[at + (2 + j)] = f[2 + j]
      BY <2>1, <2>2 DEF Finds
    <2> QED
      BY <1>0, <1>5, <2>2, <2>3
  <1>7. IsPrefix(s, m)
    <2>1. Len(s) <= Len(m)
      BY <1>1, <1>4, <1>5
    <2>2. \A j \in 1 .. Len(s) : s[j] = m[j]
      BY <1>5, <1>6
    <2> QED
      BY <1>5, <2>1, <2>2, PrefixElements
  <1>8. ASSUME at + Len(f) <= Len(b) PROVE s = m /\ end = at + Len(f)
    <2>1. end = at + 2 + Len(m)
      BY <1>0, <1>1, <1>8 DEF end
    <2>2. Len(s) = Len(m) /\ end = at + Len(f)
      BY <1>0, <1>1, <1>5, <2>1
    <2>3. \A j \in 1 .. Len(m) : s[j] = m[j]
      BY <1>5, <1>6, <2>2
    <2> QED
      BY <1>5, <2>2, <2>3, SeqEqual
  <1>9. ASSUME at + Len(f) > Len(b) PROVE end = Len(b)
    BY <1>0, <1>1, <1>9 DEF end
  <1> QED
    BY <1>3, <1>7, <1>8, <1>9 DEF Reads

\* In a stream that holds a prefix of some frames, a message all of which is there
\* is read, and the next one found behind it; of a message that is there in part
\* the reader finds what there is.
LEMMA ReadNext ==
  ASSUME NEW ms \in Seq(Bytes), NEW b \in Bytes, IsPrefix(b, Frames(ms)),
         NEW k \in 0 .. Len(ms) - 1, Serializable(ms[k + 1]),
         PartLength(ms, k) <= Len(b),
         NEW r \in ReadMessage(b, PartLength(ms, k))
  PROVE  /\ PartLength(ms, k + 1) <= Len(b) =>
              r.message = ms[k + 1] /\ r.pos = PartLength(ms, k + 1)
         /\ PartLength(ms, k + 1) > Len(b) =>
              /\ r.message = << >> \/ IsPrefix(r.message, ms[k + 1])
              /\ r.pos = Len(b)
  <1> DEFINE m == ms[k + 1]
             at == PartLength(ms, k)
             f == Frame(m)
             F == Frames(ms)
  <1>1. /\ m \in Bytes /\ at \in Nat /\ PartLength(ms, k + 1) = at + Len(f)
        /\ PartLength(ms, k + 1) <= Len(F)
        /\ \A j \in 1 .. Len(f) : F[at + j] = f[j]
    BY FrameAt
  <1>2. /\ f \in Bytes /\ Len(m) \in Nat /\ Len(f) = 2 + Len(m)
        /\ f[1] * Base + f[2] = Len(m)
        /\ \A j \in 1 .. Len(m) : f[2 + j] = m[j]
    BY <1>1, FrameBytes
  <1>3. F \in Seq(Nat)
    BY FramesType DEF Bytes
  <1>4. r \in ReadMessage(b, at) /\ at <= Len(b)
    OBVIOUS
  <1>5. Len(m) <= IntMax
    BY DEF Serializable
  <1> SUFFICES /\ at + Len(f) <= Len(b) => r.message = m /\ r.pos = at + Len(f)
               /\ at + Len(f) > Len(b) => /\ r.message = << >> \/ IsPrefix(r.message, m)
                                          /\ r.pos = Len(b)
    BY <1>1
  <1>6. IsPrefix(b, F)
    OBVIOUS
  <1> HIDE DEF m, at, f, F
  <1>7. at \in Nat /\ Len(b) \in Nat /\ b \in Seq(Nat) /\ f \in Seq(Nat) /\ m \in Seq(Nat)
    BY <1>1, <1>2 DEF Bytes
  <1>8. \A j \in 1 .. Len(b) : b[j] = F[j]
    BY <1>3, <1>6, <1>7, PrefixElements
  <1>9. Finds(b, at, f)
    <2> SUFFICES ASSUME NEW j \in 1 .. Len(f), at + j <= Len(b) PROVE b[at + j] = f[j]
      BY DEF Finds
    <2>1. at + j \in 1 .. Len(b)
      BY <1>2, <1>7
    <2> QED
      BY <1>1, <1>8, <2>1
  <1>10. CASE Len(b) < at + 2
    <2>1. at + Len(f) > Len(b)
      BY <1>2, <1>7, <1>10
    <2>2. r.message = << >> /\ r.pos = Len(b)
      BY <1>4, <1>7, <1>10, ReadShort
    <2>3. ~ (at + Len(f) <= Len(b))
      BY <1>2, <1>7, <2>1
    <2> QED
      BY <2>2, <2>3
  <1>11. CASE at + 2 <= Len(b)
    <2>1. FrameOf(f, m)
      BY <1>2, <1>5 DEF FrameOf
    <2>2. Reads(r, b, at, f, m)
      BY <1>4, <1>7, <1>9, <1>11, <2>1, ReadFrame
    <2> QED
      BY <2>2 DEF Reads
  <1> QED
    BY <1>7, <1>10, <1>11

-----------------------------------------------------------------------------
(* How far the pages read back are the pages written. *)

\* The messages that are too long, and how many of the others come before them and
\* are all in b: ReadBack, of any stream.
Long(ms) == { k \in DOMAIN ms : ~ Serializable(ms[k]) }
Readable(b, ms) == Min({Complete(b, ms)} \cup { k - 1 : k \in Long(ms) })

Back(rd, n, ms) ==
  \A k \in DOMAIN rd :
    /\ k <= n => rd[k] = ms[k]
    /\ n + 1 \notin Long(ms) =>
         /\ k = n + 1 => \/ rd[k] = << >>
                         \/ k \in DOMAIN ms /\ IsPrefix(rd[k], ms[k])
         /\ k > n + 1 => rd[k] = << >>

\* Where the reader of b is that has read rd.
Behind(b, ms, n, at, rd) ==
  /\ Len(rd) <= n => at = PartLength(ms, Len(rd))
  /\ Len(rd) > n /\ n + 1 \notin Long(ms) => at = Len(b)
  /\ Back(rd, n, ms)

LEMMA ReadableType ==
  ASSUME NEW ms \in Seq(Bytes), NEW b \in Bytes
  PROVE  /\ Readable(b, ms) \in Nat /\ Readable(b, ms) <= Complete(b, ms)
         /\ Complete(b, ms) \in 0 .. Len(ms)
         /\ \A k \in Long(ms) : Readable(b, ms) <= k - 1
         /\ Readable(b, ms) + 1 \notin Long(ms) => Readable(b, ms) = Complete(b, ms)
  <1> DEFINE c == Complete(b, ms)
             T == {c} \cup { k - 1 : k \in Long(ms) }
             n == Readable(b, ms)
  <1>1. c \in 0 .. Len(ms) /\ Len(ms) \in Nat
    <2>1. Len(ms) \in Nat
      OBVIOUS
    <2> QED
      BY <2>1, CompleteType
  <1>2. \A k \in Long(ms) : k \in Nat /\ k - 1 \in Nat
    BY DEF Long
  <1> HIDE DEF c
  <1>3. T \in SUBSET Nat /\ T # {}
    BY <1>1, <1>2
  <1>4. n = Min(T)
    BY DEF Readable, c
  <1> HIDE DEF T, n
  <1>5. n \in T /\ \A y \in T : n <= y
    <2>1. \E x \in T : \A y \in T : x <= y
      BY <1>3, LeastElement
    <2> QED
      BY <1>4, <2>1 DEF Min
  <1>6. n \in Nat /\ n <= c
    BY <1>3, <1>5 DEF T
  <1>7. ASSUME NEW k \in Long(ms) PROVE n <= k - 1
    BY <1>5 DEF T
  <1>8. ASSUME n + 1 \notin Long(ms) PROVE n = c
    <2> SUFFICES ASSUME NEW k \in Long(ms), n = k - 1 PROVE FALSE
      BY <1>5 DEF T
    <2>1. n + 1 = k
      BY <1>2
    <2> QED
      BY <1>8, <2>1
  <1> QED
    BY <1>1, <1>6, <1>7, <1>8 DEF c, n

\* One more message is read.
LEMMA ReadMore ==
  ASSUME NEW ms \in Seq(Bytes), NEW b \in Bytes, IsPrefix(b, Frames(ms)),
         NEW at \in Nat, NEW rd \in Seq(Bytes), Behind(b, ms, Readable(b, ms), at, rd),
         NEW r \in ReadMessage(b, at)
  PROVE  Behind(b, ms, Readable(b, ms), r.pos, Append(rd, r.message))
  <1> DEFINE n == Readable(b, ms)
             c == Complete(b, ms)
             m == r.message
             more == Append(rd, m)
             l == Len(rd)
  <1>1. /\ n \in Nat /\ n <= c /\ c \in 0 .. Len(ms)
        /\ \A k \in Long(ms) : n <= k - 1
        /\ n + 1 \notin Long(ms) => n = c
    BY ReadableType
  <1>2. /\ PartLength(ms, c) <= Len(b)
        /\ c < Len(ms) => PartLength(ms, c + 1) > Len(b)
    BY CompleteType
  <1>3. m \in Bytes /\ r.pos \in Nat
    <2>1. r.pos \in 0 .. Len(b) /\ m \in Bytes
      BY ReadType
    <2> QED
      BY <2>1
  <1>4. /\ Len(more) = l + 1 /\ more[l + 1] = m /\ l \in Nat
        /\ DOMAIN more = 1 .. l + 1 /\ DOMAIN rd = 1 .. l
        /\ \A k \in 1 .. l : more[k] = rd[k]
    <2>1. more \in Seq(Bytes) /\ l \in Nat /\ DOMAIN rd = 1 .. l
      BY <1>3, AppendProperties
    <2>2. Len(more) = l + 1 /\ more[l + 1] = m /\ \A k \in 1 .. l : more[k] = rd[k]
      BY <1>3, AppendProperties
    <2> HIDE DEF more
    <2> QED
      BY <2>1, <2>2
  <1>5. /\ l <= n => at = PartLength(ms, l)
        /\ l > n /\ n + 1 \notin Long(ms) => at = Len(b)
        /\ Back(rd, n, ms)
    BY DEF Behind
  <1>6. Len(ms) \in Nat /\ Len(b) \in Nat /\ DOMAIN ms = 1 .. Len(ms)
    BY DEF Bytes
  <1> HIDE DEF n, c, m, more, l
  \* Another page, all of which is there.
  <1>7. ASSUME l < n PROVE m = ms[l + 1] /\ r.pos = PartLength(ms, l + 1)
    <2>1. l \in 0 .. Len(ms) - 1 /\ l + 1 \in 0 .. Len(ms) /\ c \in l + 1 .. Len(ms)
      BY <1>1, <1>4, <1>6, <1>7
    <2>2. l + 1 \notin Long(ms)
      BY <1>1, <1>4, <1>7
    <2>3. Serializable(ms[l + 1])
      BY <1>6, <2>1, <2>2 DEF Long
    <2>4. PartLength(ms, l + 1) <= PartLength(ms, c)
      BY <2>1, PartMonotonic
    <2>5. /\ PartLength(ms, l) \in Nat /\ PartLength(ms, l + 1) \in Nat /\ PartLength(ms, c) \in Nat
          /\ PartLength(ms, l) < PartLength(ms, l + 1)
      <3>1. l \in 0 .. Len(ms) /\ c \in 0 .. Len(ms) /\ l < Len(ms)
        BY <1>1, <1>6, <2>1
      <3> QED
        BY <2>1, <3>1, PartLonger
    <2>6. PartLength(ms, l) <= Len(b) /\ PartLength(ms, l + 1) <= Len(b)
      BY <1>2, <1>6, <2>4, <2>5
    <2>7. r \in ReadMessage(b, PartLength(ms, l))
      BY <1>1, <1>4, <1>5, <1>7
    <2> QED
      BY <2>1, <2>3, <2>6, <2>7, ReadNext DEF m
  \* The page that is not all there, or nothing.
  <1>8. ASSUME l = n, n + 1 \notin Long(ms)
        PROVE  /\ m = << >> \/ (l + 1 \in DOMAIN ms /\ IsPrefix(m, ms[l + 1]))
               /\ r.pos = Len(b)
    <2>1. n = c /\ at = PartLength(ms, n) /\ PartLength(ms, n) <= Len(b)
      BY <1>1, <1>2, <1>5, <1>8
    <2>2. CASE n < Len(ms)
      <3>1. n \in 0 .. Len(ms) - 1 /\ l + 1 \in DOMAIN ms
        BY <1>1, <1>6, <1>8, <2>2
      <3>2. Serializable(ms[n + 1])
        BY <1>8, <3>1 DEF Long
      <3>3. PartLength(ms, n + 1) > Len(b)
        BY <1>2, <2>1, <2>2
      <3>4. r \in ReadMessage(b, PartLength(ms, n))
        BY <2>1
      <3>5. (r.message = << >> \/ IsPrefix(r.message, ms[n + 1])) /\ r.pos = Len(b)
        BY <2>1, <3>1, <3>2, <3>3, <3>4, ReadNext
      <3> QED
        BY <1>8, <3>1, <3>5 DEF m
    <2>3. CASE n = Len(ms)
      <3>1. Frames(ms) \in Seq(Nat) /\ b \in Seq(Nat)
        BY FramesType DEF Bytes
      <3>2. Len(b) <= Len(Frames(ms)) /\ Len(Frames(ms)) \in Nat
        BY <3>1, PrefixElements
      <3>3. PartLength(ms, n) = Len(Frames(ms))
        BY <2>3, PartEnds
      <3>4. at = Len(b)
        BY <1>6, <2>1, <3>2, <3>3
      <3>5. at <= Len(b) /\ Len(b) < at + 2
        BY <1>6, <3>4
      <3> QED
        BY <3>5, ReadShort DEF m
    <2>4. n < Len(ms) \/ n = Len(ms)
      <3>1. n \in 0 .. Len(ms) /\ Len(ms) \in Nat
        BY <1>1, <1>6, <2>1, Zenon
      <3> QED
        BY <3>1
    <2> QED
      BY <2>2, <2>3, <2>4
  \* Nothing, once more.
  <1>9. ASSUME l > n, n + 1 \notin Long(ms) PROVE m = << >> /\ r.pos = Len(b)
    <2>1. at <= Len(b) /\ Len(b) < at + 2
      BY <1>5, <1>6, <1>9
    <2> QED
      BY <2>1, ReadShort DEF m
  <1>10. Len(more) <= n => r.pos = PartLength(ms, Len(more))
    BY <1>1, <1>4, <1>7
  <1>11. Len(more) > n /\ n + 1 \notin Long(ms) => r.pos = Len(b)
    BY <1>1, <1>4, <1>8, <1>9
  <1>12. Back(more, n, ms)
    <2> SUFFICES ASSUME NEW k \in 1 .. l + 1
                 PROVE  /\ k <= n => more[k] = ms[k]
                        /\ n + 1 \notin Long(ms) =>
                             /\ k = n + 1 => \/ more[k] = << >>
                                             \/ k \in DOMAIN ms /\ IsPrefix(more[k], ms[k])
                             /\ k > n + 1 => more[k] = << >>
      BY <1>4 DEF Back
    <2>1. CASE k \in 1 .. l
      BY <1>4, <1>5, <2>1 DEF Back
    <2>2. CASE k = l + 1
      <3>1. more[k] = m
        BY <1>4, <2>2
      <3>2. k <= n => l < n
        BY <1>1, <1>4, <2>2
      <3>3. k = n + 1 => l = n
        BY <1>1, <1>4, <2>2
      <3>4. k > n + 1 => l > n
        BY <1>1, <1>4, <2>2
      <3> QED
        BY <1>7, <1>8, <1>9, <2>2, <3>1, <3>2, <3>3, <3>4
    <2> QED
      BY <1>4, <2>1, <2>2
  <1> QED
    BY <1>10, <1>11, <1>12 DEF Behind, n, m, more

\* Before the first message is read.
LEMMA ReadNothing ==
  ASSUME NEW ms \in Seq(Bytes), NEW b \in Bytes
  PROVE  Behind(b, ms, Readable(b, ms), 0, << >>)
  <1>1. Readable(b, ms) \in Nat
    BY ReadableType
  <1>2. PartLength(ms, 0) = 0
    BY PartEnds
  <1>3. Len(<< >>) = 0 /\ DOMAIN << >> = {}
    OBVIOUS
  <1> QED
    BY <1>1, <1>2, <1>3 DEF Behind, Back

\* What the reader sees is a prefix of what is there, and so of what was given.
LEMMA VisiblePrefix ==
  ASSUME NEW b \in Bytes, NEW f \in Bytes, IsPrefix(b, f)
  PROVE  IsPrefix(Visible(b), f)
  <1>1. Len(b) \in Nat /\ ReadLimit \in Nat /\ b \in Seq(Nat) /\ f \in Seq(Nat)
    BY LimitsAssumption DEF Bytes
  <1> DEFINE n == Min({Len(b), ReadLimit})
             v == SubSeq(b, 1, n)
  <1>2. n \in 0 .. Len(b)
    <2>1. n \in Nat /\ n <= Len(b)
      <3>1. Len(b) \in Nat /\ ReadLimit \in Nat
        BY <1>1
      <3> QED
        BY <3>1, MinTwo
    <2> HIDE DEF n
    <2> QED
      BY <1>1, <2>1
  <1> HIDE DEF n
  <1>3. v \in Seq(Nat) /\ Len(v) = n /\ \A k \in 1 .. n : v[k] = b[k]
    BY <1>1, <1>2
  <1>4. Len(b) <= Len(f) /\ \A k \in 1 .. Len(b) : b[k] = f[k]
    BY <1>1, PrefixElements
  <1>5. Visible(b) = v
    BY DEF Visible, n
  <1> HIDE DEF v
  <1>6. Len(f) \in Nat
    BY <1>1
  <1>7. Len(v) <= Len(f)
    BY <1>1, <1>2, <1>3, <1>4, <1>6
  <1>8. ASSUME NEW k \in 1 .. Len(v) PROVE v[k] = f[k]
    <2>1. k \in 1 .. n /\ k \in 1 .. Len(b)
      BY <1>1, <1>2, <1>3
    <2> QED
      BY <1>3, <1>4, <2>1
  <1> QED
    BY <1>1, <1>3, <1>5, <1>7, <1>8, PrefixElements

\* Nobody reads before the first call is over, and a reader that has read stays
\* behind what it has read: nothing is written any more.
Reader ==
  /\ status = "parsing" => read = << >>
  /\ read = << >> => pos = 0
  /\ LET b == Visible(pages_output.bytes) IN
       Behind(b, AllPages, Readable(b, AllPages), pos, read)

LEMMA ReaderAtRest ==
  ASSUME Inv, read = << >>, pos = 0
  PROVE  Reader
  <1>1. pages_output.bytes \in Bytes /\ AllPages \in Seq(Bytes)
    BY MessagesType DEF Inv, Given, Holds
  <1>2. Visible(pages_output.bytes) \in Bytes
    BY <1>1, VisibleType
  <1> QED
    BY <1>1, <1>2, ReadNothing DEF Reader

LEMMA ReadPageReader ==
  ASSUME Inv, Reader, ReadPage
  PROVE  Reader'
  <1> DEFINE b == Visible(pages_output.bytes)
  <1>1. PICK r \in ReadMessage(b, pos) : pos' = r.pos /\ read' = Append(read, r.message)
    BY DEF ReadPage
  <1>2. /\ status # "parsing"
        /\ UNCHANGED << pages_output, status, dumps >>
    BY DEF ReadPage, memory, streams, counters
  <1>3. /\ AllPages \in Seq(Bytes) /\ pages_output.bytes \in Bytes
        /\ IsPrefix(pages_output.bytes, Frames(AllPages))
        /\ read \in Seq(Bytes)
    BY MessagesType DEF Inv, Given, Holds, Reading
  <1>4. pos \in Nat
    <2>1. Len(pages_output.bytes) \in Nat
      BY <1>3 DEF Bytes
    <2> QED
      BY <2>1 DEF Inv, Reading
  <1>5. b \in Bytes /\ IsPrefix(b, Frames(AllPages)) /\ Frames(AllPages) \in Bytes
    BY <1>3, VisibleType, VisiblePrefix, FramesType
  <1>6. Behind(b, AllPages, Readable(b, AllPages), pos, read)
    BY DEF Reader
  <1>7. b' = b /\ AllPages' = AllPages
    BY <1>2 DEF AllPages
  <1> HIDE DEF b
  <1>8. Behind(b, AllPages, Readable(b, AllPages), r.pos, Append(read, r.message))
    BY <1>1, <1>3, <1>4, <1>5, <1>6, ReadMore
  <1>9. read' # << >>
    <2>1. r.message \in Bytes
      BY <1>4, <1>5, ReadType
    <2> QED
      BY <1>1, <1>3, <2>1
  <1>10. Behind(b', AllPages', Readable(b', AllPages'), pos', read')
    BY <1>1, <1>7, <1>8
  <1> QED
    BY <1>2, <1>9, <1>10 DEF Reader, b

LEMMA ReaderInit == Init => Reader
  <1> SUFFICES ASSUME Init PROVE Reader
    OBVIOUS
  <1>1. Inv /\ read = << >> /\ pos = 0
    BY InitInv DEF Init
  <1> QED
    BY <1>1, ReaderAtRest

LEMMA ReaderNext == Inv /\ Inv' /\ Reader /\ [Next]_vars => Reader'
  <1> SUFFICES ASSUME Inv, Inv', Reader, [Next]_vars PROVE Reader'
    OBVIOUS
  <1>1. Inv /\ read = << >> /\ pos = 0 => Reader
    BY ReaderAtRest
  <1>2. (Inv /\ read = << >> /\ pos = 0 => Reader)'
    BY ReaderAtRest, PTL
  <1>3. ASSUME status = "parsing" \/ read = << >>, UNCHANGED << pos, read >> PROVE Reader'
    BY <1>2, <1>3 DEF Reader
  <1>4. CASE Extract
    BY <1>3, <1>4 DEF Extract, reader
  <1>5. ASSUME NEW refs \in References, EndPage(refs) PROVE Reader'
    BY <1>3, <1>5 DEF EndPage, reader
  <1>6. CASE StoreRevision
    BY <1>3, <1>6 DEF StoreRevision, reader, Inv, Progress
  <1>7. CASE Return \/ Throw
    BY <1>3, <1>7 DEF Return, Throw, reader
  <1>8. CASE ReadPage
    BY <1>8, ReadPageReader
  <1>9. CASE UNCHANGED vars
    BY <1>9 DEF vars, streams, reader, Reader, AllPages
  <1> QED
    BY <1>4, <1>5, <1>6, <1>7, <1>8, <1>9 DEF Next

\* Pages read back are the pages written, in the order they were written, as far as
\* the reader may see them, whatever bytes the stream has taken; what comes behind
\* them is a part of the next one, then nothing, unless that was too long to be
\* written.
THEOREM PagesReadBack == Spec => []ReadBack
  <1>1. Spec => [](Inv /\ Reader)
    BY Invariant, ReaderInit, ReaderNext, PTL DEF Spec
  <1>2. Reader => ReadBack
    BY DEF Reader, Behind, Back, Readable, Long, ReadBack
  <1> QED
    BY <1>1, <1>2, PTL

-----------------------------------------------------------------------------
(* All the messages of a stream. *)

\* What a reader of b finds at p: one of the results it may have.
Found(b, p) == CHOOSE r \in ReadMessage(b, p) : TRUE

\* There is always something to be found, and reading goes on as long as there are
\* bytes left.
LEMMA FoundType ==
  ASSUME NEW b \in Bytes, NEW p \in 0 .. Len(b) - 1
  PROVE  /\ Found(b, p) \in ReadMessage(b, p)
         /\ Found(b, p).message \in Bytes
         /\ Found(b, p).pos \in p + 1 .. Len(b)
  <1>1. Len(b) \in Nat /\ p \in Nat /\ p < Len(b) /\ b \in Seq(Nat)
    BY DEF Bytes
  <1>2. ReadMessage(b, p) # {}
    <2> DEFINE body == Min({p + HeaderSize, Len(b)})
               sizes == IF p + HeaderSize <= Len(b) THEN { Decoded(b, p) } ELSE 0 .. MaxSize
               ends(n) == IF n <= IntMax THEN { Min({body + n, Len(b)}) } ELSE body .. Len(b)
    <2>1. \E n \in sizes : TRUE
      BY DEF MaxSize, Base
    <2>2. body \in 0 .. Len(b)
      <3>1. p + HeaderSize \in Nat /\ Len(b) \in Nat
        BY <1>1 DEF HeaderSize
      <3> QED
        BY <3>1, MinTwo
    <2> HIDE DEF body, sizes
    <2>3. PICK n \in sizes : TRUE
      BY <2>1
    <2>4. Len(b) \in body .. Len(b)
      BY <1>1, <2>2
    <2>5. \E end \in ends(n) : TRUE
      BY <2>4
    <2> HIDE DEF ends
    <2>6. PICK end \in ends(n) : TRUE
      BY <2>5
    <2>7. [message |-> SubSeq(b, body + 1, end), pos |-> end] \in ReadMessage(b, p)
      BY <2>3, <2>6 DEF ReadMessage, body, sizes, ends
    <2> QED
      BY <2>7
  <1>3. Found(b, p) \in ReadMessage(b, p)
    BY <1>2 DEF Found
  <1> DEFINE r == Found(b, p)
  <1> HIDE DEF r
  <1>4. r \in ReadMessage(b, p)
    BY <1>3 DEF r
  <1>5. r.message \in Bytes /\ r.pos \in 0 .. Len(b)
    BY <1>1, <1>4, ReadType
  <1>6. CASE Len(b) < p + 2
    <2>1. r.pos = Len(b)
      BY <1>1, <1>4, <1>6, ReadShort
    <2> QED
      BY <1>1, <1>3, <1>5, <2>1 DEF r
  <1>7. CASE p + 2 <= Len(b)
    <2>1. PICK end \in EndsOf(b, p + 2, Decoded(b, p)) :
             r = [message |-> SubSeq(b, p + 2 + 1, end), pos |-> end]
      BY <1>1, <1>4, <1>7, ReadEnds
    <2>2. Decoded(b, p) \in Nat
      BY <1>1, <1>7, DecodedType
    <2> DEFINE n == Decoded(b, p)
    <2> HIDE DEF n
    <2>3. n \in Nat /\ end \in EndsOf(b, p + 2, n)
      BY <2>1, <2>2 DEF n
    <2>4. p + 2 <= end
      <3>1. CASE n <= IntMax
        <4> DEFINE a == p + 2 + n
                   c == Len(b)
        <4>1. a \in Nat /\ c \in Nat /\ p + 2 <= a /\ p + 2 <= c
          BY <1>1, <1>7, <2>3
        <4>2. end = Min({a, c})
          BY <2>3, <3>1 DEF EndsOf
        <4> HIDE DEF a, c
        <4>3. end = IF a <= c THEN a ELSE c
          BY <4>1, <4>2, MinCases
        <4> QED
          BY <4>1, <4>3
      <3>2. CASE ~ (n <= IntMax)
        <4>1. end \in p + 2 .. Len(b)
          BY <2>3, <3>2 DEF EndsOf
        <4> QED
          BY <1>1, <4>1
      <3> QED
        BY <3>1, <3>2
    <2>5. r.pos = end
      BY <2>1
    <2>6. r.pos \in p + 1 .. Len(b)
      <3>1. end \in 0 .. Len(b)
        BY <1>5, <2>5
      <3>2. end \in Nat /\ end <= Len(b)
        BY <1>1, <3>1
      <3> QED
        BY <1>1, <2>4, <2>5, <3>2
    <2> QED
      BY <1>3, <1>5, <2>6 DEF r
  <1> QED
    BY <1>1, <1>6, <1>7

\* The equation of MessagesFrom, and a solution from a position on.
Step(b, f, p) ==
  IF p = Len(b) THEN << >> ELSE << Found(b, p).message >> \o f[Found(b, p).pos]
SolvesFrom(b, f, p) == f = [ q \in p .. Len(b) |-> Step(b, f, q) ]

LEMMA SolvesFromMore ==
  ASSUME NEW b \in Bytes, NEW p \in 1 .. Len(b), NEW f, SolvesFrom(b, f, p)
  PROVE  \E g : SolvesFrom(b, g, p - 1)
  <1> DEFINE N == Len(b)
             g == [ q \in p - 1 .. N |-> IF q = p - 1 THEN Step(b, f, q) ELSE f[q] ]
  <1>1. N \in Nat /\ p \in Nat
    BY DEF Bytes
  <1>2. \A q \in p .. N : f[q] = Step(b, f, q)
    BY DEF SolvesFrom
  <1>3. \A q \in p .. N : g[q] = f[q]
    BY <1>1
  <1>4. ASSUME NEW q \in p - 1 .. N PROVE Step(b, g, q) = Step(b, f, q)
    <2>1. CASE q = Len(b)
      BY <2>1 DEF Step
    <2>2. CASE q # Len(b)
      <3> DEFINE e == Found(b, q).pos
      <3>1. q \in 0 .. Len(b) - 1
        BY <1>1, <2>2
      <3>2. e \in q + 1 .. N
        BY <3>1, FoundType
      <3>3. e \in p .. N
        BY <1>1, <3>1, <3>2
      <3>4. g[e] = f[e]
        BY <1>3, <3>3
      <3> HIDE DEF g
      <3> QED
        BY <3>4 DEF Step
    <2> QED
      BY <2>1, <2>2
  <1>5. ASSUME NEW q \in p - 1 .. N PROVE g[q] = Step(b, g, q)
    <2>1. CASE q = p - 1
      BY <1>4, <2>1
    <2>2. CASE q # p - 1
      <3>1. q \in p .. N
        BY <1>1, <2>2
      <3> QED
        BY <1>2, <1>3, <1>4, <3>1
    <2> QED
      BY <2>1, <2>2
  <1>6. g = [ q \in p - 1 .. N |-> Step(b, g, q) ]
    BY <1>5
  <1> HIDE DEF g
  <1>7. SolvesFrom(b, g, p - 1)
    BY <1>6 DEF SolvesFrom
  <1> QED
    BY <1>7

\* MessagesFrom is well defined: reading comes to an end.
LEMMA MessagesFromDef ==
  ASSUME NEW b \in Bytes
  PROVE  \A p \in 0 .. Len(b) : MessagesFrom(b)[p] = Step(b, MessagesFrom(b), p)
  <1> DEFINE N == Len(b)
             T == { n \in Nat : n <= N => \E f : SolvesFrom(b, f, N - n) }
  <1>1. N \in Nat
    BY DEF Bytes
  <1>2. 0 \in T
    <2> DEFINE g == [ q \in N .. N |-> << >> ]
    <2>1. \A q \in N .. N : q = N
      BY <1>1
    <2>2. g = [ q \in N .. N |-> Step(b, g, q) ]
      BY <2>1 DEF Step
    <2> HIDE DEF g
    <2>3. SolvesFrom(b, g, N) /\ N - 0 = N
      BY <1>1, <2>2 DEF SolvesFrom
    <2> QED
      BY <2>3
  <1>3. \A n \in 0 .. N - 1 : n \in T => n + 1 \in T
    <2> SUFFICES ASSUME NEW n \in 0 .. N - 1, n \in T PROVE n + 1 \in T
      OBVIOUS
    <2>1. n \in Nat /\ n <= N /\ N - n \in 1 .. Len(b) /\ (N - n) - 1 = N - (n + 1)
      BY <1>1
    <2>2. PICK f : SolvesFrom(b, f, N - n)
      BY <2>1
    <2>3. \E g : SolvesFrom(b, g, (N - n) - 1)
      BY <2>1, <2>2, SolvesFromMore
    <2> QED
      BY <2>1, <2>3
  <1>4. 0 .. N \subseteq T
    <2> HIDE DEF T
    <2>1. 0 \in Nat
      OBVIOUS
    <2> QED
      BY <1>1, <1>2, <1>3, <2>1, Induction
  <1>5. \E f : SolvesFrom(b, f, 0)
    <2>1. N \in 0 .. N /\ N - N = 0
      BY <1>1
    <2> QED
      BY <1>4, <2>1
  <1>6. MessagesFrom(b) = CHOOSE f : SolvesFrom(b, f, 0)
    BY DEF MessagesFrom, SolvesFrom, Step, Found
  <1>7. SolvesFrom(b, MessagesFrom(b), 0)
    BY <1>5, <1>6
  <1> QED
    <2> DEFINE F == MessagesFrom(b)
    <2> HIDE DEF F
    <2>1. F = [ q \in 0 .. Len(b) |-> Step(b, F, q) ]
      BY <1>7 DEF SolvesFrom, F
    <2>2. \A q \in 0 .. Len(b) : F[q] = Step(b, F, q)
      BY <2>1
    <2> QED
      BY <2>2 DEF F

\* The messages of the frames of messages are those messages: nothing is lost
\* between a writer and a reader of a sound stream.
LEMMA MessagesOfFrames ==
  ASSUME NEW ms \in Seq(Bytes), \A k \in DOMAIN ms : Serializable(ms[k])
  PROVE  Messages(Frames(ms)) = ms
  <1> DEFINE N == Len(ms)
             b == Frames(ms)
             F == MessagesFrom(b)
             Off(k) == PartLength(ms, k)
             T == { n \in Nat : n <= N => F[Off(N - n)] = SubSeq(ms, N - n + 1, N) }
  <1>1. N \in Nat /\ b \in Bytes /\ Len(b) \in Nat /\ DOMAIN ms = 1 .. N
    <2>1. b \in Bytes
      BY FramesType
    <2> QED
      BY <2>1 DEF Bytes
  <1>2. IsPrefix(b, Frames(ms))
    BY <1>1, PrefixSame DEF Bytes
  <1>3. Off(N) = Len(b) /\ Off(0) = 0
    BY PartEnds
  <1>4. ASSUME NEW k \in 0 .. N - 1
        PROVE  F[Off(k)] = << ms[k + 1] >> \o F[Off(k + 1)]
    <2>1. k \in 0 .. Len(ms) /\ k < Len(ms) /\ k + 1 \in DOMAIN ms /\ k + 1 \in 0 .. Len(ms)
          /\ Len(ms) \in k + 1 .. Len(ms)
      BY <1>1
    <2>2. /\ Off(k) \in Nat /\ Off(k + 1) \in Nat
          /\ Off(k) < Off(k + 1) /\ Off(k + 1) <= Len(b)
      BY <1>1, <1>3, <2>1, PartLonger, PartMonotonic
    <2> DEFINE r == Found(b, Off(k))
    <2> HIDE DEF b, F, Off, N
    <2>3. Off(k) \in 0 .. Len(b) - 1 /\ Off(k) # Len(b) /\ Off(k) \in 0 .. Len(b)
      BY <1>1, <2>2
    <2>4. r \in ReadMessage(b, Off(k))
      BY <1>1, <2>3, FoundType
    <2> HIDE DEF r
    <2>5. r.message = ms[k + 1] /\ r.pos = Off(k + 1)
      <3>1. k \in 0 .. Len(ms) - 1 /\ Serializable(ms[k + 1])
        BY <2>1 DEF N
      <3>2. PartLength(ms, k) <= Len(b) /\ PartLength(ms, k + 1) <= Len(b)
        BY <1>1, <2>2 DEF Off
      <3>3. r \in ReadMessage(b, PartLength(ms, k))
        BY <2>4 DEF Off
      <3> QED
        BY <1>1, <1>2, <3>1, <3>2, <3>3, ReadNext DEF Off
    <2>6. F[Off(k)] = Step(b, F, Off(k))
      BY <1>1, <2>3, MessagesFromDef DEF F
    <2>7. Step(b, F, Off(k)) = << r.message >> \o F[r.pos]
      BY <2>3 DEF Step, r
    <2> QED
      BY <2>5, <2>6, <2>7
  <1>5. F[Len(b)] = << >>
    <2>1. Len(b) \in 0 .. Len(b)
      BY <1>1
    <2> QED
      BY <1>1, <2>1, MessagesFromDef DEF Step
  <1> HIDE DEF b, F, Off
  <1>6. 0 \in T
    <2>1. N - 0 = N /\ SubSeq(ms, N + 1, N) = << >>
      BY <1>1
    <2> QED
      BY <1>3, <1>5, <2>1
  <1>7. \A n \in 0 .. N - 1 : n \in T => n + 1 \in T
    <2> SUFFICES ASSUME NEW n \in 0 .. N - 1, n \in T PROVE n + 1 \in T
      OBVIOUS
    <2> DEFINE k == N - (n + 1)
    <2>1. k \in 0 .. N - 1 /\ k + 1 = N - n /\ n \in Nat /\ n <= N /\ k \in Nat /\ k + 1 <= N
      BY <1>1
    <2>2. F[Off(k + 1)] = SubSeq(ms, N - n + 1, N)
      BY <2>1
    <2>3. N - n + 1 = k + 2
      BY <1>1, <2>1
    <2> HIDE DEF k
    <2>4. F[Off(k + 1)] = SubSeq(ms, k + 2, N)
      BY <2>2, <2>3
    <2>5. F[Off(k)] = << ms[k + 1] >> \o SubSeq(ms, k + 2, N)
      BY <1>4, <2>1, <2>4
    <2>6. << ms[k + 1] >> \o SubSeq(ms, k + 2, N) = SubSeq(ms, k + 1, N)
      BY <2>1, RestOf
    <2> HIDE DEF N
    <2>7. F[Off(k)] = SubSeq(ms, k + 1, N)
      BY <2>5, <2>6
    <2> QED
      BY <2>1, <2>7 DEF k
  <1>8. 0 .. N \subseteq T
    <2> HIDE DEF T
    <2>1. 0 \in Nat
      OBVIOUS
    <2> QED
      BY <1>1, <1>6, <1>7, <2>1, Induction
  <1>9. F[Off(0)] = SubSeq(ms, 1, N)
    <2>1. N \in 0 .. N /\ N - N = 0 /\ N - N + 1 = 1
      BY <1>1
    <2> HIDE DEF N
    <2>2. N \in T
      <3> HIDE DEF T
      <3> QED
        BY <1>8, <2>1
    <2>3. F[Off(N - N)] = SubSeq(ms, N - N + 1, N)
      BY <1>1, <2>2
    <2> QED
      BY <2>1, <2>3
  <1>10. SubSeq(ms, 1, N) = ms
    OBVIOUS
  <1> QED
    BY <1>3, <1>9, <1>10 DEF Messages, F, b

-----------------------------------------------------------------------------
(* The first record under each id. *)

Ids(ms) == { m[1] : m \in ToSet(ms) }

\* The first record under the id r is the one before which there is none.
LEMMA FirstIs ==
  ASSUME NEW ms \in Seq(RevisionRecords), NEW k \in 1 .. Len(ms),
         \A j \in 1 .. Len(ms) : j < k => ms[j][1] # ms[k][1]
  PROVE  ms[k][1] \in Ids(ms) /\ FirstById(ms)[ms[k][1]] = ms[k]
  <1> DEFINE r == ms[k][1]
             K == { j \in DOMAIN ms : ms[j][1] = r }
  <1>1. DOMAIN ms = 1 .. Len(ms) /\ Len(ms) \in Nat
    OBVIOUS
  <1>2. r \in Ids(ms)
    BY <1>1 DEF Ids, ToSet
  <1>3. k \in K /\ K \in SUBSET Nat
    BY <1>1
  <1>4. \A j \in K : k <= j
    BY <1>1
  <1>5. FirstById(ms)[r] = ms[Min(K)]
    BY <1>2 DEF FirstById, Ids
  <1> HIDE DEF K, r
  <1>6. Min(K) = k
    <2>1. Min(K) \in K /\ \A y \in K : Min(K) <= y
      BY <1>3, <1>4 DEF Min
    <2>2. Min(K) \in Nat /\ k \in Nat /\ Min(K) <= k /\ k <= Min(K)
      BY <1>3, <1>4, <2>1
    <2> QED
      BY <2>2
  <1> QED
    BY <1>2, <1>5, <1>6 DEF r

\* There is a first record under every id.
LEMMA FirstExists ==
  ASSUME NEW ms \in Seq(RevisionRecords), NEW r \in Ids(ms)
  PROVE  \E k \in 1 .. Len(ms) :
           ms[k][1] = r /\ \A j \in 1 .. Len(ms) : j < k => ms[j][1] # r
  <1> DEFINE K == { j \in 1 .. Len(ms) : ms[j][1] = r }
  <1>1. DOMAIN ms = 1 .. Len(ms) /\ Len(ms) \in Nat
    OBVIOUS
  <1>2. K # {} /\ K \in SUBSET Nat
    BY <1>1 DEF Ids, ToSet
  <1>3. PICK k \in K : \A j \in K : k <= j
    <2> HIDE DEF K
    <2> QED
      BY <1>2, LeastElement
  <1>4. \A j \in 1 .. Len(ms) : j < k => ms[j][1] # r
    BY <1>1, <1>3
  <1> QED
    BY <1>3, <1>4

\* Records all of the page number p, and the first records when those of the ids R
\* are added.
OfPage(ns, p) == \A k \in 1 .. Len(ns) : ns[k] = << ns[k][1], p >>
FirstWith(ms, R, p) ==
  [ r \in Ids(ms) \cup R |-> IF r \in Ids(ms) THEN FirstById(ms)[r] ELSE << r, p >> ]

\* Records that come later count only for ids that had none.
LEMMA FirstConcat ==
  ASSUME NEW ms \in Seq(RevisionRecords), NEW ns \in Seq(RevisionRecords), NEW p, OfPage(ns, p)
  PROVE  FirstById(ms \o ns) = FirstWith(ms, Ids(ns), p)
  <1> DEFINE c == ms \o ns
             M == Len(ms)
             R == Ids(ms) \cup Ids(ns)
  <1>1. /\ c \in Seq(RevisionRecords) /\ Len(c) = M + Len(ns) /\ M \in Nat /\ Len(ns) \in Nat
        /\ \A k \in 1 .. M : c[k] = ms[k]
        /\ \A k \in 1 .. Len(c) : k \notin 1 .. M => k - M \in 1 .. Len(ns) /\ c[k] = ns[k - M]
    <2>1. c \in Seq(RevisionRecords) /\ Len(c) = M + Len(ns) /\ M \in Nat /\ Len(ns) \in Nat
      OBVIOUS
    <2>2. \A k \in 1 .. M : c[k] = ms[k]
      BY ConcatIndices
    <2>3. \A k \in 1 .. M + Len(ns) :
            k \notin 1 .. M => k - M \in 1 .. Len(ns) /\ c[k] = ns[k - M]
      BY ConcatIndices
    <2> HIDE DEF c, M
    <2> QED
      BY <2>1, <2>2, <2>3
  <1>2. ToSet(c) = ToSet(ms) \cup ToSet(ns)
    BY ConcatElements
  <1>3. Ids(c) = R
    BY <1>2 DEF Ids
  <1>4. DOMAIN FirstById(c) = R /\ FirstById(c) = [ r \in R |-> FirstById(c)[r] ]
    BY <1>3 DEF FirstById, Ids
  <1> HIDE DEF c, M, R
  <1>5. ASSUME NEW r \in R, r \in Ids(ms) PROVE FirstById(c)[r] = FirstById(ms)[r]
    <2>1. PICK k \in 1 .. M : ms[k][1] = r /\ \A j \in 1 .. M : j < k => ms[j][1] # r
      BY <1>5, FirstExists DEF M
    <2>2. FirstById(ms)[r] = ms[k]
      BY <2>1, FirstIs DEF M
    <2>3. k \in 1 .. Len(c) /\ c[k] = ms[k]
      BY <1>1
    <2>4. \A j \in 1 .. Len(c) : j < k => j \in 1 .. M /\ c[j] = ms[j]
      BY <1>1
    <2>5. \A j \in 1 .. Len(c) : j < k => c[j][1] # c[k][1]
      BY <2>1, <2>3, <2>4
    <2>6. FirstById(c)[c[k][1]] = c[k]
      BY <1>1, <2>3, <2>5, FirstIs
    <2> QED
      BY <2>1, <2>2, <2>3, <2>6
  <1>6. ASSUME NEW r \in R, r \notin Ids(ms) PROVE FirstById(c)[r] = << r, p >>
    <2>1. PICK k \in 1 .. Len(c) : c[k][1] = r /\ \A j \in 1 .. Len(c) : j < k => c[j][1] # r
      BY <1>1, <1>3, FirstExists
    <2>2. FirstById(c)[c[k][1]] = c[k]
      BY <1>1, <2>1, FirstIs
    <2>3. k \notin 1 .. M
      <3> SUFFICES ASSUME k \in 1 .. M PROVE FALSE
        OBVIOUS
      <3>1. ms[k] \in ToSet(ms) /\ ms[k][1] = r
        BY <1>1, <2>1 DEF ToSet, M
      <3> QED
        BY <1>6, <3>1 DEF Ids
    <2>4. c[k] = ns[k - M] /\ k - M \in 1 .. Len(ns)
      BY <1>1, <2>3
    <2>5. c[k] = << c[k][1], p >>
      BY <2>4 DEF OfPage
    <2> QED
      BY <2>1, <2>2, <2>5
  <1> QED
    BY <1>4, <1>5, <1>6 DEF c, R, FirstWith

-----------------------------------------------------------------------------
(* What is stored in memory. *)

\* A parser that has not thrown has in memory the pages of its dump and the first
\* record of each of its revisions.
Stored ==
  status # "threw" =>
    /\ stored_pages_ = dumps[call]
    /\ stored_revisions_ = FirstById(RevisionMessages(dumps[call]))

LEMMA FirstOfNone == FirstById(<< >>) = NoRevisions
  <1>1. ToSet(<< >>) = {}
    BY DEF ToSet
  <1>2. { m[1] : m \in ToSet(<< >>) } = {}
    BY <1>1
  <1> QED
    BY <1>2 DEF FirstById, NoRevisions

LEMMA StoredInit == Init => Stored
  <1> SUFFICES ASSUME Init PROVE Stored
    OBVIOUS
  <1>1. /\ call = 1 /\ dumps = << << >> >> /\ stored_pages_ = << >>
        /\ stored_revisions_ = NoRevisions
    BY DEF Init
  <1>2. dumps[call] = << >>
    BY <1>1
  <1>3. RevisionMessages(<< >>) = << >>
    <2>1. << >> \in Seq(Seq(References))
      OBVIOUS
    <2> QED
      BY <2>1, NewDump
  <1> QED
    BY <1>1, <1>2, <1>3, FirstOfNone DEF Stored

LEMMA StoredEndPage ==
  ASSUME Inv, Stored, NEW refs \in References, EndPage(refs)
  PROVE  Stored'
  <1> DEFINE d == dumps[call]
             p == Len(d) + 1
             ms == RevisionMessages(d)
             ns == Records(refs, p)
  <1>1. /\ status = "parsing" /\ status' = status /\ call' = call
        /\ stored_pages_' = Append(stored_pages_, refs)
        /\ stored_revisions_' = Inserted(refs, p)
        /\ dumps' = [dumps EXCEPT ![call] = Append(@, refs)]
    BY DEF EndPage, Store
  <1>2. dumps \in Seq(Seq(References)) /\ call \in 1 .. Len(dumps) /\ d \in Seq(References)
    BY DEF Inv, Progress
  <1>3. dumps'[call'] = Append(d, refs)
    BY <1>1, <1>2
  <1>4. p \in Nat
    BY <1>2
  <1>5. RevisionMessages(Append(d, refs)) = ms \o ns
    BY <1>2, RevisionsAppend
  <1>6. /\ stored_pages_ = d /\ stored_revisions_ = FirstById(ms)
    BY <1>1 DEF Stored
  <1>7. ms \in Seq(RevisionRecords) /\ ns \in Seq(RevisionRecords) /\ ns \in Seq(RevIds \X {p})
    <2>1. ms \in Seq(RevisionRecords)
      BY <1>2, RecordListsType
    <2> HIDE DEF p, ms
    <2> QED
      BY <1>4, <2>1, RecordsType
  <1>8. ToSet(ns) = { << r, p >> : r \in refs }
    <2> HIDE DEF p
    <2> QED
      BY <1>4, RecordsType
  <1>9. Ids(ns) = refs
    <2>1. Ids(ns) = { m[1] : m \in { << r, p >> : r \in refs } }
      BY <1>8 DEF Ids
    <2>2. \A r \in refs : << r, p >>[1] = r
      OBVIOUS
    <2> HIDE DEF ns, p
    <2>3. ASSUME NEW x \in Ids(ns) PROVE x \in refs
      BY <2>1, <2>2, <2>3
    <2>4. ASSUME NEW x \in refs PROVE x \in Ids(ns)
      <3>1. << x, p >> \in { << r, p >> : r \in refs }
        OBVIOUS
      <3> QED
        BY <2>1, <2>2, <3>1
    <2> QED
      BY <2>3, <2>4
  <1> HIDE DEF ms, ns, p, d
  <1>10. OfPage(ns, p)
    <2>1. \A k \in 1 .. Len(ns) : ns[k] \in RevIds \X {p}
      BY <1>7
    <2> QED
      BY <2>1 DEF OfPage
  <1>11. FirstById(ms \o ns) = FirstWith(ms, refs, p)
    <2>1. FirstById(ms \o ns) = FirstWith(ms, Ids(ns), p)
      BY <1>7, <1>10, FirstConcat
    <2> QED
      BY <1>9, <2>1
  <1>12. DOMAIN stored_revisions_ = Ids(ms)
    BY <1>6 DEF FirstById, Ids
  <1>13. stored_revisions_' = FirstWith(ms, refs, p)
    BY <1>1, <1>6, <1>12 DEF Inserted, Revision, FirstWith
  <1> QED
    BY <1>1, <1>3, <1>5, <1>6, <1>11, <1>13 DEF Stored

LEMMA StoredNext == Inv /\ Stored /\ [Next]_vars => Stored'
  <1> SUFFICES ASSUME Inv, Stored, [Next]_vars PROVE Stored'
    OBVIOUS
  <1>1. CASE Extract
    <2>1. /\ call' = call + 1 /\ dumps' = Append(dumps, << >>)
          /\ stored_pages_' = << >> /\ stored_revisions_' = NoRevisions
      BY <1>1 DEF Extract
    <2>2. dumps \in Seq(Seq(References)) /\ Len(dumps) = call /\ << >> \in Seq(References)
      BY DEF Inv, Progress
    <2>3. dumps'[call'] = << >>
      BY <2>1, <2>2, AppendProperties
    <2>4. RevisionMessages(<< >>) = << >>
      BY <2>2, NewDump
    <2> QED
      BY <2>1, <2>3, <2>4, FirstOfNone DEF Stored
  <1>2. ASSUME NEW refs \in References, EndPage(refs) PROVE Stored'
    BY <1>2, StoredEndPage
  <1>3. CASE StoreRevision
    BY <1>3 DEF StoreRevision, memory, Stored
  <1>4. CASE Return
    BY <1>4 DEF Return, memory, Stored
  <1>5. CASE Throw
    BY <1>5 DEF Throw, Stored
  <1>6. CASE ReadPage
    BY <1>6 DEF ReadPage, memory, Stored
  <1>7. CASE UNCHANGED vars
    BY <1>7 DEF vars, memory, Stored
  <1> QED
    BY <1>1, <1>2, <1>3, <1>4, <1>5, <1>6, <1>7 DEF Next

-----------------------------------------------------------------------------
(* What the streams hold of the last dump. *)

\* The page messages of dumps one after the other.
LEMMA PagesConcat ==
  ASSUME NEW d \in Seq(References), NEW e \in Seq(References)
  PROVE  PageMessages(d \o e) = PageMessages(d) \o PageMessages(e)
  <1> DEFINE c == d \o e
             f == PageMessages(d)
             g == PageMessages(e)
             h == PageMessages(c)
  <1>1. /\ c \in Seq(References) /\ Len(c) = Len(d) + Len(e)
        /\ Len(d) \in Nat /\ Len(e) \in Nat
        /\ \A k \in 1 .. Len(d) : c[k] = d[k]
        /\ \A k \in 1 .. Len(e) : c[Len(d) + k] = e[k]
    OBVIOUS
  <1> HIDE DEF c
  <1>2. /\ f \in Seq(Bytes) /\ Len(f) = Len(d) /\ \A k \in 1 .. Len(d) : f[k] = Ascending(d[k])
        /\ g \in Seq(Bytes) /\ Len(g) = Len(e) /\ \A k \in 1 .. Len(e) : g[k] = Ascending(e[k])
        /\ h \in Seq(Bytes) /\ Len(h) = Len(c) /\ \A k \in 1 .. Len(c) : h[k] = Ascending(c[k])
    BY <1>1, PagesType
  <1> HIDE DEF f, g, h
  <1>3. \A k \in 1 .. Len(f) : h[k] = f[k]
    <2>1. \A k \in 1 .. Len(d) : k \in 1 .. Len(c)
      BY <1>1
    <2> QED
      BY <1>1, <1>2, <2>1
  <1>4. \A k \in 1 .. Len(g) : h[Len(f) + k] = g[k]
    <2>1. \A k \in 1 .. Len(e) : Len(d) + k \in 1 .. Len(c)
      BY <1>1
    <2> QED
      BY <1>1, <1>2, <2>1
  <1>5. h = f \o g
    <2>1. Len(h) = Len(f) + Len(g)
      BY <1>1, <1>2
    <2> QED
      BY <1>2, <1>3, <1>4, <2>1, ConcatEqual
  <1> QED
    BY <1>5 DEF f, g, h, c

\* The end of a sequence made of two.
LEMMA LastPart ==
  ASSUME NEW S, NEW s \in Seq(S), NEW t \in Seq(S)
  PROVE  LET c == s \o t IN SubSeq(c, Len(c) - Len(t) + 1, Len(c)) = t
  OBVIOUS

\* What the last dump has added to what the others had.
LEMMA LastDump ==
  ASSUME NEW ds \in Seq(Seq(References)), ds # << >>
  PROVE  /\ \E s \in Seq(Bytes) :
              PageMessages(FlattenSeq(ds)) = s \o PageMessages(ds[Len(ds)])
         /\ \E s \in Seq(RevisionRecords) :
              Revisions(ds) = s \o RevisionMessages(ds[Len(ds)])
  <1>1. PICK u \in Seq(Seq(References)), d \in Seq(References) : ds = Append(u, d)
    BY SequenceEmptyOrAppend
  <1>2. ds[Len(ds)] = d /\ Len(ds) = Len(u) + 1 /\ Len(u) \in Nat
    BY <1>1
  <1>3. FlattenSeq(u) \in Seq(References) /\ FlattenSeq(ds) = FlattenSeq(u) \o d
    BY <1>1, FlattenAppend
  <1>4. PageMessages(FlattenSeq(ds)) = PageMessages(FlattenSeq(u)) \o PageMessages(d)
    BY <1>3, PagesConcat
  <1>5. PageMessages(FlattenSeq(u)) \in Seq(Bytes)
    BY <1>3, PagesType
  <1>6. Revisions(ds) = Revisions(u) \o RevisionMessages(d) /\ Revisions(u) \in Seq(RevisionRecords)
    <2> DEFINE L(c) == [ k \in DOMAIN c |-> RevisionMessages(c[k]) ]
               f == L(u)
               g == L(ds)
               x == RevisionMessages(d)
               h == Append(f, x)
    <2>1. f \in Seq(Seq(RevisionRecords)) /\ Len(f) = Len(u)
      BY RevisionListsType
    <2>2. g \in Seq(Seq(RevisionRecords)) /\ Len(g) = Len(u) + 1
      BY <1>2, RevisionListsType
    <2>3. x \in Seq(RevisionRecords)
      BY RecordListsType
    <2>4. /\ \A k \in 1 .. Len(u) : f[k] = RevisionMessages(u[k])
          /\ \A k \in 1 .. Len(ds) : g[k] = RevisionMessages(ds[k])
      OBVIOUS
    <2>5. \A k \in 1 .. Len(u) : ds[k] = u[k]
      BY <1>1
    <2> HIDE DEF L, f, g, x
    <2>6. /\ h \in Seq(Seq(RevisionRecords)) /\ Len(h) = Len(u) + 1
          /\ \A k \in 1 .. Len(u) : h[k] = f[k]
          /\ h[Len(u) + 1] = x
      BY <2>1, <2>3, AppendProperties
    <2> HIDE DEF h
    <2>7. \A k \in 1 .. Len(u) + 1 : g[k] = h[k]
      <3>1. \A k \in 1 .. Len(u) : g[k] = h[k]
        BY <1>2, <2>4, <2>5, <2>6
      <3>2. g[Len(u) + 1] = h[Len(u) + 1]
        BY <1>2, <2>4, <2>6 DEF x
      <3>3. \A k \in 1 .. Len(u) + 1 : k \in 1 .. Len(u) \/ k = Len(u) + 1
        BY <1>2
      <3> QED
        BY <3>1, <3>2, <3>3
    <2>8. g = h
      BY <2>2, <2>6, <2>7, SeqEqual
    <2>9. FlattenSeq(h) = FlattenSeq(f) \o x /\ FlattenSeq(f) \in Seq(RevisionRecords)
      BY <2>1, <2>3, FlattenAppend DEF h
    <2> QED
      BY <2>8, <2>9 DEF Revisions, L, f, g, x
  <1> QED
    BY <1>2, <1>4, <1>5, <1>6

\* The two parsers agree: what a call has added to sound streams, read back, is what
\* the other call returns in memory.
THEOREM SameResults == Spec => []SameResult
  <1>1. ASSUME Inv, Stored, Sound, status = "returned", AllSerializable
        PROVE  LET pages == Messages(pages_output.bytes)
                   revisions == Messages(revisions_output.bytes)
               IN  /\ PageMessages(stored_pages_)
                        = SubSeq(pages, Len(pages) - pages_written_ + 1, Len(pages))
                   /\ stored_revisions_
                        = FirstById(SubSeq(revisions, Len(revisions) - revisions_written_ + 1,
                                           Len(revisions)))
    <2> DEFINE d == dumps[call]
    <2>1. /\ stored_pages_ = d /\ stored_revisions_ = FirstById(RevisionMessages(d))
      BY <1>1 DEF Stored
    <2>2. Progress /\ Given /\ Counted /\ pending = << >> /\ Len(<< >>) = 0
      BY <1>1 DEF Inv, Progress
    <2>3. pages_output.bytes = Frames(AllPages)
      BY <1>1, <2>2 DEF Sound, Given, Holds
    <2>4. revisions_output.bytes = Frames(AllRevisions)
      <3>1. PICK sent \in Seq(RevisionRecords) :
              AllRevisions = sent \o << >> /\ Holds(revisions_output, Frames(sent))
        BY <2>2 DEF Given
      <3>2. AllRevisions = sent
        BY <3>1
      <3> QED
        BY <1>1, <3>1, <3>2 DEF Sound, Holds
    <2>5. /\ AllPages \in Seq(Bytes) /\ AllRevisions \in Seq(Bytes)
          /\ AllRevisions \in Seq(RevisionRecords)
      BY <2>2, MessagesType
    <2>6. Messages(pages_output.bytes) = AllPages /\ Messages(revisions_output.bytes) = AllRevisions
      BY <1>1, <2>3, <2>4, <2>5, MessagesOfFrames DEF AllSerializable
    <2>7. dumps \in Seq(Seq(References)) /\ dumps # << >> /\ d = dumps[Len(dumps)]
          /\ d \in Seq(References)
      BY <2>2 DEF Progress
    <2>8. AllPages = PageMessages(FlattenSeq(dumps)) /\ AllRevisions = Revisions(dumps)
      BY DEF AllPages, AllRevisions, Revisions
    <2>9. PICK s \in Seq(Bytes) : AllPages = s \o PageMessages(d)
      BY <2>7, <2>8, LastDump
    <2>10. PICK t \in Seq(RevisionRecords) : AllRevisions = t \o RevisionMessages(d)
      BY <2>7, <2>8, LastDump
    <2>11. PageMessages(d) \in Seq(Bytes) /\ Len(PageMessages(d)) = pages_written_
      BY <2>2, <2>7, PagesType DEF Counted
    <2>12. RevisionMessages(d) \in Seq(RevisionRecords)
      BY <2>7, RecordListsType
    <2>13. Len(RevisionMessages(d)) = revisions_written_
      <3>1. Len(RevisionMessages(d)) \in Nat
        BY <2>12
      <3>2. revisions_written_ + Len(pending) = Len(RevisionMessages(d)) /\ revisions_written_ \in Nat
        BY <2>2 DEF Counted
      <3> HIDE DEF d
      <3> QED
        BY <2>2, <3>1, <3>2
    <2> HIDE DEF d
    <2>14. SubSeq(AllPages, Len(AllPages) - pages_written_ + 1, Len(AllPages)) = PageMessages(d)
      BY <2>9, <2>11, LastPart
    <2>15. SubSeq(AllRevisions, Len(AllRevisions) - revisions_written_ + 1, Len(AllRevisions))
             = RevisionMessages(d)
      BY <2>10, <2>12, <2>13, LastPart
    <2> QED
      BY <2>1, <2>6, <2>14, <2>15
  <1>2. Inv /\ Stored => SameResult
    BY <1>1 DEF SameResult
  <1>3. Spec => [](Inv /\ Stored)
    BY Invariant, StoredInit, StoredNext, PTL DEF Spec
  <1> QED
    BY <1>2, <1>3, PTL
=============================================================================
