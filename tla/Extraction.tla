----------------------------- MODULE Extraction -----------------------------
(***************************************************************************)
(* TextExtractor and Bz2Extractor, and StreamingDumpParser behind them.    *)
(*                                                                         *)
(* An extractor is called once per dump.  Every call makes a parser of its *)
(* own: a DumpParser, which gathers pages and revisions in memory, or a    *)
(* StreamingDumpParser, which writes them to two output streams as soon as *)
(* a page is complete.  Here both are given the same dumps, one after the  *)
(* other, the streaming calls always the same streams, and MessageReader   *)
(* reads the pages back in the end.  The streams may fail at any byte, and *)
(* a dump at any event between two pages: the parser throws and the dump   *)
(* is abandoned, or tried again as the next one.                           *)
(*                                                                         *)
(* A dump parser calls Store once per page, with the page and with the     *)
(* revisions the page refers to (PageCitations, StoreExact).  A page       *)
(* message holds the ids of its revisions; a revision message holds its id *)
(* and the page it was found in, so that revisions that share an id differ.*)
(***************************************************************************)
EXTENDS MessageIO, Ascending

CONSTANTS
  References,  \* sets of revision ids a page may refer to
  MaxPages,    \* bound: pages of all dumps together
  MaxCalls,    \* bound: calls of the extractor
  MaxReads     \* bound: messages read back

RevIds == UNION References

ASSUME ReferencesAssumption == \A refs \in References : refs \in SUBSET Nat /\ IsFiniteSet(refs)
ASSUME BoundsAssumption == MaxPages \in Nat /\ MaxCalls \in Nat \ {0} /\ MaxReads \in Nat

VARIABLES
  stored_pages_, stored_revisions_,    \* DumpParser: what ParseXML returns
  pages_output, revisions_output,      \* StreamingDumpParser: the two streams
  pages_written_, revisions_written_,  \* and what its ParseXML returns
  pending,    \* Store: the revisions of the page still to write
  status,     \* "parsing", "returned" or "threw"
  call,       \* number of the current call
  dumps,      \* the pages of each dump so far, in order
  pos,        \* MessageReader on the pages: bytes read
  read        \* MessageReader on the pages: messages returned

memory   == << stored_pages_, stored_revisions_ >>
streams  == << pages_output, revisions_output >>
counters == << pages_written_, revisions_written_ >>
reader   == << pos, read >>
vars == << memory, streams, counters, pending, status, call, dumps, reader >>

\* The record of the revision r of the page number p of a dump, and those of a
\* page in the order std::map keeps them.
Revision(r, p) == << r, p >>
Records(refs, p) == [ k \in 1 .. Cardinality(refs) |-> Revision(Ascending(refs)[k], p) ]

NoRevisions == [ r \in {} |-> << >> ]

-----------------------------------------------------------------------------

Init ==
  /\ stored_pages_ = << >> /\ stored_revisions_ = NoRevisions
  /\ pages_output = Empty /\ revisions_output = Empty
  /\ pages_written_ = 0 /\ revisions_written_ = 0
  /\ pending = << >>
  /\ status = "parsing"
  /\ call = 1 /\ dumps = << << >> >>
  /\ pos = 0 /\ read = << >>

\* Mutant: the parser, and with it the counters, lives as long as the extractor.
FreshCounters_Kept == UNCHANGED counters

FreshCounters == pages_written_' = 0 /\ revisions_written_' = 0

\* Extract: another dump, another parser of either kind; the streams go on.
Extract ==
  /\ status # "parsing" /\ read = << >>
  /\ call < MaxCalls
  /\ status' = "parsing"
  /\ call' = call + 1 /\ dumps' = Append(dumps, << >>)
  /\ stored_pages_' = << >> /\ stored_revisions_' = NoRevisions
  /\ FreshCounters
  /\ UNCHANGED << streams, pending, reader >>

\* Mutant: the record of a later page takes the place of an earlier one.
Inserted_Replaces(refs, p) ==
  [ r \in DOMAIN stored_revisions_ \cup refs |->
      IF r \in refs THEN Revision(r, p) ELSE stored_revisions_[r] ]

\* std::map::insert leaves the ids alone that the map has.
Inserted(refs, p) ==
  [ r \in DOMAIN stored_revisions_ \cup refs |->
      IF r \in DOMAIN stored_revisions_ THEN stored_revisions_[r] ELSE Revision(r, p) ]

\* DumpParser::Store.
Store(refs, p) ==
  /\ stored_pages_' = Append(stored_pages_, refs)
  /\ stored_revisions_' = Inserted(refs, p)

\* A page of the dump is complete.  The one parser stores it; the other begins
\* StreamingDumpParser::Store: the page is written and counted.
EndPage(refs) ==
  /\ status = "parsing" /\ pending = << >>
  /\ Len(FlattenSeq(dumps)) < MaxPages
  /\ LET p == Len(dumps[call]) + 1 IN
     /\ Store(refs, p)
     /\ pending' = Records(refs, p)
  /\ pages_output' \in WriteMessage(pages_output, Ascending(refs))
  /\ pages_written_' = pages_written_ + 1
  /\ dumps' = [dumps EXCEPT ![call] = Append(@, refs)]
  /\ UNCHANGED << revisions_output, revisions_written_, status, call, reader >>

\* Mutants: the last revision of a page is not written; the loop never gets past
\* the first one.
RevisionWrites_SkipLast ==
  IF Len(pending) = 1 THEN {revisions_output} ELSE WriteMessage(revisions_output, Head(pending))
Remaining_Stuck == pending

RevisionWrites == WriteMessage(revisions_output, Head(pending))
Remaining == Tail(pending)

\* Store goes on: the next revision is written and counted.
StoreRevision ==
  /\ pending # << >>
  /\ revisions_output' \in RevisionWrites
  /\ revisions_written_' = revisions_written_ + 1
  /\ pending' = Remaining
  /\ UNCHANGED << memory, pages_output, pages_written_, status, call, dumps, reader >>

\* The dump ends: the pages and revisions, or the counts, are returned.
Return ==
  /\ status = "parsing" /\ pending = << >>
  /\ status' = "returned"
  /\ UNCHANGED << memory, streams, counters, pending, call, dumps, reader >>

\* A handler throws, or the document is cut short, as it is when the decompressor
\* fails: the parser is destroyed with all it had in memory.
Throw ==
  /\ status = "parsing" /\ pending = << >>
  /\ status' = "threw"
  /\ stored_pages_' = << >> /\ stored_revisions_' = NoRevisions
  /\ UNCHANGED << streams, counters, pending, call, dumps, reader >>

\* Someone reads the pages back, knowing no better when to stop.
ReadPage ==
  /\ status # "parsing" /\ Len(read) < MaxReads
  /\ \E r \in ReadMessage(Visible(pages_output.bytes), pos) :
       pos' = r.pos /\ read' = Append(read, r.message)
  /\ UNCHANGED << memory, streams, counters, pending, status, call, dumps >>

Next ==
  \/ Extract
  \/ \E refs \in References : EndPage(refs)
  \/ StoreRevision \/ Return \/ Throw \/ ReadPage

Spec == Init /\ [][Next]_vars

-----------------------------------------------------------------------------

\* The messages the streams were given, of all calls or of the current one.
PageMessages(d) == [ k \in DOMAIN d |-> Ascending(d[k]) ]
RevisionMessages(d) == FlattenSeq([ k \in DOMAIN d |-> Records(d[k], k) ])
AllPages == PageMessages(FlattenSeq(dumps))
AllRevisions == FlattenSeq([ c \in DOMAIN dumps |-> RevisionMessages(dumps[c]) ])

\* A message as it arrives in a sound stream, and the most messages of the
\* sequence ms that b holds in full.
Frame(m) == Header(Len(m)) \o Serialized(m)
Frames(ms) == FlattenSeq([ k \in DOMAIN ms |-> Frame(ms[k]) ])
Complete(b, ms) ==
  CHOOSE n \in 0 .. Len(ms) :
    /\ Len(Frames(SubSeq(ms, 1, n))) <= Len(b)
    /\ n < Len(ms) => Len(Frames(SubSeq(ms, 1, n + 1))) > Len(b)

\* Type correctness.
TypeOK ==
  /\ stored_pages_ \in Seq(References)
  /\ DOMAIN stored_revisions_ \subseteq RevIds
  /\ pages_output.bytes \in Seq(Nat) /\ pages_output.good \in BOOLEAN
  /\ revisions_output.bytes \in Seq(Nat) /\ revisions_output.good \in BOOLEAN
  /\ pages_written_ \in 0 .. MaxPages
  /\ revisions_written_ \in 0 .. Len(RevisionMessages(dumps[call]))
  /\ pending \in Seq(RevIds \X (1 .. MaxPages))
  /\ status \in {"parsing", "returned", "threw"}
  /\ call \in 1 .. MaxCalls /\ Len(dumps) = call
  /\ pos \in 0 .. Len(pages_output.bytes)
  /\ read \in Seq(Seq(Nat))

\* A failed stream holds a prefix of what a sound one would: a write after the
\* failure never leaves a gap in it.
NoGap ==
  /\ IsPrefix(pages_output.bytes, Frames(AllPages))
  /\ IsPrefix(revisions_output.bytes, Frames(AllRevisions))

\* Pages read back are the pages written, of one call after the other, as far as
\* the stream took them, the reader may see them and none was too long to be
\* written.  Behind them the reader finds at most a part of one and then empty
\* messages, unless the next was too long.
ReadBack ==
  LET seen  == Visible(pages_output.bytes)
      whole == Complete(seen, AllPages)
      long  == { k \in DOMAIN AllPages : ~ Serializable(AllPages[k]) }
      n == Min({whole} \cup { k - 1 : k \in long })
  IN  \A k \in DOMAIN read :
        /\ k <= n => read[k] = AllPages[k]
        /\ n + 1 \notin long =>
             /\ k = n + 1 => \/ read[k] = << >>
                             \/ k \in DOMAIN AllPages /\ IsPrefix(read[k], AllPages[k])
             /\ k > n + 1 => read[k] = << >>

\* Whenever no Store is under way, and so also when a handler throws or another
\* dump has been tried since, the revisions a written page refers to have been
\* written.
Consistent ==
  pending = << >> /\ revisions_output.good =>
    LET there == SubSeq(AllRevisions, 1, Complete(revisions_output.bytes, AllRevisions)) IN
    \A k \in 1 .. Complete(pages_output.bytes, AllPages) :
      FlattenSeq(dumps)[k] \subseteq { rev[1] : rev \in ToSet(there) }

Sound == pages_output.good /\ revisions_output.good

\* On streams that have not failed every call returns the number of pages and of
\* revisions of its own dump, whatever calls came before, and the streams hold
\* the frames of all dumps; a page too long to be written is counted, too.
SoundCounts ==
  Sound /\ status # "parsing" =>
    /\ pages_written_ = Len(dumps[call])
    /\ revisions_written_ = Len(RevisionMessages(dumps[call]))
    /\ Complete(pages_output.bytes, AllPages) = Len(AllPages)
    /\ Complete(revisions_output.bytes, AllRevisions) = Len(AllRevisions)

\* The messages of b from each position on, all of them, and the first record there
\* is under each id.
MessagesFrom(b) ==
  LET from[p \in 0 .. Len(b)] ==
        IF p = Len(b) THEN << >>
        ELSE LET r == CHOOSE r \in ReadMessage(b, p) : TRUE IN << r.message >> \o from[r.pos]
  IN  from
Messages(b) == MessagesFrom(b)[0]
FirstById(ms) ==
  [ r \in { m[1] : m \in ToSet(ms) } |->
      ms[Min({ k \in DOMAIN ms : ms[k][1] = r })] ]

AllSerializable ==
  /\ \A k \in DOMAIN AllPages : Serializable(AllPages[k])
  /\ \A k \in DOMAIN AllRevisions : Serializable(AllRevisions[k])

\* The two ways of extracting agree: what a call has added to sound streams, none
\* of the messages being too long, reads back as the pages that the other call returns
\* in memory, and as its revisions if of the revisions of one id the first counts.
SameResult ==
  Sound /\ status = "returned" /\ AllSerializable =>
    LET pages == Messages(pages_output.bytes)
        revisions == Messages(revisions_output.bytes)
    IN  /\ PageMessages(stored_pages_)
             = SubSeq(pages, Len(pages) - pages_written_ + 1, Len(pages))
        /\ stored_revisions_
             = FirstById(SubSeq(revisions, Len(revisions) - revisions_written_ + 1,
                                Len(revisions)))
=============================================================================
