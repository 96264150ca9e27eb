--------------------------- MODULE HeaderMappings ---------------------------
(***************************************************************************)
(* The header of a snapshot: how the mapping of the snapshot before it and *)
(* the pages that were written since become the mapping of the new one,    *)
(* and how a read finds its bytes with it                                  *)
(* (packages/shared/pkg/storage/header, pkg/sandbox/block/dedup.go and     *)
(* pkg/sandbox/build/build.go of the orchestrator).                        *)
(*                                                                         *)
(* The unit of offsets and lengths is a page, to which all of them are     *)
(* aligned: the divisions by PageSize of the compact form are exact. The   *)
(* limits of its columns (2^32 pages, 2^16 - 1 builds) are out of reach of *)
(* a device.                                                               *)
(***************************************************************************)
EXTENDS Integers, FiniteSets, Sequences, SequencesExt

CONSTANTS
    Size,         \* the pages of the device
    Ratio,        \* the pages of a block, blockSize / PageSize
    MaxBuilds     \* the snapshots of a behaviour, the template included

ASSUME MappingsAssumption ==
    /\ Ratio \in Nat \ {0}
    /\ Size \in Nat \ {0}
    /\ Size % Ratio = 0
    /\ MaxBuilds \in Nat \ {0}

Pages == 0..(Size - 1)
Blocks == 0..((Size \div Ratio) - 1)
Nil == 0              \* uuid.Nil; the builds are counted from 1
Zero == <<>>          \* a page of zeros; what build b writes to page p is <<b, p>>

VARIABLES
    memory,    \* per page the contents of the device when the last snapshot was taken
    file,      \* per build the pages of its diff file
    header,    \* the compact mapping of the last snapshot
    pc,        \* ToDiffHeader: "idle", "diff" in the merge of toDiffMapping,
               \* "header" in that of ToDiffHeader itself, "failed"
    base,      \* MergeMappings: baseMapping[baseIdx:], a sequence of entries
               \* [off, len, build, storage] as the next two
    diff,      \* diffMapping[diffIdx:]
    mappings   \* the result so far

vars == <<memory, file, header, pc, base, diff, mappings>>

-----------------------------------------------------------------------------
(* Mappings.                                                               *)

End(m) == m.off + m.len

\* The pages of a set of blocks of r pages.
PagesOf(S, r) == {p \in Pages : p \div r \in S}

\* The elements of a finite set of numbers in ascending order.
Ascending(S) ==
    [k \in 1..Cardinality(S) |-> CHOOSE x \in S : Cardinality({y \in S : y <= x}) = k]

RunLength(S, s) == CHOOSE n \in 1..Size : s..(s + n - 1) \subseteq S /\ s + n \notin S

\* One entry per range of blocks, packed in the storage of the build.
CreateMapping(id, S, r) ==
    LET starts == Ascending({s \in S : s - 1 \notin S}) IN
    [k \in DOMAIN starts |->
        [off |-> starts[k] * r, len |-> RunLength(S, starts[k]) * r, build |-> id,
         storage |-> Cardinality({s \in S : s < starts[k]}) * r]]

\* The body of the loop of NormalizeMappings: the last element is current.
Join(joined, m) ==
    LET current == Last(joined)
        storageContiguous == m.build = Nil \/ m.storage = current.storage + current.len
    IN  IF m.build = current.build /\ storageContiguous
        THEN Front(joined) \o <<[current EXCEPT !.len = @ + m.len]>>
        ELSE Append(joined, m)

NormalizeMappings(ms) ==
    LET Joined[i \in DOMAIN ms] == IF i = 1 THEN <<ms[1]>> ELSE Join(Joined[i - 1], ms[i])
    IN  IF ms = <<>> THEN <<>> ELSE Joined[Len(ms)]

\* The compact form: the builds, each once, and the columns; index 0 is nilBuildIdx.
NewMapping(ms) ==
    LET new == {i \in DOMAIN ms : ms[i].build # Nil
                                  /\ \A j \in 1..(i - 1) : ms[j].build # ms[i].build}
        order == Ascending(new)
        builds == [k \in DOMAIN order |-> ms[order[k]].build]
        Idx(m) == IF m.build = Nil THEN 0
                  ELSE CHOOSE k \in DOMAIN builds : builds[k] = m.build
    IN  [builds |-> builds,
         offsets |-> [i \in DOMAIN ms |-> ms[i].off],
         lengths |-> [i \in DOMAIN ms |-> ms[i].len],
         storage |-> [i \in DOMAIN ms |-> ms[i].storage],
         buildIdx |-> [i \in DOMAIN ms |-> Idx(ms[i])]]

At(h, i) ==
    [off |-> h.offsets[i], len |-> h.lengths[i], storage |-> h.storage[i],
     build |-> IF h.buildIdx[i] = 0 THEN Nil ELSE h.builds[h.buildIdx[i]]]

Slice(h) == [i \in DOMAIN h.offsets |-> At(h, i)]

\* The entries are contiguous and cover exactly the device.
Validate(h) ==
    LET n == Len(h.offsets) IN
    /\ n > 0
    /\ h.offsets[1] = 0
    /\ \A i \in 1..(n - 1) : h.offsets[i + 1] = h.offsets[i] + h.lengths[i]
    /\ h.offsets[n] + h.lengths[n] = Size

-----------------------------------------------------------------------------
(* Reads.                                                                  *)

\* The number of entries that start at or before a page, by binary search.
SearchOffset(h, p) ==
    LET n == Len(h.offsets)
        Search[range \in (0..n) \X (0..n)] ==
            LET lo == range[1] hi == range[2] mid == (lo + hi) \div 2 IN
            IF lo >= hi THEN lo
            ELSE IF h.offsets[mid + 1] > p THEN Search[<<lo, mid>>] ELSE Search[<<mid + 1, hi>>]
    IN  Search[<<0, n>>]

NoSource == [off |-> 0, len |-> 0, build |-> Nil]

\* Where the bytes from page p on are, and how many: NoSource stands for an error.
GetShiftedMapping(h, p) ==
    LET i == SearchOffset(h, p) IN
    IF i = 0 \/ p >= End(At(h, i)) THEN NoSource
    ELSE LET m == At(h, i) shift == p - m.off IN
         [off |-> m.storage + shift, len |-> m.len - shift, build |-> m.build]

\* planRead and readSegments: n pages from p on. A read that fails ends early.
ReadAt(h, p, n) ==
    LET Rest[o \in p..(p + n)] ==
            LET source == GetShiftedMapping(h, o)
                left == p + n - o
                length == IF source.len < left THEN source.len ELSE left
            IN  CASE length = 0 -> <<>>
                  [] length > 0 /\ source.build = Nil ->
                       [k \in 1..length |-> Zero] \o Rest[o + length]
                  [] OTHER ->
                       IF source.off + length > Len(file[source.build]) THEN <<>>
                       ELSE SubSeq(file[source.build], source.off + 1, source.off + length)
                              \o Rest[o + length]
    IN  Rest[p]

-----------------------------------------------------------------------------
(* A snapshot.                                                             *)

Init ==
    /\ memory = [p \in Pages |-> <<1, p>>]
    /\ file = <<[k \in 1..Size |-> <<1, k - 1>>]>>
    /\ header = NewMapping(<<[off |-> 0, len |-> Size, build |-> 1, storage |-> 0]>>)
    /\ pc = "idle"
    /\ base = <<>> /\ diff = <<>> /\ mappings = <<>>

\* The diff file has the dirty blocks in order, packed: ExportToDiff, drainDirtyPages.
\* ToDiffHeader starts with toDiffMapping, which merges the empty blocks into them.
Export(dirty, empty, r, contents) ==
    LET id == Len(file) + 1
        pages == Ascending(PagesOf(dirty, r))
    IN  /\ file' = Append(file, [k \in DOMAIN pages |-> contents[pages[k]]])
        /\ memory' = contents
        /\ pc' = "diff"
        /\ base' = CreateMapping(id, dirty, r)
        /\ diff' = CreateMapping(Nil, empty, r)
        /\ mappings' = <<>>
        /\ UNCHANGED header

\* The device at a snapshot: of the pages of the dirty blocks, some are zero, some are
\* as before and the others are new; the empty blocks are zero.
Contents(dirty, empty, zero, kept) ==
    [p \in Pages |-> CASE p \in zero \cup PagesOf(empty, Ratio) -> Zero
                       [] p \in PagesOf(dirty, Ratio) \ (zero \cup kept) -> <<Len(file) + 1, p>>
                       [] OTHER -> memory[p]]

\* dedupCompare, at the granularity of pages: zero pages join the empty blocks, and
\* a page that the snapshot before has too is not stored again, except where it is
\* not cached or where that would make the reads of a block too scattered.
Dedup(dirty, empty, zero, contents) ==
    LET parent == {p \in PagesOf(dirty, Ratio) \ zero :
                     /\ GetShiftedMapping(header, p).build # Nil
                     /\ ReadAt(header, p, 1) = <<contents[p]>>}
    IN  \E shared \in SUBSET parent :
            Export((PagesOf(dirty, Ratio) \ zero) \ shared,
                   zero \cup PagesOf(empty, Ratio), 1, contents)

\* The dirty and the empty blocks of a snapshot are disjoint.
Snapshot ==
    /\ pc = "idle"
    /\ Len(file) < MaxBuilds
    /\ \E dirty \in SUBSET Blocks : \E empty \in SUBSET (Blocks \ dirty) :
       \E zero \in SUBSET PagesOf(dirty, Ratio) :
       \E kept \in SUBSET (PagesOf(dirty, Ratio) \ zero) :
         LET contents == Contents(dirty, empty, zero, kept) IN
         \/ Export(dirty, empty, Ratio, contents)
         \/ Dedup(dirty, empty, {p \in PagesOf(dirty, Ratio) : contents[p] = Zero}, contents)

-----------------------------------------------------------------------------
(* The loop of MergeMappings, one action per case. No entry is empty.      *)

Merging == pc # "idle" /\ base # <<>> /\ diff # <<>>

Before(m, o) == End(m) <= o.off
Inside(m, o) == m.off >= o.off /\ End(m) <= End(o)

\* The part of a base entry before a diff entry, and the part after it.
LeftPart(b, d) ==
    IF d.off > b.off THEN <<[b EXCEPT !.len = d.off - b.off]>> ELSE <<>>

\* Mutant of RightPart: the storage offset is not shifted.
RightPart_NoShift(b, d) ==
    LET shift == End(d) - b.off IN
    IF b.len > shift
    THEN <<[off |-> b.off + shift, len |-> b.len - shift, build |-> b.build,
            storage |-> b.storage]>>
    ELSE <<>>

RightPart(b, d) ==
    LET shift == End(d) - b.off IN
    IF b.len > shift
    THEN <<[off |-> b.off + shift, len |-> b.len - shift, build |-> b.build,
            storage |-> b.storage + shift]>>
    ELSE <<>>

Unmerged == <<memory, file, header, pc>>

BaseBeforeDiff ==
    /\ Merging /\ Before(Head(base), Head(diff))
    /\ mappings' = Append(mappings, Head(base))
    /\ base' = Tail(base)
    /\ UNCHANGED <<diff, Unmerged>>

DiffBeforeBase ==
    /\ Merging /\ Before(Head(diff), Head(base))
    /\ mappings' = Append(mappings, Head(diff))
    /\ diff' = Tail(diff)
    /\ UNCHANGED <<base, Unmerged>>

\* Mutant of BaseInsideDiff: not when they start together.
BaseInsideDiff_Strict ==
    /\ Merging /\ Inside(Head(base), Head(diff))
    /\ Head(base).off > Head(diff).off
    /\ base' = Tail(base)
    /\ UNCHANGED <<diff, mappings, Unmerged>>

BaseInsideDiff ==
    /\ Merging /\ Inside(Head(base), Head(diff))
    /\ base' = Tail(base)
    /\ UNCHANGED <<diff, mappings, Unmerged>>

DiffInsideBase ==
    LET b == Head(base) d == Head(diff) IN
    /\ Merging
    /\ Inside(d, b) /\ ~Inside(b, d)
    /\ mappings' = mappings \o LeftPart(b, d) \o <<d>>
    /\ base' = RightPart(b, d) \o Tail(base)
    /\ diff' = Tail(diff)
    /\ UNCHANGED Unmerged

Overlap(b, d) == ~Before(b, d) /\ ~Before(d, b) /\ ~Inside(b, d) /\ ~Inside(d, b)

BaseAfterDiff ==
    LET b == Head(base) d == Head(diff) IN
    /\ Merging
    /\ Overlap(b, d) /\ b.off > d.off
    /\ mappings' = Append(mappings, d)
    /\ base' = RightPart(b, d) \o Tail(base)
    /\ diff' = Tail(diff)
    /\ UNCHANGED Unmerged

DiffAfterBase ==
    LET b == Head(base) d == Head(diff) IN
    /\ Merging
    /\ Overlap(b, d) /\ d.off > b.off
    /\ mappings' = mappings \o LeftPart(b, d)
    /\ base' = Tail(base)
    /\ UNCHANGED <<diff, Unmerged>>

Merged == mappings \o base \o diff

\* toDiffMapping returns, and the diff is merged into the mapping of the snapshot before.
DiffMapped ==
    /\ pc = "diff"
    /\ base = <<>> \/ diff = <<>>
    /\ pc' = "header"
    /\ base' = Slice(header)
    /\ diff' = Merged
    /\ mappings' = <<>>
    /\ UNCHANGED <<memory, file, header>>

\* ToDiffHeader returns; an invalid mapping is an error and the snapshot fails.
HeaderMerged ==
    /\ pc = "header"
    /\ base = <<>> \/ diff = <<>>
    /\ \E ms \in {NormalizeMappings(Merged)} : \E h \in {NewMapping(ms)} :
         IF Validate(h) THEN header' = h /\ pc' = "idle"
                        ELSE UNCHANGED header /\ pc' = "failed"
    /\ base' = <<>> /\ diff' = <<>> /\ mappings' = <<>>
    /\ UNCHANGED <<memory, file>>

ToDiffHeader ==
    \/ BaseBeforeDiff \/ DiffBeforeBase
    \/ BaseInsideDiff \/ DiffInsideBase
    \/ BaseAfterDiff \/ DiffAfterBase
    \/ DiffMapped \/ HeaderMerged

Next == Snapshot \/ ToDiffHeader

\* ToDiffHeader is a computation: it goes on.
Spec == Init /\ [][Next]_vars /\ WF_vars(ToDiffHeader)

-----------------------------------------------------------------------------
(* Properties.                                                             *)

\* Every read of the device through the header of the last snapshot, of any
\* length and across any entries (GetShiftedMapping, planRead), returns what the
\* guest had there when the snapshot was taken: what it wrote last, or zeros, in
\* whichever snapshot it wrote them, deduplicated or not.
ReadsWhatWasWritten ==
    pc = "idle" =>
        \A p \in Pages : \A n \in 1..(Size - p) :
            ReadAt(header, p, n) = SubSeq([k \in 1..Size |-> memory[k - 1]], p + 1, p + n)

\* Every snapshot gets its header: the cases of MergeMappings leave none out, in
\* which it would loop forever ("invalid case during merge mappings",
\* mapping.go:198), and the result passes Validate.
SnapshotGetsHeader == pc = "diff" ~> pc = "idle"

-----------------------------------------------------------------------------
(* The inductive invariant.                                                *)

Entry == [off : Nat, len : Nat \ {0}, build : Nat, storage : Nat]
Content == {Zero} \cup (Nat \X Nat)

\* The types of the variables. A snapshot never fails.
TypeOK ==
    /\ memory \in [Pages -> Content]
    /\ file \in Seq(Seq(Content))
    /\ header.offsets \in Seq(Nat) /\ Slice(header) \in Seq(Entry)
    /\ pc \in {"idle", "diff", "header"}
    /\ base \in Seq(Entry) /\ diff \in Seq(Entry) /\ mappings \in Seq(Entry)

Covers(m, p) == m.off <= p /\ p < End(m)

\* What an entry leads to for a page is what the page holds.
Has(m, p) ==
    IF m.build = Nil THEN memory[p] = Zero
    ELSE /\ m.build \in DOMAIN file
         /\ m.storage + (p - m.off) + 1 \in DOMAIN file[m.build]
         /\ file[m.build][m.storage + (p - m.off) + 1] = memory[p]

\* A sequence of entries is in order, without gaps, tiles the device, is right.
Ordered(ms) == \A i, j \in DOMAIN ms : i < j => End(ms[i]) <= ms[j].off
Contiguous(ms) == \A i \in DOMAIN ms : i > 1 => ms[i].off = End(ms[i - 1])
Whole(ms) ==
    /\ ms # <<>> /\ ms[1].off = 0 /\ End(ms[Len(ms)]) = Size
    /\ Ordered(ms) /\ Contiguous(ms)
OnDevice(ms) == \A i \in DOMAIN ms : End(ms[i]) <= Size
Mapped(ms, p) == \E i \in DOMAIN ms : Covers(ms[i], p)
Right(ms) == \A i \in DOMAIN ms : \A p \in Pages : Covers(ms[i], p) => Has(ms[i], p)
Precedes(ms, ns) == \A i \in DOMAIN ms, j \in DOMAIN ns : End(ms[i]) <= ns[j].off

\* ms is right except for the pages that one of the others maps.
RightBut(ms, others) ==
    \A i \in DOMAIN ms : \A p \in Pages : Covers(ms[i], p) => Has(ms[i], p) \/ Mapped(others, p)

\* The header of the last snapshot tiles the device and is right when it is done.
HeaderInv ==
    /\ Whole(Slice(header))
    /\ pc = "idle" => Right(Slice(header))

\* In the merge of the dirty and the empty blocks: two lists of entries that are apart,
\* the result before them, and the header is right for the pages of none of the three.
Disjoint(bs, ds, ms) ==
    /\ Ordered(bs) /\ Ordered(ds) /\ Ordered(ms)
    /\ OnDevice(bs) /\ OnDevice(ds) /\ OnDevice(ms)
    /\ Precedes(ms, bs) /\ Precedes(ms, ds)
    /\ \A i \in DOMAIN bs, j \in DOMAIN ds : Before(bs[i], ds[j]) \/ Before(ds[j], bs[i])
    /\ Right(bs) /\ Right(ds) /\ Right(ms)
    /\ RightBut(Slice(header), ms \o bs \o ds)

DiffInv == pc = "diff" => Disjoint(base, diff, mappings)

\* In the merge of that into the header: the result tiles the device up to its end.
Cut(ms) == IF ms = <<>> THEN 0 ELSE End(ms[Len(ms)])

Tiles(ms) ==
    /\ ms # <<>> => ms[1].off = 0
    /\ Ordered(ms) /\ Contiguous(ms) /\ OnDevice(ms) /\ Right(ms)

\* There the rest of the base begins, or else an entry of the diff that reaches to it.
\* The base is right for the pages that the rest of the diff does not replace.
Remain(bs, ds, cut) ==
    /\ Ordered(bs) /\ Contiguous(bs) /\ RightBut(bs, ds)
    /\ Ordered(ds) /\ OnDevice(ds) /\ Right(ds)
    /\ \A i \in DOMAIN bs : cut <= bs[i].off
    /\ \A i \in DOMAIN ds : cut <= ds[i].off
    /\ bs # <<>> =>
         /\ End(bs[Len(bs)]) = Size
         /\ \/ bs[1].off = cut
            \/ ds # <<>> /\ ds[1].off = cut /\ bs[1].off <= End(ds[1])
    /\ bs = <<>> =>
         \/ ds = <<>> /\ cut = Size
         \/ Len(ds) = 1 /\ ds[1].off = cut /\ End(ds[1]) = Size

MergeInv == pc = "header" => Tiles(mappings) /\ Remain(base, diff, Cut(mappings))

\* The types, and what the merges have established of every page.
MappingsInv == TypeOK /\ HeaderInv /\ DiffInv /\ MergeInv
=============================================================================
