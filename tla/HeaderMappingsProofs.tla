------------------------ MODULE HeaderMappingsProofs ------------------------
(***************************************************************************)
(* A snapshot's header is right, for every device, block size and number   *)
(* of snapshots: MappingsInv is inductive, and with what the operators     *)
(* compute (HeaderMappingsTheorems) it implies that every read through the *)
(* header returns what the guest had written, and that no snapshot fails.  *)
(***************************************************************************)
EXTENDS HeaderMappingsTheorems

-----------------------------------------------------------------------------
(* Parts of a sequence of entries.                                         *)

LEMMA TailEntry ==
  ASSUME NEW ms \in Seq(Entry), ms # <<>>
  PROVE  /\ Head(ms) = ms[1] /\ Head(ms) \in Entry /\ 1 \in DOMAIN ms /\ Len(ms) \in DOMAIN ms
         /\ Tail(ms) \in Seq(Entry) /\ Len(Tail(ms)) = Len(ms) - 1 /\ Len(ms) \in Nat \ {0}
         /\ \A i \in DOMAIN Tail(ms) : /\ i + 1 \in DOMAIN ms /\ Tail(ms)[i] = ms[i + 1]
                                       /\ i \in Nat \ {0} /\ Tail(ms)[i] \in Entry
         /\ \A i \in DOMAIN ms : /\ i \in Nat \ {0} /\ ms[i] \in Entry
                                 /\ i # 1 => i - 1 \in DOMAIN Tail(ms) /\ Tail(ms)[i - 1] = ms[i]
  OBVIOUS

\* The entries behind the first one.
LEMMA TailOrdered ==
  ASSUME NEW ms \in Seq(Entry), ms # <<>>, Ordered(ms)
  PROVE  /\ Ordered(Tail(ms))
         /\ \A i \in DOMAIN Tail(ms) : End(Head(ms)) <= Tail(ms)[i].off
         /\ \A i \in DOMAIN ms : Head(ms).off <= ms[i].off
<1>1. Ordered(Tail(ms))
  <2> SUFFICES ASSUME NEW i \in DOMAIN Tail(ms), NEW j \in DOMAIN Tail(ms), i < j
               PROVE  End(Tail(ms)[i]) <= Tail(ms)[j].off
    BY DEF Ordered
  <2>1. i + 1 \in DOMAIN ms /\ j + 1 \in DOMAIN ms /\ i + 1 < j + 1
    BY TailEntry
  <2> QED
    BY <2>1, TailEntry DEF Ordered
<1>2. ASSUME NEW i \in DOMAIN Tail(ms) PROVE End(Head(ms)) <= Tail(ms)[i].off
  <2>1. i + 1 \in DOMAIN ms /\ 1 < i + 1 /\ 1 \in DOMAIN ms
    BY TailEntry
  <2> QED
    BY <2>1, TailEntry DEF Ordered
<1>3. ASSUME NEW i \in DOMAIN ms PROVE Head(ms).off <= ms[i].off
  <2>1. CASE i = 1
    BY <2>1, TailEntry, EntryFields
  <2>2. CASE i # 1
    <3>1. End(Head(ms)) <= ms[i].off
      BY <1>2, <2>2, TailEntry
    <3> QED
      BY <3>1, TailEntry, EntryFields
  <2> QED
    BY <2>1, <2>2
<1> QED
  BY <1>1, <1>2, <1>3

LEMMA TailContiguous ==
  ASSUME NEW ms \in Seq(Entry), ms # <<>>, Contiguous(ms)
  PROVE  /\ Contiguous(Tail(ms))
         /\ Tail(ms) # <<>> => /\ Tail(ms)[1].off = End(Head(ms))
                               /\ Tail(ms)[Len(Tail(ms))] = ms[Len(ms)]
         /\ Tail(ms) = <<>> => Len(ms) = 1 /\ Head(ms) = ms[Len(ms)]
<1>1. Contiguous(Tail(ms))
  <2> SUFFICES ASSUME NEW i \in DOMAIN Tail(ms), i > 1
               PROVE  Tail(ms)[i].off = End(Tail(ms)[i - 1])
    BY DEF Contiguous
  <2>1. /\ i + 1 \in DOMAIN ms /\ i + 1 > 1 /\ (i + 1) - 1 = i /\ i \in DOMAIN ms /\ i # 1
    BY TailEntry
  <2>2. Tail(ms)[i] = ms[i + 1] /\ Tail(ms)[i - 1] = ms[i]
    BY <2>1, TailEntry
  <2> QED
    BY <2>1, <2>2 DEF Contiguous
<1>2. ASSUME Tail(ms) # <<>>
      PROVE  Tail(ms)[1].off = End(Head(ms)) /\ Tail(ms)[Len(Tail(ms))] = ms[Len(ms)]
  <2>1. 1 \in DOMAIN Tail(ms) /\ Len(Tail(ms)) \in DOMAIN Tail(ms)
    BY <1>2, TailEntry
  <2>2. Tail(ms)[1] = ms[2] /\ 2 \in DOMAIN ms /\ Tail(ms)[Len(Tail(ms))] = ms[Len(ms)]
    BY <2>1, TailEntry
  <2> QED
    BY <2>2, TailEntry DEF Contiguous
<1>3. ASSUME Tail(ms) = <<>> PROVE Len(ms) = 1 /\ Head(ms) = ms[Len(ms)]
  <2>1. Len(Tail(ms)) = 0
    BY <1>3, EmptySeq
  <2> QED
    BY <2>1, TailEntry
<1> QED
  BY <1>1, <1>2, <1>3

\* A sequence maps the pages of its first entry and of the others.
LEMMA TailMapped ==
  ASSUME NEW ms \in Seq(Entry), ms # <<>>, NEW p
  PROVE  Mapped(ms, p) <=> Covers(Head(ms), p) \/ Mapped(Tail(ms), p)
  BY TailEntry DEF Mapped

LEMMA TailRight ==
  ASSUME NEW ms \in Seq(Entry), ms # <<>>
  PROVE  /\ Right(ms) => Right(Tail(ms)) /\ \A p \in Pages : Covers(Head(ms), p) => Has(Head(ms), p)
         /\ OnDevice(ms) => OnDevice(Tail(ms)) /\ End(Head(ms)) <= Size
  BY TailEntry DEF Right, OnDevice

LEMMA AppendMapped ==
  ASSUME NEW ms \in Seq(Entry), NEW m \in Entry, NEW p
  PROVE  Mapped(Append(ms, m), p) <=> Mapped(ms, p) \/ Covers(m, p)
  BY AppendEntry DEF Mapped

\* Concatenation of entries.
LEMMA ConcatEntries ==
  ASSUME NEW ms \in Seq(Entry), NEW ns \in Seq(Entry)
  PROVE  LET s == ms \o ns IN
         /\ s \in Seq(Entry) /\ Len(s) = Len(ms) + Len(ns)
         /\ \A i \in DOMAIN ms : i \in DOMAIN s /\ s[i] = ms[i]
         /\ \A i \in DOMAIN ns : Len(ms) + i \in DOMAIN s /\ s[Len(ms) + i] = ns[i]
         /\ \A i \in DOMAIN s : i \in DOMAIN ms \/ i - Len(ms) \in DOMAIN ns
<1> DEFINE s == ms \o ns
<1>1. /\ s \in Seq(Entry) /\ Len(s) = Len(ms) + Len(ns)
      /\ \A i \in 1..(Len(ms) + Len(ns)) : s[i] = IF i <= Len(ms) THEN ms[i] ELSE ns[i - Len(ms)]
  BY ConcatProperties
<1> HIDE DEF s
<1>2. /\ Len(ms) \in Nat /\ Len(ns) \in Nat /\ DOMAIN ms = 1..Len(ms) /\ DOMAIN ns = 1..Len(ns)
      /\ DOMAIN s = 1..(Len(ms) + Len(ns))
  BY <1>1
<1>3. \A i \in DOMAIN ms : i \in DOMAIN s /\ s[i] = ms[i]
  BY <1>1, <1>2
<1>4. \A i \in DOMAIN ns : Len(ms) + i \in DOMAIN s /\ s[Len(ms) + i] = ns[i]
  BY <1>1, <1>2
<1>5. \A i \in DOMAIN s : i \in DOMAIN ms \/ i - Len(ms) \in DOMAIN ns
  BY <1>2
<1> QED
  BY <1>1, <1>3, <1>4, <1>5 DEF s

LEMMA ConcatMapped ==
  ASSUME NEW ms \in Seq(Entry), NEW ns \in Seq(Entry), NEW p
  PROVE  Mapped(ms \o ns, p) <=> Mapped(ms, p) \/ Mapped(ns, p)
<1> DEFINE s == ms \o ns
<1>1. /\ \A i \in DOMAIN ms : i \in DOMAIN s /\ s[i] = ms[i]
      /\ \A i \in DOMAIN ns : Len(ms) + i \in DOMAIN s /\ s[Len(ms) + i] = ns[i]
      /\ \A i \in DOMAIN s : i \in DOMAIN ms \/ i - Len(ms) \in DOMAIN ns
  BY ConcatEntries
<1>2. \A i \in DOMAIN s : i - Len(ms) \in DOMAIN ns => s[i] = ns[i - Len(ms)]
  BY ConcatEntries
<1> HIDE DEF s
<1>3. Mapped(s, p) <=> Mapped(ms, p) \/ Mapped(ns, p)
  BY <1>1, <1>2 DEF Mapped
<1> QED
  BY <1>3 DEF s

\* Entries in order, and without gaps, on both sides of a page c.
LEMMA ConcatOrdered ==
  ASSUME NEW ms \in Seq(Entry), NEW ns \in Seq(Entry), Ordered(ms), Ordered(ns),
         Precedes(ms, ns)
  PROVE  Ordered(ms \o ns)
<1> DEFINE s == ms \o ns
<1>1. /\ \A i \in DOMAIN ms : s[i] = ms[i]
      /\ \A i \in DOMAIN s : i \in DOMAIN ms \/ i - Len(ms) \in DOMAIN ns
      /\ \A i \in DOMAIN s : i \in Nat \ {0}
  BY ConcatEntries
<1>2. \A i \in DOMAIN s : i - Len(ms) \in DOMAIN ns => s[i] = ns[i - Len(ms)]
  BY ConcatEntries
<1>3. /\ Len(ms) \in Nat /\ DOMAIN ms = 1..Len(ms)
      /\ \A i \in DOMAIN ns : i \in Nat \ {0}
  OBVIOUS
<1> HIDE DEF s
<1>4. ASSUME NEW i \in DOMAIN s, NEW j \in DOMAIN s, i < j PROVE End(s[i]) <= s[j].off
  <2>1. CASE i \in DOMAIN ms /\ j \in DOMAIN ms
    BY <1>1, <1>4, <2>1 DEF Ordered
  <2>2. CASE i \in DOMAIN ms /\ j - Len(ms) \in DOMAIN ns
    BY <1>1, <1>2, <2>2 DEF Precedes
  <2>3. CASE i - Len(ms) \in DOMAIN ns /\ j - Len(ms) \in DOMAIN ns
    <3>1. i - Len(ms) < j - Len(ms)
      BY <1>1, <1>3, <1>4
    <3> QED
      BY <1>2, <2>3, <3>1 DEF Ordered
  <2>4. ~(i - Len(ms) \in DOMAIN ns /\ j \in DOMAIN ms)
    BY <1>1, <1>3, <1>4
  <2> QED
    BY <1>1, <2>1, <2>2, <2>3, <2>4
<1> QED
  BY <1>4 DEF Ordered, s

LEMMA ConcatContiguous ==
  ASSUME NEW ms \in Seq(Entry), NEW ns \in Seq(Entry), Contiguous(ms), Contiguous(ns),
         ms # <<>> /\ ns # <<>> => ns[1].off = End(ms[Len(ms)])
  PROVE  Contiguous(ms \o ns)
<1> DEFINE s == ms \o ns
<1>1. /\ \A i \in DOMAIN ms : s[i] = ms[i]
      /\ \A i \in DOMAIN s : i \in DOMAIN ms \/ i - Len(ms) \in DOMAIN ns
      /\ \A i \in DOMAIN s : i \in Nat \ {0} /\ (i > 1 => i - 1 \in DOMAIN s)
  BY ConcatEntries
<1>2. \A i \in DOMAIN s : i - Len(ms) \in DOMAIN ns => s[i] = ns[i - Len(ms)]
  BY ConcatEntries
<1>3. /\ Len(ms) \in Nat /\ DOMAIN ms = 1..Len(ms)
      /\ \A i \in DOMAIN ns : i \in Nat \ {0} /\ (i > 1 => i - 1 \in DOMAIN ns)
      /\ DOMAIN ns # {} => ns # <<>>
      /\ Len(ms) # 0 => ms # <<>>
  OBVIOUS
<1> HIDE DEF s
<1>4. ASSUME NEW i \in DOMAIN s, i > 1 PROVE s[i].off = End(s[i - 1])
  <2>1. CASE i \in DOMAIN ms
    <3>1. i - 1 \in DOMAIN ms
      BY <1>3, <1>4, <2>1
    <3> QED
      BY <1>1, <1>4, <2>1, <3>1 DEF Contiguous
  <2>2. CASE i = Len(ms) + 1 /\ i - Len(ms) \in DOMAIN ns
    <3>1. i - 1 = Len(ms) /\ Len(ms) \in DOMAIN ms /\ i - Len(ms) = 1
      BY <1>3, <1>4, <2>2
    <3>2. ns # <<>> /\ ms # <<>>
      BY <1>3, <2>2, <3>1
    <3> QED
      BY <1>1, <1>2, <2>2, <3>1, <3>2
  <2>3. CASE i # Len(ms) + 1 /\ i - Len(ms) \in DOMAIN ns
    <3>1. /\ i - Len(ms) > 1 /\ (i - Len(ms)) - 1 = (i - 1) - Len(ms)
          /\ (i - 1) - Len(ms) \in DOMAIN ns /\ i - 1 \in DOMAIN s
      BY <1>1, <1>3, <1>4, <2>3
    <3>2. s[i] = ns[i - Len(ms)] /\ s[i - 1] = ns[(i - Len(ms)) - 1]
      BY <1>2, <2>3, <3>1
    <3> QED
      BY <2>3, <3>1, <3>2 DEF Contiguous
  <2> QED
    BY <1>1, <2>1, <2>2, <2>3
<1> QED
  BY <1>4 DEF Contiguous, s

LEMMA ConcatRight ==
  ASSUME NEW ms \in Seq(Entry), NEW ns \in Seq(Entry)
  PROVE  /\ Right(ms) /\ Right(ns) => Right(ms \o ns)
         /\ OnDevice(ms) /\ OnDevice(ns) => OnDevice(ms \o ns)
<1> DEFINE s == ms \o ns
<1>1. /\ \A i \in DOMAIN ms : s[i] = ms[i]
      /\ \A i \in DOMAIN s : i \in DOMAIN ms \/ i - Len(ms) \in DOMAIN ns
  BY ConcatEntries
<1>2. \A i \in DOMAIN s : i - Len(ms) \in DOMAIN ns => s[i] = ns[i - Len(ms)]
  BY ConcatEntries
<1> HIDE DEF s
<1>3. Right(ms) /\ Right(ns) => Right(s)
  BY <1>1, <1>2 DEF Right
<1>4. OnDevice(ms) /\ OnDevice(ns) => OnDevice(s)
  BY <1>1, <1>2 DEF OnDevice
<1> QED
  BY <1>3, <1>4 DEF s

\* An entry before others.
LEMMA ConsEntry ==
  ASSUME NEW m \in Entry, NEW t \in Seq(Entry)
  PROVE  LET s == <<m>> \o t IN
         /\ s \in Seq(Entry) /\ s # <<>> /\ s[1] = m
         /\ \A i \in DOMAIN s : i = 1 \/ (i - 1 \in DOMAIN t /\ s[i] = t[i - 1])
         /\ s[Len(s)] = IF t = <<>> THEN m ELSE t[Len(t)]
         /\ (\A i \in DOMAIN t : End(m) <= t[i].off) /\ Ordered(t) => Ordered(s)
         /\ (t # <<>> => t[1].off = End(m)) /\ Contiguous(t) => Contiguous(s)
<1> DEFINE h == <<m>>
           s == h \o t
<1>1. h \in Seq(Entry) /\ Len(h) = 1 /\ DOMAIN h = {1} /\ h[1] = m /\ h # <<>>
  OBVIOUS
<1>2. Ordered(h) /\ Contiguous(h)
  BY <1>1 DEF Ordered, Contiguous
<1> HIDE DEF h
<1>3. /\ s \in Seq(Entry) /\ Len(s) = 1 + Len(t) /\ s[1] = m
      /\ \A i \in DOMAIN t : 1 + i \in DOMAIN s /\ s[1 + i] = t[i]
      /\ \A i \in DOMAIN s : i = 1 \/ i - 1 \in DOMAIN t
  BY <1>1, ConcatEntries
<1>4. ASSUME \A i \in DOMAIN t : End(m) <= t[i].off, Ordered(t) PROVE Ordered(s)
  BY <1>1, <1>2, <1>4, ConcatOrdered DEF Precedes
<1>5. ASSUME t # <<>> => t[1].off = End(m), Contiguous(t) PROVE Contiguous(s)
  BY <1>1, <1>2, <1>5, ConcatContiguous
<1> HIDE DEF s
<1>6. \A i \in DOMAIN s : i = 1 \/ (i - 1 \in DOMAIN t /\ s[i] = t[i - 1])
  BY <1>3
<1>7. s # <<>>
  <2>1. Len(s) # 0
    BY <1>3
  <2> QED
    BY <2>1, EmptySeq
<1>8. s[Len(s)] = IF t = <<>> THEN m ELSE t[Len(t)]
  <2>1. CASE t = <<>>
    BY <1>3, <2>1, EmptySeq
  <2>2. CASE t # <<>>
    <3>1. Len(t) \in DOMAIN t
      BY <2>2, EmptySeq
    <3> QED
      BY <1>3, <2>2, <3>1
  <2> QED
    BY <2>1, <2>2
<1> QED
  BY <1>3, <1>4, <1>5, <1>6, <1>7, <1>8 DEF s, h

-----------------------------------------------------------------------------
(* The cases of MergeMappings.                                             *)

\* The cases leave none out (mapping.go:198, "invalid case during merge mappings").
LEMMA CasesComplete ==
  ASSUME NEW b \in Entry, NEW d \in Entry
  PROVE  \/ Before(b, d) \/ Before(d, b) \/ Inside(b, d)
         \/ Inside(d, b) /\ ~Inside(b, d)
         \/ Overlap(b, d) /\ b.off > d.off
         \/ Overlap(b, d) /\ d.off > b.off
  BY EntryFields DEF Before, Inside, Overlap

\* The result grows by an entry that begins where it ends.
LEMMA TilesGrow ==
  ASSUME NEW ms \in Seq(Entry), Tiles(ms), NEW m \in Entry, m.off = Cut(ms), End(m) <= Size,
         \A p \in Pages : Covers(m, p) => Has(m, p)
  PROVE  Append(ms, m) \in Seq(Entry) /\ Tiles(Append(ms, m)) /\ Cut(Append(ms, m)) = End(m)
<1> DEFINE ns == Append(ms, m)
<1>1. /\ ns \in Seq(Entry) /\ ns # <<>> /\ Len(ns) = Len(ms) + 1 /\ ns[Len(ms) + 1] = m
      /\ \A i \in DOMAIN ms : ns[i] = ms[i]
      /\ DOMAIN ns = DOMAIN ms \cup {Len(ms) + 1}
  BY AppendEntry
<1>2. Ordered(ns)
  <2>1. ms # <<>> => m.off = End(ms[Len(ms)])
    BY DEF Cut
  <2>2. \A i \in DOMAIN ms : End(ms[i]) <= m.off
    BY <2>1, EndsInOrder DEF Tiles
  <2> QED
    BY <2>2, AppendOrdered DEF Tiles
<1>3. Contiguous(ns) /\ Right(ns)
  BY AppendContiguous, AppendRight DEF Tiles, Cut
<1> HIDE DEF ns
<1>4. OnDevice(ns)
  BY <1>1 DEF OnDevice, Tiles
<1>5. ns[1].off = 0
  <2>1. CASE ms = <<>>
    <3>1. Len(ms) + 1 = 1
      BY <2>1, EmptySeq
    <3> QED
      BY <1>1, <2>1, <3>1 DEF Cut
  <2>2. CASE ms # <<>>
    <3>1. 1 \in DOMAIN ms
      BY <2>2
    <3> QED
      BY <1>1, <2>2, <3>1 DEF Tiles
  <2> QED
    BY <2>1, <2>2
<1> QED
  BY <1>1, <1>2, <1>3, <1>4, <1>5 DEF Tiles, Cut, ns

\* What remains of the base and the diff, when both do.
LEMMA RemainFacts ==
  ASSUME NEW bs \in Seq(Entry), NEW ds \in Seq(Entry), bs # <<>>, ds # <<>>, NEW cut \in Nat,
         Remain(bs, ds, cut)
  PROVE  LET b == Head(bs) d == Head(ds) IN
         /\ b \in Entry /\ d \in Entry /\ Tail(bs) \in Seq(Entry) /\ Tail(ds) \in Seq(Entry)
         /\ b.off = cut \/ (d.off = cut /\ b.off <= End(d))
         /\ cut <= b.off /\ cut <= d.off /\ End(d) <= Size /\ End(b) <= Size
         /\ Tail(bs) = <<>> => End(b) = Size
         /\ Tail(bs) # <<>> => /\ Tail(bs)[1].off = End(b)
                               /\ End(Tail(bs)[Len(Tail(bs))]) = Size
         /\ \A i \in DOMAIN Tail(bs) : End(b) <= Tail(bs)[i].off
         /\ \A i \in DOMAIN Tail(ds) : End(d) <= Tail(ds)[i].off
         /\ End(d) = Size => Tail(ds) = <<>>
         /\ Ordered(Tail(bs)) /\ Contiguous(Tail(bs))
         /\ Ordered(Tail(ds)) /\ OnDevice(Tail(ds)) /\ Right(Tail(ds))
         /\ \A p \in Pages : Covers(d, p) => Has(d, p)
         /\ \A p \in Pages : Mapped(ds, p) => d.off <= p
         /\ RightBut(Tail(bs), ds)
         /\ \A p \in Pages : Covers(b, p) => Has(b, p) \/ Mapped(ds, p)
<1> DEFINE b == Head(bs)
           d == Head(ds)
<1> USE MappingsAssumption
<1>1. /\ b \in Entry /\ d \in Entry /\ Tail(bs) \in Seq(Entry) /\ Tail(ds) \in Seq(Entry)
      /\ b = bs[1] /\ d = ds[1] /\ 1 \in DOMAIN bs /\ 1 \in DOMAIN ds
  BY TailEntry
<1>2. /\ b.off = cut \/ (d.off = cut /\ b.off <= End(d))
      /\ cut <= b.off /\ cut <= d.off /\ End(d) <= Size
  BY <1>1 DEF Remain, OnDevice
<1>3. End(b) <= Size
  BY <1>1, EndsInOrder DEF Remain
<1>4. /\ Contiguous(Tail(bs))
      /\ Tail(bs) # <<>> => /\ Tail(bs)[1].off = End(b)
                            /\ End(Tail(bs)[Len(Tail(bs))]) = Size
      /\ Tail(bs) = <<>> => End(b) = Size
  BY TailContiguous DEF Remain
<1>5. /\ Ordered(Tail(bs)) /\ Ordered(Tail(ds))
      /\ \A i \in DOMAIN Tail(bs) : End(b) <= Tail(bs)[i].off
      /\ \A i \in DOMAIN Tail(ds) : End(d) <= Tail(ds)[i].off
  BY TailOrdered DEF Remain
<1>6. /\ OnDevice(Tail(ds)) /\ Right(Tail(ds))
      /\ \A p \in Pages : Covers(d, p) => Has(d, p)
  BY TailRight DEF Remain
<1>7. ASSUME NEW p \in Pages, Mapped(ds, p) PROVE d.off <= p
  <2>1. PICK i \in DOMAIN ds : Covers(ds[i], p)
    BY <1>7 DEF Mapped
  <2>2. d.off <= ds[i].off
    BY TailOrdered DEF Remain
  <2> QED
    BY <1>1, <2>1, <2>2, TailEntry, EntryFields DEF Covers, Pages
<1>8. RightBut(Tail(bs), ds) /\ \A p \in Pages : Covers(b, p) => Has(b, p) \/ Mapped(ds, p)
  BY <1>1, TailEntry DEF Remain, RightBut
<1>9. ASSUME End(d) = Size, Tail(ds) # <<>> PROVE FALSE
  <2>1. 1 \in DOMAIN Tail(ds) /\ Tail(ds)[1] \in Entry
    BY <1>1, <1>9
  <2>2. Size <= Tail(ds)[1].off /\ End(Tail(ds)[1]) <= Size
    BY <1>5, <1>6, <1>9, <2>1 DEF OnDevice
  <2> QED
    BY <2>1, <2>2, EntryFields
<1> QED
  BY <1>1, <1>2, <1>3, <1>4, <1>5, <1>6, <1>7, <1>8, <1>9

LEMMA CutIsPage ==
  ASSUME NEW ms \in Seq(Entry), Tiles(ms)
  PROVE  Cut(ms) \in Nat /\ Cut(ms) <= Size
<1>1. CASE ms = <<>>
  BY <1>1, MappingsAssumption DEF Cut
<1>2. CASE ms # <<>>
  <2>1. Len(ms) \in DOMAIN ms /\ ms[Len(ms)] \in Entry
    BY <1>2, EmptySeq
  <2> QED
    BY <1>2, <2>1, EntryFields DEF Cut, Tiles, OnDevice
<1> QED
  BY <1>1, <1>2

\* The base entry is before the diff entry.
LEMMA BaseBeforeDiffKeeps ==
  ASSUME NEW bs \in Seq(Entry), NEW ds \in Seq(Entry), NEW ms \in Seq(Entry),
         bs # <<>>, ds # <<>>, Tiles(ms), Remain(bs, ds, Cut(ms)), Before(Head(bs), Head(ds))
  PROVE  Tiles(Append(ms, Head(bs))) /\ Remain(Tail(bs), ds, Cut(Append(ms, Head(bs))))
<1> DEFINE b == Head(bs)
           d == Head(ds)
           cut == Cut(ms)
<1>0. cut \in Nat
  BY CutIsPage
<1>1. /\ b \in Entry /\ d \in Entry /\ Tail(bs) \in Seq(Entry)
      /\ b.off = cut \/ (d.off = cut /\ b.off <= End(d))
      /\ cut <= b.off /\ cut <= d.off /\ End(d) <= Size /\ End(b) <= Size
      /\ Tail(bs) = <<>> => End(b) = Size
      /\ Tail(bs) # <<>> => /\ Tail(bs)[1].off = End(b)
                            /\ End(Tail(bs)[Len(Tail(bs))]) = Size
      /\ \A i \in DOMAIN Tail(bs) : End(b) <= Tail(bs)[i].off
      /\ Ordered(Tail(bs)) /\ Contiguous(Tail(bs)) /\ RightBut(Tail(bs), ds)
      /\ \A p \in Pages : Mapped(ds, p) => d.off <= p
      /\ \A p \in Pages : Covers(b, p) => Has(b, p) \/ Mapped(ds, p)
  BY <1>0, RemainFacts
<1>2. End(b) <= d.off
  BY DEF Before
<1> HIDE DEF b, d, cut
<1>3. b.off = cut /\ Tail(bs) # <<>>
  <2>1. /\ b.off \in Nat /\ End(b) \in Nat /\ b.off < End(b)
        /\ d.off \in Nat /\ End(d) \in Nat /\ d.off < End(d) /\ Size \in Nat
    BY <1>1, MappingsAssumption, EntryFields
  <2>2. b.off = cut
    BY <1>0, <1>1, <1>2, <2>1
  <2>3. End(b) # Size
    BY <1>1, <1>2, <2>1
  <2> QED
    BY <1>1, <2>2, <2>3
<1>4. \A p \in Pages : Covers(b, p) => Has(b, p)
  <2> SUFFICES ASSUME NEW p \in Pages, Covers(b, p), Mapped(ds, p) PROVE FALSE
    BY <1>1
  <2>1. p \in Nat /\ d.off <= p /\ p < End(b)
    BY <1>1, MappingsAssumption DEF Covers, Pages
  <2> QED
    BY <1>1, <1>2, <2>1, EntryFields
<1>5. Tiles(Append(ms, b)) /\ Cut(Append(ms, b)) = End(b)
  BY <1>1, <1>3, <1>4, TilesGrow DEF cut
<1>6. \A i \in DOMAIN ds : End(b) <= ds[i].off
  <2> SUFFICES ASSUME NEW i \in DOMAIN ds PROVE End(b) <= ds[i].off
    OBVIOUS
  <2>1. d.off <= ds[i].off /\ ds[i] \in Entry
    BY TailOrdered, TailEntry DEF Remain, d
  <2> QED
    BY <1>1, <1>2, <2>1, EntryFields
<1>7. Remain(Tail(bs), ds, End(b))
  BY <1>1, <1>3, <1>6 DEF Remain
<1> QED
  BY <1>5, <1>7 DEF b

\* The diff entry is before the base entry.
LEMMA DiffBeforeBaseKeeps ==
  ASSUME NEW bs \in Seq(Entry), NEW ds \in Seq(Entry), NEW ms \in Seq(Entry),
         bs # <<>>, ds # <<>>, Tiles(ms), Remain(bs, ds, Cut(ms)), Before(Head(ds), Head(bs))
  PROVE  Tiles(Append(ms, Head(ds))) /\ Remain(bs, Tail(ds), Cut(Append(ms, Head(ds))))
<1> DEFINE b == Head(bs)
           d == Head(ds)
           cut == Cut(ms)
<1>0. cut \in Nat
  BY CutIsPage
<1>1. /\ b \in Entry /\ d \in Entry /\ Tail(ds) \in Seq(Entry)
      /\ b.off = cut \/ (d.off = cut /\ b.off <= End(d))
      /\ cut <= b.off /\ cut <= d.off /\ End(d) <= Size
      /\ \A i \in DOMAIN Tail(ds) : End(d) <= Tail(ds)[i].off
      /\ Ordered(Tail(ds)) /\ OnDevice(Tail(ds)) /\ Right(Tail(ds))
      /\ \A p \in Pages : Covers(d, p) => Has(d, p)
  BY <1>0, RemainFacts
<1>2. End(d) <= b.off /\ b = bs[1]
  BY TailEntry DEF Before
<1> HIDE DEF b, d, cut
<1>3. d.off = cut /\ b.off = End(d)
  BY <1>0, <1>1, <1>2, EntryFields
<1>4. Tiles(Append(ms, d)) /\ Cut(Append(ms, d)) = End(d)
  BY <1>1, <1>3, TilesGrow DEF cut
<1>5. \A i \in DOMAIN bs : End(d) <= bs[i].off
  BY <1>3, TailOrdered DEF Remain, b
<1>6. RightBut(bs, Tail(ds))
  <2> SUFFICES ASSUME NEW i \in DOMAIN bs, NEW p \in Pages, Covers(bs[i], p),
                      ~Has(bs[i], p), ~Mapped(Tail(ds), p)
               PROVE  FALSE
    BY DEF RightBut
  <2>1. Mapped(ds, p)
    BY DEF Remain, RightBut
  <2>2. Covers(d, p)
    BY <2>1, TailMapped DEF d
  <2>3. End(d) <= bs[i].off /\ bs[i].off <= p /\ p < End(d) /\ p \in Nat /\ bs[i] \in Entry
    BY <1>5, <2>2, MappingsAssumption DEF Covers, Pages
  <2> QED
    BY <1>1, <2>3, EntryFields
<1>7. Remain(bs, Tail(ds), End(d))
  BY <1>1, <1>2, <1>3, <1>5, <1>6 DEF Remain
<1> QED
  BY <1>4, <1>7 DEF d

\* The base entry is inside the diff entry, which replaces it.
LEMMA BaseInsideDiffKeeps ==
  ASSUME NEW bs \in Seq(Entry), NEW ds \in Seq(Entry), NEW cut \in Nat,
         bs # <<>>, ds # <<>>, Remain(bs, ds, cut), Inside(Head(bs), Head(ds))
  PROVE  Remain(Tail(bs), ds, cut)
<1> DEFINE b == Head(bs)
           d == Head(ds)
<1>1. /\ b \in Entry /\ d \in Entry /\ Tail(bs) \in Seq(Entry)
      /\ b.off = cut \/ (d.off = cut /\ b.off <= End(d))
      /\ cut <= b.off /\ cut <= d.off /\ End(d) <= Size
      /\ Tail(bs) = <<>> => End(b) = Size
      /\ Tail(bs) # <<>> => /\ Tail(bs)[1].off = End(b)
                            /\ End(Tail(bs)[Len(Tail(bs))]) = Size
      /\ \A i \in DOMAIN Tail(bs) : End(b) <= Tail(bs)[i].off
      /\ Ordered(Tail(bs)) /\ Contiguous(Tail(bs)) /\ RightBut(Tail(bs), ds)
      /\ End(d) = Size => Tail(ds) = <<>>
  BY RemainFacts
<1>2. d.off <= b.off /\ End(b) <= End(d) /\ d = ds[1]
  BY <1>1, TailEntry, EntryFields DEF Inside
<1> HIDE DEF b, d
<1>3. d.off = cut
  BY <1>1, <1>2, EntryFields
<1>4. \A i \in DOMAIN Tail(bs) : cut <= Tail(bs)[i].off
  <2> SUFFICES ASSUME NEW i \in DOMAIN Tail(bs) PROVE cut <= Tail(bs)[i].off
    OBVIOUS
  <2>1. End(b) <= Tail(bs)[i].off /\ Tail(bs)[i] \in Entry
    BY <1>1
  <2>2. cut <= b.off /\ b.off \in Nat /\ End(b) \in Nat /\ b.off < End(b) /\ Tail(bs)[i].off \in Nat
    BY <1>1, <2>1, EntryFields
  <2> QED
    BY <2>1, <2>2
<1>5. ASSUME Tail(bs) = <<>> PROVE Len(ds) = 1 /\ End(d) = Size
  <2>1. End(d) = Size
    BY <1>1, <1>2, <1>5, MappingsAssumption, EntryFields
  <2>2. Tail(ds) = <<>>
    BY <1>1, <2>1
  <2> QED
    BY <2>1, <2>2, TailEntry, EmptySeq
<1> QED
  BY <1>1, <1>2, <1>3, <1>4, <1>5 DEF Remain

\* The part of the base entry before the diff entry joins the result.
LEMMA LeftPartKeeps ==
  ASSUME NEW bs \in Seq(Entry), NEW ds \in Seq(Entry), NEW ms \in Seq(Entry),
         bs # <<>>, ds # <<>>, Tiles(ms), Remain(bs, ds, Cut(ms)),
         Head(bs).off = Cut(ms), Head(bs).off <= Head(ds).off, Head(ds).off < End(Head(bs))
  PROVE  LET ns == ms \o LeftPart(Head(bs), Head(ds)) IN
         ns \in Seq(Entry) /\ Tiles(ns) /\ Cut(ns) = Head(ds).off
<1> DEFINE b == Head(bs)
           d == Head(ds)
           cut == Cut(ms)
<1>0. cut \in Nat
  BY CutIsPage
<1>1. /\ b \in Entry /\ d \in Entry /\ End(d) <= Size
      /\ \A p \in Pages : Mapped(ds, p) => d.off <= p
      /\ \A p \in Pages : Covers(b, p) => Has(b, p) \/ Mapped(ds, p)
  BY <1>0, RemainFacts
<1>2. /\ b.off \in Nat /\ End(b) \in Nat /\ b.len \in Nat /\ End(b) = b.off + b.len
      /\ d.off \in Nat /\ End(d) \in Nat /\ d.off < End(d) /\ Size \in Nat
      /\ b.off = cut /\ b.off <= d.off /\ d.off < End(b)
  BY <1>1, MappingsAssumption, EntryFields
<1> HIDE DEF b, d, cut
<1>3. CASE d.off = b.off
  <2>1. LeftPart(b, d) = <<>>
    BY <1>2, <1>3 DEF LeftPart
  <2>2. ms \o LeftPart(b, d) = ms
    BY <2>1, ConcatEmptySeq
  <2> QED
    BY <1>2, <1>3, <2>2 DEF b, d, cut
<1>4. CASE d.off > b.off
  <2> DEFINE l == [b EXCEPT !.len = d.off - b.off]
  <2>1. /\ l \in Entry /\ l.off = b.off /\ l.len = d.off - b.off
        /\ l.build = b.build /\ l.storage = b.storage
    <3>1. d.off - b.off \in Nat \ {0}
      BY <1>2, <1>4
    <3> QED
      BY <1>1, <3>1 DEF Entry
  <2>2. LeftPart(b, d) = <<l>>
    BY <1>4 DEF LeftPart
  <2> HIDE DEF l
  <2>3. End(l) = d.off
    BY <1>2, <2>1 DEF End
  <2>4. \A p \in Pages : Covers(l, p) => Has(l, p)
    <3> SUFFICES ASSUME NEW p \in Pages, Covers(l, p) PROVE Has(l, p)
      OBVIOUS
    <3>1. p \in Nat /\ b.off <= p /\ p < d.off
      BY <2>1, <2>3, MappingsAssumption DEF Covers, Pages
    <3>2. Covers(b, p) /\ ~(d.off <= p)
      BY <1>2, <3>1 DEF Covers
    <3>3. Has(b, p)
      BY <1>1, <3>2
    <3> QED
      BY <2>1, <3>3 DEF Has
  <2>5. l.off = Cut(ms) /\ End(l) <= Size
    BY <1>1, <1>2, <2>1, <2>3 DEF cut
  <2>6. Append(ms, l) \in Seq(Entry) /\ Tiles(Append(ms, l)) /\ Cut(Append(ms, l)) = d.off
    BY <2>1, <2>3, <2>4, <2>5, TilesGrow
  <2>7. Append(ms, l) = ms \o <<l>>
    BY <2>1, AppendIsConcat
  <2> QED
    BY <2>2, <2>6, <2>7 DEF b, d
<1> QED
  BY <1>2, <1>3, <1>4

\* Pages from e on of an entry of len pages from off on.
LEMMA Shifted ==
  ASSUME NEW off \in Nat, NEW len \in Nat, NEW e \in Nat, off <= e, e < off + len
  PROVE  LET shift == e - off IN
         /\ len > shift /\ shift \in Nat /\ len - shift \in Nat \ {0}
         /\ off + shift = e /\ (off + shift) + (len - shift) = off + len
  OBVIOUS

\* The part of the base entry after the diff entry stays.
LEMMA RightPartKeeps ==
  ASSUME NEW bs \in Seq(Entry), NEW ds \in Seq(Entry), NEW cut \in Nat,
         bs # <<>>, ds # <<>>, Remain(bs, ds, cut),
         Head(bs).off <= End(Head(ds)), End(Head(ds)) <= End(Head(bs))
  PROVE  LET ns == RightPart(Head(bs), Head(ds)) \o Tail(bs) IN
         ns \in Seq(Entry) /\ Remain(ns, Tail(ds), End(Head(ds)))
<1> DEFINE b == Head(bs)
           d == Head(ds)
<1>1. /\ b \in Entry /\ d \in Entry /\ Tail(bs) \in Seq(Entry) /\ Tail(ds) \in Seq(Entry)
      /\ End(d) <= Size
      /\ Tail(bs) = <<>> => End(b) = Size
      /\ Tail(bs) # <<>> => /\ Tail(bs)[1].off = End(b)
                            /\ End(Tail(bs)[Len(Tail(bs))]) = Size
      /\ \A i \in DOMAIN Tail(bs) : End(b) <= Tail(bs)[i].off
      /\ \A i \in DOMAIN Tail(ds) : End(d) <= Tail(ds)[i].off
      /\ End(d) = Size => Tail(ds) = <<>>
      /\ Ordered(Tail(bs)) /\ Contiguous(Tail(bs)) /\ RightBut(Tail(bs), ds)
      /\ Ordered(Tail(ds)) /\ OnDevice(Tail(ds)) /\ Right(Tail(ds))
      /\ \A p \in Pages : Covers(b, p) => Has(b, p) \/ Mapped(ds, p)
  BY RemainFacts
<1>2. /\ b.off \in Nat /\ End(b) \in Nat /\ b.len \in Nat /\ End(b) = b.off + b.len
      /\ b.storage \in Nat /\ b.build \in Nat
      /\ d.off \in Nat /\ End(d) \in Nat /\ d.off < End(d)
      /\ b.off <= End(d) /\ End(d) <= End(b)
  BY <1>1, EntryFields
<1>3. \A p \in Pages : p \in Nat /\ (Mapped(ds, p) /\ End(d) <= p => Mapped(Tail(ds), p))
  <2> SUFFICES ASSUME NEW p \in Pages, Mapped(ds, p), End(d) <= p, ~Mapped(Tail(ds), p)
               PROVE  FALSE
    BY MappingsAssumption DEF Pages
  <2>1. Covers(d, p)
    BY TailMapped
  <2>2. p \in Nat /\ p < End(d)
    BY <2>1, MappingsAssumption DEF Pages, Covers
  <2> QED
    BY <1>2, <2>2
<1> HIDE DEF b, d
<1>4. \A i \in DOMAIN Tail(bs) : End(d) <= Tail(bs)[i].off
  <2> SUFFICES ASSUME NEW i \in DOMAIN Tail(bs) PROVE End(d) <= Tail(bs)[i].off
    OBVIOUS
  <2>1. End(b) <= Tail(bs)[i].off /\ Tail(bs)[i] \in Entry
    BY <1>1
  <2>2. Tail(bs)[i].off \in Nat
    BY <2>1, EntryFields
  <2> QED
    BY <1>2, <2>1, <2>2
<1>5. RightBut(Tail(bs), Tail(ds))
  <2> SUFFICES ASSUME NEW i \in DOMAIN Tail(bs), NEW p \in Pages, Covers(Tail(bs)[i], p)
               PROVE  Has(Tail(bs)[i], p) \/ Mapped(Tail(ds), p)
    BY DEF RightBut
  <2>1. Has(Tail(bs)[i], p) \/ Mapped(ds, p)
    BY <1>1 DEF RightBut
  <2>2. /\ End(d) <= Tail(bs)[i].off /\ Tail(bs)[i].off <= p /\ Tail(bs)[i].off \in Nat
    <3>1. Tail(bs)[i] \in Entry
      BY <1>1
    <3> QED
      BY <1>4, <3>1, EntryFields DEF Covers
  <2>3. End(d) <= p
    BY <1>2, <1>3, <2>2
  <2> QED
    BY <1>3, <2>1, <2>3
<1>6. CASE End(b) = End(d)
  <2>1. RightPart(b, d) = <<>>
    BY <1>2, <1>6 DEF RightPart
  <2>2. RightPart(b, d) \o Tail(bs) = Tail(bs)
    BY <1>1, <2>1, ConcatEmptySeq
  <2>3. Remain(Tail(bs), Tail(ds), End(d))
    BY <1>1, <1>4, <1>5, <1>6 DEF Remain
  <2> QED
    BY <1>1, <2>2, <2>3 DEF b, d
<1>7. CASE End(b) > End(d)
  <2> DEFINE shift == End(d) - b.off
             r == [off |-> b.off + shift, len |-> b.len - shift, build |-> b.build,
                   storage |-> b.storage + shift]
             ns == <<r>> \o Tail(bs)
  <2>1. /\ b.len > shift /\ shift \in Nat /\ b.len - shift \in Nat \ {0}
        /\ b.off + shift = End(d) /\ (b.off + shift) + (b.len - shift) = End(b)
    <3>1. /\ b.off \in Nat /\ b.len \in Nat /\ End(d) \in Nat /\ b.off <= End(d)
          /\ End(d) < b.off + b.len /\ End(b) = b.off + b.len
      BY <1>2, <1>7
    <3>2. /\ b.len > shift /\ shift \in Nat /\ b.len - shift \in Nat \ {0}
          /\ b.off + shift = End(d) /\ (b.off + shift) + (b.len - shift) = b.off + b.len
      BY <3>1, Shifted, SMTT(30)
    <3> QED
      BY <3>1, <3>2
  <2>2. RightPart(b, d) = <<r>>
    BY <2>1 DEF RightPart
  <2> HIDE DEF shift
  <2>3. /\ r \in Entry /\ r.off = End(d) /\ End(r) = End(b) /\ r.build = b.build
        /\ r.storage = b.storage + shift
    <3>1. b.off + shift \in Nat /\ b.storage + shift \in Nat
      BY <1>2, <2>1, SMTT(30)
    <3>2. r \in Entry
      BY <1>2, <2>1, <3>1 DEF Entry
    <3>3. End(r) = (b.off + shift) + (b.len - shift)
      BY DEF End
    <3> QED
      BY <2>1, <3>2, <3>3
  <2> HIDE DEF r
  <2>4. /\ ns \in Seq(Entry) /\ ns # <<>> /\ ns[1] = r
        /\ \A i \in DOMAIN ns : i = 1 \/ (i - 1 \in DOMAIN Tail(bs) /\ ns[i] = Tail(bs)[i - 1])
        /\ ns[Len(ns)] = IF Tail(bs) = <<>> THEN r ELSE Tail(bs)[Len(Tail(bs))]
    BY <1>1, <2>3, ConsEntry, ZenonT(30)
  <2>5. Ordered(ns) /\ Contiguous(ns)
    BY <1>1, <2>3, ConsEntry
  <2> HIDE DEF ns
  <2>6. ASSUME NEW p \in Pages, Covers(r, p) PROVE Has(r, p) \/ Mapped(Tail(ds), p)
    <3>1. p \in Nat /\ End(d) <= p /\ p < End(b) /\ Covers(b, p)
      BY <1>2, <1>3, <2>3, <2>6 DEF Covers
    <3>2. Has(b, p) \/ Mapped(Tail(ds), p)
      BY <1>1, <1>3, <3>1
    <3>3. r.storage + (p - r.off) = b.storage + (p - b.off)
      <4>1. r.off = b.off + shift /\ r.storage = b.storage + shift
        BY <2>1, <2>3
      <4> QED
        BY <1>2, <2>1, <3>1, <4>1, SMTT(30)
    <3> QED
      BY <2>3, <3>2, <3>3 DEF Has
  <2>7. RightBut(ns, Tail(ds))
    BY <1>5, <2>4, <2>6 DEF RightBut
  <2>8. End(ns[Len(ns)]) = Size /\ ns[1].off = End(d)
    <3>1. CASE Tail(bs) = <<>>
      BY <1>1, <2>3, <2>4, <3>1
    <3>2. CASE Tail(bs) # <<>>
      BY <1>1, <2>3, <2>4, <3>2
    <3> QED
      BY <3>1, <3>2
  <2>9. \A i \in DOMAIN ns : End(d) <= ns[i].off
    <3> SUFFICES ASSUME NEW i \in DOMAIN ns PROVE End(d) <= ns[i].off
      OBVIOUS
    <3>1. CASE i = 1
      BY <1>2, <2>3, <2>4, <3>1, SMTT(30)
    <3>2. CASE i # 1
      BY <1>4, <2>4, <3>2
    <3> QED
      BY <3>1, <3>2
  <2>10. Remain(ns, Tail(ds), End(d))
    BY <1>1, <2>4, <2>5, <2>7, <2>8, <2>9 DEF Remain
  <2> QED
    BY <2>2, <2>4, <2>10 DEF b, d, ns
<1> QED
  BY <1>2, <1>6, <1>7

\* The diff entry is inside the base entry, which it splits.
LEMMA DiffInsideBaseKeeps ==
  ASSUME NEW bs \in Seq(Entry), NEW ds \in Seq(Entry), NEW ms \in Seq(Entry),
         bs # <<>>, ds # <<>>, Tiles(ms), Remain(bs, ds, Cut(ms)),
         Inside(Head(ds), Head(bs))
  PROVE  LET ns == ms \o LeftPart(Head(bs), Head(ds)) \o <<Head(ds)>>
             cs == RightPart(Head(bs), Head(ds)) \o Tail(bs)
         IN  /\ ns \in Seq(Entry) /\ cs \in Seq(Entry)
             /\ Tiles(ns) /\ Remain(cs, Tail(ds), Cut(ns))
<1> DEFINE b == Head(bs)
           d == Head(ds)
           cut == Cut(ms)
           ls == ms \o LeftPart(b, d)
<1>0. cut \in Nat
  BY CutIsPage
<1>1. /\ b \in Entry /\ d \in Entry
      /\ b.off = cut \/ (d.off = cut /\ b.off <= End(d))
      /\ cut <= b.off /\ cut <= d.off /\ End(d) <= Size
      /\ \A p \in Pages : Covers(d, p) => Has(d, p)
  BY <1>0, RemainFacts
<1>2. /\ b.off \in Nat /\ End(b) \in Nat /\ d.off \in Nat /\ End(d) \in Nat /\ d.off < End(d)
  BY <1>1, EntryFields
<1>3. b.off <= d.off /\ End(d) <= End(b)
  BY <1>2 DEF Inside
<1> HIDE DEF b, d, cut
<1>4. b.off = cut /\ d.off < End(b) /\ b.off <= End(d)
  BY <1>0, <1>1, <1>2, <1>3
<1>5. ls \in Seq(Entry) /\ Tiles(ls) /\ Cut(ls) = d.off
  BY <1>3, <1>4, LeftPartKeeps DEF b, d, cut
<1>6. /\ RightPart(b, d) \o Tail(bs) \in Seq(Entry)
      /\ Remain(RightPart(b, d) \o Tail(bs), Tail(ds), End(d))
  BY <1>0, <1>3, <1>4, RightPartKeeps DEF b, d, cut
<1> HIDE DEF ls
<1>7. Append(ls, d) \in Seq(Entry) /\ Tiles(Append(ls, d)) /\ Cut(Append(ls, d)) = End(d)
  BY <1>1, <1>5, TilesGrow
<1>8. Append(ls, d) = ls \o <<d>>
  BY <1>1, <1>5, AppendIsConcat
<1> QED
  BY <1>6, <1>7, <1>8 DEF ls, b, d

\* They overlap and the diff entry begins first.
LEMMA BaseAfterDiffKeeps ==
  ASSUME NEW bs \in Seq(Entry), NEW ds \in Seq(Entry), NEW ms \in Seq(Entry),
         bs # <<>>, ds # <<>>, Tiles(ms), Remain(bs, ds, Cut(ms)),
         Overlap(Head(bs), Head(ds)), Head(bs).off > Head(ds).off
  PROVE  LET cs == RightPart(Head(bs), Head(ds)) \o Tail(bs) IN
         /\ cs \in Seq(Entry)
         /\ Tiles(Append(ms, Head(ds))) /\ Remain(cs, Tail(ds), Cut(Append(ms, Head(ds))))
<1> DEFINE b == Head(bs)
           d == Head(ds)
           cut == Cut(ms)
<1>0. cut \in Nat
  BY CutIsPage
<1>1. /\ b \in Entry /\ d \in Entry
      /\ b.off = cut \/ (d.off = cut /\ b.off <= End(d))
      /\ cut <= b.off /\ cut <= d.off /\ End(d) <= Size
      /\ \A p \in Pages : Covers(d, p) => Has(d, p)
  BY <1>0, RemainFacts
<1>2. /\ b.off \in Nat /\ End(b) \in Nat /\ d.off \in Nat /\ End(d) \in Nat /\ d.off < End(d)
  BY <1>1, EntryFields
<1>3. b.off < End(d) /\ End(d) < End(b) /\ b.off > d.off
  BY <1>2 DEF Overlap, Before, Inside
<1> HIDE DEF b, d, cut
<1>4. d.off = cut /\ b.off <= End(d) /\ End(d) <= End(b)
  BY <1>0, <1>1, <1>2, <1>3
<1>5. Tiles(Append(ms, d)) /\ Cut(Append(ms, d)) = End(d)
  BY <1>1, <1>4, TilesGrow DEF cut
<1>6. /\ RightPart(b, d) \o Tail(bs) \in Seq(Entry)
      /\ Remain(RightPart(b, d) \o Tail(bs), Tail(ds), End(d))
  BY <1>0, <1>4, RightPartKeeps DEF b, d, cut
<1> QED
  BY <1>5, <1>6 DEF b, d

\* They overlap and the base entry begins first.
LEMMA DiffAfterBaseKeeps ==
  ASSUME NEW bs \in Seq(Entry), NEW ds \in Seq(Entry), NEW ms \in Seq(Entry),
         bs # <<>>, ds # <<>>, Tiles(ms), Remain(bs, ds, Cut(ms)),
         Overlap(Head(bs), Head(ds)), Head(ds).off > Head(bs).off
  PROVE  LET ns == ms \o LeftPart(Head(bs), Head(ds)) IN
         ns \in Seq(Entry) /\ Tiles(ns) /\ Remain(Tail(bs), ds, Cut(ns))
<1> DEFINE b == Head(bs)
           d == Head(ds)
           cut == Cut(ms)
<1>0. cut \in Nat
  BY CutIsPage
<1>1. /\ b \in Entry /\ d \in Entry /\ Tail(bs) \in Seq(Entry)
      /\ b.off = cut \/ (d.off = cut /\ b.off <= End(d))
      /\ cut <= b.off /\ cut <= d.off /\ End(d) <= Size
      /\ Tail(bs) = <<>> => End(b) = Size
      /\ Tail(bs) # <<>> => /\ Tail(bs)[1].off = End(b)
                            /\ End(Tail(bs)[Len(Tail(bs))]) = Size
      /\ \A i \in DOMAIN Tail(bs) : End(b) <= Tail(bs)[i].off
      /\ Ordered(Tail(bs)) /\ Contiguous(Tail(bs)) /\ RightBut(Tail(bs), ds)
  BY <1>0, RemainFacts
<1>2. /\ b.off \in Nat /\ End(b) \in Nat /\ d.off \in Nat /\ End(d) \in Nat /\ d.off < End(d)
      /\ Size \in Nat /\ d = ds[1]
  BY <1>1, MappingsAssumption, EntryFields, TailEntry
<1>3. d.off < End(b) /\ End(b) < End(d) /\ d.off > b.off
  BY <1>2 DEF Overlap, Before, Inside
<1> HIDE DEF b, d, cut
<1>4. b.off = cut /\ b.off <= d.off
  BY <1>0, <1>1, <1>2, <1>3
<1>5. Tail(bs) # <<>>
  <2>1. End(b) # Size
    BY <1>1, <1>2, <1>3
  <2> QED
    BY <1>1, <2>1
<1>6. /\ ms \o LeftPart(b, d) \in Seq(Entry) /\ Tiles(ms \o LeftPart(b, d))
      /\ Cut(ms \o LeftPart(b, d)) = d.off
  BY <1>3, <1>4, LeftPartKeeps DEF b, d, cut
<1>7. \A i \in DOMAIN Tail(bs) : d.off <= Tail(bs)[i].off
  <2> SUFFICES ASSUME NEW i \in DOMAIN Tail(bs) PROVE d.off <= Tail(bs)[i].off
    OBVIOUS
  <2>1. End(b) <= Tail(bs)[i].off /\ Tail(bs)[i] \in Entry
    BY <1>1
  <2>2. Tail(bs)[i].off \in Nat
    BY <2>1, EntryFields
  <2> QED
    BY <1>2, <1>3, <2>1, <2>2
<1>8. \A i \in DOMAIN ds : d.off <= ds[i].off
  BY TailOrdered DEF Remain, d
<1>9. End(b) <= End(d)
  BY <1>2, <1>3
<1>10. Remain(Tail(bs), ds, d.off)
  BY <1>1, <1>2, <1>5, <1>7, <1>8, <1>9 DEF Remain
<1> QED
  BY <1>6, <1>10 DEF b, d

\* The result and what remains of one of the two tile the device and are right.
LEMMA MergedWhole ==
  ASSUME NEW bs \in Seq(Entry), NEW ds \in Seq(Entry), NEW ms \in Seq(Entry),
         bs = <<>> \/ ds = <<>>, Tiles(ms), Remain(bs, ds, Cut(ms))
  PROVE  /\ ms \o bs \o ds \in Seq(Entry)
         /\ Whole(ms \o bs \o ds) /\ Right(ms \o bs \o ds)
<1>1. ASSUME NEW ns \in Seq(Entry), ns # <<>>, Ordered(ns), Contiguous(ns), Right(ns),
             ns[1].off = Cut(ms), End(ns[Len(ns)]) = Size
      PROVE  ms \o ns \in Seq(Entry) /\ Whole(ms \o ns) /\ Right(ms \o ns)
  <2> DEFINE s == ms \o ns
  <2>1. Precedes(ms, ns)
    <3> SUFFICES ASSUME NEW i \in DOMAIN ms, NEW j \in DOMAIN ns
                 PROVE  End(ms[i]) <= ns[j].off
      BY DEF Precedes
    <3>1. ms # <<>>
      OBVIOUS
    <3>2. End(ms[i]) <= Cut(ms)
      BY <3>1, EndsInOrder DEF Tiles, Cut
    <3>3. Head(ns).off <= ns[j].off /\ Head(ns) = ns[1]
      BY <1>1, TailOrdered, TailEntry
    <3>4. ms[i] \in Entry /\ ns[j] \in Entry /\ Cut(ms) \in Nat
      BY CutIsPage
    <3> QED
      BY <1>1, <3>2, <3>3, <3>4, EntryFields
  <2>2. Ordered(s) /\ Contiguous(s) /\ Right(s)
    <3>1. Ordered(s)
      BY <1>1, <2>1, ConcatOrdered DEF Tiles
    <3>2. Contiguous(s)
      BY <1>1, ConcatContiguous DEF Tiles, Cut
    <3>3. Right(s)
      BY <1>1, ConcatRight DEF Tiles
    <3> QED
      BY <3>1, <3>2, <3>3
  <2>3. /\ s \in Seq(Entry) /\ Len(s) = Len(ms) + Len(ns)
        /\ \A i \in DOMAIN ms : i \in DOMAIN s /\ s[i] = ms[i]
        /\ \A i \in DOMAIN ns : Len(ms) + i \in DOMAIN s /\ s[Len(ms) + i] = ns[i]
    BY ConcatEntries
  <2> HIDE DEF s
  <2>4. 1 \in DOMAIN ns /\ Len(ns) \in DOMAIN ns /\ Len(ns) \in Nat \ {0} /\ Len(ms) \in Nat
    BY <1>1, TailEntry
  <2>5. s # <<>> /\ End(s[Len(s)]) = Size
    <3>1. Len(s) # 0
      BY <2>3, <2>4
    <3>2. s # <<>>
      BY <3>1, EmptySeq
    <3> QED
      BY <1>1, <2>3, <2>4, <3>2
  <2>6. s[1].off = 0
    <3>1. CASE ms = <<>>
      <4>1. Len(ms) + 1 = 1
        BY <3>1, EmptySeq
      <4> QED
        BY <1>1, <2>3, <2>4, <3>1, <4>1 DEF Cut
    <3>2. CASE ms # <<>>
      BY <2>3, <3>2, TailEntry DEF Tiles
    <3> QED
      BY <3>1, <3>2
  <2> QED
    BY <2>2, <2>3, <2>5, <2>6 DEF Whole, s
<1>2. ms \o bs \in Seq(Entry)
  BY ConcatEntries
<1>3. CASE ds = <<>> /\ bs # <<>>
  <2>1. Right(bs)
    <3>1. DOMAIN ds = {}
      BY <1>3
    <3> QED
      BY <3>1 DEF Remain, RightBut, Right, Mapped
  <2>2. ms \o bs \in Seq(Entry) /\ Whole(ms \o bs) /\ Right(ms \o bs)
    BY <1>1, <1>3, <2>1 DEF Remain
  <2>3. ms \o bs \o ds = ms \o bs
    BY <1>2, <1>3, ConcatEmptySeq
  <2> QED
    BY <2>2, <2>3
<1>4. CASE bs = <<>> /\ ds # <<>>
  <2>1. ms \o bs = ms
    BY <1>4, ConcatEmptySeq
  <2>2. Len(ds) = 1 /\ ds[1].off = Cut(ms) /\ End(ds[1]) = Size
    BY <1>4 DEF Remain
  <2>3. Contiguous(ds)
    BY <2>2 DEF Contiguous
  <2>4. ms \o ds \in Seq(Entry) /\ Whole(ms \o ds) /\ Right(ms \o ds)
    BY <1>1, <1>4, <2>2, <2>3 DEF Remain
  <2> QED
    BY <2>1, <2>4
<1>5. CASE bs = <<>> /\ ds = <<>>
  <2>1. ms \o bs = ms /\ ms \o bs \o ds = ms
    BY <1>5, ConcatEmptySeq
  <2>2. Cut(ms) = Size
    <3>1. Len(ds) # 1
      BY <1>5, EmptySeq
    <3> QED
      BY <1>5, <3>1 DEF Remain
  <2>3. ms # <<>> /\ End(ms[Len(ms)]) = Size
    BY <2>2, MappingsAssumption DEF Cut
  <2> QED
    BY <2>1, <2>3 DEF Tiles, Whole
<1> QED
  BY <1>3, <1>4, <1>5

-----------------------------------------------------------------------------
(* The merge of the dirty and the empty blocks.                            *)

\* The two lists play the same part.
LEMMA DisjointSwaps ==
  ASSUME NEW bs \in Seq(Entry), NEW ds \in Seq(Entry), NEW ms \in Seq(Entry),
         Disjoint(bs, ds, ms)
  PROVE  Disjoint(ds, bs, ms)
<1>1. ASSUME NEW p PROVE Mapped(ms \o bs \o ds, p) => Mapped(ms \o ds \o bs, p)
  <2>1. ms \o bs \in Seq(Entry) /\ ms \o ds \in Seq(Entry)
    BY ConcatEntries
  <2>2. Mapped(ms \o bs \o ds, p) <=> Mapped(ms \o bs, p) \/ Mapped(ds, p)
    BY <2>1, ConcatMapped
  <2>3. Mapped(ms \o ds \o bs, p) <=> Mapped(ms \o ds, p) \/ Mapped(bs, p)
    BY <2>1, ConcatMapped
  <2> QED
    BY <2>2, <2>3, ConcatMapped
<1>2. RightBut(Slice(header), ms \o ds \o bs)
  BY <1>1 DEF Disjoint, RightBut
<1> QED
  BY <1>2 DEF Disjoint

\* Entries that are apart are one before the other.
LEMMA DisjointApart ==
  ASSUME NEW bs \in Seq(Entry), NEW ds \in Seq(Entry), NEW ms \in Seq(Entry),
         Disjoint(bs, ds, ms), bs # <<>>, ds # <<>>
  PROVE  /\ ~Inside(Head(bs), Head(ds)) /\ ~Inside(Head(ds), Head(bs))
         /\ ~Overlap(Head(bs), Head(ds))
<1> DEFINE b == Head(bs)
           d == Head(ds)
<1>1. b \in Entry /\ d \in Entry /\ (Before(b, d) \/ Before(d, b))
  BY TailEntry DEF Disjoint
<1> HIDE DEF b, d
<1>2. ~Inside(b, d) /\ ~Inside(d, b) /\ ~Overlap(b, d)
  BY <1>1, EntryFields DEF Before, Inside, Overlap
<1> QED
  BY <1>2 DEF b, d

\* The first of the entries joins the result.
LEMMA DisjointStep ==
  ASSUME NEW bs \in Seq(Entry), NEW ds \in Seq(Entry), NEW ms \in Seq(Entry),
         Disjoint(bs, ds, ms), bs # <<>>, ds # <<>>, Before(Head(bs), Head(ds))
  PROVE  Disjoint(Tail(bs), ds, Append(ms, Head(bs)))
<1> DEFINE b == Head(bs)
           ns == Append(ms, b)
<1>1. b \in Entry /\ b = bs[1] /\ 1 \in DOMAIN bs /\ Tail(bs) \in Seq(Entry)
  BY TailEntry
<1>2. /\ \A i \in DOMAIN ms : End(ms[i]) <= b.off
      /\ \A p \in Pages : Covers(b, p) => Has(b, p)
      /\ End(b) <= Size
  BY <1>1 DEF Disjoint, Precedes, Right, OnDevice
<1>3. Ordered(ns) /\ Right(ns)
  BY <1>1, <1>2, AppendOrdered, AppendRight DEF Disjoint
<1>4. /\ ns \in Seq(Entry) /\ DOMAIN ns = DOMAIN ms \cup {Len(ms) + 1}
      /\ \A i \in DOMAIN ms : ns[i] = ms[i]
      /\ ns[Len(ms) + 1] = b
  BY <1>1, AppendEntry
<1>5. /\ Ordered(Tail(bs)) /\ OnDevice(Tail(bs)) /\ Right(Tail(bs))
      /\ \A i \in DOMAIN Tail(bs) : End(b) <= Tail(bs)[i].off
  BY TailOrdered, TailRight DEF Disjoint
<1>6. \A j \in DOMAIN ds : End(b) <= ds[j].off
  <2> SUFFICES ASSUME NEW j \in DOMAIN ds PROVE End(b) <= ds[j].off
    OBVIOUS
  <2>1. End(b) <= Head(ds).off /\ Head(ds).off <= ds[j].off
    BY TailOrdered DEF Disjoint, Before
  <2>2. Head(ds) \in Entry /\ ds[j] \in Entry
    BY TailEntry
  <2> QED
    BY <1>1, <2>1, <2>2, EntryFields
<1>7. \A i \in DOMAIN Tail(bs) : i + 1 \in DOMAIN bs /\ Tail(bs)[i] = bs[i + 1]
  BY TailEntry
<1>8. ASSUME NEW p PROVE Mapped(ms \o bs \o ds, p) => Mapped(ns \o Tail(bs) \o ds, p)
  <2>1. ms \o bs \in Seq(Entry) /\ ns \o Tail(bs) \in Seq(Entry)
    BY <1>1, <1>4, ConcatEntries
  <2>2. Mapped(ms \o bs \o ds, p) <=> Mapped(ms, p) \/ Mapped(bs, p) \/ Mapped(ds, p)
    BY <2>1, ConcatMapped
  <2>3. Mapped(ns \o Tail(bs) \o ds, p) <=> Mapped(ns, p) \/ Mapped(Tail(bs), p) \/ Mapped(ds, p)
    <3> HIDE DEF ns
    <3> QED
      BY <1>1, <1>4, <2>1, ConcatMapped
  <2> QED
    BY <1>1, <2>2, <2>3, TailMapped, AppendMapped
<1> HIDE DEF b, ns
<1>9. OnDevice(ns)
  BY <1>2, <1>4 DEF Disjoint, OnDevice
<1>10. Precedes(ns, Tail(bs))
  BY <1>4, <1>5, <1>7 DEF Disjoint, Precedes
<1>11. Precedes(ns, ds)
  BY <1>4, <1>6 DEF Disjoint, Precedes
<1>12. \A i \in DOMAIN Tail(bs), j \in DOMAIN ds :
         Before(Tail(bs)[i], ds[j]) \/ Before(ds[j], Tail(bs)[i])
  BY <1>7 DEF Disjoint
<1>13. RightBut(Slice(header), ns \o Tail(bs) \o ds)
  BY <1>8 DEF Disjoint, RightBut
<1>14. Ordered(ds) /\ OnDevice(ds) /\ Right(ds)
  BY DEF Disjoint
<1>15. Disjoint(Tail(bs), ds, ns)
  BY <1>3, <1>5, <1>9, <1>10, <1>11, <1>12, <1>13, <1>14 DEF Disjoint
<1> QED
  BY <1>15 DEF ns, b

\* The result of the first merge is the diff of the second.
LEMMA DisjointMerged ==
  ASSUME NEW bs \in Seq(Entry), NEW ds \in Seq(Entry), NEW ms \in Seq(Entry),
         Disjoint(bs, ds, ms), bs = <<>> \/ ds = <<>>,
         Slice(header) \in Seq(Entry), Whole(Slice(header))
  PROVE  ms \o bs \o ds \in Seq(Entry) /\ Remain(Slice(header), ms \o bs \o ds, 0)
<1> DEFINE hs == Slice(header)
           s == ms \o bs \o ds
<1>1. /\ ms \o bs \in Seq(Entry) /\ s \in Seq(Entry) /\ OnDevice(s) /\ Right(s)
  <2>1. ms \o bs \in Seq(Entry) /\ OnDevice(ms \o bs) /\ Right(ms \o bs)
    BY ConcatEntries, ConcatRight DEF Disjoint
  <2> QED
    BY <2>1, ConcatEntries, ConcatRight DEF Disjoint
<1>2. Ordered(s)
  <2>1. CASE bs = <<>>
    <3>1. ms \o bs = ms
      BY <2>1, ConcatEmptySeq
    <3>2. Ordered(ms \o ds)
      BY ConcatOrdered DEF Disjoint
    <3> QED
      BY <3>1, <3>2
  <2>2. CASE ds = <<>>
    <3>1. s = ms \o bs
      BY <1>1, <2>2, ConcatEmptySeq
    <3>2. Ordered(ms \o bs)
      BY ConcatOrdered DEF Disjoint
    <3> QED
      BY <3>1, <3>2
  <2> QED
    BY <2>1, <2>2
<1>3. RightBut(hs, s)
  BY DEF Disjoint
<1> HIDE DEF hs, s
<1>4. /\ Ordered(hs) /\ Contiguous(hs) /\ hs # <<>> /\ hs[1].off = 0 /\ End(hs[Len(hs)]) = Size
      /\ hs \in Seq(Entry)
  BY DEF Whole, hs
<1>5. ASSUME NEW ns \in Seq(Entry) PROVE \A i \in DOMAIN ns : 0 <= ns[i].off
  <2> SUFFICES ASSUME NEW i \in DOMAIN ns PROVE 0 <= ns[i].off
    OBVIOUS
  <2>1. ns[i] \in Entry
    OBVIOUS
  <2> QED
    BY <2>1, EntryFields, SMTT(30)
<1>6. (\A i \in DOMAIN hs : 0 <= hs[i].off) /\ (\A i \in DOMAIN s : 0 <= s[i].off)
  BY <1>1, <1>4, <1>5
<1>7. Remain(hs, s, 0)
  BY <1>1, <1>2, <1>3, <1>4, <1>6 DEF Remain
<1> QED
  BY <1>1, <1>7 DEF hs, s

-----------------------------------------------------------------------------
(* A snapshot is taken.                                                    *)

\* The entries of sets of blocks that are disjoint are apart.
LEMMA BlocksApart ==
  ASSUME NEW b \in Entry, NEW d \in Entry, End(b) <= Size, End(d) <= Size,
         \A p \in Pages : ~(Covers(b, p) /\ Covers(d, p))
  PROVE  Before(b, d) \/ Before(d, b)
<1> SUFFICES ASSUME ~Before(b, d), ~Before(d, b) PROVE FALSE
  OBVIOUS
<1>1. /\ b.off \in Nat /\ End(b) \in Nat /\ b.off < End(b)
      /\ d.off \in Nat /\ End(d) \in Nat /\ d.off < End(d) /\ Size \in Nat
  BY EntryFields, MappingsAssumption
<1>2. d.off < End(b) /\ b.off < End(d)
  BY <1>1 DEF Before
<1> DEFINE p == IF b.off < d.off THEN d.off ELSE b.off
<1>3. p \in Pages /\ Covers(b, p) /\ Covers(d, p)
  BY <1>1, <1>2 DEF Pages, Covers
<1> QED
  BY <1>3

\* dirty and empty, of the N blocks of r pages of the device, are disjoint, the empty
\* ones are zero in the contents, and what is in neither is as in the snapshot before.
DiffOf(N, r, dirty, empty, contents) ==
    /\ r \in Nat \ {0} /\ N \in Nat /\ Size = N * r
    /\ dirty \in SUBSET (0..(N - 1)) /\ empty \in SUBSET (0..(N - 1))
    /\ dirty \cap empty = {} /\ contents \in [Pages -> Content]
    /\ \A p \in PagesOf(empty, r) : contents[p] = Zero
    /\ \A p \in Pages : p \in PagesOf(dirty, r) \/ p \in PagesOf(empty, r)
                        \/ contents[p] = memory[p]

\* The diff file has the page of each entry of the mapping of the dirty blocks, and
\* the headers before are right for the pages of no entry.
LEMMA ExportKeeps ==
  ASSUME MappingsInv, pc = "idle", NEW N, NEW r, NEW dirty, NEW empty, NEW contents,
         DiffOf(N, r, dirty, empty, contents), Export(dirty, empty, r, contents)
  PROVE  MappingsInv'
<1>0. /\ r \in Nat \ {0} /\ N \in Nat /\ Size = N * r
      /\ dirty \in SUBSET (0..(N - 1)) /\ empty \in SUBSET (0..(N - 1))
      /\ dirty \cap empty = {} /\ contents \in [Pages -> Content]
      /\ \A p \in PagesOf(empty, r) : contents[p] = Zero
      /\ \A p \in Pages : p \in PagesOf(dirty, r) \/ p \in PagesOf(empty, r)
                          \/ contents[p] = memory[p]
  BY DEF DiffOf
<1> USE <1>0
<1> DEFINE P == PagesOf(dirty, r)
           pages == Ascending(P)
           fl == [k \in DOMAIN pages |-> contents[pages[k]]]
           ds == CreateMapping(Nil, empty, r)
<1>a. PICK id : id = Len(file) + 1
  OBVIOUS
<1>b. PICK bs : bs = CreateMapping(id, dirty, r)
  OBVIOUS
<1>c. PICK hs : hs = Slice(header)
  OBVIOUS
<1>1. /\ file' = Append(file, fl) /\ memory' = contents /\ pc' = "diff"
      /\ base' = bs /\ diff' = ds /\ mappings' = <<>> /\ header' = header
  BY <1>a, <1>b DEF Export
<1>2. /\ file \in Seq(Seq(Content)) /\ id \in Nat \ {0} /\ Nil \in Nat
      /\ hs \in Seq(Entry) /\ header.offsets \in Seq(Nat) /\ Whole(hs) /\ Right(hs)
  BY <1>a, <1>c DEF MappingsInv, TypeOK, HeaderInv, Nil
<1>3. /\ bs \in Seq(Entry) /\ Ordered(bs) /\ OnDevice(bs)
      /\ \A p \in Pages : p \in P => Mapped(bs, p)
      /\ \A i \in DOMAIN bs :
              /\ bs[i].build = id
              /\ \A p \in Pages : Covers(bs[i], p) =>
                   /\ p \in P /\ bs[i].storage + (p - bs[i].off) + 1 = Rank(P, p)
  <2> DEFINE cm == CreateMapping(id, dirty, r)
  <2>1. /\ cm \in Seq(Entry) /\ Ordered(cm) /\ OnDevice(cm)
        /\ \A p \in Pages : p \in PagesOf(dirty, r) => Mapped(cm, p)
        /\ \A i \in DOMAIN cm :
              /\ cm[i].build = id
              /\ \A p \in Pages : Covers(cm[i], p) =>
                   /\ p \in PagesOf(dirty, r)
                   /\ cm[i].storage + (p - cm[i].off) + 1 = Rank(PagesOf(dirty, r), p)
    BY <1>2, CreateMappingPacks, ZenonT(30)
  <2>2. bs = cm
    BY <1>b
  <2> HIDE DEF cm
  <2> QED
    BY <2>1, <2>2
<1>4. /\ ds \in Seq(Entry) /\ Ordered(ds) /\ OnDevice(ds)
      /\ \A p \in Pages : p \in PagesOf(empty, r) => Mapped(ds, p)
      /\ \A i \in DOMAIN ds :
              /\ ds[i].build = Nil
              /\ \A p \in Pages : Covers(ds[i], p) => p \in PagesOf(empty, r)
  <2>1. /\ ds \in Seq(Entry) /\ Ordered(ds) /\ OnDevice(ds)
        /\ \A p \in Pages : p \in PagesOf(empty, r) => Mapped(ds, p)
        /\ \A i \in DOMAIN ds :
              /\ ds[i].build = Nil
              /\ \A p \in Pages : Covers(ds[i], p) =>
                   /\ p \in PagesOf(empty, r)
                   /\ ds[i].storage + (p - ds[i].off) + 1 = Rank(PagesOf(empty, r), p)
    BY <1>2, CreateMappingPacks, ZenonT(30)
  <2> HIDE DEF ds
  <2> QED
    BY <2>1
<1>5. P \in SUBSET Nat /\ IsFiniteSet(P) /\ P \in SUBSET Pages
  <2>1. IsFiniteSet(P)
    BY PagesCounted
  <2>2. P \in SUBSET Pages /\ Pages \in SUBSET Nat
    BY MappingsAssumption DEF PagesOf, Pages
  <2> QED
    BY <2>1, <2>2
<1>6. \A p \in P : p \notin PagesOf(empty, r)
  BY DEF PagesOf
<1> HIDE DEF ds, P
<1>7. /\ pages \in Seq(P) /\ DOMAIN pages = 1..Cardinality(P)
      /\ \A p \in P : Rank(P, p) \in DOMAIN pages /\ pages[Rank(P, p)] = p
  <2>1. pages \in Seq(P) /\ Len(pages) = Cardinality(P)
    BY <1>5, AscendingRanks
  <2>2. \A p \in P : Rank(P, p) \in 1..Cardinality(P) /\ pages[Rank(P, p)] = p
    BY <1>5, AscendingRanks, RankIncreases
  <2> HIDE DEF pages
  <2> QED
    BY <2>1, <2>2
<1> HIDE DEF pages
<1>8. /\ fl \in Seq(Content) /\ DOMAIN fl = DOMAIN pages
      /\ \A k \in DOMAIN fl : fl[k] = contents[pages[k]]
  <2>1. \A k \in DOMAIN pages : contents[pages[k]] \in Content
    <3>1. ASSUME NEW k \in DOMAIN pages PROVE pages[k] \in P
      <4>1. pages \in Seq(P) /\ k \in DOMAIN pages
        BY <1>7
      <4> QED
        BY <4>1
    <3>2. \A p \in P : contents[p] \in Content
      BY <1>5
    <3> QED
      BY <3>1, <3>2
  <2>2. DOMAIN pages = 1..Len(pages) /\ Len(pages) \in Nat
    BY <1>7
  <2> QED
    BY <2>1, <2>2
<1> HIDE DEF fl
<1>9. /\ file' \in Seq(Seq(Content)) /\ file'[id] = fl /\ id \in DOMAIN file'
      /\ \A b \in DOMAIN file : b \in DOMAIN file' /\ file'[b] = file[b]
  BY <1>1, <1>2, <1>8, <1>a
<1>10. Right(base)'
  <2> SUFFICES ASSUME NEW i \in DOMAIN bs, NEW p \in Pages, Covers(bs[i], p)
               PROVE  Has(bs[i], p)'
    BY <1>1 DEF Right, Covers, End, Pages
  <2>1. p \in P /\ bs[i].build = id /\ bs[i].storage + (p - bs[i].off) + 1 = Rank(P, p)
    BY <1>3
  <2>2. Rank(P, p) \in DOMAIN fl /\ fl[Rank(P, p)] = contents[p]
    BY <1>7, <1>8, <2>1
  <2> QED
    BY <1>1, <1>2, <1>9, <2>1, <2>2 DEF Has, Nil
<1>11. Right(diff)'
  <2> SUFFICES ASSUME NEW i \in DOMAIN ds, NEW p \in Pages, Covers(ds[i], p)
               PROVE  Has(ds[i], p)'
    BY <1>1 DEF Right, Covers, End, Pages
  <2> QED
    BY <1>1, <1>4 DEF Has
<1>12. ASSUME NEW i \in DOMAIN bs, NEW j \in DOMAIN ds
       PROVE  Before(bs[i], ds[j]) \/ Before(ds[j], bs[i])
  <2>1. bs[i] \in Entry /\ ds[j] \in Entry /\ End(bs[i]) <= Size /\ End(ds[j]) <= Size
    BY <1>3, <1>4 DEF OnDevice
  <2>2. \A p \in Pages : ~(Covers(bs[i], p) /\ Covers(ds[j], p))
    BY <1>3, <1>4, <1>6
  <2> QED
    BY <2>1, <2>2, BlocksApart
<1>13. ASSUME NEW i \in DOMAIN hs, NEW p \in Pages, Covers(hs[i], p)
       PROVE  Has(hs[i], p)' \/ Mapped(<<>> \o bs \o ds, p)
  <2>1. CASE p \in P \/ p \in PagesOf(empty, r)
    <3>1. Mapped(bs, p) \/ Mapped(ds, p)
      BY <1>3, <1>4, <2>1
    <3>2. <<>> \o bs = bs
      BY <1>3, ConcatEmptySeq
    <3> QED
      BY <1>3, <1>4, <3>1, <3>2, ConcatMapped
  <2>2. CASE contents[p] = memory[p]
    <3>1. Has(hs[i], p)
      BY <1>2, <1>13 DEF Right
    <3> QED
      BY <1>1, <1>9, <2>2, <3>1 DEF Has
  <2> QED
    BY <2>1, <2>2 DEF P
<1>14. Slice(header)' = hs
  BY <1>1, <1>c DEF Slice, At
<1>15. TypeOK'
  <2>1. (header.offsets \in Seq(Nat) /\ Slice(header) \in Seq(Entry))'
    BY <1>1, <1>2, <1>14
  <2>2. (base \in Seq(Entry) /\ diff \in Seq(Entry) /\ mappings \in Seq(Entry))'
    BY <1>1, <1>3, <1>4, EmptySeq
  <2>3. (memory \in [Pages -> Content] /\ file \in Seq(Seq(Content)))'
    BY <1>1, <1>9
  <2>4. (pc \in {"idle", "diff", "header"})'
    BY <1>1
  <2> QED
    BY <2>1, <2>2, <2>3, <2>4 DEF TypeOK
<1>16. HeaderInv'
  <2>1. Whole(Slice(header))'
    BY <1>2, <1>14 DEF Whole, Ordered, Contiguous, End
  <2> QED
    BY <1>1, <2>1 DEF HeaderInv
<1>17. RightBut(Slice(header), mappings \o base \o diff)'
  <2> SUFFICES ASSUME NEW i \in DOMAIN hs, NEW p \in Pages, Covers(hs[i], p)
               PROVE  Has(hs[i], p)' \/ Mapped(<<>> \o bs \o ds, p)
    BY <1>1, <1>14 DEF RightBut, Covers, End, Pages, Mapped
  <2> QED
    BY <1>13
<1>18. /\ Ordered(mappings)' /\ OnDevice(mappings)' /\ Right(mappings)'
       /\ Precedes(mappings, base)' /\ Precedes(mappings, diff)'
  <2>1. DOMAIN mappings' = {}
    BY <1>1
  <2> QED
    BY <2>1 DEF Ordered, OnDevice, Right, Precedes
<1>19. /\ Ordered(base)' /\ Ordered(diff)' /\ OnDevice(base)' /\ OnDevice(diff)'
  BY <1>1, <1>3, <1>4 DEF Ordered, OnDevice, End
<1>20. (\A i \in DOMAIN base, j \in DOMAIN diff :
          Before(base[i], diff[j]) \/ Before(diff[j], base[i]))'
  BY <1>1, <1>12 DEF Before, End
<1>21. DiffInv'
  BY <1>10, <1>11, <1>17, <1>18, <1>19, <1>20 DEF DiffInv, Disjoint
<1>22. MergeInv'
  BY <1>1 DEF MergeInv
<1> QED
  BY <1>15, <1>16, <1>21, <1>22 DEF MappingsInv

\* The device is a number of blocks.
LEMMA WholeBlocks ==
  /\ Size \div Ratio \in Nat
  /\ Size = (Size \div Ratio) * Ratio
<1>1. Size \in Nat /\ Ratio \in Nat \ {0} /\ Size % Ratio = 0
  BY MappingsAssumption
<1>2. Size = Ratio * (Size \div Ratio) + (Size % Ratio) /\ Size \div Ratio \in Nat
  BY <1>1
<1> QED
  BY <1>1, <1>2

\* A block of one page is that page.
LEMMA PagesOfPages ==
  ASSUME NEW S \in SUBSET Pages
  PROVE  PagesOf(S, 1) = S
<1>1. ASSUME NEW p \in Pages PROVE p \div 1 = p
  <2>1. p \in Nat
    BY MappingsAssumption DEF Pages
  <2> QED
    BY <2>1
<1> QED
  BY <1>1 DEF PagesOf

\* The device at a snapshot.
LEMMA ContentsFacts ==
  ASSUME memory \in [Pages -> Content], file \in Seq(Seq(Content)),
         NEW dirty, NEW empty, NEW zero, NEW kept,
         zero \in SUBSET PagesOf(dirty, Ratio), dirty \cap empty = {}
  PROVE  LET contents == Contents(dirty, empty, zero, kept) IN
         /\ contents \in [Pages -> Content]
         /\ \A p \in PagesOf(empty, Ratio) : contents[p] = Zero
         /\ \A p \in Pages : \/ p \in PagesOf(dirty, Ratio) \/ p \in PagesOf(empty, Ratio)
                             \/ contents[p] = memory[p]
<1> DEFINE contents == Contents(dirty, empty, zero, kept)
           E == PagesOf(empty, Ratio)
           D == PagesOf(dirty, Ratio)
<1>1. /\ Pages \in SUBSET Nat /\ Len(file) + 1 \in Nat
      /\ E \in SUBSET Pages /\ D \in SUBSET Pages
  BY MappingsAssumption DEF Pages, PagesOf
<1>2. D \cap E = {} /\ zero \in SUBSET D
  BY DEF PagesOf
<1>3. ASSUME NEW p \in Pages
      PROVE  contents[p] = CASE p \in zero \cup E -> Zero
                             [] p \in D \ (zero \cup kept) -> <<Len(file) + 1, p>>
                             [] OTHER -> memory[p]
  BY DEF Contents
<1>4. DOMAIN contents = Pages /\ contents = [p \in Pages |-> contents[p]]
  BY DEF Contents
<1> HIDE DEF contents, E, D
<1>5. ASSUME NEW p \in Pages
      PROVE  /\ contents[p] \in Content
             /\ p \in E => contents[p] = Zero
             /\ p \in D \/ p \in E \/ contents[p] = memory[p]
  <2>1. CASE p \in zero \cup E
    <3>1. contents[p] = Zero
      BY <1>3, <1>2, <2>1
    <3> QED
      BY <3>1, <2>1 DEF Content, D, E
  <2>2. CASE p \notin zero \cup E /\ p \in D \ (zero \cup kept)
    <3>1. contents[p] = <<Len(file) + 1, p>>
      BY <1>3, <2>2
    <3>2. <<Len(file) + 1, p>> \in Nat \X Nat
      BY <1>1
    <3> QED
      BY <3>1, <3>2, <2>2 DEF Content
  <2>3. CASE p \notin zero \cup E /\ p \notin D \ (zero \cup kept)
    <3>1. contents[p] = memory[p]
      BY <1>3, <2>3
    <3> QED
      BY <3>1, <2>3
  <2> QED
    BY <2>1, <2>2, <2>3
<1>6. contents \in [Pages -> Content]
  BY <1>4, <1>5
<1> QED
  BY <1>1, <1>5, <1>6 DEF contents, D, E

\* A page that the snapshot before has too is as it was then.
LEMMA SharedIsKept ==
  ASSUME MappingsInv, pc = "idle", NEW p \in Pages, NEW c, ReadAt(header, p, 1) = <<c>>
  PROVE  c = memory[p]
<1>1. 1 \in 1..(Size - p) /\ p \in Nat
  BY MappingsAssumption DEF Pages
<1>2. ReadAt(header, p, 1) = Device(p, p + 1)
  BY <1>1, ReadsTheDevice DEF MappingsInv, TypeOK, HeaderInv
<1>3. Device(p, p + 1)[1] = memory[p]
  <2>1. 1 \in 1..((p + 1) - p) /\ p + 1 - 1 = p
    BY <1>1
  <2> QED
    BY <2>1 DEF Device
<1>4. <<c>>[1] = c
  OBVIOUS
<1> QED
  BY <1>2, <1>3, <1>4

LEMMA SnapshotKeeps ==
  ASSUME MappingsInv, Snapshot
  PROVE  MappingsInv'
<1>1. PICK dirty, empty, zero, kept :
        /\ dirty \in SUBSET Blocks /\ empty \in SUBSET (Blocks \ dirty)
        /\ zero \in SUBSET PagesOf(dirty, Ratio)
        /\ LET contents == Contents(dirty, empty, zero, kept) IN
           \/ Export(dirty, empty, Ratio, contents)
           \/ Dedup(dirty, empty, {p \in PagesOf(dirty, Ratio) : contents[p] = Zero}, contents)
  BY DEF Snapshot
<1> DEFINE D == PagesOf(dirty, Ratio)
           E == PagesOf(empty, Ratio)
<1>2. PICK contents : contents = Contents(dirty, empty, zero, kept)
  OBVIOUS
<1>3. /\ contents \in [Pages -> Content]
      /\ \A p \in E : contents[p] = Zero
      /\ \A p \in Pages : p \in D \/ p \in E \/ contents[p] = memory[p]
  <2> DEFINE c == Contents(dirty, empty, zero, kept)
  <2>1. /\ memory \in [Pages -> Content] /\ file \in Seq(Seq(Content))
        /\ zero \in SUBSET D /\ dirty \cap empty = {}
    BY <1>1 DEF MappingsInv, TypeOK
  <2>2. /\ c \in [Pages -> Content]
        /\ \A p \in E : c[p] = Zero
        /\ \A p \in Pages : p \in D \/ p \in E \/ c[p] = memory[p]
    BY <2>1, ContentsFacts
  <2>3. contents = c
    BY <1>2
  <2> HIDE DEF c
  <2> QED
    BY <2>2, <2>3
<1>4. pc = "idle"
  BY DEF Snapshot
<1>5. CASE Export(dirty, empty, Ratio, contents)
  <2> DEFINE N == Size \div Ratio
  <2>1. N \in Nat /\ Size = N * Ratio /\ Ratio \in Nat \ {0}
    BY WholeBlocks, MappingsAssumption
  <2>2. /\ dirty \in SUBSET (0..(N - 1)) /\ empty \in SUBSET (0..(N - 1))
        /\ dirty \cap empty = {}
    BY <1>1 DEF Blocks
  <2> HIDE DEF N
  <2>3. /\ \A p \in PagesOf(empty, Ratio) : contents[p] = Zero
        /\ \A p \in Pages : p \in PagesOf(dirty, Ratio) \/ p \in PagesOf(empty, Ratio)
                            \/ contents[p] = memory[p]
        /\ contents \in [Pages -> Content]
    BY <1>3
  <2> HIDE DEF D, E
  <2> QED
    <3>1. DiffOf(N, Ratio, dirty, empty, contents)
      BY <2>1, <2>2, <2>3 DEF DiffOf
    <3> QED
      BY <1>4, <1>5, <3>1, ExportKeeps
<1>6. CASE Dedup(dirty, empty, {p \in D : contents[p] = Zero}, contents)
  <2> DEFINE Z == {p \in D : contents[p] = Zero}
  <2>1. PICK shared \in SUBSET {p \in D \ Z : /\ GetShiftedMapping(header, p).build # Nil
                                              /\ ReadAt(header, p, 1) = <<contents[p]>>} :
          Export((D \ Z) \ shared, Z \cup E, 1, contents)
    BY <1>6 DEF Dedup
  <2>2. D \in SUBSET Pages /\ E \in SUBSET Pages /\ D \cap E = {}
    BY <1>1 DEF PagesOf
  <2>3. \A p \in shared : contents[p] = memory[p]
    BY <1>4, <2>1, <2>2, SharedIsKept
  <2> DEFINE S == (D \ Z) \ shared
             T == Z \cup E
  <2>4. S \in SUBSET Pages /\ T \in SUBSET Pages /\ S \cap T = {}
    BY <2>2
  <2>5. PagesOf(S, 1) = S /\ PagesOf(T, 1) = T
    BY <2>4, PagesOfPages
  <2>6. /\ \A p \in T : contents[p] = Zero
        /\ \A p \in Pages : p \in S \/ p \in T \/ contents[p] = memory[p]
    BY <1>3, <2>3
  <2>7. Export(S, T, 1, contents)
    BY <2>1
  <2> HIDE DEF S, T
  <2>8. Size \in Nat /\ Size = Size * 1 /\ Pages = 0..(Size - 1)
    BY MappingsAssumption DEF Pages
  <2>9. S \in SUBSET (0..(Size - 1)) /\ T \in SUBSET (0..(Size - 1))
    BY <2>4, <2>8
  <2>10. DiffOf(Size, 1, S, T, contents)
    <3>1. /\ \A p \in PagesOf(T, 1) : contents[p] = Zero
          /\ \A p \in Pages : p \in PagesOf(S, 1) \/ p \in PagesOf(T, 1)
                              \/ contents[p] = memory[p]
      BY <2>5, <2>6
    <3>2. 1 \in Nat \ {0} /\ Size \in Nat /\ Size = Size * 1
      BY <2>8
    <3>3. contents \in [Pages -> Content]
      BY <1>3
    <3> QED
      BY <2>4, <2>9, <3>1, <3>2, <3>3 DEF DiffOf
  <2> QED
    BY <1>4, <2>7, <2>10, ExportKeeps
<1> QED
  BY <1>1, <1>2, <1>5, <1>6

-----------------------------------------------------------------------------
(* A step of a merge.                                                      *)

\* The merges change neither the device, nor the files, nor the header: what a step
\* makes of the three lists is all there is to show.
LEMMA MergeFrame ==
  ASSUME MappingsInv, UNCHANGED Unmerged,
         NEW bs \in Seq(Entry), NEW ds \in Seq(Entry), NEW ms \in Seq(Entry),
         base' = bs, diff' = ds, mappings' = ms,
         pc = "diff" => Disjoint(bs, ds, ms),
         pc = "header" => Tiles(ms) /\ Remain(bs, ds, Cut(ms))
  PROVE  MappingsInv'
<1>1. memory' = memory /\ file' = file /\ header' = header /\ pc' = pc
  BY DEF Unmerged
<1>2. Slice(header)' = Slice(header)
  BY <1>1 DEF Slice, At
<1>3. TypeOK'
  BY <1>1, <1>2 DEF MappingsInv, TypeOK
<1>4. ASSUME NEW m, NEW p PROVE Has(m, p)' <=> Has(m, p)
  BY <1>1 DEF Has
<1>5. HeaderInv'
  <2>1. Whole(Slice(header))'
    BY <1>2 DEF MappingsInv, HeaderInv, Whole, Ordered, Contiguous, End
  <2>2. pc = "idle" => Right(Slice(header))'
    <3>1. pc = "idle" => Right(Slice(header))
      BY DEF MappingsInv, HeaderInv
    <3> QED
      BY <1>2, <1>4, <3>1 DEF Right, Covers, End, Pages
  <2> QED
    BY <1>1, <2>1, <2>2 DEF HeaderInv
<1>6. Right(bs) => Right(base)'
  BY <1>4 DEF Right, Covers, End, Pages
<1>7. Right(ds) => Right(diff)'
  BY <1>4 DEF Right, Covers, End, Pages
<1>8. Right(ms) => Right(mappings)'
  BY <1>4 DEF Right, Covers, End, Pages
<1>9. DiffInv'
  <2> SUFFICES ASSUME pc = "diff" PROVE Disjoint(base, diff, mappings)'
    BY <1>1 DEF DiffInv
  <2>1. Disjoint(bs, ds, ms)
    OBVIOUS
  <2>2. Ordered(base)' /\ Ordered(diff)' /\ Ordered(mappings)'
    BY <2>1 DEF Disjoint, Ordered, End
  <2>3. OnDevice(base)' /\ OnDevice(diff)' /\ OnDevice(mappings)'
    BY <2>1 DEF Disjoint, OnDevice, End
  <2>4. Precedes(mappings, base)' /\ Precedes(mappings, diff)'
    BY <2>1 DEF Disjoint, Precedes, End
  <2>5. (\A i \in DOMAIN base, j \in DOMAIN diff :
           Before(base[i], diff[j]) \/ Before(diff[j], base[i]))'
    BY <2>1 DEF Disjoint, Before, End
  <2>6. Right(base)' /\ Right(diff)' /\ Right(mappings)'
    BY <2>1, <1>6, <1>7, <1>8 DEF Disjoint
  <2>7. RightBut(Slice(header), mappings \o base \o diff)'
    <3>1. RightBut(Slice(header), ms \o bs \o ds)
      BY <2>1 DEF Disjoint
    <3> QED
      BY <3>1, <1>2, <1>4 DEF RightBut, Covers, End, Pages, Mapped
  <2> QED
    BY <2>2, <2>3, <2>4, <2>5, <2>6, <2>7 DEF Disjoint
<1>10. MergeInv'
  <2> SUFFICES ASSUME pc = "header" PROVE (Tiles(mappings) /\ Remain(base, diff, Cut(mappings)))'
    BY <1>1 DEF MergeInv
  <2>1. Tiles(ms) /\ Remain(bs, ds, Cut(ms))
    OBVIOUS
  <2>2. Tiles(mappings)'
    <3>1. Right(mappings)'
      BY <2>1, <1>8 DEF Tiles
    <3>2. /\ mappings' # <<>> => mappings'[1].off = 0
          /\ Ordered(mappings)' /\ Contiguous(mappings)' /\ OnDevice(mappings)'
      BY <2>1 DEF Tiles, Ordered, Contiguous, OnDevice, End
    <3> QED
      BY <3>1, <3>2 DEF Tiles
  <2>3. Cut(mappings)' = Cut(ms)
    BY DEF Cut, End
  <2>4. Ordered(base)' /\ Contiguous(base)' /\ Ordered(diff)' /\ OnDevice(diff)'
    BY <2>1 DEF Remain, Ordered, Contiguous, OnDevice, End
  <2>5. Right(diff)'
    BY <2>1, <1>7 DEF Remain
  <2>6. RightBut(base, diff)'
    <3>1. RightBut(bs, ds)
      BY <2>1 DEF Remain
    <3> QED
      BY <3>1, <1>4 DEF RightBut, Covers, End, Pages, Mapped
  <2>7. Remain(base, diff, Cut(mappings))'
    BY <2>1, <2>3, <2>4, <2>5, <2>6 DEF Remain, End
  <2> QED
    BY <2>2, <2>7
<1> QED
  BY <1>3, <1>5, <1>9, <1>10 DEF MappingsInv

\* What the invariant says in a merge.
LEMMA MergingFacts ==
  ASSUME MappingsInv, Merging
  PROVE  /\ base \in Seq(Entry) /\ diff \in Seq(Entry) /\ mappings \in Seq(Entry)
         /\ base # <<>> /\ diff # <<>> /\ pc # "idle"
         /\ Head(base) \in Entry /\ Tail(base) \in Seq(Entry)
         /\ Head(diff) \in Entry /\ Tail(diff) \in Seq(Entry)
         /\ pc = "diff" => Disjoint(base, diff, mappings)
         /\ pc = "header" => Tiles(mappings) /\ Remain(base, diff, Cut(mappings))
<1>1. /\ base \in Seq(Entry) /\ diff \in Seq(Entry) /\ mappings \in Seq(Entry)
      /\ base # <<>> /\ diff # <<>> /\ pc # "idle"
      /\ pc = "diff" => Disjoint(base, diff, mappings)
      /\ pc = "header" => Tiles(mappings) /\ Remain(base, diff, Cut(mappings))
  BY DEF MappingsInv, TypeOK, DiffInv, MergeInv, Merging
<1> QED
  BY <1>1, TailEntry

LEMMA BaseBeforeDiffStep ==
  ASSUME MappingsInv, BaseBeforeDiff
  PROVE  MappingsInv'
<1>1. /\ Merging /\ Before(Head(base), Head(diff)) /\ UNCHANGED Unmerged
      /\ mappings' = Append(mappings, Head(base)) /\ base' = Tail(base) /\ diff' = diff
  BY DEF BaseBeforeDiff
<1>2. /\ pc = "diff" => Disjoint(Tail(base), diff, Append(mappings, Head(base)))
      /\ pc = "header" => /\ Tiles(Append(mappings, Head(base)))
                          /\ Remain(Tail(base), diff, Cut(Append(mappings, Head(base))))
  BY <1>1, MergingFacts, DisjointStep, BaseBeforeDiffKeeps
<1>3. PICK bs, ds, ms : /\ bs = Tail(base) /\ ds = diff /\ ms = Append(mappings, Head(base))
  OBVIOUS
<1>4. bs \in Seq(Entry) /\ ds \in Seq(Entry) /\ ms \in Seq(Entry)
  BY <1>1, <1>3, MergingFacts
<1>5. base' = bs /\ diff' = ds /\ mappings' = ms
  BY <1>1, <1>3
<1>6. /\ pc = "diff" => Disjoint(bs, ds, ms)
      /\ pc = "header" => Tiles(ms) /\ Remain(bs, ds, Cut(ms))
  BY <1>2, <1>3
<1> QED
  BY <1>1, <1>4, <1>5, <1>6, MergeFrame

LEMMA DiffBeforeBaseStep ==
  ASSUME MappingsInv, DiffBeforeBase
  PROVE  MappingsInv'
<1>1. /\ Merging /\ Before(Head(diff), Head(base)) /\ UNCHANGED Unmerged
      /\ mappings' = Append(mappings, Head(diff)) /\ base' = base /\ diff' = Tail(diff)
  BY DEF DiffBeforeBase
<1>2. ASSUME pc = "diff" PROVE Disjoint(base, Tail(diff), Append(mappings, Head(diff)))
  <2>1. Disjoint(diff, base, mappings)
    BY <1>1, <1>2, MergingFacts, DisjointSwaps
  <2>2. Disjoint(Tail(diff), base, Append(mappings, Head(diff)))
    BY <1>1, <2>1, MergingFacts, DisjointStep
  <2>3. Append(mappings, Head(diff)) \in Seq(Entry)
    BY <1>1, MergingFacts
  <2> QED
    BY <1>1, <2>2, <2>3, MergingFacts, DisjointSwaps
<1>3. pc = "header" => /\ Tiles(Append(mappings, Head(diff)))
                       /\ Remain(base, Tail(diff), Cut(Append(mappings, Head(diff))))
  BY <1>1, MergingFacts, DiffBeforeBaseKeeps
<1>4. PICK bs, ds, ms : /\ bs = base /\ ds = Tail(diff) /\ ms = Append(mappings, Head(diff))
  OBVIOUS
<1>5. bs \in Seq(Entry) /\ ds \in Seq(Entry) /\ ms \in Seq(Entry)
  BY <1>1, <1>4, MergingFacts
<1>6. base' = bs /\ diff' = ds /\ mappings' = ms
  BY <1>1, <1>4
<1>7. /\ pc = "diff" => Disjoint(bs, ds, ms)
      /\ pc = "header" => Tiles(ms) /\ Remain(bs, ds, Cut(ms))
  BY <1>2, <1>3, <1>4
<1> QED
  BY <1>1, <1>5, <1>6, <1>7, MergeFrame

\* In the merge of the dirty and the empty blocks no two entries meet.
LEMMA DiffApart ==
  ASSUME MappingsInv, Merging, \/ Inside(Head(base), Head(diff))
                               \/ Inside(Head(diff), Head(base))
                               \/ Overlap(Head(base), Head(diff))
  PROVE  pc # "diff"
  BY MergingFacts, DisjointApart

LEMMA BaseInsideDiffStep ==
  ASSUME MappingsInv, BaseInsideDiff
  PROVE  MappingsInv'
<1>1. /\ Merging /\ Inside(Head(base), Head(diff)) /\ UNCHANGED Unmerged
      /\ mappings' = mappings /\ base' = Tail(base) /\ diff' = diff
  BY DEF BaseInsideDiff
<1>2. pc = "header" => Tiles(mappings) /\ Remain(Tail(base), diff, Cut(mappings))
  BY <1>1, MergingFacts, CutIsPage, BaseInsideDiffKeeps
<1>3. PICK bs, ds, ms : bs = Tail(base) /\ ds = diff /\ ms = mappings
  OBVIOUS
<1>4. /\ bs \in Seq(Entry) /\ ds \in Seq(Entry) /\ ms \in Seq(Entry)
      /\ pc # "diff"
  BY <1>1, <1>3, MergingFacts, DiffApart
<1>5. base' = bs /\ diff' = ds /\ mappings' = ms
  BY <1>1, <1>3
<1>6. pc = "header" => Tiles(ms) /\ Remain(bs, ds, Cut(ms))
  BY <1>2, <1>3
<1> QED
  BY <1>1, <1>4, <1>5, <1>6, MergeFrame

LEMMA DiffInsideBaseStep ==
  ASSUME MappingsInv, DiffInsideBase
  PROVE  MappingsInv'
<1> DEFINE ns == mappings \o LeftPart(Head(base), Head(diff)) \o <<Head(diff)>>
           cs == RightPart(Head(base), Head(diff)) \o Tail(base)
<1>1. /\ Merging /\ Inside(Head(diff), Head(base)) /\ UNCHANGED Unmerged
      /\ mappings' = ns /\ base' = cs /\ diff' = Tail(diff)
  BY DEF DiffInsideBase
<1>2. pc = "header"
  BY <1>1, MergingFacts, DiffApart DEF MappingsInv, TypeOK
<1>3. /\ ns \in Seq(Entry) /\ cs \in Seq(Entry)
      /\ Tiles(ns) /\ Remain(cs, Tail(diff), Cut(ns))
  BY <1>1, <1>2, MergingFacts, DiffInsideBaseKeeps
<1>4. PICK bs, ds, ms : bs = cs /\ ds = Tail(diff) /\ ms = ns
  OBVIOUS
<1> HIDE DEF ns, cs
<1>5. /\ bs \in Seq(Entry) /\ ds \in Seq(Entry) /\ ms \in Seq(Entry)
      /\ pc # "diff"
  BY <1>1, <1>2, <1>3, <1>4, MergingFacts
<1>6. base' = bs /\ diff' = ds /\ mappings' = ms
  BY <1>1, <1>4
<1>7. Tiles(ms) /\ Remain(bs, ds, Cut(ms))
  BY <1>3, <1>4
<1> QED
  BY <1>1, <1>5, <1>6, <1>7, MergeFrame

LEMMA BaseAfterDiffStep ==
  ASSUME MappingsInv, BaseAfterDiff
  PROVE  MappingsInv'
<1> DEFINE ns == Append(mappings, Head(diff))
           cs == RightPart(Head(base), Head(diff)) \o Tail(base)
<1>1. /\ Merging /\ Overlap(Head(base), Head(diff)) /\ Head(base).off > Head(diff).off
      /\ UNCHANGED Unmerged /\ mappings' = ns /\ base' = cs /\ diff' = Tail(diff)
  BY DEF BaseAfterDiff
<1>2. pc = "header"
  BY <1>1, MergingFacts, DiffApart DEF MappingsInv, TypeOK
<1>3. /\ ns \in Seq(Entry) /\ cs \in Seq(Entry)
      /\ Tiles(ns) /\ Remain(cs, Tail(diff), Cut(ns))
  <2>1. ns \in Seq(Entry)
    BY <1>1, MergingFacts
  <2>2. cs \in Seq(Entry) /\ Tiles(ns) /\ Remain(cs, Tail(diff), Cut(ns))
    BY <1>1, <1>2, MergingFacts, BaseAfterDiffKeeps
  <2> QED
    BY <2>1, <2>2
<1>4. PICK bs, ds, ms : bs = cs /\ ds = Tail(diff) /\ ms = ns
  OBVIOUS
<1> HIDE DEF ns, cs
<1>5. /\ bs \in Seq(Entry) /\ ds \in Seq(Entry) /\ ms \in Seq(Entry)
      /\ pc # "diff"
  BY <1>1, <1>2, <1>3, <1>4, MergingFacts
<1>6. base' = bs /\ diff' = ds /\ mappings' = ms
  BY <1>1, <1>4
<1>7. Tiles(ms) /\ Remain(bs, ds, Cut(ms))
  BY <1>3, <1>4
<1> QED
  BY <1>1, <1>5, <1>6, <1>7, MergeFrame

LEMMA DiffAfterBaseStep ==
  ASSUME MappingsInv, DiffAfterBase
  PROVE  MappingsInv'
<1> DEFINE ns == mappings \o LeftPart(Head(base), Head(diff))
<1>1. /\ Merging /\ Overlap(Head(base), Head(diff)) /\ Head(diff).off > Head(base).off
      /\ UNCHANGED Unmerged /\ mappings' = ns /\ base' = Tail(base) /\ diff' = diff
  BY DEF DiffAfterBase
<1>2. pc = "header"
  BY <1>1, MergingFacts, DiffApart DEF MappingsInv, TypeOK
<1>3. ns \in Seq(Entry) /\ Tiles(ns) /\ Remain(Tail(base), diff, Cut(ns))
  BY <1>1, <1>2, MergingFacts, DiffAfterBaseKeeps
<1>4. PICK bs, ds, ms : bs = Tail(base) /\ ds = diff /\ ms = ns
  OBVIOUS
<1> HIDE DEF ns
<1>5. /\ bs \in Seq(Entry) /\ ds \in Seq(Entry) /\ ms \in Seq(Entry)
      /\ pc # "diff"
  BY <1>1, <1>2, <1>3, <1>4, MergingFacts
<1>6. base' = bs /\ diff' = ds /\ mappings' = ms
  BY <1>1, <1>4
<1>7. Tiles(ms) /\ Remain(bs, ds, Cut(ms))
  BY <1>3, <1>4
<1> QED
  BY <1>1, <1>5, <1>6, <1>7, MergeFrame

-----------------------------------------------------------------------------
(* The ends of the two merges.                                             *)

LEMMA DiffMappedStep ==
  ASSUME MappingsInv, DiffMapped
  PROVE  MappingsInv'
<1>1. /\ pc = "diff" /\ (base = <<>> \/ diff = <<>>) /\ pc' = "header"
      /\ base' = Slice(header) /\ diff' = Merged /\ mappings' = <<>>
      /\ memory' = memory /\ file' = file /\ header' = header
  BY DEF DiffMapped
<1>2. /\ base \in Seq(Entry) /\ diff \in Seq(Entry) /\ mappings \in Seq(Entry)
      /\ Disjoint(base, diff, mappings)
      /\ Slice(header) \in Seq(Entry) /\ Whole(Slice(header))
  BY <1>1 DEF MappingsInv, TypeOK, HeaderInv, DiffInv
<1>3. Merged \in Seq(Entry) /\ Remain(Slice(header), Merged, 0)
  BY <1>1, <1>2, DisjointMerged DEF Merged
<1>4. PICK bs, ds : bs = Slice(header) /\ ds = Merged
  OBVIOUS
<1>5. /\ bs \in Seq(Entry) /\ ds \in Seq(Entry) /\ Remain(bs, ds, 0)
      /\ base' = bs /\ diff' = ds
  BY <1>1, <1>2, <1>3, <1>4
<1>6. Slice(header)' = Slice(header)
  BY <1>1 DEF Slice, At
<1>7. TypeOK'
  BY <1>1, <1>5, <1>6, EmptySeq DEF MappingsInv, TypeOK
<1>8. HeaderInv'
  <2>1. Whole(Slice(header))'
    BY <1>2, <1>6 DEF Whole, Ordered, Contiguous, End
  <2> QED
    BY <1>1, <2>1 DEF HeaderInv
<1>9. DiffInv'
  BY <1>1 DEF DiffInv
<1>10. ASSUME NEW m, NEW p PROVE Has(m, p)' <=> Has(m, p)
  BY <1>1 DEF Has
<1>11. Tiles(mappings)' /\ Cut(mappings)' = 0
  <2>1. DOMAIN mappings' = {} /\ mappings' = <<>>
    BY <1>1
  <2> QED
    BY <2>1 DEF Tiles, Cut, Ordered, Contiguous, OnDevice, Right
<1>12. /\ Ordered(base)' /\ Contiguous(base)' /\ Ordered(diff)' /\ OnDevice(diff)'
  BY <1>5 DEF Remain, Ordered, Contiguous, OnDevice, End
<1>13. Right(diff)'
  <2>1. Right(ds)
    BY <1>5 DEF Remain
  <2> QED
    BY <1>5, <1>10, <2>1 DEF Right, Covers, End, Pages
<1>14. RightBut(base, diff)'
  <2>1. RightBut(bs, ds)
    BY <1>5 DEF Remain
  <2> QED
    BY <1>5, <1>10, <2>1 DEF RightBut, Covers, End, Pages, Mapped
<1>15. Remain(base, diff, Cut(mappings))'
  BY <1>5, <1>11, <1>12, <1>13, <1>14 DEF Remain, End
<1>16. MergeInv'
  BY <1>11, <1>15 DEF MergeInv
<1> QED
  BY <1>7, <1>8, <1>9, <1>16 DEF MappingsInv

\* The header passes its check: no snapshot fails.
LEMMA HeaderMergedStep ==
  ASSUME MappingsInv, HeaderMerged
  PROVE  MappingsInv'
<1>1. /\ pc = "header" /\ (base = <<>> \/ diff = <<>>)
      /\ base' = <<>> /\ diff' = <<>> /\ mappings' = <<>>
      /\ memory' = memory /\ file' = file
  BY DEF HeaderMerged
<1>2. /\ base \in Seq(Entry) /\ diff \in Seq(Entry) /\ mappings \in Seq(Entry)
      /\ Tiles(mappings) /\ Remain(base, diff, Cut(mappings))
  BY <1>1 DEF MappingsInv, TypeOK, MergeInv
<1>3. Merged \in Seq(Entry) /\ Whole(Merged) /\ Right(Merged)
  BY <1>1, <1>2, MergedWhole DEF Merged
<1>4. PICK ms : ms = NormalizeMappings(Merged)
  OBVIOUS
<1>5. ms \in Seq(Entry) /\ Whole(ms) /\ Right(ms)
  BY <1>3, <1>4, NormalizeKeeps
<1>6. PICK h : h = NewMapping(ms)
  OBVIOUS
<1>7. h.offsets \in Seq(Nat) /\ Slice(h) = ms /\ Validate(h)
  BY <1>5, <1>6, NewMappingKeeps
<1>8. header' = h /\ pc' = "idle"
  BY <1>4, <1>6, <1>7 DEF HeaderMerged
<1>9. Slice(header)' = ms
  <2>1. Slice(header)' = Slice(h)
    BY <1>8 DEF Slice, At
  <2> QED
    BY <1>7, <2>1
<1>10. TypeOK'
  BY <1>1, <1>5, <1>7, <1>8, <1>9, EmptySeq DEF MappingsInv, TypeOK
<1>11. Whole(Slice(header))'
  BY <1>5, <1>9 DEF Whole, Ordered, Contiguous, End
<1>12. Right(Slice(header))'
  <2>1. ASSUME NEW m, NEW p PROVE Has(m, p)' <=> Has(m, p)
    BY <1>1 DEF Has
  <2> QED
    BY <1>5, <1>9, <2>1 DEF Right, Covers, End, Pages
<1> QED
  BY <1>8, <1>10, <1>11, <1>12 DEF MappingsInv, HeaderInv, DiffInv, MergeInv

-----------------------------------------------------------------------------
(* The theorems.                                                           *)

\* The template: one entry, and its file has all the pages.
LEMMA InitKeeps ==
  ASSUME Init
  PROVE  MappingsInv
<1> DEFINE m == [off |-> 0, len |-> Size, build |-> 1, storage |-> 0]
           ms == <<m>>
           f == [k \in 1..Size |-> <<1, k - 1>>]
<1>1. /\ memory = [p \in Pages |-> <<1, p>>] /\ file = <<f>> /\ header = NewMapping(ms)
      /\ pc = "idle" /\ base = <<>> /\ diff = <<>> /\ mappings = <<>>
  BY DEF Init
<1>2. Size \in Nat \ {0} /\ Pages \in SUBSET Nat
  BY MappingsAssumption DEF Pages
<1>3. /\ m \in Entry /\ m.off = 0 /\ m.len = Size /\ m.build = 1 /\ m.storage = 0
      /\ End(m) = Size
  BY <1>2 DEF Entry, End
<1>4. f \in Seq(Content) /\ DOMAIN f = 1..Size /\ \A k \in 1..Size : f[k] = <<1, k - 1>>
  <2>1. \A k \in 1..Size : <<1, k - 1>> \in Content
    BY <1>2 DEF Content
  <2> QED
    BY <1>2, <2>1
<1> HIDE DEF f, m
<1>5. ms \in Seq(Entry) /\ ms # <<>> /\ Len(ms) = 1 /\ DOMAIN ms = {1} /\ ms[1] = m
  BY <1>3
<1>6. file \in Seq(Seq(Content)) /\ DOMAIN file = {1} /\ file[1] = f
  BY <1>1, <1>4
<1> HIDE DEF ms
<1>7. Whole(ms)
  BY <1>3, <1>5 DEF Whole, Ordered, Contiguous
<1>8. memory \in [Pages -> Content] /\ \A p \in Pages : memory[p] = <<1, p>>
  <2>1. \A p \in Pages : <<1, p>> \in Content
    BY <1>2 DEF Content
  <2> QED
    BY <1>1, <2>1
<1>9. ASSUME NEW p \in Pages PROVE Has(m, p)
  <2>1. p \in 0..(Size - 1) /\ p \in Nat /\ 0 + (p - 0) + 1 = p + 1
    BY <1>2 DEF Pages
  <2>2. p + 1 \in 1..Size /\ (p + 1) - 1 = p
    BY <1>2, <2>1
  <2>3. f[p + 1] = memory[p]
    BY <1>4, <1>8, <2>2
  <2> QED
    BY <1>3, <1>4, <1>6, <2>1, <2>2, <2>3 DEF Has, Nil
<1>10. Right(ms)
  BY <1>5, <1>9 DEF Right
<1>11. header.offsets \in Seq(Nat) /\ Slice(header) = ms
  BY <1>1, <1>5, NewMappingKeeps
<1>12. TypeOK
  BY <1>1, <1>5, <1>6, <1>8, <1>11, EmptySeq DEF TypeOK
<1> QED
  BY <1>1, <1>7, <1>10, <1>11, <1>12 DEF MappingsInv, HeaderInv, DiffInv, MergeInv

LEMMA NextKeeps ==
  ASSUME MappingsInv, [Next]_vars
  PROVE  MappingsInv'
<1>1. CASE Snapshot
  BY <1>1, SnapshotKeeps
<1>2. CASE ToDiffHeader
  BY <1>2, BaseBeforeDiffStep, DiffBeforeBaseStep, BaseInsideDiffStep, DiffInsideBaseStep,
     BaseAfterDiffStep, DiffAfterBaseStep, DiffMappedStep, HeaderMergedStep
     DEF ToDiffHeader
<1>3. CASE UNCHANGED vars
  <2>1. PICK bs, ds, ms : bs = base /\ ds = diff /\ ms = mappings
    OBVIOUS
  <2>2. UNCHANGED Unmerged /\ base' = bs /\ diff' = ds /\ mappings' = ms
    BY <1>3, <2>1 DEF vars, Unmerged
  <2>3. /\ bs \in Seq(Entry) /\ ds \in Seq(Entry) /\ ms \in Seq(Entry)
        /\ pc = "diff" => Disjoint(bs, ds, ms)
        /\ pc = "header" => Tiles(ms) /\ Remain(bs, ds, Cut(ms))
    BY <2>1 DEF MappingsInv, TypeOK, DiffInv, MergeInv
  <2> QED
    BY <2>2, <2>3, MergeFrame
<1> QED
  BY <1>1, <1>2, <1>3 DEF Next

\* MappingsInv: the three lists of the merge (MergeMappings, mapping.go) stay ordered and
\* apart, what is merged tiles the device up to where it ends, and every entry leads to
\* what its pages held at the snapshot, unless a later entry of the diff replaces it.
THEOREM MappingsInvariance == Spec => []MappingsInv
<1>1. Init => MappingsInv
  BY InitKeeps
<1>2. MappingsInv /\ [Next]_vars => MappingsInv'
  BY NextKeeps
<1> QED
  BY <1>1, <1>2, PTL DEF Spec

\* Type correctness of the header, the diff files and the lists of the merge, none of
\* whose entries is ever empty.
THEOREM TypeCorrect == Spec => []TypeOK
<1>1. MappingsInv => TypeOK
  BY DEF MappingsInv
<1> QED
  BY <1>1, MappingsInvariance, PTL

\* Every read through the header of the last snapshot (GetShiftedMapping, planRead),
\* whatever its offset and length, returns what the guest had there at the snapshot:
\* for every device, block size and number of snapshots, deduplicated or not.
THEOREM ReadsAreRight == Spec => []ReadsWhatWasWritten
<1>1. MappingsInv => ReadsWhatWasWritten
  <2> SUFFICES ASSUME MappingsInv, pc = "idle", NEW p \in Pages, NEW n \in 1..(Size - p)
               PROVE  ReadAt(header, p, n)
                        = SubSeq([k \in 1..Size |-> memory[k - 1]], p + 1, p + n)
    BY DEF ReadsWhatWasWritten
  <2> DEFINE image == [k \in 1..Size |-> memory[k - 1]]
             d == Device(p, p + n)
             s == SubSeq(image, p + 1, p + n)
  <2>1. ReadAt(header, p, n) = d
    BY ReadsTheDevice DEF MappingsInv, TypeOK, HeaderInv
  <2>2. Size \in Nat /\ p \in Nat /\ n \in Nat \ {0} /\ p + n <= Size
    BY MappingsAssumption DEF Pages
  <2>3. image \in Seq(Content) /\ Len(image) = Size
    <3>1. \A k \in 1..Size : memory[k - 1] \in Content
      <4>1. \A k \in 1..Size : k - 1 \in Pages
        BY <2>2 DEF Pages
      <4>2. memory \in [Pages -> Content]
        BY DEF MappingsInv, TypeOK
      <4> QED
        BY <4>1, <4>2
    <3> QED
      BY <2>2, <3>1
  <2>4. \A k \in 1..Size : image[k] = memory[k - 1]
    OBVIOUS
  <2> HIDE DEF image
  <2>5. DOMAIN s = 1..n /\ s = [k \in 1..n |-> image[p + k]]
    BY <2>2, <2>3
  <2>6. d = [k \in 1..n |-> memory[p + k - 1]]
    <3>1. (p + n) - p = n
      BY <2>2
    <3> QED
      BY <3>1 DEF Device
  <2>7. \A k \in 1..n : p + k \in 1..Size /\ image[p + k] = memory[p + k - 1]
    BY <2>2, <2>4
  <2> QED
    BY <2>1, <2>5, <2>6, <2>7 DEF image
<1> QED
  BY <1>1, MappingsInvariance, PTL

\* No snapshot fails for want of a valid header (ToDiffHeader returns no error of
\* Validate), whatever the guest wrote and whatever the deduplication shared.
THEOREM NoSnapshotFails == Spec => [](pc # "failed")
<1>1. MappingsInv => pc # "failed"
  BY DEF MappingsInv, TypeOK
<1> QED
  BY <1>1, MappingsInvariance, PTL

\* The cases of MergeMappings leave none out: its loop never comes to the "invalid case
\* during merge mappings" (mapping.go:198), in which neither index would advance.
THEOREM NoCaseLeftOut ==
  Spec => [](Merging => LET b == Head(base) d == Head(diff) IN
                        \/ Before(b, d) \/ Before(d, b)
                        \/ Inside(b, d) \/ Inside(d, b)
                        \/ Overlap(b, d) /\ (b.off > d.off \/ d.off > b.off))
<1>1. MappingsInv => (Merging => LET b == Head(base) d == Head(diff) IN
                        \/ Before(b, d) \/ Before(d, b)
                        \/ Inside(b, d) \/ Inside(d, b)
                        \/ Overlap(b, d) /\ (b.off > d.off \/ d.off > b.off))
  BY MergingFacts, CasesComplete
<1> QED
  BY <1>1, MappingsInvariance, PTL
=============================================================================
