---------------------------- MODULE CodeCache_proofs ----------------------------
(***************************************************************************)
(* Proofs about the page tables and the cache of decoded code, for any     *)
(* pages, frames, TLB entries and contents of memory.                      *)
(***************************************************************************)
EXTENDS CodeCache, TLAPS

-----------------------------------------------------------------------------
(* Pages and blocks                                                        *)

BlockType == [ops : Words \cup {NOTCOMPILED, NOTCOMPILED2, None},
              tail : Words \cup {None}, hash : Words \cup {None}]
CacheType == [invalid : SUBSET Pages, blocks : [Pages -> BlockType]]

\* The two windows of a frame are pages of its own.
LEMMA WindowPages ==
    /\ \A f \in Frames : /\ kseg0(f) \in Direct /\ kseg1(f) \in Direct
                         /\ kseg0(f) # kseg1(f)
                         /\ kseg0(f)[2] = f /\ kseg1(f)[2] = f
    /\ \A f, g \in Frames : /\ kseg0(f) = kseg0(g) => f = g
                            /\ kseg1(f) = kseg1(g) => f = g
                            /\ kseg0(f) # kseg1(g)
    /\ \A p \in Direct : p[2] \in Frames /\ p \in {kseg0(p[2]), kseg1(p[2])}
    /\ Direct \subseteq Pages /\ Mapped \subseteq Pages
    /\ \A p \in Mapped : p \notin Direct
    /\ \A p \in Pages : p \in Mapped \/ p \in Direct
    /\ None \notin Pages
<1>1. \A f \in Frames : /\ kseg0(f) \in Direct /\ kseg1(f) \in Direct
                        /\ kseg0(f) # kseg1(f)
                        /\ kseg0(f)[2] = f /\ kseg1(f)[2] = f
  BY DEF kseg0, kseg1, Direct
<1>2. \A f, g \in Frames : /\ kseg0(f) = kseg0(g) => f = g
                           /\ kseg1(f) = kseg1(g) => f = g
                           /\ kseg0(f) # kseg1(g)
  BY DEF kseg0, kseg1
<1>3. \A p \in Direct : p[2] \in Frames /\ p \in {kseg0(p[2]), kseg1(p[2])}
  BY DEF kseg0, kseg1, Direct
<1>4. /\ Direct \subseteq Pages /\ Mapped \subseteq Pages
      /\ \A p \in Mapped : p \notin Direct
      /\ \A p \in Pages : p \in Mapped \/ p \in Direct
      /\ None \notin Pages
  BY CacheAssumption DEF Pages
<1> QED
  BY <1>1, <1>2, <1>3, <1>4

\* check_memory marks a page whose instruction has been decoded or marked.
LEMMA CheckMemoryEffect ==
    ASSUME NEW c \in CacheType, NEW p \in Pages
    PROVE  /\ check_memory(c, p) \in CacheType
           /\ check_memory(c, p).blocks = c.blocks
           /\ check_memory(c, p).invalid =
                IF c.blocks[p].ops # NOTCOMPILED THEN c.invalid \cup {p} ELSE c.invalid
  BY DEF check_memory, CacheType

\* agree sets both flags when one of them is set.
LEMMA AgreeEffect ==
    ASSUME NEW c \in CacheType, NEW p \in Pages, NEW r \in Pages
    PROVE  /\ agree(c, p, r) \in CacheType
           /\ agree(c, p, r).blocks = c.blocks
           /\ agree(c, p, r).invalid = IF p \in c.invalid \/ r \in c.invalid
                                       THEN c.invalid \cup {p, r} ELSE c.invalid
  BY DEF agree, CacheType

\* empty clears a block and its flag; the hash stays.
LEMMA EmptyEffect ==
    ASSUME NEW c \in CacheType, NEW p \in Pages
    PROVE  /\ empty(c, p) \in CacheType
           /\ empty(c, p).invalid = c.invalid \ {p}
           /\ empty(c, p).blocks[p].ops = NOTCOMPILED
           /\ \A q \in Pages : q # p => empty(c, p).blocks[q] = c.blocks[q]
<1> DEFINE b == [ops |-> NOTCOMPILED, tail |-> c.blocks[p].tail, hash |-> c.blocks[p].hash]
<1>1. /\ c.invalid \in SUBSET Pages
      /\ c.blocks \in [Pages -> BlockType]
      /\ c = [invalid |-> c.invalid, blocks |-> c.blocks]
  BY DEF CacheType
<1>2. b \in BlockType
  BY <1>1 DEF BlockType
<1>3. empty(c, p) = [invalid |-> c.invalid \ {p}, blocks |-> [c.blocks EXCEPT ![p] = b]]
  <2>1. [c.blocks[p] EXCEPT !.ops = NOTCOMPILED] = b
    BY <1>1 DEF BlockType
  <2> QED
    BY <1>1, <2>1 DEF empty
<1> HIDE DEF b
<1>4. [c.blocks EXCEPT ![p] = b] \in [Pages -> BlockType]
  BY <1>1, <1>2
<1>5. empty(c, p) \in CacheType
  BY <1>1, <1>3, <1>4 DEF CacheType
<1> QED
  BY <1>1, <1>3, <1>5 DEF b

\* The block of a page holds what memory holds: in the frame, and in the next one
\* when the code of a window runs on into it.
Current(b, p, f) ==
    /\ b.ops = rdram[f]
    /\ p \in Direct /\ rdram[f] \in Through /\ Following[f] # None =>
           b.tail = rdram[Following[f]]

\* It has just been decoded.
Fresh(b, p, f) == Current(b, p, f) /\ b.hash = None

LEMMA DecodedFresh ==
    ASSUME NEW b \in BlockType, NEW p \in Pages, NEW f \in Frames, rdram \in [Frames -> Words]
    PROVE  decoded(b, p, f) \in BlockType /\ Fresh(decoded(b, p, f), p, f)
<1> DEFINE next == IF p \in Direct /\ rdram[f] \in Through THEN Following[f] ELSE None
           t == IF next = None THEN b.tail ELSE rdram[next]
<1>1. decoded(b, p, f) = [ops |-> rdram[f], tail |-> t, hash |-> None]
  BY DEF decoded
<1>2. next \in Frames \cup {None}
  BY CacheAssumption
<1> HIDE DEF next
<1>3. t \in Words \cup {None}
  BY <1>2 DEF BlockType
<1>4. p \in Direct /\ rdram[f] \in Through /\ Following[f] # None => t = rdram[Following[f]]
  BY DEF next
<1> HIDE DEF t
<1> QED
  BY <1>1, <1>3, <1>4 DEF BlockType, Fresh, Current

\* recompile_block decodes the word that the frame holds, without a hash, and
\* leaves a mark in the block of the frame behind a mapped page.
LEMMA RecompileEffect ==
    ASSUME NEW c \in CacheType, NEW p \in Pages, NEW f \in Frames,
           rdram \in [Frames -> Words], p \in Mapped \/ p \in {kseg0(f), kseg1(f)}
    PROVE  /\ recompile_block(c, p, f) \in CacheType
           /\ recompile_block(c, p, f).invalid = c.invalid
           /\ Fresh(recompile_block(c, p, f).blocks[p], p, f)
           /\ p \in Mapped => recompile_block(c, p, f).blocks[kseg0(f)].ops # NOTCOMPILED
           /\ \A q \in Pages : q # p /\ q # kseg0(f) =>
                recompile_block(c, p, f).blocks[q] = c.blocks[q]
<1> DEFINE b == decoded(c.blocks[p], p, f)
           own == [c EXCEPT !.blocks[p] = b]
           k == kseg0(f)
<1>1. /\ c.invalid \in SUBSET Pages
      /\ c.blocks \in [Pages -> BlockType]
      /\ c = [invalid |-> c.invalid, blocks |-> c.blocks]
  BY DEF CacheType
<1>2. b \in BlockType /\ Fresh(b, p, f)
  BY <1>1, DecodedFresh
<1>3. k \in Pages
  BY WindowPages
<1>4. recompile_block(c, p, f) =
        IF p \in Mapped /\ own.blocks[k].ops = NOTCOMPILED
        THEN [own EXCEPT !.blocks[k].ops = NOTCOMPILED2] ELSE own
  BY DEF recompile_block
<1>5. own = [invalid |-> c.invalid, blocks |-> [c.blocks EXCEPT ![p] = b]]
  BY <1>1
<1> HIDE DEF b, k, own
<1>6. own.blocks \in [Pages -> BlockType] /\ own.blocks = [c.blocks EXCEPT ![p] = b]
  BY <1>1, <1>2, <1>5
<1>7. CASE p \in Mapped /\ own.blocks[k].ops = NOTCOMPILED
  <2> DEFINE m == [ops |-> NOTCOMPILED2, tail |-> own.blocks[k].tail,
                   hash |-> own.blocks[k].hash]
  <2>1. own.blocks[k] \in BlockType /\ [own.blocks[k] EXCEPT !.ops = NOTCOMPILED2] = m
    BY <1>3, <1>6 DEF BlockType
  <2>2. m \in BlockType
    BY <2>1 DEF BlockType
  <2>3. recompile_block(c, p, f) =
          [invalid |-> c.invalid, blocks |-> [own.blocks EXCEPT ![k] = m]]
    BY <1>4, <1>5, <1>7, <2>1
  <2>4. p # k
    BY <1>7, WindowPages DEF k
  <2> HIDE DEF m
  <2>5. [own.blocks EXCEPT ![k] = m] \in [Pages -> BlockType]
    BY <1>6, <2>2
  <2>6. recompile_block(c, p, f) \in CacheType
    BY <1>1, <2>3, <2>5 DEF CacheType
  <2>7. m.ops # NOTCOMPILED
    BY DEF m, NOTCOMPILED, NOTCOMPILED2
  <2> QED
    BY <1>1, <1>2, <1>3, <1>6, <2>3, <2>4, <2>6, <2>7 DEF k
<1>8. CASE ~(p \in Mapped /\ own.blocks[k].ops = NOTCOMPILED)
  <2>1. recompile_block(c, p, f) = own
    BY <1>4, <1>8
  <2>2. own \in CacheType
    BY <1>1, <1>5, <1>6 DEF CacheType
  <2> QED
    BY <1>1, <1>2, <1>5, <1>6, <1>8, <2>1, <2>2 DEF k
<1> QED
  BY <1>7, <1>8

\* init_block empties the page, and each of the two windows whose flag is set.
LEMMA InitBlockEffect ==
    ASSUME NEW c \in CacheType, NEW f \in Frames, NEW p \in Pages,
           p \in Mapped \/ p \in {kseg0(f), kseg1(f)}
    PROVE  /\ init_block(c, p, f) \in CacheType
           /\ init_block(c, p, f).blocks[p].ops = NOTCOMPILED
           /\ \A q \in Pages : q \notin {p, kseg0(f), kseg1(f)} =>
                /\ init_block(c, p, f).blocks[q] = c.blocks[q]
                /\ q \in init_block(c, p, f).invalid <=> q \in c.invalid
<1> DEFINE k == kseg0(f)
           u == kseg1(f)
<1>1. k \in Pages /\ u \in Pages /\ k # u /\ (p \in Mapped => p # k /\ p # u)
  BY WindowPages
<1>2. ASSUME NEW d \in CacheType, NEW x \in {k, u}, NEW y \in {k, u}
      PROVE  /\ init_direct(d, x, y) \in CacheType
             /\ init_direct(d, x, y).blocks[x].ops = NOTCOMPILED
             /\ \A q \in Pages : q \notin {k, u} =>
                  /\ init_direct(d, x, y).blocks[q] = d.blocks[q]
                  /\ q \in init_direct(d, x, y).invalid <=> q \in d.invalid
  <2>0. x \in Pages /\ y \in Pages
    BY <1>1
  <2> DEFINE own == empty(d, x)
  <2>1. /\ own \in CacheType
        /\ own.invalid = d.invalid \ {x}
        /\ own.blocks[x].ops = NOTCOMPILED
        /\ \A q \in Pages : q # x => own.blocks[q] = d.blocks[q]
    BY <2>0, EmptyEffect
  <2>2. init_direct(d, x, y) = IF y \in own.invalid THEN empty(own, y) ELSE own
    BY DEF init_direct
  <2> HIDE DEF own
  <2>3. /\ empty(own, y) \in CacheType
        /\ empty(own, y).invalid = own.invalid \ {y}
        /\ empty(own, y).blocks[y].ops = NOTCOMPILED
        /\ \A q \in Pages : q # y => empty(own, y).blocks[q] = own.blocks[q]
    BY <2>0, <2>1, EmptyEffect
  <2>4. CASE y \in own.invalid
    BY <2>0, <2>1, <2>2, <2>3, <2>4
  <2>5. CASE y \notin own.invalid
    BY <2>0, <2>1, <2>2, <2>5
  <2> QED
    BY <2>4, <2>5
<1>3. CASE p = k
  <2>1. init_block(c, p, f) = init_direct(c, k, u)
    BY <1>3 DEF init_block
  <2> HIDE DEF k, u
  <2> QED
    BY <1>2, <1>3, <2>1 DEF k, u
<1>4. CASE p = u
  <2>1. init_block(c, p, f) = init_direct(c, u, k)
    BY <1>1, <1>4 DEF init_block
  <2> QED
    BY <1>2, <1>4, <2>1
<1>5. CASE p \in Mapped
  <2>1. init_block(c, p, f) = init_direct(empty(c, p), k, u)
    BY <1>1, <1>5 DEF init_block
  <2>2. /\ empty(c, p) \in CacheType
        /\ empty(c, p).invalid = c.invalid \ {p}
        /\ empty(c, p).blocks[p].ops = NOTCOMPILED
        /\ \A q \in Pages : q # p => empty(c, p).blocks[q] = c.blocks[q]
    BY EmptyEffect
  <2> DEFINE d == init_direct(empty(c, p), k, u)
  <2>3. /\ d \in CacheType
        /\ \A q \in Pages : q \notin {k, u} =>
             /\ d.blocks[q] = empty(c, p).blocks[q]
             /\ q \in d.invalid <=> q \in empty(c, p).invalid
    BY <1>2, <2>2
  <2> HIDE DEF d
  <2> QED
    BY <1>1, <1>5, <2>1, <2>2, <2>3 DEF d
<1> QED
  BY <1>3, <1>4, <1>5

\* What a jump to a page leaves: either the page is decoded from what memory
\* holds now, or its flag and those of the windows were clear and its block,
\* decoded earlier, is used as it is.
LEMMA RunsEffect ==
    ASSUME NEW c \in CacheType, NEW f \in Frames, NEW p \in Pages,
           rdram \in [Frames -> Words], p \in Mapped \/ p \in {kseg0(f), kseg1(f)}
    PROVE  /\ runs(c, p, f) \in CacheType
           /\ \A q \in Pages : q \notin {p, kseg0(f), kseg1(f)} =>
                /\ runs(c, p, f).blocks[q] = c.blocks[q]
                /\ q \in runs(c, p, f).invalid <=> q \in c.invalid
           /\ \/ /\ Fresh(runs(c, p, f).blocks[p], p, f)
                 /\ p \in Mapped => runs(c, p, f).blocks[kseg0(f)].ops # NOTCOMPILED
              \/ /\ runs(c, p, f) = c
                 /\ p \notin c.invalid /\ kseg0(f) \notin c.invalid /\ kseg1(f) \notin c.invalid
<1> DEFINE k == kseg0(f)
           u == kseg1(f)
           windows == agree(c, k, u)
           found == update_invalid_addr(c, p, f)
           ready == IF p \in found.invalid THEN init_block(found, p, f) ELSE found
<1>1. /\ k \in Pages /\ u \in Pages /\ k # u /\ (p \in Mapped => p # k /\ p # u)
      /\ p \in {k, u} => p \in Direct
      /\ p \in Mapped => p \notin Direct
  BY WindowPages
<1>2. /\ windows \in CacheType
      /\ windows.blocks = c.blocks
      /\ windows.invalid = IF k \in c.invalid \/ u \in c.invalid
                           THEN c.invalid \cup {k, u} ELSE c.invalid
  BY <1>1, AgreeEffect
<1>3. found = IF p \in Direct THEN windows ELSE agree(windows, k, p)
  BY DEF update_invalid_addr
<1>4. /\ found \in CacheType
      /\ found.blocks = c.blocks
      /\ \A q \in Pages : q \notin {p, k, u} => (q \in found.invalid <=> q \in c.invalid)
      /\ p \notin found.invalid =>
           found = c /\ p \notin c.invalid /\ k \notin c.invalid /\ u \notin c.invalid
  <2> HIDE DEF k, u, windows, found
  <2>1. CASE p \in Direct
    <3>1. p \in {k, u}
      BY <1>1, <2>1 DEF k, u
    <3>2. p \notin windows.invalid => windows.invalid = c.invalid
      BY <1>2, <3>1
    <3>3. windows.invalid = c.invalid => windows = c
      BY <1>2 DEF CacheType
    <3> QED
      BY <1>1, <1>2, <1>3, <2>1, <3>1, <3>2, <3>3
  <2>2. CASE p \notin Direct
    <3>1. /\ agree(windows, k, p) \in CacheType
          /\ agree(windows, k, p).blocks = windows.blocks
          /\ agree(windows, k, p).invalid =
               IF k \in windows.invalid \/ p \in windows.invalid
               THEN windows.invalid \cup {k, p} ELSE windows.invalid
      BY <1>1, <1>2, AgreeEffect
    <3>2. found = agree(windows, k, p)
      BY <1>3, <2>2
    <3>3. ASSUME p \notin found.invalid
          PROVE  found.invalid = c.invalid /\ k \notin c.invalid /\ u \notin c.invalid
      BY <1>2, <3>1, <3>2, <3>3
    <3>4. found.invalid = c.invalid => found = c
      BY <1>2, <3>1, <3>2 DEF CacheType
    <3>5. \A q \in Pages : q \notin {p, k, u} => (q \in found.invalid <=> q \in c.invalid)
      BY <1>2, <3>1, <3>2
    <3> QED
      BY <1>2, <3>1, <3>2, <3>3, <3>4, <3>5
  <2> QED
    BY <2>1, <2>2
<1> HIDE DEF windows, found
<1>5. runs(c, p, f) = IF ready.blocks[p].ops \in {NOTCOMPILED, NOTCOMPILED2}
                      THEN recompile_block(ready, p, f) ELSE ready
  BY DEF runs, found
<1>6. CASE p \in found.invalid
  <2>1. /\ ready \in CacheType
        /\ ready.blocks[p].ops = NOTCOMPILED
        /\ \A q \in Pages : q \notin {p, k, u} =>
             /\ ready.blocks[q] = found.blocks[q]
             /\ q \in ready.invalid <=> q \in found.invalid
    BY <1>4, <1>6, InitBlockEffect
  <2> HIDE DEF ready
  <2>2. /\ recompile_block(ready, p, f) \in CacheType
        /\ recompile_block(ready, p, f).invalid = ready.invalid
        /\ Fresh(recompile_block(ready, p, f).blocks[p], p, f)
        /\ p \in Mapped => recompile_block(ready, p, f).blocks[k].ops # NOTCOMPILED
        /\ \A q \in Pages : q # p /\ q # k =>
             recompile_block(ready, p, f).blocks[q] = ready.blocks[q]
    BY <2>1, RecompileEffect
  <2>3. runs(c, p, f) = recompile_block(ready, p, f)
    BY <1>5, <2>1
  <2> QED
    BY <1>1, <1>4, <2>1, <2>2, <2>3
<1>7. CASE p \notin found.invalid
  <2>1. ready = c
    BY <1>4, <1>7
  <2> HIDE DEF ready
  <2>2. /\ recompile_block(c, p, f) \in CacheType
        /\ recompile_block(c, p, f).invalid = c.invalid
        /\ Fresh(recompile_block(c, p, f).blocks[p], p, f)
        /\ p \in Mapped => recompile_block(c, p, f).blocks[k].ops # NOTCOMPILED
        /\ \A q \in Pages : q # p /\ q # k =>
             recompile_block(c, p, f).blocks[q] = c.blocks[q]
    BY RecompileEffect
  <2>3. CASE c.blocks[p].ops \in {NOTCOMPILED, NOTCOMPILED2}
    <3>1. runs(c, p, f) = recompile_block(c, p, f)
      BY <1>5, <2>1, <2>3
    <3> QED
      BY <2>2, <3>1
  <2>4. CASE c.blocks[p].ops \notin {NOTCOMPILED, NOTCOMPILED2}
    <3>1. runs(c, p, f) = c
      BY <1>5, <2>1, <2>4
    <3> QED
      BY <1>4, <1>7, <3>1
  <2> QED
    BY <2>3, <2>4
<1> QED
  BY <1>6, <1>7

-----------------------------------------------------------------------------
(* The page tables                                                         *)

LutType == [Mapped -> Frames \cup {None}]
TableType == [r : LutType, w : LutType, c : CacheType]
NewEntryType == [vpn2 : Pairs, even : Lo, odd : Lo]

\* A half of an entry that is valid is about a page.
Covers(e, x) == e.vpn2 = x[1] /\ half(e, x[2]).v

\* A mapped page is a pair and a half.
LEMMA MappedPages ==
    /\ \A x \in Mapped : x = <<x[1], x[2]>> /\ x[1] \in Pairs /\ x[2] \in Halves
    /\ \A q \in Pairs, h \in Halves : <<q, h>> \in Mapped /\ <<q, h>>[1] = q /\ <<q, h>>[2] = h
    /\ "even" \in Halves /\ "odd" \in Halves
    /\ \A h \in Halves : h = "even" \/ h = "odd"
  BY DEF Mapped, Halves

\* The halves of an entry have their types, and one that is valid belongs to an
\* entry with a pair.
LEMMA EntryHalves ==
    ASSUME NEW e \in EntryType, NEW h \in Halves
    PROVE  /\ half(e, h) \in Lo
           /\ half(e, h).v => e.vpn2 \in Pairs
           /\ e.vpn2 \in Pairs \cup {None}
<1>1. CASE e \in NewEntryType
  BY <1>1 DEF NewEntryType, half
<1>2. CASE e = Unmapped
  BY <1>2, CacheAssumption DEF Unmapped, half, Lo
<1> QED
  BY <1>1, <1>2 DEF EntryType, NewEntryType

\* One half of an entry is taken out of the tables.
LEMMA UnmapEffect ==
    ASSUME NEW t \in TableType, NEW e \in EntryType, NEW h \in Halves,
           rdram \in [Frames -> Words]
    PROVE  LET u == unmap(t, e, h)
               Hit(x) == x[2] = h /\ Covers(e, x)
           IN  /\ u \in TableType
               /\ \A x \in Mapped :
                    /\ u.r[x] = IF Hit(x) THEN None ELSE t.r[x]
                    /\ u.w[x] = IF Hit(x) /\ half(e, h).d THEN None ELSE t.w[x]
                    /\ x \in u.c.invalid <=> Hit(x) \/ x \in t.c.invalid
                    /\ u.c.blocks[x].ops = t.c.blocks[x].ops
                    /\ u.c.blocks[x].hash =
                         IF ~Hit(x) THEN t.c.blocks[x].hash
                         ELSE IF Stale(t.c, x, t.r[x]) THEN None ELSE rdram[t.r[x]]
               /\ \A x \in Direct : /\ x \in u.c.invalid <=> x \in t.c.invalid
                                    /\ u.c.blocks[x] = t.c.blocks[x]
<1> DEFINE u == unmap(t, e, h)
           Hit(x) == x[2] = h /\ Covers(e, x)
           p == <<e.vpn2, h>>
           keep == IF Stale(t.c, p, t.r[p]) THEN None ELSE rdram[t.r[p]]
<1>t. /\ t.r \in LutType /\ t.w \in LutType /\ t.c \in CacheType
      /\ t.c.invalid \in SUBSET Pages /\ t.c.blocks \in [Pages -> BlockType]
  BY DEF TableType, CacheType
<1>1. CASE ~half(e, h).v
  <2>1. u = t
    BY <1>1 DEF unmap
  <2>2. \A x : ~Hit(x)
    BY <1>1 DEF Covers
  <2> QED
    BY <2>1, <2>2
<1>2. CASE half(e, h).v
  <2>1. p \in Mapped /\ p \in Pages /\ p \notin Direct
    BY <1>2, EntryHalves, MappedPages, WindowPages
  <2>2. \A x \in Mapped : Hit(x) <=> x = p
    BY <1>2, MappedPages DEF Covers
  <2>3. keep \in Words \cup {None}
    <3>1. CASE Stale(t.c, p, t.r[p])
      BY <3>1
    <3>2. CASE ~Stale(t.c, p, t.r[p])
      <4>1. t.r[p] \in Frames
        BY <1>t, <2>1, <3>2 DEF Stale, LutType
      <4> QED
        BY <3>2, <4>1
    <3> QED
      BY <3>1, <3>2
  <2> DEFINE b == [ops |-> t.c.blocks[p].ops, tail |-> t.c.blocks[p].tail, hash |-> keep]
  <2>4. [t.c.blocks[p] EXCEPT !.hash = keep] = b /\ b \in BlockType
    <3>1. \A d \in BlockType, v \in Words \cup {None} :
            /\ [d EXCEPT !.hash = v] = [ops |-> d.ops, tail |-> d.tail, hash |-> v]
            /\ [ops |-> d.ops, tail |-> d.tail, hash |-> v] \in BlockType
      BY DEF BlockType
    <3>2. t.c.blocks[p] \in BlockType
      BY <1>t, <2>1
    <3> HIDE DEF keep
    <3> QED
      BY <2>3, <3>1, <3>2
  <2>5. u = [r |-> [t.r EXCEPT ![p] = None],
             w |-> IF half(e, h).d THEN [t.w EXCEPT ![p] = None] ELSE t.w,
             c |-> [invalid |-> t.c.invalid \cup {p},
                    blocks  |-> [t.c.blocks EXCEPT ![p] = b]]]
    BY <1>2, <2>4 DEF unmap
  <2> HIDE DEF u, b, keep
  <2>6. [t.c.blocks EXCEPT ![p] = b] \in [Pages -> BlockType]
    BY <1>t, <2>4
  <2>7. u.c \in CacheType
    BY <1>t, <2>1, <2>5, <2>6 DEF CacheType
  <2>8. u.r \in LutType /\ u.w \in LutType
    BY <1>t, <2>1, <2>5 DEF LutType
  <2>9. u \in TableType
    BY <2>5, <2>7, <2>8 DEF TableType
  <2>10. ASSUME NEW x \in Mapped
         PROVE  /\ u.r[x] = IF Hit(x) THEN None ELSE t.r[x]
                /\ u.w[x] = IF Hit(x) /\ half(e, h).d THEN None ELSE t.w[x]
                /\ x \in u.c.invalid <=> Hit(x) \/ x \in t.c.invalid
    BY <1>t, <2>1, <2>2, <2>5 DEF LutType
  <2>11. ASSUME NEW x \in Mapped
         PROVE  /\ u.c.blocks[x].ops = t.c.blocks[x].ops
                /\ u.c.blocks[x].hash =
                     IF ~Hit(x) THEN t.c.blocks[x].hash
                     ELSE IF Stale(t.c, x, t.r[x]) THEN None ELSE rdram[t.r[x]]
    <3>1. x \in Pages
      BY WindowPages
    <3>2. u.c.blocks[x] = IF x = p THEN b ELSE t.c.blocks[x]
      BY <1>t, <2>1, <2>5, <3>1
    <3>3. CASE x = p
      BY <2>2, <3>2, <3>3 DEF b, keep
    <3>4. CASE x # p
      BY <2>2, <3>2, <3>4
    <3> QED
      BY <3>3, <3>4
  <2>12. \A x \in Direct : /\ x \in u.c.invalid <=> x \in t.c.invalid
                           /\ u.c.blocks[x] = t.c.blocks[x]
    BY <1>t, <2>1, <2>5, WindowPages
  <2> QED
    BY <2>9, <2>10, <2>11, <2>12 DEF u
<1> QED
  BY <1>1, <1>2

\* One half of an entry is put in the tables.
LEMMA MapEffect ==
    ASSUME NEW t \in TableType, NEW e \in NewEntryType, NEW h \in Halves,
           rdram \in [Frames -> Words]
    PROVE  LET m == map(t, e, h)
               Hit(x) == x[2] = h /\ Covers(e, x)
               f == half(e, h).pfn
           IN  /\ m \in TableType
               /\ m.c.blocks = t.c.blocks
               /\ \A x \in Mapped :
                    /\ m.r[x] = IF Hit(x) /\ f # Outside THEN f ELSE t.r[x]
                    /\ m.w[x] = IF Hit(x) /\ half(e, h).d /\ f # Outside THEN f ELSE t.w[x]
                    /\ x \in m.c.invalid => x \in t.c.invalid
                    /\ x \in t.c.invalid /\ x \notin m.c.invalid =>
                         /\ Hit(x)
                         /\ t.c.blocks[x].hash = rdram[IF m.r[x] = None THEN Frame0 ELSE m.r[x]]
               /\ \A x \in Direct : x \in m.c.invalid <=> x \in t.c.invalid
<1> DEFINE m == map(t, e, h)
           Hit(x) == x[2] = h /\ Covers(e, x)
           p == <<e.vpn2, h>>
           f == half(e, h).pfn
           r == IF f = Outside THEN t.r ELSE [t.r EXCEPT ![p] = f]
           w == IF f = Outside \/ ~half(e, h).d THEN t.w ELSE [t.w EXCEPT ![p] = f]
           word == rdram[IF r[p] = None THEN Frame0 ELSE r[p]]
           inv == IF t.c.blocks[p].hash = word THEN t.c.invalid \ {p} ELSE t.c.invalid
<1>t. /\ t.r \in LutType /\ t.w \in LutType /\ t.c \in CacheType
      /\ t.c.invalid \in SUBSET Pages /\ t.c.blocks \in [Pages -> BlockType]
      /\ t.c = [invalid |-> t.c.invalid, blocks |-> t.c.blocks]
  BY DEF TableType, CacheType
<1>e. e.vpn2 \in Pairs /\ half(e, h) \in Lo /\ f \in Frames \cup {Outside}
  BY DEF NewEntryType, half, Lo
<1>1. CASE ~half(e, h).v
  <2>1. m = t
    BY <1>1 DEF map
  <2>2. \A x : ~Hit(x)
    BY <1>1 DEF Covers
  <2> QED
    BY <2>1, <2>2
<1>2. CASE half(e, h).v
  <2>1. p \in Mapped /\ p \in Pages /\ p \notin Direct
    BY <1>e, MappedPages, WindowPages
  <2>2. \A x \in Mapped : Hit(x) <=> x = p
    BY <1>2, MappedPages DEF Covers
  <2>3. m = [r |-> r, w |-> w, c |-> [invalid |-> inv, blocks |-> t.c.blocks]]
    <3>1. [t.c EXCEPT !.invalid = inv] = [invalid |-> inv, blocks |-> t.c.blocks]
      <4>1. \A d \in CacheType : \A v : [d EXCEPT !.invalid = v] = [invalid |-> v, blocks |-> d.blocks]
        BY DEF CacheType
      <4> HIDE DEF inv
      <4> QED
        BY <1>t, <4>1
    <3>2. m = [r |-> r, w |-> w, c |-> [t.c EXCEPT !.invalid = inv]]
      BY <1>2 DEF map
    <3> QED
      BY <3>1, <3>2
  <2> HIDE DEF m
  <2>4. r \in LutType /\ w \in LutType
    BY <1>t, <1>e, <2>1 DEF LutType
  <2>5. \A x \in Mapped : /\ r[x] = IF x = p /\ f # Outside THEN f ELSE t.r[x]
                          /\ w[x] = IF x = p /\ half(e, h).d /\ f # Outside THEN f ELSE t.w[x]
    BY <1>t, <2>1 DEF LutType
  <2> HIDE DEF r, w, word
  <2>6. inv \in SUBSET Pages
    BY <1>t
  <2>7. m \in TableType
    BY <1>t, <2>3, <2>4, <2>6 DEF TableType, CacheType
  <2>8. \A x \in Mapped : /\ x \in inv => x \in t.c.invalid
                          /\ x \in t.c.invalid /\ x \notin inv =>
                               x = p /\ t.c.blocks[x].hash = word
    OBVIOUS
  <2>9. \A x \in Direct : x \in inv <=> x \in t.c.invalid
    BY <2>1
  <2> HIDE DEF inv
  <2>10. m.r = r /\ m.w = w /\ m.c.invalid = inv /\ m.c.blocks = t.c.blocks
    BY <2>3
  <2>11. ASSUME NEW x \in Mapped
         PROVE  /\ m.r[x] = IF Hit(x) /\ f # Outside THEN f ELSE t.r[x]
                /\ m.w[x] = IF Hit(x) /\ half(e, h).d /\ f # Outside THEN f ELSE t.w[x]
    BY <2>2, <2>5, <2>10
  <2>12. ASSUME NEW x \in Mapped, x \in t.c.invalid, x \notin m.c.invalid
         PROVE  /\ Hit(x)
                /\ t.c.blocks[x].hash = rdram[IF m.r[x] = None THEN Frame0 ELSE m.r[x]]
    BY <2>2, <2>8, <2>10, <2>12 DEF word
  <2> QED
    BY <2>7, <2>8, <2>9, <2>10, <2>11, <2>12 DEF m
<1> QED
  BY <1>1, <1>2

\* What TLBWI and TLBWR do to the tables and to the cache, page by page.
LEMMA WriteEffect ==
    ASSUME NEW i \in Entries, NEW e \in NewEntryType, write_entry(i, e),
           tlb_e \in [Entries -> EntryType], tlb_LUT_r \in LutType, tlb_LUT_w \in LutType,
           Cache \in CacheType, rdram \in [Frames -> Words]
    PROVE  /\ tlb_LUT_r' \in LutType /\ tlb_LUT_w' \in LutType /\ Cache' \in CacheType
           /\ \A x \in Mapped :
                /\ tlb_LUT_r'[x] = IF Covers(e, x) /\ half(e, x[2]).pfn # Outside
                                   THEN half(e, x[2]).pfn
                                   ELSE IF Covers(tlb_e[i], x) THEN None ELSE tlb_LUT_r[x]
                /\ tlb_LUT_w'[x] = IF Covers(e, x) /\ half(e, x[2]).d /\ half(e, x[2]).pfn # Outside
                                   THEN half(e, x[2]).pfn
                                   ELSE IF Covers(tlb_e[i], x) /\ half(tlb_e[i], x[2]).d
                                        THEN None ELSE tlb_LUT_w[x]
                /\ blocks'[x].ops = blocks[x].ops
                /\ blocks'[x].hash =
                     IF ~Covers(tlb_e[i], x) THEN blocks[x].hash
                     ELSE IF Stale(Cache, x, tlb_LUT_r[x]) THEN None ELSE rdram[tlb_LUT_r[x]]
                /\ x \in invalid_code' => Covers(tlb_e[i], x) \/ x \in invalid_code
                /\ x \notin invalid_code' =>
                     \/ ~Covers(tlb_e[i], x) /\ x \notin invalid_code
                     \/ /\ Covers(e, x)
                        /\ blocks'[x].hash = rdram[IF tlb_LUT_r'[x] = None THEN Frame0
                                                   ELSE tlb_LUT_r'[x]]
           /\ \A x \in Direct : /\ x \in invalid_code' <=> x \in invalid_code
                                /\ blocks'[x] = blocks[x]
<1> DEFINE o == tlb_e[i]
           t0 == [r |-> tlb_LUT_r, w |-> tlb_LUT_w, c |-> Cache]
           t1 == unmap(t0, o, "even")
           t2 == unmap(t1, o, "odd")
           t3 == map(t2, e, "even")
           t4 == map(t3, e, "odd")
<1>h. "even" \in Halves /\ "odd" \in Halves
  BY DEF Halves
<1>o. o \in EntryType
  OBVIOUS
<1>0. /\ t0 \in TableType
      /\ t0.r = tlb_LUT_r /\ t0.w = tlb_LUT_w /\ t0.c = Cache
      /\ Cache.invalid = invalid_code /\ Cache.blocks = blocks
  BY DEF TableType, Cache
<1>w. /\ tlb_LUT_r' = t4.r /\ tlb_LUT_w' = t4.w
      /\ invalid_code' = t4.c.invalid /\ blocks' = t4.c.blocks
  BY DEF write_entry, Becomes
<1> HIDE DEF t0
<1>1. /\ t1 \in TableType
      /\ \A x \in Mapped :
           LET Hit == x[2] = "even" /\ Covers(o, x) IN
           /\ t1.r[x] = IF Hit THEN None ELSE t0.r[x]
           /\ t1.w[x] = IF Hit /\ half(o, "even").d THEN None ELSE t0.w[x]
           /\ x \in t1.c.invalid <=> Hit \/ x \in t0.c.invalid
           /\ t1.c.blocks[x].ops = t0.c.blocks[x].ops
           /\ t1.c.blocks[x].hash =
                IF ~Hit THEN t0.c.blocks[x].hash
                ELSE IF Stale(t0.c, x, t0.r[x]) THEN None ELSE rdram[t0.r[x]]
      /\ \A x \in Direct : /\ x \in t1.c.invalid <=> x \in t0.c.invalid
                           /\ t1.c.blocks[x] = t0.c.blocks[x]
  BY <1>0, <1>h, <1>o, UnmapEffect
<1> HIDE DEF t1
<1>2. /\ t2 \in TableType
      /\ \A x \in Mapped :
           LET Hit == x[2] = "odd" /\ Covers(o, x) IN
           /\ t2.r[x] = IF Hit THEN None ELSE t1.r[x]
           /\ t2.w[x] = IF Hit /\ half(o, "odd").d THEN None ELSE t1.w[x]
           /\ x \in t2.c.invalid <=> Hit \/ x \in t1.c.invalid
           /\ t2.c.blocks[x].ops = t1.c.blocks[x].ops
           /\ t2.c.blocks[x].hash =
                IF ~Hit THEN t1.c.blocks[x].hash
                ELSE IF Stale(t1.c, x, t1.r[x]) THEN None ELSE rdram[t1.r[x]]
      /\ \A x \in Direct : /\ x \in t2.c.invalid <=> x \in t1.c.invalid
                           /\ t2.c.blocks[x] = t1.c.blocks[x]
  BY <1>1, <1>h, <1>o, UnmapEffect
<1> HIDE DEF t2
<1>3. /\ t3 \in TableType
      /\ t3.c.blocks = t2.c.blocks
      /\ \A x \in Mapped :
           LET Hit == x[2] = "even" /\ Covers(e, x)
               f == half(e, "even").pfn IN
           /\ t3.r[x] = IF Hit /\ f # Outside THEN f ELSE t2.r[x]
           /\ t3.w[x] = IF Hit /\ half(e, "even").d /\ f # Outside THEN f ELSE t2.w[x]
           /\ x \in t3.c.invalid => x \in t2.c.invalid
           /\ x \in t2.c.invalid /\ x \notin t3.c.invalid =>
                /\ Hit
                /\ t2.c.blocks[x].hash = rdram[IF t3.r[x] = None THEN Frame0 ELSE t3.r[x]]
      /\ \A x \in Direct : x \in t3.c.invalid <=> x \in t2.c.invalid
  BY <1>2, <1>h, MapEffect
<1> HIDE DEF t3
<1>4. /\ t4 \in TableType
      /\ t4.c.blocks = t3.c.blocks
      /\ \A x \in Mapped :
           LET Hit == x[2] = "odd" /\ Covers(e, x)
               f == half(e, "odd").pfn IN
           /\ t4.r[x] = IF Hit /\ f # Outside THEN f ELSE t3.r[x]
           /\ t4.w[x] = IF Hit /\ half(e, "odd").d /\ f # Outside THEN f ELSE t3.w[x]
           /\ x \in t4.c.invalid => x \in t3.c.invalid
           /\ x \in t3.c.invalid /\ x \notin t4.c.invalid =>
                /\ Hit
                /\ t3.c.blocks[x].hash = rdram[IF t4.r[x] = None THEN Frame0 ELSE t4.r[x]]
      /\ \A x \in Direct : x \in t4.c.invalid <=> x \in t3.c.invalid
  BY <1>3, <1>h, MapEffect
<1> HIDE DEF t4
<1>5. tlb_LUT_r' \in LutType /\ tlb_LUT_w' \in LutType /\ Cache' \in CacheType
  BY <1>w, <1>4 DEF TableType, CacheType, Cache
<1>6. \A x \in Direct : /\ x \in invalid_code' <=> x \in invalid_code
                        /\ blocks'[x] = blocks[x]
  BY <1>w, <1>0, <1>1, <1>2, <1>3, <1>4
<1>7. ASSUME NEW x \in Mapped, x[2] = "odd"
      PROVE  Stale(t1.c, x, t1.r[x]) <=> Stale(t0.c, x, t0.r[x])
  <2>1. t1.r[x] = t0.r[x] /\ (x \in t1.c.invalid <=> x \in t0.c.invalid)
    BY <1>1, <1>7
  <2>2. t0.r[x] \in Frames \cup {None}
    BY <1>0 DEF LutType
  <2>3. CASE t0.r[x] = None
    BY <2>1, <2>3 DEF Stale
  <2>4. CASE t0.r[x] \in Frames
    <3>1. kseg0(t0.r[x]) \in Direct /\ kseg1(t0.r[x]) \in Direct
      BY <2>4, WindowPages
    <3> QED
      BY <1>1, <2>1, <3>1 DEF Stale
  <2> QED
    BY <2>2, <2>3, <2>4
<1>8. ASSUME NEW x \in Mapped
      PROVE  /\ tlb_LUT_r'[x] = IF Covers(e, x) /\ half(e, x[2]).pfn # Outside
                                THEN half(e, x[2]).pfn
                                ELSE IF Covers(o, x) THEN None ELSE tlb_LUT_r[x]
             /\ tlb_LUT_w'[x] = IF Covers(e, x) /\ half(e, x[2]).d /\ half(e, x[2]).pfn # Outside
                                THEN half(e, x[2]).pfn
                                ELSE IF Covers(o, x) /\ half(o, x[2]).d
                                     THEN None ELSE tlb_LUT_w[x]
             /\ blocks'[x].ops = blocks[x].ops
             /\ blocks'[x].hash =
                  IF ~Covers(o, x) THEN blocks[x].hash
                  ELSE IF Stale(Cache, x, tlb_LUT_r[x]) THEN None ELSE rdram[tlb_LUT_r[x]]
             /\ x \in invalid_code' => Covers(o, x) \/ x \in invalid_code
             /\ x \notin invalid_code' =>
                  \/ ~Covers(o, x) /\ x \notin invalid_code
                  \/ /\ Covers(e, x)
                     /\ blocks'[x].hash = rdram[IF tlb_LUT_r'[x] = None THEN Frame0
                                                ELSE tlb_LUT_r'[x]]
  <2> HIDE DEF o
  <2>1. CASE x[2] = "even"
    BY <1>w, <1>0, <1>1, <1>2, <1>3, <1>4, <2>1
  <2>2. CASE x[2] = "odd"
    <3>1. Stale(t1.c, x, t1.r[x]) <=> Stale(t0.c, x, t0.r[x])
      BY <1>7, <2>2
    <3> QED
      BY <1>w, <1>0, <1>1, <1>2, <1>3, <1>4, <2>2, <3>1
  <2> QED
    BY <2>1, <2>2, MappedPages
<1> QED
  BY <1>5, <1>6, <1>8

-----------------------------------------------------------------------------
(* Types                                                                   *)

SavedLut == [Low \X Halves -> Frames \cup {None}]
SavedType == [rdram : [Frames -> Words], tlb_e : [Entries -> EntryType],
              r : SavedLut, w : SavedLut, leftover : BOOLEAN]

TypeOK ==
    /\ tlb_e \in [Entries -> EntryType]
    /\ tlb_LUT_r \in LutType
    /\ tlb_LUT_w \in LutType
    /\ rdram \in [Frames -> Words]
    /\ invalid_code \in SUBSET Pages
    /\ blocks \in [Pages -> BlockType]
    /\ saved \in SavedType \cup {None}
    /\ via \in [Frames -> Pages \cup {None}]
    /\ leftover \in BOOLEAN

\* A record of the flags and the blocks of well-typed variables.
LEMMA CacheIsTyped == TypeOK => /\ Cache \in CacheType
                                /\ Cache.invalid = invalid_code /\ Cache.blocks = blocks
  BY DEF TypeOK, Cache, CacheType

\* The frame behind a page.
LEMMA FrameOfPage ==
    ASSUME TypeOK, NEW p \in Pages
    PROVE  /\ Frame(p) \in Frames \cup {None}
           /\ p \in Mapped => Frame(p) = tlb_LUT_r[p]
           /\ p \in Mapped \/ p \in {kseg0(Frame(p)), kseg1(Frame(p))}
<1>1. CASE p \in Mapped
  BY <1>1, WindowPages DEF TypeOK, LutType, Frame
<1>2. CASE p \in Direct
  <2>1. Frame(p) = p[2]
    BY <1>2 DEF Frame
  <2> QED
    BY <1>2, <2>1, WindowPages
<1> QED
  BY <1>1, <1>2, WindowPages

\* What the variables are after a step that sets the flags and the blocks.
LEMMA BecomesTyped ==
    ASSUME NEW c \in CacheType, Becomes(c)
    PROVE  /\ invalid_code' \in SUBSET Pages /\ blocks' \in [Pages -> BlockType]
           /\ invalid_code' = c.invalid /\ blocks' = c.blocks
           /\ Cache' = c
  BY DEF Becomes, CacheType, Cache

\* Every step keeps the types.
LEMMA TypeStep == TypeOK /\ [Next]_vars => TypeOK'
<1> SUFFICES ASSUME TypeOK, [Next]_vars PROVE TypeOK'
  OBVIOUS
<1>c. Cache \in CacheType
  BY CacheIsTyped
<1>1. CASE UNCHANGED vars
  BY <1>1 DEF vars, TypeOK
<1>2. ASSUME NEW i \in Entries, NEW e \in NewEntries, write_entry(i, e) PROVE TypeOK'
  <2>1. e \in NewEntryType
    BY CacheAssumption DEF NewEntryType
  <2>2. tlb_LUT_r' \in LutType /\ tlb_LUT_w' \in LutType /\ Cache' \in CacheType
    BY <1>c, <1>2, <2>1, WriteEffect DEF TypeOK
  <2>3. invalid_code' \in SUBSET Pages /\ blocks' \in [Pages -> BlockType]
    BY <2>2 DEF Cache, CacheType
  <2>4. tlb_e' = [tlb_e EXCEPT ![i] = e] /\ UNCHANGED <<rdram, saved, via, leftover>>
    BY <1>2 DEF write_entry
  <2>5. e \in EntryType
    BY <2>1 DEF EntryType, NewEntryType
  <2> HIDE DEF EntryType
  <2>6. tlb_e' \in [Entries -> EntryType]
    BY <2>4, <2>5 DEF TypeOK
  <2> QED
    BY <2>2, <2>3, <2>4, <2>6 DEF TypeOK
<1>3. ASSUME NEW p \in Jumps, jump_to(p) PROVE TypeOK'
  <2>1. p \in Pages /\ Frame(p) \in Frames
    BY <1>3, FrameOfPage, CacheAssumption DEF jump_to
  <2>2. runs(Cache, p, Frame(p)) \in CacheType
    BY <1>c, <2>1, FrameOfPage, RunsEffect DEF TypeOK
  <2>3. Becomes(runs(Cache, p, Frame(p)))
    BY <1>3 DEF jump_to
  <2>4. invalid_code' \in SUBSET Pages /\ blocks' \in [Pages -> BlockType]
    BY <2>2, <2>3, BecomesTyped
  <2>5. via' = [via EXCEPT ![Frame(p)] = p]
        /\ UNCHANGED <<tlb_e, tlb_LUT_r, tlb_LUT_w, rdram, saved, leftover>>
    BY <1>3 DEF jump_to
  <2> QED
    BY <2>1, <2>4, <2>5 DEF TypeOK
<1>4. ASSUME NEW p \in Direct, NEW word \in Words, store_direct(p, word) PROVE TypeOK'
  <2>1. p \in Pages /\ p[2] \in Frames
    BY WindowPages
  <2>2. check_memory(Cache, p) \in CacheType
    BY <1>c, <2>1, CheckMemoryEffect
  <2>3. invalid_code' \in SUBSET Pages /\ blocks' \in [Pages -> BlockType]
    BY <1>4, <2>2, BecomesTyped DEF store_direct
  <2> QED
    BY <1>4, <2>1, <2>3 DEF store_direct, TypeOK
<1>5. ASSUME NEW p \in Mapped, NEW word \in Words, store_mapped(p, word) PROVE TypeOK'
  <2> DEFINE f == tlb_LUT_w[p]
             marked == check_memory(Cache, p)
  <2>1. p \in Pages /\ f \in Frames \cup {None}
    BY WindowPages DEF TypeOK, LutType
  <2>2. marked \in CacheType
    BY <1>c, <2>1, CheckMemoryEffect
  <2> HIDE DEF marked
  <2>3. /\ invalid_code' \in SUBSET Pages /\ blocks' \in [Pages -> BlockType]
        /\ rdram' \in [Frames -> Words]
    <3>1. CASE f = None
      <4>1. Becomes(marked) /\ rdram' = rdram
        BY <1>5, <3>1 DEF store_mapped, marked
      <4> QED
        BY <2>2, <4>1, BecomesTyped DEF TypeOK
    <3>2. CASE f # None
      <4>1. f \in Frames /\ kseg0(f) \in Pages
        BY <2>1, <3>2, WindowPages
      <4>2. check_memory(marked, kseg0(f)) \in CacheType
        BY <2>2, <4>1, CheckMemoryEffect
      <4>3. Becomes(check_memory(marked, kseg0(f))) /\ rdram' = [rdram EXCEPT ![f] = word]
        BY <1>5, <3>2 DEF store_mapped, marked
      <4> QED
        BY <4>1, <4>2, <4>3, BecomesTyped DEF TypeOK
    <3> QED
      BY <3>1, <3>2
  <2>4. UNCHANGED <<tlb_e, tlb_LUT_r, tlb_LUT_w, saved, via, leftover>>
    BY <1>5 DEF store_mapped
  <2> QED
    BY <2>3, <2>4 DEF TypeOK
<1>6. ASSUME NEW f \in Frames, NEW word \in Words, dma_pi_write(f, word) PROVE TypeOK'
  <2>1. kseg0(f) \in Pages /\ kseg1(f) \in Pages
    BY WindowPages
  <2>2. check_memory(Cache, kseg0(f)) \in CacheType
    BY <1>c, <2>1, CheckMemoryEffect
  <2>3. check_memory(check_memory(Cache, kseg0(f)), kseg1(f)) \in CacheType
    BY <2>1, <2>2, CheckMemoryEffect
  <2>4. invalid_code' \in SUBSET Pages /\ blocks' \in [Pages -> BlockType]
    BY <1>6, <2>3, BecomesTyped DEF dma_pi_write
  <2> QED
    BY <1>6, <2>4 DEF dma_pi_write, TypeOK
<1>7. ASSUME NEW f \in Frames, NEW word \in Words, dma_unmarked(f, word) PROVE TypeOK'
  BY <1>7 DEF dma_unmarked, TypeOK
<1>8. CASE save
  <2> DEFINE s == [rdram |-> rdram, tlb_e |-> tlb_e,
                   r |-> [p \in Low \X Halves |-> tlb_LUT_r[p]],
                   w |-> [p \in Low \X Halves |-> tlb_LUT_w[p]],
                   leftover |-> leftover]
  <2>1. Low \X Halves \subseteq Mapped
    BY DEF Mapped, Pairs
  <2>2. s.r \in SavedLut /\ s.w \in SavedLut
    BY <2>1 DEF TypeOK, LutType, SavedLut
  <2>3. s \in SavedType
    BY <2>2 DEF SavedType, TypeOK
  <2>4. saved' = s /\ UNCHANGED <<tlb_e, tlb_LUT_r, tlb_LUT_w, rdram, invalid_code, blocks, via,
                                  leftover>>
    BY <1>8 DEF save
  <2> HIDE DEF s
  <2> QED
    BY <2>3, <2>4 DEF TypeOK
<1>9. CASE load
  <2>1. saved \in SavedType
    BY <1>9 DEF load, TypeOK
  <2>2. /\ saved.rdram \in [Frames -> Words] /\ saved.tlb_e \in [Entries -> EntryType]
        /\ saved.r \in SavedLut /\ saved.w \in SavedLut /\ saved.leftover \in BOOLEAN
    BY <2>1 DEF SavedType
  <2>3. tlb_LUT_r' \in LutType
    BY <1>9, <2>2 DEF load, LutType, SavedLut, TypeOK
  <2>4. tlb_LUT_w' \in LutType
    BY <1>9, <2>2 DEF load, LutType, SavedLut, TypeOK
  <2> QED
    BY <1>9, <2>2, <2>3, <2>4 DEF load, TypeOK
<1>10. CASE core_start
  <2>1. Unmapped \in EntryType /\ NoBlock \in BlockType /\ Blank \in Words
    BY CacheAssumption DEF EntryType, NoBlock, BlockType
  <2>2. tlb_LUT_r' \in LutType
    BY <1>10 DEF core_start, LutType
  <2> QED
    BY <1>10, <2>1, <2>2 DEF core_start, TypeOK
<1> QED
  BY <1>1, <1>2, <1>3, <1>4, <1>5, <1>6, <1>7, <1>8, <1>9, <1>10
  DEF Next, Program, TLBWI, TLBWR

\* The machine starts in a well-typed state.
LEMMA TypeInit == Init => TypeOK
<1>1. Unmapped \in EntryType /\ NoBlock \in BlockType /\ Blank \in Words
  BY CacheAssumption DEF EntryType, NoBlock, BlockType
<1> QED
  BY <1>1 DEF Init, TypeOK, LutType

-----------------------------------------------------------------------------
(* The page tables follow the TLB                                          *)

\* No two entries are about one pair of pages.
EntriesDiffer(tlb) ==
    \A i, j \in Entries : tlb[i].vpn2 \in Pairs /\ tlb[i].vpn2 = tlb[j].vpn2 => i = j

\* LutFollowsTlb for one page, of any TLB and tables: the savestate's too.
ReadFollows(tlb, v, p) ==
    \A f \in Frames : v = f <=> \E i \in Entries : Covers(tlb[i], p) /\ half(tlb[i], p[2]).pfn = f

WriteFollows(tlb, v, p) ==
    \A f \in Frames : v = f <=> /\ \E i \in Entries : Covers(tlb[i], p) /\ half(tlb[i], p[2]).pfn = f
                                /\ \E i \in Entries : Covers(tlb[i], p) /\ half(tlb[i], p[2]).d

TablesFollow(tlb, r, w, left) ==
    /\ EntriesDiffer(tlb)
    /\ \A p \in Low \X Halves : ReadFollows(tlb, r[p], p) /\ (left \/ WriteFollows(tlb, w[p], p))

LutInv ==
    /\ TypeOK
    /\ TablesFollow(tlb_e, tlb_LUT_r, tlb_LUT_w, leftover)
    /\ saved # None => TablesFollow(saved.tlb_e, saved.r, saved.w, saved.leftover)

\* A page that a new entry covers has no other entry, and keeps none of the old
\* one; a page that it does not cover loses the old entry or keeps its own.
LEMMA WriteKeepsTables ==
    ASSUME LutInv, NEW i \in Entries, NEW e \in NewEntries, Allowed(i, e), write_entry(i, e)
    PROVE  TablesFollow(tlb_e', tlb_LUT_r', tlb_LUT_w', leftover')
<1>t. TypeOK /\ TablesFollow(tlb_e, tlb_LUT_r, tlb_LUT_w, leftover)
  BY DEF LutInv
<1>e. e \in NewEntryType /\ e \in EntryType /\ e.vpn2 \in Pairs
  BY CacheAssumption DEF NewEntryType, EntryType
<1>1. tlb_e' = [tlb_e EXCEPT ![i] = e] /\ leftover' = leftover
  BY DEF write_entry
<1>2. /\ tlb_e'[i] = e
      /\ \A j \in Entries : j # i => tlb_e'[j] = tlb_e[j] /\ tlb_e[j].vpn2 # e.vpn2
  BY <1>t, <1>1 DEF TypeOK, Allowed
<1>3. EntriesDiffer(tlb_e')
  BY <1>t, <1>2 DEF TablesFollow, EntriesDiffer
<1>4. ASSUME NEW p \in Low \X Halves
      PROVE  /\ ReadFollows(tlb_e', tlb_LUT_r'[p], p)
             /\ leftover' \/ WriteFollows(tlb_e', tlb_LUT_w'[p], p)
  <2> DEFINE o == tlb_e[i]
             h == p[2]
  <2>1. p \in Mapped /\ p[1] \in Pairs /\ h \in Halves
    BY MappedPages DEF Mapped, Pairs
  <2>2. /\ tlb_LUT_r'[p] = IF Covers(e, p) /\ half(e, h).pfn # Outside THEN half(e, h).pfn
                           ELSE IF Covers(o, p) THEN None ELSE tlb_LUT_r[p]
        /\ tlb_LUT_w'[p] = IF Covers(e, p) /\ half(e, h).d /\ half(e, h).pfn # Outside
                           THEN half(e, h).pfn
                           ELSE IF Covers(o, p) /\ half(o, h).d THEN None ELSE tlb_LUT_w[p]
    <3>1. Cache \in CacheType
      BY <1>t, CacheIsTyped
    <3> QED
      BY <1>t, <1>e, <2>1, <3>1, WriteEffect DEF TypeOK
  <2>3. /\ tlb_LUT_r[p] \in Frames \cup {None} /\ tlb_LUT_w[p] \in Frames \cup {None}
        /\ ReadFollows(tlb_e, tlb_LUT_r[p], p)
        /\ leftover \/ WriteFollows(tlb_e, tlb_LUT_w[p], p)
    BY <1>t, <2>1 DEF TypeOK, LutType, TablesFollow
  <2>4. None \notin Frames /\ Outside \notin Frames
    BY CacheAssumption
  <2>5. half(e, h) \in Lo /\ half(e, h).pfn \in Frames \cup {Outside}
    BY <1>e, <2>1, EntryHalves DEF Lo
  <2> HIDE DEF h
  <2>6. CASE e.vpn2 = p[1]
    <3>1. \A j \in Entries : j # i => ~Covers(tlb_e[j], p) /\ ~Covers(tlb_e'[j], p)
      BY <1>2, <2>6 DEF Covers
    <3>2. \A f \in Frames :
            (\E j \in Entries : Covers(tlb_e'[j], p) /\ half(tlb_e'[j], h).pfn = f)
              <=> Covers(e, p) /\ half(e, h).pfn = f
      BY <1>2, <3>1
    <3>3. (\E j \in Entries : Covers(tlb_e'[j], p) /\ half(tlb_e'[j], h).d)
             <=> Covers(e, p) /\ half(e, h).d
      BY <1>2, <3>1
    <3>4. (IF Covers(o, p) THEN None ELSE tlb_LUT_r[p]) = None
      BY <2>3, <3>1 DEF ReadFollows
    <3>5. leftover \/ (IF Covers(o, p) /\ half(o, h).d THEN None ELSE tlb_LUT_w[p]) = None
      BY <2>3, <3>1 DEF WriteFollows, h
    <3>6. ReadFollows(tlb_e', tlb_LUT_r'[p], p)
      BY <2>2, <2>4, <2>5, <3>2, <3>4 DEF ReadFollows, h
    <3>7. leftover \/ WriteFollows(tlb_e', tlb_LUT_w'[p], p)
      BY <2>2, <2>4, <2>5, <3>2, <3>3, <3>5 DEF WriteFollows, h
    <3> QED
      BY <1>1, <3>6, <3>7
  <2>7. CASE e.vpn2 # p[1] /\ o.vpn2 = p[1]
    <3>1. \A j \in Entries : j # i => tlb_e[j].vpn2 # p[1]
      BY <1>t, <2>1, <2>7 DEF TablesFollow, EntriesDiffer
    <3>2. \A j \in Entries : ~Covers(tlb_e'[j], p) /\ (j # i => ~Covers(tlb_e[j], p))
      BY <1>2, <2>7, <3>1 DEF Covers
    <3>3. ~Covers(e, p)
      BY <2>7 DEF Covers
    <3>4. tlb_LUT_r'[p] = None
      BY <2>2, <2>3, <3>2, <3>3 DEF ReadFollows
    <3>5. leftover \/ tlb_LUT_w'[p] = None
      BY <2>2, <2>3, <3>2, <3>3 DEF WriteFollows, h
    <3> QED
      BY <1>1, <2>4, <3>2, <3>4, <3>5 DEF ReadFollows, WriteFollows
  <2>8. CASE e.vpn2 # p[1] /\ o.vpn2 # p[1]
    <3>1. ~Covers(e, p) /\ ~Covers(o, p)
      BY <2>8 DEF Covers
    <3>2. \A j \in Entries : /\ Covers(tlb_e'[j], p) <=> Covers(tlb_e[j], p)
                             /\ Covers(tlb_e[j], p) => tlb_e'[j] = tlb_e[j]
      BY <1>2, <3>1
    <3>3. tlb_LUT_r'[p] = tlb_LUT_r[p] /\ tlb_LUT_w'[p] = tlb_LUT_w[p]
      BY <2>2, <3>1
    <3>4. ReadFollows(tlb_e', tlb_LUT_r'[p], p)
      BY <2>3, <3>2, <3>3 DEF ReadFollows
    <3>5. leftover \/ WriteFollows(tlb_e', tlb_LUT_w'[p], p)
      BY <2>3, <3>2, <3>3 DEF WriteFollows
    <3> QED
      BY <1>1, <3>4, <3>5
  <2> QED
    BY <2>6, <2>7, <2>8
<1> QED
  BY <1>3, <1>4 DEF TablesFollow

\* Every step keeps the tables, and those of the savestate.
LEMMA LutStep == LutInv /\ [Next]_vars => LutInv'
<1> SUFFICES ASSUME LutInv, [Next]_vars PROVE LutInv'
  OBVIOUS
<1>t. TypeOK /\ TypeOK'
  BY TypeStep DEF LutInv
<1>0. None \notin Frames /\ None \notin Pairs
  BY CacheAssumption
<1>1. ASSUME UNCHANGED <<tlb_e, tlb_LUT_r, tlb_LUT_w, leftover, saved>> PROVE LutInv'
  BY <1>1, <1>t DEF LutInv
<1>2. ASSUME NEW i \in Entries, NEW e \in NewEntries, Allowed(i, e), write_entry(i, e)
      PROVE  LutInv'
  <2>1. saved' = saved
    BY <1>2 DEF write_entry
  <2>2. TablesFollow(tlb_e', tlb_LUT_r', tlb_LUT_w', leftover')
    BY <1>2, WriteKeepsTables
  <2> QED
    BY <1>t, <2>1, <2>2 DEF LutInv
<1>3. CASE save
  <2> DEFINE s == [rdram |-> rdram, tlb_e |-> tlb_e,
                   r |-> [p \in Low \X Halves |-> tlb_LUT_r[p]],
                   w |-> [p \in Low \X Halves |-> tlb_LUT_w[p]],
                   leftover |-> leftover]
  <2>1. saved' = s /\ UNCHANGED <<tlb_e, tlb_LUT_r, tlb_LUT_w, leftover>>
    BY <1>3 DEF save
  <2>2. TablesFollow(s.tlb_e, s.r, s.w, s.leftover)
    BY DEF LutInv, TablesFollow
  <2> HIDE DEF s
  <2> QED
    BY <1>t, <2>1, <2>2 DEF LutInv
<1>4. CASE load
  <2>1. TablesFollow(saved.tlb_e, saved.r, saved.w, saved.leftover) /\ saved \in SavedType
    BY <1>4, <1>t DEF load, LutInv, TypeOK
  <2>2. /\ tlb_e' = saved.tlb_e /\ leftover' = saved.leftover /\ saved' = saved
        /\ tlb_LUT_r' = [p \in Mapped |-> IF p \in DOMAIN saved.r THEN saved.r[p] ELSE tlb_LUT_r[p]]
        /\ tlb_LUT_w' = [p \in Mapped |-> IF p \in DOMAIN saved.w THEN saved.w[p] ELSE tlb_LUT_w[p]]
    BY <1>4 DEF load
  <2>3. DOMAIN saved.r = Low \X Halves /\ DOMAIN saved.w = Low \X Halves
    BY <2>1 DEF SavedType, SavedLut
  <2>4. Low \X Halves \subseteq Mapped
    BY DEF Mapped, Pairs
  <2>5. \A p \in Low \X Halves : tlb_LUT_r'[p] = saved.r[p] /\ tlb_LUT_w'[p] = saved.w[p]
    BY <2>2, <2>3, <2>4
  <2>6. TablesFollow(tlb_e', tlb_LUT_r', tlb_LUT_w', leftover')
    BY <2>1, <2>2, <2>5 DEF TablesFollow
  <2> QED
    BY <1>t, <2>1, <2>2, <2>6 DEF LutInv
<1>5. CASE core_start
  <2>1. /\ tlb_e' = [i \in Entries |-> Unmapped] /\ tlb_LUT_r' = [p \in Mapped |-> None]
        /\ leftover' = TRUE /\ saved' = saved
    BY <1>5 DEF core_start
  <2>2. \A p : ~Covers(Unmapped, p)
    BY DEF Covers, half, Unmapped
  <2>3. Low \X Halves \subseteq Mapped
    BY DEF Mapped, Pairs
  <2>4. EntriesDiffer(tlb_e')
    BY <1>0, <2>1 DEF EntriesDiffer, Unmapped
  <2>5. \A p \in Low \X Halves : ReadFollows(tlb_e', tlb_LUT_r'[p], p)
    BY <1>0, <2>1, <2>2, <2>3 DEF ReadFollows
  <2> QED
    BY <1>t, <2>1, <2>4, <2>5 DEF LutInv, TablesFollow
<1>6. CASE UNCHANGED vars
  BY <1>1, <1>6 DEF vars
<1>7. ASSUME NEW p \in Jumps, jump_to(p) PROVE LutInv'
  BY <1>1, <1>7 DEF jump_to
<1>8. ASSUME NEW p, NEW word, store_direct(p, word) \/ store_mapped(p, word) PROVE LutInv'
  BY <1>1, <1>8 DEF store_direct, store_mapped
<1>9. ASSUME NEW f, NEW word, dma_pi_write(f, word) \/ dma_unmarked(f, word) PROVE LutInv'
  BY <1>1, <1>9 DEF dma_pi_write, dma_unmarked
<1> QED
  BY <1>2, <1>3, <1>4, <1>5, <1>6, <1>7, <1>8, <1>9 DEF Next, Program, TLBWI, TLBWR

\* The TLB starts empty, and so do the tables.
LEMMA LutInit == Init => LutInv
<1> SUFFICES ASSUME Init PROVE LutInv
  OBVIOUS
<1>0. None \notin Frames /\ None \notin Pairs
  BY CacheAssumption
<1>1. /\ tlb_e = [i \in Entries |-> Unmapped] /\ tlb_LUT_r = [p \in Mapped |-> None]
      /\ tlb_LUT_w = [p \in Mapped |-> None] /\ saved = None
  BY DEF Init
<1>2. \A p : ~Covers(Unmapped, p)
  BY DEF Covers, half, Unmapped
<1>3. Low \X Halves \subseteq Mapped
  BY DEF Mapped, Pairs
<1>4. EntriesDiffer(tlb_e)
  BY <1>0, <1>1 DEF EntriesDiffer, Unmapped
<1>5. \A p \in Low \X Halves : ReadFollows(tlb_e, tlb_LUT_r[p], p)
  BY <1>0, <1>1, <1>2, <1>3 DEF ReadFollows
<1>6. \A p \in Low \X Halves : WriteFollows(tlb_e, tlb_LUT_w[p], p)
  BY <1>0, <1>1, <1>2, <1>3 DEF WriteFollows
<1> QED
  BY <1>1, <1>4, <1>5, <1>6, TypeInit DEF LutInv, TablesFollow

\* For any number of entries, pages and frames the page tables say what the TLB
\* says, across TLB writes, savestates and new starts (TLBWI, TLBWR,
\* load_memory_from_buffer).
THEOREM TablesFollowTlb == Spec => []LutFollowsTlb
<1>1. LutInv => LutFollowsTlb
  BY DEF LutInv, TablesFollow, ReadFollows, WriteFollows, Covers, LutFollowsTlb, Maps, Writable
<1> QED
  BY <1>1, LutInit, LutStep, PTL DEF Spec

-----------------------------------------------------------------------------
(* The code that runs is the code that memory holds                        *)

\* A frame that is run at a window is run at its own.
RunAtOwnWindow ==
    \A f \in Frames : via[f] \in Direct => via[f] \in {kseg0(f), kseg1(f)}

\* The flags of the windows are cleared only by running the frame.
WindowsFollowRuns ==
    \A f \in Frames : via[f] = None => kseg0(f) \in invalid_code /\ kseg1(f) \in invalid_code

\* A page without an entry has no valid block, or is one that a load has left
\* in the table, and was not run at another frame since.
NoForgottenBlock ==
    \A p \in Mapped : (\A i \in Entries : ~Covers(tlb_e[i], p)) =>
        IF tlb_LUT_r[p] = None THEN p \in invalid_code
        ELSE \A f \in Frames : via[f] = p => f = tlb_LUT_r[p]

\* The block of the window, or of the mapped page, at which a frame is run.
WindowDecoded ==
    \A f \in Frames : via[f] \in Direct /\ via[f] \notin invalid_code =>
        blocks[via[f]].ops = rdram[f]

\* Where the code of a window runs on into the next frame, that one was decoded too.
TailDecoded ==
    \A f \in Frames : /\ via[f] \in Direct /\ via[f] \notin invalid_code
                      /\ rdram[f] \in Through /\ Following[f] # None
                      => blocks[via[f]].tail = rdram[Following[f]]

PageDecoded ==
    \A f \in Frames :
        /\ via[f] \in Mapped /\ tlb_LUT_r[via[f]] = f
        /\ via[f] \notin invalid_code
        /\ kseg0(f) \notin invalid_code /\ kseg1(f) \notin invalid_code
        => blocks[via[f]].ops = rdram[f]

\* The hash kept for a page that is run is that of what was decoded.
HashDecoded ==
    \A f \in Frames : via[f] \in Mapped /\ blocks[via[f]].hash # None =>
        blocks[via[f]].ops = blocks[via[f]].hash

\* The frame behind a page that is run has a mark, so that stores are noticed.
FrameMarked ==
    \A f \in Frames : via[f] \in Mapped /\ kseg0(f) \notin invalid_code =>
        blocks[kseg0(f)].ops # NOTCOMPILED

OrdinaryInv == WindowDecoded /\ TailDecoded /\ PageDecoded /\ HashDecoded /\ FrameMarked

CodeInv ==
    /\ TypeOK
    /\ RunAtOwnWindow /\ WindowsFollowRuns /\ NoForgottenBlock
    /\ ordinary => OrdinaryInv

\* Writing a frame keeps the invariant when the block that runs it is marked.
LEMMA WriteMemoryKeepsCode ==
    ASSUME CodeInv, TypeOK', NEW f \in Frames, NEW word \in Words,
           rdram' = [rdram EXCEPT ![f] = word],
           UNCHANGED <<tlb_e, tlb_LUT_r, blocks, via>>,
           invalid_code \subseteq invalid_code',
           ordinary' => /\ ordinary /\ ~RunInto(f)
                        /\ \/ via[f] = None
                           \/ via[f] \in Direct /\ via[f] \in invalid_code'
                           \/ via[f] \in Mapped /\ kseg0(f) \in invalid_code'
    PROVE  CodeInv'
<1>1. RunAtOwnWindow' /\ WindowsFollowRuns'
  BY DEF CodeInv, RunAtOwnWindow, WindowsFollowRuns
<1>2. NoForgottenBlock'
  BY DEF CodeInv, NoForgottenBlock
<1>3. ASSUME ordinary' PROVE OrdinaryInv'
  <2>1. OrdinaryInv
    BY <1>3 DEF CodeInv
  <2>2. \A g \in Frames : rdram'[g] = IF g = f THEN word ELSE rdram[g]
    BY DEF CodeInv, TypeOK
  <2>3. None \notin Direct /\ None \notin Mapped /\ \A p \in Mapped : p \notin Direct
    BY WindowPages
  <2>4. WindowDecoded'
    BY <1>3, <2>1, <2>2, <2>3 DEF OrdinaryInv, WindowDecoded
  <2>5. PageDecoded'
    BY <1>3, <2>1, <2>2, <2>3 DEF OrdinaryInv, PageDecoded
  <2>6. HashDecoded' /\ FrameMarked'
    BY <2>1 DEF OrdinaryInv, HashDecoded, FrameMarked
  <2>7. TailDecoded'
    <3> SUFFICES ASSUME NEW g \in Frames, via[g] \in Direct, via[g] \notin invalid_code',
                        rdram'[g] \in Through, Following[g] # None
                 PROVE  blocks[via[g]].tail = rdram'[Following[g]]
      BY DEF TailDecoded
    <3>1. Following[g] \in Frames
      BY CacheAssumption
    <3>2. g # f
      BY <1>3, <2>3
    <3>3. Following[g] # f
      BY <1>3, <2>2, <3>2 DEF RunInto
    <3> QED
      BY <2>1, <2>2, <3>1, <3>2, <3>3 DEF OrdinaryInv, TailDecoded
  <2> QED
    BY <2>4, <2>5, <2>6, <2>7 DEF OrdinaryInv
<1> QED
  BY <1>1, <1>2, <1>3 DEF CodeInv

\* check_memory marks the block of the window at which a frame is run, and the
\* frame behind a page at which it is run.
LEMMA MarksCode ==
    ASSUME CodeInv, ordinary, NEW f \in Frames, NEW p \in Pages,
           NEW c \in CacheType, c.blocks = blocks, invalid_code \subseteq c.invalid,
           (via[f] = p /\ p \in Direct) \/ (p = kseg0(f) /\ via[f] \in Mapped)
    PROVE  p \in check_memory(c, p).invalid
<1>1. check_memory(c, p).invalid =
        IF blocks[p].ops # NOTCOMPILED THEN c.invalid \cup {p} ELSE c.invalid
  BY CheckMemoryEffect
<1>2. OrdinaryInv
  BY DEF CodeInv
<1>3. rdram[f] \in Words /\ NOTCOMPILED \notin Words
  BY CacheAssumption DEF CodeInv, TypeOK
<1>4. p \notin invalid_code => blocks[p].ops # NOTCOMPILED
  BY <1>2, <1>3 DEF OrdinaryInv, WindowDecoded, FrameMarked
<1> QED
  BY <1>1, <1>4

\* The stores and the transfers.
LEMMA StoreKeepsCode ==
    ASSUME CodeInv, TypeOK', NEW word \in Words,
           \/ \E p \in Direct : store_direct(p, word)
           \/ \E p \in Mapped : store_mapped(p, word)
           \/ \E f \in Frames : dma_pi_write(f, word) \/ dma_unmarked(f, word)
    PROVE  CodeInv'
<1>t. TypeOK
  BY DEF CodeInv
<1>c. Cache \in CacheType /\ Cache.invalid = invalid_code /\ Cache.blocks = blocks
  BY <1>t, CacheIsTyped
<1>v. \A f \in Frames : via[f] \in Pages \cup {None}
  BY <1>t DEF TypeOK
<1>1. ASSUME NEW p \in Direct, store_direct(p, word) PROVE CodeInv'
  <2> DEFINE f == p[2]
             c == check_memory(Cache, p)
  <2>1. p \in Pages /\ f \in Frames /\ p \in {kseg0(f), kseg1(f)}
    BY WindowPages
  <2>2. c \in CacheType /\ c.blocks = blocks /\ invalid_code \subseteq c.invalid
    BY <1>c, <2>1, CheckMemoryEffect
  <2>3. Becomes(c) /\ rdram' = [rdram EXCEPT ![f] = word]
        /\ ordinary' = (ordinary /\ Noticed(f, {p}))
        /\ UNCHANGED <<tlb_e, tlb_LUT_r, via>>
    BY <1>1 DEF store_direct
  <2>4. invalid_code' = c.invalid /\ blocks' = blocks
    BY <2>2, <2>3, BecomesTyped
  <2>5. ASSUME ordinary'
        PROVE  /\ ordinary /\ ~RunInto(f)
               /\ \/ via[f] = None
                  \/ via[f] \in Direct /\ via[f] \in invalid_code'
                  \/ via[f] \in Mapped /\ kseg0(f) \in invalid_code'
    <3>1. /\ ordinary /\ ~RunInto(f)
          /\ via[f] = None \/ via[f] = p \/ (kseg0(f) = p /\ via[f] \in Mapped)
      <4>1. ordinary /\ Noticed(f, {p})
        BY <2>3, <2>5
      <4>2. /\ via[f] \in {p} \cup {None} \/ (kseg0(f) \in {p} /\ via[f] \in Mapped)
            /\ ~RunInto(f)
        BY <4>1 DEF Noticed
      <4> QED
        BY <4>1, <4>2
    <3> HIDE DEF f
    <3>2. via[f] = p \/ (kseg0(f) = p /\ via[f] \in Mapped) => p \in c.invalid
      BY <1>c, <2>1, <3>1, MarksCode
    <3> QED
      BY <2>4, <3>1, <3>2
  <2> HIDE DEF f, c
  <2> QED
    BY <2>1, <2>2, <2>3, <2>4, <2>5, WriteMemoryKeepsCode
<1>2. ASSUME NEW p \in Mapped, store_mapped(p, word) PROVE CodeInv'
  <2> DEFINE f == tlb_LUT_w[p]
             m == check_memory(Cache, p)
             c == check_memory(m, kseg0(f))
  <2>1. p \in Pages /\ f \in Frames \cup {None}
    BY <1>t, WindowPages DEF TypeOK, LutType
  <2>2. m \in CacheType /\ m.blocks = blocks /\ invalid_code \subseteq m.invalid
    BY <1>c, <2>1, CheckMemoryEffect
  <2>s. UNCHANGED <<tlb_e, tlb_LUT_r, via>>
    BY <1>2 DEF store_mapped
  <2> HIDE DEF m
  <2>3. CASE f = None
    <3>1. Becomes(m) /\ UNCHANGED <<rdram, ordinary>>
      BY <1>2, <2>3 DEF store_mapped, m
    <3>2. invalid_code' = m.invalid /\ blocks' = blocks
      BY <2>2, <3>1, BecomesTyped
    <3>3. RunAtOwnWindow' /\ WindowsFollowRuns' /\ NoForgottenBlock'
      BY <2>s, <2>2, <3>2 DEF CodeInv, RunAtOwnWindow, WindowsFollowRuns, NoForgottenBlock
    <3>4. OrdinaryInv => OrdinaryInv'
      BY <2>s, <2>2, <3>1, <3>2
      DEF OrdinaryInv, WindowDecoded, TailDecoded, PageDecoded, HashDecoded, FrameMarked
    <3> QED
      BY <3>1, <3>3, <3>4 DEF CodeInv
  <2>4. CASE f # None
    <3>1. f \in Frames /\ kseg0(f) \in Pages
      BY <2>1, <2>4, WindowPages
    <3>2. c \in CacheType /\ c.blocks = blocks /\ invalid_code \subseteq c.invalid
      BY <2>2, <3>1, CheckMemoryEffect
    <3>3. Becomes(c) /\ rdram' = [rdram EXCEPT ![f] = word]
          /\ ordinary' = (ordinary /\ Noticed(f, {p, kseg0(f)}))
      BY <1>2, <2>4 DEF store_mapped, m
    <3>4. invalid_code' = c.invalid /\ blocks' = blocks
      BY <3>2, <3>3, BecomesTyped
    <3>5. ASSUME ordinary'
          PROVE  /\ ordinary /\ ~RunInto(f)
                 /\ \/ via[f] = None
                    \/ via[f] \in Direct /\ via[f] \in invalid_code'
                    \/ via[f] \in Mapped /\ kseg0(f) \in invalid_code'
      <4>1. /\ ordinary /\ ~RunInto(f)
            /\ via[f] = None \/ via[f] = kseg0(f) \/ via[f] \in Mapped
        BY <3>3, <3>5 DEF Noticed
      <4>2. via[f] = kseg0(f) \/ via[f] \in Mapped => kseg0(f) \in c.invalid
        <5>1. kseg0(f) \in Direct
          BY <3>1, WindowPages
        <5> HIDE DEF f
        <5> QED
          BY <2>2, <3>1, <4>1, <5>1, MarksCode
      <4>3. kseg0(f) \in Direct
        BY <3>1, WindowPages
      <4> QED
        BY <3>4, <4>1, <4>2, <4>3
    <3> HIDE DEF f, c
    <3> QED
      BY <2>s, <3>1, <3>2, <3>3, <3>4, <3>5, WriteMemoryKeepsCode
  <2> QED
    BY <2>3, <2>4
<1>3. ASSUME NEW f \in Frames, dma_pi_write(f, word) PROVE CodeInv'
  <2> DEFINE m == check_memory(Cache, kseg0(f))
             c == check_memory(m, kseg1(f))
  <2>1. /\ kseg0(f) \in Pages /\ kseg1(f) \in Pages
        /\ kseg0(f) \in Direct /\ kseg1(f) \in Direct
    BY WindowPages
  <2>2. m \in CacheType /\ m.blocks = blocks /\ invalid_code \subseteq m.invalid
    BY <1>c, <2>1, CheckMemoryEffect
  <2>3. c \in CacheType /\ c.blocks = blocks /\ m.invalid \subseteq c.invalid
    BY <2>1, <2>2, CheckMemoryEffect
  <2>4. Becomes(c) /\ rdram' = [rdram EXCEPT ![f] = word]
        /\ ordinary' = (ordinary /\ ~RunInto(f))
        /\ UNCHANGED <<tlb_e, tlb_LUT_r, via>>
    BY <1>3 DEF dma_pi_write
  <2>5. invalid_code' = c.invalid /\ blocks' = blocks
    BY <2>3, <2>4, BecomesTyped
  <2>6. ASSUME ordinary, via[f] # None
        PROVE  \/ via[f] \in Direct /\ via[f] \in c.invalid
               \/ via[f] \in Mapped /\ kseg0(f) \in c.invalid
    <3>1. CASE via[f] \in Mapped
      <4>1. kseg0(f) \in m.invalid
        BY <1>c, <2>1, <2>6, <3>1, MarksCode
      <4> QED
        BY <2>3, <3>1, <4>1
    <3>2. CASE via[f] = kseg0(f)
      <4>1. kseg0(f) \in m.invalid
        <5>1. kseg0(f) = via[f] /\ kseg0(f) \in Direct
          BY <2>1, <3>2
        <5> QED
          BY <1>c, <2>1, <2>6, <3>2, <5>1, MarksCode
      <4> QED
        BY <2>1, <2>3, <3>2, <4>1
    <3>3. CASE via[f] = kseg1(f)
      <4>1. kseg1(f) \in c.invalid
        <5>1. kseg1(f) = via[f] /\ kseg1(f) \in Direct
          BY <2>1, <3>3
        <5> QED
          BY <2>1, <2>2, <2>6, <3>3, <5>1, MarksCode
      <4> QED
        BY <2>1, <3>3, <4>1
    <3>4. via[f] \in Mapped \/ via[f] \in {kseg0(f), kseg1(f)}
      BY <1>v, <2>6, WindowPages DEF CodeInv, RunAtOwnWindow
    <3> QED
      BY <3>1, <3>2, <3>3, <3>4
  <2> HIDE DEF c, m
  <2> QED
    BY <2>2, <2>3, <2>4, <2>5, <2>6, WriteMemoryKeepsCode
<1>4. ASSUME NEW f \in Frames, dma_unmarked(f, word) PROVE CodeInv'
  <2>1. ordinary' => ordinary /\ via[f] = None /\ ~RunInto(f)
    BY <1>4 DEF dma_unmarked, Noticed
  <2>2. rdram' = [rdram EXCEPT ![f] = word]
        /\ UNCHANGED <<tlb_e, tlb_LUT_r, via, invalid_code, blocks>>
    BY <1>4 DEF dma_unmarked
  <2> QED
    BY <2>1, <2>2, WriteMemoryKeepsCode
<1> QED
  BY <1>1, <1>2, <1>3, <1>4

\* A jump decodes the page, or finds it decoded.
LEMMA JumpKeepsCode ==
    ASSUME CodeInv, NEW p \in Pages, jump_to(p)
    PROVE  RunAtOwnWindow' /\ WindowsFollowRuns' /\ NoForgottenBlock'
           /\ (ordinary' => OrdinaryInv')
<1> DEFINE f == Frame(p)
           k == kseg0(f)
           u == kseg1(f)
           c == runs(Cache, p, f)
<1>t. TypeOK
  BY DEF CodeInv
<1>c. Cache \in CacheType /\ Cache.invalid = invalid_code /\ Cache.blocks = blocks
  BY <1>t, CacheIsTyped
<1>1. /\ Becomes(c) /\ via' = [via EXCEPT ![f] = p]
      /\ ordinary' = (ordinary /\ via[f] \in {None, p})
      /\ UNCHANGED <<tlb_e, tlb_LUT_r, rdram>>
  BY DEF jump_to
<1>2. /\ f \in Frames
      /\ p \in Mapped => tlb_LUT_r[p] = f
      /\ p \in Mapped \/ p \in {k, u}
  <2>1. f # None
    BY DEF jump_to
  <2> QED
    BY <1>t, <2>1, FrameOfPage
<1>3. /\ c \in CacheType
      /\ \A q \in Pages : q \notin {p, k, u} =>
           /\ c.blocks[q] = blocks[q]
           /\ q \in c.invalid <=> q \in invalid_code
      /\ \/ /\ Fresh(c.blocks[p], p, f)
            /\ p \in Mapped => c.blocks[k].ops # NOTCOMPILED
         \/ /\ c = Cache
            /\ p \notin invalid_code /\ k \notin invalid_code /\ u \notin invalid_code
  <2>1. rdram \in [Frames -> Words]
    BY <1>t DEF TypeOK
  <2> QED
    BY <1>c, <1>2, <2>1, RunsEffect
<1>4. invalid_code' = c.invalid /\ blocks' = c.blocks
  BY <1>1, <1>3, BecomesTyped
<1> HIDE DEF c
<1>5. /\ via'[f] = p
      /\ \A g \in Frames : g # f => via'[g] = via[g]
  BY <1>t, <1>1, <1>2 DEF TypeOK
<1>6. /\ k \in Pages /\ u \in Pages /\ k \in Direct /\ u \in Direct
      /\ \A g \in Frames : g # f => /\ kseg0(g) \notin {p, k, u} /\ kseg1(g) \notin {p, k, u}
                                    /\ kseg0(g) \in Pages /\ kseg1(g) \in Pages
      /\ \A q \in Mapped : q \in Pages /\ q \notin {k, u} /\ q \notin Direct
      /\ None \notin Pages
  BY <1>2, WindowPages
<1> HIDE DEF f, k, u
<1>7. RunAtOwnWindow'
  <2> SUFFICES ASSUME NEW g \in Frames, via'[g] \in Direct
               PROVE  via'[g] \in {kseg0(g), kseg1(g)}
    BY DEF RunAtOwnWindow
  <2>1. CASE g = f
    BY <1>2, <1>5, <1>6, <2>1 DEF k, u
  <2>2. CASE g # f
    BY <1>5, <2>2 DEF CodeInv, RunAtOwnWindow
  <2> QED
    BY <2>1, <2>2
<1>8. WindowsFollowRuns'
  <2> SUFFICES ASSUME NEW g \in Frames, via'[g] = None
               PROVE  kseg0(g) \in invalid_code' /\ kseg1(g) \in invalid_code'
    BY DEF WindowsFollowRuns
  <2>1. g # f
    BY <1>5, <1>6
  <2> QED
    BY <1>3, <1>4, <1>5, <1>6, <2>1 DEF CodeInv, WindowsFollowRuns
<1>9. NoForgottenBlock'
  <2> SUFFICES ASSUME NEW q \in Mapped, \A i \in Entries : ~Covers(tlb_e[i], q)
               PROVE  IF tlb_LUT_r[q] = None THEN q \in invalid_code'
                      ELSE \A g \in Frames : via'[g] = q => g = tlb_LUT_r[q]
    BY <1>1 DEF NoForgottenBlock
  <2>1. IF tlb_LUT_r[q] = None THEN q \in invalid_code
        ELSE \A g \in Frames : via[g] = q => g = tlb_LUT_r[q]
    BY DEF CodeInv, NoForgottenBlock
  <2>2. CASE tlb_LUT_r[q] = None
    <3>1. q # p
      BY <1>2, <2>2, CacheAssumption
    <3> QED
      BY <1>3, <1>4, <1>6, <2>1, <2>2, <3>1
  <2>3. CASE tlb_LUT_r[q] # None
    BY <1>2, <1>5, <2>1, <2>3
  <2> QED
    BY <2>2, <2>3
<1>10. ASSUME ordinary' PROVE OrdinaryInv'
  <2>1. OrdinaryInv /\ via[f] \in {None, p}
    BY <1>1, <1>10 DEF CodeInv
  <2>2. c = Cache /\ p \notin invalid_code /\ k \notin invalid_code /\ u \notin invalid_code
        => via[f] = p
    BY <1>2, <2>1 DEF CodeInv, WindowsFollowRuns, k
  <2>3. \/ /\ Fresh(blocks'[p], p, f)
           /\ p \in Mapped => blocks'[k].ops # NOTCOMPILED
        \/ /\ invalid_code' = invalid_code /\ blocks' = blocks
           /\ via[f] = p
           /\ p \notin invalid_code /\ k \notin invalid_code /\ u \notin invalid_code
    BY <1>c, <1>3, <1>4, <2>2
  <2>4. blocks'[p].ops = rdram[f]
    <3>1. CASE via[f] = p /\ p \notin invalid_code /\ k \notin invalid_code /\ u \notin invalid_code
               /\ blocks' = blocks
      BY <1>2, <1>6, <2>1, <3>1 DEF OrdinaryInv, WindowDecoded, PageDecoded, k, u
    <3> QED
      BY <2>3, <3>1 DEF Fresh, Current
  <2>t. p \in Direct /\ rdram[f] \in Through /\ Following[f] # None =>
          blocks'[p].tail = rdram[Following[f]]
    BY <1>2, <2>1, <2>3 DEF Fresh, Current, OrdinaryInv, TailDecoded
  <2>5. p \in Mapped => blocks'[k].ops # NOTCOMPILED
    BY <1>2, <2>1, <2>3 DEF OrdinaryInv, FrameMarked, k
  <2>6. p \in Mapped => blocks'[p].hash = None \/ blocks'[p].ops = blocks'[p].hash
    BY <1>2, <2>1, <2>3 DEF Fresh, Current, OrdinaryInv, HashDecoded
  <2>7. WindowDecoded'
    <3> SUFFICES ASSUME NEW g \in Frames, via'[g] \in Direct, via'[g] \notin invalid_code'
                 PROVE  blocks'[via'[g]].ops = rdram'[g]
      BY DEF WindowDecoded
    <3>1. CASE g = f
      BY <1>1, <1>5, <2>4, <3>1
    <3>2. CASE g # f
      <4>1. via[g] \in {kseg0(g), kseg1(g)}
        BY <1>5, <3>2 DEF CodeInv, RunAtOwnWindow
      <4>2. via[g] \in Pages /\ via[g] \notin {p, k, u}
        BY <1>6, <3>2, <4>1
      <4> QED
        BY <1>1, <1>3, <1>4, <1>5, <2>1, <3>2, <4>2 DEF OrdinaryInv, WindowDecoded
    <3> QED
      BY <3>1, <3>2
  <2>11. TailDecoded'
    <3> SUFFICES ASSUME NEW g \in Frames, via'[g] \in Direct, via'[g] \notin invalid_code',
                        rdram[g] \in Through, Following[g] # None
                 PROVE  blocks'[via'[g]].tail = rdram[Following[g]]
      BY <1>1 DEF TailDecoded
    <3>1. CASE g = f
      BY <1>5, <2>t, <3>1
    <3>2. CASE g # f
      <4>1. via[g] \in {kseg0(g), kseg1(g)}
        BY <1>5, <3>2 DEF CodeInv, RunAtOwnWindow
      <4>2. via[g] \in Pages /\ via[g] \notin {p, k, u}
        BY <1>6, <3>2, <4>1
      <4> QED
        BY <1>3, <1>4, <1>5, <2>1, <3>2, <4>2 DEF OrdinaryInv, TailDecoded
    <3> QED
      BY <3>1, <3>2
  <2>8. PageDecoded'
    <3> SUFFICES ASSUME NEW g \in Frames, via'[g] \in Mapped, tlb_LUT_r[via'[g]] = g,
                        via'[g] \notin invalid_code',
                        kseg0(g) \notin invalid_code', kseg1(g) \notin invalid_code'
                 PROVE  blocks'[via'[g]].ops = rdram[g]
      BY <1>1 DEF PageDecoded
    <3>1. CASE g = f
      BY <1>5, <2>4, <3>1
    <3>2. CASE g # f
      <4>1. via'[g] = via[g] /\ via[g] # p
        BY <1>2, <1>5, <3>2
      <4>2. via[g] \in Pages /\ via[g] \notin {p, k, u}
        BY <1>6, <4>1
      <4>3. via[g] \notin invalid_code /\ kseg0(g) \notin invalid_code /\ kseg1(g) \notin invalid_code
        BY <1>3, <1>4, <1>6, <3>2, <4>1, <4>2
      <4>4. blocks'[via[g]] = blocks[via[g]]
        BY <1>3, <1>4, <4>2
      <4> QED
        BY <2>1, <4>1, <4>3, <4>4 DEF OrdinaryInv, PageDecoded
    <3> QED
      BY <3>1, <3>2
  <2>9. HashDecoded'
    <3> SUFFICES ASSUME NEW g \in Frames, via'[g] \in Mapped, blocks'[via'[g]].hash # None
                 PROVE  blocks'[via'[g]].ops = blocks'[via'[g]].hash
      BY DEF HashDecoded
    <3>1. CASE via'[g] = p
      BY <2>6, <3>1
    <3>2. CASE via'[g] # p
      <4>1. via'[g] = via[g] /\ via[g] \in Pages /\ via[g] \notin {p, k, u}
        BY <1>5, <1>6, <3>2
      <4> QED
        BY <1>3, <1>4, <2>1, <4>1 DEF OrdinaryInv, HashDecoded
    <3> QED
      BY <3>1, <3>2
  <2>10. FrameMarked'
    <3> SUFFICES ASSUME NEW g \in Frames, via'[g] \in Mapped, kseg0(g) \notin invalid_code'
                 PROVE  blocks'[kseg0(g)].ops # NOTCOMPILED
      BY DEF FrameMarked
    <3>1. CASE g = f
      BY <1>5, <2>5, <3>1 DEF k
    <3>2. CASE g # f
      BY <1>3, <1>4, <1>5, <1>6, <2>1, <3>2 DEF OrdinaryInv, FrameMarked
    <3> QED
      BY <3>1, <3>2
  <2> QED
    BY <2>7, <2>8, <2>9, <2>10, <2>11 DEF OrdinaryInv
<1> QED
  BY <1>7, <1>8, <1>9, <1>10

\* A TLB write takes a block away, keeping its hash, or gives it back when the
\* hash is that of the page now mapped.
LEMMA TlbKeepsCode ==
    ASSUME CodeInv, NEW i \in Entries, NEW e \in NewEntries, Allowed(i, e), write_entry(i, e)
    PROVE  RunAtOwnWindow' /\ WindowsFollowRuns' /\ NoForgottenBlock'
           /\ (ordinary' => OrdinaryInv')
<1> DEFINE o == tlb_e[i]
<1>t. TypeOK
  BY DEF CodeInv
<1>e. e \in NewEntryType /\ e.vpn2 \in Pairs
  BY CacheAssumption DEF NewEntryType
<1>c. Cache \in CacheType /\ Cache.invalid = invalid_code /\ Cache.blocks = blocks
  BY <1>t, CacheIsTyped
<1>1. /\ tlb_e' = [tlb_e EXCEPT ![i] = e]
      /\ ordinary' = (ordinary /\ HashesOwnFrame(o))
      /\ UNCHANGED <<rdram, via>>
  BY DEF write_entry
<1>2. /\ tlb_e'[i] = e
      /\ \A j \in Entries : j # i => tlb_e'[j] = tlb_e[j] /\ tlb_e[j].vpn2 # e.vpn2
  BY <1>t, <1>1 DEF TypeOK, Allowed
<1>3. /\ \A x \in Mapped :
           /\ tlb_LUT_r'[x] = IF Covers(e, x) /\ half(e, x[2]).pfn # Outside
                              THEN half(e, x[2]).pfn
                              ELSE IF Covers(o, x) THEN None ELSE tlb_LUT_r[x]
           /\ blocks'[x].ops = blocks[x].ops
           /\ blocks'[x].hash =
                IF ~Covers(o, x) THEN blocks[x].hash
                ELSE IF Stale(Cache, x, tlb_LUT_r[x]) THEN None ELSE rdram[tlb_LUT_r[x]]
           /\ x \notin invalid_code' =>
                \/ ~Covers(o, x) /\ x \notin invalid_code
                \/ /\ Covers(e, x)
                   /\ blocks'[x].hash = rdram[IF tlb_LUT_r'[x] = None THEN Frame0
                                              ELSE tlb_LUT_r'[x]]
      /\ \A x \in Direct : /\ x \in invalid_code' <=> x \in invalid_code
                           /\ blocks'[x] = blocks[x]
  BY <1>t, <1>e, <1>c, WriteEffect DEF TypeOK
<1>4. RunAtOwnWindow' /\ WindowsFollowRuns'
  BY <1>1, <1>3, WindowPages DEF CodeInv, RunAtOwnWindow, WindowsFollowRuns
<1>5. \A x \in Mapped : (\A j \in Entries : ~Covers(tlb_e[j], x)) =>
        IF tlb_LUT_r[x] = None THEN x \in invalid_code
        ELSE \A f \in Frames : via[f] = x => f = tlb_LUT_r[x]
  BY DEF CodeInv, NoForgottenBlock
<1> HIDE DEF o
<1>6. NoForgottenBlock'
  <2> SUFFICES ASSUME NEW x \in Mapped, \A j \in Entries : ~Covers(tlb_e'[j], x)
               PROVE  IF tlb_LUT_r'[x] = None THEN x \in invalid_code'
                      ELSE \A f \in Frames : via[f] = x => f = tlb_LUT_r'[x]
    BY <1>1 DEF NoForgottenBlock
  <2>1. ~Covers(e, x)
    BY <1>2
  <2>2. CASE Covers(o, x)
    BY <1>3, <2>1, <2>2
  <2>3. CASE ~Covers(o, x)
    <3>1. \A j \in Entries : ~Covers(tlb_e[j], x)
      BY <1>2, <2>3 DEF o
    <3>2. tlb_LUT_r'[x] = tlb_LUT_r[x] /\ (x \in invalid_code => x \in invalid_code')
      BY <1>3, <2>1, <2>3
    <3> QED
      BY <1>5, <3>1, <3>2
  <2> QED
    BY <2>2, <2>3
<1>7. ASSUME ordinary' PROVE OrdinaryInv'
  <2>1. OrdinaryInv /\ HashesOwnFrame(o)
    BY <1>1, <1>7 DEF CodeInv
  <2>2. WindowDecoded' /\ TailDecoded'
    BY <1>1, <1>3, <2>1 DEF OrdinaryInv, WindowDecoded, TailDecoded
  <2>3. FrameMarked'
    BY <1>1, <1>3, <2>1, WindowPages DEF OrdinaryInv, FrameMarked
  <2>4. ASSUME NEW x \in Mapped, Covers(o, x), blocks'[x].hash # None
        PROVE  blocks'[x].ops = blocks'[x].hash
    <3> DEFINE g == tlb_LUT_r[x]
    <3>1. ~Stale(Cache, x, g) /\ blocks'[x].hash = rdram[g]
      BY <1>3, <2>4
    <3>2. /\ g \in Frames /\ x \notin invalid_code
          /\ kseg0(g) \notin invalid_code /\ kseg1(g) \notin invalid_code
      <4>1. g \in Frames \cup {None}
        BY <1>t DEF TypeOK, LutType
      <4> HIDE DEF g
      <4> QED
        BY <1>c, <3>1, <4>1 DEF Stale
    <3>3. via[g] = x
      <4>1. x[2] \in Halves /\ x = <<o.vpn2, x[2]>> /\ half(o, x[2]).v
        BY <2>4, MappedPages DEF Covers
      <4> QED
        BY <2>1, <3>1, <4>1 DEF HashesOwnFrame
    <3> HIDE DEF g
    <3>4. tlb_LUT_r[x] = g
      BY DEF g
    <3>5. blocks[x].ops = rdram[g]
      BY <2>1, <3>2, <3>3, <3>4 DEF OrdinaryInv, PageDecoded
    <3> QED
      BY <1>3, <3>1, <3>5
  <2>5. HashDecoded'
    <3> SUFFICES ASSUME NEW f \in Frames, via[f] \in Mapped, blocks'[via[f]].hash # None
                 PROVE  blocks'[via[f]].ops = blocks'[via[f]].hash
      BY <1>1 DEF HashDecoded
    <3>1. CASE Covers(o, via[f])
      BY <2>4, <3>1
    <3>2. CASE ~Covers(o, via[f])
      BY <1>3, <2>1, <3>2 DEF OrdinaryInv, HashDecoded
    <3> QED
      BY <3>1, <3>2
  <2>6. PageDecoded'
    <3> SUFFICES ASSUME NEW f \in Frames, via[f] \in Mapped, tlb_LUT_r'[via[f]] = f,
                        via[f] \notin invalid_code',
                        kseg0(f) \notin invalid_code', kseg1(f) \notin invalid_code'
                 PROVE  blocks'[via[f]].ops = rdram[f]
      BY <1>1 DEF PageDecoded
    <3> DEFINE x == via[f]
    <3>1. kseg0(f) \notin invalid_code /\ kseg1(f) \notin invalid_code
      BY <1>3, WindowPages
    <3>2. f # None /\ rdram[f] \in Words /\ None \notin Words
      BY <1>t, CacheAssumption DEF TypeOK
    <3>3. CASE blocks'[x].hash = rdram[f]
      <4>1. blocks'[x].ops = blocks'[x].hash
        BY <1>1, <2>5, <3>2, <3>3 DEF HashDecoded
      <4> QED
        BY <3>3, <4>1
    <3>4. CASE ~Covers(o, x) /\ x \notin invalid_code
      <4>1. tlb_LUT_r[x] = f
        <5>1. CASE ~Covers(e, x)
          BY <1>3, <3>4, <5>1
        <5>2. CASE Covers(e, x)
          <6>1. \A j \in Entries : ~Covers(tlb_e[j], x)
            BY <1>2, <3>4, <5>2 DEF Covers, o
          <6> QED
            BY <1>5, <3>4, <6>1
        <5> QED
          BY <5>1, <5>2
      <4>2. blocks[x].ops = rdram[f]
        BY <2>1, <3>1, <3>4, <4>1 DEF OrdinaryInv, PageDecoded
      <4> QED
        BY <1>3, <4>2
    <3> QED
      BY <1>3, <3>2, <3>3, <3>4
  <2> QED
    BY <2>2, <2>3, <2>5, <2>6 DEF OrdinaryInv
<1> QED
  BY <1>4, <1>6, <1>7

\* Every step keeps the invariant.
LEMMA CodeStep == CodeInv /\ [Next]_vars => CodeInv'
<1> SUFFICES ASSUME CodeInv, [Next]_vars PROVE CodeInv'
  OBVIOUS
<1>t. TypeOK'
  BY TypeStep DEF CodeInv
<1>1. ASSUME UNCHANGED <<tlb_e, tlb_LUT_r, rdram, invalid_code, blocks, via, ordinary>>
      PROVE  CodeInv'
  BY <1>1, <1>t DEF CodeInv, RunAtOwnWindow, WindowsFollowRuns, NoForgottenBlock, OrdinaryInv,
     WindowDecoded, TailDecoded, PageDecoded, HashDecoded, FrameMarked
<1>2. ASSUME NEW i \in Entries, NEW e \in NewEntries, Allowed(i, e), write_entry(i, e)
      PROVE  CodeInv'
  BY <1>2, <1>t, TlbKeepsCode DEF CodeInv
<1>3. ASSUME NEW p \in Jumps, jump_to(p) PROVE CodeInv'
  <2>1. p \in Pages
    BY CacheAssumption
  <2> QED
    BY <1>3, <1>t, <2>1, JumpKeepsCode DEF CodeInv
<1>4. ASSUME NEW word \in Words,
             \/ \E p \in Direct : store_direct(p, word)
             \/ \E p \in Mapped : store_mapped(p, word)
             \/ \E f \in Frames : dma_pi_write(f, word) \/ dma_unmarked(f, word)
      PROVE  CodeInv'
  BY <1>4, <1>t, StoreKeepsCode
<1>5. CASE save
  BY <1>1, <1>5 DEF save
<1>6. CASE load \/ core_start
  <2>1. invalid_code' = Pages /\ via' = [f \in Frames |-> None]
    BY <1>6 DEF load, core_start
  <2>2. \A f \in Frames : via'[f] = None /\ kseg0(f) \in Pages /\ kseg1(f) \in Pages
    BY <2>1, WindowPages
  <2>3. None \notin Direct /\ None \notin Mapped /\ \A p \in Mapped : p \in Pages /\ p # None
    BY WindowPages
  <2>4. RunAtOwnWindow' /\ WindowsFollowRuns' /\ NoForgottenBlock'
    BY <2>1, <2>2, <2>3 DEF RunAtOwnWindow, WindowsFollowRuns, NoForgottenBlock
  <2>5. OrdinaryInv'
    BY <2>2, <2>3
    DEF OrdinaryInv, WindowDecoded, TailDecoded, PageDecoded, HashDecoded, FrameMarked
  <2> QED
    BY <1>t, <2>4, <2>5 DEF CodeInv
<1>7. CASE UNCHANGED vars
  BY <1>1, <1>7 DEF vars
<1> QED
  BY <1>2, <1>3, <1>4, <1>5, <1>6, <1>7 DEF Next, Program, TLBWI, TLBWR

\* The code that a jump runs is the code that memory holds there, also where it
\* runs on into the next frame, for any pages, frames and programs that keep to
\* ordinary: a frame that the code of a window runs on into is not written
\* (update_invalid_addr, check_memory, recompile_block, the hashes of tlb.cpp).
THEOREM JumpsRunCurrentCode == Spec => []RunsCurrentCode
<1>1. Init => CodeInv
  <2> SUFFICES ASSUME Init PROVE CodeInv
    OBVIOUS
  <2>1. invalid_code = Pages /\ via = [f \in Frames |-> None]
    BY DEF Init
  <2>2. \A f \in Frames : via[f] = None /\ kseg0(f) \in Pages /\ kseg1(f) \in Pages
    BY <2>1, WindowPages
  <2>3. None \notin Direct /\ None \notin Mapped /\ \A p \in Mapped : p \in Pages /\ p # None
    BY WindowPages
  <2>4. RunAtOwnWindow /\ WindowsFollowRuns /\ NoForgottenBlock
    BY <2>1, <2>2, <2>3 DEF RunAtOwnWindow, WindowsFollowRuns, NoForgottenBlock
  <2>5. OrdinaryInv
    BY <2>2, <2>3
    DEF OrdinaryInv, WindowDecoded, TailDecoded, PageDecoded, HashDecoded, FrameMarked
  <2> QED
    BY <2>4, <2>5, TypeInit DEF CodeInv
<1>2. CodeInv => RunsCurrentCode
  <2> SUFFICES ASSUME CodeInv, ordinary, NEW p \in Pages, Frame(p) # None,
                      via[Frame(p)] \in {None, p}
               PROVE  Current(runs(Cache, p, Frame(p)).blocks[p], p, Frame(p))
    BY DEF RunsCurrentCode, Current
  <2> DEFINE f == Frame(p)
  <2>t. TypeOK /\ OrdinaryInv
    BY DEF CodeInv
  <2>1. /\ f \in Frames
        /\ p \in Mapped => tlb_LUT_r[p] = f
        /\ p \in Mapped \/ p \in {kseg0(f), kseg1(f)}
    BY <2>t, FrameOfPage
  <2>2. Cache \in CacheType /\ Cache.invalid = invalid_code /\ Cache.blocks = blocks
    BY <2>t, CacheIsTyped
  <2>3. \/ Fresh(runs(Cache, p, f).blocks[p], p, f)
        \/ /\ runs(Cache, p, f) = Cache
           /\ p \notin invalid_code /\ kseg0(f) \notin invalid_code /\ kseg1(f) \notin invalid_code
    <3>1. rdram \in [Frames -> Words]
      BY <2>t DEF TypeOK
    <3> QED
      BY <2>1, <2>2, <3>1, RunsEffect
  <2> HIDE DEF f
  <2>4. CASE runs(Cache, p, f) = Cache
             /\ p \notin invalid_code /\ kseg0(f) \notin invalid_code /\ kseg1(f) \notin invalid_code
    <3>1. via[f] = p
      BY <2>1, <2>4 DEF CodeInv, WindowsFollowRuns, f
    <3>2. blocks[p].ops = rdram[f]
      BY <2>t, <2>1, <2>4, <3>1, WindowPages DEF OrdinaryInv, WindowDecoded, PageDecoded
    <3>3. Current(blocks[p], p, f)
      BY <2>t, <2>1, <2>4, <3>1, <3>2 DEF Current, OrdinaryInv, TailDecoded
    <3> QED
      BY <2>2, <2>4, <3>3 DEF f
  <2> QED
    BY <2>3, <2>4 DEF f, Fresh
<1> QED
  BY <1>1, <1>2, CodeStep, PTL DEF Spec

=============================================================================
