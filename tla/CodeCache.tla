----------------------------- MODULE CodeCache -----------------------------
(***************************************************************************)
(* The TLB and the cache of decoded code of the cached interpreter and the *)
(* recompiler (src/Core/memory/tlb.cpp, r4300/r4300.cpp, r4300/recomp.cpp, *)
(* memory/dma.cpp).  Code is decoded a page at a time and a page of        *)
(* physical memory can be reached under several addresses: the cached and  *)
(* the uncached window (kseg0, kseg1) and every page the TLB maps to it.   *)
(* Each address has a block of its own and its own invalid_code flag; what *)
(* is checked is that the flags, the "not compiled" marks and the content  *)
(* hashes together keep the machine from running code that memory no       *)
(* longer holds.                                                           *)
(*                                                                         *)
(* A page is modelled by one instruction word.  The block of a window goes *)
(* on into the next frame when its code does not end in a jump: it has a   *)
(* tail, the word of that frame.  A TLB entry maps a pair of pages (even   *)
(* and odd); a larger page mask only repeats the loops.                    *)
(***************************************************************************)
EXTENDS FiniteSets, Integers

CONSTANTS
    Frames,      \* pages of physical memory
    Frame0,      \* the page at physical address 0
    Following,   \* the page after each, or None
    Words,       \* what a page can hold
    Through,     \* words whose code runs off the end of its page: no J, JR or ERET there
    Blank,       \* what it holds when the machine starts
    Low, High,   \* pairs of mapped pages below and above 0x40000000
    Entries,     \* indexes of TLB entries
    Wired,       \* the indexes below the Wired register
    NewEntries,  \* the entries the program writes: pair, even half, odd half
    Jumps,       \* the pages it jumps to
    None         \* no frame, no block, no savestate

Outside == "Outside"            \* a frame number of 0x20000 or more
NOTCOMPILED == "NOTCOMPILED"
NOTCOMPILED2 == "NOTCOMPILED2"

Pairs == Low \cup High
Halves == {"even", "odd"}
Mapped == Pairs \X Halves                  \* the pages under 0x80000000
kseg0(f) == <<"kseg0", f>>
kseg1(f) == <<"kseg1", f>>
Direct == {"kseg0", "kseg1"} \X Frames
Pages == Mapped \cup Direct

VARIABLES
    tlb_e,        \* the TLB entries
    tlb_LUT_r,    \* page table for reads and fetches, kept next to the TLB
    tlb_LUT_w,    \* page table for writes
    rdram,        \* the word each frame holds
    invalid_code, \* the pages whose block must be decoded again
    blocks,       \* the block of each page: its one instruction, its tail, its hash
    saved,        \* the savestate: memory, TLB and page tables
    via,          \* history: the page each frame was run at since the last load
    ordinary,     \* history: since then each frame was run at one page, no store
                  \* to it went past the block of that page, none went to a frame
                  \* that the code run at a window runs on into, and no block of
                  \* another page took its hash
    leftover      \* history: the write table may hold entries of an earlier run

vars == <<tlb_e, tlb_LUT_r, tlb_LUT_w, rdram, invalid_code, blocks, saved, via, ordinary, leftover>>

Lo == [pfn : Frames \cup {Outside}, v : BOOLEAN, d : BOOLEAN]
Unmapped == [vpn2 |-> None, even |-> [pfn |-> Frame0, v |-> FALSE, d |-> FALSE],
                            odd  |-> [pfn |-> Frame0, v |-> FALSE, d |-> FALSE]]
EntryType == [vpn2 : Pairs, even : Lo, odd : Lo] \cup {Unmapped}

ASSUME CacheAssumption ==
    /\ Frame0 \in Frames
    /\ Blank \in Words
    /\ Following \in [Frames -> Frames \cup {None}]
    /\ \A f \in Frames : Following[f] # f
    /\ Through \subseteq Words
    /\ Wired \subseteq Entries
    /\ None \notin Frames \cup Words \cup Pairs \cup Pages
    /\ Outside \notin Frames \cup {None}
    /\ {NOTCOMPILED, NOTCOMPILED2} \cap Words = {}
    /\ Mapped \cap Direct = {}
    /\ NewEntries \subseteq [vpn2 : Pairs, even : Lo, odd : Lo]
    /\ Jumps \subseteq Pages

NoBlock == [ops |-> None, tail |-> None, hash |-> None]
-----------------------------------------------------------------------------
(* Blocks and their flags: c is a record of invalid_code and blocks.        *)

(* write_nomem, check_memory, dma_pi_write: a store to a page whose         *)
(* instruction has been decoded, or marked, marks the page's block.         *)
check_memory(c, p) ==
    IF p \notin c.invalid /\ c.blocks[p].ops # NOTCOMPILED
    THEN [c EXCEPT !.invalid = @ \cup {p}] ELSE c

(* Two flags of which one is set are both set.                              *)
agree(c, p, r) ==
    IF p \in c.invalid \/ r \in c.invalid THEN [c EXCEPT !.invalid = @ \cup {p, r}] ELSE c

(* A jump first makes the flags of the addresses of the target agree.       *)
update_invalid_addr(c, p, f) ==
    LET windows == agree(c, kseg0(f), kseg1(f))
    IN  IF p \in Direct THEN windows ELSE agree(windows, kseg0(f), p)

empty(c, p) ==
    [invalid |-> c.invalid \ {p}, blocks |-> [c.blocks EXCEPT ![p].ops = NOTCOMPILED]]

(* An empty block, and one for the other window or for the frame behind a   *)
(* mapped page; the recursive calls end because the flag is already clear.  *)
init_direct(c, p, other) ==
    LET own == empty(c, p) IN IF other \in own.invalid THEN empty(own, other) ELSE own

init_block(c, p, f) ==
    CASE p = kseg0(f) -> init_direct(c, kseg0(f), kseg1(f))
      [] p = kseg1(f) -> init_direct(c, kseg1(f), kseg0(f))
      [] OTHER        -> init_direct(empty(c, p), kseg0(f), kseg1(f))

(* The block of a window is decoded up to a jump, at most a quarter page    *)
(* into the next frame; that of a mapped page ends with the page.           *)
decoded(b, p, f) ==
    LET next == IF p \in Direct /\ rdram[f] \in Through THEN Following[f] ELSE None
    IN  [ops |-> rdram[f], tail |-> IF next = None THEN b.tail ELSE rdram[next], hash |-> None]

(* Mutant: the instruction is not marked in the block of the frame.         *)
recompile_block_unmarked(c, p, f) == [c EXCEPT !.blocks[p] = decoded(@, p, f)]

(* Decoding an instruction of a mapped page marks it in the block of the    *)
(* frame, so that a store through kseg0 is noticed.                         *)
recompile_block(c, p, f) ==
    LET own == [c EXCEPT !.blocks[p] = decoded(@, p, f)]
    IN  IF p \in Mapped /\ own.blocks[kseg0(f)].ops = NOTCOMPILED
        THEN [own EXCEPT !.blocks[kseg0(f)].ops = NOTCOMPILED2] ELSE own

Cache == [invalid |-> invalid_code, blocks |-> blocks]

Becomes(c) == invalid_code' = c.invalid /\ blocks' = c.blocks

Frame(p) == IF p \in Direct THEN p[2] ELSE tlb_LUT_r[p]
-----------------------------------------------------------------------------
(* The TLB: t is a record of the two page tables and the cache.             *)

half(e, h) == IF h = "even" THEN e.even ELSE e.odd

(* Mutant: the page tables are cleared for reads only.                      *)
unmap_reads_only(t, e, h) ==
    LET p == <<e.vpn2, h>>
    IN  IF ~half(e, h).v THEN t
        ELSE [t EXCEPT !.r[p] = None,
                       !.c.invalid = @ \cup {p},
                       !.c.blocks[p].hash = None]

Stale(c, p, f) ==
    p \in c.invalid \/ f = None \/ kseg0(f) \in c.invalid \/ kseg1(f) \in c.invalid

(* The page is decoded again unless both windows of its frame are valid; if *)
(* they are, the block keeps the hash of the page.                          *)
unmap(t, e, h) ==
    LET p == <<e.vpn2, h>>
        f == t.r[p]
    IN  IF ~half(e, h).v THEN t
        ELSE [r |-> [t.r EXCEPT ![p] = None],
              w |-> IF half(e, h).d THEN [t.w EXCEPT ![p] = None] ELSE t.w,
              c |-> [invalid |-> t.c.invalid \cup {p},
                     blocks  |-> [t.c.blocks EXCEPT ![p].hash =
                                    IF Stale(t.c, p, f) THEN None ELSE rdram[f]]]]

(* A frame outside the memory map is not entered in the tables; a block     *)
(* whose hash is that of the page now mapped becomes valid again.           *)
map(t, e, h) ==
    LET p == <<e.vpn2, h>>
        f == half(e, h).pfn
        r == IF f = Outside THEN t.r ELSE [t.r EXCEPT ![p] = f]
        w == IF f = Outside \/ ~half(e, h).d THEN t.w ELSE [t.w EXCEPT ![p] = f]
        word == rdram[IF r[p] = None THEN Frame0 ELSE r[p]]
    IN  IF ~half(e, h).v THEN t
        ELSE [r |-> r, w |-> w,
              c |-> [t.c EXCEPT !.invalid =
                        IF t.c.blocks[p].hash = word THEN @ \ {p} ELSE @]]

(* The hash that a block keeps is that of the memory, which need not be     *)
(* what was decoded when the frame is run at another page.                  *)
HashesOwnFrame(e) ==
    \A h \in Halves :
        LET p == <<e.vpn2, h>> IN
        half(e, h).v /\ ~Stale(Cache, p, tlb_LUT_r[p]) => via[tlb_LUT_r[p]] = p

write_entry(i, e) ==
    LET t == [r |-> tlb_LUT_r, w |-> tlb_LUT_w, c |-> Cache]
        cleared == unmap(unmap(t, tlb_e[i], "even"), tlb_e[i], "odd")
        done == map(map(cleared, e, "even"), e, "odd")
    IN  /\ tlb_e' = [tlb_e EXCEPT ![i] = e]
        /\ tlb_LUT_r' = done.r
        /\ tlb_LUT_w' = done.w
        /\ Becomes(done.c)
        /\ ordinary' = (ordinary /\ HashesOwnFrame(tlb_e[i]))
        /\ UNCHANGED <<rdram, saved, via, leftover>>

(* The hardware forbids two entries for one pair of pages.                  *)
Allowed(i, e) == \A j \in Entries \ {i} : tlb_e[j].vpn2 # e.vpn2

TLBWI(i) == \E e \in NewEntries : Allowed(i, e) /\ write_entry(i, e)

(* Random lies between Wired and 31.                                        *)
TLBWR == \E i \in Entries \ Wired, e \in NewEntries : Allowed(i, e) /\ write_entry(i, e)
-----------------------------------------------------------------------------
Init ==
    /\ tlb_e = [i \in Entries |-> Unmapped]
    /\ tlb_LUT_r = [p \in Mapped |-> None]
    /\ tlb_LUT_w = [p \in Mapped |-> None]
    /\ rdram = [f \in Frames |-> Blank]
    /\ invalid_code = Pages
    /\ blocks = [p \in Pages |-> NoBlock]
    /\ saved = None
    /\ via = [f \in Frames |-> None]
    /\ ordinary = TRUE
    /\ leftover = FALSE

(* jump_to_func and the instruction it lands on, decoded if it is not yet.  *)
(* A jump to an unmapped page raises a refill exception instead.            *)
runs(c, p, f) ==
    LET found == update_invalid_addr(c, p, f)
        ready == IF p \in found.invalid THEN init_block(found, p, f) ELSE found
    IN  IF ready.blocks[p].ops \in {NOTCOMPILED, NOTCOMPILED2}
        THEN recompile_block(ready, p, f) ELSE ready

jump_to(p) ==
    LET f == Frame(p)
        c == runs(Cache, p, f)
    IN  /\ f # None
        /\ Becomes(c)
        /\ via' = [via EXCEPT ![f] = p]
        /\ ordinary' = (ordinary /\ via[f] \in {None, p})
        /\ UNCHANGED <<tlb_e, tlb_LUT_r, tlb_LUT_w, rdram, saved, leftover>>

(* The code of the frame before, run at a window, runs on into this one:    *)
(* the tail it has there is not invalidated by anything written here.       *)
RunInto(g) ==
    \E f \in Frames : Following[f] = g /\ via[f] \in Direct /\ rdram[f] \in Through

(* A store is noticed at the page it goes through; one to the frame itself  *)
(* (kseg0) also at the pages mapped to it.                                  *)
Noticed(f, through) ==
    /\ via[f] \in through \cup {None} \/ (kseg0(f) \in through /\ via[f] \in Mapped)
    /\ ~RunInto(f)

(* A store instruction through kseg0 or kseg1.                              *)
store_direct(p, word) ==
    /\ p \in Direct
    /\ rdram' = [rdram EXCEPT ![p[2]] = word]
    /\ Becomes(check_memory(Cache, p))
    /\ ordinary' = (ordinary /\ Noticed(p[2], {p}))
    /\ UNCHANGED <<tlb_e, tlb_LUT_r, tlb_LUT_w, saved, via, leftover>>

(* A store through the TLB: write_nomem looks at the mapped page, then the  *)
(* instruction's own check_memory at the frame, whose address the lookup    *)
(* left in "address".  A page that cannot be written raises an exception.   *)
store_mapped(p, word) ==
    LET f == tlb_LUT_w[p]
        marked == check_memory(Cache, p)
    IN  /\ IF f = None
           THEN /\ Becomes(marked)
                /\ UNCHANGED <<rdram, ordinary>>
           ELSE /\ Becomes(check_memory(marked, kseg0(f)))
                /\ rdram' = [rdram EXCEPT ![f] = word]
                /\ ordinary' = (ordinary /\ Noticed(f, {p, kseg0(f)}))
        /\ UNCHANGED <<tlb_e, tlb_LUT_r, tlb_LUT_w, saved, via, leftover>>

(* A cartridge transfer marks both windows.                                 *)
dma_pi_write(f, word) ==
    /\ rdram' = [rdram EXCEPT ![f] = word]
    /\ Becomes(check_memory(check_memory(Cache, kseg0(f)), kseg1(f)))
    /\ ordinary' = (ordinary /\ ~RunInto(f))
    /\ UNCHANGED <<tlb_e, tlb_LUT_r, tlb_LUT_w, saved, via, leftover>>

(* Transfers from battery-backed memory, the signal processor and the PIF   *)
(* write memory and mark nothing.                                           *)
dma_unmarked(f, word) ==
    /\ rdram' = [rdram EXCEPT ![f] = word]
    /\ ordinary' = (ordinary /\ Noticed(f, {}))
    /\ UNCHANGED <<tlb_e, tlb_LUT_r, tlb_LUT_w, invalid_code, blocks, saved, via, leftover>>

(* Bound: one savestate.  Of the page tables 0x100000 bytes are stored, a   *)
(* quarter of the pages.                                                    *)
save ==
    /\ saved = None
    /\ saved' = [rdram |-> rdram, tlb_e |-> tlb_e,
                 r |-> [p \in Low \X Halves |-> tlb_LUT_r[p]],
                 w |-> [p \in Low \X Halves |-> tlb_LUT_w[p]],
                 leftover |-> leftover]
    /\ UNCHANGED <<tlb_e, tlb_LUT_r, tlb_LUT_w, rdram, invalid_code, blocks, via, ordinary, leftover>>

(* load_memory_from_buffer; the jump it ends with is a later jump_to.       *)
load ==
    /\ saved # None
    /\ rdram' = saved.rdram
    /\ tlb_e' = saved.tlb_e
    /\ tlb_LUT_r' = [p \in Mapped |-> IF p \in DOMAIN saved.r THEN saved.r[p] ELSE tlb_LUT_r[p]]
    /\ tlb_LUT_w' = [p \in Mapped |-> IF p \in DOMAIN saved.w THEN saved.w[p] ELSE tlb_LUT_w[p]]
    /\ invalid_code' = Pages
    /\ via' = [f \in Frames |-> None]
    /\ ordinary' = TRUE
    /\ leftover' = saved.leftover
    /\ UNCHANGED <<blocks, saved>>

(* Stopping the core frees its blocks; core_start clears the TLB and, twice,*)
(* the table for reads, init_blocks sets every flag.                        *)
(* Bound: one new start while the write table is its own.                  *)
core_start ==
    /\ ~leftover
    /\ tlb_e' = [i \in Entries |-> Unmapped]
    /\ tlb_LUT_r' = [p \in Mapped |-> None]
    /\ rdram' = [f \in Frames |-> Blank]
    /\ invalid_code' = Pages
    /\ blocks' = [p \in Pages |-> NoBlock]
    /\ via' = [f \in Frames |-> None]
    /\ ordinary' = TRUE
    /\ leftover' = TRUE
    /\ UNCHANGED <<tlb_LUT_w, saved>>

(* Bound: once the cache may be stale only a load or a new start goes on.  *)
Program ==
    \/ \E i \in Entries : TLBWI(i)
    \/ TLBWR
    \/ \E p \in Jumps : jump_to(p)
    \/ \E p \in Direct, word \in Words : store_direct(p, word)
    \/ \E p \in Mapped, word \in Words : store_mapped(p, word)
    \/ \E f \in Frames, word \in Words : dma_pi_write(f, word) \/ dma_unmarked(f, word)
    \/ save

Next == (ordinary /\ Program) \/ load \/ core_start

Spec == Init /\ [][Next]_vars
-----------------------------------------------------------------------------
Maps(p, f) == \E i \in Entries :
    tlb_e[i].vpn2 = p[1] /\ half(tlb_e[i], p[2]).v /\ half(tlb_e[i], p[2]).pfn = f
Writable(p) == \E i \in Entries :
    tlb_e[i].vpn2 = p[1] /\ half(tlb_e[i], p[2]).v /\ half(tlb_e[i], p[2]).d

(* The page tables that stand in for the TLB hold exactly what its valid    *)
(* entries say, for the pages a savestate restores: no table entry outlives *)
(* the TLB entry it came from, and no mapping or write permission is lost.  *)
(* The table for writes does so until the core is started again.            *)
LutFollowsTlb ==
    \A p \in Low \X Halves :
        /\ \A f \in Frames : tlb_LUT_r[p] = f <=> Maps(p, f)
        /\ leftover \/ \A f \in Frames : tlb_LUT_w[p] = f <=> Maps(p, f) /\ Writable(p)

(* What a jump to a page would run is what memory holds there, in the page  *)
(* and where the code of a window runs on into the next frame, as long as   *)
(* each frame is run at one page, its code is written by cartridge          *)
(* transfers or by stores through that page or, if it is mapped, through    *)
(* kseg0, a frame that code runs on into is not written at all, and no      *)
(* other page with a valid block is unmapped from a frame.                  *)
RunsCurrentCode ==
    ordinary =>
        \A p \in Pages :
            LET f == Frame(p)
                block == runs(Cache, p, f).blocks[p]
            IN  f # None /\ via[f] \in {None, p} =>
                    /\ block.ops = rdram[f]
                    /\ p \in Direct /\ rdram[f] \in Through /\ Following[f] # None =>
                           block.tail = rdram[Following[f]]
=============================================================================
