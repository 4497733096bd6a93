----------------------------- MODULE HostMemory -----------------------------
(***************************************************************************)
(* How the emulator keeps the big-endian memory of the console in arrays   *)
(* of a little-endian host, and what every load and store instruction does *)
(* with such an array.  A value is the sequence of its bytes, most         *)
(* significant first; a memory is a function from host addresses to bytes. *)
(*                                                                         *)
(* RDRAM, the memories of the RSP and the save memories of the cartridge   *)
(* are arrays of host words: a byte of the console is found at its address *)
(* with the two lowest bits inverted (S8), a half word at its address with *)
(* the second bit inverted (S16).  The RAM of the PIF is an array of bytes *)
(* in the console's order, whose words are swapped when they are accessed. *)
(* Masks and shifts of the code are whole bytes, so that a register is     *)
(* shifted, cut and combined as a sequence.                                *)
(***************************************************************************)
EXTENDS Integers, Sequences

Zeros(n) == [i \in 1 .. n |-> 0]

\* address ^ S8 and address ^ S16
S8(a) == (a \div 4) * 4 + (3 - (a % 4))
S16(a) == (a \div 4) * 4 + ((a + 2) % 4)

\* A host value of n bytes at host address x, and the store of one.
host(h, x, n) == [i \in 1 .. n |-> h[x + n - i]]
set_host(h, x, v) ==
    [y \in DOMAIN h |-> IF y \in x .. x + Len(v) - 1 THEN v[x + Len(v) - y] ELSE h[y]]

\* sl: the bytes of a word in the opposite order.
sl(v) == [i \in 1 .. 4 |-> v[5 - i]]

-----------------------------------------------------------------------------
(***************************************************************************)
(* The handlers behind readmem, readmemb, readmemh, readmemd and the       *)
(* corresponding writers.                                                  *)
(***************************************************************************)
read_rdram(h, a, n) ==
    CASE n = 1 -> host(h, S8(a), 1)
      [] n = 2 -> host(h, S16(a), 2)
      [] n = 4 -> host(h, a, 4)
      [] n = 8 -> host(h, a, 4) \o host(h, a + 4, 4)

write_rdram(h, a, v) ==
    CASE Len(v) = 1 -> set_host(h, S8(a), v)
      [] Len(v) = 2 -> set_host(h, S16(a), v)
      [] Len(v) = 4 -> set_host(h, a, v)
      [] Len(v) = 8 -> set_host(set_host(h, a, SubSeq(v, 1, 4)), a + 4, SubSeq(v, 5, 8))

\* The memory is the part of the PIF's RAM before its last word, whose store
\* carries commands out.
read_pif(h, a, n) ==
    CASE n = 1 -> host(h, a, 1)
      [] n = 2 -> <<h[a], h[a + 1]>>
      [] n = 4 -> sl(host(h, a, 4))
      [] n = 8 -> sl(host(h, a, 4)) \o sl(host(h, a + 4, 4))

write_pif(h, a, v) ==
    CASE Len(v) = 1 -> set_host(h, a, v)
      [] Len(v) = 2 -> [h EXCEPT ![a] = v[1], ![a + 1] = v[2]]
      [] Len(v) = 4 -> set_host(h, a, sl(v))
      [] Len(v) = 8 -> set_host(set_host(h, a, sl(SubSeq(v, 1, 4))), a, sl(SubSeq(v, 5, 8)))

\* read_rdramreg and the registers of the RSP select a word by its address and
\* a part of it by the two lowest bits.
read_register(h, a, n) ==
    CASE n = 1 -> host(h, a - (a % 4) + S8(a % 4), 1)
      [] n = 2 -> host(h, a - (a % 4) + S16(a % 4), 2)
      [] OTHER -> read_rdram(h, a, n)

write_register(h, a, v) ==
    CASE Len(v) = 1 -> set_host(h, a - (a % 4) + S8(a % 4), v)
      [] Len(v) = 2 -> set_host(h, a - (a % 4) + S16(a % 4), v)
      [] OTHER -> write_rdram(h, a, v)

-----------------------------------------------------------------------------
(***************************************************************************)
(* Registers of 64 bits.  A read sets the whole register, zero extended.   *)
(***************************************************************************)
u64(v) == Zeros(8 - Len(v)) \o v
low(v, n) == SubSeq(v, Len(v) - n + 1, Len(v))

\* Shifts by n bytes, the n lowest or highest bytes with the others masked out,
\* and the combination of two values that have no byte in common.
shl(v, n) == SubSeq(v, n + 1, Len(v)) \o Zeros(n)
shr(v, n) == Zeros(n) \o SubSeq(v, 1, Len(v) - n)
keep_low(v, n) == Zeros(Len(v) - n) \o low(v, n)
keep_high(v, n) == SubSeq(v, 1, n) \o Zeros(Len(v) - n)
or(u, v) == [i \in DOMAIN u |-> u[i] + v[i]]

\* sign_extendedb, sign_extendedh and sign_extended
sign_extended(v, n) ==
    [i \in 1 .. 8 - n |-> IF v[9 - n] >= 128 THEN 255 ELSE 0] \o low(v, n)

\* The new register of a load: rt is the old one, k the position of the address
\* in its aligned word or double word, v what memory holds there.
LB(rt, k, v) == sign_extended(u64(v), 1)
LH(rt, k, v) == sign_extended(u64(v), 2)
LW(rt, k, v) == sign_extended(u64(v), 4)
LBU(rt, k, v) == u64(v)
LHU(rt, k, v) == u64(v)
LWU(rt, k, v) == u64(v)
LD(rt, k, v) == v
LWL(rt, k, v) == sign_extended(or(keep_low(rt, k), shl(u64(v), k)), 4)
LWR(rt, k, v) ==
    IF k = 3 THEN sign_extended(u64(v), 4)
    ELSE or(keep_high(rt, 7 - k), shr(u64(v), 3 - k))
LDL(rt, k, v) == or(keep_low(rt, k), shl(v, k))
LDR(rt, k, v) == or(keep_high(rt, 7 - k), shr(v, 7 - k))

\* The value that a partial store writes: old is what memory holds there.
SWL(rt, k, old) == or(shr(low(rt, 4), k), keep_high(old, k))
SWR(rt, k, old) == or(shl(low(rt, 4), 3 - k), keep_low(old, 3 - k))
SDL(rt, k, old) == or(shr(rt, k), keep_high(old, k))
SDR(rt, k, old) == or(shl(rt, 7 - k), keep_low(old, 7 - k))

=============================================================================
