------------------------------ MODULE RegCache ------------------------------
(***************************************************************************)
(* The register cache of the dynamic recompiler                            *)
(* (src/Core/r4300/x86/regcache.cpp): which half of which N64 register     *)
(* each x86 register holds while a block is compiled, and the code that    *)
(* loads and writes back.  An operator takes the state of the compiler and *)
(* returns the next one, with the register it chose in field ret.          *)
(*                                                                         *)
(* Code is emitted as abstract instructions; what they compute is in       *)
(* module Recompiler.  An instruction of the block is known by its number, *)
(* and an address by the register and the half it belongs to.              *)
(***************************************************************************)
EXTENDS Integers, Sequences

CONSTANTS
    GPR,         \* the N64 registers an instruction can write
    MaxLength    \* bound: instructions of a block

ASSUME RegCacheAssumption ==
    /\ GPR \cap {"r0", "hi", "lo", "null", "unset"} = {}
    /\ MaxLength \in Nat \ {0}

N64 == GPR \cup {"r0", "hi", "lo"}
Addr == N64 \X {0, 1}
Low(n) == <<n, 0>>
High(n) == <<n, 1>>
Null == <<"null", 0>>
Unset == <<"unset", 0>>     \* malloc does not clear needed_registers

EAX == 0
ECX == 1
EDX == 2
EBX == 3
ESP == 4
X86 == 0 .. 7
None == -1

Numbers == 1 .. MaxLength + 1

(* dst: the instruction being compiled.  la: last_access, 0 for NULL.  fs:  *)
(* free_since.  start: local_addr, as the number of the next piece of code. *)
(* narrow: the registers that are cached as a modified 32-bit value where   *)
(* an instruction begins.                                                   *)
init_cache ==
    [dst     |-> 0,
     la      |-> [x \in X86 |-> 0],
     fs      |-> [x \in X86 |-> 1],
     content |-> [x \in X86 |-> Null],
     dirty   |-> [x \in X86 |-> FALSE],
     r64     |-> [x \in X86 |-> None],
     needed  |-> [k \in Numbers |-> [x \in X86 |-> Unset]],
     narrow  |-> [k \in Numbers |-> {}],
     start   |-> [k \in Numbers |-> 0],
     code    |-> <<>>,
     ret     |-> None]
-----------------------------------------------------------------------------
emit(s, ops) == [s EXCEPT !.code = @ \o ops]

Cached(s, x) == s.la[x] # 0
Holders(s, a) == {x \in X86 : Cached(s, x) /\ s.content[x] = a}
Paired(s, x) == Cached(s, x) /\ s.r64[x] # None

(* The instructions from "from" to dst find v in needed_registers[x].       *)
need(s, x, from, v) ==
    [s EXCEPT !.needed = [k \in Numbers |->
        IF k \in from .. s.dst THEN [@[k] EXCEPT ![x] = v] ELSE @[k]]]

mark_free(s, x) == [s EXCEPT !.la[x] = 0, !.fs[x] = s.dst + 1]

mark_unused(s, x) ==
    IF Cached(s, x) THEN s
    ELSE [need(s, x, s.fs[x], Null) EXCEPT
             !.fs[x] = IF @ > s.dst THEN @ ELSE s.dst + 1]

(* What has to be loaded to enter between the last access and here.         *)
written_back(s, x) == IF s.dirty[x] THEN s.content[x] ELSE Null

write_back(s, x) ==
    IF ~s.dirty[x] THEN <<>>
    ELSE IF s.r64[x] = None
    THEN << <<"store", s.content[x], x>>, <<"sar", x>>, <<"store", High(s.content[x][1]), x>> >>
    ELSE << <<"store", s.content[x], x>>, <<"store", s.content[s.r64[x]], s.r64[x]>> >>

(* Of a pair, the low half is freed and takes the other with it.            *)
free_register(s, reg) ==
    IF ~Cached(s, reg) THEN mark_unused(s, reg)
    ELSE LET x == IF Paired(s, reg) /\ s.content[reg][2] = 1 THEN s.r64[reg] ELSE reg
             y == s.r64[x]
             n == need(s, x, s.la[x] + 1, written_back(s, x))
             w == emit(IF y = None THEN n ELSE need(n, y, s.la[x] + 1, written_back(s, y)),
                       write_back(s, x))
         IN  IF y = None THEN mark_free(w, x) ELSE mark_free(mark_free(w, x), y)

free_all_registers(s) ==
    LET freed[x \in 0 .. 8] == IF x = 0 THEN s ELSE free_register(freed[x - 1], x - 1)
    IN  freed[8]
-----------------------------------------------------------------------------
(* Choosing a register: the least recently used one, ESP excepted.          *)
lru_register_exc1(s, exc1) ==
    LET free == X86 \ {ESP, exc1}
    IN  CHOOSE x \in free : \A y \in free :
            s.la[x] < s.la[y] \/ (s.la[x] = s.la[y] /\ x <= y)

lru_register(s) == lru_register_exc1(s, None)

(* Mutant of touch: the instructions since the last access do not need it.  *)
touch_unneeded(s, x) ==
    [(IF s.r64[x] = None THEN [s EXCEPT !.la[x] = s.dst]
      ELSE [s EXCEPT !.la[x] = s.dst, !.la[s.r64[x]] = s.dst]) EXCEPT !.ret = x]

(* x and the other half are used again, as they are.                        *)
touch(s, x) ==
    LET one(t, y) == [need(t, y, s.la[y] + 1, s.content[y]) EXCEPT !.la[y] = s.dst]
    IN  [(IF s.r64[x] = None THEN one(s, x) ELSE one(one(s, x), s.r64[x])) EXCEPT !.ret = x]

(* The other half of x is given up.                                         *)
drop_pair(s, x, v) ==
    IF s.r64[x] = None THEN s
    ELSE [mark_free(need(s, s.r64[x], s.la[s.r64[x]] + 1, v), s.r64[x]) EXCEPT !.r64[x] = None]

(* x is given to address a.                                                 *)
take(s, x, a, d) ==
    [s EXCEPT !.la[x] = s.dst, !.content[x] = a, !.dirty[x] = d, !.r64[x] = None, !.ret = x]

load(s, x, a) == IF a = Null THEN s ELSE emit(s, << <<"load", x, a>> >>)

allocate_register(s, a) ==
    LET held == IF a = Null THEN {} ELSE Holders(s, a)
        x == lru_register(s)
    IN  IF held # {} THEN touch(s, CHOOSE y \in held : TRUE)
        ELSE load(take(free_register(s, x), x, a, FALSE), x, a)

allocate_register_w(s, a) ==
    LET held == Holders(s, a)
        x == IF held = {} THEN lru_register(s) ELSE CHOOSE y \in held : TRUE
    IN  IF held = {} THEN take(free_register(s, x), x, a, TRUE)
        ELSE [drop_pair(need(s, x, s.la[x] + 1, Null), x, Null) EXCEPT
                 !.la[x] = s.dst, !.dirty[x] = TRUE, !.ret = x]

(* Mutant of pair: the high half does not know the low one.                 *)
pair_one_way(s, x, y) == [s EXCEPT !.r64[x] = y, !.ret = x]

pair(s, x, y) == [s EXCEPT !.r64[x] = y, !.r64[y] = x, !.ret = x]

extend_sign(s, x, y) ==
    [emit(s, << <<"mov", y, x>>, <<"sar", y>> >>) EXCEPT
        !.content[y] = High(s.content[x][1]), !.dirty[y] = TRUE]

(* The high half joins the low one in x, from memory or, of a modified      *)
(* 32-bit value, by its sign.                                               *)
join(s, x, narrow) ==
    IF narrow THEN extend_sign(pair(s, x, s.ret), x, s.ret) ELSE pair(s, x, s.ret)

allocate_high(s, n, narrow) ==
    join(allocate_register(s, IF narrow THEN Null ELSE High(n)), s.ret, narrow)

(* allocate_64_register1 and allocate_64_register2 differ in the half they  *)
(* return: ret is the low one, and the high one is r64[ret].                *)
allocate_64_register(s, n) ==
    allocate_high(allocate_register(s, Low(n)), n,
                  \E x \in Holders(s, Low(n)) : s.r64[x] = None /\ s.dirty[x])

(* The high half of x goes to y; free_since of a register that extends a    *)
(* cached value is left as it is.                                           *)
widen(s, x, y, n, new) ==
    LET freed == IF new \/ Cached(s, y) THEN free_register(s, y) ELSE s
    IN  [pair([freed EXCEPT !.la[y] = s.dst], x, y) EXCEPT
            !.content[y] = High(n), !.dirty[y] = TRUE]

allocate_high_w(s, n, new) ==
    IF new THEN widen(s, s.ret, lru_register(s), n, TRUE)
    ELSE extend_sign(widen(s, s.ret, lru_register(s), n, FALSE), s.ret, lru_register(s))

(* A new pair whose high half is written too.                               *)
allocate_64_register_w(s, n) ==
    IF \A x \in Holders(s, Low(n)) : s.r64[x] = None
    THEN allocate_high_w(allocate_register_w(s, Low(n)), n, Holders(s, Low(n)) = {})
    ELSE LET x == CHOOSE y \in Holders(s, Low(n)) : TRUE
         IN  [s EXCEPT !.la[x] = s.dst, !.la[s.r64[x]] = s.dst,
                       !.dirty[x] = TRUE, !.dirty[s.r64[x]] = TRUE, !.ret = x]

is64(s, n) ==
    LET held == Holders(s, Low(n))
    IN  IF held = {} THEN -1 ELSE IF \E x \in held : s.r64[x] # None THEN 1 ELSE 0

set_register_state(s, x, a, d) == take(s, x, a, d)

set_64_register_state(s, x, y, n, d) ==
    pair(take(take(s, x, Low(n), d), y, High(n), d), x, y)

(* A value in another register moves to x, pair and all.                    *)
allocate_register_manually(s, x, a) ==
    LET f == free_register(s, x)
        held == Holders(f, a)
        y == CHOOSE z \in held : TRUE
        t == touch(f, y)
        moved == [emit(t, << <<"mov", x, y>> >>) EXCEPT
                     !.la[x] = s.dst, !.r64[x] = t.r64[y], !.dirty[x] = t.dirty[y],
                     !.content[x] = a, !.ret = x]
        partner == IF t.r64[y] = None THEN moved ELSE [moved EXCEPT !.r64[t.r64[y]] = x]
    IN  IF x \in Holders(s, a) THEN touch(s, x)
        ELSE IF held = {} THEN load(take(f, x, a, FALSE), x, a)
        ELSE mark_free(partner, y)

(* As the recompiler uses it, the value is not loaded.                      *)
allocate_register_manually_w(s, x, a) ==
    LET f == free_register(s, x)
        held == Holders(f, a)
        y == CHOOSE z \in held : TRUE
        dropped == mark_free(drop_pair(need(f, y, f.la[y] + 1, a), y, Null), y)
    IN  IF x \in Holders(s, a)
        THEN LET t == touch(s, x)
             IN  [(IF s.r64[x] = None THEN t ELSE [mark_free(t, s.r64[x]) EXCEPT !.r64[x] = None])
                     EXCEPT !.dirty[x] = TRUE]
        ELSE take(IF held = {} THEN f ELSE dropped, x, a, TRUE)

(* Both halves are written back, and only the low one is kept.              *)
force_32(s, x) ==
    IF s.r64[x] = None THEN s
    ELSE LET y == s.r64[x]
             n == need(need(s, x, s.la[x] + 1, written_back(s, x)),
                       y, s.la[x] + 1, written_back(s, y))
         IN  [mark_free(emit(n, write_back(s, x)), y) EXCEPT !.dirty[x] = FALSE, !.r64[x] = None]

(* The instruction is entered after the code emitted so far for it.         *)
simplify_access(s) ==
    [s EXCEPT !.start[s.dst] = Len(s.code), !.needed[s.dst] = [x \in X86 |-> Null]]
-----------------------------------------------------------------------------
(* The two halves of a value are cached together, and modified together.    *)
PairsMatch(s) == \A x \in X86 : Paired(s, x) =>
    /\ Cached(s, s.r64[x]) /\ s.r64[s.r64[x]] = x
    /\ s.content[x][1] = s.content[s.r64[x]][1]
    /\ s.content[x][2] # s.content[s.r64[x]][2]
    /\ s.dirty[x] = s.dirty[s.r64[x]]

(* No value is cached twice, and no high half alone.                        *)
CachedOnce(s) ==
    /\ \A x, y \in X86 : Cached(s, x) /\ Cached(s, y) /\ x # y => s.content[x] # s.content[y]
    /\ \A x \in X86 : Cached(s, x) /\ s.content[x][2] = 1 => Paired(s, x)
    /\ ~Cached(s, ESP)
=============================================================================
