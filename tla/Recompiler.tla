----------------------------- MODULE Recompiler -----------------------------
(***************************************************************************)
(* The dynamic recompiler (src/Core/r4300/recomp.cpp and src/Core/r4300/   *)
(* x86/gr4300.cpp, gspecial.cpp, gregimm.cpp, gbc.cpp, gcop1.cpp): how the *)
(* code of each kind of instruction uses the register cache, and what that *)
(* code does when it is run from any instruction of the block.             *)
(*                                                                         *)
(* What instructions compute is left out.  A place (an x86 register or a   *)
(* word of the N64 register file) either holds the current value of one    *)
(* half of an N64 register or something useless.                           *)
(***************************************************************************)
EXTENDS RegCache, SequencesExt

CONSTANTS
    Programs,    \* the instructions a block can be made of
    Quirks       \* instructions the generated code is known to get wrong

VARIABLES
    c,           \* the state of the compiler
    done         \* the block is finished

vars == <<c, done>>
-----------------------------------------------------------------------------
(* The code of an instruction is generated by a sequence of requests: to    *)
(* the register cache, whose answers are kept per operand in "at", as the   *)
(* registers of the low and of the high half; and for abstract instructions *)
(* on what it answered.                                                     *)

Operand(g, o) == IF o \in DOMAIN g.i THEN g.i[o] ELSE o

answered(g, o, s) == [g EXCEPT !.s = s, !.at[o] = <<s.ret, s.r64[s.ret]>>]

scratch(s, X) == emit(s, << <<"wreck", X>> >>)

(* A scratch register when the result shares one with an operand.           *)
temporary(s) == scratch(free_register(s, lru_register(s)), {lru_register(s)})

two_temporaries(s, x) ==
    scratch(free_register(free_register(s, x), lru_register_exc1(s, x)),
            {x, lru_register_exc1(s, x)})

in_memory(s) == simplify_access(free_all_registers(s))

x86(g, q) ==
    LET n == Operand(g, q[2])
        r == g.at[q[2]]
    IN  CASE q[1] = "use"       -> <<"use", r[1], Low(n)>>
          [] q[1] = "use_high"  -> <<"use", r[2], High(n)>>
          [] q[1] = "test"      -> <<"test", Low(n)>>
          [] q[1] = "test_high" -> <<"test", High(n)>>
          [] q[1] = "set32"     -> <<"set32", r[1], n>>
          [] q[1] = "set64"     -> <<"set64", r[1], r[2], n>>
          [] q[1] = "put"       -> <<"put", n>>
          [] q[1] = "call"      -> <<"call">>

perform(g, q) ==
    LET n == Operand(g, q[2])
        ret(s) == answered(g, q[2], s)
        rd == g.at.rd
    IN  CASE q[1] = "register"    -> ret(allocate_register(g.s, Low(n)))
          [] q[1] = "register_w"  -> ret(allocate_register_w(g.s, Low(n)))
          [] q[1] = "pair"        -> ret(allocate_64_register(g.s, n))
          [] q[1] = "pair_w"      -> ret(allocate_64_register_w(g.s, n))
          [] q[1] = "manually"    -> ret(allocate_register_manually(g.s, q[3], Low(n)))
          [] q[1] = "manually_w"  -> ret(allocate_register_manually_w(g.s, q[3], Low(n)))
          [] q[1] = "state"       -> ret(set_register_state(g.s, EAX, Low(n), TRUE))
          [] q[1] = "state_pair"  -> ret(set_64_register_state(g.s, EAX, ECX, n, TRUE))
          [] q[1] = "temporary"   ->
                [g EXCEPT !.s = IF \E o \in q[2] : rd[1] = g.at[o][1] THEN temporary(@) ELSE @]
          [] q[1] = "temporaries" ->
                [g EXCEPT !.s = IF ECX \in {rd[1], rd[2]}
                                THEN two_temporaries(force_32(@, ECX), lru_register(force_32(@, ECX)))
                                ELSE @]
          [] q[1] = "free_all"    -> [g EXCEPT !.s = free_all_registers(@)]
          [] q[1] = "in_memory"   -> [g EXCEPT !.s = in_memory(@)]
          [] OTHER                -> [g EXCEPT !.s = emit(@, << x86(g, q) >>)]

run(s, i, requests) ==
    LET start == [s |-> s, i |-> i,
                  at |-> [o \in {"rd", "rs", "rt", "hi", "lo"} |-> <<None, None>>]]
        after[k \in 0 .. Len(requests)] ==
            IF k = 0 THEN start ELSE perform(after[k - 1], requests[k])
    IN  after[Len(requests)].s
-----------------------------------------------------------------------------
(* Instructions with 32-bit operands.                                       *)

Use(o) == <<"use", o>>
Use64(o) == << <<"use", o>>, <<"use_high", o>> >>
Register(o) == <<"register", o>>
Pair(o) == <<"pair", o>>
Result32 == <<"set32", "rd">>
Result64 == <<"set64", "rd">>

(* ADD, ADDU, SUB, SUBU.                                                    *)
genadd == <<Register("rs"), Register("rt"), <<"register_w", "rd">>,
            <<"temporary", {"rs", "rt"}>>, Use("rs"), Use("rt"), Result32>>

(* SLL, SRL, SRA, ADDI, ADDIU, ANDI.                                        *)
gensll == <<Register("rt"), <<"register_w", "rd">>, Use("rt"), Result32>>

genlui == << <<"register_w", "rd">>, Result32>>

(* SLLV, SRLV, SRAV: the count is in ECX.                                   *)
gensllv == << <<"manually", "rs", ECX>>, Register("rt"), <<"register_w", "rd">>,
              <<"temporary", {"rs"}>>, Use("rs"), Use("rt"), Result32>>

(* MULT, MULTU, DIV, DIVU.  DIV and DIVU by zero jump over the division and *)
(* leave in LO and HI what EAX and EDX held: a new value all the same, as   *)
(* what a value is is left out.                                             *)
genmult == << <<"manually_w", "lo", EAX>>, <<"manually_w", "hi", EDX>>,
              Register("rs"), Register("rt"), Use("rs"), Use("rt"),
              <<"set32", "lo">>, <<"set32", "hi">> >>
-----------------------------------------------------------------------------
(* Instructions with 64-bit operands.                                       *)

(* AND, OR, XOR, NOR, DADD, DADDU, DSUB, DSUBU.                             *)
genand == <<Pair("rs"), Pair("rt"), <<"pair_w", "rd">>, <<"temporary", {"rs", "rt"}>> >>
          \o Use64("rs") \o Use64("rt") \o <<Result64>>

(* DSLL, DSRL, DSRA, ORI, XORI, DADDI, DADDIU.                              *)
gendsll == <<Pair("rt"), <<"pair_w", "rd">> >> \o Use64("rt") \o <<Result64>>

(* SLT, SLTU, SLTI, SLTIU, DSRA32: a 32-bit result.                         *)
genslt == <<Pair("rs"), Pair("rt"), <<"register_w", "rd">> >>
          \o Use64("rs") \o Use64("rt") \o <<Result32>>

(* MFHI, MFLO, MTHI, MTLO: the result is allocated first.                   *)
genmfhi == << <<"pair_w", "rd">>, Pair("rs")>> \o Use64("rs") \o <<Result64>>

(* DSLLV, DSRLV, DSRAV.  When the result shares ECX, force_32 gives up its  *)
(* high half before it is computed.                                         *)
gendsllv == << <<"manually", "rs", ECX>>, Pair("rt"), <<"pair_w", "rd">>, <<"temporaries">>,
               Use("rs")>> \o Use64("rt") \o <<Result64>>
-----------------------------------------------------------------------------
(* Instructions that work in memory.                                        *)

Test64(o) == << <<"test", o>>, <<"test_high", o>> >>

gencallinterp == << <<"in_memory">>, <<"call">> >>

(* DMULTU.                                                                  *)
gendmultu == << <<"in_memory">> >> \o Test64("rs") \o Test64("rt")
             \o << <<"put", "lo">>, <<"put", "hi">> >>

(* The instructions of the FPU can end in an exception, so that all of them *)
(* begin as a call; they use the registers of x86 without allocating them.  *)
gencheck_cop1_unusable == << <<"in_memory">> >> \o gencallinterp

(* MFC1, DMFC1, CFC1.                                                       *)
genmfc1 == gencheck_cop1_unusable \o << <<"put", "rd">> >>

(* MTC1, DMTC1, CTC1.                                                       *)
genmtc1 == gencheck_cop1_unusable \o Test64("rt")

(* LB, LH, LW, LBU, LHU: the register file is complete when the handler of  *)
(* the address is called.                                                   *)
genlw == << <<"in_memory">>, <<"test", "rs">>, <<"call">>, <<"state", "rd">>, Result32>>

(* LWU with EBX, LD with ECX.                                               *)
genld == << <<"in_memory">>, <<"test", "rs">>, <<"call">>, <<"state_pair", "rd">>, Result64>>

gensw == << <<"in_memory">>, <<"test", "rs">>, <<"test", "rt">>, <<"call">> >>
-----------------------------------------------------------------------------
(* Branches.                                                                *)

(* The condition: in registers, or in memory for what is not cached.        *)
genbeq_test(s, i) ==
    LET rs64 == is64(s, i.rs)
        rt64 == is64(s, i.rt)
        against(n, m) == <<Pair(n)>> \o Use64(n) \o Test64(m)
        both(n, m) == <<Pair(n), Pair(m)>> \o Use64(n) \o Use64(m)
    IN  IF rs64 = 0 /\ rt64 = 0 THEN <<Register("rs"), Register("rt"), Use("rs"), Use("rt")>>
        ELSE IF rs64 = -1 THEN against("rt", "rs")
        ELSE IF rt64 = -1 THEN against("rs", "rt")
        ELSE IF rs64 = 0 THEN both("rt", "rs") ELSE both("rs", "rt")

genblez_test(s, i) ==
    CASE is64(s, i.rs) = 0  -> <<Register("rs"), Use("rs")>>
      [] is64(s, i.rs) = -1 -> Test64("rs")
      [] OTHER              -> <<Pair("rs")>> \o Use64("rs")

(* The sign is in the high half.                                            *)
genbltz_test(s, i) ==
    CASE is64(s, i.rs) = 0  -> <<Register("rs"), Use("rs")>>
      [] is64(s, i.rs) = -1 -> << <<"test_high", "rs">> >>
      [] OTHER              -> <<Pair("rs"), <<"use_high", "rs">> >>

(* BLTZAL and its kin write the return address before the slot, where the   *)
(* register is.                                                             *)
genbranchlink(s, i) ==
    CASE is64(s, i.rd) = 0  -> << <<"register_w", "rd">>, Result32>>
      [] is64(s, i.rd) = -1 -> << <<"put", "rd">> >>
      [] OTHER              -> << <<"pair_w", "rd">>, Result64>>

(* The jump to itself: the cycles left are computed in EAX.                 *)
genj_idle(s) == scratch(s, {EAX})

gentest_idle(s) == temporary(s)

(* What comes before the slot, in up to two parts, of which the second is   *)
(* chosen by what the first leaves in the cache.                            *)
first_of(s, i) ==
    CASE i.op \in {"beq", "beq_idle", "beql"} -> genbeq_test(s, i)
      [] i.op = "blez"           -> genblez_test(s, i)
      [] i.op = "bltzal"         -> genbltz_test(s, i)
      [] i.op \in {"jr", "jalr"} -> << <<"in_memory">>, <<"test", "rs">> >>
      [] i.op \in {"j_idle", "jal"} -> <<>>

second_of(s, i) ==
    CASE i.op = "beq_idle" -> genbeq_test(s, i)
      [] i.op = "bltzal"   -> genbranchlink(s, i)
      [] i.op = "beql"     -> << <<"free_all">> >>
      [] OTHER             -> <<>>

idle(s, i) ==
    CASE i.op = "beq_idle" -> gentest_idle(s)
      [] i.op = "j_idle"   -> genj_idle(s)
      [] OTHER             -> s

then_second(s, i) == run(s, i, second_of(s, i))

test_of(s, i) == then_second(idle(run(s, i, first_of(s, i)), i), i)

Branches == {"beq", "beq_idle", "blez", "bltzal", "j_idle", "jal", "jr", "jalr", "beql"}

(* JAL and JALR write the return address after the slot.                    *)
genjal_link(s, i) == IF i.op \in {"jal", "jalr"} THEN run(s, i, << <<"put", "rd">> >>) ELSE s

(* The instructions that are not branches.                                  *)
recomp_ops ==
    [add |-> genadd, sll |-> gensll, lui |-> genlui, sllv |-> gensllv, mult |-> genmult,
     and |-> genand, dsll |-> gendsll, slt |-> genslt, mfhi |-> genmfhi, dsllv |-> gendsllv,
     lw |-> genlw, ld |-> genld, sw |-> gensw, dmultu |-> gendmultu,
     mfc1 |-> genmfc1, mtc1 |-> genmtc1, call |-> gencallinterp, nop |-> <<>>]

ASSUME RecompilerAssumption ==
    Programs \subseteq [op : Branches \cup DOMAIN recomp_ops, rd : N64, rs : N64, rt : N64]

generate(s, i) == run(s, i, recomp_ops[i.op])

(* The next instruction: local_addr, and what is cached as a modified       *)
(* 32-bit value.                                                            *)
advance(s) ==
    [s EXCEPT !.dst = @ + 1,
              !.start[s.dst + 1] = Len(s.code),
              !.narrow[s.dst + 1] = {n \in N64 : \E x \in Holders(s, Low(n)) :
                                                    s.dirty[x] /\ s.r64[x] = None}]

(* gendelayslot: the slot is compiled as part of the branch.                *)
gendelayslot(s, slot) ==
    free_all_registers(generate([s EXCEPT !.dst = @ + 1], slot))

(* A branch, its slot, the jumps out of the block, and the slot once more,  *)
(* for those who jump to it; after both nothing is cached.                  *)
leave_block(s, i) == emit(genjal_link(s, i), << <<"exit">> >>)

own_slot(s, k, slot) ==
    free_all_registers(generate(advance([s EXCEPT !.dst = k]), slot))

compile_branch(s, i, slot) ==
    own_slot(leave_block(gendelayslot(test_of(advance(s), i), slot), i), s.dst + 1, slot)
-----------------------------------------------------------------------------
Init == c = init_cache /\ done = FALSE

(* One round of the loop in recompile_block.                                *)
Compile(i) ==
    /\ ~done /\ c.dst < MaxLength
    /\ i.op \notin Branches
    /\ i \notin Quirks
    /\ c' = generate(advance(c), i)
    /\ UNCHANGED done

CompileBranch(i, slot) ==
    /\ ~done /\ c.dst + 1 < MaxLength
    /\ i.op \in Branches /\ slot.op \notin Branches
    /\ i \notin Quirks /\ slot \notin Quirks
    /\ c' = compile_branch(c, i, slot)
    /\ UNCHANGED done

(* genlink_subblock, and free_all_registers before passe2.                  *)
Finish ==
    /\ ~done /\ c.dst > 0
    /\ c' = emit(free_all_registers(c), << <<"exit">> >>)
    /\ done' = TRUE

Next ==
    \/ \E i \in Programs : Compile(i)
    \/ \E i, slot \in Programs : CompileBranch(i, slot)
    \/ Finish

Spec == Init /\ [][Next]_vars
-----------------------------------------------------------------------------
(* Running the code.  x: the value in each register.  current: the words of *)
(* the register file that are up to date.  narrow: the registers whose      *)
(* value is known to be a sign-extended 32-bit one.                         *)
Junk == <<"junk", 0>>

(* A new value of n: what held the old one is useless.                      *)
renew(r, n) ==
    [r EXCEPT !.x = [y \in X86 |-> IF @[y][1] = n THEN Junk ELSE @[y]],
              !.current = @ \ {Low(n), High(n)}]

execute(r, op) ==
    LET k == op[1] IN
    CASE ~r.on       -> r
      [] k = "load"  -> [r EXCEPT !.x[op[2]] = IF op[3] \in r.current THEN op[3] ELSE Junk]
      [] k = "store" -> [r EXCEPT !.current =
                            IF r.x[op[3]] = op[2] THEN @ \cup {op[2]} ELSE @ \ {op[2]}]
      [] k = "mov"   -> [r EXCEPT !.x[op[2]] = r.x[op[3]]]
      [] k = "sar"   -> [r EXCEPT !.x[op[2]] =
                            IF @[1] \in r.narrow /\ @[2] = 0 THEN High(@[1]) ELSE Junk]
      [] k = "use"   -> [r EXCEPT !.ok = @ /\ r.x[op[2]] = op[3]]
      [] k = "test"  -> [r EXCEPT !.ok = @ /\ op[2] \in r.current]
      [] k = "wreck" -> [r EXCEPT !.x = [y \in X86 |-> IF y \in op[2] THEN Junk ELSE @[y]]]
      [] k = "set32" -> [renew(r, op[3]) EXCEPT !.x[op[2]] = Low(op[3]), !.narrow = @ \cup {op[3]}]
      [] k = "set64" -> [renew(r, op[4]) EXCEPT !.x[op[2]] = Low(op[4]), !.x[op[3]] = High(op[4]),
                                                !.narrow = @ \ {op[4]}]
      [] k = "put"   -> [renew(r, op[2]) EXCEPT !.current = @ \cup {Low(op[2]), High(op[2])},
                                                !.narrow = @ \ {op[2]}]
      [] k = "call"  -> [r EXCEPT !.ok = @ /\ r.current = Addr, !.x = [y \in X86 |-> Junk],
                                  !.narrow = {}]
      [] k = "exit"  -> [r EXCEPT !.ok = @ /\ r.current = Addr, !.on = FALSE]

(* build_wrapper: whoever jumps to instruction k first loads what it needs, *)
(* and, for an entry that was never initialised, from wherever it points,   *)
(* which can end the emulator; here such a load is one that is of no use.   *)
enter(k) ==
    [x |-> [y \in X86 |-> IF c.needed[k][y] \in Addr THEN c.needed[k][y] ELSE Junk],
     current |-> Addr, narrow |-> c.narrow[k], ok |-> TRUE, on |-> TRUE]

run_from(k) ==
    FoldLeft(execute, enter(k), SubSeq(c.code, c.start[k] + 1, Len(c.code)))
-----------------------------------------------------------------------------
(* The register cache is consistent after every instruction.                *)
CacheConsistent == PairsMatch(c) /\ CachedOnce(c)

(* Whichever instruction of a block is entered, every operand the code      *)
(* reads is current, and the register file is complete whenever the block   *)
(* is left or a function is called, provided that the registers the block   *)
(* treats as 32-bit there hold sign-extended values.                        *)
BlockIsRight ==
    done => \A k \in 1 .. c.dst : LET r == run_from(k) IN r.ok /\ ~r.on
=============================================================================
