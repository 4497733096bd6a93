---------------------------- MODULE MCRecompiler ----------------------------
(* Three registers, the zero register, and HI and LO: more halves than x86  *)
(* has registers, so that values are evicted.                               *)
EXTENDS Recompiler

I(op, rd, rs, rt) == [op |-> op, rd |-> rd, rs |-> rs, rt |-> rt]

Three == {<<"a", "b", "d">>, <<"a", "a", "b">>, <<"b", "d", "b">>}
Two == {<<"a", "b">>, <<"d", "a">>}

MCPrograms ==
    {I(op, t[1], t[2], t[3]) : op \in {"add", "and", "dsllv"}, t \in Three}
    \cup {I("dsll", t[1], "r0", t[2]) : t \in Two}
    \cup {I("ld", t[1], t[2], "r0") : t \in Two}
    \cup {I(op, "r0", t[1], t[2]) : op \in {"mult", "beq"}, t \in Two}
    \cup {I("add", "a", "b", "r0"), I("and", "d", "d", "d"), I("dsll", "b", "r0", "b")}
    \cup {I("slt", "a", "a", "b"), I("sllv", "b", "d", "b"), I("sll", "d", "r0", "a"), I("lw", "a", "b", "r0")}
    \cup {I("mfhi", "a", "hi", "r0"), I("mfhi", "lo", "b", "r0"), I("lui", "b", "r0", "r0"),
          I("sw", "r0", "a", "b"), I("call", "r0", "r0", "r0"), I("nop", "r0", "r0", "r0"),
          I("beq_idle", "r0", "a", "b"), I("beql", "r0", "b", "a"), I("blez", "r0", "a", "r0"),
          I("jr", "r0", "b", "r0"), I("jalr", "a", "b", "r0"), I("jal", "b", "r0", "r0"),
          I("bltzal", "b", "a", "r0"), I("dmultu", "r0", "a", "b"), I("mfc1", "a", "r0", "r0"),
          I("mtc1", "r0", "r0", "b"), I("j_idle", "r0", "r0", "r0")}

(* The jump to itself that computes in EAX while EAX may be cached, and the *)
(* 64-bit shift by the register it writes.                                  *)
MCQuirks == {i \in MCPrograms : i.op = "j_idle" \/ (i.op = "dsllv" /\ i.rd = i.rs)}
=============================================================================
