-------------------------------- MODULE Mips --------------------------------
(***************************************************************************)
(* What a MIPS program may rely on when instructions can be interrupted:   *)
(* exceptions are precise.  An instruction either completes or leaves no   *)
(* trace and is found in EPC; an instruction in a branch delay slot and    *)
(* its branch complete together, or EPC names the branch and BD is set.    *)
(***************************************************************************)
EXTENDS Integers, Sequences

CONSTANTS
    Code,      \* the program: an instruction for every address
    Paged,     \* the addresses that are mapped by the TLB
    Vector,    \* the general exception handler
    Refill,    \* the handler for a missing TLB entry
    Start      \* where the machine starts

VARIABLES
    pc,        \* the next instruction
    epc, bd,   \* where the last exception was taken, and whether in a slot
    exl,       \* exception level: an exception is being handled
    done       \* the instructions the last step completed, the slot before its branch

archVars == <<pc, epc, bd, exl, done>>

Jumps == {"j", "jal", "jr", "jalr"}
Branches == {"b", "bal", "bc1"}
Likely == {"bl", "ball", "bc1l"}
Control == Jumps \cup Branches \cup Likely
Accesses == {"mem", "load", "sc"}

State == [pc |-> pc, epc |-> epc, bd |-> bd, exl |-> exl]

Raise(s, at, inSlot, handler) ==
    [s EXCEPT !.epc = IF s.exl THEN @ ELSE at,
              !.bd  = IF s.exl THEN @ ELSE inSlot,
              !.exl = TRUE,
              !.pc  = handler]

Return(s) == [s EXCEPT !.pc = s.epc, !.exl = FALSE]

(* The handlers an instruction can enter instead of completing.            *)
Faults(a) ==
    (IF a \in Paged THEN {Refill, Vector} ELSE {})
    \cup (CASE Code[a].op \in Accesses -> {Refill, Vector}
            [] Code[a].op \in {"sys", "fp", "bc1", "bc1l"} -> {Vector}
            [] OTHER -> {})

(* One instruction, or a branch and its slot: what it completes, and the   *)
(* state after it.  An interrupt is taken before it or before the slot.    *)
Step(s) ==
    LET a == s.pc
        op == Code[a].op
        to(next, what) == [s |-> [s EXCEPT !.pc = next], done |-> what]
        outcomes == IF op \in Branches THEN {Code[a].target, a + 2} ELSE {Code[a].target}
    IN  {[s |-> Raise(s, a, FALSE, h), done |-> <<>>] : h \in Faults(a)}
        \cup (IF s.exl THEN {} ELSE {[s |-> Raise(s, a, FALSE, Vector), done |-> <<>>]})
        \cup
        CASE op = "sys"  -> {}
          [] op = "eret" -> {[s |-> Return(s), done |-> <<a>>]}
          [] op \in Control ->
                {[s |-> Raise(s, a, TRUE, h), done |-> <<>>] :
                     h \in Faults(a + 1) \cup (IF s.exl THEN {} ELSE {Vector})}
                \cup (IF op \in Likely THEN {to(a + 2, <<a>>)} ELSE {})
                \cup (IF Code[a + 1].op = "sys" THEN {}
                      ELSE {to(next, <<a + 1, a>>) : next \in outcomes})
          [] OTHER -> {to(a + 1, <<a>>)}

Then(r) == {[s |-> t.s, done |-> r.done \o t.done] : t \in Step(r.s)}

(* A few instructions and exceptions at a time.                            *)
Run ==
    LET one == Step(State)
        two == UNION {Then(r) : r \in one}
        three == UNION {Then(r) : r \in two}
    IN  \E r \in one \cup two \cup three :
            /\ State' = r.s
            /\ done' = r.done

PowerOn == [pc |-> Start, epc |-> -1, bd |-> FALSE, exl |-> FALSE]

Reset == State' = PowerOn /\ done' = <<>>

Init == State = PowerOn /\ done = <<>>

Next == Run \/ Reset

Spec == Init /\ [][Next]_archVars
=============================================================================
