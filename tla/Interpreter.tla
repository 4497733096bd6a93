---------------------------- MODULE Interpreter ----------------------------
(***************************************************************************)
(* How the two interpreters run branches, delay slots and exceptions       *)
(* (src/Core/r4300/pure_interp.cpp, r4300.cpp, regimm.cpp, bc.cpp,         *)
(* special.cpp, exception.cpp, interrupt.cpp).  A branch runs its delay    *)
(* slot as a call and then moves the program counter itself, so an         *)
(* exception in the slot leaves the handler's address in skip_jump, makes  *)
(* the next interrupt due at once and relies on the end of the branch to   *)
(* call gen_interrupt, which puts the handler's address back.  The step is *)
(* one round of the main loop.  What instructions compute is left out: an  *)
(* instruction is known by where it is, "done" lists the ones a round      *)
(* completes and "scars" the ones it leaves a trace of without completing  *)
(* them.  The loops that only wait are in Devices (J_IDLE).                *)
(***************************************************************************)
EXTENDS Integers, Sequences

CONSTANTS
    Code,        \* the program: address -> [op, target]; an address is a word
    Paged,       \* the addresses reached through the TLB
    Page(_),     \* the page of an address
    Vector,      \* 0x80000180
    Refill,      \* 0x80000000
    Handlers,    \* the addresses of the program's exception handlers
    Start,       \* 0xa4000040
    SwitchBack   \* whether the user goes from the pure to the cached interpreter

None == -1       \* no address; also what EPC holds at power on

ASSUME InterpreterAssumption ==
    /\ {Vector, Refill, Start} \subseteq DOMAIN Code
    /\ DOMAIN Code \subseteq Nat
    /\ {Vector, Refill} \cap Paged = {}
    /\ SwitchBack \in BOOLEAN

Jumps == {"j", "jal", "jr", "jalr"}
Linking == {"jal", "jalr"}
Likely == {"bl", "ball", "bc1l"}
Control == Jumps \cup Likely \cup {"b", "bal", "bc1"}
Cop1 == {"fp", "bc1", "bc1l"}

(* load: LB, LH, LW and the others that extend or merge what they have read *)
(* into the register; sc: SC; mem: the other accesses.  mtc0 writes Status, *)
(* count writes Count.                                                      *)
Accesses == {"mem", "load", "sc"}

(* Where an instruction goes on unless it raises an exception or returns.   *)
Following(a) ==
    IF Code[a].op \in {"sys", "eret"} THEN {}
    ELSE IF Code[a].op \in Jumps THEN {Code[a].target}
    ELSE IF Code[a].op \in Control THEN {Code[a].target, a + 2} ELSE {a + 1}

(* The programs: handlers lie in unmapped memory, are entered by exceptions *)
(* and left by ERET, and raise none.  No slot holds a branch, an ERET or a  *)
(* write to Status, nor lies on a mapped page that its branch is not on.    *)
ASSUME ProgramAssumption ==
    /\ Code \in [DOMAIN Code -> [op : Control \cup Accesses
                                            \cup {"op", "fp", "sys", "mtc0", "count", "eret"},
                                 target : DOMAIN Code]]
    /\ {Vector, Vector + 1, Refill} \subseteq Handlers
    /\ Handlers \subseteq DOMAIN Code \ Paged
    /\ Start \notin Handlers
    /\ \A a \in DOMAIN Code :
        /\ \A b \in Following(a) : b \in DOMAIN Code /\ (b \in Handlers <=> a \in Handlers)
        /\ Code[a].op \in Control =>
              /\ a + 1 \in DOMAIN Code
              /\ Code[a + 1].op \in {"op"} \cup IF a \in Handlers THEN {}
                                              ELSE Accesses \cup {"fp", "sys", "count"}
              /\ a + 1 \in Paged => Page(a) = Page(a + 1)
        /\ IF a \in Handlers THEN Code[a].op \in {"op", "mtc0", "count", "eret"} \cup (Control \ Cop1)
           ELSE Code[a].op # "eret"

VARIABLES
    m,           \* the machine, between two rounds of the main loop
    done,        \* the instructions the last round completed
    scars        \* the instructions it changed a register for, and did not complete

(* pure: which interpreter runs.  addr: interp_addr or PC->addr.  slot:     *)
(* delay_slot.  skip: skip_jump.  stale: interp_addr as an earlier run of   *)
(* the pure interpreter left it.  out, scar: done and scars so far.         *)
vars == <<m, done, scars>>

(* What is up to memory, devices and register contents in one round.        *)
Env == [fetch  : BOOLEAN,   \* an instruction's page is not mapped
        target : BOOLEAN,   \* nor is a jump's destination
        data   : BOOLEAN,   \* nor is the data a load or a store needs
        known  : BOOLEAN,   \* the address lies in the range of some TLB entry
        usable : BOOLEAN,   \* Status lets the program use the FPU
        taken  : BOOLEAN,   \* the branch condition
        due    : BOOLEAN]   \* next_interrupt <= Count, and the event raises an interrupt
-----------------------------------------------------------------------------
(* Exceptions.                                                              *)

(* In the cached interpreter a jump does nothing while skip_jump is set.    *)
set_pc(s, a) == IF ~s.pure /\ s.skip # None THEN s ELSE [s EXCEPT !.addr = a]

(* An exception in a delay slot leaves its handler to the end of the branch.*)
leave_to_branch(s, handler) == IF s.slot THEN [s EXCEPT !.skip = handler] ELSE s

(* Mutant of exception_general: EPC stays at the slot.                      *)
exception_general_at_slot(s) ==
    LET r == [set_pc(s, Vector) EXCEPT !.exl = TRUE, !.epc = s.addr, !.bd = s.slot]
    IN  leave_to_branch(r, r.addr)

exception_general(s) ==
    LET r == [set_pc(s, Vector) EXCEPT
                 !.exl = TRUE,
                 !.epc = IF s.slot THEN s.addr - 1 ELSE s.addr,
                 !.bd  = s.slot]
    IN  leave_to_branch(r, r.addr)

(* A fetch is found missing before the program counter moves, a data access *)
(* after.  The EPC adjustments are made at exception level too.             *)
TLB_refill_exception(s, data, known) ==
    LET handler == IF s.exl \/ known THEN Vector ELSE Refill
        base == IF s.exl THEN s.epc ELSE s.addr
        r == [set_pc(s, handler) EXCEPT
                 !.exl = TRUE,
                 !.epc = base - (IF s.slot THEN 1 ELSE 0) - (IF data THEN 1 ELSE 0),
                 !.bd  = s.slot]
    IN  leave_to_branch(r, IF ~s.pure /\ s.stale # None THEN s.stale ELSE r.addr)

(* The jump an exception in a delay slot interrupted, or a device event,    *)
(* which raises no interrupt at exception level.                            *)
gen_interrupt(s) ==
    IF s.skip # None THEN [s EXCEPT !.addr = s.skip, !.skip = None]
    ELSE IF s.exl THEN s ELSE exception_general(s)

(* "if (next_interrupt <= core_Count)": an exception in a delay slot sets   *)
(* next_interrupt to 0.                                                     *)
interrupt_test(s, e) == IF s.skip # None \/ e.due THEN gen_interrupt(s) ELSE s
-----------------------------------------------------------------------------
(* Instructions that are not branches.                                      *)

complete(s, a) == [s EXCEPT !.out = Append(@, a)]

plain(s) == complete([s EXCEPT !.addr = @ + 1], s.addr)

scarred(s, a) == [s EXCEPT !.scar = @ \cup {a}]

(* Loads and stores move the program counter first.  After a miss the pure  *)
(* interpreter still extends or merges the register of a load (the cached   *)
(* one looks at address before), and both still clear llbit and set the     *)
(* register of SC.                                                          *)
memory_access(s, e) ==
    LET next == [s EXCEPT !.addr = @ + 1]
        missed == TLB_refill_exception(next, TRUE, e.known)
        op == Code[s.addr].op
    IN  IF ~e.data THEN complete(next, s.addr)
        ELSE IF op = "sc" \/ (op = "load" /\ s.pure) THEN scarred(missed, s.addr) ELSE missed

check_cop1_unusable(s, e) == Code[s.addr].op \in Cop1 /\ ~e.usable

(* A write to Status can let an interrupt in.                               *)
mtc0_status(s, e) == interrupt_test(plain(s), e)

(* A write to Count takes the interrupt that is due before it, and then     *)
(* writes Count and moves the program counter, which is that of the handler.*)
mtc0_count(s, e) ==
    IF e.due /\ ~s.exl
    THEN [scarred(interrupt_test(s, e), s.addr) EXCEPT !.addr = @ + 1]
    ELSE plain(s)

jump_out(s, a, e) ==
    IF e.target /\ a \in Paged /\ ~s.pure /\ s.skip = None
    THEN TLB_refill_exception([s EXCEPT !.addr = a], FALSE, e.known)
    ELSE set_pc(s, a)

ERET(s, e) ==
    interrupt_test(jump_out(complete([s EXCEPT !.exl = FALSE], s.addr), s.epc, e), e)

simple(s, e) ==
    LET op == Code[s.addr].op IN
    IF check_cop1_unusable(s, e) THEN exception_general(s)
    ELSE CASE op \in Accesses -> memory_access(s, e)
           [] op = "sys"   -> exception_general(s)
           [] op = "mtc0"  -> mtc0_status(s, e)
           [] op = "count" -> mtc0_count(s, e)
           [] op = "eret"  -> ERET(s, e)
           [] OTHER        -> plain(s)
-----------------------------------------------------------------------------
(* Fetching.  The pure interpreter translates every address, the cached one *)
(* where a page begins.  The instruction after a missing one is the         *)
(* handler's first, and is run in the same round.                           *)
prefetch(s, e) ==
    IF e.fetch /\ s.addr \in Paged /\ (s.pure \/ Page(s.addr) # Page(s.addr - 1))
    THEN TLB_refill_exception(s, FALSE, e.known) ELSE s

(* The slot of a branch is fetched again only on a page of its own.         *)
delay_slot_op(s, e) ==
    LET entered == [s EXCEPT !.addr = @ + 1, !.slot = TRUE]
        fetched == IF Page(s.addr) = Page(s.addr + 1) THEN entered ELSE prefetch(entered, e)
    IN  [simple(fetched, e) EXCEPT !.slot = FALSE]
-----------------------------------------------------------------------------
(* Branches: the pure interpreter always moves the program counter, and the *)
(* cached one only if the slot has not raised an exception.                 *)

Goes(s, e) == Code[s.addr].op \in Jumps \/ e.taken

Completed(before, after) ==
    IF after.skip = None THEN complete(after, before.addr) ELSE after

(* A jump sets the counter; a branch adds its offset to what it finds.      *)
move_pure(s, r) ==
    LET to == Code[s.addr].target IN
    IF Code[s.addr].op \in Linking /\ r.skip # None THEN r
    ELSE IF Code[s.addr].op \in Jumps THEN [r EXCEPT !.addr = to]
    ELSE [r EXCEPT !.addr = @ + to - (s.addr + 2)]

move_cached(s, r, e) ==
    IF r.skip = None THEN jump_out(r, Code[s.addr].target, e) ELSE r

branch(s, e) ==
    LET r == delay_slot_op(s, e)
        c == Completed(s, r)
        moved == IF ~Goes(s, e) THEN c
                 ELSE IF s.pure THEN move_pure(s, c) ELSE move_cached(s, c, e)
    IN  interrupt_test(moved, e)

(* Mutant of branch_likely: the slot runs even when the branch is not taken.*)
branch_likely_with_slot(s, e) == branch(s, e)

(* Not taken, a likely branch skips its slot.                               *)
branch_likely(s, e) ==
    IF Goes(s, e) THEN branch(s, e)
    ELSE interrupt_test(complete([s EXCEPT !.addr = @ + 2], s.addr), e)

interp_op(s, e) ==
    LET op == Code[s.addr].op IN
    IF check_cop1_unusable(s, e) THEN exception_general(s)
    ELSE IF op \in Likely THEN branch_likely(s, e)
    ELSE IF op \in Control THEN branch(s, e) ELSE simple(s, e)
-----------------------------------------------------------------------------
Machine(isPure, left) ==
    [pure |-> isPure, addr |-> Start, slot |-> FALSE, skip |-> None, epc |-> None,
     bd |-> FALSE, exl |-> FALSE, stale |-> left, out |-> <<>>, scar |-> {}]

Init ==
    /\ \E isPure \in BOOLEAN : m = Machine(isPure, None)
    /\ done = <<>>
    /\ scars = {}

(* One round of pure_interpreter or of the loop in core_start.              *)
Round(e) ==
    LET s == interp_op(prefetch(m, e), e)
    IN  /\ m' = [s EXCEPT !.out = <<>>, !.scar = {}]
        /\ done' = s.out
        /\ scars' = s.scar

(* The user closes the ROM and starts one, with either interpreter.         *)
core_start(isPure) ==
    LET left == IF m.pure THEN m.addr ELSE m.stale
    IN  /\ SwitchBack \/ isPure \/ left = None
        /\ m' = Machine(isPure, IF isPure THEN None ELSE left)
        /\ done' = <<>>
        /\ scars' = {}

Next ==
    \/ \E e \in Env : Round(e)
    \/ \E isPure \in BOOLEAN : core_start(isPure)

Spec == Init /\ [][Next]_vars
-----------------------------------------------------------------------------
(* When Cause says that the exception was taken in a delay slot, EPC is the *)
(* address of the branch, from which the program can be resumed.            *)
BdMeansBranch == m.bd => Code[m.epc].op \in Control

Architecture == INSTANCE Mips WITH
    pc <- m.addr, epc <- m.epc, bd <- m.bd, exl <- m.exl

(* The instructions that are known to leave a trace when they raise an      *)
(* exception: a load in the pure interpreter, SC, and a write to Count.     *)
Excused(a) == Code[a].op \in {"sc", "count"} \/ (m.pure /\ Code[a].op = "load")

(* An interrupt that is taken by a write to Count (not in a delay slot)     *)
(* enters the handler at its second instruction.                            *)
CountInterrupted ==
    /\ Code[m.addr].op = "count" /\ ~m.exl
    /\ m' = [m EXCEPT !.addr = Vector + 1, !.epc = m.addr, !.bd = FALSE, !.exl = TRUE]
    /\ done' = <<>>
    /\ scars' = {m.addr}

(* The interpreters implement the architecture: whatever is interrupted, in *)
(* a delay slot or not, exceptions are precise and every instruction is     *)
(* completed once; what is interrupted leaves no trace unless it is one of  *)
(* Excused, and only the interrupt of a write to Count is not that of the   *)
(* architecture.                                                            *)
PreciseExceptions ==
    /\ Architecture!Init
    /\ [][(Architecture!Next /\ \A a \in scars' : Excused(a)) \/ CountInterrupted]_vars
=============================================================================
